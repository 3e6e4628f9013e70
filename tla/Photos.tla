--------------------------------- MODULE Photos ---------------------------------
(***************************************************************************)
(* Photos of a person or a café, which a person looks at before anybody else     *)
(* does (ikiku_demand/models/ikiku_photo.py), and the one door they leave by       *)
(* (ikiku_portal/controllers/portal.py, _photo_upload to photo).                  *)
(*                                                                         *)
(* A request counts the owner's photos in the snapshot of its beginning and adds   *)
(* one at its end.  The door says how long a browser, or a cache on the way, may    *)
(* keep what it gave; whoever has a copy may show it again until then.             *)
(***************************************************************************)
EXTENDS Naturals, Sequences, FiniteSets

CONSTANTS
    None,
    Owners,             \* people and businesses that have photos
    Uploads,            \* requests that may be open at once
    PER_OWNER,
    MaxAge,             \* what the door says of a photo that is public, in ticks
    MaxPhotos,          \* bound: photos added
    LastTick            \* bound

VARIABLES
    clock,
    photo,              \* <<[owner, state]>>: ikiku.photo, None once removed
    upload,             \* Uploads -> None or [owner, kept]: how many its snapshot has
    keeps,              \* for each photo: until when a copy may be shown to anybody, 0 for none
    hidden,             \* for each photo: when it was last taken back, None if it never was public
    over                \* owners who had one more approved, or were counted twice at once

vars == <<clock, photo, upload, keeps, hidden, over>>

States == {"pending", "approved", "rejected"}
TypeOK ==
    /\ clock \in 0..LastTick /\ over \subseteq Owners
    /\ \A i \in DOMAIN photo : photo[i] = None \/ photo[i] \in [owner : Owners, state : States]
    /\ DOMAIN keeps = DOMAIN photo /\ DOMAIN hidden = DOMAIN photo
    /\ \A u \in Uploads : upload[u] = None \/ upload[u] \in [owner : Owners, kept : 0..MaxPhotos]

There == {i \in DOMAIN photo : photo[i] # None}
Public(i) == photo[i].state = "approved"
KeptWaiting(owner) == {i \in There : photo[i].owner = owner /\ photo[i].state = "pending"}  \* mutant
\* What counts against PER_OWNER: waiting and approved together.
Kept(owner) == {i \in There : photo[i].owner = owner /\ photo[i].state \in {"pending", "approved"}}

-----------------------------------------------------------------------------
Init ==
    /\ clock = 0 /\ photo = <<>> /\ keeps = <<>> /\ hidden = <<>> /\ over = {}
    /\ upload = [u \in Uploads |-> None]

\* _photo_upload: a request begins; ikiku_add counts in its snapshot, and adds one for staff to see.  A
\* file that is no picture, and a seventh photo, are refused.
Sends(u, owner) ==
    /\ upload[u] = None
    /\ upload' = [upload EXCEPT ![u] = [owner |-> owner, kept |-> Cardinality(Kept(owner))]]
    /\ UNCHANGED <<clock, photo, keeps, hidden, over>>
Refused(u) ==
    /\ upload[u] # None
    /\ upload' = [upload EXCEPT ![u] = None]
    /\ UNCHANGED <<clock, photo, keeps, hidden, over>>
Adds(u) ==
    /\ upload[u] # None /\ upload[u].kept < PER_OWNER /\ Len(photo) < MaxPhotos
    /\ photo' = Append(photo, [owner |-> upload[u].owner, state |-> "pending"])
    /\ keeps' = Append(keeps, 0) /\ hidden' = Append(hidden, None)
    /\ over' = IF upload[u].kept < Cardinality(Kept(upload[u].owner)) THEN over \cup {upload[u].owner} ELSE over
    /\ upload' = [upload EXCEPT ![u] = None]
    /\ UNCHANGED clock

\* action_approve, by staff; a photo that was rejected counts again, whatever came after it.
Approve(i) ==
    /\ photo' = [photo EXCEPT ![i].state = "approved"]
    /\ over' = IF photo[i].state = "rejected" THEN over \cup {photo[i].owner} ELSE over
    /\ UNCHANGED <<clock, upload, keeps, hidden>>
TakenBack(i) == hidden' = [hidden EXCEPT ![i] = IF Public(i) THEN clock ELSE @]
\* action_reject, by staff, with a reason written in the form.
Reject(i) ==
    /\ photo' = [photo EXCEPT ![i].state = "rejected"]
    /\ TakenBack(i)
    /\ UNCHANGED <<clock, upload, keeps, over>>
\* remove_photo, by its owner.
Remove(i) ==
    /\ photo' = [photo EXCEPT ![i] = None]
    /\ TakenBack(i)
    /\ UNCHANGED <<clock, upload, keeps, over>>

GivesAny(i, who) == TRUE                \* mutant: whoever has the address is given it
\* photo, the door: an approved one to anybody, any other to its owner and to staff.
Gives(i, who) == Public(i) \/ who \in {photo[i].owner, "staff"}
CacheAlways(i) == MaxAge               \* mutant: every answer may be kept
\* How long the answer may be kept by anybody.
Cache(i) == IF Public(i) THEN MaxAge ELSE 0
Look(i, who) ==
    /\ Gives(i, who)
    /\ keeps' = [keeps EXCEPT ![i] = IF clock + Cache(i) > @ THEN clock + Cache(i) ELSE @]
    /\ UNCHANGED <<clock, photo, upload, hidden, over>>
Tick == clock < LastTick /\ clock' = clock + 1 /\ UNCHANGED <<photo, upload, keeps, hidden, over>>

Next ==
    \/ Tick
    \/ \E u \in Uploads : Refused(u) \/ Adds(u) \/ \E owner \in Owners : Sends(u, owner)
    \/ \E i \in There : Approve(i) \/ Reject(i) \/ Remove(i)
                        \/ \E who \in Owners \cup {"staff", "anybody"} : Look(i, who)

-----------------------------------------------------------------------------
\* What others than its owner and staff can be shown, from the door or from a copy: a photo staff
\* approved, and one that was taken back for no longer than a copy may be kept.
Others(i) == (Owners \cup {"anybody"}) \ {photo[i].owner}
Shown(i) == (i \in There /\ \E who \in Others(i) : Gives(i, who)) \/ keeps[i] > clock
OnlyApproved ==
    \A i \in DOMAIN photo : Shown(i) => \/ i \in There /\ Public(i)
                                        \/ hidden[i] # None /\ clock < hidden[i] + MaxAge
\* Nobody keeps more than PER_OWNER but by two uploads at once, or by an approval that came late.
WithinLimit ==
    \A owner \in Owners :
       Cardinality({i \in There : photo[i].owner = owner /\ photo[i].state # "rejected"}) > PER_OWNER => owner \in over
===============================================================================
