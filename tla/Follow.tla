--------------------------------- MODULE Follow ---------------------------------
(***************************************************************************)
(* A café's place and its needs' places: a move of the café takes along the      *)
(* open needs that were at it (ikiku_match/models/ikiku_business.py), from the     *)
(* portal, the back office, a first need or an upgrade.                          *)
(*                                                                         *)
(* A move reads the needs and their bookings in the snapshot of its beginning and   *)
(* writes the café and the needs at its end; it starts over when a row it writes     *)
(* was written meanwhile, and does not see what is new.                            *)
(***************************************************************************)
EXTENDS Naturals, Sequences, FiniteSets

CONSTANTS
    None,
    Places,
    Hints,              \* what was typed of a place, beside its name
    Home,               \* where the holder lives, who also looks for work
    MaxNeeds,           \* bound
    MaxMoves            \* bound

VARIABLES
    cafe,               \* [place, hint]: ikiku.business
    need,               \* <<[place, hint, open, booked, ranked, with]>>: ikiku.demand
    move,               \* None or [to, cafe, need]: what the move under way read
    moves

vars == <<cafe, need, move, moves>>

\* `ranked' is the place the workers were ranked for, `with' whether the need is to go with the
\* café: its place was the café's when a person gave it, and no move has passed it by.
Needs == [place : Places, hint : Hints, open : BOOLEAN, booked : BOOLEAN, ranked : Places, with : BOOLEAN]
Spots == [place : {None} \cup Places, hint : Hints]
TypeOK ==
    /\ cafe \in Spots /\ need \in Seq(Needs) /\ Len(need) <= MaxNeeds /\ moves \in 0..MaxMoves
    /\ move = None \/ (move.to \in Spots /\ move.cafe \in Spots /\ move.need \in Seq(Needs))

\* Which needs a move from one spot to another takes along, of those it sees.
FollowsNew(old, new, n) == n.open /\ ~n.booked /\ n.place = new.place      \* mutant: read after the write
Follows(old, new, n) == n.open /\ ~n.booked /\ n.place = old.place
\* _ikiku_place_follow: the place is changed as on the café's own page, which ranks again; the hint
\* with it, or alone.
Followed(old, new, n) ==
    IF new.place = old.place THEN [n EXCEPT !.hint = new.hint]
    ELSE [n EXCEPT !.place = new.place, !.ranked = new.place,
                   !.hint = IF new.hint # old.hint THEN new.hint ELSE @]

-----------------------------------------------------------------------------
Init == cafe \in [place : {None, Home}, hint : Hints] /\ need = <<>> /\ move = None /\ moves = 0

\* write: a place or a hint is given, from business_where or the back office.
Begin(to) ==
    /\ move = None /\ moves < MaxMoves /\ to # cafe
    /\ moves' = moves + 1
    /\ move' = [to |-> to, cafe |-> cafe, need |-> need]
    /\ UNCHANGED <<cafe, need>>
\* The needs that a move takes along, by what it saw of them.
Taken(to, seen) == {i \in DOMAIN seen : Follows(cafe, to, seen[i])}
\* Another place for the café.  A need that was booked, or is not as the move saw it, stays behind.
Moved(to, seen) ==
    LET after(i) == IF i \in Taken(to, seen) THEN Followed(cafe, to, need[i]) ELSE need[i]
        along(i) == i \in DOMAIN seen /\ seen[i].with /\ ~seen[i].booked /\ need[i].with
    IN /\ cafe' = to
       /\ need' = [i \in DOMAIN need |->
                      [after(i) EXCEPT !.with = along(i) \/ after(i).place = to.place]]
\* A row it writes was written meanwhile (a booking writes none of them), or would have no place.
Clash ==
    \/ cafe # move.cafe
    \/ \E i \in Taken(move.to, move.need) :
          need[i] # [move.need[i] EXCEPT !.booked = need[i].booked] \/ move.to.place = None
End ==
    /\ move # None /\ ~Clash /\ Moved(move.to, move.need)
    /\ move' = None /\ UNCHANGED moves
Fails == move # None /\ Clash /\ move' = None /\ UNCHANGED <<cafe, need, moves>>

\* need_where: a need announced at a place, which teaches a café its first one.
Announce(at) ==
    /\ Len(need) < MaxNeeds
    /\ cafe' = IF cafe.place = None THEN at ELSE cafe
    /\ need' = Append([i \in DOMAIN need |-> [need[i] EXCEPT !.with = @ \/ need[i].place = cafe'.place]],
                      [place |-> at.place, hint |-> at.hint, open |-> TRUE, booked |-> FALSE,
                       ranked |-> at.place, with |-> at.place = cafe'.place])
    /\ UNCHANGED <<move, moves>>
\* need_where, for a change: ikiku_apply_change takes the place, and drops the hint that came with it.
Change(i, place) ==
    /\ need[i].open /\ ~need[i].booked
    /\ need' = [need EXCEPT ![i].place = place, ![i].ranked = place, ![i].with = place = cafe.place]
    /\ UNCHANGED <<cafe, move, moves>>
Close(i) ==
    /\ need[i].open /\ ~need[i].booked
    /\ need' = [need EXCEPT ![i].open = FALSE]
    /\ UNCHANGED <<cafe, move, moves>>
\* A booking is made, or ends.
Booked(i) ==
    /\ need[i].open
    /\ need' = [need EXCEPT ![i].booked = ~@]
    /\ UNCHANGED <<cafe, move, moves>>

Last == need[Len(need)]
\* _ikiku_place_from_needs: a café without a place, or with its holder's, learns that of its last need.
Upgrade ==
    /\ need # <<>> /\ cafe.place \in {None, Home} /\ cafe.place # Last.place
    /\ Moved([cafe EXCEPT !.place = Last.place], need)
    /\ UNCHANGED <<move, moves>>

Next ==
    \/ \E to \in Spots : Begin(to)
    \/ End \/ Fails \/ Upgrade
    \/ \E at \in [place : Places, hint : Hints] : Announce(at)
    \/ \E i \in DOMAIN need : Close(i) \/ Booked(i) \/ \E place \in Places : Change(i, place)

-----------------------------------------------------------------------------
\* A need at the café goes with it, by whatever way the café moves; and workers were ranked for where
\* it is.
GoesAlong == \A i \in DOMAIN need : /\ need[i].open /\ need[i].with => need[i].place = cafe.place
                                    /\ need[i].ranked = need[i].place
===============================================================================
