------------------------------- MODULE NeedDraft -------------------------------
(***************************************************************************)
(* Announcing a need through the five questions of the portal, and changing   *)
(* it through the same ones (ikiku_portal/controllers/portal.py, from          *)
(* _draft to need_cancel), by one person who holds one café or two.            *)
(*                                                                         *)
(* The answers so far are one value of the session.  A request reads the       *)
(* session when it begins and writes it whole when it ends, so the last of two  *)
(* tabs wins; what it does to the database it does at its end, where a clash     *)
(* would have made it start over.  In `tab' the page of a café is need_for.        *)
(***************************************************************************)
EXTENDS Integers, Sequences, FiniteSets, SequencesExt

CONSTANTS
    None,
    Businesses,
    First,              \* the café held from the start
    Tabs,               \* requests that may be open at once
    MaxNeeds,           \* bound: needs announced
    MaxRuns             \* bound: times through the questions

VARIABLES
    held,               \* the businesses the person holds
    draft,              \* the session's ikiku_need
    need,               \* <<[business, position, open, run, aimed]>>
    tab,                \* Tabs -> None or [page, draft, business]: what an open request read
    runs,               \* how many times the questions were begun
    lapped              \* whether a request has ended on a session it did not read

vars == <<held, draft, need, tab, runs, lapped>>

\* A position is told by the café it belongs to; the other answers by having been given.  `run'
\* numbers the times the questions were begun, `aimed' says a change was turned to another café.
Later == <<"type", "count", "when">>
Given == ToSet(Later)
Answers == [business : {None} \cup Businesses, edit : 0..MaxNeeds, position : {None} \cup Businesses,
            got : SUBSET Given, run : 0..MaxRuns, aimed : BOOLEAN]
Nothing == [business |-> None, edit |-> 0, position |-> None, got |-> {}, run |-> 0, aimed |-> FALSE]
Pages == {"who", "where"} \cup Given
TypeOK ==
    /\ held \subseteq Businesses /\ draft \in Answers /\ runs \in 0..MaxRuns /\ lapped \in BOOLEAN
    /\ \A i \in DOMAIN need : /\ need[i].business \in held /\ need[i].position \in held
                              /\ need[i].run \in 1..runs
    /\ \A t \in Tabs : tab[t] = None \/ (tab[t].page \in Pages \cup held /\ tab[t].draft \in Answers)

\* _business: the one the need being written is for, else the only one.
Business(d) ==
    IF d.business # None THEN d.business
    ELSE IF Cardinality(held) = 1 THEN CHOOSE b \in held : TRUE ELSE None
\* _changeable
Changeable(n) == n \in DOMAIN need /\ need[n].open
Complete(d) == d.position # None /\ d.got = Given

-----------------------------------------------------------------------------
Init ==
    /\ held = {First} /\ draft = Nothing /\ need = <<>> /\ runs = 0 /\ lapped = FALSE
    /\ tab = [t \in Tabs |-> None]

\* The pages that read the answers, as they stand when one begins; one that would turn the person back
\* to an earlier question changes nothing.
Before(page) == {Later[i] : i \in {j \in 1..Len(Later) - 1 : Later[j + 1] = page}}
Reads(page, d) ==
    CASE page = "who" -> Business(d) # None
      [] page \in Given -> d.position # None /\ Before(page) \subseteq d.got
      [] page = "where" -> Business(d) # None /\ Complete(d) /\ d.position = Business(d)
      [] page \in held -> TRUE                  \* need_for, of that café
Opens(t, page) ==
    /\ tab[t] = None /\ Reads(page, draft)
    /\ lapped => \A other \in Tabs : tab[other] = None         \* bound: they overlap once
    /\ tab' = [tab EXCEPT ![t] = [page |-> page, draft |-> draft, business |-> Business(draft)]]
    /\ UNCHANGED <<held, draft, need, runs, lapped>>

\* The end of a request, with draft d for the session to keep.
Keep(d) ==
    LET begun == d # Nothing /\ d.run = 0
    IN /\ runs' = IF begun THEN runs + 1 ELSE runs
       /\ runs' <= MaxRuns
       /\ draft' = IF begun THEN [d EXCEPT !.run = runs'] ELSE d
Ends(t, d) ==
    /\ Keep(d)
    /\ lapped' = (lapped \/ tab[t].draft # draft)
    /\ tab' = [tab EXCEPT ![t] = None]

\* need_who: a position of the café the need is for.
Who(t) ==
    /\ tab[t].page = "who"
    /\ Ends(t, [tab[t].draft EXCEPT !.position = tab[t].business])
    /\ UNCHANGED <<held, need>>
\* need_type, need_count, need_when: each after the one before it.
Says(t) ==
    /\ tab[t].page \in Given
    /\ Ends(t, [tab[t].draft EXCEPT !.got = @ \cup {tab[t].page}])
    /\ UNCHANGED <<held, need>>
\* need_for: the same answers, for another café - also when they change a need.
For(t) ==
    LET d == tab[t].draft
    IN /\ tab[t].page \in held
       /\ Ends(t, [d EXCEPT !.business = tab[t].page, !.aimed = @ \/ d.edit # 0])
       /\ UNCHANGED <<held, need>>

SavedKept(d) == d                       \* mutant: the answers stay in the session
Saved(d) == Nothing
\* need_where, the last question: the need is announced, or the change made, and the draft is gone.
\* A need nobody may change any more loses its change too.
Where(t) ==
    LET d == tab[t].draft
    IN /\ tab[t].page = "where" /\ Ends(t, Saved(d))
       /\ UNCHANGED held
       /\ \/ /\ d.edit # 0
             /\ need' = IF Changeable(d.edit)
                        THEN [need EXCEPT ![d.edit].position = d.position, ![d.edit].aimed = @ \/ d.aimed]
                        ELSE need
          \/ /\ d.edit = 0
             /\ Len(need) < MaxNeeds
             /\ need' = Append(need, [business |-> tab[t].business, position |-> d.position,
                                      open |-> TRUE, run |-> d.run, aimed |-> FALSE])

-----------------------------------------------------------------------------
(* The pages that read no answers: each is the moment it ends.               *)
\* need_new: nothing left over from a change that was not finished, and no café when it cannot be told
\* which.
New(b) ==
    /\ b \in held \/ (b = None /\ Cardinality(held) > 1)
    /\ Keep([Nothing EXCEPT !.business = b])
    /\ UNCHANGED <<held, need, tab, lapped>>
\* need_edit: every question already answered.
Edit(n) ==
    /\ Changeable(n)
    /\ Keep([Nothing EXCEPT !.business = need[n].business, !.edit = n,
                            !.position = need[n].position, !.got = Given])
    /\ UNCHANGED <<held, need, tab, lapped>>
\* need_close and need_cancel.
Close(n) ==
    /\ Changeable(n)
    /\ need' = [need EXCEPT ![n].open = FALSE]
    /\ UNCHANGED <<held, draft, tab, runs, lapped>>
\* business_name, for one more café: the draft starts again with it.
Name(b) ==
    /\ held' = held \cup {b}
    /\ Keep([Nothing EXCEPT !.business = b])
    /\ UNCHANGED <<need, tab, lapped>>

Next ==
    \/ \E t \in Tabs, page \in Pages \cup held : Opens(t, page)
    \/ \E t \in Tabs : tab[t] # None /\ (Who(t) \/ Says(t) \/ Where(t) \/ For(t))
    \/ \E b \in Businesses : Name(b)
    \/ \E b \in Businesses \cup {None} : New(b)
    \/ \E n \in DOMAIN need : Edit(n) \/ Close(n)

-----------------------------------------------------------------------------
\* Once through the questions is one need, unless a request ended on answers it had not read.
OneNeedEach ==
    ~lapped => \A i, j \in DOMAIN need : need[i].run = need[j].run => i = j

\* Whatever the tabs do, a need's position is one of its own café - unless the change was turned to
\* another café, which moves the position and not the need.
OwnPosition == \A n \in DOMAIN need : need[n].position = need[n].business \/ need[n].aimed
===============================================================================
