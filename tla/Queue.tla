--------------------------------- MODULE Queue ---------------------------------
(***************************************************************************)
(* The queue of one café that is not hiring: ikiku_match/models/             *)
(* ikiku_favorite.py and the page that joins and leaves it (portal.py).       *)
(*                                                                         *)
(* A request reads the database as it was when it began (REPEATABLE READ), so *)
(* the lock it takes on the café orders the commits and hides nothing: joining *)
(* is two steps, the snapshot and the commit.  Entries are in the order of     *)
(* their commits; `saw' is how many of them the snapshot held.                 *)
(***************************************************************************)
EXTENDS Integers, Sequences, FiniteSets

CONSTANTS
    None,
    People,
    Holder,             \* the one the café belongs to
    Visits,             \* requests that may be open at once
    MaxEntries          \* bound: numbers drawn

VARIABLES
    entry,              \* ikiku.favorite: <<[partner, sequence, active, saw]>>
    visit,              \* Visits -> None or [partner, saw], a request to join
    listed              \* whether the café is verified and not suspended

vars == <<entry, visit, listed>>

Row == [partner : People, sequence : 1..MaxEntries, active : BOOLEAN, saw : 0..MaxEntries]
TypeOK ==
    /\ entry \in Seq(Row) /\ Len(entry) <= MaxEntries
    /\ visit \in [Visits -> {None} \cup [partner : People, saw : 0..MaxEntries]]
    /\ listed \in BOOLEAN

Seen(v) == 1..visit[v].saw
\* The place already held.  (Leaving is not undone, so what was active when the request began and
\* was left since is what its snapshot still shows: the request opened first.)
Mine(p, rows) == {i \in rows : entry[i].partner = p /\ entry[i].active}
MaxOf(S) == CHOOSE m \in S \cup {0} : \A n \in S : n <= m
\* mutant: only who still waits
DrawnByWaiting(v) == 1 + MaxOf({entry[i].sequence : i \in {j \in Seen(v) : entry[j].active}})
Drawn(v) == 1 + MaxOf({entry[i].sequence : i \in Seen(v)})
Once(p, n) == \A i \in DOMAIN entry : ~(entry[i].partner = p /\ entry[i].sequence = n)

\* _compute_position: those still waiting who joined before, and one.
Position(i) ==
    IF entry[i].active
    THEN 1 + Cardinality({j \in DOMAIN entry : entry[j].active /\ entry[j].sequence < entry[i].sequence})
    ELSE 0

-----------------------------------------------------------------------------
Init == entry = <<>> /\ visit = [v \in Visits |-> None] /\ listed = TRUE

\* workplace_queue: somebody presses «join»; who waits already is shown their place, and the
\* holder is sent back.
Opens(v, p) ==
    /\ listed /\ visit[v] = None /\ Len(entry) < MaxEntries
    /\ Mine(p, DOMAIN entry) = {} /\ p # Holder
    /\ visit' = [visit EXCEPT ![v] = [partner |-> p, saw |-> Len(entry)]]
    /\ UNCHANGED <<entry, listed>>

\* ikiku_join: the number after the greatest ever drawn there, as the request sees it.  One and the
\* same number twice for a person is refused.
Joins(v) ==
    /\ visit[v] # None /\ Len(entry) < MaxEntries
    /\ entry' = IF Once(visit[v].partner, Drawn(v))
                THEN Append(entry, [partner |-> visit[v].partner, sequence |-> Drawn(v),
                                    active |-> TRUE, saw |-> visit[v].saw])
                ELSE entry
    /\ visit' = [visit EXCEPT ![v] = None]
    /\ UNCHANGED listed

\* ikiku_leave: every place the person holds there; the numbers stay.
Leaves(p) ==
    /\ listed /\ Mine(p, DOMAIN entry) # {}
    /\ entry' = [i \in DOMAIN entry |->
                    IF i \in Mine(p, DOMAIN entry) THEN [entry[i] EXCEPT !.active = FALSE] ELSE entry[i]]
    /\ UNCHANGED <<visit, listed>>

\* Staff suspend the café, or verify it again.
Lists == listed' = ~listed /\ UNCHANGED <<entry, visit>>

Next ==
    \/ \E v \in Visits, p \in People : Opens(v, p)
    \/ \E v \in Visits : Joins(v)
    \/ \E p \in People : Leaves(p)
    \/ Lists

-----------------------------------------------------------------------------
\* «the third» is a fact about who came when: whoever asked after another was in has a greater
\* number, wherever that other is now, and stands behind them.
InOrder ==
    \A i \in DOMAIN entry : \A j \in 1..entry[i].saw :
        /\ entry[j].sequence < entry[i].sequence
        /\ entry[i].active /\ entry[j].active => Position(j) < Position(i)
\* One number for two, and one person twice, only when the requests overlapped.
OnePlaceEach ==
    \A i, j \in DOMAIN entry :
        /\ i < j
        /\ entry[i].sequence = entry[j].sequence
           \/ (entry[i].partner = entry[j].partner /\ entry[i].active /\ entry[j].active)
        => entry[j].saw < i
===============================================================================
