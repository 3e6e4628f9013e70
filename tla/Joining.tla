-------------------------------- MODULE Joining --------------------------------
(***************************************************************************)
(* A worker's five pages (ikiku_portal/controllers/portal.py, _needs_name to   *)
(* join_how) and what staff do with what they wrote: activating the profile,    *)
(* ranking an availability for a need (ikiku_match/models/ikiku_proposal.py),   *)
(* booking it and opening it again.                                             *)
(*                                                                         *)
(* A request reads the database when it begins and writes when it ends; where a  *)
(* row it writes has changed meanwhile it starts over, and two requests that     *)
(* write different rows do not see each other.                                   *)
(***************************************************************************)
EXTENDS Integers, Sequences, FiniteSets

CONSTANTS
    None,
    Areas,              \* neighbourhoods
    CityOf,             \* Areas -> their cities
    Days,               \* the one day an availability is for
    Requests,           \* requests that may be open at once
    MaxRows             \* bound: availabilities written

VARIABLES
    person,             \* [name, place, claims, state]: the account, its skills, its resource
    row,                \* <<[day, place, state, how]>>: ikiku.availability
    proposal,           \* set of [row, terms, crossed]: ranked on these terms
    request,            \* Requests -> None or [page, arg, person, row, proposal]: what it read
    crossed             \* whether something was written while a request was open

vars == <<person, row, proposal, request, crossed>>

Places == Areas \cup {CityOf[a] : a \in Areas}
States == {"none", "draft", "submitted", "active"}
Rows == [day : Days, place : Places, state : {"open", "booked"}, how : BOOLEAN]
Terms(r) == <<r.day, r.place>>
TypeOK ==
    /\ person \in [name : BOOLEAN, place : {None} \cup Areas, claims : BOOLEAN, state : States]
    /\ row \in Seq(Rows) /\ Len(row) <= MaxRows /\ crossed \in BOOLEAN
    /\ \A p \in proposal : p.row \in DOMAIN row /\ p.terms \in Days \X Places /\ p.crossed \in BOOLEAN
    /\ \A q \in Requests : request[q] # None => request[q].page \in {"name", "where", "skills", "when", "how", "rank"}

\* _availability: the open one that begins last, 0 for none.
Current(rows) ==
    LET open == {i \in DOMAIN rows : rows[i].state = "open"}
    IN IF open = {} THEN 0 ELSE CHOOSE i \in open : \A j \in open : rows[i].day >= rows[j].day
\* _availability_referenced: a proposal names it (a booking is made from a proposal).
ReferencedNever(i, proposals) == FALSE     \* mutant: only bookings are looked for
Referenced(i, proposals) == \E p \in proposals : p.row = i

\* _worker_next: the page the person is sent to.
WorkerNext(who, rows) ==
    LET i == Current(rows)
    IN IF ~who.name THEN "name" ELSE IF who.place = None THEN "where" ELSE IF ~who.claims THEN "skills"
       ELSE IF i = 0 THEN "when" ELSE IF ~rows[i].how THEN "how" ELSE "me"
\* _after_worker_save
Saved(who, rows) ==
    IF who.state \in {"none", "draft"}
    THEN [who EXCEPT !.state = IF who.claims /\ Current(rows) # 0 THEN "submitted" ELSE "draft"]
    ELSE who

-----------------------------------------------------------------------------
Init ==
    /\ person = [name |-> FALSE, place |-> None, claims |-> FALSE, state |-> "none"]
    /\ row = <<>> /\ proposal = {} /\ request = [q \in Requests |-> None] /\ crossed = FALSE

Open == {q \in Requests : request[q] # None}
Begins(q, page, arg) ==
    /\ request[q] = None
    /\ crossed => Open = {}                                \* bound: requests overlap once
    /\ page = "when" => person.place # None              \* an availability has a place
    /\ page = "how" => Current(row) # 0
    /\ page = "rank" => /\ arg \in DOMAIN row /\ row[arg].state = "open" /\ person.state = "active"
                        /\ ~Referenced(arg, proposal)
    /\ request' = [request EXCEPT ![q] = [page |-> page, arg |-> arg, person |-> person, row |-> row,
                                          proposal |-> proposal]]
    /\ UNCHANGED <<person, row, proposal, crossed>>

Leaves(q) ==
    /\ crossed' = (crossed \/ Open # {q})
    /\ request' = [request EXCEPT ![q] = None]

\* The request's end: the account `who' and the availabilities `rows' it made of what it read.  It
\* starts over when the account or an availability it writes is no longer what it read, or when its
\* new availability's place in the table is taken by another's (which is then after it).
Ends(q, who, rows) ==
    LET seen == request[q]
        account == seen.person.state # who.state \/ seen.person.name # who.name \/ seen.person.place # who.place
        written == {i \in DOMAIN seen.row : seen.row[i] # rows[i]}
        made == IF Len(rows) > Len(seen.row) THEN <<rows[Len(rows)]>> ELSE <<>>
    IN /\ account => person = [seen.person EXCEPT !.claims = person.claims]
       /\ \A i \in written : row[i] = seen.row[i]
       /\ person' = [(IF account THEN who ELSE person) EXCEPT !.claims = @ \/ person.claims \/ who.claims]
       /\ row' = [i \in DOMAIN row |-> IF i \in written THEN rows[i] ELSE row[i]] \o made
       /\ Len(row') <= MaxRows
       /\ proposal' = {[p EXCEPT !.crossed = @ \/ (p.row \in written /\ p \notin seen.proposal)] : p \in proposal}
       /\ Leaves(q)

\* join_name and join_skills.
Name(q) ==
    LET who == [request[q].person EXCEPT !.name = TRUE]
    IN request[q].page = "name" /\ Ends(q, Saved(who, request[q].row), request[q].row)
Skills(q) ==
    LET who == [request[q].person EXCEPT !.claims = TRUE]
    IN request[q].page = "skills" /\ Ends(q, Saved(who, request[q].row), request[q].row)

\* join_where: the open availability follows, to the city, unless a proposal names it.
Where(q) ==
    LET seen == request[q]
        who == [seen.person EXCEPT !.place = seen.arg]
        i == Current(seen.row)
        rows == IF i # 0 /\ ~Referenced(i, seen.proposal)
                THEN [seen.row EXCEPT ![i].place = CityOf[seen.arg]] ELSE seen.row
    IN seen.page = "where" /\ Ends(q, Saved(who, rows), rows)

\* join_when, refused when the day is another availability's: the open one moves, or a new one is
\* written when a proposal names it.  Its place is the person's own.
When(q) ==
    LET seen == request[q]
        i == Current(seen.row)
        moves == i # 0 /\ ~Referenced(i, seen.proposal)
        rows == IF moves THEN [seen.row EXCEPT ![i].day = seen.arg, ![i].place = seen.person.place]
                ELSE Append(seen.row, [day |-> seen.arg, place |-> seen.person.place, state |-> "open", how |-> FALSE])
    IN /\ seen.page = "when"
       /\ \A j \in DOMAIN seen.row : seen.row[j].day = seen.arg => moves /\ j = i
       /\ Ends(q, Saved(seen.person, rows), rows)

\* join_how: also of an availability that a proposal names.
How(q) ==
    LET seen == request[q]
        rows == [seen.row EXCEPT ![Current(seen.row)].how = TRUE]
    IN seen.page = "how" /\ Ends(q, Saved(seen.person, rows), rows)

-----------------------------------------------------------------------------
\* build_for_demand: an open availability of an active resource, as it was when staff asked.
Rank(q) ==
    LET seen == request[q]
    IN /\ seen.page = "rank"
       /\ proposal' = proposal \cup {[row |-> seen.arg, terms |-> Terms(seen.row[seen.arg]),
                                      crossed |-> row[seen.arg] # seen.row[seen.arg]]}
       /\ Leaves(q)
       /\ UNCHANGED <<person, row>>
\* action_activate; a booking, and its cancelling.
Activate ==
    /\ person.state \in {"draft", "submitted"}
    /\ person' = [person EXCEPT !.state = "active"]
    /\ crossed' = (crossed \/ Open # {})
    /\ UNCHANGED <<row, proposal, request>>
Book(i) ==
    /\ Referenced(i, proposal)
    /\ row' = [row EXCEPT ![i].state = IF @ = "open" THEN "booked" ELSE "open"]
    /\ crossed' = (crossed \/ Open # {})
    /\ UNCHANGED <<person, proposal, request>>

Asks(page) == CASE page = "where" -> Areas [] page = "when" -> Days [] page = "rank" -> DOMAIN row
                [] OTHER -> {None}
Next ==
    \/ \E q \in Requests, page \in {"name", "where", "skills", "when", "how", "rank"} :
           \E arg \in Asks(page) : Begins(q, page, arg)
    \/ \E q \in Requests : /\ request[q] # None
                           /\ Name(q) \/ Skills(q) \/ Where(q) \/ When(q) \/ How(q) \/ Rank(q)
    \/ Activate
    \/ \E i \in DOMAIN row : Book(i)

-----------------------------------------------------------------------------
\* An availability that was ranked keeps the day and the place it was ranked on, unless it was being
\* written while it was ranked.
RankedKeeps == \A p \in proposal : p.crossed \/ Terms(row[p.row]) = p.terms

\* Of a person whose requests came one at a time: when no page is left to fill in, the profile is with
\* the staff; and they are free on one day in one place only.
PagesSubmit == ~crossed /\ WorkerNext(person, row) = "me" => person.state \in {"submitted", "active"}
FreeOnce == ~crossed => \A i, j \in DOMAIN row : row[i].day = row[j].day => i = j
===============================================================================
