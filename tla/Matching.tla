------------------------------- MODULE Matching -------------------------------
(***************************************************************************)
(* From a need to a booking: ikiku.demand, ikiku.proposal and ikiku.booking *)
(* of the addons ikiku_demand and ikiku_match.  A business declares a need, *)
(* workers free for it are ranked (proposals), staff accept one (a booking, *)
(* public at once), and bookings are put at risk, cancelled or run out.     *)
(*                                                                         *)
(* Each operation is a request and a transaction of its own: one step reads *)
(* the snapshot and decides, another commits (REPEATABLE READ).  Every      *)
(* write() touches its row, also when the values stay the same (write_date).*)
(* A commit that would overwrite a row written meanwhile is refused, and so *)
(* is one that ranks a worker twice for a need (UNIQUE).                    *)
(*                                                                         *)
(* Scores and texts are left out; so is what decides whether an open        *)
(* availability fits a need (its dates, its place, the kind of work, an     *)
(* active worker who does not hold the business): at every ranking any set  *)
(* of workers fits.  A worker has one availability.  A booking `in          *)
(* progress' is one `confirmed' here, and staff's free edits of rows in the *)
(* backend's forms are left out, but for bookings they make there.          *)
(***************************************************************************)
EXTENDS Naturals, FiniteSets, Functions

CONSTANTS
    Demands, Workers,
    Terms,              \* what a need asks for: position, kind of work, seats, dates, place
    Desks,              \* requests served side by side
    None,
    MaxBookings         \* bound: bookings ever made

ASSUME BoundAssumption == MaxBookings \in Nat
ASSUME DesksAssumption == IsFiniteSet(Desks)
ASSUME NoneAssumption == None \notin [demand : Demands]

VARIABLES
    demand,             \* the needs: id -> state and terms
    proposal,           \* the proposals: (need, worker) -> state, and the terms ranked on
    availability,       \* worker -> the state of their availability
    booking,            \* the bookings: 1, 2, ... -> need, worker, state
    work                \* each desk's transaction between its snapshot and its commit

vars == <<demand, proposal, availability, booking, work>>

OPEN_STATES == {"open", "proposed"}
LIVE_BOOKING_STATES == {"confirmed", "at_risk"}
DemandRow == [state : {"draft", "open", "proposed", "filled", "cancelled"}, terms : Terms]
ProposalRow == [state : {"proposed", "accepted", "expired"}, terms : Terms]
\* `accepted': made by accepting a proposal, and so with the worker's availability.
BookingRow == [demand : Demands, worker : Workers, accepted : BOOLEAN,
               state : {"confirmed", "at_risk", "done", "cancelled"}]
Pairs == Demands \X Workers
Ids == 1..MaxBookings

Partial(S, T) == UNION {[D -> T] : D \in SUBSET S}
Nothing == [x \in {} |-> None]
Only(x, y) == [z \in {x} |-> y]
Join(f, g) == [x \in DOMAIN f \cup DOMAIN g |-> IF x \in DOMAIN g THEN g[x] ELSE f[x]]

\* What a transaction will write: rows it writes, proposals it creates among them (`new') and
\* deletes (`drop'), bookings it makes (`book').
IsTx(t) ==
    /\ t.demand \in Partial(Demands, DemandRow)
    /\ t.proposal \in Partial(Pairs, ProposalRow)
    /\ t.new \subseteq DOMAIN t.proposal
    /\ t.drop \subseteq Pairs
    /\ t.availability \in Partial(Workers, {"open", "booked"})
    /\ t.booking \in Partial(Ids, BookingRow)
    /\ t.book \subseteq BookingRow
    /\ t.clean \in BOOLEAN

NoChange == [demand |-> Nothing, proposal |-> Nothing, new |-> {}, drop |-> {},
             availability |-> Nothing, booking |-> Nothing, book |-> {}, clean |-> TRUE]
\* A transaction that will be refused: what it meant to write no longer matters.
Lost == [NoChange EXCEPT !.clean = FALSE]
Idle(a) == work[a] = None

Begin(a, t) ==
    /\ Idle(a)
    /\ work' = [work EXCEPT ![a] = t]
    /\ UNCHANGED <<demand, proposal, availability, booking>>

-----------------------------------------------------------------------------
(* What the code reads *)

Exists(d) == d \in DOMAIN demand
Fresh(d) == ~Exists(d) /\ \A a \in Desks : ~Idle(a) => d \notin DOMAIN work[a].demand
ProposalsOf(d) == {p \in DOMAIN proposal : p[1] = d}

\* _ikiku_drop_proposals and _ikiku_close: the proposals nobody accepted
Waiting(d) == {p \in ProposalsOf(d) : proposal[p].state = "proposed"}

\* ikiku_live_bookings
LiveBookings(d) ==
    {i \in DOMAIN booking : booking[i].demand = d /\ booking[i].state \in LIVE_BOOKING_STATES}

\* build_for_demand: those of `fit' who are free and have no proposal for `d' yet
Candidates(d, fit, dropped) ==
    {<<d, w>> : w \in {w \in fit : /\ availability[w] = "open"
                                   /\ <<d, w>> \notin DOMAIN proposal \ dropped}}

Ranked(made, t) == [p \in made |-> [state |-> "proposed", terms |-> t]]

\* mutant: the need is marked only when it was not yet
MarkedOnce(d, made, row) ==
    IF made = {} \/ (Exists(d) /\ row = demand[d] /\ row.state = "proposed")
    THEN Nothing ELSE Only(d, [row EXCEPT !.state = "proposed"])

\* The end of build_for_demand: a need somebody was ranked for is `proposed'.
Marked(d, made, row) ==
    IF made = {} THEN Nothing ELSE Only(d, [row EXCEPT !.state = "proposed"])

-----------------------------------------------------------------------------
(* Requests *)

\* mutant: workers are ranked for a need that is not saved
DeclareUnsaved(a, d, t, fit) ==
    LET made == Candidates(d, fit, {})
    IN  /\ Fresh(d)
        /\ Begin(a, [NoChange EXCEPT !.proposal = Ranked(made, t), !.new = made])

\* A business's last question: the need is declared, and ranked at once.
Declare(a, d, t, fit) ==
    LET row == [state |-> "open", terms |-> t]
        made == Candidates(d, fit, {})
    IN  /\ Fresh(d)
        /\ Begin(a, [NoChange EXCEPT !.demand = Join(Only(d, row), Marked(d, made, row)),
                                     !.proposal = Ranked(made, t),
                                     !.new = made])

\* Staff write a need down in the backend.
Draft(a, d, t) ==
    /\ Fresh(d)
    /\ Begin(a, [NoChange EXCEPT !.demand = Only(d, [state |-> "draft", terms |-> t])])

\* action_open, from a page that may be old
Open(a, d) ==
    /\ Exists(d)
    /\ Begin(a, [NoChange EXCEPT !.demand = Only(d, [demand[d] EXCEPT !.state = "open"])])

\* _ikiku_check_closable
Closable(d) == Exists(d) /\ demand[d].state \in OPEN_STATES /\ LiveBookings(d) = {}

\* mutant: every proposal is dropped, accepted ones too
ChangeDropsAll(a, d, t, fit) ==
    LET row == [state |-> "open", terms |-> t]
        made == Candidates(d, fit, ProposalsOf(d))
    IN  /\ Closable(d)
        /\ t # demand[d].terms
        /\ Begin(a, [NoChange EXCEPT !.demand = Join(Only(d, row), Marked(d, made, row)),
                                     !.proposal = Ranked(made, t),
                                     !.new = made,
                                     !.drop = ProposalsOf(d)])

\* ikiku_apply_change: the proposals nobody accepted go, and workers are ranked again.
Change(a, d, t, fit) ==
    LET row == [state |-> "open", terms |-> t]
        made == Candidates(d, fit, Waiting(d))
    IN  /\ Closable(d)
        /\ t # demand[d].terms
        /\ Begin(a, [NoChange EXCEPT !.demand = Join(Only(d, row), Marked(d, made, row)),
                                     !.proposal = Ranked(made, t),
                                     !.new = made,
                                     !.drop = Waiting(d)])

\* mutant: the proposals of a closed need are left waiting
CloseAlone(a, d, end) ==
    /\ Closable(d)
    /\ Begin(a, [NoChange EXCEPT !.demand = Only(d, [demand[d] EXCEPT !.state = end])])

\* _ikiku_close: `filled', or `cancelled' with a reason
Close(a, d, end) ==
    /\ Closable(d)
    /\ Begin(a, [NoChange EXCEPT
                    !.demand = Only(d, [demand[d] EXCEPT !.state = end]),
                    !.proposal = [p \in Waiting(d) |-> [proposal[p] EXCEPT !.state = "expired"]]])

\* The desks about to make a booking: one each.
Booking == {a \in Desks : ~Idle(a) /\ work[a].book # {}}
RoomForOne == Cardinality(DOMAIN booking) + Cardinality(Booking) < MaxBookings
NewBooking(d, w, accepted) ==
    [demand |-> d, worker |-> w, accepted |-> accepted, state |-> "confirmed"]

\* action_accept, from a page that may be old: neither the proposal's state nor the need's, nor
\* the worker's availability is looked at again.
Accept(a, p) ==
    /\ p \in DOMAIN proposal
    /\ RoomForOne
    /\ Begin(a, [NoChange EXCEPT !.book = {NewBooking(p[1], p[2], TRUE)},
                                 !.availability = Only(p[2], "booked"),
                                 !.proposal = Only(p, [proposal[p] EXCEPT !.state = "accepted"])])

\* Staff make a booking in its form, which has no field for the availability.
Book(a, d, w) ==
    /\ Exists(d)
    /\ RoomForOne
    /\ Begin(a, [NoChange EXCEPT !.book = {NewBooking(d, w, FALSE)}])

\* action_fail of a check, action_flag_at_risk: the booking is at risk and the need is ranked
\* again; refused when the need is not open.
Fail(a, i, fit) ==
    LET d == booking[i].demand
        made == Candidates(d, fit, {})
    IN  /\ demand[d].state \in OPEN_STATES
        /\ Begin(a, [NoChange EXCEPT !.booking = Only(i, [booking[i] EXCEPT !.state = "at_risk"]),
                                     !.demand = Marked(d, made, demand[d]),
                                     !.proposal = Ranked(made, demand[d].terms),
                                     !.new = made])

\* mutant: a cancelled booking keeps the worker's availability
CancelKeeps(a, i) ==
    Begin(a, [NoChange EXCEPT !.booking = Only(i, [booking[i] EXCEPT !.state = "cancelled"])])

\* action_cancel
Cancel(a, i) ==
    Begin(a, [NoChange EXCEPT
                 !.booking = Only(i, [booking[i] EXCEPT !.state = "cancelled"]),
                 !.availability = IF booking[i].accepted THEN Only(booking[i].worker, "open")
                                  ELSE Nothing])

\* _cron_start_and_close_bookings, of bookings whose last day is past
RunOut(a, ended) ==
    /\ ended # {}
    /\ \A i \in ended : booking[i].state = "confirmed"
    /\ Begin(a, [NoChange EXCEPT !.booking =
                    [i \in ended |-> [booking[i] EXCEPT !.state = "done"]]])

-----------------------------------------------------------------------------
(* The end of a transaction *)

Meet(f, g) == DOMAIN f \cap DOMAIN g # {}
Conflict(t, u) ==
    \/ Meet(t.demand, u.demand)
    \/ (DOMAIN t.proposal \cup t.drop) \cap (DOMAIN u.proposal \cup u.drop) # {}
    \/ Meet(t.availability, u.availability)
    \/ Meet(t.booking, u.booking)

Commit(a) ==
    LET t == work[a]
        kept == Restrict(proposal, DOMAIN proposal \ t.drop)
        next == Cardinality(DOMAIN booking) + 1
    IN  /\ ~Idle(a)
        /\ t.clean
        /\ t.new \cap DOMAIN kept = {}
        /\ demand' = Join(demand, t.demand)
        /\ proposal' = Join(kept, t.proposal)
        /\ availability' = Join(availability, t.availability)
        /\ \/ t.book = {} /\ booking' = Join(booking, t.booking)
           \/ \E b \in t.book : booking' = Join(booking, Only(next, b))
        /\ work' = [o \in Desks |->
                      IF o = a THEN None
                      ELSE IF work[o] # None /\ Conflict(work[o], t)
                      THEN Lost ELSE work[o]]

\* The commit is refused, or the request dies: nothing is written.
Abort(a) ==
    /\ ~Idle(a)
    /\ work' = [work EXCEPT ![a] = None]
    /\ UNCHANGED <<demand, proposal, availability, booking>>

Init ==
    /\ demand = Nothing
    /\ proposal = Nothing
    /\ availability = [w \in Workers |-> "open"]
    /\ booking = Nothing
    /\ work = [a \in Desks |-> None]

Next ==
    \E a \in Desks :
        \/ \E d \in Demands, t \in Terms, fit \in SUBSET Workers : Declare(a, d, t, fit)
        \/ \E d \in Demands, t \in Terms : Draft(a, d, t)
        \/ \E d \in Demands : Open(a, d)
        \/ \E d \in Demands, t \in Terms, fit \in SUBSET Workers : Change(a, d, t, fit)
        \/ \E d \in Demands, end \in {"filled", "cancelled"} : Close(a, d, end)
        \/ \E p \in Pairs : Accept(a, p)
        \/ \E d \in Demands, w \in Workers : Book(a, d, w)
        \/ \E i \in DOMAIN booking, fit \in SUBSET Workers : Fail(a, i, fit)
        \/ \E i \in DOMAIN booking : Cancel(a, i)
        \/ \E ended \in SUBSET DOMAIN booking : RunOut(a, ended)
        \/ Commit(a)
        \/ Abort(a)

Spec == Init /\ [][Next]_vars

-----------------------------------------------------------------------------
(* Properties *)

\* Every variable has its type, proposals and bookings are of needs that exist, and bookings are
\* numbered without gaps.
TypeOK ==
    /\ demand \in Partial(Demands, DemandRow)
    /\ proposal \in Partial(Pairs, ProposalRow)
    /\ \A p \in DOMAIN proposal : Exists(p[1])
    /\ availability \in [Workers -> {"open", "booked"}]
    /\ booking \in Partial(Ids, BookingRow)
    /\ DOMAIN booking = 1..Cardinality(DOMAIN booking)
    /\ \A i \in DOMAIN booking : Exists(booking[i].demand)
    /\ DOMAIN work = Desks
    /\ \A a \in Desks : Idle(a) \/ IsTx(work[a])

\* "A change drops the proposals nobody accepted and ranks again, because other dates, a
\* different place or kind of work make the old ranking wrong": whatever a change, a failed
\* check and a closing do side by side, no proposal waits on terms the need has given up.
FreshRanking ==
    \A p \in DOMAIN proposal :
        proposal[p].state = "proposed" => proposal[p].terms = demand[p[1]].terms

\* A need that is filled or cancelled has nobody waiting to be accepted for it, not even a worker
\* ranked by a failed check while it was being closed.
NothingWaits ==
    \A p \in DOMAIN proposal :
        proposal[p].state = "proposed" => demand[p[1]].state \in OPEN_STATES

\* An accepted proposal outlives every later change or closing of its need: what a public
\* booking was made from is never dropped or called expired.
AcceptedStays ==
    \A i \in DOMAIN booking :
        booking[i].accepted =>
            LET p == <<booking[i].demand, booking[i].worker>>
            IN  p \in DOMAIN proposal /\ proposal[p].state = "accepted"

\* No worker stays `booked' once every booking that took their availability is cancelled,
\* however acceptances and cancellations of the same worker overlap.
NobodyStuck ==
    \A w \in Workers :
        availability[w] = "booked" =>
            \E i \in DOMAIN booking : /\ booking[i].worker = w
                                      /\ booking[i].accepted
                                      /\ booking[i].state # "cancelled"

\* "A need with a live booking is not changed or closed here: a booking is public, a commitment
\* cannot be quietly withdrawn".
UntouchedUnderABooking ==
    [][\A d \in DOMAIN demand :
          LiveBookings(d) # {} /\ demand[d].state \in OPEN_STATES =>
              /\ demand'[d].state \in OPEN_STATES
              /\ demand'[d].terms = demand[d].terms]_vars
=============================================================================
