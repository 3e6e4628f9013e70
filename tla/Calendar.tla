-------------------------------- MODULE Calendar --------------------------------
(***************************************************************************)
(* A booking's own calendar (ikiku_match/models/ikiku_booking.py): what the  *)
(* open web is told of it, the three checks before it starts, and the two     *)
(* daily jobs that raise the checks and move the booking.  Who is booked, and *)
(* the ranking a failed check starts again, are Matching's.                   *)
(*                                                                         *)
(* Days are numbers.  The jobs run once a day each, at any moment of it, or   *)
(* miss a day; `raised', `moved' and `made' say what happened today.          *)
(***************************************************************************)
EXTENDS Integers

CONSTANTS
    None,
    LastDay,            \* bound: the days watched are 0..LastDay
    CHECKPOINT_DAYS,    \* the checks, each so many days before the start
    Spans               \* the dates a need may have: <<date_start, date_end or None>>

Checkpoints == DOMAIN CHECKPOINT_DAYS
States == {"confirmed", "at_risk", "in_progress", "done", "cancelled"}

VARIABLES
    today,
    booking,            \* None or [span, state, venue_public, disclosed]
    check,              \* None or Checkpoints -> [due, state, task]
    made,               \* whether it was made today (published_on)
    raised,             \* whether _cron_raise_due_checks ran today
    moved,              \* whether _cron_start_and_close_bookings ran today
    edited              \* whether staff changed the dates under the booking

vars == <<today, booking, check, made, raised, moved, edited>>

Days == 0..LastDay
TypeOK ==
    /\ today \in Days /\ {made, raised, moved, edited} \subseteq BOOLEAN
    /\ booking = None \/ /\ booking.span \in Spans /\ booking.state \in States
                         /\ booking.venue_public \in BOOLEAN /\ booking.disclosed \in BOOLEAN
    /\ check = None \/ \A c \in Checkpoints : /\ check[c].due \in Int
                                              /\ check[c].state \in {"pending", "confirmed", "failed"}
                                              /\ check[c].task \in {None, "open", "done"}

Start(b) == b.span[1]
Ended(b) == b.span[2] # None /\ b.span[2] < today
\* mutant: from the day before
StartsNow(b) == Start(b) <= today + 1
Started(b) == Start(b) <= today

\* _compute_venue_disclosed is stored: written again with the state, the dates and venue_public, and
\* not because a day has passed.
Stored(b) == [b EXCEPT !.disclosed = b.venue_public \/ Started(b)]
SetState(b, state) == Stored([b EXCEPT !.state = state])

\* public_payload: the business is the one field withheld.
Told(b) == [span |-> b.span, state |-> b.state, business |-> b.disclosed]

-----------------------------------------------------------------------------
Init == /\ today = 0 /\ booking = None /\ check = None
        /\ made = FALSE /\ raised = FALSE /\ moved = FALSE /\ edited = FALSE

\* create, with _schedule_checks: due so many days before the dates the booking has now.
Confirm(span) ==
    /\ booking = None
    /\ booking' = Stored([span |-> span, state |-> "confirmed", venue_public |-> FALSE,
                          disclosed |-> FALSE])
    /\ check' = [c \in Checkpoints |->
                    [due |-> span[1] - CHECKPOINT_DAYS[c], state |-> "pending", task |-> None]]
    /\ made' = TRUE
    /\ UNCHANGED <<today, raised, moved, edited>>

Write(b) == booking # None /\ booking' = b

\* action_cancel: whatever state the booking is in.
Cancel == Write(SetState(booking, "cancelled")) /\ UNCHANGED <<today, check, made, raised, moved, edited>>

\* Staff, in the form: the venue is made public or withheld; the need's dates change, the checks'
\* due days do not.
ShowVenue == /\ Write(Stored([booking EXCEPT !.venue_public = ~booking.venue_public]))
             /\ UNCHANGED <<today, check, made, raised, moved, edited>>
Edit(span) ==
    /\ booking # None /\ span # booking.span /\ ~edited
    /\ Write(Stored([booking EXCEPT !.span = span]))
    /\ edited' = TRUE
    /\ UNCHANGED <<today, check, made, raised, moved>>

\* action_confirm and action_fail of a check: its task is closed, or the booking is at risk.
Confirmed(c) ==
    /\ check # None
    /\ check' = [check EXCEPT ![c].state = "confirmed",
                              ![c].task = IF @ = None THEN None ELSE "done"]
    /\ UNCHANGED <<today, booking, made, raised, moved, edited>>
Failed(c) ==
    /\ check # None
    /\ check' = [check EXCEPT ![c].state = "failed"]
    /\ booking' = SetState(booking, "at_risk")
    /\ UNCHANGED <<today, made, raised, moved, edited>>

\* _cron_raise_due_checks: a task for each check that has come due and has none.
Due(c) ==
    /\ check[c].state = "pending" /\ check[c].due <= today /\ check[c].task = None
    /\ booking.state \in {"confirmed", "at_risk"}
RaiseDue ==
    /\ ~raised
    /\ check' = IF check = None THEN None
                ELSE [c \in Checkpoints |-> IF Due(c) THEN [check[c] EXCEPT !.task = "open"] ELSE check[c]]
    /\ raised' = TRUE
    /\ UNCHANGED <<today, booking, made, moved, edited>>

\* _cron_start_and_close_bookings: first what starts, then what has ended; without an end neither.
Starts(b) == b.state = "confirmed" /\ Started(b) /\ b.span[2] # None /\ ~Ended(b)
ClosesStarted(b) == b.state = "in_progress" /\ Ended(b) \* mutant: what never started stays
Closes(b) == b.state \in {"confirmed", "in_progress"} /\ Ended(b)
Move ==
    /\ ~moved
    /\ booking' = IF booking = None THEN None
                  ELSE IF Starts(booking) THEN SetState(booking, "in_progress")
                  ELSE IF Closes(booking) THEN SetState(booking, "done")
                  ELSE booking
    /\ moved' = TRUE
    /\ UNCHANGED <<today, check, made, raised, edited>>

Tick ==
    /\ today < LastDay /\ today' = today + 1
    /\ made' = FALSE /\ raised' = FALSE /\ moved' = FALSE
    /\ UNCHANGED <<booking, check, edited>>

Next ==
    \/ \E span \in Spans : Confirm(span) \/ Edit(span)
    \/ Cancel \/ ShowVenue \/ RaiseDue \/ Move \/ Tick
    \/ \E c \in Checkpoints : Confirmed(c) \/ Failed(c)

-----------------------------------------------------------------------------
\* The map is withheld until the shift begins, unless somebody made it public.
VenueWithheld ==
    booking # None /\ Told(booking).business => booking.venue_public \/ booking.span[1] <= today

\* Whoever is at work is at a place the record names, until staff move the dates under them.
WorkIsDisclosed ==
    booking # None /\ booking.state = "in_progress" /\ ~edited => Told(booking).business

\* Once the job has run, nothing that was there when it ran is past its last day and goes on -
\* but what is at risk, which no job ends.
Over ==
    booking # None /\ moved /\ ~made /\ ~edited /\ booking.state \in {"confirmed", "in_progress"} =>
        ~Ended(booking)

\* Each check is asked when it is due and once: a waiting booking's due checks have a task when
\* the job has run, none has one before, and a confirmed one leaves no task open.
AskedInTime ==
    check # None => \A c \in Checkpoints :
        /\ raised /\ ~made /\ booking.state = "confirmed" /\ check[c].state = "pending"
           /\ check[c].due <= today => check[c].task # None
        /\ check[c].task # None => check[c].due <= today
        /\ check[c].state = "confirmed" => check[c].task # "open"
===============================================================================
