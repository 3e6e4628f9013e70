----------------------------- MODULE Office_proofs -----------------------------
(***************************************************************************)
(* What surrounds a match, for every value of the constants.  Each component     *)
(* runs beside the others and shares nothing with them, so each has an            *)
(* invariant of its own, which its own steps keep and nobody else's can touch.      *)
(***************************************************************************)
EXTENDS Office, BoundedInduction, FiniteSetTheorems, TLAPS

-----------------------------------------------------------------------------
\* The days of a booking.  The record and its checks are there together; a job that goes on was
\* started, by its dates, before it was at work.
Booked == [span : Spans, state : C!States, venue_public : BOOLEAN, disclosed : BOOLEAN]
Checked == [C!Checkpoints -> [due : Int, state : {"pending", "confirmed", "failed"}, task : {None, "open", "done"}]]
Flags == made \in BOOLEAN /\ raised \in BOOLEAN /\ moved \in BOOLEAN /\ edited \in BOOLEAN
Together == \/ booking = None /\ check = None
            \/ booking \in Booked /\ check \in Checked
AtWork == booking # None /\ booking.state = "in_progress" /\ ~edited => booking.span[1] <= today
Asked(c) ==
    /\ raised /\ ~made /\ booking.state = "confirmed" /\ check[c].state = "pending" /\ check[c].due <= today
       => check[c].task # None
    /\ check[c].task # None => check[c].due <= today
    /\ check[c].state = "confirmed" => check[c].task # "open"
CalendarInv ==
    /\ today \in 0..LastDay /\ Flags /\ Together /\ AtWork
    /\ C!VenueWithheld /\ C!WorkIsDisclosed /\ C!Over /\ C!AskedInTime

LEMMA CalendarStarts == C!Init => CalendarInv
<1>1. C!Init => today \in 0..LastDay
  BY CalendarAssumption DEF C!Init
<1>4. C!Init => Flags /\ Together
  BY DEF C!Init, Flags, Together
<1>2. C!Init => C!VenueWithheld /\ C!WorkIsDisclosed /\ C!Over /\ C!AskedInTime
  BY DEF C!Init, C!VenueWithheld, C!WorkIsDisclosed, C!Over, C!AskedInTime
<1>3. C!Init => AtWork
  BY DEF C!Init, AtWork
<1>. QED BY <1>1, <1>2, <1>3, <1>4 DEF CalendarInv

\* What is stored is the same booking, told of when the map may be.
LEMMA StoredKeeps ==
    ASSUME NEW b \in Booked
    PROVE  /\ C!Stored(b) \in Booked /\ C!Stored(b).span = b.span /\ C!Stored(b).state = b.state
           /\ C!Stored(b).venue_public = b.venue_public
           /\ C!Stored(b).disclosed <=> b.venue_public \/ b.span[1] <= today
<1>1. (b.venue_public \/ b.span[1] <= today) \in BOOLEAN
  OBVIOUS
<1>. QED BY <1>1 DEF C!Stored, C!Started, C!Start, Booked

LEMMA CalendarSteps == ASSUME CalendarInv, [C!Next]_calendar PROVE CalendarInv'
<1>. USE CalendarAssumption
<1>0. SUFFICES ASSUME C!Next PROVE CalendarInv'
  BY DEF calendar, CalendarInv, Flags, Together, AtWork, C!VenueWithheld, C!WorkIsDisclosed, C!Over, C!AskedInTime,
     C!Told, C!Ended
<1>. USE DEF CalendarInv
<1>1. ASSUME NEW span \in Spans, C!Confirm(span) PROVE CalendarInv'
  <2>. DEFINE new == [span |-> span, state |-> "confirmed", venue_public |-> FALSE, disclosed |-> FALSE]
  <2>1. new \in Booked
    BY DEF Booked, C!States
  <2>2. /\ booking' \in Booked /\ booking'.span = span /\ booking'.state = "confirmed"
        /\ booking'.disclosed <=> booking'.venue_public \/ span[1] <= today
    BY <1>1, <2>1, StoredKeeps DEF C!Confirm
  <2>3. /\ check' \in Checked
        /\ \A c \in C!Checkpoints : check'[c].task = None /\ check'[c].state = "pending"
    <3>1. \A c \in C!Checkpoints : span[1] - CHECKPOINT_DAYS[c] \in Int
      BY DEF C!Checkpoints
    <3>. QED BY <1>1, <3>1 DEF C!Confirm, Checked
  <2>4. made' = TRUE /\ UNCHANGED <<today, raised, moved, edited>>
    BY <1>1 DEF C!Confirm
  <2>5. C!VenueWithheld' /\ C!WorkIsDisclosed' /\ C!Over' /\ AtWork' /\ Together' /\ Flags'
    BY <2>2, <2>3, <2>4 DEF C!VenueWithheld, C!WorkIsDisclosed, C!Over, AtWork, Together, Flags, C!Told
  <2>6. C!AskedInTime'
    BY <2>3, <2>4 DEF C!AskedInTime
  <2>. QED BY <2>4, <2>5, <2>6
\* What staff write on the booking alone.
<1>2. ASSUME booking # None, NEW b \in Booked, booking' = C!Stored(b),
             UNCHANGED <<today, check, made, raised, moved>>,
             \/ b.span = booking.span /\ b.state \in {booking.state, "cancelled"} /\ edited' = edited
             \/ b.state = booking.state /\ edited' = TRUE
      PROVE  CalendarInv'
  <2>1. /\ booking' \in Booked /\ booking'.span = b.span /\ booking'.state = b.state
        /\ booking'.venue_public = b.venue_public
        /\ booking'.disclosed <=> b.venue_public \/ b.span[1] <= today
    BY <1>2, StoredKeeps
  <2>2. booking \in Booked /\ check \in Checked
    BY <1>2 DEF Together
  <2>3. Flags' /\ Together'
    BY <1>2, <2>1, <2>2 DEF Flags, Together
  <2>4. AtWork' /\ C!VenueWithheld' /\ C!WorkIsDisclosed'
    BY <1>2, <2>1, <2>2 DEF AtWork, C!VenueWithheld, C!WorkIsDisclosed, C!Told, Booked, C!States
  <2>5. C!Over'
    BY <1>2, <2>1, <2>2 DEF C!Over, C!Ended
  <2>6. C!AskedInTime'
    BY <1>2, <2>1, <2>2 DEF C!AskedInTime
  <2>. QED BY <1>2, <2>3, <2>4, <2>5, <2>6
<1>3. CASE C!Cancel
  <2>1. booking \in Booked
    BY <1>3 DEF Together, C!Cancel, C!Write
  <2>2. [booking EXCEPT !.state = "cancelled"] \in Booked
    BY <2>1 DEF Booked, C!States
  <2>. QED BY <1>2, <1>3, <2>1, <2>2 DEF C!Cancel, C!Write, C!SetState, Booked
<1>4. CASE C!ShowVenue
  <2>1. booking \in Booked
    BY <1>4 DEF Together, C!ShowVenue, C!Write
  <2>2. [booking EXCEPT !.venue_public = ~booking.venue_public] \in Booked
    BY <2>1 DEF Booked
  <2>. QED BY <1>2, <1>4, <2>1, <2>2 DEF C!ShowVenue, C!Write, Booked
<1>5. ASSUME NEW span \in Spans, C!Edit(span) PROVE CalendarInv'
  <2>1. booking \in Booked
    BY <1>5 DEF Together, C!Edit
  <2>2. [booking EXCEPT !.span = span] \in Booked
    BY <2>1 DEF Booked
  <2>. QED BY <1>2, <1>5, <2>1, <2>2 DEF C!Edit, C!Write, Booked
\* The checks: one is confirmed or failed, the job raises those that are due.
<1>6. ASSUME NEW c \in C!Checkpoints, C!Confirmed(c) PROVE CalendarInv'
  <2>1. booking \in Booked /\ check \in Checked
    BY <1>6 DEF Together, C!Confirmed
  <2>2. /\ check' \in Checked
        /\ \A d \in C!Checkpoints : d # c => check'[d] = check[d]
        /\ check'[c].state = "confirmed" /\ check'[c].due = check[c].due
        /\ check'[c].task = IF check[c].task = None THEN None ELSE "done"
    BY <1>6, <2>1 DEF C!Confirmed, Checked
  <2>3. UNCHANGED <<today, booking, made, raised, moved, edited>>
    BY <1>6 DEF C!Confirmed
  <2>4. Flags' /\ Together' /\ AtWork' /\ C!VenueWithheld' /\ C!WorkIsDisclosed' /\ C!Over'
    BY <2>1, <2>2, <2>3 DEF Flags, Together, AtWork, C!VenueWithheld, C!WorkIsDisclosed, C!Over, C!Told, C!Ended
  <2>5. ASSUME NEW d \in C!Checkpoints PROVE Asked(d)'
    <3>1. Asked(d) /\ check[d] \in [due : Int, state : {"pending", "confirmed", "failed"}, task : {None, "open", "done"}]
      BY <1>6, <2>1 DEF C!Confirmed, C!AskedInTime, Asked, Checked
    <3>2. CASE d = c
      <4>1. check'[d].state = "confirmed" /\ check'[d].due = check[d].due
            /\ check'[d].task = IF check[d].task = None THEN None ELSE "done"
        BY <2>2, <3>2
      <4>2. today' = today
        BY <2>3
      <4>. QED BY <3>1, <4>1, <4>2 DEF Asked
    <3>3. CASE d # c
      BY <2>2, <2>3, <3>1, <3>3 DEF Asked
    <3>. QED BY <3>2, <3>3
  <2>6. C!AskedInTime'
    BY <2>5 DEF C!AskedInTime, Asked
  <2>. QED BY <2>3, <2>4, <2>6
<1>7. ASSUME NEW c \in C!Checkpoints, C!Failed(c) PROVE CalendarInv'
  <2>1. booking \in Booked /\ check \in Checked
    BY <1>7 DEF Together, C!Failed
  <2>2. /\ check' \in Checked
        /\ \A d \in C!Checkpoints : d # c => check'[d] = check[d]
        /\ check'[c].state = "failed" /\ check'[c].due = check[c].due /\ check'[c].task = check[c].task
    BY <1>7, <2>1 DEF C!Failed, Checked
  <2>3. [booking EXCEPT !.state = "at_risk"] \in Booked
    BY <2>1 DEF Booked, C!States
  <2>4. /\ booking' \in Booked /\ booking'.state = "at_risk"
        /\ booking'.disclosed <=> booking'.venue_public \/ booking'.span[1] <= today
    BY <1>7, <2>1, <2>3, StoredKeeps DEF C!Failed, C!SetState, Booked
  <2>5. UNCHANGED <<today, made, raised, moved, edited>>
    BY <1>7 DEF C!Failed
  <2>6. Flags' /\ Together' /\ AtWork' /\ C!VenueWithheld' /\ C!WorkIsDisclosed' /\ C!Over'
    BY <2>2, <2>4, <2>5 DEF Flags, Together, AtWork, C!VenueWithheld, C!WorkIsDisclosed, C!Over, C!Told
  <2>7. ASSUME NEW d \in C!Checkpoints PROVE Asked(d)'
    <3>1. Asked(d) /\ check[d] \in [due : Int, state : {"pending", "confirmed", "failed"}, task : {None, "open", "done"}]
      BY <1>7, <2>1 DEF C!Failed, C!AskedInTime, Asked, Checked
    <3>2. CASE d = c
      BY <2>2, <2>4, <2>5, <3>1, <3>2 DEF Asked
    <3>3. CASE d # c
      BY <2>2, <2>4, <2>5, <3>1, <3>3 DEF Asked
    <3>. QED BY <3>2, <3>3
  <2>8. C!AskedInTime'
    BY <2>7 DEF C!AskedInTime, Asked
  <2>. QED BY <2>5, <2>6, <2>8
<1>8. CASE C!RaiseDue
  <2>1. UNCHANGED <<today, booking, made, moved, edited>> /\ raised' = TRUE
    BY <1>8 DEF C!RaiseDue
  <2>2. CASE check = None
    <3>1. check' = None
      BY <1>8, <2>2 DEF C!RaiseDue
    <3>. QED BY <2>1, <2>2, <3>1 DEF Flags, Together, AtWork, C!VenueWithheld, C!WorkIsDisclosed, C!Over, C!AskedInTime,
       C!Told, C!Ended
  <2>3. CASE check # None
    <3>1. booking \in Booked /\ check \in Checked
      BY <2>3 DEF Together
    <3>2. /\ check' \in Checked
          /\ \A c \in C!Checkpoints :
                /\ check'[c].state = check[c].state /\ check'[c].due = check[c].due
                /\ check'[c].task = IF C!Due(c) THEN "open" ELSE check[c].task
      BY <1>8, <2>3, <3>1 DEF C!RaiseDue, Checked
    <3>3. Flags' /\ Together' /\ AtWork' /\ C!VenueWithheld' /\ C!WorkIsDisclosed' /\ C!Over'
      BY <2>1, <3>1, <3>2 DEF Flags, Together, AtWork, C!VenueWithheld, C!WorkIsDisclosed, C!Over, C!Told, C!Ended
    <3>4. ASSUME NEW d \in C!Checkpoints PROVE Asked(d)'
      <4>1. Asked(d) /\ check[d] \in [due : Int, state : {"pending", "confirmed", "failed"}, task : {None, "open", "done"}]
        BY <2>3, <3>1 DEF C!AskedInTime, Asked, Checked
      <4>2. CASE C!Due(d)
        <5>1. check'[d].task = "open" /\ check'[d].state = "pending" /\ check'[d].due <= today
          BY <3>2, <4>2 DEF C!Due
        <5>. QED BY <2>1, <5>1 DEF Asked
      <4>3. CASE ~C!Due(d)
        <5>1. check'[d].task = check[d].task /\ check'[d].state = check[d].state /\ check'[d].due = check[d].due
          BY <3>2, <4>3
        <5>2. today' = today /\ booking' = booking
          BY <2>1
        <5>3. ~(booking.state = "confirmed" /\ check[d].state = "pending" /\ check[d].due <= today /\ check[d].task = None)
          BY <4>3 DEF C!Due
        <5>. QED BY <4>1, <5>1, <5>2, <5>3 DEF Asked
      <4>. QED BY <4>2, <4>3
    <3>5. C!AskedInTime'
      BY <3>4 DEF C!AskedInTime, Asked
    <3>. QED BY <2>1, <3>3, <3>5
  <2>. QED BY <2>2, <2>3
\* The job that starts and ends bookings, and a day that passes.
<1>9. CASE C!Move
  <2>1. UNCHANGED <<today, check, made, raised, edited>> /\ moved' = TRUE
    BY <1>9 DEF C!Move
  <2>2. CASE booking = None
    <3>1. booking' = None
      BY <1>9, <2>2 DEF C!Move
    <3>. QED BY <2>1, <2>2, <3>1 DEF Flags, Together, AtWork, C!VenueWithheld, C!WorkIsDisclosed, C!Over, C!AskedInTime,
       C!Told, C!Ended
  <2>3. CASE booking # None
    <3>1. booking \in Booked /\ check \in Checked
      BY <2>3 DEF Together
    <3>2. PICK state \in {booking.state, "in_progress", "done"} :
             /\ booking' = C!SetState(booking, state) \/ (booking' = booking /\ state = booking.state)
             /\ state = "in_progress" /\ booking.state # "in_progress" => booking.span[1] <= today
             /\ state \in {"confirmed", "in_progress"} => ~C!Ended(booking)
             /\ state = "confirmed" => booking.state = "confirmed"
      BY <1>9, <2>3, <3>1 DEF C!Move, C!Starts, C!Closes, C!Started, C!Start
    <3>3. [booking EXCEPT !.state = state] \in Booked
      BY <3>1, <3>2 DEF Booked, C!States
    <3>4. /\ booking' \in Booked /\ booking'.span = booking.span /\ booking'.state = state
          /\ \/ booking'.disclosed <=> booking'.venue_public \/ booking'.span[1] <= today
             \/ booking' = booking
      BY <3>1, <3>2, <3>3, StoredKeeps DEF C!SetState, Booked
    <3>5. Flags' /\ Together'
      BY <2>1, <3>1, <3>4 DEF Flags, Together
    <3>6. AtWork'
      BY <2>1, <2>3, <3>1, <3>2, <3>4 DEF AtWork
    <3>7. C!VenueWithheld' /\ C!WorkIsDisclosed'
      BY <2>1, <2>3, <3>4, <3>6 DEF AtWork, C!VenueWithheld, C!WorkIsDisclosed, C!Told
    <3>8. C!Over'
      BY <2>1, <3>2, <3>4 DEF C!Over, C!Ended
    <3>9. C!AskedInTime'
      BY <2>1, <3>2, <3>4 DEF C!AskedInTime
    <3>. QED BY <2>1, <3>5, <3>6, <3>7, <3>8, <3>9
  <2>. QED BY <2>2, <2>3
<1>10. CASE C!Tick
  <2>1. /\ today' = today + 1 /\ today' \in 0..LastDay /\ UNCHANGED <<booking, check, edited>>
        /\ made' = FALSE /\ raised' = FALSE /\ moved' = FALSE
    BY <1>10 DEF C!Tick
  <2>2. booking # None => booking.span[1] \in Int
    BY DEF Together, Booked
  <2>3. Flags' /\ Together' /\ C!Over'
    BY <2>1 DEF Flags, Together, C!Over
  <2>4. AtWork' /\ C!VenueWithheld' /\ C!WorkIsDisclosed'
    BY <2>1, <2>2 DEF AtWork, C!VenueWithheld, C!WorkIsDisclosed, C!Told
  <2>5. C!AskedInTime'
    <3>1. check # None => \A c \in C!Checkpoints : check[c].due \in Int
      BY DEF Together, Checked
    <3>. QED BY <2>1, <3>1 DEF C!AskedInTime
  <2>. QED BY <2>1, <2>3, <2>4, <2>5
<1>. QED BY <1>0, <1>1, <1>3, <1>4, <1>5, <1>6, <1>7, <1>8, <1>9, <1>10 DEF C!Next

\* The map is withheld until the start and shown at work, a job that is over is closed, and each check is
\* asked when it is due (ikiku_booking.py), of whatever dates and checkpoints.
THEOREM CalendarIsKept == Spec => []CalendarKept
<1>1. Init => CalendarInv
  BY CalendarStarts DEF Init
<1>2. CalendarInv /\ [Next]_everything => CalendarInv'
  <2>1. [Next]_everything => [C!Next]_calendar
    BY DEF Next, everything, calendar
  <2>. QED BY <2>1, CalendarSteps
<1>3. CalendarInv => CalendarKept
  <2>1. CalendarInv => C!TypeOK
    BY DEF CalendarInv, C!TypeOK, C!Days, Flags, Together, Booked, Checked
  <2>. QED BY <2>1 DEF CalendarInv, CalendarKept
<1>. QED BY <1>1, <1>2, <1>3, PTL DEF Spec

-----------------------------------------------------------------------------
\* A café that moves.  What a move read was so when it began: a need it saw to go with the café was at
\* the café it saw, and one that is open now was open then.
SawThem(seen, spot) ==
    /\ Len(seen) <= Len(posting)
    /\ \A i \in DOMAIN seen : /\ posting[i].open => seen[i].open
                              /\ seen[i].open /\ seen[i].with => seen[i].place = spot.place
Snapshot == move # None => /\ move.to \in M!Spots /\ move.cafe \in M!Spots /\ move.need \in Seq(M!Needs)
                           /\ SawThem(move.need, move.cafe)
FollowInv ==
    /\ cafe \in M!Spots /\ posting \in Seq(M!Needs) /\ Len(posting) <= MaxPostings /\ moves \in 0..MaxMoves
    /\ Snapshot /\ M!GoesAlong

\* The need that is taken along is where the café is, and ranked for there.
LEMMA FollowedGoes ==
    ASSUME NEW to \in M!Spots, to.place \in CafePlaces, NEW n \in M!Needs, n.place = cafe.place, n.ranked = n.place
    PROVE  /\ M!Followed(cafe, to, n) \in M!Needs
           /\ M!Followed(cafe, to, n).place = to.place /\ M!Followed(cafe, to, n).ranked = to.place
           /\ M!Followed(cafe, to, n).open = n.open
BY DEF M!Followed, M!Needs, M!Spots

\* A move, by what was seen of the needs: of those it takes it knows the place.
Kept == /\ posting' \in Seq(M!Needs) /\ Len(posting') = Len(posting)
        /\ \A i \in DOMAIN posting : posting'[i].open = posting[i].open
LEMMA MovedKeeps ==
    ASSUME cafe \in M!Spots, posting \in Seq(M!Needs), M!GoesAlong,
           NEW to \in M!Spots, NEW seen \in Seq(M!Needs), SawThem(seen, cafe),
           \A i \in M!Taken(to, seen) : posting[i].place = cafe.place /\ to.place \in CafePlaces,
           M!Moved(to, seen)
    PROVE  cafe' = to /\ Kept /\ M!GoesAlong'
<1>. DEFINE after(i) == IF i \in M!Taken(to, seen) THEN M!Followed(cafe, to, posting[i]) ELSE posting[i]
            along(i) == i \in DOMAIN seen /\ seen[i].with /\ ~seen[i].booked /\ posting[i].with
            flag(i) == along(i) \/ after(i).place = to.place
            with(i) == [after(i) EXCEPT !.with = flag(i)]
<1>1. cafe' = to /\ posting' = [i \in DOMAIN posting |-> with(i)]
  BY DEF M!Moved
<1>2. ASSUME NEW i \in DOMAIN posting
      PROVE  /\ after(i) \in M!Needs /\ after(i).open = posting[i].open /\ after(i).ranked = after(i).place
             /\ i \in M!Taken(to, seen) => after(i).place = to.place
  <2>1. posting[i] \in M!Needs /\ posting[i].ranked = posting[i].place
    BY DEF M!GoesAlong
  <2>2. CASE i \in M!Taken(to, seen)
    BY <2>1, <2>2, FollowedGoes
  <2>3. CASE i \notin M!Taken(to, seen)
    BY <2>1, <2>3
  <2>. QED BY <2>2, <2>3
<1>3. ASSUME NEW i \in DOMAIN posting, posting[i].open, along(i) PROVE i \in M!Taken(to, seen)
  BY <1>3 DEF SawThem, M!Taken, M!Follows
<1>4. ASSUME NEW i \in DOMAIN posting
      PROVE  /\ with(i) \in M!Needs /\ with(i).open = posting[i].open /\ with(i).ranked = with(i).place
             /\ with(i).open /\ with(i).with => with(i).place = to.place
  <2>1. flag(i) \in BOOLEAN
    OBVIOUS
  <2>2. /\ with(i) \in M!Needs /\ with(i).with = flag(i) /\ with(i).place = after(i).place
        /\ with(i).ranked = after(i).ranked /\ with(i).open = after(i).open
    <3>1. after(i) \in M!Needs
      BY <1>2
    <3>. HIDE DEF after, flag
    <3>. QED BY <2>1, <3>1 DEF M!Needs
  <2>. HIDE DEF after, along, with
  <2>. QED BY <1>2, <1>3, <2>2
<1>. HIDE DEF with
<1>5. DOMAIN posting = 1..Len(posting) /\ Len(posting) \in Nat
  OBVIOUS
<1>6. Kept
  <2>1. posting' \in Seq(M!Needs) /\ Len(posting') = Len(posting)
    BY <1>1, <1>4, <1>5
  <2>. QED BY <1>1, <1>4, <2>1 DEF Kept
<1>7. M!GoesAlong'
  BY <1>1, <1>4 DEF M!GoesAlong
<1>. QED BY <1>1, <1>6, <1>7

LEMMA FollowStarts == M!Init => FollowInv
<1>. SUFFICES ASSUME M!Init PROVE FollowInv
  OBVIOUS
<1>1. cafe \in M!Spots
  BY FollowAssumption DEF M!Init, M!Spots
<1>2. posting = <<>> /\ move = None /\ moves = 0
  BY DEF M!Init
<1>3. posting \in Seq(M!Needs) /\ Len(posting) = 0 /\ DOMAIN posting = {}
  BY <1>2
<1>. QED BY <1>1, <1>2, <1>3, FollowAssumption DEF FollowInv, Snapshot, M!GoesAlong

LEMMA FollowSteps == ASSUME FollowInv, [M!Next]_place PROVE FollowInv'
<1>. USE FollowAssumption DEF FollowInv
<1>0. SUFFICES ASSUME M!Next PROVE FollowInv'
  BY DEF place, Snapshot, SawThem, M!GoesAlong
\* What the move saw is older than what any step writes.
<1>s. ASSUME UNCHANGED move, Len(posting) <= Len(posting'), posting' \in Seq(M!Needs),
             \A i \in DOMAIN posting : posting'[i].open => posting[i].open
      PROVE  Snapshot'
  <2>1. ASSUME move # None PROVE SawThem(move.need, move.cafe)'
    <3>1. /\ SawThem(move.need, move.cafe) /\ move.need \in Seq(M!Needs)
      BY <2>1 DEF Snapshot
    <3>2. DOMAIN move.need \subseteq DOMAIN posting
      BY <3>1 DEF SawThem
    <3>. QED BY <1>s, <3>1, <3>2 DEF SawThem
  <2>. QED BY <1>s, <2>1 DEF Snapshot
<1>1. ASSUME NEW to \in M!Spots, M!Begin(to) PROVE FollowInv'
  <2>1. /\ move' = [to |-> to, cafe |-> cafe, need |-> posting]
        /\ UNCHANGED <<cafe, posting>> /\ moves' \in 0..MaxMoves
    BY <1>1 DEF M!Begin
  <2>2. SawThem(posting, cafe)
    BY DEF SawThem, M!GoesAlong
  <2>3. SawThem(move.need, move.cafe)'
    BY <2>1, <2>2 DEF SawThem
  <2>4. Snapshot'
    BY <2>1, <2>3 DEF Snapshot
  <2>. QED BY <2>1, <2>4 DEF M!GoesAlong
<1>2. CASE M!End
  <2>1. /\ move # None /\ cafe = move.cafe /\ M!Moved(move.to, move.need) /\ move' = None /\ moves' = moves
        /\ \A i \in M!Taken(move.to, move.need) :
              posting[i] = [move.need[i] EXCEPT !.booked = posting[i].booked] /\ move.to.place # None
    BY <1>2 DEF M!End, M!Clash
  <2>2. move.to \in M!Spots /\ move.need \in Seq(M!Needs) /\ SawThem(move.need, cafe)
    BY <2>1 DEF Snapshot
  <2>3. ASSUME NEW i \in M!Taken(move.to, move.need)
        PROVE  posting[i].place = cafe.place /\ move.to.place \in CafePlaces
    <3>1. move.need[i] \in M!Needs /\ move.need[i].place = cafe.place
      BY <2>2 DEF M!Taken, M!Follows
    <3>2. [move.need[i] EXCEPT !.booked = posting[i].booked].place = move.need[i].place
      BY <3>1 DEF M!Needs
    <3>. QED BY <2>1, <2>2, <3>1, <3>2 DEF M!Spots
  <2>4. cafe' = move.to /\ Kept /\ M!GoesAlong'
    BY <2>1, <2>2, <2>3, MovedKeeps
  <2>. QED BY <2>1, <2>2, <2>4 DEF Kept, Snapshot
<1>3. CASE M!Fails
  BY <1>3 DEF M!Fails, Snapshot, M!GoesAlong
<1>4. CASE M!Upgrade
  <2>. DEFINE to == [cafe EXCEPT !.place = M!Last.place]
  <2>1. posting # <<>> /\ M!Moved(to, posting) /\ UNCHANGED <<move, moves>>
    BY <1>4 DEF M!Upgrade
  <2>2. M!Last \in M!Needs
    BY <2>1 DEF M!Last
  <2>3. to \in M!Spots /\ to.place \in CafePlaces
    BY <2>2 DEF M!Spots, M!Needs
  <2>. HIDE DEF to
  <2>4. SawThem(posting, cafe)
    BY DEF SawThem, M!GoesAlong
  <2>5. \A i \in M!Taken(to, posting) : posting[i].place = cafe.place
    BY DEF M!Taken, M!Follows
  <2>6. cafe' = to /\ Kept /\ M!GoesAlong'
    BY <2>1, <2>3, <2>4, <2>5, MovedKeeps
  <2>7. Snapshot'
    BY <1>s, <2>1, <2>6 DEF Kept
  <2>. QED BY <2>1, <2>3, <2>6, <2>7 DEF Kept
<1>5. ASSUME NEW spot \in [place : CafePlaces, hint : Hints], M!Announce(spot) PROVE FollowInv'
  <2>. DEFINE flag(i) == posting[i].with \/ posting[i].place = cafe'.place
              marked(i) == [posting[i] EXCEPT !.with = flag(i)]
              old == [i \in DOMAIN posting |-> marked(i)]
              new == [place |-> spot.place, hint |-> spot.hint, open |-> TRUE, booked |-> FALSE,
                      ranked |-> spot.place, with |-> spot.place = cafe'.place]
  <2>1. /\ Len(posting) < MaxPostings /\ cafe' = IF cafe.place = None THEN spot ELSE cafe
        /\ posting' = Append(old, new) /\ UNCHANGED <<move, moves>>
    BY <1>5 DEF M!Announce
  <2>2. cafe' \in M!Spots
    BY <2>1 DEF M!Spots
  <2>3. /\ new \in M!Needs /\ new.ranked = new.place
        /\ new.with => new.place = cafe'.place
    BY DEF M!Needs
  <2>4. ASSUME NEW i \in DOMAIN posting
        PROVE  /\ marked(i) \in M!Needs /\ marked(i).open = posting[i].open /\ marked(i).ranked = marked(i).place
               /\ marked(i).open /\ marked(i).with => marked(i).place = cafe'.place
    <3>0. posting[i] \in M!Needs
      OBVIOUS
    <3>1. /\ posting[i].ranked = posting[i].place /\ posting[i].place \in CafePlaces
          /\ posting[i].open /\ posting[i].with => posting[i].place = cafe.place
      BY <3>0 DEF M!GoesAlong, M!Needs
    <3>2. flag(i) \in BOOLEAN
      OBVIOUS
    <3>3. ASSUME NEW n \in M!Needs, NEW f \in BOOLEAN
          PROVE  /\ [n EXCEPT !.with = f] \in M!Needs /\ [n EXCEPT !.with = f].open = n.open
                 /\ [n EXCEPT !.with = f].ranked = n.ranked /\ [n EXCEPT !.with = f].place = n.place
                 /\ [n EXCEPT !.with = f].with = f
      BY DEF M!Needs
    <3>4. /\ marked(i) \in M!Needs /\ marked(i).open = posting[i].open /\ marked(i).ranked = posting[i].ranked
          /\ marked(i).place = posting[i].place /\ marked(i).with = flag(i)
      <4>. HIDE DEF flag
      <4>. QED BY <3>0, <3>2, <3>3
    <3>. HIDE DEF marked
    <3>. QED BY <2>1, <3>1, <3>4
  <2>. HIDE DEF new, marked
  <2>5. /\ old \in Seq(M!Needs) /\ Len(old) = Len(posting) /\ DOMAIN old = DOMAIN posting
        /\ \A i \in DOMAIN posting : old[i] = marked(i)
    <3>1. DOMAIN posting = 1..Len(posting) /\ Len(posting) \in Nat
      OBVIOUS
    <3>. QED BY <2>4, <3>1
  <2>. HIDE DEF old
  <2>6. /\ posting' \in Seq(M!Needs) /\ Len(posting') = Len(posting) + 1
        /\ \A i \in DOMAIN posting : posting'[i] = old[i]
        /\ posting'[Len(posting) + 1] = new
        /\ DOMAIN posting' = DOMAIN posting \cup {Len(posting) + 1}
    BY <2>1, <2>3, <2>5
  <2>7. M!GoesAlong'
    BY <2>3, <2>4, <2>5, <2>6 DEF M!GoesAlong
  <2>8. Snapshot'
    BY <1>s, <2>1, <2>4, <2>5, <2>6
  <2>. QED BY <2>1, <2>2, <2>6, <2>7, <2>8
\* What is written of one need alone: it goes with the café, if it is open, only where the café is.
<1>6. ASSUME NEW i \in DOMAIN posting, NEW n \in M!Needs, posting' = [posting EXCEPT ![i] = n],
             n.open => posting[i].open, n.ranked = n.place, n.open /\ n.with => n.place = cafe.place,
             UNCHANGED <<cafe, move, moves>>
      PROVE  FollowInv'
  <2>1. /\ posting' \in Seq(M!Needs) /\ Len(posting') = Len(posting) /\ DOMAIN posting' = DOMAIN posting
        /\ \A j \in DOMAIN posting : posting'[j] = IF j = i THEN n ELSE posting[j]
    BY <1>6
  <2>2. M!GoesAlong'
    BY <1>6, <2>1 DEF M!GoesAlong
  <2>3. Snapshot'
    BY <1>s, <1>6, <2>1
  <2>. QED BY <1>6, <2>1, <2>2, <2>3
<1>7. ASSUME NEW i \in DOMAIN posting, M!Close(i) PROVE FollowInv'
  <2>. DEFINE n == [posting[i] EXCEPT !.open = FALSE]
  <2>1. posting[i] \in M!Needs /\ posting[i].ranked = posting[i].place
    BY DEF M!GoesAlong
  <2>2. n \in M!Needs /\ n.open = FALSE /\ n.ranked = n.place
    BY <2>1 DEF M!Needs
  <2>3. posting' = [posting EXCEPT ![i] = n] /\ UNCHANGED <<cafe, move, moves>>
    BY <1>7 DEF M!Close
  <2>. HIDE DEF n
  <2>. QED BY <1>6, <2>2, <2>3
<1>8. ASSUME NEW i \in DOMAIN posting, M!Booked(i) PROVE FollowInv'
  <2>. DEFINE n == [posting[i] EXCEPT !.booked = ~@]
  <2>1. /\ posting[i] \in M!Needs /\ posting[i].ranked = posting[i].place
        /\ posting[i].open /\ posting[i].with => posting[i].place = cafe.place
    BY DEF M!GoesAlong
  <2>2. /\ n \in M!Needs /\ n.open = posting[i].open /\ n.ranked = n.place
        /\ n.with = posting[i].with /\ n.place = posting[i].place
    BY <2>1 DEF M!Needs
  <2>3. posting' = [posting EXCEPT ![i] = n] /\ UNCHANGED <<cafe, move, moves>>
    BY <1>8 DEF M!Booked
  <2>. HIDE DEF n
  <2>. QED BY <1>6, <2>1, <2>2, <2>3
<1>9. ASSUME NEW i \in DOMAIN posting, NEW to \in CafePlaces, M!Change(i, to) PROVE FollowInv'
  <2>. DEFINE flag == to = cafe.place
              n == [posting[i] EXCEPT !.place = to, !.ranked = to, !.with = flag]
  <2>1. posting[i] \in M!Needs /\ flag \in BOOLEAN
    OBVIOUS
  <2>2. n \in M!Needs /\ n.open = posting[i].open /\ n.ranked = to /\ n.place = to /\ n.with = flag
    <3>. HIDE DEF flag
    <3>. QED BY <2>1 DEF M!Needs
  <2>3. posting' = [posting EXCEPT ![i] = n] /\ UNCHANGED <<cafe, move, moves>>
    BY <1>9 DEF M!Change
  <2>. HIDE DEF n
  <2>. QED BY <1>6, <2>2, <2>3
<1>. QED BY <1>0, <1>1, <1>2, <1>3, <1>4, <1>5, <1>7, <1>8, <1>9 DEF M!Next

\* The needs that were at a café go with it, and are ranked for where it is (ikiku_business.py), of whatever
\* places and hints and however many needs.
THEOREM NeedsGoAlong == Spec => []NeedsFollow
<1>1. Init => FollowInv
  BY FollowStarts DEF Init
<1>2. FollowInv /\ [Next]_everything => FollowInv'
  <2>1. [Next]_everything => [M!Next]_place
    BY DEF Next, everything, place
  <2>. QED BY <2>1, FollowSteps
<1>3. FollowInv => NeedsFollow
  BY DEF FollowInv, NeedsFollow, M!TypeOK, Snapshot
<1>. QED BY <1>1, <1>2, <1>3, PTL DEF Spec

-----------------------------------------------------------------------------
\* Photos.  A copy of a public photo ends within the time the door says from now; of another, within that
\* time from when it was taken back, or there is none by now.
Photo == [owner : Owners, state : P!States]
CopiesEnd(p, kept, gone, now) ==
    IF p # None /\ p.state = "approved" THEN kept <= now + MaxAge
    ELSE kept <= now \/ (gone # None /\ kept <= gone + MaxAge)
Slot(p, kept, gone, now) ==
    p \in {None} \cup Photo /\ kept \in Nat /\ gone \in {None} \cup 0..now /\ CopiesEnd(p, kept, gone, now)
\* What counts of an owner's, and that it is more than they may have only by what `over' says.
Counted(ps, owner) == {i \in DOMAIN ps : ps[i] # None /\ ps[i].owner = owner /\ ps[i].state # "rejected"}
Limited(ps, beyond) == \A owner \in Owners : Cardinality(Counted(ps, owner)) > PER_OWNER => owner \in beyond
PhotosInv ==
    /\ clock \in 0..LastTick /\ over \subseteq Owners
    /\ photo \in Seq({None} \cup Photo) /\ Len(photo) <= MaxPhotos
    /\ keeps \in Seq(Nat) /\ Len(keeps) = Len(photo)
    /\ hidden \in Seq({None} \cup Nat) /\ Len(hidden) = Len(photo)
    /\ upload \in [Uploads -> {None} \cup [owner : Owners, kept : 0..MaxPhotos]]
    /\ \A i \in DOMAIN photo : Slot(photo[i], keeps[i], hidden[i], clock)
    /\ Limited(photo, over)

LEMMA UpTo ==
    ASSUME NEW n \in Nat, NEW Some \in SUBSET (1..n) PROVE IsFiniteSet(Some) /\ Cardinality(Some) \in 0..n
<1>1. IsFiniteSet(1..n)
  BY FS_Interval
<1>2. Cardinality(1..n) = n
  BY FS_Interval
<1>3. IsFiniteSet(Some) /\ Cardinality(Some) <= n
  BY <1>1, <1>2, FS_Subset
<1>. QED BY <1>3, FS_CardinalityType

LEMMA CountedFinite ==
    ASSUME NEW ps \in Seq({None} \cup Photo), NEW owner
    PROVE  /\ IsFiniteSet(Counted(ps, owner)) /\ Cardinality(Counted(ps, owner)) \in 0..Len(ps)
<1>1. Len(ps) \in Nat /\ Counted(ps, owner) \in SUBSET (1..Len(ps))
  BY DEF Counted
<1>. QED BY <1>1, UpTo

\* The cardinality the module Photos speaks of is the one of the library.
LEMMA SameSize == ASSUME NEW Ids PROVE P!Cardinality(Ids) = Cardinality(Ids)
BY DEF P!Cardinality, Cardinality

LEMMA KeptCounted ==
    ASSUME photo \in Seq({None} \cup Photo), NEW owner
    PROVE  P!Kept(owner) = Counted(photo, owner) /\ P!Cardinality(P!Kept(owner)) = Cardinality(Counted(photo, owner))
<1>1. \A i \in DOMAIN photo : photo[i] # None => photo[i].state \in P!States
  BY DEF Photo
<1>2. P!Kept(owner) = Counted(photo, owner)
  BY <1>1 DEF P!Kept, P!There, Counted, P!States
<1>. QED BY <1>2, SameSize

LEMMA LimitSaid == ASSUME photo \in Seq({None} \cup Photo), Limited(photo, over) PROVE P!WithinLimit
<1>1. ASSUME NEW owner \in Owners
      PROVE  P!Cardinality({i \in P!There : photo[i].owner = owner /\ photo[i].state # "rejected"}) > PER_OWNER
                => owner \in over
  <2>1. {i \in P!There : photo[i].owner = owner /\ photo[i].state # "rejected"} = Counted(photo, owner)
    BY DEF P!There, Counted
  <2>. QED BY <2>1, SameSize DEF Limited
<1>. QED BY <1>1 DEF P!WithinLimit

LEMMA PhotosStart == P!Init => PhotosInv
<1>. SUFFICES ASSUME P!Init PROVE PhotosInv
  OBVIOUS
<1>1. /\ clock = 0 /\ photo = <<>> /\ keeps = <<>> /\ hidden = <<>> /\ over = {}
      /\ upload = [u \in Uploads |-> None]
  BY DEF P!Init
<1>2. \A owner : Counted(photo, owner) = {}
  BY <1>1 DEF Counted
<1>3. Limited(photo, over)
  BY <1>2, FS_EmptySet, PhotosAssumption DEF Limited
<1>. QED BY <1>1, <1>3, PhotosAssumption DEF PhotosInv

\* One photo is approved, rejected or removed.
LEMMA OneChanges ==
    ASSUME PhotosInv, NEW i \in P!There, NEW p \in {None} \cup Photo, NEW gone,
           photo' = [photo EXCEPT ![i] = p], hidden' = [hidden EXCEPT ![i] = gone],
           UNCHANGED <<clock, upload, keeps>>, over \subseteq over', over' \subseteq Owners,
           Slot(p, keeps[i], gone, clock), p # None => p.owner = photo[i].owner,
           p # None /\ p.state # "rejected" => photo[i].state # "rejected" \/ photo[i].owner \in over'
    PROVE  PhotosInv'
<1>. USE PhotosAssumption DEF PhotosInv
<1>1. i \in DOMAIN photo /\ photo[i] # None /\ gone \in {None} \cup Nat
  BY DEF P!There, Slot
<1>2. /\ photo' \in Seq({None} \cup Photo) /\ Len(photo') = Len(photo) /\ DOMAIN photo' = DOMAIN photo
      /\ \A j \in DOMAIN photo : photo'[j] = IF j = i THEN p ELSE photo[j]
  BY <1>1
<1>3. /\ hidden' \in Seq({None} \cup Nat) /\ Len(hidden') = Len(hidden) /\ DOMAIN hidden = DOMAIN photo
      /\ \A j \in DOMAIN photo : hidden'[j] = IF j = i THEN gone ELSE hidden[j]
  BY <1>1
<1>4. \A j \in DOMAIN photo' : Slot(photo'[j], keeps'[j], hidden'[j], clock')
  BY <1>2, <1>3
<1>5. ASSUME NEW owner \in Owners, owner \notin over' PROVE Counted(photo', owner) \subseteq Counted(photo, owner)
  BY <1>1, <1>2, <1>5 DEF Counted
<1>6. Limited(photo', over')
  <2>1. ASSUME NEW owner \in Owners, owner \notin over'
        PROVE  ~(Cardinality(Counted(photo', owner)) > PER_OWNER)
    <3>1. IsFiniteSet(Counted(photo, owner)) /\ Cardinality(Counted(photo, owner)) \in Nat
      BY CountedFinite
    <3>2. Cardinality(Counted(photo', owner)) \in Nat
      BY <1>2, <1>5, <2>1, <3>1, FS_Subset, FS_CardinalityType
    <3>3. Cardinality(Counted(photo', owner)) <= Cardinality(Counted(photo, owner))
      BY <1>5, <2>1, <3>1, FS_Subset
    <3>4. ~(Cardinality(Counted(photo, owner)) > PER_OWNER)
      BY <2>1 DEF Limited
    <3>. QED BY <3>1, <3>2, <3>3, <3>4
  <2>. QED BY <2>1 DEF Limited
<1>. QED BY <1>2, <1>3, <1>4, <1>6

\* A slot a tick later, and one whose photo changes.
LEMMA SlotsMove ==
    ASSUME NEW now \in Nat, NEW p, NEW kept, NEW gone, Slot(p, kept, gone, now), NEW q \in {None} \cup Photo,
           NEW since, since = IF p # None /\ p.state = "approved" THEN now ELSE gone
    PROVE  /\ Slot(p, kept, gone, now + 1)
           /\ q # None /\ q.state = "approved" => Slot(q, kept, gone, now)
           /\ q = None \/ q.state # "approved" => Slot(q, kept, since, now)
<1>. USE PhotosAssumption DEF Slot, CopiesEnd
<1>1. kept \in Nat /\ Slot(p, kept, gone, now + 1) /\ gone \in {None} \cup Nat
  OBVIOUS
<1>2. q # None /\ q.state = "approved" => Slot(q, kept, gone, now)
  OBVIOUS
<1>3. since \in {None} \cup 0..now /\ (kept <= now \/ (since # None /\ kept <= since + MaxAge))
  OBVIOUS
<1>4. q = None \/ q.state # "approved" => Slot(q, kept, since, now)
  BY <1>1, <1>3
<1>. QED BY <1>1, <1>2, <1>4

\* One that is looked at, and may be kept the longer of two times.
LEMMA SlotLooked ==
    ASSUME NEW now \in Nat, NEW p, NEW kept, NEW gone, Slot(p, kept, gone, now), p # None,
           NEW age, age = IF p.state = "approved" THEN MaxAge ELSE 0,
           NEW later, later = IF now + age > kept THEN now + age ELSE kept
    PROVE  later \in Nat /\ Slot(p, later, gone, now)
<1>. USE PhotosAssumption DEF Slot, CopiesEnd
<1>1. kept \in Nat /\ gone \in {None} \cup Nat /\ age \in Nat /\ later \in Nat
  OBVIOUS
<1>. QED BY <1>1

LEMMA PhotosSteps == ASSUME PhotosInv, [P!Next]_photos PROVE PhotosInv'
<1>. USE PhotosAssumption
<1>0. SUFFICES ASSUME P!Next PROVE PhotosInv'
  BY DEF photos, PhotosInv
<1>. USE DEF PhotosInv
\* What an upload does to itself.
<1>1. ASSUME NEW u \in Uploads, P!Refused(u) PROVE PhotosInv'
  BY <1>1 DEF P!Refused
<1>2. ASSUME NEW u \in Uploads, NEW owner \in Owners, P!Sends(u, owner) PROVE PhotosInv'
  <2>1. P!Cardinality(P!Kept(owner)) \in 0..MaxPhotos
    <3>1. Cardinality(Counted(photo, owner)) \in 0..Len(photo)
      BY CountedFinite
    <3>. QED BY <3>1, KeptCounted
  <2>2. [owner |-> owner, kept |-> P!Cardinality(P!Kept(owner))] \in [owner : Owners, kept : 0..MaxPhotos]
    BY <2>1
  <2>. QED BY <1>2, <2>2 DEF P!Sends
<1>3. ASSUME NEW u \in Uploads, P!Adds(u) PROVE PhotosInv'
  <2>. DEFINE o == upload[u].owner  new == [owner |-> o, state |-> "pending"]  n == Len(photo)
  <2>1. /\ upload[u] # None /\ upload[u].kept < PER_OWNER /\ n < MaxPhotos /\ photo' = Append(photo, new)
        /\ keeps' = Append(keeps, 0) /\ hidden' = Append(hidden, None) /\ UNCHANGED clock
        /\ over' = IF upload[u].kept < P!Cardinality(P!Kept(o)) THEN over \cup {o} ELSE over
        /\ upload' = [upload EXCEPT ![u] = None]
    BY <1>3 DEF P!Adds
  <2>2. upload[u] \in [owner : Owners, kept : 0..MaxPhotos] /\ o \in Owners
    BY <2>1
  <2>3. new \in Photo /\ new # None /\ new.owner = o /\ new.state = "pending"
    BY <2>2 DEF Photo, P!States
  <2>. HIDE DEF new, o
  <2>4. n \in Nat /\ DOMAIN photo = 1..n
    OBVIOUS
  <2>5. /\ photo' \in Seq({None} \cup Photo) /\ Len(photo') = n + 1 /\ DOMAIN photo' = 1..(n + 1)
        /\ \A i \in 1..n : photo'[i] = photo[i]
        /\ photo'[n + 1] = new
    BY <2>1, <2>3, <2>4
  <2>6. /\ keeps' \in Seq(Nat) /\ Len(keeps') = n + 1 /\ hidden' \in Seq({None} \cup Nat) /\ Len(hidden') = n + 1
        /\ \A i \in 1..n : keeps'[i] = keeps[i] /\ hidden'[i] = hidden[i]
        /\ keeps'[n + 1] = 0 /\ hidden'[n + 1] = None
    BY <2>1, <2>4
  <2>7. Slot(new, 0, None, clock)
    BY <2>3 DEF Slot, CopiesEnd
  <2>8. \A i \in DOMAIN photo' : Slot(photo'[i], keeps'[i], hidden'[i], clock')
    BY <2>1, <2>4, <2>5, <2>6, <2>7
  <2>9. ASSUME NEW owner \in Owners, owner \notin over' PROVE Cardinality(Counted(photo', owner)) <= PER_OWNER
    <3>0. IsFiniteSet(Counted(photo, owner)) /\ Cardinality(Counted(photo, owner)) \in 0..Len(photo)
      BY CountedFinite
    <3>1. IsFiniteSet(Counted(photo, owner)) /\ Cardinality(Counted(photo, owner)) \in Nat
      BY <3>0
    <3>2. owner \notin over /\ Cardinality(Counted(photo, owner)) <= PER_OWNER
      BY <2>1, <2>9, <3>1 DEF Limited
    <3>3. CASE owner = o
      <4>1. Counted(photo', owner) = Counted(photo, owner) \cup {n + 1} /\ n + 1 \notin Counted(photo, owner)
        BY <2>3, <2>4, <2>5, <3>3 DEF Counted
      <4>2. Cardinality(Counted(photo', owner)) = Cardinality(Counted(photo, owner)) + 1
        BY <3>1, <4>1, FS_AddElement
      <4>3. P!Cardinality(P!Kept(o)) = Cardinality(Counted(photo, owner))
        BY <3>3, KeptCounted
      <4>4. Cardinality(Counted(photo, owner)) <= upload[u].kept
        BY <2>1, <2>2, <2>9, <3>1, <3>3, <4>3
      <4>. QED BY <2>1, <2>2, <3>1, <4>2, <4>4
    <3>4. CASE owner # o
      <4>1. Counted(photo', owner) = Counted(photo, owner)
        BY <2>3, <2>4, <2>5, <3>4 DEF Counted
      <4>. QED BY <3>2, <4>1
    <3>. QED BY <3>3, <3>4
  <2>10. \A owner \in Owners : Cardinality(Counted(photo', owner)) \in Nat
    <3>1. ASSUME NEW ps \in Seq({None} \cup Photo), NEW owner PROVE Cardinality(Counted(ps, owner)) \in Nat
      <4>1. Cardinality(Counted(ps, owner)) \in 0..Len(ps)
        BY CountedFinite
      <4>. QED BY <4>1
    <3>. QED BY <2>5, <3>1
  <2>11. Limited(photo', over')
    BY <2>9, <2>10 DEF Limited
  <2>. QED BY <2>1, <2>2, <2>4, <2>5, <2>6, <2>8, <2>11
<1>. DEFINE rejected(i) == [photo[i] EXCEPT !.state = "rejected"]  approved(i) == [photo[i] EXCEPT !.state = "approved"]
<1>4. ASSUME NEW i \in P!There
      PROVE  /\ i \in DOMAIN photo /\ photo[i] \in Photo /\ photo[i] # None
             /\ Slot(photo[i], keeps[i], hidden[i], clock)
             /\ approved(i) \in Photo /\ approved(i).owner = photo[i].owner /\ approved(i).state = "approved"
             /\ rejected(i) \in Photo /\ rejected(i).owner = photo[i].owner /\ rejected(i).state = "rejected"
  <2>1. i \in DOMAIN photo /\ photo[i] # None /\ photo[i] \in Photo /\ Slot(photo[i], keeps[i], hidden[i], clock)
    BY DEF P!There
  <2>. QED BY <2>1 DEF Photo, P!States
\* When it was taken back, if it was public.
<1>. DEFINE gone(i) == IF P!Public(i) THEN clock ELSE hidden[i]
<1>5. ASSUME NEW i \in P!There, NEW p \in {None} \cup Photo
      PROVE  /\ p # None /\ p.state = "approved" => Slot(p, keeps[i], hidden[i], clock)
             /\ p = None \/ p.state # "approved" => Slot(p, keeps[i], gone(i), clock)
  <2>1. gone(i) = IF photo[i] # None /\ photo[i].state = "approved" THEN clock ELSE hidden[i]
    BY <1>4 DEF P!Public
  <2>. HIDE DEF gone, rejected, approved, Slot
  <2>2. Slot(photo[i], keeps[i], hidden[i], clock) /\ clock \in Nat
    BY <1>4
  <2>. QED BY <2>1, <2>2, SlotsMove
<1>. HIDE DEF rejected, approved
<1>6. ASSUME NEW i \in P!There, P!Approve(i) PROVE PhotosInv'
  <2>1. photo[i].owner \in Owners /\ approved(i) # None /\ Slot(approved(i), keeps[i], hidden[i], clock)
    BY <1>4, <1>5 DEF Photo
  <2>2. hidden = [hidden EXCEPT ![i] = hidden[i]]
    OBVIOUS
  <2>3. /\ photo' = [photo EXCEPT ![i] = approved(i)] /\ UNCHANGED <<clock, upload, keeps, hidden>>
        /\ over' = IF photo[i].state = "rejected" THEN over \cup {photo[i].owner} ELSE over
    BY <1>4, <1>6 DEF P!Approve, approved
  <2>4. hidden' = [hidden EXCEPT ![i] = hidden[i]] /\ over \subseteq over' /\ over' \subseteq Owners
        /\ (photo[i].state # "rejected" \/ photo[i].owner \in over')
    BY <2>1, <2>2, <2>3
  <2>. QED BY <1>4, <2>1, <2>3, <2>4, OneChanges
<1>7. ASSUME NEW i \in P!There, P!Reject(i) PROVE PhotosInv'
  <2>1. photo' = [photo EXCEPT ![i] = rejected(i)] /\ hidden' = [hidden EXCEPT ![i] = gone(i)]
        /\ UNCHANGED <<clock, upload, keeps, over>>
    BY <1>4, <1>7 DEF P!Reject, P!TakenBack, rejected
  <2>2. Slot(rejected(i), keeps[i], gone(i), clock)
    BY <1>4, <1>5
  <2>. HIDE DEF gone
  <2>. QED BY <1>4, <2>1, <2>2, OneChanges
<1>8. ASSUME NEW i \in P!There, P!Remove(i) PROVE PhotosInv'
  <2>1. photo' = [photo EXCEPT ![i] = None] /\ hidden' = [hidden EXCEPT ![i] = gone(i)]
        /\ UNCHANGED <<clock, upload, keeps, over>>
    BY <1>4, <1>8 DEF P!Remove, P!TakenBack
  <2>2. Slot(None, keeps[i], gone(i), clock)
    BY <1>4, <1>5
  <2>. HIDE DEF gone
  <2>. QED BY <1>4, <2>1, <2>2, OneChanges
<1>9. ASSUME NEW i \in P!There, NEW who, P!Look(i, who) PROVE PhotosInv'
  <2>. DEFINE age == IF photo[i].state = "approved" THEN MaxAge ELSE 0
              k == IF clock + age > keeps[i] THEN clock + age ELSE keeps[i]
  <2>1. keeps' = [keeps EXCEPT ![i] = k] /\ UNCHANGED <<clock, photo, upload, hidden, over>>
    BY <1>9 DEF P!Look, P!Cache, P!Public
  <2>2. ASSUME NEW a, a = age, NEW later, later = IF clock + a > keeps[i] THEN clock + a ELSE keeps[i]
        PROVE  later \in Nat /\ Slot(photo[i], later, hidden[i], clock)
    <3>1. Slot(photo[i], keeps[i], hidden[i], clock) /\ clock \in Nat /\ photo[i] # None
      BY <1>4
    <3>. QED BY <2>2, <3>1, SlotLooked
  <2>3. k \in Nat /\ Slot(photo[i], k, hidden[i], clock)
    BY <2>2
  <2>4. i \in 1..Len(keeps)
    BY <1>4
  <2>. HIDE DEF k
  <2>5. /\ keeps' \in Seq(Nat) /\ Len(keeps') = Len(keeps)
        /\ \A j \in DOMAIN photo : keeps'[j] = IF j = i THEN k ELSE keeps[j]
    BY <2>1, <2>3, <2>4
  <2>. QED BY <2>1, <2>3, <2>5
<1>10. CASE P!Tick
  <2>1. clock' = clock + 1 /\ clock' \in 0..LastTick /\ UNCHANGED <<photo, upload, keeps, hidden, over>>
    BY <1>10 DEF P!Tick
  <2>2. ASSUME NEW p, NEW kept, NEW g, Slot(p, kept, g, clock) PROVE Slot(p, kept, g, clock + 1)
    BY <2>2 DEF Slot, CopiesEnd
  <2>. QED BY <2>1, <2>2
<1>. QED BY <1>0, <1>1, <1>2, <1>3, <1>6, <1>7, <1>8, <1>9, <1>10 DEF P!Next

\* What the door gives to others than the owner and staff, or a copy still shows, was approved, or taken back
\* a moment ago; and an owner keeps no more photos than they may but as `over' says
\* (ikiku_photo.py, portal.py), of whatever owners and limits.
THEOREM PhotosAreReviewed == Spec => []PhotosReviewed
<1>1. Init => PhotosInv
  BY PhotosStart DEF Init
<1>2. PhotosInv /\ [Next]_everything => PhotosInv'
  <2>1. [Next]_everything => [P!Next]_photos
    BY DEF Next, everything, photos
  <2>. QED BY <2>1, PhotosSteps
<1>3. PhotosInv => PhotosReviewed
  <2>. SUFFICES ASSUME PhotosInv PROVE PhotosReviewed
    OBVIOUS
  <2>1. P!TypeOK
    BY DEF PhotosInv, P!TypeOK, Photo
  <2>2. P!OnlyApproved
    <3>1. ASSUME NEW i \in P!There, NEW who \in P!Others(i), P!Gives(i, who) PROVE P!Public(i)
      <4>1. who # photo[i].owner /\ who # "staff"
        BY PhotosAssumption DEF P!Others
      <4>. QED BY <3>1, <4>1 DEF P!Gives
    <3>. QED BY <3>1, PhotosAssumption
             DEF PhotosInv, P!OnlyApproved, P!Shown, P!There, P!Public, Slot, CopiesEnd
  <2>3. P!WithinLimit
    BY LimitSaid DEF PhotosInv
  <2>. QED BY <2>1, <2>2, <2>3 DEF PhotosReviewed
<1>. QED BY <1>1, <1>2, <1>3, PTL DEF Spec

-----------------------------------------------------------------------------
\* The queue of a café.  Whoever is in the snapshot of a request came before it, drew a smaller number, and
\* waits no longer if they are the same person.
Gone(rows, saw, partner) == \A j \in 1..saw : rows[j].partner = partner => ~rows[j].active
Before(rows, i) == /\ Gone(rows, rows[i].saw, rows[i].partner)
                   /\ \A j \in 1..rows[i].saw : rows[j].sequence < rows[i].sequence
QueueInv ==
    /\ entry \in Seq(Q!Row) /\ Len(entry) <= MaxEntries /\ listed \in BOOLEAN
    /\ visit \in [Visits -> {None} \cup [partner : Waiters, saw : 0..MaxEntries]]
    /\ \A i \in DOMAIN entry : /\ entry[i].sequence <= i /\ entry[i].saw < i
                               /\ Before(entry, i)
    /\ \A v \in Visits : visit[v] # None => visit[v].saw <= Len(entry) /\ Gone(entry, visit[v].saw, visit[v].partner)

LEMMA EntryRow ==
    ASSUME entry \in Seq(Q!Row), NEW i \in DOMAIN entry
    PROVE  /\ entry[i] \in Q!Row /\ entry[i].sequence \in Int /\ 1 <= entry[i].sequence /\ entry[i].active \in BOOLEAN
           /\ entry[i].saw \in Int /\ 0 <= entry[i].saw
<1>1. entry[i] \in Q!Row
  OBVIOUS
<1>2. \A r \in Q!Row : /\ r.sequence \in Int /\ 1 <= r.sequence /\ r.active \in BOOLEAN
                       /\ r.saw \in Int /\ 0 <= r.saw
  BY DEF Q!Row
<1>. QED BY <1>1, <1>2

\* Positions count those before: of two who wait, the one with the smaller number stands before the other.
LEMMA QueueSize == ASSUME NEW Ids PROVE Q!Cardinality(Ids) = Cardinality(Ids)
BY DEF Q!Cardinality, Cardinality

LEMMA StandsBehind ==
    ASSUME entry \in Seq(Q!Row), NEW i \in DOMAIN entry, NEW j \in DOMAIN entry,
           entry[i].active, entry[j].active, entry[j].sequence < entry[i].sequence
    PROVE  Q!Position(j) < Q!Position(i)
<1>. DEFINE ahead(k) == {m \in DOMAIN entry : entry[m].active /\ entry[m].sequence < entry[k].sequence}
<1>1. \A k \in DOMAIN entry : entry[k].sequence \in Int
  BY EntryRow
<1>2. ahead(j) \subseteq ahead(i) /\ j \in ahead(i) /\ j \notin ahead(j)
  BY <1>1
<1>3. Len(entry) \in Nat /\ ahead(i) \in SUBSET (1..Len(entry)) /\ ahead(j) \in SUBSET (1..Len(entry))
  OBVIOUS
<1>4. /\ Q!Position(i) = 1 + Q!Cardinality(ahead(i))
      /\ Q!Position(j) = 1 + Q!Cardinality(ahead(j))
  BY DEF Q!Position
<1>. HIDE DEF ahead
<1>5. IsFiniteSet(ahead(i)) /\ Cardinality(ahead(i)) \in Nat /\ Cardinality(ahead(j)) \in Nat
  <2>1. /\ IsFiniteSet(ahead(i)) /\ Cardinality(ahead(i)) \in 0..Len(entry)
        /\ Cardinality(ahead(j)) \in 0..Len(entry)
    BY <1>3, UpTo
  <2>. QED BY <1>3, <2>1
<1>6. Cardinality(ahead(j)) <= Cardinality(ahead(i)) /\ Cardinality(ahead(j)) # Cardinality(ahead(i))
  BY <1>2, <1>5, FS_Subset
<1>. QED BY <1>4, <1>5, <1>6, QueueSize

\* The greatest of numbers up to n, or 0.
LEMMA GreatestOr0 ==
    ASSUME NEW n \in Nat, NEW Ids, Ids \subseteq 1..n
    PROVE  Q!MaxOf(Ids) \in 0..n /\ \A k \in Ids : k <= Q!MaxOf(Ids)
<1>1. \E m \in Ids \cup {0} : \A k \in Ids : k <= m
  <2>1. CASE Ids = {}
    BY <2>1
  <2>2. CASE Ids # {}
    <3>1. \E m \in Ids : \A k \in Ids : k <= m
      BY <2>2, GreatestBelow
    <3>. QED BY <3>1
  <2>. QED BY <2>1, <2>2
<1>2. Q!MaxOf(Ids) \in Ids \cup {0} /\ \A k \in Ids : k <= Q!MaxOf(Ids)
  BY <1>1 DEF Q!MaxOf
<1>3. \A k \in Ids \cup {0} : k \in 0..n
  OBVIOUS
<1>. QED BY <1>2, <1>3

\* The number drawn is greater than every number the request sees, and no greater than their count and one.
LEMMA DrawnAfter ==
    ASSUME entry \in Seq(Q!Row), NEW v \in Visits, visit[v].saw \in Nat, visit[v].saw <= Len(entry),
           \A i \in DOMAIN entry : entry[i].sequence <= i
    PROVE  Q!Drawn(v) \in 1..(visit[v].saw + 1) /\ \A i \in 1..visit[v].saw : entry[i].sequence < Q!Drawn(v)
<1>. DEFINE n == visit[v].saw  Ids == {entry[i].sequence : i \in 1..n}
<1>1. Ids \subseteq 1..n /\ \A i \in 1..n : entry[i].sequence \in Ids
  <2>1. ASSUME NEW i \in 1..n PROVE entry[i].sequence \in Int /\ 1 <= entry[i].sequence /\ entry[i].sequence <= n
    <3>1. i \in DOMAIN entry
      OBVIOUS
    <3>. QED BY <3>1, EntryRow
  <2>. QED BY <2>1
<1>2. Q!Drawn(v) = 1 + Q!MaxOf(Ids)
  BY DEF Q!Drawn, Q!Seen
<1>3. Q!MaxOf(Ids) \in 0..n /\ \A k \in Ids : k <= Q!MaxOf(Ids)
  <2>. HIDE DEF Ids
  <2>. QED BY <1>1, GreatestOr0
<1>4. ASSUME NEW m, m = Q!MaxOf(Ids) PROVE 1 + m \in 1..(n + 1) /\ \A i \in 1..n : entry[i].sequence < 1 + m
  <2>. HIDE DEF Ids
  <2>1. m \in 0..n /\ \A k \in Ids : k <= m
    BY <1>3, <1>4
  <2>2. \A k \in Ids : k \in Int
    BY <1>1
  <2>3. ASSUME NEW i \in 1..n PROVE entry[i].sequence < 1 + m
    <3>1. entry[i].sequence \in Ids
      BY <1>1
    <3>. QED BY <2>1, <2>2, <3>1
  <2>4. n \in Nat
    OBVIOUS
  <2>5. 1 + m \in 1..(n + 1)
    <3>. HIDE DEF n
    <3>. QED BY <2>1, <2>4
  <2>. QED BY <2>3, <2>5
<1>. QED BY <1>2, <1>4

LEMMA QueueStarts == Q!Init => QueueInv
BY QueueAssumption DEF Q!Init, QueueInv, Q!Row

LEMMA QueueSteps == ASSUME QueueInv, [Q!Next]_queue PROVE QueueInv'
<1>. USE QueueAssumption
<1>0. SUFFICES ASSUME Q!Next PROVE QueueInv'
  BY DEF queue, QueueInv, Before, Gone
<1>. USE DEF QueueInv
<1>1. ASSUME NEW v \in Visits, NEW p \in Waiters, Q!Opens(v, p) PROVE QueueInv'
  <2>. DEFINE new == [partner |-> p, saw |-> Len(entry)]
  <2>1. visit' = [visit EXCEPT ![v] = new] /\ UNCHANGED <<entry, listed>> /\ Q!Mine(p, DOMAIN entry) = {}
    BY <1>1 DEF Q!Opens
  <2>2. new \in [partner : Waiters, saw : 0..MaxEntries] /\ new.partner = p /\ new.saw = Len(entry)
    OBVIOUS
  <2>3. Gone(entry, Len(entry), p)
    BY <2>1 DEF Gone, Q!Mine
  <2>. HIDE DEF new
  <2>4. \A w \in Visits : visit'[w] = IF w = v THEN new ELSE visit[w]
    BY <2>1
  <2>5. \A w \in Visits : visit'[w] # None => visit'[w].saw <= Len(entry) /\ Gone(entry, visit'[w].saw, visit'[w].partner)
    BY <2>2, <2>3, <2>4
  <2>. QED BY <2>1, <2>2, <2>5 DEF Before, Gone
<1>2. ASSUME NEW v \in Visits, Q!Joins(v) PROVE QueueInv'
  <2>. DEFINE n == Len(entry)  saw == visit[v].saw  p == visit[v].partner
              new == [partner |-> p, sequence |-> Q!Drawn(v), active |-> TRUE, saw |-> saw]
  <2>1. /\ visit[v] # None /\ n < MaxEntries /\ visit' = [visit EXCEPT ![v] = None] /\ UNCHANGED listed
        /\ entry' = Append(entry, new) \/ entry' = entry
    BY <1>2 DEF Q!Joins
  <2>2. /\ visit[v] \in [partner : Waiters, saw : 0..MaxEntries] /\ saw \in Nat /\ p \in Waiters /\ saw <= n
        /\ Gone(entry, saw, p)
    BY <2>1
  <2>3. Q!Drawn(v) \in 1..(saw + 1) /\ \A i \in 1..saw : entry[i].sequence < Q!Drawn(v)
    BY <2>2, DrawnAfter
  <2>4. n \in Nat /\ DOMAIN entry = 1..n
    OBVIOUS
  <2>5. /\ new \in Q!Row /\ new.sequence = Q!Drawn(v) /\ new.partner = p /\ new.saw = saw
        /\ new.sequence <= n + 1
    BY <2>1, <2>2, <2>3, <2>4 DEF Q!Row
  <2>. HIDE DEF new, saw, p
  <2>6. visit' \in [Visits -> {None} \cup [partner : Waiters, saw : 0..MaxEntries]]
        /\ \A w \in Visits : visit'[w] # None => visit'[w] = visit[w]
    BY <2>1
  <2>7. CASE entry' = entry
    BY <2>1, <2>6, <2>7 DEF Before, Gone
  <2>8. CASE entry' = Append(entry, new)
    <3>1. /\ entry' \in Seq(Q!Row) /\ Len(entry') = n + 1 /\ DOMAIN entry' = 1..(n + 1)
          /\ \A i \in 1..n : entry'[i] = entry[i]
          /\ entry'[n + 1] = new
      BY <2>4, <2>5, <2>8
    <3>2. ASSUME NEW i \in 1..n PROVE Before(entry', i) /\ entry[i].sequence <= i /\ entry[i].saw < i
      <4>1. entry[i].saw < i /\ entry[i].saw \in Int /\ entry[i].sequence <= i /\ Before(entry, i)
        BY <2>4, EntryRow
      <4>2. entry'[i] = entry[i] /\ \A j \in 1..entry[i].saw : entry'[j] = entry[j]
        BY <2>4, <3>1, <4>1
      <4>. QED BY <4>1, <4>2 DEF Before, Gone
    <3>3. Before(entry', n + 1)
      <4>1. \A j \in 1..saw : entry'[j] = entry[j]
        BY <2>2, <2>4, <3>1
      <4>. QED BY <2>2, <2>3, <2>5, <3>1, <4>1 DEF Before, Gone
    <3>4. \A i \in DOMAIN entry' : entry'[i].sequence <= i /\ entry'[i].saw < i /\ Before(entry', i)
      BY <2>2, <2>4, <2>5, <3>1, <3>2, <3>3
    <3>5. ASSUME NEW w \in Visits, visit'[w] # None
          PROVE  visit'[w].saw <= Len(entry') /\ Gone(entry', visit'[w].saw, visit'[w].partner)
      <4>1. /\ visit'[w] = visit[w] /\ visit[w] \in [partner : Waiters, saw : 0..MaxEntries]
            /\ visit[w].saw <= n /\ Gone(entry, visit[w].saw, visit[w].partner)
        BY <2>6, <3>5
      <4>2. visit[w].saw \in Int /\ \A j \in 1..visit[w].saw : entry'[j] = entry[j]
        BY <2>4, <3>1, <4>1
      <4>. QED BY <2>4, <3>1, <4>1, <4>2 DEF Gone
    <3>. QED BY <2>1, <2>4, <2>6, <3>1, <3>4, <3>5
  <2>. QED BY <2>1, <2>7, <2>8
<1>3. ASSUME NEW p \in Waiters, Q!Leaves(p) PROVE QueueInv'
  <2>. DEFINE left(i) == [entry[i] EXCEPT !.active = FALSE]
  <2>1. /\ entry' = [i \in DOMAIN entry |-> IF i \in Q!Mine(p, DOMAIN entry) THEN left(i) ELSE entry[i]]
        /\ UNCHANGED <<visit, listed>>
    BY <1>3 DEF Q!Leaves
  <2>2. ASSUME NEW i \in DOMAIN entry
        PROVE  /\ left(i) \in Q!Row /\ left(i).partner = entry[i].partner /\ left(i).sequence = entry[i].sequence
               /\ left(i).saw = entry[i].saw /\ left(i).active = FALSE
    <3>1. entry[i] \in Q!Row
      OBVIOUS
    <3>. QED BY <3>1 DEF Q!Row
  <2>. HIDE DEF left
  <2>3. Len(entry) \in Nat /\ DOMAIN entry = 1..Len(entry)
    OBVIOUS
  <2>4. /\ entry' \in Seq(Q!Row) /\ Len(entry') = Len(entry) /\ DOMAIN entry' = DOMAIN entry
    <3>1. \A i \in 1..Len(entry) : (IF i \in Q!Mine(p, DOMAIN entry) THEN left(i) ELSE entry[i]) \in Q!Row
      BY <2>2, <2>3, EntryRow
    <3>. QED BY <2>1, <2>3, <3>1
  <2>5. \A i \in DOMAIN entry : /\ entry'[i].partner = entry[i].partner /\ entry'[i].sequence = entry[i].sequence
                                /\ entry'[i].saw = entry[i].saw
                                /\ ~entry[i].active => ~entry'[i].active
    BY <2>1, <2>2
  <2>6. ASSUME NEW i \in DOMAIN entry PROVE Before(entry', i)
    <3>1. entry[i].saw < i /\ entry[i].saw \in Int /\ Before(entry, i)
      BY EntryRow
    <3>2. 1..entry[i].saw \subseteq DOMAIN entry
      BY <2>3, <3>1
    <3>. QED BY <2>5, <3>1, <3>2 DEF Before, Gone
  <2>7. ASSUME NEW w \in Visits, visit[w] # None PROVE Gone(entry', visit[w].saw, visit[w].partner)
    <3>1. /\ visit[w] \in [partner : Waiters, saw : 0..MaxEntries]
          /\ visit[w].saw <= Len(entry) /\ Gone(entry, visit[w].saw, visit[w].partner)
      BY <2>7
    <3>2. 1..visit[w].saw \subseteq DOMAIN entry
      BY <2>3, <3>1
    <3>. QED BY <2>5, <3>1, <3>2 DEF Gone
  <2>. QED BY <2>1, <2>4, <2>5, <2>6, <2>7
<1>4. CASE Q!Lists
  BY <1>4 DEF Q!Lists, Before, Gone
<1>. QED BY <1>0, <1>1, <1>2, <1>3, <1>4 DEF Q!Next

\* Whoever came later stands behind, and nobody shares a place or has two, unless the requests overlapped
\* (ikiku_favorite.py), of however many people, requests and entries.
THEOREM QueueIsInOrder == Spec => []QueueInOrder
<1>1. Init => QueueInv
  BY QueueStarts DEF Init
<1>2. QueueInv /\ [Next]_everything => QueueInv'
  <2>1. [Next]_everything => [Q!Next]_queue
    BY DEF Next, everything, queue
  <2>. QED BY <2>1, QueueSteps
<1>3. QueueInv => QueueInOrder
  <2>. SUFFICES ASSUME QueueInv PROVE QueueInOrder
    OBVIOUS
  <2>1. Q!TypeOK
    BY DEF QueueInv, Q!TypeOK
  <2>2. ASSUME NEW i \in DOMAIN entry, NEW j \in 1..entry[i].saw
        PROVE  /\ j \in DOMAIN entry /\ entry[j].sequence < entry[i].sequence
               /\ entry[j].partner = entry[i].partner => ~entry[j].active
    <3>1. entry[i].saw < i /\ entry[i].saw \in Int /\ Before(entry, i) /\ DOMAIN entry = 1..Len(entry)
      BY EntryRow DEF QueueInv
    <3>. QED BY <3>1 DEF Before, Gone
  <2>3. Q!InOrder
    BY <2>2, StandsBehind DEF Q!InOrder, QueueInv
  <2>4. Q!OnePlaceEach
    <3>1. ASSUME NEW i \in DOMAIN entry, NEW j \in DOMAIN entry, i < j, ~(entry[j].saw < i)
          PROVE  /\ entry[i].sequence # entry[j].sequence
                 /\ ~(entry[i].partner = entry[j].partner /\ entry[i].active /\ entry[j].active)
      <4>1. i \in 1..entry[j].saw /\ entry[i].sequence \in Int
        BY <3>1, EntryRow DEF QueueInv
      <4>. QED BY <2>2, <4>1
    <3>. QED BY <3>1 DEF Q!OnePlaceEach
  <2>. QED BY <2>1, <2>3, <2>4 DEF QueueInOrder
<1>. QED BY <1>1, <1>2, <1>3, PTL DEF Spec

-----------------------------------------------------------------------------
\* The box that suggests.  One question at most is in flight at a time for the whole answer, and only for a
\* text that is not known yet; and what is known of a text is the answer to it.
Question == [query : Texts, full : BOOLEAN, wide : {None} \cup B!Addresses, narrow : {None, "later"} \cup B!Addresses]
Asks(q) == q.wide # None
Alone(qs, known) ==
    /\ \A k \in DOMAIN qs : Asks(qs[k]) => ~qs[k].full /\ known[qs[k].query] = None
    /\ \A k \in DOMAIN qs : ~Asks(qs[k]) => qs[k].full
    /\ \A k, m \in DOMAIN qs : Asks(qs[k]) /\ Asks(qs[m]) => k = m
Known(known) == \A t \in Texts : known[t] # None => known[t] = Full[t]
Screen == [query : {None} \cup Texts, results : Seq(B!Results), active : Nat, waiting : BOOLEAN, open : BOOLEAN]
BoxInv ==
    /\ text \in {None} \cup Texts /\ keys \in 0..MaxKeys /\ timer \in BOOLEAN /\ usingFallback \in BOOLEAN
    /\ question \in Seq(Question) /\ Alone(question, cache)
    /\ DOMAIN cache = Texts /\ Known(cache)
    /\ list \in Screen /\ list.active <= Len(list.results) /\ (list.waiting => list.query # None)
    /\ busy \in {"off", "soon", "on"} /\ gaveUp \subseteq Texts
    /\ B!Settles /\ B!PartOnlyBefore /\ B!NotBusyForNothing /\ B!MarkStays

\* The result that was highlighted, wherever it moved to.
LEMMA StaysMarked ==
    ASSUME NEW items \in Seq(B!Results), NEW i, i = B!Stays(items)
    PROVE  /\ i \in 0..Len(items)
           /\ i # 0 => list.active # 0 /\ items[i] = list.results[list.active]
<1>. DEFINE I == {j \in 1..Len(items) : items[j] = list.results[list.active]}
<1>1. B!Stays(items) = IF list.active = 0 THEN 0 ELSE IF I # {} THEN B!Min(I) ELSE 0
  BY DEF B!Stays, B!SelectInSeq
<1>2. Len(items) \in Nat /\ I \subseteq 1..Len(items)
  OBVIOUS
<1>3. I # {} => B!Min(I) \in I
  <2>. HIDE DEF I
  <2>1. I # {} => \E m \in I : \A y \in I : m <= y
    BY <1>2, LeastFrom
  <2>. QED BY <2>1 DEF B!Min
<1>. QED BY <1>1, <1>2, <1>3

LEMMA BoxStarts == B!Init => BoxInv
<1>. SUFFICES ASSUME B!Init PROVE BoxInv
  OBVIOUS
<1>. USE BoxAssumption DEF B!Init
<1>1. text \in {None} \cup Texts /\ keys \in 0..MaxKeys
  OBVIOUS
<1>7. timer \in BOOLEAN /\ usingFallback \in BOOLEAN
  BY Zenon
<1>2. question \in Seq(Question) /\ Alone(question, cache) /\ DOMAIN cache = Texts /\ Known(cache)
  BY DEF Alone, Known
<1>3. <<>> \in Seq(B!Results) /\ Len(<<>>) = 0
  OBVIOUS
<1>4. list \in Screen /\ list.active <= Len(list.results)
  BY <1>3 DEF Screen
<1>5. busy \in {"off", "soon", "on"} /\ gaveUp \subseteq Texts
  OBVIOUS
<1>6. B!Settles /\ B!PartOnlyBefore /\ B!NotBusyForNothing /\ B!MarkStays
  BY DEF B!Settles, B!PartOnlyBefore, B!NotBusyForNothing, B!MarkStays
<1>. QED BY <1>1, <1>2, <1>4, <1>5, <1>6, <1>7 DEF BoxInv

\* One question is written anew, about the same text.
Others(k, q) == \A m \in DOMAIN question : question'[m] = IF m = k THEN q ELSE question[m]
LEMMA OneAsked ==
    ASSUME question \in Seq(Question), NEW k \in DOMAIN question, NEW q \in Question,
           question' = [question EXCEPT ![k] = q]
    PROVE  question' \in Seq(Question) /\ DOMAIN question' = DOMAIN question /\ Others(k, q)
BY DEF Others

\* While it goes on asking what it asked, or does not, the box looks for what it looked for.
LEMMA GoesOn ==
    ASSUME question \in Seq(Question), Alone(question, cache), NEW k \in DOMAIN question, NEW q \in Question,
           question' = [question EXCEPT ![k] = q], q.query = question[k].query, q.full = question[k].full,
           Asks(q) <=> Asks(question[k]), UNCHANGED <<text, cache>>
    PROVE  question' \in Seq(Question) /\ Alone(question', cache') /\ (B!Looking' <=> B!Looking)
<1>1. question' \in Seq(Question) /\ DOMAIN question' = DOMAIN question /\ Others(k, q)
  BY OneAsked
<1>2. Alone(question', cache')
  BY <1>1 DEF Others, Alone
<1>3. B!Looking' <=> B!Looking
  BY <1>1 DEF Others, B!Looking, B!Waits, Asks
<1>. QED BY <1>1, <1>2, <1>3

\* When the one question in flight is over, nothing is looked for but another text.
LEMMA IsOver ==
    ASSUME question \in Seq(Question), Alone(question, cache), NEW k \in DOMAIN question, NEW q \in Question,
           question' = [question EXCEPT ![k] = q], q.query = question[k].query, q.full, ~Asks(q),
           Asks(question[k]), DOMAIN cache' = DOMAIN cache, text' = text
    PROVE  /\ question' \in Seq(Question) /\ Alone(question', cache') /\ ~B!Looking'
           /\ B!Looking => question[k].query = text
<1>1. question' \in Seq(Question) /\ DOMAIN question' = DOMAIN question /\ Others(k, q)
  BY OneAsked
<1>2. \A m \in DOMAIN question : ~Asks(question'[m]) /\ question'[m].full
  BY <1>1 DEF Others, Alone
<1>3. Alone(question', cache')
  BY <1>1, <1>2 DEF Alone
<1>4. ~B!Looking'
  BY <1>1, <1>2 DEF B!Looking, B!Waits, Asks
<1>5. B!Looking => question[k].query = text
  BY DEF B!Looking, B!Waits, Asks, Alone
<1>. QED BY <1>1, <1>3, <1>4, <1>5

\* What changes neither the text, what is known, what is looked for, nor what the list answers.
LEMMA BoxSame ==
    ASSUME BoxInv, UNCHANGED <<text, keys, timer, cache, gaveUp>>, usingFallback' \in BOOLEAN,
           question' \in Seq(Question), Alone(question', cache'), B!Looking' <=> B!Looking,
           list' \in Screen, list'.query = list.query, list'.results = list.results, list'.waiting = list.waiting,
           list'.active <= Len(list'.results), B!MarkStays', busy' \in {"off", "soon", "on"}, busy = "off" => busy' = "off"
    PROVE  BoxInv'
<1>1. B!Settles' /\ B!PartOnlyBefore' /\ B!NotBusyForNothing'
  BY DEF BoxInv, B!Settles, B!PartOnlyBefore, B!NotBusyForNothing
<1>. QED BY <1>1 DEF BoxInv

\* The list that is shown for a text, and what is highlighted in it.
LEMMA Rendered ==
    ASSUME BoxInv, NEW query \in {None} \cup Texts, NEW items \in Seq(B!Results), NEW waiting \in BOOLEAN,
           B!render(query, items, waiting), mark' = mark
    PROVE  /\ list' \in Screen /\ list'.query = query /\ list'.results = items /\ list'.waiting = waiting
           /\ list'.active <= Len(list'.results) /\ B!MarkStays'
<1>1. ASSUME NEW i, i = B!Stays(items)
      PROVE  /\ i \in 0..Len(items)
             /\ i # 0 => items[i] = mark
  BY <1>1, StaysMarked DEF BoxInv, B!MarkStays
<1>2. ASSUME NEW i, i = B!Stays(items), NEW open \in BOOLEAN, open = (items # <<>>)
      PROVE  list' = [query |-> query, results |-> items, active |-> i, waiting |-> waiting, open |-> open]
  BY <1>2 DEF B!render
<1>3. \A i \in Nat, open \in BOOLEAN :
        [query |-> query, results |-> items, active |-> i, waiting |-> waiting, open |-> open] \in Screen
  BY DEF Screen
<1>4. ASSUME NEW i, i = B!Stays(items), NEW open \in BOOLEAN, open = (items # <<>>)
      PROVE  /\ list' \in Screen /\ list'.query = query /\ list'.results = items /\ list'.waiting = waiting
             /\ list'.active = i /\ list'.active <= Len(list'.results)
  <2>1. list' = [query |-> query, results |-> items, active |-> i, waiting |-> waiting, open |-> open]
    BY <1>2, <1>4
  <2>2. i \in Nat /\ i <= Len(items)
    <3>1. i \in 0..Len(items) /\ Len(items) \in Nat
      BY <1>1, <1>4
    <3>. QED BY <3>1
  <2>3. list' \in Screen
    BY <1>3, <2>1, <2>2
  <2>. QED BY <2>1, <2>2, <2>3
<1>5. (items # <<>>) \in BOOLEAN
  OBVIOUS
<1>6. /\ list' \in Screen /\ list'.query = query /\ list'.results = items /\ list'.waiting = waiting
      /\ list'.active = B!Stays(items) /\ list'.active <= Len(list'.results)
  BY <1>4, <1>5
<1>7. B!MarkStays'
  BY <1>1, <1>6 DEF B!MarkStays
<1>. QED BY <1>6, <1>7

LEMMA BoxTypes == ASSUME BoxInv, NEW t \in {None} \cup Texts, B!Types(t) PROVE BoxInv'
<1>1. /\ text' = t /\ timer' = TRUE /\ keys < MaxKeys /\ keys' = keys + 1
      /\ UNCHANGED <<usingFallback, question, cache, list, busy, mark, gaveUp>>
  BY DEF B!Types
<1>2. B!Settles' /\ B!PartOnlyBefore' /\ B!NotBusyForNothing'
  BY <1>1 DEF B!Settles, B!PartOnlyBefore, B!NotBusyForNothing
<1>3. B!MarkStays'
  BY <1>1 DEF BoxInv, B!MarkStays
<1>. QED BY <1>1, <1>2, <1>3, BoxAssumption DEF BoxInv

LEMMA BoxFetches == ASSUME BoxInv, B!Fetch PROVE BoxInv'
<1>. USE BoxAssumption
<1>1. timer' = FALSE /\ UNCHANGED <<text, keys, usingFallback, cache, mark>>
  BY Zenon DEF B!Fetch
<1>2. B!ShowsNothing \/ B!ShowsKnown \/ B!Asks
  BY Zenon DEF B!Fetch
\* Nothing is typed.
<1>3. CASE B!ShowsNothing
  <2>1. <<>> \in Seq(B!Results) /\ Len(<<>>) = 0
    OBVIOUS
  <2>2. list' \in Screen /\ list'.active <= Len(list'.results)
    BY <1>3, <2>1 DEF Screen, B!ShowsNothing
  <2>3. B!Settles' /\ B!PartOnlyBefore' /\ B!NotBusyForNothing' /\ B!MarkStays'
    BY <1>1, <1>3 DEF B!ShowsNothing, B!Settles, B!PartOnlyBefore, B!NotBusyForNothing, B!MarkStays
  <2>. QED BY <1>1, <1>3, <2>2, <2>3 DEF BoxInv, B!ShowsNothing
\* The answer is known.
<1>4. CASE B!ShowsKnown
  <2>1. text \in Texts /\ cache[text] = Full[text] /\ cache[text] \in Seq(B!Results)
    BY <1>4 DEF BoxInv, Known, B!ShowsKnown
  <2>2. /\ list' \in Screen /\ list'.query = text /\ list'.results = Full[text] /\ list'.waiting = FALSE
        /\ list'.active <= Len(list'.results) /\ B!MarkStays'
    BY <1>1, <1>4, <2>1, Rendered DEF B!ShowsKnown
  <2>3. B!Settles' /\ B!PartOnlyBefore' /\ B!NotBusyForNothing'
    BY <1>1, <1>4, <2>2 DEF B!Settles, B!PartOnlyBefore, B!NotBusyForNothing, B!ShowsKnown
  <2>. QED BY <1>1, <1>4, <2>2, <2>3 DEF BoxInv, B!ShowsKnown
\* It is asked; what was asked before is given up.
<1>5. CASE B!Asks
  <2>. DEFINE old == [k \in DOMAIN question |-> B!aborted(question[k])]
              n == Len(question)
  <2>1. n \in Nat /\ DOMAIN question = 1..n /\ text \in Texts
    BY <1>5 DEF BoxInv, B!Asks
  <2>2. question' = Append(old, B!asks)
    BY <1>5, Zenon DEF B!Asks
  <2>3. UNCHANGED list /\ gaveUp' = gaveUp \ {text} /\ busy' \in {"off", "soon"}
    BY <1>5 DEF B!Asks
  <2>4. ASSUME NEW k \in 1..n
        PROVE  /\ B!aborted(question[k]) \in Question
               /\ B!aborted(question[k]).full = TRUE /\ B!aborted(question[k]).wide = None
    <3>1. question[k] \in Question
      BY <2>1 DEF BoxInv
    <3>. QED BY <3>1 DEF Question, B!aborted
  <2>5. B!asks \in Question /\ B!asks.query = text /\ B!asks.full = FALSE /\ B!asks.wide # None
    BY <2>1 DEF Question, B!asks, B!endpoint, B!Addresses
  <2>6. old \in Seq(Question) /\ Len(old) = n /\ DOMAIN old = 1..n /\ \A k \in 1..n : old[k] = B!aborted(question[k])
    <3>1. DOMAIN old = 1..n /\ \A k \in 1..n : old[k] = B!aborted(question[k])
      BY <2>1, Zenon
    <3>2. old = [k \in 1..n |-> old[k]] /\ \A k \in 1..n : old[k] \in Question
      BY <2>1, <2>4, <3>1, Zenon
    <3>. HIDE DEF old, n
    <3>. QED BY <2>1, <3>1, <3>2
  <2>. HIDE DEF old
  <2>7. /\ question' \in Seq(Question) /\ DOMAIN question' = 1..(n + 1)
        /\ \A k \in 1..n : question'[k] = old[k]
        /\ question'[n + 1] = B!asks
    BY <2>1, <2>2, <2>5, <2>6
  <2>8. \A k \in 1..n : question'[k].full = TRUE /\ question'[k].wide = None
    BY <2>4, <2>6, <2>7
  <2>9. \A k \in DOMAIN question' : k \in 1..n \/ k = n + 1
    BY <2>1, <2>7
  <2>10. cache[text] = None
    BY <1>5 DEF B!Asks
  <2>11. Alone(question', cache')
    BY <1>1, <2>5, <2>7, <2>8, <2>9, <2>10 DEF Alone, Asks
  <2>12. B!Looking'
    <3>1. n + 1 \in DOMAIN question'
      BY <2>1, <2>7
    <3>. QED BY <1>1, <2>5, <2>7, <3>1 DEF B!Looking, B!Waits
  <2>13. B!Settles' /\ B!NotBusyForNothing'
    BY <2>12 DEF B!Settles, B!NotBusyForNothing
  <2>14. B!PartOnlyBefore'
    BY <1>1, <2>10, <2>12 DEF B!PartOnlyBefore
  <2>15. B!MarkStays'
    BY <1>1, <2>3 DEF BoxInv, B!MarkStays
  <2>. QED BY <1>1, <2>3, <2>7, <2>11, <2>13, <2>14, <2>15 DEF BoxInv
<1>. QED BY <1>2, <1>3, <1>4, <1>5

\* A question of the box, and the text it asks for.
LEMMA AQuestion ==
    ASSUME BoxInv, NEW k \in DOMAIN question
    PROVE  question[k] \in Question /\ question[k].query \in Texts
<1>1. question[k] \in Question
  BY DEF BoxInv
<1>. QED BY <1>1 DEF Question

LEMMA BoxAnswered == ASSUME BoxInv, NEW k \in DOMAIN question, B!Answered(k) PROVE BoxInv'
<1>. USE BoxAssumption
<1>. DEFINE query == question[k].query
            q == [question[k] EXCEPT !.wide = None, !.full = TRUE]
<1>1. /\ B!Waits(k) /\ question' = [question EXCEPT ![k].wide = None, ![k].full = TRUE]
      /\ cache' = [cache EXCEPT ![query] = Full[query]]
      /\ UNCHANGED <<text, keys, timer, usingFallback, mark, gaveUp>>
  BY DEF B!Answered
<1>2. IF text = query THEN busy' = "off" /\ B!render(query, Full[query], FALSE) ELSE UNCHANGED <<busy, list>>
  BY DEF B!Answered, B!current
<1>3. question[k] \in Question /\ query \in Texts
  BY AQuestion
<1>4. q \in Question /\ q.query = query /\ q.full = TRUE /\ q.wide = None
  BY <1>3 DEF Question
<1>5. question' = [question EXCEPT ![k] = q]
  BY <1>1
<1>6. DOMAIN cache' = Texts /\ cache'[query] = Full[query] /\ \A t \in Texts : t # query => cache'[t] = cache[t]
  BY <1>1, <1>3 DEF BoxInv
<1>. HIDE DEF q
<1>7. /\ question' \in Seq(Question) /\ Alone(question', cache') /\ ~B!Looking'
      /\ B!Looking => query = text
  BY <1>1, <1>4, <1>5, <1>6, IsOver DEF BoxInv, Asks, B!Waits
<1>8. Known(cache')
  BY <1>6 DEF BoxInv, Known
<1>9. CASE text = query
  <2>1. Full[query] \in Seq(B!Results)
    BY <1>3
  <2>2. /\ list' \in Screen /\ list'.query = text /\ list'.results = Full[text] /\ list'.waiting = FALSE
        /\ list'.active <= Len(list'.results) /\ B!MarkStays' /\ busy' = "off"
    BY <1>1, <1>2, <1>3, <1>9, <2>1, Rendered
  <2>3. B!Settles' /\ B!PartOnlyBefore' /\ B!NotBusyForNothing'
    BY <1>1, <2>2 DEF B!Settles, B!PartOnlyBefore, B!NotBusyForNothing
  <2>. QED BY <1>1, <1>6, <1>7, <1>8, <2>2, <2>3 DEF BoxInv
<1>10. CASE text # query
  <2>1. ~B!Looking /\ UNCHANGED <<busy, list>>
    BY <1>2, <1>7, <1>10
  <2>2. list.waiting /\ list.query = text => cache'[text] = cache[text]
    BY <1>6, <1>10 DEF BoxInv
  <2>3. B!Settles' /\ B!PartOnlyBefore' /\ B!NotBusyForNothing' /\ B!MarkStays'
    BY <1>1, <1>7, <2>1, <2>2 DEF BoxInv, B!Settles, B!PartOnlyBefore, B!NotBusyForNothing, B!MarkStays
  <2>. QED BY <1>1, <1>6, <1>7, <1>8, <2>1, <2>3 DEF BoxInv
<1>. QED BY <1>9, <1>10

\* The question fails: it is asked of the fallback, or the box gives up on it.
LEMMA BoxFails == ASSUME BoxInv, NEW k \in DOMAIN question, B!Fails(k) PROVE BoxInv'
<1>. USE BoxAssumption
<1>1. B!Waits(k) /\ usingFallback' = TRUE /\ UNCHANGED <<text, keys, timer, cache, list, mark>>
  BY DEF B!Fails
<1>2. question[k] \in Question /\ question[k].query \in Texts
  BY AQuestion
<1>3. B!MarkStays'
  BY <1>1 DEF BoxInv, B!MarkStays
<1>4. CASE question' = [question EXCEPT ![k].wide = "fallback"] /\ UNCHANGED <<busy, gaveUp>>
  <2>. DEFINE q == [question[k] EXCEPT !.wide = "fallback"]
  <2>1. q \in Question /\ q.query = question[k].query /\ q.full = question[k].full /\ q.wide = "fallback"
    BY <1>2 DEF Question, B!Addresses
  <2>2. question' = [question EXCEPT ![k] = q]
    BY <1>4
  <2>. HIDE DEF q
  <2>3. Asks(q) /\ Asks(question[k])
    BY <1>1, <2>1 DEF Asks, B!Waits, B!Addresses
  <2>4. question' \in Seq(Question) /\ Alone(question', cache') /\ (B!Looking' <=> B!Looking)
    BY <1>1, <2>1, <2>2, <2>3, GoesOn DEF BoxInv
  <2>. QED BY <1>1, <1>3, <1>4, <2>4, BoxSame DEF BoxInv
<1>5. CASE /\ question' = [question EXCEPT ![k].wide = None, ![k].full = TRUE]
           /\ busy' = IF text = question[k].query THEN "off" ELSE busy
           /\ gaveUp' = gaveUp \cup {question[k].query}
  <2>. DEFINE query == question[k].query
              q == [question[k] EXCEPT !.wide = None, !.full = TRUE]
  <2>1. q \in Question /\ q.query = query /\ q.full = TRUE /\ q.wide = None
    BY <1>2 DEF Question
  <2>2. question' = [question EXCEPT ![k] = q]
    BY <1>5
  <2>. HIDE DEF q
  <2>3. /\ question' \in Seq(Question) /\ Alone(question', cache') /\ ~B!Looking'
        /\ B!Looking => query = text
    BY <1>1, <2>1, <2>2, IsOver DEF BoxInv, Asks, B!Waits
  <2>4. B!Settles' /\ B!PartOnlyBefore' /\ B!NotBusyForNothing'
    BY <1>1, <1>5, <2>3 DEF BoxInv, B!Settles, B!PartOnlyBefore, B!NotBusyForNothing
  <2>5. busy' \in {"off", "soon", "on"} /\ gaveUp' \subseteq Texts
    BY <1>2, <1>5 DEF BoxInv
  <2>. QED BY <1>1, <1>3, <2>3, <2>4, <2>5 DEF BoxInv
<1>. QED BY Zenon, <1>4, <1>5 DEF B!Fails, B!current

\* The quick answer is asked for, comes or fails: the question goes on as it was.
LEMMA QuickOnly ==
    ASSUME BoxInv, NEW k \in DOMAIN question, NEW n \in {None, "later"} \cup B!Addresses,
           question' = [question EXCEPT ![k].narrow = n], UNCHANGED <<text, cache>>
    PROVE  question' \in Seq(Question) /\ Alone(question', cache') /\ (B!Looking' <=> B!Looking)
<1>. DEFINE q == [question[k] EXCEPT !.narrow = n]
<1>1. /\ q \in Question /\ q.query = question[k].query /\ q.full = question[k].full
      /\ q.wide = question[k].wide
  BY AQuestion DEF Question
<1>2. question' = [question EXCEPT ![k] = q]
  OBVIOUS
<1>. HIDE DEF q
<1>3. (Asks(q) <=> Asks(question[k])) /\ question \in Seq(Question) /\ Alone(question, cache)
  BY <1>1 DEF BoxInv, Asks
<1>. QED BY <1>1, <1>2, <1>3, GoesOn

LEMMA BoxQuick ==
    ASSUME BoxInv, NEW k \in DOMAIN question, B!AsksQuick(k) \/ B!AnsweredQuick(k) \/ B!FailsQuick(k)
    PROVE  BoxInv'
<1>. USE BoxAssumption
<1>1. /\ \E n \in {None, "later"} \cup B!Addresses : question' = [question EXCEPT ![k].narrow = n]
      /\ UNCHANGED <<text, keys, timer, cache, busy, mark, gaveUp>>
      /\ usingFallback' \in BOOLEAN
  BY DEF BoxInv, B!AsksQuick, B!AnsweredQuick, B!FailsQuick, B!endpoint, B!Addresses
<1>2. question' \in Seq(Question) /\ Alone(question', cache') /\ (B!Looking' <=> B!Looking)
  BY <1>1, QuickOnly
<1>3. CASE UNCHANGED list
  <2>1. B!MarkStays'
    BY <1>1, <1>3 DEF BoxInv, B!MarkStays
  <2>. QED BY <1>1, <1>2, <1>3, <2>1, BoxSame DEF BoxInv
<1>4. CASE ~question[k].full /\ text = question[k].query /\ B!render(text, Quick[text], TRUE)
  <2>1. text \in Texts /\ Quick[text] \in Seq(B!Results)
    BY <1>4, AQuestion
  <2>2. /\ list' \in Screen /\ list'.query = text /\ list'.waiting = TRUE
        /\ list'.active <= Len(list'.results) /\ B!MarkStays'
    BY <1>1, <1>4, <2>1, Rendered
  <2>3. B!Looking /\ cache[text] = None
    BY <1>4 DEF BoxInv, Alone, Asks, B!Looking, B!Waits
  <2>4. B!Settles' /\ B!PartOnlyBefore' /\ B!NotBusyForNothing'
    BY <1>1, <1>2, <2>3 DEF B!Settles, B!PartOnlyBefore, B!NotBusyForNothing
  <2>. QED BY <1>1, <1>2, <2>1, <2>2, <2>4 DEF BoxInv
<1>. QED BY <1>3, <1>4 DEF B!AsksQuick, B!AnsweredQuick, B!FailsQuick, B!current

\* The keys move what is highlighted, and close the list.
LEMMA Highlighted ==
    ASSUME BoxInv, list' \in Screen, list'.query = list.query, list'.results = list.results,
           list'.waiting = list.waiting, list'.active \in 0..Len(list.results),
           list'.active # 0 => list.results[list'.active] = mark',
           UNCHANGED <<text, keys, timer, usingFallback, question, cache, busy, gaveUp>>
    PROVE  BoxInv'
<1>1. list'.active <= Len(list'.results)
  BY DEF BoxInv, Screen
<1>2. B!MarkStays'
  BY DEF B!MarkStays
<1>3. B!Looking' <=> B!Looking
  BY DEF B!Looking, B!Waits
<1>. QED BY <1>1, <1>2, <1>3, BoxSame DEF BoxInv

LEMMA BoxArrow == ASSUME BoxInv, NEW step \in {1, -1}, B!Arrow(step) PROVE BoxInv'
<1>. DEFINE count == Len(list.results)
            index == ((list.active - 1 + step + count) % count) + 1
<1>1. /\ count > 0 /\ list' = [list EXCEPT !.open = TRUE, !.active = index] /\ mark' = list.results[index]
      /\ UNCHANGED <<text, keys, timer, usingFallback, question, cache, busy, gaveUp>>
  BY DEF B!Arrow
<1>2. count \in Nat /\ list.active \in Int
  BY DEF BoxInv, Screen
<1>3. \A x \in Int, c \in Nat \ {0} : x % c \in 0..(c - 1)
  OBVIOUS
<1>4. index \in 0..count
  <2>1. list.active - 1 + step + count \in Int
    BY <1>2
  <2>. HIDE DEF count
  <2>2. (list.active - 1 + step + count) % count \in 0..(count - 1)
    BY <1>1, <1>2, <1>3, <2>1
  <2>. QED BY <1>1, <1>2, <2>2
<1>. HIDE DEF index
<1>5. /\ list' \in Screen /\ list'.query = list.query /\ list'.results = list.results
      /\ list'.waiting = list.waiting /\ list'.active = index
  <2>1. list \in Screen /\ index \in Nat
    BY <1>2, <1>4 DEF BoxInv
  <2>. QED BY <1>1, <2>1 DEF Screen
<1>. QED BY <1>1, <1>4, <1>5, Highlighted

LEMMA BoxSteps == BoxInv /\ [B!Next]_box => BoxInv'
<1>. SUFFICES ASSUME BoxInv, [B!Next]_box PROVE BoxInv'
  OBVIOUS
<1>1. CASE UNCHANGED box
  <2>1. B!Looking' <=> B!Looking
    BY <1>1 DEF box, B!Looking, B!Waits
  <2>2. B!MarkStays'
    BY <1>1 DEF BoxInv, box, B!MarkStays
  <2>. QED BY <1>1, <2>1, <2>2, BoxSame DEF BoxInv, box
<1>2. CASE B!BusyShows
  <2>1. B!Looking' <=> B!Looking
    BY <1>2 DEF B!BusyShows, B!Looking, B!Waits
  <2>2. B!MarkStays'
    BY <1>2 DEF BoxInv, B!BusyShows, B!MarkStays
  <2>. QED BY <1>2, <2>1, <2>2, BoxSame DEF BoxInv, B!BusyShows
<1>3. CASE B!Closes
  <2>1. list \in Screen /\ 0 \in 0..Len(list.results)
    BY DEF BoxInv, Screen
  <2>2. /\ list' \in Screen /\ list'.query = list.query /\ list'.results = list.results
        /\ list'.waiting = list.waiting /\ list'.active = 0
    BY <1>3, <2>1 DEF B!Closes, B!close, Screen
  <2>. QED BY <1>3, <2>1, <2>2, Highlighted DEF B!Closes
<1>4. CASE \E t \in {None} \cup Texts : t # text /\ B!Types(t)
  BY <1>4, BoxTypes
<1>5. CASE B!Fetch
  BY <1>5, BoxFetches
<1>6. CASE B!Arrow(1) \/ B!Arrow(-1)
  BY <1>6, BoxArrow
<1>7. ASSUME NEW k \in DOMAIN question,
             B!Answered(k) \/ B!Fails(k) \/ B!AsksQuick(k) \/ B!AnsweredQuick(k) \/ B!FailsQuick(k)
      PROVE  BoxInv'
  BY <1>7, BoxAnswered, BoxFails, BoxQuick
<1>. QED BY <1>1, <1>2, <1>3, <1>4, <1>5, <1>6, <1>7 DEF B!Next

\* The list is the answer to what is typed once nothing is looked for, a part stands for the whole only while
\* the whole is looked for, the sign of waiting ends with the waiting, and Enter chooses what was highlighted
\* (search_suggest.js), of whatever texts and answers.
THEOREM BoxIsTruthful == Spec => []BoxTruthful
<1>1. Init => BoxInv
  BY BoxStarts DEF Init
<1>2. BoxInv /\ [Next]_everything => BoxInv'
  <2>1. [Next]_everything => [B!Next]_box
    BY DEF Next, everything, box
  <2>. QED BY <2>1, BoxSteps
<1>3. BoxInv => BoxTruthful
  <2>. SUFFICES ASSUME BoxInv PROVE BoxTruthful
    OBVIOUS
  <2>1. \A k \in DOMAIN question : /\ question[k].query \in Texts
                                   /\ question[k].wide \in {None} \cup B!Addresses
                                   /\ question[k].narrow \in {None, "later"} \cup B!Addresses
    BY AQuestion DEF Question
  <2>2. \A t \in Texts : cache[t] # None => cache[t] \in Seq(B!Results)
    BY BoxAssumption DEF BoxInv, Known
  <2>3. list.results \in Seq(B!Results) /\ list.active \in 0..Len(list.results)
    BY DEF BoxInv, Screen
  <2>4. B!TypeOK
    BY <2>1, <2>2, <2>3 DEF BoxInv, B!TypeOK
  <2>. QED BY <2>4 DEF BoxInv, BoxTruthful
<1>. QED BY <1>1, <1>2, <1>3, PTL DEF Spec

-----------------------------------------------------------------------------
\* The ledger.  What an assertion says was computed from the votes on it as they are, with some method it
\* had, and is the whole of it where staff wrote nothing over it.
Cast == [verdict : L!Verdicts, standing : 0..L!STANDING_MAX]
Fields == {"by", "method", "state", "strength", "confirms", "disputes"}
Shaped(a) == a = [field \in Fields |-> a[field]]
Claimed(p, a) == /\ Shaped(a)
                 /\ a.by \in People /\ a.state \in L!States
                 /\ a.method \in Methods \cup {Claims[p].method}
Strength(m, votes) == L!METHOD_BASE[m] + L!Total(votes, "confirm") - L!Total(votes, "dispute")
\* The numbers are those of the votes.
Numbers(p, a, votes) == /\ a.confirms = L!Cardinality(L!Voters(votes, "confirm"))
                        /\ a.disputes = L!Cardinality(L!Voters(votes, "dispute"))
                        /\ \E m \in Methods \cup {Claims[p].method} : a.strength = Strength(m, votes)
StateOf(a, votes) == IF a.state = "withdrawn" THEN a.state
                     ELSE IF L!Voters(votes, "dispute") # {} THEN "contested"
                     ELSE IF L!Voters(votes, "confirm") # {} THEN "supported" ELSE a.state
\* Nobody wrote over it: its strength is that of its method, and its state what the votes make it.
Untouched(a, votes) == /\ a.strength = Strength(a.method, votes)
                       /\ a.state = StateOf(a, votes)
                       /\ a.state \in {"claimed", "supported", "contested"}
                       /\ a.state = "supported" => L!Voters(votes, "confirm") # {}
                       /\ a.state = "supported" => L!Voters(votes, "dispute") = {}
                       /\ a.state = "contested" => L!Voters(votes, "dispute") # {}
LedgerInv ==
    /\ assertion = [p \in L!Subjects |-> assertion[p]] /\ vote = [p \in L!Subjects |-> vote[p]]
    /\ \A p \in L!Subjects : /\ vote[p] \in [L!Others(p) -> {None} \cup Cast]
                             /\ Claimed(p, assertion[p])
                             /\ Numbers(p, assertion[p], vote[p])
                             /\ p \notin corrected => Untouched(assertion[p], vote[p])
    /\ verified \subseteq People /\ corrected \subseteq L!Subjects /\ changes \in 0..MaxChanges

\* What the votes make of an assertion, field by field.
LEMMA ComputedIs ==
    ASSUME NEW a, NEW votes
    PROVE  L!Computed(a, votes) =
              [by |-> a.by, method |-> a.method, state |-> StateOf(a, votes),
               strength |-> Strength(a.method, votes),
               confirms |-> L!Cardinality(L!Voters(votes, "confirm")),
               disputes |-> L!Cardinality(L!Voters(votes, "dispute"))]
BY DEF L!Computed, Strength, StateOf

\* Votes that are counted again say what they said.
LEMMA CountedAgain ==
    ASSUME NEW p \in L!Subjects, NEW a, NEW votes, Claimed(p, a), Numbers(p, a, votes), Untouched(a, votes)
    PROVE  a = L!Computed(a, votes)
<1>1. PICK b : b = L!Computed(a, votes)
  OBVIOUS
<1>2. /\ b.by = a.by /\ b.method = a.method /\ b.state = StateOf(a, votes)
      /\ b.strength = Strength(a.method, votes)
      /\ b.confirms = L!Cardinality(L!Voters(votes, "confirm"))
      /\ b.disputes = L!Cardinality(L!Voters(votes, "dispute"))
      /\ Shaped(b)
  BY <1>1, ComputedIs DEF Shaped, Fields
<1>3. \A field \in Fields : a[field] = b[field]
  BY <1>2 DEF Numbers, Untouched, Fields
<1>. QED BY <1>1, <1>2, <1>3 DEF Claimed, Shaped

\* An assertion that is computed is one, and its numbers are those of its votes.
LEMMA ComputedKeeps ==
    ASSUME NEW p \in L!Subjects, NEW a, NEW votes, Claimed(p, a)
    PROVE  /\ Claimed(p, L!Computed(a, votes)) /\ Numbers(p, L!Computed(a, votes), votes)
           /\ L!Computed(a, votes).state = StateOf(a, votes)
           /\ a.state \in {"claimed", "supported", "contested"}
              /\ (a.state # "claimed" => L!Voters(votes, "confirm") \cup L!Voters(votes, "dispute") # {})
              => Untouched(L!Computed(a, votes), votes)
<1>. DEFINE c == L!Cardinality(L!Voters(votes, "confirm"))
            d == L!Cardinality(L!Voters(votes, "dispute"))
            s == Strength(a.method, votes)
            t == StateOf(a, votes)
<1>0. PICK b : b = L!Computed(a, votes)
  OBVIOUS
<1>1. b = [by |-> a.by, method |-> a.method, state |-> t, strength |-> s, confirms |-> c, disputes |-> d]
  BY <1>0, ComputedIs DEF Claimed
<1>. HIDE DEF c, d, s, t
<1>2. /\ Shaped(b) /\ b.by = a.by /\ b.method = a.method /\ b.state = t /\ b.strength = s
      /\ b.confirms = c /\ b.disputes = d
  BY <1>1 DEF Shaped, Fields
<1>3. t \in L!States
  BY DEF t, StateOf, L!States, Claimed
<1>4. Claimed(p, b)
  BY <1>2, <1>3 DEF Claimed
<1>5. Numbers(p, b, votes)
  BY <1>2 DEF Numbers, c, d, s, Claimed
<1>6. b.state = StateOf(a, votes)
  BY <1>2 DEF t
<1>7. ASSUME a.state \in {"claimed", "supported", "contested"},
             a.state # "claimed" => L!Voters(votes, "confirm") \cup L!Voters(votes, "dispute") # {}
      PROVE  Untouched(b, votes)
  <2>1. b.strength = Strength(b.method, votes)
    BY <1>2 DEF s
  <2>2. b.state \in {"claimed", "supported", "contested"} /\ b.state = StateOf(b, votes)
    BY <1>6, <1>7 DEF StateOf
  <2>3. /\ b.state = "supported" => L!Voters(votes, "confirm") # {} /\ L!Voters(votes, "dispute") = {}
        /\ b.state = "contested" => L!Voters(votes, "dispute") # {}
    BY <1>6, <1>7 DEF StateOf
  <2>. QED BY <2>1, <2>2, <2>3 DEF Untouched
<1>. QED BY <1>0, <1>4, <1>5, <1>6, <1>7

\* A standing is bounded, and above what staff checked it is an assertion that stands.
LEMMA StandingIs ==
    ASSUME NEW p
    PROVE  /\ L!Standing(p) \in 0..L!STANDING_MAX
           /\ L!Standing(p) > (IF p \in verified THEN L!STANDING_VERIFIED ELSE 0) =>
                 p \in L!Subjects /\ assertion[p].state = "supported"
<1>. DEFINE checked == IF p \in verified THEN L!STANDING_VERIFIED ELSE 0
            supported == {q \in L!Subjects \cap {p} : assertion[q].state = "supported"}
            n == L!Cardinality(supported)
<1>1. checked \in {0, 100}
  BY DEF L!STANDING_VERIFIED
<1>2. supported = {} \/ supported = {p}
  OBVIOUS
<1>3. n \in {0, 1} /\ (n = 0 \/ (p \in L!Subjects /\ assertion[p].state = "supported"))
  <2>1. n = Cardinality(supported)
    BY DEF L!Cardinality, Cardinality
  <2>2. CASE supported = {}
    BY <2>1, <2>2, FS_EmptySet
  <2>3. CASE supported = {p}
    BY <2>1, <2>3, FS_Singleton
  <2>. QED BY <1>2, <2>2, <2>3
<1>4. L!Standing(p) = L!Min({L!STANDING_MAX, checked + L!STANDING_PER_SUPPORTED * n})
  BY DEF L!Standing
<1>. HIDE DEF checked, supported, n
<1>5. checked + L!STANDING_PER_SUPPORTED * n \in 0..500 /\ (n = 0 => checked + L!STANDING_PER_SUPPORTED * n = checked)
  BY <1>1, <1>3 DEF L!STANDING_PER_SUPPORTED
<1>6. \A x \in 0..500 : L!Min({500, x}) = x
  <2>. SUFFICES ASSUME NEW x \in 0..500 PROVE L!Min({500, x}) = x
    OBVIOUS
  <2>1. x \in {500, x} /\ \A y \in {500, x} : x <= y
    OBVIOUS
  <2>2. \A z \in {500, x} : (\A y \in {500, x} : z <= y) => z = x
    OBVIOUS
  <2>. QED BY <2>1, <2>2 DEF L!Min
<1>7. L!Standing(p) = checked + L!STANDING_PER_SUPPORTED * n
  <2>1. PICK x : x = checked + L!STANDING_PER_SUPPORTED * n
    OBVIOUS
  <2>2. L!Standing(p) = L!Min({500, x}) /\ x \in 0..500
    BY <1>4, <1>5, <2>1 DEF L!STANDING_MAX
  <2>. QED BY <1>6, <2>1, <2>2
<1>8. L!Standing(p) > checked => n # 0
  BY <1>1, <1>5, <1>7
<1>. QED BY <1>3, <1>5, <1>7, <1>8 DEF checked, L!STANDING_MAX

LEMMA LedgerStarts == L!Init => LedgerInv
<1>. SUFFICES ASSUME L!Init PROVE LedgerInv
  OBVIOUS
<1>1. verified \subseteq People /\ corrected \subseteq L!Subjects /\ changes \in 0..MaxChanges
  BY LedgerAssumption DEF L!Init
<1>2. /\ assertion = [p \in L!Subjects |-> assertion[p]] /\ vote = [p \in L!Subjects |-> vote[p]]
      /\ \A p \in L!Subjects : vote[p] = [v \in L!Others(p) |-> None]
  BY DEF L!Init
<1>3. ASSUME NEW p \in L!Subjects
      PROVE  /\ vote[p] \in [L!Others(p) -> {None} \cup Cast]
             /\ Claimed(p, assertion[p]) /\ Numbers(p, assertion[p], vote[p])
             /\ Untouched(assertion[p], vote[p])
  <2>1. PICK a : a = [by |-> Claims[p].by, method |-> Claims[p].method, state |-> "claimed",
                     strength |-> 0, confirms |-> 0, disputes |-> 0]
    OBVIOUS
  <2>2. assertion[p] = L!Computed(a, vote[p])
    BY <2>1 DEF L!Init
  <2>3. Claimed(p, a) /\ a.state = "claimed"
    BY <2>1, LedgerAssumption DEF Claimed, Shaped, Fields, L!Subjects, L!States
  <2>4. vote[p] \in [L!Others(p) -> {None} \cup Cast]
    BY <1>2
  <2>. QED BY <2>2, <2>3, <2>4, ComputedKeeps
<1>. QED BY <1>1, <1>2, <1>3 DEF LedgerInv

\* A row that is computed again from other votes.
LEMMA VotesSet ==
    ASSUME LedgerInv, NEW p \in L!Subjects, NEW votes \in [L!Others(p) -> {None} \cup Cast],
           L!SetVotes(p, votes),
           \/ corrected' = corrected \cup {p}
           \/ /\ corrected' = corrected
              /\ \A v \in L!Others(p) : vote[p][v] # None => votes[v] = vote[p][v],
           UNCHANGED verified, changes' \in 0..MaxChanges
    PROVE  LedgerInv'
<1>1. PICK a : a = L!Computed(assertion[p], votes)
  OBVIOUS
<1>2. Claimed(p, assertion[p])
  BY DEF LedgerInv
<1>3. Claimed(p, a) /\ Numbers(p, a, votes)
  BY <1>1, <1>2, ComputedKeeps
<1>4. /\ assertion' = [q \in L!Subjects |-> assertion'[q]] /\ vote' = [q \in L!Subjects |-> vote'[q]]
      /\ assertion'[p] = a /\ vote'[p] = votes
      /\ \A q \in L!Subjects : q # p => assertion'[q] = assertion[q] /\ vote'[q] = vote[q]
  BY <1>1 DEF LedgerInv, L!SetVotes
<1>5. ASSUME p \notin corrected' PROVE Untouched(a, votes)
  <2>1. /\ Untouched(assertion[p], vote[p]) /\ vote[p] \in [L!Others(p) -> {None} \cup Cast]
        /\ \A v \in L!Others(p) : vote[p][v] # None => votes[v] = vote[p][v]
    BY <1>5 DEF LedgerInv
  <2>2. \A x : L!Voters(vote[p], x) \subseteq L!Voters(votes, x)
    BY <2>1 DEF L!Voters
  <2>3. assertion[p].state # "claimed" => L!Voters(votes, "confirm") \cup L!Voters(votes, "dispute") # {}
    BY <2>1, <2>2 DEF Untouched
  <2>4. assertion[p].state \in {"claimed", "supported", "contested"}
    BY <2>1 DEF Untouched
  <2>. QED BY <1>1, <1>2, <2>3, <2>4, ComputedKeeps
<1>6. ASSUME NEW q \in L!Subjects
      PROVE  /\ vote'[q] \in [L!Others(q) -> {None} \cup Cast]
             /\ Claimed(q, assertion'[q])
             /\ Numbers(q, assertion'[q], vote'[q])
             /\ q \notin corrected' => Untouched(assertion'[q], vote'[q])
  <2>1. CASE q = p
    BY <1>3, <1>4, <1>5, <2>1
  <2>2. CASE q # p
    BY <1>4, <2>2 DEF LedgerInv
  <2>. QED BY <2>1, <2>2
<1>7. verified' \subseteq People /\ corrected' \subseteq L!Subjects
  BY DEF LedgerInv
<1>. QED BY <1>4, <1>6, <1>7 DEF LedgerInv

\* What a step may do to the votes there are.
Weighs == \A p \in L!Subjects : \A v \in L!Others(p) :
              vote[p][v] # None => vote'[p][v] # None /\ vote'[p][v].standing = vote[p][v].standing

LEMMA LedgerSteps == ASSUME LedgerInv, [L!Next]_ledger PROVE LedgerInv' /\ Weighs
<1>. USE LedgerAssumption
<1>0. CASE UNCHANGED ledger
  BY <1>0 DEF ledger, LedgerInv, Weighs
<1>1. ASSUME NEW p \in People, L!Verify(p) PROVE LedgerInv' /\ Weighs
  <2>1. /\ UNCHANGED <<assertion, vote, corrected>> /\ verified' \subseteq People
        /\ changes' \in 0..MaxChanges
    BY <1>1 DEF L!Verify, L!Changes, LedgerInv
  <2>. QED BY <2>1 DEF LedgerInv, Weighs
<1>2. ASSUME NEW p \in L!Subjects, NEW m \in Methods, NEW s \in L!States, L!Rewrite(p, m, s)
      PROVE  LedgerInv' /\ Weighs
  <2>1. /\ vote' = vote /\ verified' = verified /\ corrected' = corrected \cup {p}
        /\ changes' \in 0..MaxChanges
        /\ assertion' = [assertion EXCEPT ![p] = [@ EXCEPT !.method = m, !.state = s]]
    BY <1>2 DEF L!Rewrite, L!Changes, LedgerInv
  <2>2. PICK a : a = assertion[p]
    OBVIOUS
  <2>3. Claimed(p, a) /\ Numbers(p, a, vote[p])
    BY <2>2 DEF LedgerInv
  <2>4. PICK b : b = [a EXCEPT !.method = m, !.state = s]
    OBVIOUS
  <2>5. assertion' = [assertion EXCEPT ![p] = b]
    BY <2>1, <2>2, <2>4
  <2>6. Claimed(p, b) /\ Numbers(p, b, vote[p])
    <3>1. /\ Shaped(b) /\ b.method = m /\ b.state = s /\ b.by = a.by
          /\ b.strength = a.strength /\ b.confirms = a.confirms /\ b.disputes = a.disputes
      BY <2>3, <2>4 DEF Claimed, Shaped, Fields
    <3>. QED BY <2>3, <3>1 DEF Claimed, Numbers
  <2>7. /\ assertion' = [q \in L!Subjects |-> assertion'[q]] /\ assertion'[p] = b
        /\ \A q \in L!Subjects : q # p => assertion'[q] = assertion[q]
    BY <2>5 DEF LedgerInv
  <2>8. ASSUME NEW q \in L!Subjects
        PROVE  /\ vote'[q] \in [L!Others(q) -> {None} \cup Cast]
               /\ Claimed(q, assertion'[q])
               /\ Numbers(q, assertion'[q], vote'[q])
               /\ q \notin corrected' => Untouched(assertion'[q], vote'[q])
    <3>1. CASE q = p
      BY <2>1, <2>6, <2>7, <3>1 DEF LedgerInv
    <3>2. CASE q # p
      BY <2>1, <2>7, <3>2 DEF LedgerInv
    <3>. QED BY <3>1, <3>2
  <2>9. Weighs
    BY <2>1 DEF Weighs
  <2>10. vote' = [q \in L!Subjects |-> vote'[q]] /\ verified' \subseteq People /\ corrected' \subseteq L!Subjects
    BY <2>1 DEF LedgerInv
  <2>. QED BY <2>1, <2>7, <2>8, <2>9, <2>10 DEF LedgerInv
<1>3. ASSUME NEW p \in L!Subjects, NEW v \in People, NEW verdict \in L!Verdicts, L!Votes(v, p, verdict)
      PROVE  LedgerInv' /\ Weighs
  <2>1. v \in L!Others(p) /\ vote[p][v] = None /\ UNCHANGED <<verified, corrected, changes>>
    BY <1>3 DEF L!Votes
  <2>2. PICK cast : cast = [verdict |-> verdict, standing |-> L!Standing(v)]
    OBVIOUS
  <2>3. cast \in Cast
    BY <2>2, StandingIs DEF Cast
  <2>4. PICK votes : votes = [vote[p] EXCEPT ![v] = cast]
    OBVIOUS
  <2>5. vote[p] \in [L!Others(p) -> {None} \cup Cast]
    BY DEF LedgerInv
  <2>6. /\ votes \in [L!Others(p) -> {None} \cup Cast]
        /\ \A w \in L!Others(p) : vote[p][w] # None => votes[w] = vote[p][w]
    BY <2>1, <2>3, <2>4, <2>5
  <2>7. L!SetVotes(p, votes)
    BY <1>3, <2>2, <2>4 DEF L!Votes
  <2>8. changes' \in 0..MaxChanges
    BY <2>1 DEF LedgerInv
  <2>9. LedgerInv'
    BY <2>1, <2>6, <2>7, <2>8, VotesSet
  <2>10. Weighs
    BY <2>6, <2>7 DEF Weighs, L!SetVotes, LedgerInv
  <2>. QED BY <2>9, <2>10
<1>4. ASSUME NEW p \in L!Subjects, NEW v \in People, NEW verdict \in L!Verdicts, L!Correct(v, p, verdict)
      PROVE  LedgerInv' /\ Weighs
  <2>1. /\ v \in L!Others(p) /\ vote[p][v] # None /\ verified' = verified
        /\ corrected' = corrected \cup {p} /\ changes' \in 0..MaxChanges
    BY <1>4 DEF L!Correct, L!Changes, LedgerInv
  <2>2. vote[p] \in [L!Others(p) -> {None} \cup Cast]
    BY DEF LedgerInv
  <2>3. vote[p][v] \in Cast
    BY <2>1, <2>2
  <2>4. PICK cast : cast = [vote[p][v] EXCEPT !.verdict = verdict]
    OBVIOUS
  <2>5. cast \in Cast /\ cast.standing = vote[p][v].standing
    BY <2>3, <2>4 DEF Cast
  <2>6. PICK votes : votes = [vote[p] EXCEPT ![v] = cast]
    OBVIOUS
  <2>7. votes \in [L!Others(p) -> {None} \cup Cast]
    BY <2>1, <2>2, <2>5, <2>6
  <2>8. L!SetVotes(p, votes)
    BY <1>4, <2>4, <2>6 DEF L!Correct
  <2>9. LedgerInv'
    BY <2>1, <2>7, <2>8, VotesSet
  <2>10. cast # None
    BY <2>5 DEF Cast
  <2>11. Weighs
    BY <2>1, <2>2, <2>5, <2>6, <2>8, <2>10 DEF Weighs, L!SetVotes, LedgerInv
  <2>. QED BY <2>9, <2>11
<1>. QED BY <1>0, <1>1, <1>2, <1>3, <1>4 DEF L!Next

LEMMA LedgerHolds == LedgerInv => L!TypeOK /\ L!Counted /\ L!StandsOnOthers
<1>. SUFFICES ASSUME LedgerInv PROVE L!TypeOK /\ L!Counted /\ L!StandsOnOthers
  OBVIOUS
<1>1. ASSUME NEW p \in L!Subjects
      PROVE  /\ Claimed(p, assertion[p]) /\ Numbers(p, assertion[p], vote[p])
             /\ p \notin corrected => Untouched(assertion[p], vote[p])
             /\ vote[p] \in [L!Others(p) -> {None} \cup Cast]
  BY DEF LedgerInv
<1>2. L!TypeOK
  <2>1. \A p \in L!Subjects : assertion[p].method \in DOMAIN L!METHOD_BASE
    BY <1>1, LedgerAssumption DEF Claimed, L!Subjects
  <2>. QED BY <1>1, <2>1 DEF L!TypeOK, LedgerInv, Claimed, Cast
<1>3. L!Counted
  <2>1. ASSUME NEW p \in L!Subjects
        PROVE  /\ assertion[p].confirms = L!Computed(assertion[p], vote[p]).confirms
               /\ assertion[p].disputes = L!Computed(assertion[p], vote[p]).disputes
               /\ p \notin corrected => assertion[p] = L!Computed(assertion[p], vote[p])
    BY <1>1, CountedAgain, ComputedIs DEF Numbers
  <2>2. ASSUME NEW p \in L!Subjects
        PROVE  \E m \in Methods \cup {Claims[p].method} :
                   assertion[p].strength = L!Computed([assertion[p] EXCEPT !.method = m], vote[p]).strength
    <3>1. PICK m \in Methods \cup {Claims[p].method} : assertion[p].strength = Strength(m, vote[p])
      BY <1>1 DEF Numbers
    <3>2. PICK b : b = [assertion[p] EXCEPT !.method = m]
      OBVIOUS
    <3>3. b.method = m
      BY <1>1, <3>2 DEF Claimed, Shaped, Fields
    <3>4. L!Computed(b, vote[p]).strength = Strength(m, vote[p])
      BY <3>3, ComputedIs
    <3>. QED BY <3>1, <3>2, <3>4
  <2>. QED BY <2>1, <2>2 DEF L!Counted
<1>4. L!StandsOnOthers
  <2>1. ASSUME NEW p \in L!Subjects, p \notin corrected,
               L!Standing(p) > (IF p \in verified THEN L!STANDING_VERIFIED ELSE 0)
        PROVE  L!Voters(vote[p], "confirm") # {} /\ L!Voters(vote[p], "dispute") = {}
    BY <1>1, <2>1, StandingIs DEF Untouched
  <2>. QED BY <2>1 DEF L!StandsOnOthers
<1>. QED BY <1>2, <1>3, <1>4

\* What a page says of a claim is what its votes said, with the weight of their day, which no later change
\* touches; nobody's standing comes from their own word (ledger.py), of however many people and claims.
THEOREM VotesAreCounted == Spec => VotesCount
<1>1. Init => LedgerInv
  BY LedgerStarts DEF Init
<1>2. LedgerInv /\ [Next]_everything => LedgerInv' /\ Weighs
  <2>1. [Next]_everything => [L!Next]_ledger
    BY DEF Next, everything, ledger
  <2>. QED BY <2>1, LedgerSteps
<1>3. LedgerInv => (part = "ledger" => L!TypeOK /\ L!Counted /\ L!StandsOnOthers)
  BY LedgerHolds
<1>4. Spec => []LedgerInv
  BY <1>1, <1>2, PTL DEF Spec
<1>5. LedgerInv /\ [Next]_everything =>
        [\A p \in L!Subjects : \A v \in L!Others(p) :
            vote[p][v] # None => vote'[p][v] # None /\ vote'[p][v].standing = vote[p][v].standing]_(L!vars)
  BY <1>2 DEF Weighs
<1>6. Spec => L!Frozen
  BY <1>4, <1>5, PTL DEF Spec, L!Frozen
<1>. QED BY <1>3, <1>4, <1>6, PTL DEF VotesCount

-----------------------------------------------------------------------------
\* The cost of a period.  Sums are those of `Adds'.
Total(f) == S!SumFunction(f)
LEMMA TotalIs ==
    ASSUME NEW f, Summable(f, DOMAIN f)
    PROVE  \E sum : Adds(sum, f, DOMAIN f) /\ Total(f) = sum[DOMAIN f]
<1>. DEFINE sum == CHOOSE sum : Summed(sum, f, DOMAIN f)
<1>1. Adds(sum, f, DOMAIN f)
  BY SumsExist DEF Adds
<1>2. Total(f) = sum[DOMAIN f]
  BY DEF Total, S!SumFunction, S!SumFunctionOnSet, S!FoldFunctionOnSet, S!MapThenFoldSet, Summed, Taken
<1>. HIDE DEF sum
<1>. QED BY <1>1, <1>2

\* The total of numbers that are no less than 0, or than 1.
LEMMA TotalAtLeast ==
    ASSUME NEW f, IsFiniteSet(DOMAIN f), \A x \in DOMAIN f : f[x] \in Nat
    PROVE  /\ Total(f) \in Nat
           /\ (\E x \in DOMAIN f : f[x] > 0) => Total(f) > 0
<1>. DEFINE All == DOMAIN f
<1>0. Summable(f, All)
  BY DEF Summable
<1>1. PICK sum : Adds(sum, f, All) /\ Total(f) = sum[All]
  BY <1>0, TotalIs
<1>. DEFINE Good == {Some \in SUBSET All : sum[Some] \in Nat}
<1>. HIDE DEF All
<1>2. Steps(sum, f, All)
  BY <1>1, SumsStart
<1>3. {} \in Good
  BY <1>2 DEF Steps
<1>4. ASSUME NEW Some \in SUBSET All, Some # {}, \A x \in Some : Some \ {x} \in Good PROVE Some \in Good
  <2>1. PICK x \in Some : sum[Some] = f[x] + sum[Some \ {x}]
    BY <1>2, <1>4 DEF Steps
  <2>2. f[x] \in Nat /\ sum[Some \ {x}] \in Nat
    BY <1>4 DEF All
  <2>. QED BY <2>1, <2>2
<1>. HIDE DEF Good
<1>5. IsFiniteSet(All)
  BY DEF All
<1>6. \A Some \in SUBSET All : Some \in Good
  BY <1>3, <1>4, <1>5, SetInduction
<1>7. \A Some \in SUBSET All : sum[Some] \in Nat
  BY <1>6 DEF Good
<1>8. ASSUME NEW x \in All, f[x] > 0 PROVE sum[All] > 0
  <2>1. sum[All] = f[x] + sum[All \ {x}]
    BY <1>1, SumsAre
  <2>2. sum[All \ {x}] \in Nat /\ f[x] \in Nat
    BY <1>7 DEF All
  <2>. QED BY <1>8, <2>1, <2>2
<1>. QED BY <1>1, <1>7, <1>8 DEF All

\* Multiples keep their order.
LEMMA Multiples ==
    /\ \A a, x, y \in Int : a * (x + y) = a * x + a * y
    /\ \A a, x, y \in Int : a >= 0 /\ x <= y => a * x <= a * y
    /\ \A a, x, y \in Int : a > 0 /\ a * x <= a * y => x <= y
<1>1. \A a, x, y \in Int : a * (x + y) = a * x + a * y
  OBVIOUS
<1>2. \A a, b \in Int : a >= 0 /\ b >= 0 => a * b >= 0
  OBVIOUS
<1>3. \A a, x, y \in Int : a >= 0 /\ x <= y => a * x <= a * y
  <2>. SUFFICES ASSUME NEW a \in Int, NEW x \in Int, NEW y \in Int, a >= 0, x <= y PROVE a * x <= a * y
    OBVIOUS
  <2>1. a * (y - x) >= 0
    BY <1>2
  <2>2. a * y = a * x + a * (y - x)
    BY <1>1
  <2>. QED BY <2>1, <2>2
<1>4. \A a, x, y \in Int : a > 0 /\ a * x <= a * y => x <= y
  <2>. SUFFICES ASSUME NEW a \in Int, NEW x \in Int, NEW y \in Int, a > 0, x > y PROVE a * x > a * y
    OBVIOUS
  <2>1. a * (y + 1) <= a * x
    BY <1>3
  <2>2. a * (y + 1) = a * y + a * 1
    BY <1>1
  <2>. QED BY <2>1, <2>2
<1>. QED BY <1>1, <1>3, <1>4

\* What is rounded is off by half a unit at most.
LEMMA RoundedIs ==
    ASSUME NEW n \in Int, NEW d \in Nat, d > 0
    PROVE  /\ S!Rounded(n, d) \in Int
           /\ 2 * (d * S!Rounded(n, d)) <= 2 * n + d
           /\ 2 * n - d <= 2 * (d * S!Rounded(n, d))
<1>1. \A a \in Int, b \in Int : b > 0 => a \div b \in Int /\ b * (a \div b) <= a /\ a < b * (a \div b) + b
  OBVIOUS
<1>2. PICK q : q = S!Rounded(n, d)
  OBVIOUS
<1>3. q \in Int /\ (2 * d) * q <= 2 * n + d /\ 2 * n + d < (2 * d) * q + 2 * d
  BY <1>1, <1>2 DEF S!Rounded
<1>4. (2 * d) * q = 2 * (d * q) /\ d * q \in Int
  BY <1>3
<1>. QED BY <1>2, <1>3, <1>4

LEMMA RoundedKeeps ==
    ASSUME NEW n \in Nat, NEW m \in Nat, NEW d \in Nat, d > 0, n <= m
    PROVE  S!Rounded(n, d) \in Nat /\ S!Rounded(n, d) <= S!Rounded(m, d)
<1>1. \A a \in Int, b \in Int : b > 0 => a \div b \in Int /\ b * (a \div b) <= a /\ a < b * (a \div b) + b
  OBVIOUS
<1>2. PICK q, r : q = S!Rounded(n, d) /\ r = S!Rounded(m, d)
  OBVIOUS
<1>. DEFINE e == 2 * d
<1>3. /\ e \in Int /\ e > 0 /\ q \in Int /\ r \in Int
      /\ e * q <= 2 * n + d /\ 2 * n + d < e * q + e
      /\ e * r <= 2 * m + d /\ 2 * m + d < e * r + e
  <2>1. e \in Int /\ e > 0 /\ 2 * n + d \in Int /\ 2 * m + d \in Int
    OBVIOUS
  <2>2. q = (2 * n + d) \div e /\ r = (2 * m + d) \div e
    BY <1>2 DEF S!Rounded
  <2>. HIDE DEF e
  <2>. QED BY <1>1, <2>1, <2>2
<1>. HIDE DEF e
<1>4. e * (q + 1) = e * q + e * 1 /\ e * (r + 1) = e * r + e * 1
  BY <1>3, Multiples
<1>5. e * q \in Int /\ e * r \in Int /\ e * 1 = e
  BY <1>3
<1>6. e * q <= e * (r + 1) /\ e * 0 <= e * (q + 1)
  BY <1>3, <1>4, <1>5
<1>7. q <= r + 1 /\ 0 <= q + 1
  BY <1>3, <1>6, Multiples
<1>8. q # r + 1 /\ 0 # q + 1
  BY <1>3, <1>4, <1>5
<1>. QED BY <1>2, <1>3, <1>7, <1>8

\* Shares that are rounded one by one miss the whole by half a unit each.
Sized(days, bill) ==
    /\ IsFiniteSet(DOMAIN days) /\ \A x \in DOMAIN days : days[x] \in Nat /\ days[x] > 0
    /\ bill \in Nat
Amounts(days, bill, amount) ==
    amount = [x \in DOMAIN days |-> S!Rounded(bill * days[x], Total(days))]
Within2(off, n) == 2 * off <= n /\ 2 * (-off) <= n

LEMMA Recovers ==
    ASSUME NEW days, NEW bill, NEW amount, Sized(days, bill), Amounts(days, bill, amount), DOMAIN days # {}
    PROVE  /\ Total(days) \in Nat /\ Total(days) > 0 /\ Total(amount) \in Int
           /\ Within2(Total(amount) - bill, Cardinality(DOMAIN days))
<1>. DEFINE All == DOMAIN days
            whole == Total(days)
            n(Some) == Cardinality(Some)
<1>1. IsFiniteSet(All) /\ All # {} /\ bill \in Nat /\ \A x \in All : days[x] \in Nat /\ days[x] > 0
  BY DEF Sized
<1>2. whole \in Nat /\ whole > 0
  BY <1>1, TotalAtLeast
<1>. HIDE DEF whole
<1>3. DOMAIN amount = All /\ \A x \in All : amount[x] = S!Rounded(bill * days[x], whole)
  BY DEF Amounts, whole
<1>4. ASSUME NEW x \in All
      PROVE  /\ bill * days[x] \in Nat /\ amount[x] \in Int
             /\ 2 * (whole * amount[x]) <= 2 * (bill * days[x]) + whole
             /\ 2 * (bill * days[x]) - whole <= 2 * (whole * amount[x])
  <2>1. PICK m : m = bill * days[x]
    OBVIOUS
  <2>2. m \in Nat
    <3>1. \A a, b \in Nat : a * b \in Nat
      OBVIOUS
    <3>. QED BY <1>1, <2>1, <3>1
  <2>3. PICK q : q = S!Rounded(m, whole)
    OBVIOUS
  <2>4. m \in Int /\ amount[x] = q
    BY <1>3, <2>1, <2>2, <2>3
  <2>5. q \in Int /\ 2 * (whole * q) <= 2 * m + whole /\ 2 * m - whole <= 2 * (whole * q)
    BY <1>2, <2>3, <2>4, RoundedIs
  <2>. QED BY <2>1, <2>2, <2>4, <2>5
<1>. HIDE DEF All
<1>5. Summable(days, All) /\ Summable(amount, All)
  BY <1>1, <1>4 DEF Summable
<1>6. PICK u : Adds(u, days, All) /\ whole = u[All]
  BY <1>5, TotalIs DEF All, whole
<1>7. PICK v : Adds(v, amount, All) /\ Total(amount) = v[All]
  BY <1>3, <1>5, TotalIs
<1>8. Steps(u, days, All) /\ Steps(v, amount, All)
  BY <1>6, <1>7, SumsStart
<1>. DEFINE Near(Some) == /\ 2 * (whole * v[Some]) <= 2 * (bill * u[Some]) + whole * n(Some)
                          /\ 2 * (bill * u[Some]) - whole * n(Some) <= 2 * (whole * v[Some])
            Good == {Some \in SUBSET All : Near(Some)}
<1>9. {} \in Good
  <2>1. u[{}] = 0 /\ v[{}] = 0 /\ n({}) = 0
    BY <1>8, FS_EmptySet DEF Steps
  <2>2. whole * 0 = 0 /\ bill * 0 = 0
    BY <1>1, <1>2
  <2>. QED BY <2>1, <2>2
<1>10. ASSUME NEW Some \in SUBSET All, Some # {}, \A x \in Some : Some \ {x} \in Good PROVE Some \in Good
  <2>1. PICK x : x = Taken(Some)
    OBVIOUS
  <2>2. PICK Rest : Rest = Some \ {x}
    OBVIOUS
  <2>3. x \in Some /\ u[Some] = days[x] + u[Rest] /\ v[Some] = amount[x] + v[Rest]
    BY <1>8, <1>10, <2>1, <2>2 DEF Steps
  <2>4. n(Some) = n(Rest) + 1 /\ n(Rest) \in Nat
    <3>1. IsFiniteSet(Some)
      BY <1>1, FS_Subset
    <3>2. IsFiniteSet(Rest) /\ n(Rest) = n(Some) - 1
      BY <2>2, <2>3, <3>1, FS_RemoveElement
    <3>3. n(Some) \in Nat /\ n(Rest) \in Nat
      BY <3>1, <3>2, FS_CardinalityType
    <3>. HIDE DEF n
    <3>. QED BY <3>2, <3>3
  <2>5. Near(Rest) /\ Rest \in SUBSET All
    BY <1>10, <2>2, <2>3
  <2>6. u[Rest] \in Int /\ v[Rest] \in Int
    BY <1>8, <2>5 DEF Steps
  <2>. HIDE DEF Near, n
  <2>7. PICK a, d, y, z, k : a = amount[x] /\ d = days[x] /\ y = u[Rest] /\ z = v[Rest] /\ k = n(Rest)
    OBVIOUS
  <2>8. a \in Int /\ d \in Nat /\ y \in Int /\ z \in Int /\ k \in Nat
    BY <1>1, <1>4, <2>3, <2>4, <2>6, <2>7
  <2>9. /\ whole * v[Some] = whole * a + whole * z
        /\ bill * u[Some] = bill * d + bill * y
        /\ whole * n(Some) = whole * k + whole * 1
    <3>1. v[Some] = a + z /\ u[Some] = d + y /\ n(Some) = k + 1
      BY <2>2, <2>3, <2>4, <2>7
    <3>2. \A c, g, h \in Int : c * (g + h) = c * g + c * h
      BY Multiples
    <3>3. whole \in Int /\ bill \in Int /\ d \in Int /\ k \in Int /\ 1 \in Int
      BY <1>1, <1>2, <2>8
    <3>4. whole * (a + z) = whole * a + whole * z
      BY <2>8, <3>2, <3>3
    <3>5. bill * (d + y) = bill * d + bill * y
      BY <2>8, <3>2, <3>3
    <3>6. whole * (k + 1) = whole * k + whole * 1
      BY <3>2, <3>3
    <3>. QED BY <3>1, <3>4, <3>5, <3>6
  <2>10. /\ 2 * (whole * a) <= 2 * (bill * d) + whole /\ 2 * (bill * d) - whole <= 2 * (whole * a)
         /\ 2 * (whole * z) <= 2 * (bill * y) + whole * k /\ 2 * (bill * y) - whole * k <= 2 * (whole * z)
    BY <1>4, <2>3, <2>5, <2>7 DEF Near
  <2>11. /\ whole * a \in Int /\ bill * d \in Int /\ whole * z \in Int /\ bill * y \in Int /\ whole * k \in Int
         /\ whole * 1 = whole
    BY <1>1, <1>2, <2>8
  <2>12. Near(Some)
    BY <1>2, <2>9, <2>10, <2>11 DEF Near
  <2>. QED BY <2>12
<1>. HIDE DEF Good
<1>11. \A Some \in SUBSET All : Some \in Good
  BY <1>1, <1>9, <1>10, SetInduction
<1>12. Near(All)
  BY <1>11 DEF Good
<1>13. PICK paid, k : paid = v[All] /\ k = n(All)
  OBVIOUS
<1>14. paid \in Int /\ k \in Nat
  BY <1>1, <1>8, <1>13, FS_CardinalityType DEF Steps
<1>15. /\ 2 * (whole * paid) <= 2 * (bill * whole) + whole * k
       /\ 2 * (bill * whole) - whole * k <= 2 * (whole * paid)
  BY <1>6, <1>12, <1>13
<1>. HIDE DEF Near, n
<1>16. /\ whole * (2 * paid - 2 * bill) = 2 * (whole * paid) - 2 * (bill * whole)
       /\ whole * (2 * bill - 2 * paid) = 2 * (bill * whole) - 2 * (whole * paid)
  BY <1>1, <1>2, <1>14
<1>17. /\ whole * (2 * paid - 2 * bill) <= whole * k
       /\ whole * (2 * bill - 2 * paid) <= whole * k
  <2>1. whole * paid \in Int /\ bill * whole \in Int /\ whole * k \in Int
    BY <1>1, <1>2, <1>14
  <2>. QED BY <1>15, <1>16, <2>1
<1>18. 2 * paid - 2 * bill <= k /\ 2 * bill - 2 * paid <= k
  BY <1>1, <1>2, <1>14, <1>17, Multiples
<1>19. 2 * (paid - bill) <= k /\ 2 * (-(paid - bill)) <= k
  BY <1>1, <1>14, <1>18
<1>. QED BY <1>2, <1>7, <1>13, <1>14, <1>19 DEF Within2, All, whole, n

LEMMA OfTwo ==
    ASSUME NEW x \in Int, NEW y \in Int
    PROVE  /\ S!Max({x, y}) = IF x >= y THEN x ELSE y
           /\ S!Min({x, y}) = IF x <= y THEN x ELSE y
<1>1. PICK high : high = IF x >= y THEN x ELSE y
  OBVIOUS
<1>2. PICK low : low = IF x <= y THEN x ELSE y
  OBVIOUS
<1>3. high \in {x, y} /\ \A z \in {x, y} : high >= z
  BY <1>1
<1>4. \A w \in {x, y} : (\A z \in {x, y} : w >= z) => w = high
  BY <1>1
<1>5. low \in {x, y} /\ \A z \in {x, y} : low <= z
  BY <1>2
<1>6. \A w \in {x, y} : (\A z \in {x, y} : w <= z) => w = low
  BY <1>2
<1>. QED BY <1>1, <1>2, <1>3, <1>4, <1>5, <1>6 DEF S!Max, S!Min

\* The days of what goes from `from' to `to', inside a span.
Inside(from, to, start2, end2) ==
    LET late == IF from >= start2 THEN from ELSE start2
        early == IF to <= end2 THEN to ELSE end2
    IN IF early >= late THEN early - late + 1 ELSE 0
LastIn(b, span) == IF b.end = None THEN span.end ELSE b.end

LEMMA DaysAre ==
    ASSUME NEW b, b.start \in Int, b.end \in Int \cup {None}, NEW span, span.start \in Int, span.end \in Int
    PROVE  /\ LastIn(b, span) \in Int
           /\ S!Days(b, span) = Inside(b.start, LastIn(b, span), span.start, span.end)
           /\ S!Days(b, span) \in Nat
<1>1. PICK from, to, start2, end2 : /\ from = b.start /\ to = LastIn(b, span)
                                    /\ start2 = span.start /\ end2 = span.end
  OBVIOUS
<1>2. from \in Int /\ to \in Int /\ start2 \in Int /\ end2 \in Int
  BY <1>1 DEF LastIn
<1>3. /\ S!Max({from, start2}) = IF from >= start2 THEN from ELSE start2
      /\ S!Min({to, end2}) = IF to <= end2 THEN to ELSE end2
  BY <1>2, OfTwo
<1>4. S!Days(b, span) = IF S!Min({to, end2}) >= S!Max({from, start2})
                        THEN S!Min({to, end2}) - S!Max({from, start2}) + 1 ELSE 0
  BY <1>1 DEF S!Days, LastIn
<1>5. S!Days(b, span) = Inside(from, to, start2, end2)
  BY <1>3, <1>4 DEF Inside
<1>6. Inside(from, to, start2, end2) \in Nat
  BY <1>2 DEF Inside
<1>. QED BY <1>1, <1>2, <1>5, <1>6

\* They are as many as they are: every day of the span on which the booking runs.
LEMMA DaysCounted ==
    ASSUME NEW b, b.start \in Int, b.end \in Int \cup {None}, NEW span, span.start \in Int, span.end \in Int
    PROVE  IsFiniteSet(S!DaysIn(b, span)) /\ S!Days(b, span) = Cardinality(S!DaysIn(b, span))
<1>1. PICK from, to, start2, end2 : /\ from = b.start /\ to = LastIn(b, span)
                                    /\ start2 = span.start /\ end2 = span.end
  OBVIOUS
<1>2. from \in Int /\ to \in Int /\ start2 \in Int /\ end2 \in Int
  BY <1>1 DEF LastIn
<1>. DEFINE late == IF from >= start2 THEN from ELSE start2
            early == IF to <= end2 THEN to ELSE end2
<1>3. S!DaysIn(b, span) = {d \in start2..end2 : d >= from /\ d <= to}
  <2>1. \A d \in start2..end2 : (b.end = None \/ d <= b.end) <=> d <= to
    BY <1>1, <1>2 DEF LastIn
  <2>. QED BY <1>1, <2>1 DEF S!DaysIn
<1>4. {d \in start2..end2 : d >= from /\ d <= to} = late..early
  BY <1>2
<1>5. late \in Int /\ early \in Int
  BY <1>2
<1>6. Inside(from, to, start2, end2) = IF late > early THEN 0 ELSE early - late + 1
  BY <1>2 DEF Inside
<1>. HIDE DEF late, early
<1>7. IsFiniteSet(late..early) /\ Cardinality(late..early) = IF late > early THEN 0 ELSE early - late + 1
  BY <1>5, FS_Interval
<1>. QED BY <1>1, <1>3, <1>4, <1>6, <1>7, DaysAre

LEMMA DaysHold == S!DaysAddUp
<1>1. ASSUME NEW p \in DOMAIN Periods, NEW q \in DOMAIN Periods, NEW b \in DOMAIN Bookings
      PROVE  S!Days(Bookings[b], Periods[p]) + S!Days(Bookings[b], Periods[q])
                = Cardinality(S!DaysIn(Bookings[b], Periods[p]) \cup S!DaysIn(Bookings[b], Periods[q]))
                  + Cardinality(S!DaysIn(Bookings[b], Periods[p]) \cap S!DaysIn(Bookings[b], Periods[q]))
  <2>1. /\ Periods[p].start \in Int /\ Periods[p].end \in Int
        /\ Periods[q].start \in Int /\ Periods[q].end \in Int
        /\ Bookings[b].start \in Int /\ Bookings[b].end \in Int \cup {None}
    BY CostAssumption
  <2>. DEFINE x == S!DaysIn(Bookings[b], Periods[p])
              y == S!DaysIn(Bookings[b], Periods[q])
  <2>2. /\ IsFiniteSet(x) /\ S!Days(Bookings[b], Periods[p]) = Cardinality(x)
        /\ IsFiniteSet(y) /\ S!Days(Bookings[b], Periods[q]) = Cardinality(y)
    BY <2>1, DaysCounted
  <2>. HIDE DEF x, y
  <2>3. Cardinality(x \cup y) = Cardinality(x) + Cardinality(y) - Cardinality(x \cap y)
    BY <2>2, FS_Union
  <2>4. Cardinality(x) \in Nat /\ Cardinality(y) \in Nat /\ Cardinality(x \cap y) \in Nat
    <3>1. x \cap y \in SUBSET x
      OBVIOUS
    <3>. QED BY <2>2, <3>1, FS_Subset, FS_CardinalityType
  <2>5. Cardinality(x) + Cardinality(y) = Cardinality(x \cup y) + Cardinality(x \cap y)
    BY <2>3, <2>4
  <2>. QED BY <2>2, <2>5 DEF x, y
<1>2. \A X : S!Cardinality(X) = Cardinality(X)
  BY DEF S!Cardinality, Cardinality
<1>. QED BY <1>1, <1>2, Zenon DEF S!DaysAddUp

\* A period: its rate is of the cost it has and the shares there are, which divide the cost that was entered
\* when they were made.
DaysOf(share) == [x \in DOMAIN share |-> share[x].days]
AmountOf(share) == [x \in DOMAIN share |-> share[x].amount]
Divides(share, bill) ==
    \/ DOMAIN share = {} /\ bill = 0
    \/ /\ DOMAIN share # {} /\ Sized(DaysOf(share), bill)
       /\ Amounts(DaysOf(share), bill, AmountOf(share))
Columns == {"cost", "state", "share", "rate", "divided"}
Right(r) ==
    /\ r = [column \in Columns |-> r[column]]
    /\ r.cost \in Costs /\ r.divided \in Costs /\ r.state \in {"draft", "allocated", "closed"}
    /\ r.rate = S!Rate(r.cost, r.share) /\ Divides(r.share, r.divided)
CostInv ==
    /\ counted \subseteq DOMAIN Bookings
    /\ period = [p \in DOMAIN Periods |-> period[p]]
    /\ \A p \in DOMAIN Periods : Right(period[p])

LEMMA CostStarts == S!Init => CostInv
<1>. SUFFICES ASSUME S!Init PROVE CostInv
  OBVIOUS
<1>1. ASSUME NEW p \in DOMAIN Periods PROVE Right(period[p])
  <2>1. PICK r : r = [cost |-> 0, state |-> "draft", share |-> <<>>, rate |-> 0, divided |-> 0]
    OBVIOUS
  <2>2. r = [column \in Columns |-> r[column]] /\ r.cost = 0 /\ r.divided = 0 /\ r.state = "draft"
        /\ r.share = <<>> /\ r.rate = 0
    BY <2>1 DEF Columns
  <2>3. DOMAIN <<>> = {}
    OBVIOUS
  <2>4. S!TotalDays(<<>>) = 0
    <3>1. PICK f : f = DaysOf(<<>>)
      OBVIOUS
    <3>2. DOMAIN f = {} /\ Summable(f, DOMAIN f)
      BY <2>3, <3>1, FS_EmptySet DEF DaysOf, Summable
    <3>3. PICK sum : Adds(sum, f, DOMAIN f) /\ Total(f) = sum[DOMAIN f]
      BY <3>2, TotalIs
    <3>4. Steps(sum, f, DOMAIN f)
      BY <3>3, SumsStart
    <3>5. Total(f) = 0
      BY <3>2, <3>3, <3>4 DEF Steps
    <3>. QED BY <3>1, <3>5 DEF S!TotalDays, Total, DaysOf
  <2>5. S!Rate(0, <<>>) = 0
    BY <2>4 DEF S!Rate
  <2>6. Divides(<<>>, 0)
    BY <2>3 DEF Divides
  <2>7. period[p] = r
    BY <2>1 DEF S!Init
  <2>. QED BY <2>2, <2>5, <2>6, <2>7, CostAssumption DEF Right
<1>2. counted \subseteq DOMAIN Bookings /\ period = [p \in DOMAIN Periods |-> period[p]]
  BY DEF S!Init
<1>. QED BY <1>1, <1>2 DEF CostInv

\* Who booked days in a period are finitely many, each with some days.
LEMMA UsersAre ==
    ASSUME counted \subseteq DOMAIN Bookings, NEW p \in DOMAIN Periods
    PROVE  /\ IsFiniteSet(S!Users(p))
           /\ \A x \in S!Users(p) : S!Used(p, x) \in Nat /\ S!Used(p, x) > 0
<1>1. IsFiniteSet(counted)
  BY CostAssumption, FS_Subset
<1>2. IsFiniteSet(S!Users(p))
  <2>. DEFINE who == [b \in counted |-> Bookings[b].business]
              All == {Bookings[b].business : b \in counted}
  <2>1. who \in Surjection(counted, All)
    BY DEF Surjection
  <2>2. IsFiniteSet(All)
    BY <1>1, <2>1, FS_Surjection
  <2>3. S!Users(p) \in SUBSET All
    BY DEF S!Users
  <2>. QED BY <2>2, <2>3, FS_Subset
<1>3. ASSUME NEW x \in S!Users(p) PROVE S!Used(p, x) \in Nat /\ S!Used(p, x) > 0
  <2>1. S!Used(p, x) > 0
    BY DEF S!Users
  <2>2. PICK f : f = [b \in {b \in counted : Bookings[b].business = x} |-> S!Days(Bookings[b], Periods[p])]
    OBVIOUS
  <2>3. IsFiniteSet(DOMAIN f)
    BY <1>1, <2>2, FS_Subset
  <2>4. \A b \in DOMAIN f : f[b] \in Nat
    <3>1. \A b \in counted : S!Days(Bookings[b], Periods[p]) \in Nat
      BY CostAssumption, DaysAre
    <3>. QED BY <2>2, <3>1
  <2>5. Total(f) \in Nat
    BY <2>3, <2>4, TotalAtLeast
  <2>6. S!Used(p, x) = Total(f)
    BY <2>2 DEF S!Used, Total
  <2>. QED BY <2>1, <2>5, <2>6
<1>. QED BY <1>2, <1>3

LEMMA DividedIs ==
    ASSUME CostInv, NEW p \in DOMAIN Periods, S!Users(p) # {}
    PROVE  Divides(S!Divided(p), period[p].cost)
<1>. DEFINE share == S!Divided(p)
            days == [x \in S!Users(p) |-> S!Used(p, x)]
            bill == period[p].cost
<1>1. DOMAIN share = S!Users(p)
  BY DEF S!Divided
<1>2. \A x \in S!Users(p) : /\ share[x].days = S!Used(p, x)
                            /\ share[x].amount = S!Rounded(bill * S!Used(p, x), Total(days))
  BY DEF S!Divided, Total
<1>. HIDE DEF share
<1>3. DaysOf(share) = days
  BY <1>1, <1>2 DEF DaysOf
<1>4. Sized(days, bill)
  <2>1. bill \in Nat
    BY CostAssumption DEF CostInv, Right
  <2>2. IsFiniteSet(S!Users(p)) /\ \A x \in S!Users(p) : S!Used(p, x) \in Nat /\ S!Used(p, x) > 0
    BY UsersAre DEF CostInv
  <2>. QED BY <2>1, <2>2 DEF Sized
<1>5. Amounts(days, bill, AmountOf(share))
  BY <1>1, <1>2 DEF Amounts, AmountOf
<1>. HIDE DEF days, bill
<1>6. Divides(share, bill)
  BY <1>1, <1>3, <1>4, <1>5 DEF Divides
<1>. QED BY <1>6 DEF share, bill

\* One period is written.
LEMMA OneWritten ==
    ASSUME CostInv, NEW p \in DOMAIN Periods, NEW r, Right(r), period' = [period EXCEPT ![p] = r],
           counted' = counted
    PROVE  CostInv'
<1>1. /\ period' = [q \in DOMAIN Periods |-> period'[q]] /\ period'[p] = r
      /\ \A q \in DOMAIN Periods : q # p => period'[q] = period[q]
  BY DEF CostInv
<1>2. ASSUME NEW q \in DOMAIN Periods PROVE Right(period'[q])
  BY <1>1 DEF CostInv
<1>. QED BY <1>1, <1>2 DEF CostInv

LEMMA CostSteps == ASSUME CostInv, [S!Next]_cost PROVE CostInv'
<1>0. CASE UNCHANGED cost
  BY <1>0 DEF cost, CostInv
<1>1. ASSUME NEW p \in DOMAIN Periods, S!Allocate(p) PROVE CostInv'
  <2>1. PICK a, share : a = period[p] /\ share = S!Divided(p)
    OBVIOUS
  <2>2. Right(a) /\ Divides(share, a.cost)
    BY <1>1, <2>1, DividedIs DEF S!Allocate, CostInv
  <2>3. PICK r : r = [a EXCEPT !.share = share, !.state = "allocated", !.rate = S!Rate(a.cost, share),
                              !.divided = a.cost]
    OBVIOUS
  <2>4. period' = [period EXCEPT ![p] = r] /\ counted' = counted
    BY <1>1, <2>1, <2>3 DEF S!Allocate
  <2>5. /\ r = [column \in Columns |-> r[column]]
        /\ r.share = share /\ r.state = "allocated" /\ r.rate = S!Rate(a.cost, share)
        /\ r.divided = a.cost /\ r.cost = a.cost
    BY <2>2, <2>3 DEF Right, Columns
  <2>6. Right(r)
    BY <2>2, <2>5 DEF Right
  <2>. QED BY <2>4, <2>6, OneWritten
<1>2. ASSUME NEW p \in DOMAIN Periods, S!Close(p) PROVE CostInv'
  <2>1. PICK a : a = period[p]
    OBVIOUS
  <2>2. Right(a)
    BY <2>1 DEF CostInv
  <2>3. PICK r : r = [a EXCEPT !.state = "closed"]
    OBVIOUS
  <2>4. period' = [period EXCEPT ![p] = r] /\ counted' = counted
    BY <1>2, <2>1, <2>3 DEF S!Close
  <2>5. Right(r)
    BY <2>2, <2>3 DEF Right, Columns
  <2>. QED BY <2>4, <2>5, OneWritten
<1>3. ASSUME NEW p \in DOMAIN Periods, NEW bill \in Costs, S!SetCost(p, bill) PROVE CostInv'
  <2>1. PICK a : a = period[p]
    OBVIOUS
  <2>2. Right(a)
    BY <2>1 DEF CostInv
  <2>3. PICK r : r = [a EXCEPT !.cost = bill, !.rate = S!Rate(bill, a.share)]
    OBVIOUS
  <2>4. period' = [period EXCEPT ![p] = r] /\ counted' = counted
    BY <1>3, <2>1, <2>3 DEF S!SetCost
  <2>5. Right(r)
    BY <2>2, <2>3 DEF Right, Columns
  <2>. QED BY <2>4, <2>5, OneWritten
<1>4. ASSUME NEW b \in DOMAIN Bookings, S!Changes(b) PROVE CostInv'
  BY <1>4 DEF S!Changes, CostInv
<1>. QED BY <1>0, <1>1, <1>2, <1>3, <1>4 DEF S!Next

LEMMA CostHolds == CostInv => S!TypeOK /\ S!Recovered /\ S!RateReads /\ S!DaysAddUp
<1>. SUFFICES ASSUME CostInv PROVE S!TypeOK /\ S!Recovered /\ S!RateReads
  BY DaysHold
<1>1. ASSUME NEW p \in DOMAIN Periods
      PROVE  /\ period[p].rate \in Nat
             /\ LET share == period[p].share
                    paid == S!SumFunction([x \in DOMAIN share |-> share[x].amount])
                    off == paid - period[p].divided
                IN /\ 2 * (IF off < 0 THEN -off ELSE off) <= S!Cardinality(DOMAIN share)
                   /\ \A x, y \in DOMAIN share : share[x].days < share[y].days => share[x].amount <= share[y].amount
                   /\ \A x \in DOMAIN share : share[x].days > 0
  <2>. DEFINE share == period[p].share
              bill == period[p].divided
              days == DaysOf(share)
              amount == AmountOf(share)
              off == Total(amount) - bill
  <2>1. /\ Right(period[p]) /\ Divides(share, bill) /\ bill \in Nat /\ period[p].cost \in Nat
        /\ period[p].rate = S!Rate(period[p].cost, share)
    BY CostAssumption DEF CostInv, Right
  <2>2. S!TotalDays(share) = Total(days)
    BY DEF S!TotalDays, Total, DaysOf
  <2>3. S!Cardinality(DOMAIN share) = Cardinality(DOMAIN share)
    BY DEF S!Cardinality, Cardinality
  <2>. HIDE DEF share, bill
  <2>4. /\ DOMAIN days = DOMAIN share /\ \A x \in DOMAIN share : days[x] = share[x].days
        /\ DOMAIN amount = DOMAIN share /\ \A x \in DOMAIN share : amount[x] = share[x].amount
    BY DEF DaysOf, AmountOf
  <2>. HIDE DEF days, amount
  <2>5. Total(days) \in Nat
    <3>1. CASE DOMAIN share = {}
      <4>1. IsFiniteSet(DOMAIN days) /\ \A x \in DOMAIN days : days[x] \in Nat
        BY <2>4, <3>1, FS_EmptySet
      <4>. QED BY <4>1, TotalAtLeast
    <3>2. CASE DOMAIN share # {}
      BY <2>1, <2>4, <3>2, Recovers DEF Divides, days, amount
    <3>. QED BY <3>1, <3>2
  <2>6. period[p].rate \in Nat
    <3>1. CASE Total(days) = 0
      BY <2>1, <2>2, <3>1 DEF S!Rate
    <3>2. CASE Total(days) # 0
      BY <2>1, <2>2, <2>5, <3>2, RoundedKeeps DEF S!Rate
    <3>. QED BY <3>1, <3>2
  <2>7. CASE DOMAIN share = {} /\ bill = 0
    <3>1. DOMAIN amount = {} /\ Summable(amount, DOMAIN amount)
      BY <2>4, <2>7, FS_EmptySet DEF Summable
    <3>2. PICK sum : Adds(sum, amount, DOMAIN amount) /\ Total(amount) = sum[DOMAIN amount]
      BY <3>1, TotalIs
    <3>3. Steps(sum, amount, DOMAIN amount)
      BY <3>2, SumsStart
    <3>4. Total(amount) = 0
      BY <3>1, <3>2, <3>3 DEF Steps
    <3>5. Cardinality(DOMAIN share) = 0
      BY <2>7, FS_EmptySet
    <3>6. off = 0
      BY <2>7, <3>4
    <3>. QED BY <2>3, <2>6, <2>7, <3>5, <3>6 DEF Total, share, bill, amount, AmountOf
  <2>8. CASE ~(DOMAIN share = {} /\ bill = 0)
    <3>1. DOMAIN share # {} /\ Sized(days, bill) /\ Amounts(days, bill, amount)
      BY <2>1, <2>8 DEF Divides, days, amount
    <3>2. /\ Total(days) \in Nat /\ Total(days) > 0 /\ Total(amount) \in Int
          /\ Within2(off, Cardinality(DOMAIN share))
      BY <2>4, <3>1, Recovers
    <3>3. 2 * (IF off < 0 THEN -off ELSE off) <= Cardinality(DOMAIN share)
      BY <3>2 DEF Within2
    <3>4. \A x \in DOMAIN share : share[x].days > 0
      BY <2>4, <3>1 DEF Sized
    <3>5. ASSUME NEW x \in DOMAIN share, NEW y \in DOMAIN share, share[x].days < share[y].days
          PROVE  share[x].amount <= share[y].amount
      <4>1. PICK d, e : d = days[x] /\ e = days[y]
        OBVIOUS
      <4>2. d \in Nat /\ e \in Nat /\ d < e /\ bill \in Nat
        BY <2>4, <3>1, <3>5, <4>1 DEF Sized
      <4>3. bill * d \in Nat /\ bill * e \in Nat
        <5>1. \A i, j \in Nat : i * j \in Nat
          OBVIOUS
        <5>. QED BY <4>2, <5>1
      <4>4. bill * d <= bill * e
        BY <4>2, Multiples
      <4>5. S!Rounded(bill * d, Total(days)) <= S!Rounded(bill * e, Total(days))
        BY <3>2, <4>3, <4>4, RoundedKeeps
      <4>6. amount[x] = S!Rounded(bill * d, Total(days)) /\ amount[y] = S!Rounded(bill * e, Total(days))
        BY <2>4, <3>1, <4>1 DEF Amounts
      <4>. QED BY <2>4, <4>5, <4>6
    <3>. QED BY <2>3, <2>6, <3>3, <3>4, <3>5 DEF Total, share, bill, amount, AmountOf
  <2>. QED BY <2>7, <2>8
<1>2. S!Recovered
  BY <1>1 DEF S!Recovered
<1>3. S!RateReads
  BY DEF S!RateReads, CostInv, Right
<1>4. S!TypeOK
  BY <1>1 DEF S!TypeOK, CostInv, Right
<1>. QED BY <1>2, <1>3, <1>4

\* The cost of a period is recovered to the rounding, from those who used it, at the rate the page shows, and
\* no day is charged twice (ikiku_cost.py), of whatever bookings, periods and costs.
THEOREM SharesRecoverCost == Spec => []SharesAddUp
<1>1. Init => CostInv
  BY CostStarts DEF Init
<1>2. CostInv /\ [Next]_everything => CostInv'
  <2>1. [Next]_everything => [S!Next]_cost
    BY DEF Next, everything, cost
  <2>. QED BY <2>1, CostSteps
<1>3. CostInv => SharesAddUp
  BY CostHolds DEF SharesAddUp
<1>. QED BY <1>1, <1>2, <1>3, PTL DEF Spec
===============================================================================
