--------------------------- MODULE Responder_proofs ---------------------------
(***************************************************************************)
(* Theorems about Responder, for any languages, any debounce and maximum    *)
(* wait, and any number of changes: its types, and that it forgets no       *)
(* change while the connection stands.                                      *)
(*                                                                         *)
(* NothingForgotten leans on one thing that its own text does not say: the  *)
(* stamp kept beside an index, and the one carried by a load, name the      *)
(* languages of the rows they came with (SameLangs), for the transaction    *)
(* that reads the rows reads the stamp.  That is why a language is never    *)
(* missed as a counted change can be.                                       *)
(***************************************************************************)
EXTENDS Responder, TLAPS

\* Where the goroutine is says what it carries.
Carries ==
    /\ loop.at = "away" => loop = Away
    /\ loop.at = "select" => loop = Listening
    /\ loop.at \in {"reading", "building"} => loop.data \in Data
    /\ loop.at = "building" => loop.stamp \in Stamps

\* The stamp is of the languages of the rows.
SameLangs ==
    /\ loop.at = "building" => loop.stamp.langs = loop.data.langs
    /\ served = stamp \/ stamp.langs = served.langs

Inv == TypeOK /\ Carries /\ SameLangs /\ NothingForgotten
-----------------------------------------------------------------------------
(* Types *)

\* The goroutine's places that carry nothing.
LEMMA Empty ==
    /\ {Away, Listening, At("loading")} \subseteq Loops
    /\ Away.at = "away" /\ Listening.at = "select" /\ At("loading").at = "loading"
BY DEF Away, Listening, At, Loops

\* Every step keeps the types, and what the goroutine carries.
LEMMA TypesKept ==
    ASSUME TypeOK, Carries, [Next]_vars
    PROVE  TypeOK' /\ Carries'
<1>. DEFINE Goal == TypeOK' /\ Carries'
<1>. USE TimesAssumption, NoneAssumption, Empty DEF TypeOK, Carries, source, Off
<1>1. CASE Change
  <2>1. version' \in 0..MaxChanges /\ uncounted' \in 0..MaxChanges
        /\ counters' + uncounted' <= MaxChanges
    BY <1>1 DEF Change
  <2>2. wire' \in BOOLEAN
    BY <1>1 DEF Change, Announced
  <2>. QED
    BY <1>1, <2>1, <2>2 DEF Change
<1>2. CASE Touch
  BY <1>2 DEF Touch, Announced
<1>3. CASE RollBack
  BY <1>3 DEF RollBack
<1>4. CASE Count
  BY <1>4 DEF Count
<1>5. CASE Drop
  BY <1>5 DEF Drop
<1>6. ASSUME NEW l \in SUBSET Langs, Relanguage(l) PROVE Goal
  BY <1>6 DEF Relanguage
<1>7. CASE Hear
  BY <1>7 DEF Hear
<1>8. CASE Request
  BY <1>8 DEF Request
<1>9. CASE Tick
  BY <1>9 DEF Tick
<1>10. CASE Connect
  BY <1>10 DEF Connect, Loops
<1>11. CASE Heard
  <2>1. pending' \in 0..MaxWait /\ pending' # Off
    BY <1>11 DEF Heard
  <2>2. quiet' \in 0..Debounce /\ quiet' # Off
    BY <1>11, <2>1 DEF Heard
  <2>. QED
    BY <1>11, <2>1, <2>2 DEF Heard
<1>12. CASE Due
  BY <1>12 DEF Due, Loads
<1>13. CASE Asked
  BY <1>13 DEF Asked, Loads
<1>14. CASE Poll
  BY <1>14 DEF Poll, Loads, Stamp
<1>15. CASE Broken
  BY <1>15 DEF Broken, SessionOver
<1>16. CASE Snapshot
  BY <1>16 DEF Snapshot, Loops, Data
<1>17. CASE ReadStamp
  BY <1>17 DEF ReadStamp, Stamp, Loops, Data, Stamps
<1>18. CASE Install
  BY <1>18 DEF Install, Loops
<1>19. CASE Fail
  <2>1. CASE loop.first
    BY <1>19, <2>1 DEF Fail, SessionOver
  <2>2. CASE ~loop.first
    BY <1>19, <2>2 DEF Fail
  <2>. QED
    BY <2>1, <2>2
<1>20. CASE UNCHANGED vars
  BY <1>20 DEF vars, source, Stamp
<1>. QED
  BY <1>1, <1>2, <1>3, <1>4, <1>5, <1>6, <1>7, <1>8, <1>9, <1>10,
     <1>11, <1>12, <1>13, <1>14, <1>15, <1>16, <1>17, <1>18, <1>19, <1>20
  DEF Next, Database, Loop, Select

-----------------------------------------------------------------------------
(* Nothing is forgotten *)

\* Every step keeps the languages of stamp and rows the same.
LEMMA LangsKept ==
    ASSUME TypeOK, Carries, SameLangs, [Next]_vars
    PROVE  SameLangs'
<1>. DEFINE Goal == SameLangs'
<1>. USE DEF Carries, SameLangs, source, At, Away, Listening
<1>1. CASE Change
  BY <1>1 DEF Change, Announced
<1>2. CASE Touch
  BY <1>2 DEF Touch, Announced
<1>3. CASE RollBack
  BY <1>3 DEF RollBack
<1>4. CASE Count
  BY <1>4 DEF Count
<1>5. CASE Drop
  BY <1>5 DEF Drop
<1>6. ASSUME NEW l \in SUBSET Langs, Relanguage(l) PROVE Goal
  BY <1>6 DEF Relanguage
<1>7. CASE Hear
  BY <1>7 DEF Hear
<1>8. CASE Request
  BY <1>8 DEF Request
<1>9. CASE Tick
  BY <1>9 DEF Tick
<1>10. CASE Connect
  BY <1>10 DEF Connect
<1>11. CASE Heard
  BY <1>11 DEF Heard
<1>12. CASE Due
  BY <1>12 DEF Due, Loads
<1>13. CASE Asked
  BY <1>13 DEF Asked, Loads
<1>14. CASE Poll
  BY <1>14 DEF Poll, Loads, Stamp
<1>15. CASE Broken
  BY <1>15 DEF Broken, SessionOver
<1>16. CASE Snapshot
  BY <1>16 DEF Snapshot
<1>17. CASE ReadStamp
  BY <1>17 DEF ReadStamp, Stamp
<1>18. CASE Install
  BY <1>18 DEF Install
<1>19. CASE Fail
  BY <1>19 DEF Fail, SessionOver
<1>20. CASE UNCHANGED vars
  BY <1>20 DEF vars, source, Stamp
<1>. QED
  BY <1>1, <1>2, <1>3, <1>4, <1>5, <1>6, <1>7, <1>8, <1>9, <1>10,
     <1>11, <1>12, <1>13, <1>14, <1>15, <1>16, <1>17, <1>18, <1>19, <1>20
  DEF Next, Database, Loop, Select

\* Every step keeps a change that is not served on its way.
LEMMA NothingForgottenKept ==
    ASSUME TypeOK, Carries, SameLangs, NothingForgotten, [Next]_vars
    PROVE  NothingForgotten'
<1>. DEFINE Goal == NothingForgotten'
<1>. USE TimesAssumption, NoneAssumption
     DEF TypeOK, Carries, SameLangs, NothingForgotten, Coming, source, Off, At, Away, Listening, Stamp
<1>1. CASE Change
  BY <1>1 DEF Change, Announced
<1>2. CASE Touch
  BY <1>2 DEF Touch, Announced
<1>3. CASE RollBack
  BY <1>3 DEF RollBack
<1>4. CASE Count
  BY <1>4 DEF Count
<1>5. CASE Drop
  BY <1>5 DEF Drop
<1>6. ASSUME NEW l \in SUBSET Langs, Relanguage(l) PROVE Goal
  BY <1>6 DEF Relanguage
<1>7. CASE Hear
  BY <1>7 DEF Hear
<1>8. CASE Request
  BY <1>8 DEF Request
<1>9. CASE Tick
  BY <1>9 DEF Tick
<1>10. CASE Connect
  BY <1>10 DEF Connect
<1>11. CASE Heard
  BY <1>11 DEF Heard
<1>12. CASE Due
  BY <1>12 DEF Due, Loads
<1>13. CASE Asked
  BY <1>13 DEF Asked, Loads
<1>14. CASE Poll
  BY <1>14 DEF Poll, Loads, Stamp
<1>15. CASE Broken
  BY <1>15 DEF Broken, SessionOver
<1>16. CASE Snapshot
  BY <1>16 DEF Snapshot
<1>17. CASE ReadStamp
  BY <1>17 DEF ReadStamp, Stamp
<1>18. CASE Install
  BY <1>18 DEF Install
<1>19. CASE Fail
  BY <1>19 DEF Fail, SessionOver
<1>20. CASE UNCHANGED vars
  BY <1>20 DEF vars, source, Stamp
<1>. QED
  BY <1>1, <1>2, <1>3, <1>4, <1>5, <1>6, <1>7, <1>8, <1>9, <1>10,
     <1>11, <1>12, <1>13, <1>14, <1>15, <1>16, <1>17, <1>18, <1>19, <1>20
  DEF Next, Database, Loop, Select

-----------------------------------------------------------------------------
(* The theorems *)

THEOREM InvHolds == Spec => []Inv
<1>1. Init => Inv
  <2>. SUFFICES ASSUME Init PROVE Inv
    OBVIOUS
  <2>. USE DEF Init, Off
  <2>1. TypeOK
    <3>1. /\ version \in 0..MaxChanges /\ counters \in 0..MaxChanges
          /\ uncounted \in 0..MaxChanges /\ counters + uncounted <= MaxChanges
      BY TimesAssumption
    <3>2. {wire, notified, asked, missed} \subseteq BOOLEAN
      OBVIOUS
    <3>. QED
      BY <3>1, <3>2, Empty DEF TypeOK
  <2>2. Carries
    BY Empty DEF Carries
  <2>3. SameLangs
    BY Empty DEF SameLangs
  <2>4. link # "up"
    OBVIOUS
  <2>5. NothingForgotten
    BY <2>4 DEF NothingForgotten
  <2>. QED
    BY <2>1, <2>2, <2>3, <2>5 DEF Inv
<1>2. Inv /\ [Next]_vars => Inv'
  BY TypesKept, LangsKept, NothingForgottenKept DEF Inv
<1>. QED
  BY <1>1, <1>2, PTL DEF Spec

\* TypeOK in every state, for any languages, times and number of changes.
THEOREM TypeCorrect == Spec => []TypeOK
<1>1. Inv => TypeOK
  BY DEF Inv
<1>. QED
  BY <1>1, InvHolds, PTL

\* While the connection stands, a change that the index does not have is on its way to the loop
\* (wire, channel or timer), and a language it does not have is one the next poll finds.
THEOREM ForgetsNothing == Spec => []NothingForgotten
<1>1. Inv => NothingForgotten
  BY DEF Inv
<1>. QED
  BY <1>1, InvHolds, PTL
=============================================================================
