--------------------------- MODULE Matching_proofs ---------------------------
(***************************************************************************)
(* Proofs about Matching, for any number of needs, workers, terms, desks   *)
(* and bookings: its invariants.                                           *)
(*                                                                         *)
(* The argument: a transaction that may still commit has written, with     *)
(* every row it changes, whatever else of that row's need, worker or       *)
(* booking its decision was about.  So another that would make the decision*)
(* wrong writes a row of it too, and the later of the two is refused.      *)
(***************************************************************************)
EXTENDS Matching, FiniteSetTheorems, TLAPS

\* The workers it ranks are ranked for a need it saves as `proposed', on the terms it saves.
RanksWhatItSaves(t) ==
    \A p \in t.new :
        /\ p[1] \in DOMAIN t.demand
        /\ t.demand[p[1]].state = "proposed"
        /\ t.proposal[p].state = "proposed"
        /\ t.proposal[p].terms = t.demand[p[1]].terms

\* Other proposals it writes are there, and none goes back to waiting; only one that waits
\* expires or is dropped.
EndsWaiting(t) ==
    /\ \A p \in DOMAIN t.proposal \ t.new :
          /\ p \in DOMAIN proposal
          /\ \/ t.proposal[p].state = "accepted"
             \/ t.proposal[p].state = "expired" /\ proposal[p].state = "proposed"
    /\ \A p \in t.drop : p \in DOMAIN proposal /\ proposal[p].state = "proposed"

\* A need it writes keeps its terms and stays open, but for the proposals it ends.
EndsWhatItOutdates(t) ==
    \A p \in DOMAIN proposal \ (DOMAIN t.proposal \cup t.drop) :
        p[1] \in DOMAIN t.demand /\ proposal[p].state = "proposed" =>
            /\ t.demand[p[1]].terms = demand[p[1]].terms
            /\ t.demand[p[1]].state \in OPEN_STATES

\* Of a booking it writes the state alone changes, and one it cancels frees the worker.
FreesWhatItCancels(t) ==
    \A i \in DOMAIN t.booking :
        /\ i \in DOMAIN booking
        /\ t.booking[i].demand = booking[i].demand
        /\ t.booking[i].worker = booking[i].worker
        /\ t.booking[i].accepted = booking[i].accepted
        /\ t.booking[i].accepted /\ t.booking[i].state = "cancelled" =>
              /\ t.booking[i].worker \in DOMAIN t.availability
              /\ t.availability[t.booking[i].worker] = "open"

\* It makes one booking at most, of a need that exists, and what it accepts is accepted.
BooksWhatItAccepts(t) ==
    /\ \A b, c \in t.book : b = c
    /\ \A b \in t.book :
          /\ b.demand \in DOMAIN demand
          /\ b.accepted => /\ <<b.demand, b.worker>> \in DOMAIN t.proposal
                           /\ t.proposal[<<b.demand, b.worker>>].state = "accepted"

\* It takes the availability of a worker it books and of no other.
TakesWhomItBooks(t) ==
    \A w \in DOMAIN t.availability :
        t.availability[w] = "booked" =>
            \E b \in t.book : b.worker = w /\ b.accepted /\ b.state = "confirmed"

\* What every transaction under way satisfies.
Holds(t) ==
    /\ RanksWhatItSaves(t)
    /\ EndsWaiting(t)
    /\ EndsWhatItOutdates(t)
    /\ FreesWhatItCancels(t)
    /\ BooksWhatItAccepts(t)
    /\ TakesWhomItBooks(t)

RoomKept == Cardinality(DOMAIN booking) + Cardinality(Booking) <= MaxBookings

Inv ==
    /\ TypeOK
    /\ RoomKept
    /\ FreshRanking
    /\ NothingWaits
    /\ AcceptedStays
    /\ NobodyStuck
    /\ \A a \in Desks : Idle(a) \/ Holds(work[a])

-----------------------------------------------------------------------------
(* Tables *)

\* A table is a function on some of the keys.
LEMMA PartialDef ==
    ASSUME NEW S, NEW T, NEW f
    PROVE  f \in Partial(S, T) <=> DOMAIN f \subseteq S /\ f \in [DOMAIN f -> T]
BY DEF Partial

\* `h' has the rows of `g' written over those of `f'.
Over(h, f, g) ==
    /\ DOMAIN h = DOMAIN f \cup DOMAIN g
    /\ \A x \in DOMAIN g : h[x] = g[x]
    /\ \A x \in DOMAIN f \ DOMAIN g : h[x] = f[x]

\* Which is what joining two tables does.
LEMMA JoinDef ==
    ASSUME NEW f, NEW g
    PROVE  Over(Join(f, g), f, g)
BY DEF Join, Over

\* Tables joined are a table.
LEMMA JoinPartial ==
    ASSUME NEW S, NEW T, NEW f \in Partial(S, T), NEW g \in Partial(S, T)
    PROVE  Join(f, g) \in Partial(S, T)
<1>1. /\ DOMAIN f \subseteq S /\ f \in [DOMAIN f -> T]
      /\ DOMAIN g \subseteq S /\ g \in [DOMAIN g -> T]
  BY PartialDef
<1>2. \A x \in DOMAIN f \cup DOMAIN g : (IF x \in DOMAIN g THEN g[x] ELSE f[x]) \in T
  BY <1>1
<1>3. Join(f, g) \in [DOMAIN f \cup DOMAIN g -> T]
  BY <1>2 DEF Join
<1>4. DOMAIN Join(f, g) = DOMAIN f \cup DOMAIN g
  BY DEF Join
<1> QED BY <1>1, <1>3, <1>4, PartialDef

\* One row, and no row at all, are tables.
LEMMA SmallPartial ==
    ASSUME NEW S, NEW T
    PROVE  /\ Nothing \in Partial(S, T) /\ DOMAIN Nothing = {}
           /\ \A x, y : DOMAIN Only(x, y) = {x} /\ Only(x, y)[x] = y
           /\ \A x \in S, y \in T : Only(x, y) \in Partial(S, T)
<1>1. DOMAIN Nothing = {} /\ Nothing \in [{} -> T]
  BY DEF Nothing
<1>2. \A x, y : DOMAIN Only(x, y) = {x} /\ Only(x, y)[x] = y
  BY DEF Only
<1>3. \A x \in S, y \in T : Only(x, y) \in [{x} -> T]
  BY DEF Only
<1>4. Nothing \in Partial(S, T)
  BY <1>1, PartialDef
<1>5. ASSUME NEW x \in S, NEW y \in T
      PROVE  Only(x, y) \in Partial(S, T)
  <2>1. DOMAIN Only(x, y) = {x} /\ Only(x, y) \in [{x} -> T]
    BY <1>2, <1>3
  <2>2. DOMAIN Only(x, y) \subseteq S /\ Only(x, y) \in [DOMAIN Only(x, y) -> T]
    BY <2>1
  <2> QED BY <2>2, PartialDef
<1> QED BY <1>1, <1>2, <1>4, <1>5

\* What is left of a table when some rows are deleted.
LEMMA RestrictPartial ==
    ASSUME NEW S, NEW T, NEW f \in Partial(S, T), NEW D \in SUBSET DOMAIN f
    PROVE  /\ Restrict(f, D) \in Partial(S, T)
           /\ DOMAIN Restrict(f, D) = D
           /\ \A x \in D : Restrict(f, D)[x] = f[x]
<1>1. DOMAIN f \subseteq S /\ f \in [DOMAIN f -> T]
  BY PartialDef
<1>2. DOMAIN Restrict(f, D) = D /\ \A x \in D : Restrict(f, D)[x] = f[x]
  BY DEF Restrict
<1>3. Restrict(f, D) \in [D -> T]
  BY <1>1 DEF Restrict
<1> QED BY <1>1, <1>2, <1>3, PartialDef

-----------------------------------------------------------------------------
(* Requests: what each has found when it begins *)

\* The rows of the tables, by key.
LEMMA Rows ==
    ASSUME TypeOK
    PROVE  /\ DOMAIN demand \subseteq Demands
           /\ \A d \in DOMAIN demand : demand[d] \in DemandRow
           /\ DOMAIN proposal \subseteq Pairs
           /\ \A p \in DOMAIN proposal : proposal[p] \in ProposalRow /\ p[1] \in DOMAIN demand
           /\ DOMAIN booking \subseteq Ids
           /\ \A i \in DOMAIN booking :
                 booking[i] \in BookingRow /\ booking[i].demand \in DOMAIN demand
<1>1. DOMAIN demand \subseteq Demands /\ demand \in [DOMAIN demand -> DemandRow]
  BY PartialDef DEF TypeOK
<1>2. DOMAIN proposal \subseteq Pairs /\ proposal \in [DOMAIN proposal -> ProposalRow]
  BY PartialDef DEF TypeOK
<1>3. DOMAIN booking \subseteq Ids /\ booking \in [DOMAIN booking -> BookingRow]
  BY PartialDef DEF TypeOK
<1> QED BY <1>1, <1>2, <1>3 DEF TypeOK, Exists

\* Bookings are numbered by at most MaxBookings, and the desks about to make one are counted.
LEMMA Counts ==
    ASSUME TypeOK
    PROVE  /\ IsFiniteSet(Booking) /\ Cardinality(Booking) \in Nat
           /\ IsFiniteSet(DOMAIN booking) /\ Cardinality(DOMAIN booking) \in Nat
<1>1. Booking \subseteq Desks
  BY DEF Booking
<1>2. IsFiniteSet(Booking)
  BY <1>1, DesksAssumption, FS_Subset
<1>3. Ids \in SUBSET Int /\ IsFiniteSet(Ids)
  BY BoundAssumption, FS_Interval DEF Ids
<1>4. IsFiniteSet(DOMAIN booking)
  BY <1>3, Rows, FS_Subset
<1> QED BY <1>2, <1>4, FS_CardinalityType

\* A request that begins with what the invariant asks of a transaction keeps the invariant.
LEMMA Begins ==
    ASSUME Inv, NEW a \in Desks, NEW t, IsTx(t), Holds(t), Begin(a, t),
           t.book = {} \/ RoomForOne
    PROVE  Inv'
<1>1. UNCHANGED <<demand, proposal, availability, booking>>
  BY DEF Begin
<1>2. DOMAIN work = Desks
  BY DEF Inv, TypeOK
<1>3. work' = [work EXCEPT ![a] = t]
  BY DEF Begin
<1>4. DOMAIN work' = Desks /\ work'[a] = t /\ \A o \in Desks \ {a} : work'[o] = work[o]
  BY <1>2, <1>3
<1>5. \A o \in Desks : Idle(o)' \/ IsTx(work[o])'
  BY <1>4 DEF Inv, TypeOK, Idle
<1>6. TypeOK'
  BY <1>1, <1>4, <1>5 DEF Inv, TypeOK, Exists
<1>7. RoomKept'
  <2>1. Booking' \subseteq Booking \cup {a}
    BY <1>4 DEF Booking, Idle
  <2>2. t.book = {} => Booking' \subseteq Booking
    BY <1>4 DEF Booking, Idle
  <2>3. /\ IsFiniteSet(Booking) /\ Cardinality(Booking) \in Nat
        /\ Cardinality(DOMAIN booking) \in Nat
    BY Counts DEF Inv
  <2>4. CASE t.book = {}
    <3>1. Cardinality(Booking') <= Cardinality(Booking) /\ IsFiniteSet(Booking')
      BY <2>2, <2>3, <2>4, FS_Subset
    <3>2. Cardinality(Booking') \in Nat
      BY <3>1, FS_CardinalityType
    <3> QED BY <3>1, <3>2, <2>3, <1>1, BoundAssumption DEF Inv, RoomKept
  <2>5. CASE RoomForOne
    <3>0. /\ IsFiniteSet(Booking \cup {a})
          /\ Cardinality(Booking \cup {a}) =
                IF a \in Booking THEN Cardinality(Booking) ELSE Cardinality(Booking) + 1
      BY <2>3, FS_AddElement
    <3>1. /\ IsFiniteSet(Booking \cup {a})
          /\ Cardinality(Booking \cup {a}) <= Cardinality(Booking) + 1
      BY <2>3, <3>0
    <3>2. /\ IsFiniteSet(Booking') /\ Cardinality(Booking') <= Cardinality(Booking \cup {a})
      BY <2>1, <3>1, FS_Subset
    <3>3. Cardinality(Booking') \in Nat /\ Cardinality(Booking \cup {a}) \in Nat
      BY <3>1, <3>2, FS_CardinalityType
    <3> QED BY <3>1, <3>2, <3>3, <2>3, <2>5, <1>1, BoundAssumption DEF RoomForOne, RoomKept
  <2> QED BY <2>4, <2>5
<1>8. FreshRanking' /\ NothingWaits' /\ AcceptedStays' /\ NobodyStuck'
  BY <1>1 DEF Inv, FreshRanking, NothingWaits, AcceptedStays, NobodyStuck
<1>9. ASSUME NEW o \in Desks, ~Idle(o)'
      PROVE  Holds(work[o])'
  <2>1. ASSUME NEW u, Holds(u) PROVE Holds(u)'
    BY <1>1, <2>1 DEF Holds, RanksWhatItSaves, EndsWaiting, EndsWhatItOutdates,
                      FreesWhatItCancels, BooksWhatItAccepts, TakesWhomItBooks
  <2>2. Holds(work'[o])
    BY <1>4, <1>9 DEF Inv, Idle
  <2> QED BY <2>1, <2>2
<1> QED BY <1>6, <1>7, <1>8, <1>9 DEF Inv

\* Who is ranked is ranked for that need.
LEMMA CandidatesOf ==
    ASSUME NEW d \in Demands, NEW fit \in SUBSET Workers, NEW dropped
    PROVE  /\ Candidates(d, fit, dropped) \in SUBSET Pairs
           /\ \A p \in Candidates(d, fit, dropped) : p[1] = d
<1>1. \A p \in Candidates(d, fit, dropped) : \E w \in Workers : p = <<d, w>>
  BY DEF Candidates
<1> QED BY <1>1 DEF Pairs

\* `f' ranks those of `made' on the terms `t'.
RanksOn(f, made, t) ==
    /\ f \in Partial(Pairs, ProposalRow)
    /\ DOMAIN f = made
    /\ \A p \in made : f[p].state = "proposed" /\ f[p].terms = t

\* `f' writes the need `d' on the terms `t', as open, and as `proposed' when somebody is ranked.
SavesOn(f, d, made, t) ==
    /\ f \in Partial(Demands, DemandRow)
    /\ DOMAIN f \subseteq {d}
    /\ \A x \in DOMAIN f : f[x].terms = t /\ f[x].state \in OPEN_STATES
    /\ made # {} => d \in DOMAIN f /\ f[d].state = "proposed"

\* What is written for the workers ranked.
LEMMA RankedOf ==
    ASSUME NEW made \in SUBSET Pairs, NEW t \in Terms
    PROVE  RanksOn(Ranked(made, t), made, t)
<1>1. Ranked(made, t) \in [made -> ProposalRow]
  BY DEF Ranked, ProposalRow
<1>2. /\ DOMAIN Ranked(made, t) = made
      /\ \A p \in made : Ranked(made, t)[p].state = "proposed" /\ Ranked(made, t)[p].terms = t
  BY DEF Ranked
<1> QED BY <1>1, <1>2, PartialDef DEF RanksOn

\* The end of build_for_demand: what is written for the need.
LEMMA MarkedOf ==
    ASSUME NEW d \in Demands, NEW row \in DemandRow, NEW made
    PROVE  SavesOn(Marked(d, made, row), d, made, row.terms)
<1> DEFINE marked == [row EXCEPT !.state = "proposed"]
<1>1. marked \in DemandRow /\ marked.state = "proposed" /\ marked.terms = row.terms
  BY DEF DemandRow
<1>2. made = {} => Marked(d, made, row) = Nothing
  BY DEF Marked
<1>3. made # {} => Marked(d, made, row) = Only(d, marked)
  BY DEF Marked
<1> HIDE DEF marked
<1>4. CASE made = {}
  BY <1>2, <1>4, SmallPartial DEF SavesOn
<1>5. CASE made # {}
  <2>1. /\ Only(d, marked) \in Partial(Demands, DemandRow)
        /\ DOMAIN Only(d, marked) = {d} /\ Only(d, marked)[d] = marked
    BY <1>1, SmallPartial
  <2> QED BY <1>1, <1>3, <1>5, <2>1 DEF SavesOn, OPEN_STATES
<1> QED BY <1>4, <1>5

\* A row, and what is written over it.
LEMMA JoinOnly ==
    ASSUME NEW x, NEW y, NEW g, DOMAIN g \in SUBSET {x}
    PROVE  /\ DOMAIN Join(Only(x, y), g) = {x}
           /\ x \in DOMAIN g => Join(Only(x, y), g)[x] = g[x]
           /\ x \notin DOMAIN g => Join(Only(x, y), g)[x] = y
BY DEF Join, Only

\* A need saved with new terms, or as new, and then ranked.
LEMMA SavedOf ==
    ASSUME NEW d \in Demands, NEW row \in DemandRow, row.state = "open", NEW made
    PROVE  /\ SavesOn(Join(Only(d, row), Marked(d, made, row)), d, made, row.terms)
           /\ DOMAIN Join(Only(d, row), Marked(d, made, row)) = {d}
<1> DEFINE marked == Marked(d, made, row)
           saved == Join(Only(d, row), marked)
<1>1. SavesOn(marked, d, made, row.terms)
  BY MarkedOf
<1>2. Only(d, row) \in Partial(Demands, DemandRow)
  BY SmallPartial
<1> HIDE DEF marked
<1>3. saved \in Partial(Demands, DemandRow)
  BY <1>1, <1>2, JoinPartial DEF SavesOn
<1>4. DOMAIN marked \in SUBSET {d}
  BY <1>1 DEF SavesOn
<1>5. DOMAIN saved = {d}
  BY <1>4, JoinOnly
<1>6. CASE d \in DOMAIN marked
  <2>1. saved[d] = marked[d]
    BY <1>4, <1>6, JoinOnly
  <2> HIDE DEF saved
  <2>2. SavesOn(saved, d, made, row.terms)
    BY <1>1, <1>3, <1>5, <1>6, <2>1 DEF SavesOn
  <2> QED BY <1>5, <2>2 DEF saved, marked
<1>7. CASE d \notin DOMAIN marked
  <2>1. saved[d] = row
    BY <1>4, <1>7, JoinOnly
  <2> HIDE DEF saved
  <2>2. SavesOn(saved, d, made, row.terms)
    BY <1>1, <1>3, <1>5, <1>7, <2>1 DEF SavesOn, OPEN_STATES
  <2> QED BY <1>5, <2>2 DEF saved, marked
<1> QED BY <1>6, <1>7

\* A transaction that writes nothing in some table writes a table there.
LEMMA Nowhere ==
    /\ Nothing \in Partial(Demands, DemandRow)
    /\ Nothing \in Partial(Pairs, ProposalRow)
    /\ Nothing \in Partial(Workers, {"open", "booked"})
    /\ Nothing \in Partial(Ids, BookingRow)
    /\ DOMAIN Nothing = {}
BY SmallPartial

\* A business's need declared keeps the invariant: no proposal of it is there yet.
LEMMA DeclarePreserves ==
    ASSUME Inv, NEW a \in Desks, NEW d \in Demands, NEW t \in Terms, NEW fit \in SUBSET Workers,
           Declare(a, d, t, fit)
    PROVE  Inv'
<1> DEFINE row == [state |-> "open", terms |-> t]
           made == Candidates(d, fit, {})
           saved == Join(Only(d, row), Marked(d, made, row))
           ranked == Ranked(made, t)
           tx == [NoChange EXCEPT !.demand = saved, !.proposal = ranked, !.new = made]
<1>1. /\ tx.demand = saved /\ tx.proposal = ranked /\ tx.new = made
      /\ tx.drop = {} /\ tx.availability = Nothing /\ tx.booking = Nothing
      /\ tx.book = {} /\ tx.clean = TRUE
  BY DEF NoChange
<1>2. Begin(a, tx) /\ d \notin DOMAIN demand
  BY DEF Declare, Fresh, Exists
<1>3. row \in DemandRow /\ row.state = "open" /\ row.terms = t
  BY DEF DemandRow
<1>4. made \in SUBSET Pairs /\ \A p \in made : p[1] = d
  BY CandidatesOf
<1> HIDE DEF made, row
<1>5. SavesOn(saved, d, made, row.terms) /\ DOMAIN saved = {d}
  BY <1>3, SavedOf
<1>6. RanksOn(ranked, made, t)
  BY <1>4, RankedOf
<1> HIDE DEF saved, ranked, tx
<1>7. IsTx(tx)
  BY <1>1, <1>4, <1>5, <1>6, Nowhere DEF IsTx, SavesOn, RanksOn
<1>8. Holds(tx)
  <2>1. RanksWhatItSaves(tx)
    BY <1>1, <1>3, <1>4, <1>5, <1>6 DEF RanksWhatItSaves, SavesOn, RanksOn
  <2>2. EndsWaiting(tx)
    BY <1>1, <1>6 DEF EndsWaiting, RanksOn
  <2>3. EndsWhatItOutdates(tx)
    BY <1>1, <1>2, <1>5, Rows DEF EndsWhatItOutdates, Inv
  <2>4. FreesWhatItCancels(tx) /\ BooksWhatItAccepts(tx) /\ TakesWhomItBooks(tx)
    BY <1>1, Nowhere DEF FreesWhatItCancels, BooksWhatItAccepts, TakesWhomItBooks
  <2> QED BY <2>1, <2>2, <2>3, <2>4 DEF Holds
<1> QED BY <1>1, <1>2, <1>7, <1>8, Begins

\* So does a need staff write down.
LEMMA DraftPreserves ==
    ASSUME Inv, NEW a \in Desks, NEW d \in Demands, NEW t \in Terms, Draft(a, d, t)
    PROVE  Inv'
<1> DEFINE row == [state |-> "draft", terms |-> t]
           saved == Only(d, row)
           tx == [NoChange EXCEPT !.demand = saved]
<1>1. /\ tx.demand = saved /\ tx.proposal = Nothing /\ tx.new = {}
      /\ tx.drop = {} /\ tx.availability = Nothing /\ tx.booking = Nothing
      /\ tx.book = {} /\ tx.clean = TRUE
  BY DEF NoChange
<1>2. Begin(a, tx) /\ d \notin DOMAIN demand
  BY DEF Draft, Fresh, Exists
<1>3. row \in DemandRow
  BY DEF DemandRow
<1> HIDE DEF row
<1>4. saved \in Partial(Demands, DemandRow) /\ DOMAIN saved = {d}
  BY <1>3, SmallPartial
<1> HIDE DEF saved, tx
<1>5. IsTx(tx)
  BY <1>1, <1>4, Nowhere DEF IsTx
<1>6. Holds(tx)
  <2>1. RanksWhatItSaves(tx) /\ EndsWaiting(tx)
    BY <1>1, Nowhere DEF RanksWhatItSaves, EndsWaiting
  <2>2. EndsWhatItOutdates(tx)
    BY <1>1, <1>2, <1>4, Rows DEF EndsWhatItOutdates, Inv
  <2>3. FreesWhatItCancels(tx) /\ BooksWhatItAccepts(tx) /\ TakesWhomItBooks(tx)
    BY <1>1, Nowhere DEF FreesWhatItCancels, BooksWhatItAccepts, TakesWhomItBooks
  <2> QED BY <2>1, <2>2, <2>3 DEF Holds
<1> QED BY <1>1, <1>2, <1>5, <1>6, Begins

\* A need opened again keeps its terms.
LEMMA OpenPreserves ==
    ASSUME Inv, NEW a \in Desks, NEW d \in Demands, Open(a, d)
    PROVE  Inv'
<1> DEFINE row == [demand[d] EXCEPT !.state = "open"]
           saved == Only(d, row)
           tx == [NoChange EXCEPT !.demand = saved]
<1>1. /\ tx.demand = saved /\ tx.proposal = Nothing /\ tx.new = {}
      /\ tx.drop = {} /\ tx.availability = Nothing /\ tx.booking = Nothing
      /\ tx.book = {} /\ tx.clean = TRUE
  BY DEF NoChange
<1>2. Begin(a, tx) /\ demand[d] \in DemandRow
  BY Rows DEF Open, Exists, Inv
<1>3. row \in DemandRow /\ row.terms = demand[d].terms /\ row.state \in OPEN_STATES
  BY <1>2 DEF DemandRow, OPEN_STATES
<1> HIDE DEF row
<1>4. saved \in Partial(Demands, DemandRow) /\ DOMAIN saved = {d} /\ saved[d] = row
  BY <1>3, SmallPartial
<1> HIDE DEF saved, tx
<1>5. IsTx(tx)
  BY <1>1, <1>4, Nowhere DEF IsTx
<1>6. Holds(tx)
  <2>1. RanksWhatItSaves(tx) /\ EndsWaiting(tx)
    BY <1>1, Nowhere DEF RanksWhatItSaves, EndsWaiting
  <2>2. EndsWhatItOutdates(tx)
    BY <1>1, <1>3, <1>4 DEF EndsWhatItOutdates
  <2>3. FreesWhatItCancels(tx) /\ BooksWhatItAccepts(tx) /\ TakesWhomItBooks(tx)
    BY <1>1, Nowhere DEF FreesWhatItCancels, BooksWhatItAccepts, TakesWhomItBooks
  <2> QED BY <2>1, <2>2, <2>3 DEF Holds
<1> QED BY <1>1, <1>2, <1>5, <1>6, Begins

\* A change drops every proposal that waits on the old terms.
LEMMA ChangePreserves ==
    ASSUME Inv, NEW a \in Desks, NEW d \in Demands, NEW t \in Terms, NEW fit \in SUBSET Workers,
           Change(a, d, t, fit)
    PROVE  Inv'
<1> DEFINE row == [state |-> "open", terms |-> t]
           made == Candidates(d, fit, Waiting(d))
           saved == Join(Only(d, row), Marked(d, made, row))
           ranked == Ranked(made, t)
           tx == [NoChange EXCEPT !.demand = saved, !.proposal = ranked, !.new = made,
                                  !.drop = Waiting(d)]
<1>1. /\ tx.demand = saved /\ tx.proposal = ranked /\ tx.new = made
      /\ tx.drop = Waiting(d) /\ tx.availability = Nothing /\ tx.booking = Nothing
      /\ tx.book = {} /\ tx.clean = TRUE
  BY DEF NoChange
<1>2. Begin(a, tx)
  BY DEF Change
<1>3. row \in DemandRow /\ row.state = "open" /\ row.terms = t
  BY DEF DemandRow
<1>4. made \in SUBSET Pairs /\ \A p \in made : p[1] = d
  BY CandidatesOf
<1> HIDE DEF made, row
<1>5. SavesOn(saved, d, made, row.terms) /\ DOMAIN saved = {d}
  BY <1>3, SavedOf
<1>6. RanksOn(ranked, made, t)
  BY <1>4, RankedOf
<1>7. /\ Waiting(d) \subseteq Pairs
      /\ \A p \in Waiting(d) : p \in DOMAIN proposal /\ proposal[p].state = "proposed"
      /\ \A p \in DOMAIN proposal : p[1] = d /\ proposal[p].state = "proposed" => p \in Waiting(d)
  BY Rows DEF Waiting, ProposalsOf, Inv
<1> HIDE DEF saved, ranked, tx
<1>8. IsTx(tx)
  BY <1>1, <1>4, <1>5, <1>6, <1>7, Nowhere DEF IsTx, SavesOn, RanksOn
<1>9. Holds(tx)
  <2>1. RanksWhatItSaves(tx)
    BY <1>1, <1>3, <1>4, <1>5, <1>6 DEF RanksWhatItSaves, SavesOn, RanksOn
  <2>2. EndsWaiting(tx)
    BY <1>1, <1>6, <1>7 DEF EndsWaiting, RanksOn
  <2>3. EndsWhatItOutdates(tx)
    BY <1>1, <1>5, <1>7 DEF EndsWhatItOutdates
  <2>4. FreesWhatItCancels(tx) /\ BooksWhatItAccepts(tx) /\ TakesWhomItBooks(tx)
    BY <1>1, Nowhere DEF FreesWhatItCancels, BooksWhatItAccepts, TakesWhomItBooks
  <2> QED BY <2>1, <2>2, <2>3, <2>4 DEF Holds
<1> QED BY <1>1, <1>2, <1>8, <1>9, Begins

\* A closing lets every proposal that waits expire.
LEMMA ClosePreserves ==
    ASSUME Inv, NEW a \in Desks, NEW d \in Demands, NEW end \in {"filled", "cancelled"},
           Close(a, d, end)
    PROVE  Inv'
<1> DEFINE row == [demand[d] EXCEPT !.state = end]
           saved == Only(d, row)
           over == [p \in Waiting(d) |-> [proposal[p] EXCEPT !.state = "expired"]]
           tx == [NoChange EXCEPT !.demand = saved, !.proposal = over]
<1>1. /\ tx.demand = saved /\ tx.proposal = over /\ tx.new = {}
      /\ tx.drop = {} /\ tx.availability = Nothing /\ tx.booking = Nothing
      /\ tx.book = {} /\ tx.clean = TRUE
  BY DEF NoChange
<1>2. Begin(a, tx) /\ demand[d] \in DemandRow
  BY Rows DEF Close, Closable, Exists, Inv
<1>3. row \in DemandRow
  BY <1>2 DEF DemandRow
<1> HIDE DEF row
<1>4. saved \in Partial(Demands, DemandRow) /\ DOMAIN saved = {d}
  BY <1>3, SmallPartial
<1>5. /\ Waiting(d) \subseteq Pairs
      /\ \A p \in Waiting(d) : p \in DOMAIN proposal /\ proposal[p].state = "proposed"
      /\ \A p \in DOMAIN proposal : p[1] = d /\ proposal[p].state = "proposed" => p \in Waiting(d)
  BY Rows DEF Waiting, ProposalsOf, Inv
<1>6. /\ over \in Partial(Pairs, ProposalRow) /\ DOMAIN over = Waiting(d)
      /\ \A p \in Waiting(d) : over[p].state = "expired"
  <2>1. \A p \in Waiting(d) :
            /\ [proposal[p] EXCEPT !.state = "expired"] \in ProposalRow
            /\ [proposal[p] EXCEPT !.state = "expired"].state = "expired"
    BY <1>5, Rows DEF ProposalRow, Inv
  <2>2. over \in [Waiting(d) -> ProposalRow]
    BY <2>1
  <2> QED BY <1>5, <2>1, <2>2, PartialDef
<1> HIDE DEF saved, over, tx
<1>7. IsTx(tx)
  BY <1>1, <1>4, <1>6, Nowhere DEF IsTx
<1>8. Holds(tx)
  <2>1. RanksWhatItSaves(tx)
    BY <1>1 DEF RanksWhatItSaves
  <2>2. EndsWaiting(tx)
    BY <1>1, <1>5, <1>6 DEF EndsWaiting
  <2>3. EndsWhatItOutdates(tx)
    BY <1>1, <1>4, <1>5, <1>6 DEF EndsWhatItOutdates
  <2>4. FreesWhatItCancels(tx) /\ BooksWhatItAccepts(tx) /\ TakesWhomItBooks(tx)
    BY <1>1, Nowhere DEF FreesWhatItCancels, BooksWhatItAccepts, TakesWhomItBooks
  <2> QED BY <2>1, <2>2, <2>3, <2>4 DEF Holds
<1> QED BY <1>1, <1>2, <1>7, <1>8, Begins

\* An acceptance writes the proposal and the availability it makes a booking of.
LEMMA AcceptPreserves ==
    ASSUME Inv, NEW a \in Desks, NEW p \in Pairs, Accept(a, p)
    PROVE  Inv'
<1> DEFINE b == NewBooking(p[1], p[2], TRUE)
           row == [proposal[p] EXCEPT !.state = "accepted"]
           accepted == Only(p, row)
           taken == Only(p[2], "booked")
           tx == [NoChange EXCEPT !.book = {b}, !.availability = taken, !.proposal = accepted]
<1>1. /\ tx.demand = Nothing /\ tx.proposal = accepted /\ tx.new = {}
      /\ tx.drop = {} /\ tx.availability = taken /\ tx.booking = Nothing
      /\ tx.book = {b} /\ tx.clean = TRUE
  BY DEF NoChange
<1>2. Begin(a, tx) /\ p \in DOMAIN proposal /\ RoomForOne
  BY DEF Accept
<1>3. p[1] \in Demands /\ p[2] \in Workers /\ p = <<p[1], p[2]>>
  BY DEF Pairs
<1>4. /\ b.demand = p[1] /\ b.worker = p[2] /\ b.accepted = TRUE /\ b.state = "confirmed"
      /\ b \in BookingRow
  BY <1>3 DEF NewBooking, BookingRow
<1>5. row \in ProposalRow /\ row.state = "accepted"
  BY <1>2, Rows DEF ProposalRow, Inv
<1> HIDE DEF b, row
<1>6. /\ accepted \in Partial(Pairs, ProposalRow)
      /\ DOMAIN accepted = {p} /\ accepted[p] = row
  BY <1>5, SmallPartial
<1>7. /\ taken \in Partial(Workers, {"open", "booked"})
      /\ DOMAIN taken = {p[2]}
  BY <1>3, SmallPartial
<1>8. p[1] \in DOMAIN demand
  BY <1>2, Rows DEF Inv
<1> HIDE DEF accepted, taken, tx
<1>9. IsTx(tx)
  BY <1>1, <1>4, <1>6, <1>7, Nowhere DEF IsTx
<1>10. Holds(tx)
  <2>1. RanksWhatItSaves(tx)
    BY <1>1 DEF RanksWhatItSaves
  <2>2. EndsWaiting(tx)
    BY <1>1, <1>2, <1>5, <1>6 DEF EndsWaiting
  <2>3. EndsWhatItOutdates(tx) /\ FreesWhatItCancels(tx)
    BY <1>1, Nowhere DEF EndsWhatItOutdates, FreesWhatItCancels
  <2>4. BooksWhatItAccepts(tx)
    <3>1. <<b.demand, b.worker>> = p
      BY <1>3, <1>4
    <3> QED BY <1>1, <1>4, <1>5, <1>6, <1>8, <3>1 DEF BooksWhatItAccepts
  <2>5. TakesWhomItBooks(tx)
    BY <1>1, <1>4, <1>7 DEF TakesWhomItBooks
  <2> QED BY <2>1, <2>2, <2>3, <2>4, <2>5 DEF Holds
<1> QED BY <1>1, <1>2, <1>9, <1>10, Begins

\* A booking made in its form takes nobody's availability.
LEMMA BookPreserves ==
    ASSUME Inv, NEW a \in Desks, NEW d \in Demands, NEW w \in Workers, Book(a, d, w)
    PROVE  Inv'
<1> DEFINE b == NewBooking(d, w, FALSE)
           tx == [NoChange EXCEPT !.book = {b}]
<1>1. /\ tx.demand = Nothing /\ tx.proposal = Nothing /\ tx.new = {}
      /\ tx.drop = {} /\ tx.availability = Nothing /\ tx.booking = Nothing
      /\ tx.book = {b} /\ tx.clean = TRUE
  BY DEF NoChange
<1>2. Begin(a, tx) /\ d \in DOMAIN demand /\ RoomForOne
  BY DEF Book, Exists
<1>3. b.demand = d /\ b.accepted = FALSE /\ b \in BookingRow
  BY DEF NewBooking, BookingRow
<1> HIDE DEF b, tx
<1>4. IsTx(tx)
  BY <1>1, <1>3, Nowhere DEF IsTx
<1>5. Holds(tx)
  <2>1. RanksWhatItSaves(tx) /\ EndsWaiting(tx) /\ EndsWhatItOutdates(tx)
    BY <1>1, Nowhere DEF RanksWhatItSaves, EndsWaiting, EndsWhatItOutdates
  <2>2. FreesWhatItCancels(tx) /\ BooksWhatItAccepts(tx) /\ TakesWhomItBooks(tx)
    BY <1>1, <1>2, <1>3, Nowhere DEF FreesWhatItCancels, BooksWhatItAccepts, TakesWhomItBooks
  <2> QED BY <2>1, <2>2 DEF Holds
<1> QED BY <1>1, <1>2, <1>4, <1>5, Begins

\* A booking written with another state: one row, which keeps its need, worker and origin.
LEMMA OneBooking ==
    ASSUME TypeOK, NEW i \in DOMAIN booking,
           NEW to \in {"confirmed", "at_risk", "done", "cancelled"}
    PROVE  /\ [booking[i] EXCEPT !.state = to] \in BookingRow
           /\ [booking[i] EXCEPT !.state = to].state = to
           /\ [booking[i] EXCEPT !.state = to].demand = booking[i].demand
           /\ [booking[i] EXCEPT !.state = to].worker = booking[i].worker
           /\ [booking[i] EXCEPT !.state = to].accepted = booking[i].accepted
<1>1. booking[i] \in BookingRow
  BY Rows
<1> QED BY <1>1 DEF BookingRow

\* A failed check ranks workers on the terms the need has, and marks it.
LEMMA FailPreserves ==
    ASSUME Inv, NEW a \in Desks, NEW i \in DOMAIN booking, NEW fit \in SUBSET Workers,
           Fail(a, i, fit)
    PROVE  Inv'
<1> DEFINE d == booking[i].demand
           row == demand[d]
           made == Candidates(d, fit, {})
           saved == Marked(d, made, row)
           ranked == Ranked(made, row.terms)
           now == [booking[i] EXCEPT !.state = "at_risk"]
           risky == Only(i, now)
           tx == [NoChange EXCEPT !.booking = risky, !.demand = saved, !.proposal = ranked,
                                  !.new = made]
<1>1. /\ tx.demand = saved /\ tx.proposal = ranked /\ tx.new = made
      /\ tx.drop = {} /\ tx.availability = Nothing /\ tx.booking = risky
      /\ tx.book = {} /\ tx.clean = TRUE
  BY DEF NoChange
<1>2. Begin(a, tx)
  BY DEF Fail
<1>3. i \in Ids /\ d \in DOMAIN demand /\ d \in Demands
  BY Rows DEF Inv
<1>4. row \in DemandRow /\ row.terms \in Terms
  BY <1>3, Rows DEF Inv, DemandRow
<1>5. /\ now \in BookingRow /\ now.state = "at_risk" /\ now.demand = booking[i].demand
      /\ now.worker = booking[i].worker /\ now.accepted = booking[i].accepted
  BY OneBooking DEF Inv
<1> HIDE DEF now
<1>6. risky \in Partial(Ids, BookingRow) /\ DOMAIN risky = {i} /\ risky[i] = now
  BY <1>3, <1>5, SmallPartial
<1>7. made \in SUBSET Pairs /\ \A p \in made : p[1] = d
  BY <1>3, CandidatesOf
<1> HIDE DEF made, risky
<1>8. SavesOn(saved, d, made, row.terms)
  BY <1>3, <1>4, MarkedOf
<1>9. RanksOn(ranked, made, row.terms)
  BY <1>4, <1>7, RankedOf
<1> HIDE DEF saved, ranked, tx, d
<1>10. IsTx(tx)
  BY <1>1, <1>6, <1>7, <1>8, <1>9, Nowhere DEF IsTx, SavesOn, RanksOn
<1>11. Holds(tx)
  <2>1. RanksWhatItSaves(tx)
    BY <1>1, <1>7, <1>8, <1>9 DEF RanksWhatItSaves, SavesOn, RanksOn
  <2>2. EndsWaiting(tx)
    BY <1>1, <1>9 DEF EndsWaiting, RanksOn
  <2>3. EndsWhatItOutdates(tx)
    BY <1>1, <1>8 DEF EndsWhatItOutdates, SavesOn
  <2>4. FreesWhatItCancels(tx)
    BY <1>1, <1>5, <1>6 DEF FreesWhatItCancels
  <2>5. BooksWhatItAccepts(tx) /\ TakesWhomItBooks(tx)
    BY <1>1, Nowhere DEF BooksWhatItAccepts, TakesWhomItBooks
  <2> QED BY <2>1, <2>2, <2>3, <2>4, <2>5 DEF Holds
<1> QED BY <1>1, <1>2, <1>10, <1>11, Begins

\* A cancellation gives back the availability an acceptance took.
LEMMA CancelPreserves ==
    ASSUME Inv, NEW a \in Desks, NEW i \in DOMAIN booking, Cancel(a, i)
    PROVE  Inv'
<1> DEFINE now == [booking[i] EXCEPT !.state = "cancelled"]
           off == Only(i, now)
           freed == IF booking[i].accepted THEN Only(booking[i].worker, "open") ELSE Nothing
           tx == [NoChange EXCEPT !.booking = off, !.availability = freed]
<1>1. /\ tx.demand = Nothing /\ tx.proposal = Nothing /\ tx.new = {}
      /\ tx.drop = {} /\ tx.availability = freed /\ tx.booking = off
      /\ tx.book = {} /\ tx.clean = TRUE
  BY DEF NoChange
<1>2. Begin(a, tx)
  BY DEF Cancel
<1>3. i \in Ids /\ booking[i].worker \in Workers
  BY Rows DEF Inv, BookingRow
<1>4. /\ now \in BookingRow /\ now.demand = booking[i].demand
      /\ now.worker = booking[i].worker /\ now.accepted = booking[i].accepted
  BY OneBooking DEF Inv
<1> HIDE DEF now
<1>5. off \in Partial(Ids, BookingRow) /\ DOMAIN off = {i} /\ off[i] = now
  BY <1>3, <1>4, SmallPartial
<1>6. /\ freed \in Partial(Workers, {"open", "booked"})
      /\ booking[i].accepted => booking[i].worker \in DOMAIN freed
      /\ \A w \in DOMAIN freed : freed[w] = "open"
  <2>1. /\ Only(booking[i].worker, "open") \in Partial(Workers, {"open", "booked"})
        /\ DOMAIN Only(booking[i].worker, "open") = {booking[i].worker}
        /\ Only(booking[i].worker, "open")[booking[i].worker] = "open"
    BY <1>3, SmallPartial
  <2>2. CASE booking[i].accepted
    <3>1. freed = Only(booking[i].worker, "open")
      BY <2>2
    <3> HIDE DEF freed
    <3> QED BY <2>1, <3>1
  <2>3. CASE ~booking[i].accepted
    <3>1. freed = Nothing
      BY <2>3
    <3> HIDE DEF freed
    <3> QED BY <2>3, <3>1, Nowhere
  <2> QED BY <2>2, <2>3
<1> HIDE DEF off, freed, tx
<1>7. IsTx(tx)
  BY <1>1, <1>5, <1>6, Nowhere DEF IsTx
<1>8. Holds(tx)
  <2>1. RanksWhatItSaves(tx) /\ EndsWaiting(tx) /\ EndsWhatItOutdates(tx)
    BY <1>1, Nowhere DEF RanksWhatItSaves, EndsWaiting, EndsWhatItOutdates
  <2>2. FreesWhatItCancels(tx)
    BY <1>1, <1>4, <1>5, <1>6 DEF FreesWhatItCancels
  <2>3. BooksWhatItAccepts(tx) /\ TakesWhomItBooks(tx)
    BY <1>1, <1>6 DEF BooksWhatItAccepts, TakesWhomItBooks
  <2> QED BY <2>1, <2>2, <2>3 DEF Holds
<1> QED BY <1>1, <1>2, <1>7, <1>8, Begins

\* Bookings that run out are done, not cancelled.
LEMMA RunOutPreserves ==
    ASSUME Inv, NEW a \in Desks, NEW ended \in SUBSET DOMAIN booking, RunOut(a, ended)
    PROVE  Inv'
<1> DEFINE past == [i \in ended |-> [booking[i] EXCEPT !.state = "done"]]
           tx == [NoChange EXCEPT !.booking = past]
<1>1. /\ tx.demand = Nothing /\ tx.proposal = Nothing /\ tx.new = {}
      /\ tx.drop = {} /\ tx.availability = Nothing /\ tx.booking = past
      /\ tx.book = {} /\ tx.clean = TRUE
  BY DEF NoChange
<1>2. Begin(a, tx)
  BY DEF RunOut
<1>3. \A i \in ended :
          /\ [booking[i] EXCEPT !.state = "done"] \in BookingRow
          /\ [booking[i] EXCEPT !.state = "done"].state = "done"
          /\ [booking[i] EXCEPT !.state = "done"].demand = booking[i].demand
          /\ [booking[i] EXCEPT !.state = "done"].worker = booking[i].worker
          /\ [booking[i] EXCEPT !.state = "done"].accepted = booking[i].accepted
  BY OneBooking DEF Inv
<1>4. /\ past \in Partial(Ids, BookingRow) /\ DOMAIN past = ended
      /\ \A i \in ended : /\ past[i].state = "done"
                          /\ past[i].demand = booking[i].demand
                          /\ past[i].worker = booking[i].worker
                          /\ past[i].accepted = booking[i].accepted
  <2>1. past \in [ended -> BookingRow]
    BY <1>3
  <2>2. ended \subseteq Ids
    BY Rows DEF Inv
  <2> QED BY <1>3, <2>1, <2>2, PartialDef
<1> HIDE DEF past, tx
<1>5. IsTx(tx)
  BY <1>1, <1>4, Nowhere DEF IsTx
<1>6. Holds(tx)
  <2>1. RanksWhatItSaves(tx) /\ EndsWaiting(tx) /\ EndsWhatItOutdates(tx)
    BY <1>1, Nowhere DEF RanksWhatItSaves, EndsWaiting, EndsWhatItOutdates
  <2>2. FreesWhatItCancels(tx)
    BY <1>1, <1>4 DEF FreesWhatItCancels
  <2>3. BooksWhatItAccepts(tx) /\ TakesWhomItBooks(tx)
    BY <1>1, Nowhere DEF BooksWhatItAccepts, TakesWhomItBooks
  <2> QED BY <2>1, <2>2, <2>3 DEF Holds
<1> QED BY <1>1, <1>2, <1>5, <1>6, Begins

-----------------------------------------------------------------------------
(* The end of a transaction *)

\* A transaction that ends without writing keeps the invariant.
LEMMA AbortPreserves ==
    ASSUME Inv, NEW a \in Desks, Abort(a)
    PROVE  Inv'
<1>1. UNCHANGED <<demand, proposal, availability, booking>>
  BY DEF Abort
<1>2. DOMAIN work' = Desks /\ work'[a] = None /\ \A o \in Desks \ {a} : work'[o] = work[o]
  BY DEF Abort, Inv, TypeOK
<1>3. TypeOK'
  BY <1>1, <1>2 DEF Inv, TypeOK, Exists, Idle
<1>4. RoomKept'
  <2>1. Booking' \subseteq Booking
    BY <1>2 DEF Booking, Idle
  <2>2. /\ IsFiniteSet(Booking) /\ Cardinality(Booking) \in Nat
        /\ Cardinality(DOMAIN booking) \in Nat
    BY Counts DEF Inv
  <2>3. Cardinality(Booking') <= Cardinality(Booking) /\ IsFiniteSet(Booking')
    BY <2>1, <2>2, FS_Subset
  <2>4. Cardinality(Booking') \in Nat
    BY <2>3, FS_CardinalityType
  <2> QED BY <1>1, <2>2, <2>3, <2>4, BoundAssumption DEF Inv, RoomKept
<1>5. FreshRanking' /\ NothingWaits' /\ AcceptedStays' /\ NobodyStuck'
  BY <1>1 DEF Inv, FreshRanking, NothingWaits, AcceptedStays, NobodyStuck
<1>6. ASSUME NEW o \in Desks, ~Idle(o)'
      PROVE  Holds(work[o])'
  <2>1. ASSUME NEW u, Holds(u) PROVE Holds(u)'
    BY <1>1, <2>1 DEF Holds, RanksWhatItSaves, EndsWaiting, EndsWhatItOutdates,
                      FreesWhatItCancels, BooksWhatItAccepts, TakesWhomItBooks
  <2>2. Holds(work'[o])
    BY <1>2, <1>6 DEF Inv, Idle
  <2> QED BY <2>1, <2>2
<1> QED BY <1>3, <1>4, <1>5, <1>6 DEF Inv

\* Bookings a commit leaves: it writes some, or makes one.
BookingsWritten(t) ==
    /\ DOMAIN booking \subseteq DOMAIN booking'
    /\ \A i \in DOMAIN booking :
          \/ booking'[i] = booking[i]
          \/ t.book = {} /\ i \in DOMAIN t.booking /\ booking'[i] = t.booking[i]
    /\ \A i \in DOMAIN booking \ DOMAIN t.booking : booking'[i] = booking[i]
    /\ \A i \in DOMAIN booking' \ DOMAIN booking : booking'[i] \in t.book
    /\ \A b \in t.book : \E i \in DOMAIN booking' \ DOMAIN booking : booking'[i] = b

\* What a commit leaves: the rows it wrote, and the others as they were.
Written(t) ==
    /\ Over(demand', demand, t.demand)
    /\ DOMAIN proposal' = (DOMAIN proposal \ t.drop) \cup DOMAIN t.proposal
    /\ \A p \in DOMAIN t.proposal : proposal'[p] = t.proposal[p]
    /\ \A p \in DOMAIN proposal \ (t.drop \cup DOMAIN t.proposal) : proposal'[p] = proposal[p]
    /\ Over(availability', availability, t.availability)
    /\ BookingsWritten(t)

\* A commit writes what the transaction meant to; none of the workers it ranks was ranked yet.
LEMMA CommitWrites ==
    ASSUME Inv, NEW a \in Desks, Commit(a)
    PROVE  /\ IsTx(work[a]) /\ Holds(work[a])
           /\ Written(work[a])
           /\ \A p \in work[a].new : p \in DOMAIN proposal => p \in work[a].drop
<1> DEFINE t == work[a]
           kept == Restrict(proposal, DOMAIN proposal \ t.drop)
           next == Cardinality(DOMAIN booking) + 1
<1>1. IsTx(t) /\ Holds(t)
  BY DEF Inv, TypeOK, Commit
<1>2. /\ t.new \cap DOMAIN kept = {}
      /\ demand' = Join(demand, t.demand)
      /\ proposal' = Join(kept, t.proposal)
      /\ availability' = Join(availability, t.availability)
      /\ \/ t.book = {} /\ booking' = Join(booking, t.booking)
         \/ \E b \in t.book : booking' = Join(booking, Only(next, b))
  BY DEF Commit
<1>3. /\ DOMAIN kept = DOMAIN proposal \ t.drop
      /\ \A p \in DOMAIN proposal \ t.drop : kept[p] = proposal[p]
  BY DEF Restrict
<1> HIDE DEF t, kept
<1>4. Over(demand', demand, t.demand)
  BY <1>2, JoinDef
<1>5. /\ DOMAIN proposal' = (DOMAIN proposal \ t.drop) \cup DOMAIN t.proposal
      /\ \A p \in DOMAIN t.proposal : proposal'[p] = t.proposal[p]
      /\ \A p \in DOMAIN proposal \ (t.drop \cup DOMAIN t.proposal) : proposal'[p] = proposal[p]
  <2>1. Over(proposal', kept, t.proposal)
    BY <1>2, JoinDef
  <2> QED BY <1>3, <2>1 DEF Over
<1>6. Over(availability', availability, t.availability)
  BY <1>2, JoinDef
<1>7. BookingsWritten(t)
  <2>1. next \notin DOMAIN booking
    <3>1. DOMAIN booking = 1..Cardinality(DOMAIN booking) /\ Cardinality(DOMAIN booking) \in Nat
      BY Counts DEF Inv, TypeOK
    <3> QED BY <3>1
  <2> HIDE DEF next
  <2>2. CASE t.book = {} /\ booking' = Join(booking, t.booking)
    <3>1. DOMAIN t.booking \subseteq DOMAIN booking
      BY <1>1 DEF Holds, FreesWhatItCancels
    <3>2. Over(booking', booking, t.booking)
      BY <2>2, JoinDef
    <3> QED BY <2>2, <3>1, <3>2 DEF BookingsWritten, Over
  <2>3. ASSUME NEW b \in t.book, booking' = Join(booking, Only(next, b))
        PROVE  /\ DOMAIN booking' = DOMAIN booking \cup {next}
               /\ booking'[next] = b
               /\ \A i \in DOMAIN booking : booking'[i] = booking[i]
    <3>1. DOMAIN Only(next, b) = {next} /\ Only(next, b)[next] = b
      BY SmallPartial
    <3>2. Over(booking', booking, Only(next, b))
      BY <2>3, JoinDef
    <3> QED BY <2>1, <3>1, <3>2 DEF Over
  <2>4. ASSUME NEW b \in t.book, booking' = Join(booking, Only(next, b))
        PROVE  BookingsWritten(t)
    <3>1. /\ DOMAIN booking' = DOMAIN booking \cup {next}
          /\ booking'[next] = b
          /\ \A i \in DOMAIN booking : booking'[i] = booking[i]
      BY <2>3, <2>4
    <3>2. \A c \in t.book : c = b
      BY <1>1 DEF Holds, BooksWhatItAccepts
    <3> QED BY <2>1, <3>1, <3>2 DEF BookingsWritten
  <2> QED BY <1>2, <2>2, <2>4
<1>8. \A p \in t.new : p \in DOMAIN proposal => p \in t.drop
  BY <1>2, <1>3
<1> QED BY <1>1, <1>4, <1>5, <1>6, <1>7, <1>8 DEF Written, t

\* The rows a transaction writes, by key.
LEMMA TxRows ==
    ASSUME NEW t, IsTx(t)
    PROVE  /\ \A d \in DOMAIN t.demand : t.demand[d] \in DemandRow
           /\ DOMAIN t.proposal \subseteq Pairs
           /\ DOMAIN t.availability \subseteq Workers
           /\ t.book \subseteq BookingRow
<1>1. t.demand \in [DOMAIN t.demand -> DemandRow]
  BY PartialDef DEF IsTx
<1>2. DOMAIN t.proposal \subseteq Pairs /\ DOMAIN t.availability \subseteq Workers
  BY PartialDef DEF IsTx
<1> QED BY <1>1, <1>2 DEF IsTx

\* A commit keeps the tables' types, and the booking it makes has its number.
LEMMA CommitTypes ==
    ASSUME Inv, NEW a \in Desks, Commit(a)
    PROVE  TypeOK' /\ RoomKept'
<1> DEFINE t == work[a]
           kept == Restrict(proposal, DOMAIN proposal \ t.drop)
           n == Cardinality(DOMAIN booking)
<1>1. IsTx(t) /\ Holds(t) /\ Written(t)
  BY CommitWrites
<1>2. TypeOK /\ RoomKept
  BY DEF Inv
<1>3. /\ demand' = Join(demand, t.demand)
      /\ proposal' = Join(kept, t.proposal)
      /\ availability' = Join(availability, t.availability)
      /\ \/ t.book = {} /\ booking' = Join(booking, t.booking)
         \/ \E b \in t.book : booking' = Join(booking, Only(n + 1, b))
  BY DEF Commit
<1>4. /\ DOMAIN work' = Desks
      /\ ~Idle(a) /\ work'[a] = None
      /\ \A o \in Desks \ {a} : work'[o] = work[o] \/ work'[o] = Lost
  BY DEF Commit
<1>5. kept \in Partial(Pairs, ProposalRow)
  BY <1>2, RestrictPartial DEF TypeOK
<1> HIDE DEF t, kept
<1>6. demand' \in Partial(Demands, DemandRow)
  BY <1>1, <1>2, <1>3, JoinPartial DEF TypeOK, IsTx
<1>7. proposal' \in Partial(Pairs, ProposalRow)
  BY <1>1, <1>3, <1>5, JoinPartial DEF IsTx
<1>8. \A p \in DOMAIN proposal' : p[1] \in DOMAIN demand'
  <2>1. DOMAIN demand' = DOMAIN demand \cup DOMAIN t.demand
    BY <1>1 DEF Written, Over
  <2>2. ASSUME NEW p \in DOMAIN proposal' PROVE p \in DOMAIN proposal \/ p \in t.new
    BY <1>1, <2>2 DEF Written, Holds, EndsWaiting
  <2>3. \A p \in t.new : p[1] \in DOMAIN t.demand
    BY <1>1 DEF Holds, RanksWhatItSaves
  <2> QED BY <1>2, <2>1, <2>2, <2>3, Rows
<1>9. availability' \in [Workers -> {"open", "booked"}]
  <2>1. availability \in Partial(Workers, {"open", "booked"}) /\ DOMAIN availability = Workers
    BY <1>2, PartialDef DEF TypeOK
  <2>2. availability' \in Partial(Workers, {"open", "booked"})
    BY <1>1, <1>3, <2>1, JoinPartial DEF IsTx
  <2>3. DOMAIN availability' = Workers
    BY <1>1, <2>1, TxRows DEF Written, Over
  <2> QED BY <2>2, <2>3, PartialDef
<1>10. \A o \in Desks : Idle(o)' \/ IsTx(work[o])'
  <2>1. IsTx(Lost)
    <3>1. /\ Lost.demand = Nothing /\ Lost.proposal = Nothing /\ Lost.new = {}
          /\ Lost.drop = {} /\ Lost.availability = Nothing /\ Lost.booking = Nothing
          /\ Lost.book = {} /\ Lost.clean = FALSE
      BY DEF Lost, NoChange
    <3> HIDE DEF Lost
    <3> QED BY <3>1, Nowhere DEF IsTx
  <2> QED BY <1>2, <1>4, <2>1 DEF TypeOK, Idle
<1>11. \A i \in DOMAIN booking' : booking'[i].demand \in DOMAIN demand'
  <2>1. DOMAIN demand \subseteq DOMAIN demand'
    BY <1>1 DEF Written, Over
  <2>2. \A i \in DOMAIN t.booking : t.booking[i].demand = booking[i].demand
    BY <1>1 DEF Holds, FreesWhatItCancels
  <2>3. \A b \in t.book : b.demand \in DOMAIN demand
    BY <1>1 DEF Holds, BooksWhatItAccepts
  <2>4. \A i \in DOMAIN booking : booking[i].demand \in DOMAIN demand
    BY <1>2, Rows
  <2> QED BY <1>1, <2>1, <2>2, <2>3, <2>4 DEF Written, BookingsWritten
<1>12. /\ IsFiniteSet(Booking) /\ Cardinality(Booking) \in Nat
       /\ n \in Nat /\ DOMAIN booking = 1..n
       /\ n + Cardinality(Booking) <= MaxBookings
  BY <1>2, Counts DEF TypeOK, RoomKept
<1>13. Booking' \subseteq Booking \ {a}
  <2>1. Lost.book = {}
    BY DEF Lost, NoChange
  <2> QED BY <1>4, <2>1 DEF Booking, Idle
<1>14. /\ booking' \in Partial(Ids, BookingRow)
       /\ DOMAIN booking' = 1..Cardinality(DOMAIN booking')
       /\ RoomKept'
  <2> HIDE DEF n
  <2>1. CASE t.book = {} /\ booking' = Join(booking, t.booking)
    <3>1. DOMAIN booking' = DOMAIN booking
      BY <1>1, <2>1 DEF Written, BookingsWritten
    <3>2. booking' \in Partial(Ids, BookingRow)
      BY <1>1, <1>2, <2>1, JoinPartial DEF TypeOK, IsTx
    <3>3. IsFiniteSet(Booking') /\ Cardinality(Booking') <= Cardinality(Booking)
      <4>1. Booking' \subseteq Booking
        BY <1>13
      <4> QED BY <1>12, <4>1, FS_Subset
    <3>4. Cardinality(Booking') \in Nat
      BY <3>3, FS_CardinalityType
    <3>5. Cardinality(DOMAIN booking') = n
      BY <3>1 DEF n
    <3> QED BY <1>12, <3>1, <3>2, <3>3, <3>4, <3>5, BoundAssumption DEF RoomKept
  <2>2. ASSUME NEW b \in t.book, booking' = Join(booking, Only(n + 1, b))
        PROVE  /\ booking' \in Partial(Ids, BookingRow)
               /\ DOMAIN booking' = 1..Cardinality(DOMAIN booking')
               /\ RoomKept'
    <3>1. a \in Booking
      BY <1>4, <2>2 DEF Booking, t
    <3>2. /\ IsFiniteSet(Booking \ {a}) /\ Cardinality(Booking \ {a}) \in Nat
          /\ Cardinality(Booking \ {a}) + 1 = Cardinality(Booking)
      <4>1. /\ IsFiniteSet(Booking \ {a})
            /\ Cardinality(Booking \ {a}) =
                  IF a \in Booking THEN Cardinality(Booking) - 1 ELSE Cardinality(Booking)
        BY <1>12, FS_RemoveElement
      <4>2. Cardinality(Booking \ {a}) \in Nat
        BY <4>1, FS_CardinalityType
      <4> QED BY <1>12, <3>1, <4>1, <4>2
    <3>3. IsFiniteSet(Booking') /\ Cardinality(Booking') <= Cardinality(Booking \ {a})
      BY <1>13, <3>2, FS_Subset
    <3>4. Cardinality(Booking') \in Nat
      BY <3>3, FS_CardinalityType
    <3>5. n + 1 \in Ids
      BY <1>12, <3>2, BoundAssumption DEF Ids
    <3>6. /\ Only(n + 1, b) \in Partial(Ids, BookingRow)
          /\ DOMAIN Only(n + 1, b) = {n + 1}
      <4>1. b \in BookingRow
        BY <1>1, TxRows
      <4> QED BY <3>5, <4>1, SmallPartial
    <3>7. booking' \in Partial(Ids, BookingRow)
      BY <1>2, <2>2, <3>6, JoinPartial DEF TypeOK
    <3>8. DOMAIN booking' = 1..(n + 1)
      <4>1. Over(booking', booking, Only(n + 1, b))
        BY <2>2, JoinDef
      <4> QED BY <1>12, <3>6, <4>1 DEF Over
    <3>9. Cardinality(DOMAIN booking') = n + 1
      BY <1>12, <3>8, FS_Interval
    <3> QED BY <1>12, <3>2, <3>3, <3>4, <3>7, <3>8, <3>9, BoundAssumption DEF RoomKept
  <2> QED BY <1>3, <2>1, <2>2
<1> QED BY <1>4, <1>6, <1>7, <1>8, <1>9, <1>10, <1>11, <1>14 DEF TypeOK, Exists

\* A commit keeps what the tables promise together.
LEMMA CommitTables ==
    ASSUME Inv, NEW a \in Desks, Commit(a)
    PROVE  FreshRanking' /\ NothingWaits' /\ AcceptedStays' /\ NobodyStuck'
<1> DEFINE t == work[a]
<1>1. /\ IsTx(t) /\ Holds(t) /\ Written(t)
      /\ \A p \in t.new : p \in DOMAIN proposal => p \in t.drop
  BY CommitWrites
<1>2. TypeOK
  BY DEF Inv
<1> HIDE DEF t
<1>3. /\ Over(demand', demand, t.demand)
      /\ DOMAIN proposal' = (DOMAIN proposal \ t.drop) \cup DOMAIN t.proposal
      /\ \A p \in DOMAIN t.proposal : proposal'[p] = t.proposal[p]
      /\ \A p \in DOMAIN proposal \ (t.drop \cup DOMAIN t.proposal) : proposal'[p] = proposal[p]
      /\ Over(availability', availability, t.availability)
      /\ BookingsWritten(t)
  BY <1>1 DEF Written
<1>4. /\ RanksWhatItSaves(t) /\ EndsWaiting(t) /\ EndsWhatItOutdates(t)
      /\ FreesWhatItCancels(t) /\ BooksWhatItAccepts(t) /\ TakesWhomItBooks(t)
  BY <1>1 DEF Holds
<1>5. ASSUME NEW p \in DOMAIN proposal', proposal'[p].state = "proposed"
      PROVE  /\ proposal'[p].terms = demand'[p[1]].terms
             /\ demand'[p[1]].state \in OPEN_STATES
  <2>1. CASE p \in t.new
    <3>1. p \in DOMAIN t.proposal
      BY <1>1, <2>1 DEF IsTx
    <3> QED BY <1>3, <1>4, <2>1, <3>1 DEF RanksWhatItSaves, Over, OPEN_STATES
  <2>2. CASE p \in DOMAIN t.proposal \ t.new
    BY <1>3, <1>4, <1>5, <2>2 DEF EndsWaiting
  <2>3. CASE p \notin DOMAIN t.proposal
    <3>1. p \in DOMAIN proposal \ (DOMAIN t.proposal \cup t.drop) /\ proposal'[p] = proposal[p]
      BY <1>3, <2>3
    <3>2. p[1] \in DOMAIN demand
      BY <1>2, <3>1, Rows
    <3>3. /\ proposal[p].state = "proposed"
          /\ proposal[p].terms = demand[p[1]].terms /\ demand[p[1]].state \in OPEN_STATES
      BY <1>5, <3>1 DEF Inv, FreshRanking, NothingWaits
    <3>4. CASE p[1] \in DOMAIN t.demand
      BY <1>3, <1>4, <3>1, <3>3, <3>4 DEF EndsWhatItOutdates, Over
    <3>5. CASE p[1] \notin DOMAIN t.demand
      BY <1>3, <3>1, <3>2, <3>3, <3>5 DEF Over
    <3> QED BY <3>4, <3>5
  <2> QED BY <2>1, <2>2, <2>3
<1>6. FreshRanking' /\ NothingWaits'
  BY <1>5 DEF FreshRanking, NothingWaits
<1>7. ASSUME NEW p \in DOMAIN proposal, proposal[p].state = "accepted"
      PROVE  p \in DOMAIN proposal' /\ proposal'[p].state = "accepted"
  <2>1. p \notin t.drop
    BY <1>4, <1>7 DEF EndsWaiting
  <2>2. CASE p \in DOMAIN t.proposal
    <3>1. p \notin t.new
      BY <1>1, <2>1
    <3> QED BY <1>3, <1>4, <1>7, <2>2, <3>1 DEF EndsWaiting
  <2>3. CASE p \notin DOMAIN t.proposal
    BY <1>3, <1>7, <2>1, <2>3
  <2> QED BY <2>2, <2>3
<1>8. ASSUME NEW i \in DOMAIN booking', booking'[i].accepted
      PROVE  /\ <<booking'[i].demand, booking'[i].worker>> \in DOMAIN proposal'
             /\ proposal'[<<booking'[i].demand, booking'[i].worker>>].state = "accepted"
  <2>1. CASE i \in DOMAIN booking
    <3>1. /\ booking'[i].demand = booking[i].demand /\ booking'[i].worker = booking[i].worker
          /\ booking'[i].accepted = booking[i].accepted
      BY <1>3, <1>4, <2>1 DEF BookingsWritten, FreesWhatItCancels
    <3>2. /\ <<booking[i].demand, booking[i].worker>> \in DOMAIN proposal
          /\ proposal[<<booking[i].demand, booking[i].worker>>].state = "accepted"
      BY <1>8, <2>1, <3>1 DEF Inv, AcceptedStays
    <3> QED BY <1>7, <3>1, <3>2
  <2>2. CASE i \notin DOMAIN booking
    <3>1. booking'[i] \in t.book
      BY <1>3, <2>2 DEF BookingsWritten
    <3> QED BY <1>3, <1>4, <1>8, <3>1 DEF BooksWhatItAccepts
  <2> QED BY <2>1, <2>2
<1>9. AcceptedStays'
  BY <1>8 DEF AcceptedStays
<1>10. ASSUME NEW w \in Workers, availability'[w] = "booked"
       PROVE  \E i \in DOMAIN booking' : /\ booking'[i].worker = w
                                         /\ booking'[i].accepted
                                         /\ booking'[i].state # "cancelled"
  <2>1. CASE w \in DOMAIN t.availability
    <3>1. t.availability[w] = "booked"
      BY <1>3, <1>10, <2>1 DEF Over
    <3>2. PICK b \in t.book : b.worker = w /\ b.accepted /\ b.state = "confirmed"
      BY <1>4, <2>1, <3>1 DEF TakesWhomItBooks
    <3>3. PICK i \in DOMAIN booking' : booking'[i] = b
      BY <1>3 DEF BookingsWritten
    <3> QED BY <3>2, <3>3
  <2>2. CASE w \notin DOMAIN t.availability
    <3>1. availability[w] = "booked"
      BY <1>2, <1>3, <1>10, <2>2 DEF Over, TypeOK
    <3>2. PICK i \in DOMAIN booking : /\ booking[i].worker = w /\ booking[i].accepted
                                      /\ booking[i].state # "cancelled"
      BY <3>1 DEF Inv, NobodyStuck
    <3>3. i \in DOMAIN booking'
      BY <1>3 DEF BookingsWritten
    <3>4. CASE booking'[i] = booking[i]
      BY <3>2, <3>3, <3>4
    <3>5. CASE i \in DOMAIN t.booking /\ booking'[i] = t.booking[i]
      <4>1. t.booking[i].worker = w /\ t.booking[i].accepted
        BY <1>4, <3>2, <3>5 DEF FreesWhatItCancels
      <4>2. t.booking[i].state # "cancelled"
        BY <1>4, <2>2, <3>5, <4>1 DEF FreesWhatItCancels
      <4> QED BY <3>3, <3>5, <4>1, <4>2
    <3> QED BY <1>3, <3>4, <3>5 DEF BookingsWritten
  <2> QED BY <2>1, <2>2
<1>11. NobodyStuck'
  BY <1>10 DEF NobodyStuck
<1> QED BY <1>6, <1>9, <1>11

\* What a transaction that writes none of the rows a commit wrote had found still holds.
LEMMA CommitSpares ==
    ASSUME Inv, NEW a \in Desks, Commit(a),
           NEW u, IsTx(u), Holds(u), ~Conflict(u, work[a])
    PROVE  Holds(u)'
<1> DEFINE t == work[a]
<1>1. IsTx(t) /\ Holds(t) /\ Written(t)
  BY CommitWrites
<1>2. ~Conflict(u, t)
  OBVIOUS
<1> HIDE DEF t
<1>3. /\ DOMAIN u.demand \cap DOMAIN t.demand = {}
      /\ (DOMAIN u.proposal \cup u.drop) \cap (DOMAIN t.proposal \cup t.drop) = {}
      /\ DOMAIN u.booking \cap DOMAIN t.booking = {}
  BY <1>2 DEF Conflict, Meet
<1>4. /\ Over(demand', demand, t.demand)
      /\ DOMAIN proposal' = (DOMAIN proposal \ t.drop) \cup DOMAIN t.proposal
      /\ \A p \in DOMAIN t.proposal : proposal'[p] = t.proposal[p]
      /\ \A p \in DOMAIN proposal \ (t.drop \cup DOMAIN t.proposal) : proposal'[p] = proposal[p]
      /\ BookingsWritten(t)
  BY <1>1 DEF Written
<1>5. RanksWhatItSaves(u)' /\ TakesWhomItBooks(u)'
  BY DEF Holds, RanksWhatItSaves, TakesWhomItBooks
<1>6. EndsWaiting(u)'
  <2>1. ASSUME NEW p \in DOMAIN u.proposal \cup u.drop, p \in DOMAIN proposal
        PROVE  p \in DOMAIN proposal' /\ proposal'[p] = proposal[p]
    <3>1. p \notin DOMAIN t.proposal \cup t.drop
      BY <1>3
    <3> QED BY <1>4, <2>1, <3>1
  <2>2. EndsWaiting(u)
    BY DEF Holds
  <2>3. ASSUME NEW p \in DOMAIN u.proposal \ u.new
        PROVE  /\ p \in DOMAIN proposal'
               /\ \/ u.proposal[p].state = "accepted"
                  \/ u.proposal[p].state = "expired" /\ proposal'[p].state = "proposed"
    BY <2>1, <2>2 DEF EndsWaiting
  <2>4. ASSUME NEW p \in u.drop
        PROVE  p \in DOMAIN proposal' /\ proposal'[p].state = "proposed"
    BY <2>1, <2>2 DEF EndsWaiting
  <2> QED BY <2>3, <2>4 DEF EndsWaiting
<1>7. EndsWhatItOutdates(u)'
  <2>1. EndsWhatItOutdates(u)
    BY DEF Holds
  <2>2. ASSUME NEW p \in DOMAIN proposal' \ (DOMAIN u.proposal \cup u.drop),
               p[1] \in DOMAIN u.demand, proposal'[p].state = "proposed"
        PROVE  /\ u.demand[p[1]].terms = demand'[p[1]].terms
               /\ u.demand[p[1]].state \in OPEN_STATES
    <3>1. p[1] \notin DOMAIN t.demand
      BY <1>3, <2>2
    <3>2. p \notin DOMAIN t.proposal
      <4>1. p \notin t.new
        BY <1>1, <3>1 DEF Holds, RanksWhatItSaves
      <4> QED BY <1>1, <1>4, <2>2, <4>1 DEF Holds, EndsWaiting
    <3>3. p \in DOMAIN proposal /\ proposal'[p] = proposal[p]
      BY <1>4, <3>2
    <3>4. p[1] \in DOMAIN demand
      BY <3>3, Rows DEF Inv
    <3>5. demand'[p[1]] = demand[p[1]]
      BY <1>4, <3>1, <3>4 DEF Over
    <3> QED BY <2>1, <2>2, <3>3, <3>5 DEF EndsWhatItOutdates
  <2> QED BY <2>2 DEF EndsWhatItOutdates
<1>8. FreesWhatItCancels(u)'
  <2>1. FreesWhatItCancels(u)
    BY DEF Holds
  <2>2. \A i \in DOMAIN u.booking : i \in DOMAIN booking' /\ booking'[i] = booking[i]
    BY <1>3, <1>4, <2>1 DEF BookingsWritten, FreesWhatItCancels
  <2> QED BY <2>1, <2>2 DEF FreesWhatItCancels
<1>9. BooksWhatItAccepts(u)'
  <2>1. BooksWhatItAccepts(u) /\ DOMAIN demand \subseteq DOMAIN demand'
    BY <1>4 DEF Holds, Over
  <2> QED BY <2>1 DEF BooksWhatItAccepts
<1> QED BY <1>5, <1>6, <1>7, <1>8, <1>9 DEF Holds

\* A commit keeps the invariant.
LEMMA CommitPreserves ==
    ASSUME Inv, NEW a \in Desks, Commit(a)
    PROVE  Inv'
<1>1. TypeOK' /\ RoomKept'
  BY CommitTypes
<1>2. FreshRanking' /\ NothingWaits' /\ AcceptedStays' /\ NobodyStuck'
  BY CommitTables
<1>3. Holds(Lost)'
  <2>1. /\ Lost.demand = Nothing /\ Lost.proposal = Nothing /\ Lost.new = {}
        /\ Lost.drop = {} /\ Lost.availability = Nothing /\ Lost.booking = Nothing
        /\ Lost.book = {}
    BY DEF Lost, NoChange
  <2> HIDE DEF Lost
  <2>2. /\ RanksWhatItSaves(Lost)' /\ EndsWaiting(Lost)' /\ EndsWhatItOutdates(Lost)'
        /\ FreesWhatItCancels(Lost)' /\ BooksWhatItAccepts(Lost)' /\ TakesWhomItBooks(Lost)'
    BY <2>1, Nowhere DEF RanksWhatItSaves, EndsWaiting, EndsWhatItOutdates, FreesWhatItCancels,
                         BooksWhatItAccepts, TakesWhomItBooks
  <2> QED BY <2>2 DEF Holds
<1>4. ASSUME NEW o \in Desks, ~Idle(o)'
      PROVE  Holds(work[o])'
  <2>1. work' = [x \in Desks |->
                    IF x = a THEN None
                    ELSE IF work[x] # None /\ Conflict(work[x], work[a]) THEN Lost ELSE work[x]]
    BY DEF Commit
  <2>2. o # a
    BY <1>4, <2>1 DEF Idle
  <2>3. CASE work[o] # None /\ Conflict(work[o], work[a])
    <3>1. work'[o] = Lost
      BY <2>1, <2>2, <2>3
    <3> QED BY <1>3, <3>1
  <2>4. CASE ~(work[o] # None /\ Conflict(work[o], work[a]))
    <3>1. work'[o] = work[o]
      BY <2>1, <2>2, <2>4
    <3>2. ~Idle(o) /\ ~Conflict(work[o], work[a])
      BY <1>4, <2>4, <3>1 DEF Idle
    <3>3. IsTx(work[o]) /\ Holds(work[o])
      BY <3>2 DEF Inv, TypeOK
    <3>4. ASSUME NEW u, u = work[o] PROVE Holds(u)'
      BY <3>2, <3>3, <3>4, CommitSpares
    <3> QED BY <3>1, <3>4
  <2> QED BY <2>3, <2>4
<1> QED BY <1>1, <1>2, <1>4 DEF Inv

-----------------------------------------------------------------------------
(* The theorems *)

\* The invariant holds before any request.
LEMMA InitInv ==
    ASSUME Init
    PROVE  Inv
<1>1. DOMAIN demand = {} /\ DOMAIN proposal = {} /\ DOMAIN booking = {}
  BY SmallPartial DEF Init
<1>2. \A a \in Desks : Idle(a)
  BY DEF Init, Idle
<1>3. Cardinality({}) = 0 /\ 1..0 = {}
  BY FS_EmptySet
<1>4. TypeOK
  BY <1>1, <1>2, <1>3, Nowhere DEF Init, TypeOK
<1>5. RoomKept
  <2>1. Booking = {}
    BY <1>2 DEF Booking
  <2> QED BY <1>1, <1>3, <2>1, BoundAssumption DEF RoomKept
<1>6. FreshRanking /\ NothingWaits /\ AcceptedStays
  BY <1>1 DEF FreshRanking, NothingWaits, AcceptedStays
<1>7. NobodyStuck
  BY DEF Init, NobodyStuck
<1> QED BY <1>2, <1>4, <1>5, <1>6, <1>7 DEF Inv

\* Every step keeps it.
LEMMA NextInv ==
    ASSUME Inv, [Next]_vars
    PROVE  Inv'
<1>1. ASSUME NEW a \in Desks, NEW d \in Demands, NEW t \in Terms, NEW fit \in SUBSET Workers,
             Declare(a, d, t, fit)
      PROVE  Inv'
  BY <1>1, DeclarePreserves
<1>2. ASSUME NEW a \in Desks, NEW d \in Demands, NEW t \in Terms, Draft(a, d, t) PROVE Inv'
  BY <1>2, DraftPreserves
<1>3. ASSUME NEW a \in Desks, NEW d \in Demands, Open(a, d) PROVE Inv'
  BY <1>3, OpenPreserves
<1>4. ASSUME NEW a \in Desks, NEW d \in Demands, NEW t \in Terms, NEW fit \in SUBSET Workers,
             Change(a, d, t, fit)
      PROVE  Inv'
  BY <1>4, ChangePreserves
<1>5. ASSUME NEW a \in Desks, NEW d \in Demands, NEW end \in {"filled", "cancelled"},
             Close(a, d, end)
      PROVE  Inv'
  BY <1>5, ClosePreserves
<1>6. ASSUME NEW a \in Desks, NEW p \in Pairs, Accept(a, p) PROVE Inv'
  BY <1>6, AcceptPreserves
<1>7. ASSUME NEW a \in Desks, NEW d \in Demands, NEW w \in Workers, Book(a, d, w) PROVE Inv'
  BY <1>7, BookPreserves
<1>8. ASSUME NEW a \in Desks, NEW i \in DOMAIN booking, NEW fit \in SUBSET Workers,
             Fail(a, i, fit)
      PROVE  Inv'
  BY <1>8, FailPreserves
<1>9. ASSUME NEW a \in Desks, NEW i \in DOMAIN booking, Cancel(a, i) PROVE Inv'
  BY <1>9, CancelPreserves
<1>10. ASSUME NEW a \in Desks, NEW ended \in SUBSET DOMAIN booking, RunOut(a, ended) PROVE Inv'
  BY <1>10, RunOutPreserves
<1>11. ASSUME NEW a \in Desks, Commit(a) PROVE Inv'
  BY <1>11, CommitPreserves
<1>12. ASSUME NEW a \in Desks, Abort(a) PROVE Inv'
  BY <1>12, AbortPreserves
<1>13. CASE UNCHANGED vars
  <2>1. Booking' = Booking
    BY <1>13 DEF vars, Booking, Idle
  <2>2. TypeOK' /\ RoomKept'
    BY <1>13, <2>1 DEF vars, Inv, TypeOK, RoomKept, Exists, Idle
  <2>3. FreshRanking' /\ NothingWaits' /\ AcceptedStays' /\ NobodyStuck'
    BY <1>13 DEF vars, Inv, FreshRanking, NothingWaits, AcceptedStays, NobodyStuck
  <2>4. \A a \in Desks : (Idle(a) \/ Holds(work[a]))'
    BY <1>13 DEF vars, Inv, Idle, Holds, RanksWhatItSaves, EndsWaiting, EndsWhatItOutdates,
                 FreesWhatItCancels, BooksWhatItAccepts, TakesWhomItBooks
  <2> QED BY <2>2, <2>3, <2>4 DEF Inv
<1> QED
  BY <1>1, <1>2, <1>3, <1>4, <1>5, <1>6, <1>7, <1>8, <1>9, <1>10, <1>11, <1>12, <1>13 DEF Next

\* The invariant holds of every behaviour.
THEOREM Invariance == Spec => []Inv
BY InitInv, NextInv, PTL DEF Spec

\* Every table keeps its type, proposals and bookings are of needs that exist, and bookings are
\* numbered without gaps, however the desks' transactions overlap.
THEOREM TypeCorrect == Spec => []TypeOK
<1>1. Inv => TypeOK
  BY DEF Inv
<1> QED BY <1>1, Invariance, PTL

\* No worker waits to be accepted on terms the need has given up: whoever ranks workers for a
\* need writes its row, so no change and no ranking made side by side both commit.
THEOREM RankedOnTheTermsThereAre == Spec => []FreshRanking
<1>1. Inv => FreshRanking
  BY DEF Inv
<1> QED BY <1>1, Invariance, PTL

\* Nobody waits to be accepted for a need that is closed.
THEOREM NobodyWaitsForAClosedNeed == Spec => []NothingWaits
<1>1. Inv => NothingWaits
  BY DEF Inv
<1> QED BY <1>1, Invariance, PTL

\* What a booking was accepted from stays accepted, whatever is changed, closed or ranked later.
THEOREM AcceptedProposalsStay == Spec => []AcceptedStays
<1>1. Inv => AcceptedStays
  BY DEF Inv
<1> QED BY <1>1, Invariance, PTL

\* No worker stays booked once every booking that took their availability is cancelled.
THEOREM NobodyStaysBooked == Spec => []NobodyStuck
<1>1. Inv => NobodyStuck
  BY DEF Inv
<1> QED BY <1>1, Invariance, PTL
=============================================================================
