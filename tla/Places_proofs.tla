----------------------------- MODULE Places_proofs -----------------------------
(***************************************************************************)
(* Proofs about Places, for any places, kinds, names, bundles and sessions: *)
(* its types, and what holds between people's edits and bundle loads.       *)
(*                                                                         *)
(* The argument: a request that may still commit has written every row its  *)
(* decision changes, and whoever writes one of them meanwhile makes it fail.*)
(* So what it decided of a row it writes is still decided from the row that *)
(* is there, and the rows a load leaves alone stay such that it may.        *)
(*                                                                         *)
(* Then about PlaceTables, what is kept about places besides the tree, for   *)
(* any visitors and clients and any number of edits and requests:            *)
(*                                                                         *)
(*   neighbours   LinksInv    BothWays and FollowsBundle, which are inductive, and  *)
(*                            StaysGone: why no load shows a removed pair again      *)
(*   answers      AnswersInv  what the cache holds was said by the index of the       *)
(*                            generation in its key                                  *)
(*   names        NamesInv    a key bears the name nobody took over, and a request     *)
(*                            about to write read a row that still says that            *)
(*                                                                         *)
(* Its parts share no state, so each invariant is preserved by its own actions.  *)
(***************************************************************************)
EXTENDS PlaceTables, BoundedInduction, SequenceTheorems

\* Tables whose rows have their type, under places that are there.
WellFormed(t) ==
    /\ DOMAIN t = Codes
    /\ \A c \in Rows(t) : t[c] \in Row /\ t[c].parent \in Rows(t) \cup {None}

\* `row' was made from `old' by a person: a field is the same, or theirs from now on.
MadeFrom(row, old) ==
    /\ "name" \in row.kept \/ row.name = old.name \/ row.origin = "overlay"
    /\ "parent" \in row.kept \/ row.parent = old.parent \/ row.origin = "overlay"
    /\ "active" \in row.kept \/ row.active = old.active \/ row.origin = "overlay"

\* `row' leaves what a person decided in `old'.
Leaves(row, old) ==
    LET fixed == IF old.origin = "overlay" THEN Carried ELSE old.kept
    IN /\ "name" \in fixed => row.name = old.name
       /\ "parent" \in fixed => row.parent = old.parent
       /\ "active" \in fixed => row.active = old.active

\* `row' says of `c' what the bundle `b' says, except what a person keeps.
Says(row, b, c) ==
    row.origin = "bundle" =>
        IF c \in DOMAIN b
        THEN /\ "name" \in row.kept \/ row.name = b[c].name
             /\ "parent" \in row.kept \/ row.parent = b[c].parent
             /\ "active" \in row.kept \/ row.active
        ELSE "active" \in row.kept \/ ~row.active

IsTx(tx) ==
    /\ DOMAIN tx = {"rows", "new", "spot", "load", "redone", "clean", "alone"}
    /\ DOMAIN tx.rows \subseteq Codes /\ tx.new \subseteq DOMAIN tx.rows
    /\ tx.spot # None => tx.spot \in At
    /\ tx.load \in Bundles \cup {None}
    /\ tx.redone \subseteq Codes /\ tx.alone \in BOOLEAN
    /\ \A c \in DOMAIN tx.rows :
          tx.rows[c] \in Row /\ tx.rows[c].parent \in Rows(node) \cup DOMAIN tx.rows \cup {None}

\* The rows it writes and does not create are there, of the origin they have, and nothing a
\* person keeps is given up.
Founded(tx) ==
    \A c \in DOMAIN tx.rows \ tx.new :
        /\ c \in Rows(node)
        /\ tx.rows[c].origin = node[c].origin
        /\ node[c].kept \subseteq tx.rows[c].kept

\* A person's request makes what is theirs, and adds to the overlay.
ByHand(tx) ==
    /\ \A c \in tx.new : tx.rows[c].origin = "overlay"
    /\ \A c \in DOMAIN tx.rows \ tx.new : MadeFrom(tx.rows[c], node[c])

\* A load writes what its bundle says and no person decided, and what it leaves alone is there
\* and says so already.
ByLoad(tx, b) ==
    /\ \A c \in DOMAIN tx.rows : Says(tx.rows[c], b, c)
    /\ \A c \in DOMAIN tx.rows \ tx.new : Leaves(tx.rows[c], node[c])
    /\ \A c \in Codes \ DOMAIN tx.rows :
          /\ c \in DOMAIN b => c \in Rows(node)
          /\ c \in Rows(node) => Says(node[c], b, c)

Holds(tx) ==
    /\ IsTx(tx)
    /\ Founded(tx)
    /\ IF tx.load = None THEN ByHand(tx) ELSE ByLoad(tx, tx.load)

MayCommit(s) == ~Idle(s) /\ work[s].clean

\* Edits under way.
Editing == {s \in Sessions : MayCommit(s) /\ work[s].load = None}
EditsLeft == edits + Cardinality(Editing) <= MaxEdits

Inv ==
    /\ TypeOK
    /\ WellFormed(node)
    /\ EditsLeft
    /\ FollowsSource
    /\ DOMAIN work = Sessions
    /\ \A s \in Sessions : ~Idle(s) => "clean" \in DOMAIN work[s]
    /\ \A s \in Sessions : MayCommit(s) => Holds(work[s])

-----------------------------------------------------------------------------
(* The walk up, as a recursive function: it exists, and stays on the places. *)

\* One more step of the walk up from `key', after `out'.
Further(key, parentOf, out, n) ==
    LET last == IF out = <<>> THEN key ELSE out[Len(out)]
    IN IF \/ Len(out) < n - 1
          \/ last \notin DOMAIN parentOf
          \/ parentOf[last] \in ToSet(out) \cup {key}
       THEN out
       ELSE Append(out, parentOf[last])

\* `up' are the walks of at most 0, 1, .. MaxSteps steps.
Walks(key, parentOf, up) ==
    up = [n \in 0..MaxSteps |-> IF n = 0 THEN <<>> ELSE Further(key, parentOf, up[n - 1], n)]

LEMMA ChainIsWalk ==
    ASSUME NEW key, NEW parentOf
    PROVE  Chain(key, parentOf) = (CHOOSE up : Walks(key, parentOf, up))[MaxSteps]
BY DEF Chain, Walks, Further

LEMMA FurtherIn ==
    ASSUME NEW S, NEW key, NEW parentOf, \A k \in DOMAIN parentOf : parentOf[k] \in S,
           NEW out \in Seq(S), NEW n
    PROVE  Further(key, parentOf, out, n) \in Seq(S)
BY DEF Further

LEMMA WalksExist ==
    ASSUME NEW S, NEW key, NEW parentOf, \A k \in DOMAIN parentOf : parentOf[k] \in S
    PROVE  \E up : Walks(key, parentOf, up)
<1> DEFINE g == [x \in Seq(S) \X (1..MaxSteps) |-> Further(key, parentOf, x[1], x[2])]
<1>1. MaxSteps \in Nat
  BY PlacesAssumption
<1>2. g \in [Seq(S) \X (1..MaxSteps) -> Seq(S)]
  BY FurtherIn
<1>3. <<>> \in Seq(S)
  OBVIOUS
<1>4. \A out \in Seq(S), n \in 1..MaxSteps : g[<<out, n>>] = Further(key, parentOf, out, n)
  OBVIOUS
<1> HIDE DEF g
<1>5. PICK f \in [0..MaxSteps -> Seq(S)] : Follows(f, MaxSteps, <<>>, g)
  BY <1>1, <1>2, <1>3, Recursion
<1>6. \A n \in 0..MaxSteps : f[n] = IF n = 0 THEN <<>> ELSE Further(key, parentOf, f[n - 1], n)
  <2> SUFFICES ASSUME NEW n \in 0..MaxSteps
               PROVE  f[n] = IF n = 0 THEN <<>> ELSE Further(key, parentOf, f[n - 1], n)
    OBVIOUS
  <2>1. CASE n = 0
    BY <1>5, <2>1 DEF Follows
  <2>2. CASE n # 0
    <3>1. n \in 1..MaxSteps /\ f[n - 1] \in Seq(S)
      BY <1>1, <2>2
    <3> QED
      BY <1>4, <1>5, <2>2, <3>1 DEF Follows
  <2> QED
    BY <2>1, <2>2
<1>7. f = [n \in 0..MaxSteps |-> f[n]]
  OBVIOUS
<1>8. Walks(key, parentOf, f)
  BY <1>6, <1>7 DEF Walks
<1> QED
  BY <1>8

\* The walk up meets parents only.
LEMMA ChainIn ==
    ASSUME NEW S, NEW key, NEW parentOf, \A k \in DOMAIN parentOf : parentOf[k] \in S
    PROVE  Chain(key, parentOf) \in Seq(S)
<1> DEFINE up == CHOOSE u : Walks(key, parentOf, u)
           Good == {n \in 0..MaxSteps : up[n] \in Seq(S)}
<1>1. Walks(key, parentOf, up)
  BY WalksExist
<1>2. MaxSteps \in Nat
  BY PlacesAssumption
<1>3. Chain(key, parentOf) = up[MaxSteps]
  BY ChainIsWalk
<1> HIDE DEF up
<1>4. up[0] = <<>>
  BY <1>1, <1>2 DEF Walks
<1>5. ASSUME NEW n \in 1..MaxSteps, n - 1 \in Good
      PROVE  n \in Good
  <2>1. up[n] = Further(key, parentOf, up[n - 1], n)
    BY <1>1, <1>2 DEF Walks
  <2> QED
    BY <1>5, <2>1, FurtherIn
<1>6. 0 \in Good
  <2>1. 0 \in 0..MaxSteps /\ up[0] \in Seq(S)
    BY <1>2, <1>4
  <2> QED
    BY <2>1
<1> HIDE DEF Good
<1>7. MaxSteps \in Good
  BY <1>2, <1>5, <1>6, Induction
<1> QED
  BY <1>3, <1>7 DEF Good

-----------------------------------------------------------------------------
(* Tables worked out *)

AllNames == UNION {NameOf[c] : c \in Codes}

\* Two rows that differ at most in what is worked out.
Alike(row, old) ==
    /\ row.name = old.name /\ row.parent = old.parent /\ row.active = old.active
    /\ row.origin = old.origin /\ row.kept = old.kept

\* Those above a place are places that are there.
LEMMA AboveIn ==
    ASSUME NEW t, WellFormed(t), NEW c
    PROVE  Above(t, c) \in Seq(Rows(t))
<1>1. \A k \in DOMAIN ParentOf(t) : ParentOf(t)[k] \in Rows(t)
  BY DEF ParentOf, WellFormed
<1> QED
  BY <1>1, ChainIn DEF Above

\* Working a row out changes nothing else of it.
LEMMA DerivedIs ==
    ASSUME NEW t, WellFormed(t), NEW c \in Rows(t), NEW row \in Row
    PROVE  Derived(row, t, c) \in Row /\ Alike(Derived(row, t, c), row)
<1> DEFINE up == Above(t, c)
           above == [i \in DOMAIN up |-> t[up[i]].name]
           index == <<row.name>> \o above
<1>1. up \in Seq(Rows(t)) /\ Rows(t) \subseteq Codes
  BY AboveIn DEF Rows
<1>2. up \in Seq(Codes)
  BY <1>1
<1>3. above \in Seq(AllNames)
  <2>1. \A i \in DOMAIN up : up[i] \in Rows(t)
    BY <1>1
  <2>2. \A i \in DOMAIN up : t[up[i]].name \in AllNames
    BY <2>1 DEF WellFormed, Row, AllNames
  <2>3. DOMAIN up = 1..Len(up) /\ Len(up) \in Nat
    BY <1>1
  <2> HIDE DEF up
  <2> QED
    BY <2>2, <2>3
<1>4. row.name \in AllNames
  BY DEF Row, AllNames
<1> HIDE DEF above
<1>5. index \in Seq(AllNames)
  BY <1>3, <1>4
<1>6. Derived(row, t, c) = [row EXCEPT !.up = up, !.index = index]
  BY DEF Derived, above
<1> HIDE DEF up, index
<1> DEFINE d == [row EXCEPT !.up = up, !.index = index]
<1>7. d \in Row
  BY <1>2, <1>5 DEF Row, AllNames
<1>8. Alike(d, row)
  BY DEF Row, Alike
<1> HIDE DEF d
<1> QED
  BY <1>6, <1>7, <1>8 DEF d

\* `all' is `t' with the rows of S worked out.
WorkedOut(all, t, S) ==
    /\ DOMAIN all = Codes
    /\ \A c \in Codes \ S : all[c] = t[c]
    /\ \A c \in S : all[c] = Derived(t[c], t, c) /\ all[c] \in Row /\ Alike(all[c], t[c])

LEMMA RecomputeIs ==
    ASSUME NEW t, WellFormed(t), NEW S, S \subseteq Rows(t)
    PROVE  /\ WorkedOut(Recompute(t, S), t, S)
           /\ WellFormed(Recompute(t, S)) /\ Rows(Recompute(t, S)) = Rows(t)
<1> DEFINE all == Recompute(t, S)
<1>1. S \subseteq Codes /\ Rows(t) \subseteq Codes
  BY DEF Rows
<1>2. DOMAIN all = Codes /\ \A c \in Codes \ S : all[c] = t[c]
  BY DEF Recompute
<1>3. \A c \in S : all[c] = Derived(t[c], t, c)
  BY <1>1 DEF Recompute
<1>4. \A c \in S : Derived(t[c], t, c) \in Row /\ Alike(Derived(t[c], t, c), t[c])
  BY DerivedIs DEF WellFormed
<1> HIDE DEF all
<1>5. \A c \in S : all[c] \in Row /\ Alike(all[c], t[c])
  BY <1>3, <1>4
<1>6. WorkedOut(all, t, S)
  BY <1>2, <1>3, <1>5 DEF WorkedOut
<1>7. Rows(all) = Rows(t)
  BY <1>1, <1>2, <1>5, RowAssumption DEF Rows
<1>8. WellFormed(all)
  BY <1>2, <1>5, <1>7 DEF WellFormed, Alike, Rows
<1> QED
  BY <1>6, <1>7, <1>8 DEF all

-----------------------------------------------------------------------------
(* Requests *)

\* What a request is made of.
TxIs(tx, all, S, new, at, load, redo) ==
    /\ DOMAIN tx = {"rows", "new", "spot", "load", "redone", "clean", "alone"}
    /\ DOMAIN tx.rows = S /\ \A c \in S : tx.rows[c] = all[c]
    /\ tx.new = new /\ tx.spot = at /\ tx.load = load /\ tx.redone = redo
    /\ tx.clean = TRUE /\ tx.alone = TRUE

LEMMA TxForms ==
    ASSUME NEW all, NEW S, NEW new, NEW at, NEW load, NEW redo
    PROVE  /\ TxIs(Tx(all, S, new), all, S, new, None, None, {})
           /\ TxIs([Tx(all, S, new) EXCEPT !.redone = redo], all, S, new, None, None, redo)
           /\ TxIs([Tx(all, S, new) EXCEPT !.spot = at], all, S, new, at, None, {})
           /\ TxIs([Tx(all, S, new) EXCEPT !.spot = at, !.redone = redo],
                   all, S, new, at, None, redo)
           /\ TxIs([Tx(all, S, new) EXCEPT !.spot = at, !.load = load],
                   all, S, new, at, load, {})
<1>1. TxIs(Tx(all, S, new), all, S, new, None, None, {})
  BY DEF Tx, TxIs
<1>2. ASSUME NEW tx, TxIs(tx, all, S, new, None, None, {})
      PROVE  TxIs([tx EXCEPT !.redone = redo], all, S, new, None, None, redo)
  BY <1>2 DEF TxIs
<1>3. ASSUME NEW tx, TxIs(tx, all, S, new, None, None, {})
      PROVE  TxIs([tx EXCEPT !.spot = at], all, S, new, at, None, {})
  BY <1>3 DEF TxIs
<1>4. ASSUME NEW tx, TxIs(tx, all, S, new, None, None, {})
      PROVE  TxIs([tx EXCEPT !.spot = at, !.redone = redo], all, S, new, at, None, redo)
  BY <1>4 DEF TxIs
<1>5. ASSUME NEW tx, TxIs(tx, all, S, new, None, None, {})
      PROVE  TxIs([tx EXCEPT !.spot = at, !.load = load], all, S, new, at, load, {})
  BY <1>5 DEF TxIs
<1> QED
  BY <1>1, <1>2, <1>3, <1>4, <1>5

\* Those that edit are some of those under way.
LEMMA Counted ==
    /\ IsFiniteSet(Editing) /\ Cardinality(Editing) \in Nat
    /\ IsFiniteSet({u \in Sessions : ~Idle(u)})
    /\ Cardinality(Editing) <= Cardinality({u \in Sessions : ~Idle(u)})
    /\ Cardinality({u \in Sessions : ~Idle(u)}) \in Nat
<1> DEFINE busy == {u \in Sessions : ~Idle(u)}
<1>1. IsFiniteSet(busy) /\ busy \subseteq Sessions
  <2>1. busy \in SUBSET Sessions
    OBVIOUS
  <2> QED
    BY <2>1, PlacesAssumption, FS_Subset
<1>2. Editing \in SUBSET busy
  BY DEF Editing, MayCommit
<1> HIDE DEF busy
<1>3. IsFiniteSet(Editing) /\ Cardinality(Editing) <= Cardinality(busy)
  BY <1>1, <1>2, FS_Subset
<1>4. Cardinality(Editing) \in Nat /\ Cardinality(busy) \in Nat
  BY <1>1, <1>3, FS_CardinalityType
<1> QED
  BY <1>1, <1>3, <1>4 DEF busy

\* What holds of a request does so as long as the rows are the same.
LEMMA HoldsOn ==
    ASSUME NEW tx, Holds(tx), node' = node
    PROVE  Holds(tx)'
BY DEF Holds, IsTx, Founded, ByHand, ByLoad, Rows

\* A request that begins as one that holds keeps the invariant.
LEMMA Begins ==
    ASSUME Inv, NEW s \in Sessions, NEW tx, Begin(s, tx), Holds(tx),
           tx.load # None \/ edits + Cardinality({u \in Sessions : ~Idle(u)}) < MaxEdits
    PROVE  Inv'
<1>1. /\ UNCHANGED <<node, source, spot, edits, raced, redone>>
      /\ work' = [work EXCEPT ![s] = tx] /\ DOMAIN work = Sessions
  BY DEF Begin, Inv
<1>2. /\ DOMAIN work' = Sessions /\ work'[s] = tx
      /\ \A u \in Sessions \ {s} : work'[u] = work[u]
  BY <1>1
<1>3. TypeOK' /\ WellFormed(node)' /\ FollowsSource'
  BY <1>1 DEF Inv, TypeOK, WellFormed, Rows, FollowsSource
<1>4. ASSUME NEW u \in Sessions, MayCommit(u)'
      PROVE  Holds(work[u])'
  <2>1. Holds(work'[u])
    BY <1>2, <1>4 DEF Inv, MayCommit, Idle
  <2>2. ASSUME NEW v, v = work'[u] PROVE Holds(v)'
    BY <1>1, <2>1, <2>2, HoldsOn
  <2> QED
    BY <2>2
<1>5. EditsLeft'
  <2>1. Editing' \subseteq Editing \cup {s}
    BY <1>2 DEF Editing, MayCommit, Idle
  <2>2. tx.load # None => Editing' \subseteq Editing
    BY <1>2 DEF Editing, MayCommit, Idle
  <2>3. /\ IsFiniteSet(Editing \cup {s})
        /\ Cardinality(Editing \cup {s}) =
              IF s \in Editing THEN Cardinality(Editing) ELSE Cardinality(Editing) + 1
    BY Counted, FS_AddElement
  <2>4. IsFiniteSet(Editing') /\ Cardinality(Editing') <= Cardinality(Editing \cup {s})
    BY <2>1, <2>3, FS_Subset
  <2>5. tx.load # None => Cardinality(Editing') <= Cardinality(Editing)
    BY <2>2, Counted, FS_Subset
  <2>6. Cardinality(Editing') \in Nat
    BY <2>4, FS_CardinalityType
  <2>7. edits \in Nat /\ MaxEdits \in Nat
    BY PlacesAssumption DEF Inv, TypeOK
  <2>8. Cardinality(Editing') <= Cardinality(Editing) + 1
    BY <2>3, <2>4, <2>6, Counted
  <2> QED
    BY <1>1, <2>5, <2>6, <2>7, <2>8, Counted DEF Inv, EditsLeft
<1>6. \A u \in Sessions : ~Idle(u)' => "clean" \in DOMAIN work'[u]
  BY <1>2 DEF Inv, Idle, Holds, IsTx
<1> QED
  BY <1>2, <1>3, <1>4, <1>5, <1>6 DEF Inv

\* A person's request on the table `t' it has in mind.
LEMMA HandHolds ==
    ASSUME Inv, NEW t, WellFormed(t), NEW S, S \subseteq Rows(t), NEW new, new \subseteq S,
           NEW all, \A d \in S : all[d] \in Row /\ Alike(all[d], t[d]),
           NEW at, at # None => at \in At,
           NEW redo, redo \subseteq Codes,
           NEW tx, TxIs(tx, all, S, new, at, None, redo),
           Rows(t) \subseteq Rows(node) \cup S,
           \A d \in new : t[d].origin = "overlay",
           \A d \in S \ new : /\ d \in Rows(node)
                              /\ t[d].origin = node[d].origin
                              /\ node[d].kept \subseteq t[d].kept
                              /\ MadeFrom(t[d], node[d])
    PROVE  Holds(tx)
<1>1. \A d \in S : /\ tx.rows[d] \in Row /\ tx.rows[d].parent \in Rows(node) \cup S \cup {None}
                   /\ Alike(tx.rows[d], t[d])
  BY DEF TxIs, Alike, WellFormed
<1>2. IsTx(tx)
  BY <1>1 DEF IsTx, TxIs, Rows
<1>3. Founded(tx)
  BY <1>1 DEF Founded, TxIs, Alike
<1>4. ByHand(tx)
  BY <1>1 DEF ByHand, TxIs, Alike, MadeFrom
<1> QED
  BY <1>2, <1>3, <1>4 DEF Holds, TxIs

\* `t' is the table with the row of `c' as a person makes it.
EditedAt(t, c) ==
    /\ DOMAIN t = Codes /\ \A d \in Codes \ {c} : t[d] = node[d]
    /\ t[c] \in Row /\ t[c].parent \in Rows(node) \cup {None}
    /\ t[c].origin = node[c].origin /\ node[c].kept \subseteq t[c].kept
    /\ MadeFrom(t[c], node[c])

\* A person's request that writes rows of a table with one row changed keeps the invariant.
LEMMA EditBegins ==
    ASSUME Inv, NEW s \in Sessions, NEW c \in Rows(node), NEW t, EditedAt(t, c),
           NEW S, S \subseteq Rows(t),
           NEW all, \A d \in S : all[d] \in Row /\ Alike(all[d], t[d]),
           NEW at, at # None => at \in At,
           NEW redo, redo \subseteq Codes,
           NEW tx, TxIs(tx, all, S, {}, at, None, redo), Edit(s, tx)
    PROVE  Inv'
<1>1. WellFormed(node) /\ c \in Codes
  BY DEF Inv, Rows
<1>2. Rows(t) = Rows(node)
  BY <1>1, RowAssumption DEF EditedAt, Rows
<1>3. WellFormed(t)
  BY <1>1, <1>2 DEF EditedAt, WellFormed, Rows
<1>4. \A d \in S : /\ d \in Rows(node) /\ t[d].origin = node[d].origin
                   /\ node[d].kept \subseteq t[d].kept /\ MadeFrom(t[d], node[d])
  BY <1>1, <1>2 DEF EditedAt, MadeFrom, Rows
<1>5. Holds(tx)
  <2>1. {} \subseteq S /\ Rows(t) \subseteq Rows(node) \cup S
    BY <1>2
  <2> QED
    BY <1>3, <1>4, <2>1, HandHolds
<1>6. Begin(s, tx) /\ edits + Cardinality({u \in Sessions : ~Idle(u)}) < MaxEdits
  BY DEF Edit
<1> QED
  BY <1>5, <1>6, Begins

\* The walk up from a place stays on places, and its city is one or there is none.
LEMMA SpotIs ==
    ASSUME NEW t, WellFormed(t), NEW c \in Rows(t)
    PROVE  Spot(t, c) \in At
<1> DEFINE walk == <<c>> \o Above(t, c)
           I == {i \in 1..Len(walk) : Kind[walk[i]] \in CITY_KINDS}
           at == IF I # {} THEN Min(I) ELSE 0
<1>1. Rows(t) \subseteq Codes
  BY DEF Rows
<1>2. walk \in Seq(Codes)
  <2>1. Above(t, c) \in Seq(Codes) /\ <<c>> \in Seq(Codes)
    BY <1>1, AboveIn
  <2> QED
    BY <2>1
<1>3. CityOf(t, c) = IF at = 0 THEN None ELSE walk[at]
  BY DEF CityOf, SelectInSeq
<1> HIDE DEF walk
<1>4. at \in 0..Len(walk)
  <2>1. CASE I = {}
    BY <1>2, <2>1
  <2>2. CASE I # {}
    <3>1. \E m \in I : \A y \in I : m <= y
      <4>1. Len(walk) \in Nat /\ I \subseteq 1..Len(walk)
        BY <1>2
      <4> QED
        BY <2>2, <4>1, LeastFrom
    <3>2. Min(I) \in I
      BY <3>1 DEF Min
    <3> QED
      BY <1>2, <2>2, <3>2
  <2> QED
    BY <2>1, <2>2
<1> HIDE DEF at
<1>5. CityOf(t, c) \in Codes \cup {None}
  BY <1>2, <1>3, <1>4
<1> QED
  BY <1>1, <1>5 DEF Spot, At

-----------------------------------------------------------------------------
(* Those who begin *)

\* A table with one row edited has the same places.
LEMMA EditedIs ==
    ASSUME WellFormed(node), NEW c \in Rows(node), NEW t, EditedAt(t, c)
    PROVE  WellFormed(t) /\ Rows(t) = Rows(node)
<1>1. c \in Codes
  BY DEF Rows
<1>2. Rows(t) = Rows(node)
  BY <1>1, RowAssumption DEF EditedAt, Rows
<1> QED
  BY <1>1, <1>2 DEF EditedAt, WellFormed, Rows

\* A new name, another parent, another activity: each is an edit of one row.
LEMMA RenameEdits ==
    ASSUME Inv, NEW c \in Rows(node), NEW name \in NameOf[c]
    PROVE  EditedAt([node EXCEPT ![c].name = name, ![c].kept = Kept(node[c], {"name"})], c)
<1> DEFINE t == [node EXCEPT ![c].name = name, ![c].kept = Kept(node[c], {"name"})]
<1>1. WellFormed(node) /\ c \in Codes
  BY DEF Inv, Rows
<1>2. ASSUME NEW row \in Row
      PROVE  LET new == [row EXCEPT !.name = name, !.kept = Kept(row, {"name"})]
             IN /\ new \in Row /\ new.parent = row.parent /\ new.origin = row.origin
                /\ row.kept \subseteq new.kept /\ MadeFrom(new, row)
  <2>1. Kept(row, {"name"}) \subseteq Carried /\ row.kept \subseteq Kept(row, {"name"})
    BY DEF Kept, Row, Carried
  <2>2. row.origin = "bundle" => "name" \in Kept(row, {"name"})
    BY DEF Kept
  <2>3. row.origin \in {"bundle", "overlay"}
    BY DEF Row, Origins
  <2> HIDE DEF Kept
  <2> QED
    BY <1>1, <2>1, <2>2, <2>3 DEF Row, MadeFrom
<1>3. node[c] \in Row /\ node[c].parent \in Rows(node) \cup {None} /\ DOMAIN node = Codes
  BY <1>1 DEF WellFormed
<1>4. /\ DOMAIN t = Codes /\ \A d \in Codes \ {c} : t[d] = node[d]
      /\ t[c] = [node[c] EXCEPT !.name = name, !.kept = Kept(node[c], {"name"})]
  BY <1>1, <1>3
<1> HIDE DEF t
<1>5. EditedAt(t, c)
  BY <1>2, <1>3, <1>4 DEF EditedAt
<1> QED
  BY <1>5 DEF t

LEMMA MoveEdits ==
    ASSUME Inv, NEW c \in Rows(node), NEW parent \in Rows(node) \cup {None}
    PROVE  EditedAt([node EXCEPT ![c].parent = parent, ![c].kept = Kept(node[c], {"parent"})], c)
<1> DEFINE t == [node EXCEPT ![c].parent = parent, ![c].kept = Kept(node[c], {"parent"})]
<1>1. WellFormed(node) /\ c \in Codes /\ parent \in Codes \cup {None}
  BY DEF Inv, Rows
<1>2. ASSUME NEW row \in Row
      PROVE  LET new == [row EXCEPT !.parent = parent, !.kept = Kept(row, {"parent"})]
             IN /\ new \in Row /\ new.parent = parent /\ new.origin = row.origin
                /\ row.kept \subseteq new.kept /\ MadeFrom(new, row)
  <2>1. Kept(row, {"parent"}) \subseteq Carried /\ row.kept \subseteq Kept(row, {"parent"})
    BY DEF Kept, Row, Carried
  <2>2. row.origin = "bundle" => "parent" \in Kept(row, {"parent"})
    BY DEF Kept
  <2>3. row.origin \in {"bundle", "overlay"}
    BY DEF Row, Origins
  <2> HIDE DEF Kept
  <2> QED
    BY <1>1, <2>1, <2>2, <2>3 DEF Row, MadeFrom
<1>3. node[c] \in Row /\ DOMAIN node = Codes
  BY <1>1 DEF WellFormed
<1>4. /\ DOMAIN t = Codes /\ \A d \in Codes \ {c} : t[d] = node[d]
      /\ t[c] = [node[c] EXCEPT !.parent = parent, !.kept = Kept(node[c], {"parent"})]
  BY <1>1, <1>3
<1> HIDE DEF t
<1>5. /\ t[c] \in Row /\ t[c].parent = parent /\ t[c].origin = node[c].origin
      /\ node[c].kept \subseteq t[c].kept /\ MadeFrom(t[c], node[c])
  BY <1>2, <1>3, <1>4
<1>6. EditedAt(t, c)
  BY <1>1, <1>4, <1>5 DEF EditedAt
<1> QED
  BY <1>6 DEF t

LEMMA ArchiveEdits ==
    ASSUME Inv, NEW c \in Rows(node), NEW active \in BOOLEAN
    PROVE  EditedAt([node EXCEPT ![c].active = active, ![c].kept = Kept(node[c], {"active"})], c)
<1> DEFINE t == [node EXCEPT ![c].active = active, ![c].kept = Kept(node[c], {"active"})]
<1>1. WellFormed(node) /\ c \in Codes
  BY DEF Inv, Rows
<1>2. ASSUME NEW row \in Row
      PROVE  LET new == [row EXCEPT !.active = active, !.kept = Kept(row, {"active"})]
             IN /\ new \in Row /\ new.parent = row.parent /\ new.origin = row.origin
                /\ row.kept \subseteq new.kept /\ MadeFrom(new, row)
  <2>1. Kept(row, {"active"}) \subseteq Carried /\ row.kept \subseteq Kept(row, {"active"})
    BY DEF Kept, Row, Carried
  <2>2. row.origin = "bundle" => "active" \in Kept(row, {"active"})
    BY DEF Kept
  <2>3. row.origin \in {"bundle", "overlay"}
    BY DEF Row, Origins
  <2> HIDE DEF Kept
  <2> QED
    BY <1>1, <2>1, <2>2, <2>3 DEF Row, MadeFrom
<1>3. node[c] \in Row /\ node[c].parent \in Rows(node) \cup {None} /\ DOMAIN node = Codes
  BY <1>1 DEF WellFormed
<1>4. /\ DOMAIN t = Codes /\ \A d \in Codes \ {c} : t[d] = node[d]
      /\ t[c] = [node[c] EXCEPT !.active = active, !.kept = Kept(node[c], {"active"})]
  BY <1>1, <1>3
<1> HIDE DEF t
<1>5. EditedAt(t, c)
  BY <1>2, <1>3, <1>4 DEF EditedAt
<1> QED
  BY <1>5 DEF t

LEMMA RenameBegins ==
    ASSUME Inv, NEW s \in Sessions, NEW c \in Codes, NEW name \in NameOf[c], Rename(s, c, name)
    PROVE  Inv'
<1> DEFINE t == [node EXCEPT ![c].name = name, ![c].kept = Kept(node[c], {"name"})]
           S == {c} \cup Below(t, c)
<1>1. c \in Rows(node) /\ WellFormed(node)
  BY DEF Rename, Rows, Inv
<1>2. EditedAt(t, c)
  BY <1>1, RenameEdits
<1>3. WellFormed(t) /\ S \subseteq Rows(t)
  BY <1>1, <1>2, EditedIs DEF Below
<1>4. Edit(s, [Tx(Recompute(t, S), S, {}) EXCEPT !.redone = {c}])
  BY DEF Rename
<1> HIDE DEF t, S
<1>5. \A d \in S : Recompute(t, S)[d] \in Row /\ Alike(Recompute(t, S)[d], t[d])
  BY <1>3, RecomputeIs DEF WorkedOut
<1>6. TxIs([Tx(Recompute(t, S), S, {}) EXCEPT !.redone = {c}],
           Recompute(t, S), S, {}, None, None, {c})
  BY TxForms
<1> QED
  BY <1>1, <1>2, <1>3, <1>4, <1>5, <1>6, EditBegins

LEMMA MoveBegins ==
    ASSUME Inv, NEW s \in Sessions, NEW c \in Codes, NEW parent \in Codes \cup {None},
           Move(s, c, parent)
    PROVE  Inv'
<1> DEFINE t == [node EXCEPT ![c].parent = parent, ![c].kept = Kept(node[c], {"parent"})]
           S == {c} \cup Below(t, c)
           at == SpotAfter(t, c)
<1>1. c \in Rows(node) /\ WellFormed(node) /\ parent \in Rows(node) \cup {None}
  BY DEF Move, Rows, Inv
<1>2. EditedAt(t, c)
  BY <1>1, MoveEdits
<1>3. WellFormed(t) /\ c \in Rows(t) /\ S \subseteq Rows(t)
  BY <1>1, <1>2, EditedIs DEF Below
<1>4. Edit(s, [Tx(Recompute(t, S), S, {}) EXCEPT !.spot = at, !.redone = {c}])
  BY DEF Move
<1> HIDE DEF t, S
<1>5. \A d \in S : Recompute(t, S)[d] \in Row /\ Alike(Recompute(t, S)[d], t[d])
  BY <1>3, RecomputeIs DEF WorkedOut
<1>6. at # None => at \in At
  BY <1>3, SpotIs DEF SpotAfter
<1> HIDE DEF at
<1>7. TxIs([Tx(Recompute(t, S), S, {}) EXCEPT !.spot = at, !.redone = {c}],
           Recompute(t, S), S, {}, at, None, {c})
  BY TxForms
<1> QED
  BY <1>1, <1>2, <1>3, <1>4, <1>5, <1>6, <1>7, EditBegins

LEMMA ArchiveBegins ==
    ASSUME Inv, NEW s \in Sessions, NEW c \in Codes, NEW active \in BOOLEAN,
           Archive(s, c, active)
    PROVE  Inv'
<1> DEFINE t == [node EXCEPT ![c].active = active, ![c].kept = Kept(node[c], {"active"})]
<1>1. c \in Rows(node) /\ WellFormed(node)
  BY DEF Archive, Rows, Inv
<1>2. EditedAt(t, c)
  BY <1>1, ArchiveEdits
<1>3. {c} \subseteq Rows(t)
  BY <1>1, <1>2, EditedIs
<1>4. Edit(s, Tx(t, {c}, {}))
  BY DEF Archive
<1>5. \A d \in {c} : t[d] \in Row /\ Alike(t[d], t[d])
  BY <1>2 DEF EditedAt, Alike
<1> HIDE DEF t
<1>6. TxIs(Tx(t, {c}, {}), t, {c}, {}, None, None, {})
  BY TxForms
<1> QED
  BY <1>1, <1>2, <1>3, <1>4, <1>5, <1>6, EditBegins

LEMMA SettleBegins ==
    ASSUME Inv, NEW s \in Sessions, NEW c \in Codes, Settle(s, c)
    PROVE  Inv'
<1> DEFINE at == Spot(node, c)
<1>1. c \in Rows(node) /\ WellFormed(node)
  BY DEF Settle, Rows, Inv
<1>2. EditedAt(node, c)
  BY <1>1 DEF EditedAt, WellFormed, MadeFrom
<1>3. at \in At
  BY <1>1, SpotIs
<1>4. Edit(s, [Tx(node, {}, {}) EXCEPT !.spot = at])
  BY DEF Settle
<1> HIDE DEF at
<1>5. TxIs([Tx(node, {}, {}) EXCEPT !.spot = at], node, {}, {}, at, None, {})
  BY TxForms
<1> QED
  BY <1>1, <1>2, <1>3, <1>4, <1>5, EditBegins

\* `t' is the table with `c' added, by a person.
AddedAt(t, c) ==
    /\ WellFormed(t) /\ Rows(t) = Rows(node) \cup {c}
    /\ t[c].origin = "overlay" /\ \A d \in Codes \ {c} : t[d] = node[d]

\* A new place under one that is there.
LEMMA AddedIs ==
    ASSUME WellFormed(node), NEW c \in Codes \ Rows(node), NEW name \in NameOf[c],
           NEW parent \in Rows(node) \cup {None}
    PROVE  AddedAt([node EXCEPT ![c] = NewRow(name, parent, "overlay")], c)
<1> DEFINE row == NewRow(name, parent, "overlay")
           t == [node EXCEPT ![c] = row]
<1>1. c \notin Rows(node) /\ WellFormed(node) /\ parent \in Codes \cup {None}
  BY DEF Rows
<1>2. row \in Row /\ row.origin = "overlay" /\ row.parent = parent
  <2>1. name \in AllNames
    BY DEF AllNames
  <2>2. <<>> \in Seq(Codes) /\ <<>> \in Seq(AllNames)
    OBVIOUS
  <2> QED
    BY <1>1, <2>1, <2>2 DEF NewRow, Row, Origins, AllNames
<1>3. DOMAIN t = Codes /\ t[c] = row /\ \A d \in Codes \ {c} : t[d] = node[d]
  BY <1>1 DEF WellFormed
<1> HIDE DEF row, t
<1>4. Rows(t) = Rows(node) \cup {c}
  BY <1>2, <1>3, RowAssumption DEF Rows
<1>5. WellFormed(t)
  <2>1. ASSUME NEW d \in Rows(t)
        PROVE  t[d] \in Row /\ t[d].parent \in Rows(t) \cup {None}
    <3>1. CASE d = c
      BY <1>1, <1>2, <1>3, <1>4, <3>1
    <3>2. CASE d # c
      <4>1. d \in Rows(node) /\ t[d] = node[d]
        BY <1>3, <1>4, <2>1, <3>2 DEF Rows
      <4> QED
        BY <1>1, <1>4, <4>1 DEF WellFormed
    <3> QED
      BY <3>1, <3>2
  <2> QED
    BY <1>3, <2>1 DEF WellFormed
<1>6. t[c].origin = "overlay"
  BY <1>2, <1>3
<1> QED
  BY <1>3, <1>4, <1>5, <1>6 DEF t, row, AddedAt

LEMMA AddBegins ==
    ASSUME Inv, NEW s \in Sessions, NEW c \in Codes, NEW name \in NameOf[c],
           NEW parent \in Codes \cup {None}, Add(s, c, name, parent)
    PROVE  Inv'
<1> DEFINE row == NewRow(name, parent, "overlay")
           t == [node EXCEPT ![c] = row]
<1>1. c \notin Rows(node) /\ WellFormed(node) /\ parent \in Rows(node) \cup {None}
  BY DEF Add, Rows, Inv
<1>2. AddedAt(t, c)
  BY <1>1, AddedIs
<1>3. WellFormed(t) /\ Rows(t) = Rows(node) \cup {c} /\ t[c].origin = "overlay"
  BY <1>2 DEF AddedAt
<1>4. Edit(s, Tx(Recompute(t, {c}), {c}, {c}))
  BY DEF Add
<1> HIDE DEF row, t
<1>5. \A d \in {c} : Recompute(t, {c})[d] \in Row /\ Alike(Recompute(t, {c})[d], t[d])
  BY <1>3, RecomputeIs DEF WorkedOut
<1>6. TxIs(Tx(Recompute(t, {c}), {c}, {c}), Recompute(t, {c}), {c}, {c}, None, None, {})
  BY TxForms
<1>7. Holds(Tx(Recompute(t, {c}), {c}, {c}))
  <2>1. \A d \in {c} : t[d].origin = "overlay"
    BY <1>3
  <2>2. {c} \subseteq {c} /\ {c} \subseteq Rows(t) /\ {} \subseteq Codes /\ {c} \ {c} = {}
    BY <1>3
  <2> QED
    BY <1>3, <1>5, <1>6, <2>1, <2>2, HandHolds
<1>8. /\ Begin(s, Tx(Recompute(t, {c}), {c}, {c}))
       /\ edits + Cardinality({u \in Sessions : ~Idle(u)}) < MaxEdits
  BY <1>4 DEF Edit
<1> QED
  BY <1>7, <1>8, Begins

-----------------------------------------------------------------------------
(* Loads *)

\* What a load of `b' makes of the row `old' of `c'.
Makes(row, old, b, c) ==
    /\ row \in Row /\ row.parent \in {old.parent, None} \cup DOMAIN b
    /\ row.origin = old.origin /\ row.kept = old.kept
    /\ Leaves(row, old) /\ Says(row, b, c)

LEMMA WantedMakes ==
    ASSUME NEW b \in Bundles, NEW c \in DOMAIN b, NEW row \in Row, row.origin = "bundle"
    PROVE  Makes(Wanted(row, b, c), row, b, c)
<1> DEFINE name == IF "name" \in row.kept THEN row.name ELSE b[c].name
           parent == IF "parent" \in row.kept THEN row.parent ELSE b[c].parent
           active == IF "active" \in row.kept THEN row.active ELSE TRUE
           new == [row EXCEPT !.name = name, !.parent = parent, !.active = active]
<1>1. /\ DOMAIN b \subseteq Codes /\ b[c].name \in NameOf[c]
      /\ b[c].parent \in DOMAIN b \cup {None}
  BY PlacesAssumption
<1>2. name \in AllNames
  BY <1>1 DEF Row, AllNames
<1>3. parent \in Codes \cup {None} /\ parent \in {row.parent, None} \cup DOMAIN b
  BY <1>1 DEF Row
<1>4. active \in BOOLEAN
  BY DEF Row
<1>6. /\ "name" \in row.kept => name = row.name
      /\ "parent" \in row.kept => parent = row.parent
      /\ "active" \in row.kept => active = row.active
      /\ "name" \notin row.kept => name = b[c].name
      /\ "parent" \notin row.kept => parent = b[c].parent
      /\ "active" \notin row.kept => active
  OBVIOUS
<1>7. Wanted(row, b, c) = new
  BY DEF Wanted
<1> HIDE DEF name, parent, active
<1>8. /\ new \in Row /\ new.name = name /\ new.parent = parent /\ new.active = active
      /\ new.origin = row.origin /\ new.kept = row.kept
  BY <1>2, <1>3, <1>4 DEF Row, AllNames
<1> HIDE DEF new
<1>9. Leaves(new, row)
  BY <1>6, <1>8 DEF Leaves
<1>10. Says(new, b, c)
  BY <1>6, <1>8 DEF Says
<1> QED
  BY <1>3, <1>7, <1>8, <1>9, <1>10 DEF Makes

LEMMA RetiredMakes ==
    ASSUME NEW b \in Bundles, NEW c \in Codes \ DOMAIN b, NEW row \in Row,
           row.origin = "bundle", "active" \notin row.kept
    PROVE  Makes([row EXCEPT !.active = FALSE], row, b, c)
<1> DEFINE new == [row EXCEPT !.active = FALSE]
<1>1. /\ new \in Row /\ new.name = row.name /\ new.parent = row.parent /\ new.active = FALSE
      /\ new.origin = row.origin /\ new.kept = row.kept
  BY DEF Row
<1> HIDE DEF new
<1>2. Leaves(new, row)
  BY <1>1 DEF Leaves
<1>3. Says(new, b, c)
  BY <1>1 DEF Says
<1>4. Makes(new, row, b, c)
  BY <1>1, <1>2, <1>3 DEF Makes
<1> QED
  BY <1>4 DEF new

\* The rows a load of `b' wants, and how they compare with those there are.
Wants(t, b) ==
    /\ DOMAIN t = Codes
    /\ Rows(t) = Rows(node) \cup DOMAIN b
    /\ \A c \in Rows(node) : Makes(t[c], node[c], b, c)
    /\ \A c \in DOMAIN b \ Rows(node) :
          /\ t[c] \in Row /\ t[c].parent \in DOMAIN b \cup {None}
          /\ Says(t[c], b, c)

LEMMA LoadedWants ==
    ASSUME WellFormed(node), NEW b \in Bundles
    PROVE  Wants(Loaded(node, b), b)
<1> DEFINE t == Loaded(node, b)
<1>1. DOMAIN b \subseteq Codes
  BY PlacesAssumption
<1>2. DOMAIN t = Codes
  BY DEF Loaded
<1>3. \A c \in Codes : c \in Retired(node, b) => t[c] = [node[c] EXCEPT !.active = FALSE]
  BY DEF Loaded
<1>4. \A c \in Codes \ DOMAIN b : c \notin Retired(node, b) => t[c] = node[c]
  BY DEF Loaded
<1>5. \A c \in DOMAIN b :
        /\ node[c] = None => t[c] = NewRow(b[c].name, b[c].parent, "bundle")
        /\ node[c] # None /\ node[c].origin # "bundle" => t[c] = node[c]
        /\ node[c] # None /\ node[c].origin = "bundle" => t[c] = Wanted(node[c], b, c)
  BY <1>1 DEF Loaded, Retired
<1> HIDE DEF t
<1>6. ASSUME NEW c \in Rows(node)
      PROVE  Makes(t[c], node[c], b, c)
  <2>1. c \in Codes /\ node[c] \in Row /\ node[c] # None
    BY <1>6 DEF WellFormed, Rows
  <2>2. CASE c \in Retired(node, b)
    <3>1. c \notin DOMAIN b /\ node[c].origin = "bundle" /\ "active" \notin node[c].kept
      BY <2>2 DEF Retired
    <3>2. Makes([node[c] EXCEPT !.active = FALSE], node[c], b, c)
      BY <2>1, <3>1, RetiredMakes
    <3>3. t[c] = [node[c] EXCEPT !.active = FALSE]
      BY <1>3, <2>1, <2>2
    <3> QED
      BY <3>2, <3>3, Zenon
  <2>3. CASE c \notin DOMAIN b /\ c \notin Retired(node, b)
    <3>1. t[c] = node[c]
      BY <1>4, <2>1, <2>3
    <3>2. node[c].origin = "bundle" => "active" \in node[c].kept \/ ~node[c].active
      BY <2>1, <2>3, <1>6 DEF Retired
    <3> QED
      BY <2>1, <2>3, <3>1, <3>2 DEF Makes, Leaves, Says
  <2>4. CASE c \in DOMAIN b /\ node[c].origin # "bundle"
    <3>1. t[c] = node[c]
      BY <1>5, <2>1, <2>4
    <3> QED
      BY <2>1, <2>4, <3>1 DEF Makes, Leaves, Says
  <2>5. CASE c \in DOMAIN b /\ node[c].origin = "bundle"
    <3>1. t[c] = Wanted(node[c], b, c)
      BY <1>5, <2>1, <2>5
    <3> QED
      BY <2>1, <2>5, <3>1, WantedMakes
  <2> QED
    BY <2>2, <2>3, <2>4, <2>5
<1>7. ASSUME NEW c \in DOMAIN b \ Rows(node)
      PROVE  /\ t[c] \in Row /\ t[c].parent \in DOMAIN b \cup {None}
             /\ Says(t[c], b, c)
  <2>1. c \in Codes /\ node[c] = None
    BY <1>1, <1>7 DEF Rows
  <2>2. t[c] = NewRow(b[c].name, b[c].parent, "bundle")
    BY <1>5, <1>7, <2>1
  <2>3. b[c].name \in AllNames /\ b[c].parent \in DOMAIN b \cup {None}
    BY <1>7, <2>1, PlacesAssumption DEF AllNames
  <2>4. <<>> \in Seq(Codes) /\ <<>> \in Seq(AllNames)
    OBVIOUS
  <2>5. /\ t[c] \in Row /\ t[c].name = b[c].name /\ t[c].parent = b[c].parent
        /\ t[c].active = TRUE
    BY <1>1, <2>2, <2>3, <2>4 DEF NewRow, Row, Origins, AllNames
  <2> QED
    BY <1>7, <2>3, <2>5 DEF Says
<1>8. Rows(t) = Rows(node) \cup DOMAIN b
  <2>1. \A c \in Rows(node) : t[c] # None
    BY <1>6, RowAssumption DEF Makes
  <2>2. \A c \in DOMAIN b \ Rows(node) : t[c] # None
    BY <1>7, RowAssumption
  <2>3. \A c \in Codes \ (DOMAIN b \cup Rows(node)) : t[c] = None
    <3>1. Retired(node, b) \subseteq Rows(node)
      BY DEF Retired
    <3> QED
      BY <1>4, <3>1 DEF Rows
  <2> QED
    BY <1>1, <2>1, <2>2, <2>3 DEF Rows
<1>9. Wants(t, b)
  BY <1>2, <1>6, <1>7, <1>8 DEF Wants
<1> QED
  BY <1>9 DEF t

\* A load's request on the table `t' it wants.
LEMMA LoadHolds ==
    ASSUME Inv, NEW b \in Bundles, NEW t, Wants(t, b),
           NEW S, S \subseteq Rows(t), \A c \in Rows(t) \ S : t[c] = node[c],
           NEW all, \A d \in S : all[d] \in Row /\ Alike(all[d], t[d]),
           NEW at, at # None => at \in At,
           NEW tx, TxIs(tx, all, S, Rows(t) \ Rows(node), at, b, {})
    PROVE  Holds(tx)
<1>1. WellFormed(node) /\ b # None /\ DOMAIN b \subseteq Codes /\ Rows(t) \subseteq Codes
  BY PlacesAssumption DEF Inv, Rows
<1>2. Rows(t) = Rows(node) \cup DOMAIN b /\ Rows(t) \ Rows(node) \subseteq S
  BY DEF Wants, Rows
<1>3. \A d \in S : tx.rows[d] \in Row /\ Alike(tx.rows[d], t[d])
  BY DEF TxIs
<1>4. DOMAIN tx.rows = S /\ tx.new = Rows(t) \ Rows(node) /\ tx.load = b
  BY DEF TxIs
<1>5. \A d \in Rows(t) : t[d].parent \in Rows(node) \cup DOMAIN b \cup {None} /\ Says(t[d], b, d)
  BY <1>1, <1>2 DEF Wants, Makes, WellFormed
<1>6. IsTx(tx)
  <2>1. \A d \in S : tx.rows[d].parent \in Rows(node) \cup S \cup {None}
    BY <1>2, <1>3, <1>5 DEF Alike
  <2> QED
    BY <1>1, <1>2, <1>3, <1>4, <2>1 DEF IsTx, TxIs
<1>7. Founded(tx)
  <2>1. ASSUME NEW d \in S \ tx.new
        PROVE  /\ d \in Rows(node) /\ tx.rows[d].origin = node[d].origin
               /\ node[d].kept \subseteq tx.rows[d].kept
    <3>1. d \in Rows(node)
      BY <1>4, <2>1
    <3>2. t[d].origin = node[d].origin /\ t[d].kept = node[d].kept
      BY <3>1 DEF Wants, Makes
    <3> QED
      BY <1>3, <2>1, <3>1, <3>2 DEF Alike
  <2> QED
    BY <1>4, <2>1 DEF Founded
<1>8. ByLoad(tx, b)
  <2>1. \A d \in S : Says(tx.rows[d], b, d)
    BY <1>3, <1>5 DEF Says, Alike
  <2>2. ASSUME NEW d \in S \ tx.new PROVE Leaves(tx.rows[d], node[d])
    <3>1. Leaves(t[d], node[d])
      BY <1>4, <2>2 DEF Wants, Makes
    <3> QED
      BY <1>3, <2>2, <3>1 DEF Leaves, Alike
  <2>3. ASSUME NEW d \in Codes \ S
        PROVE  /\ d \in DOMAIN b => d \in Rows(node)
               /\ d \in Rows(node) => Says(node[d], b, d)
    BY <1>2, <1>5, <2>3
  <2> QED
    BY <1>4, <2>1, <2>2, <2>3 DEF ByLoad
<1> QED
  BY <1>1, <1>4, <1>6, <1>7, <1>8 DEF Holds

LEMMA LoadBegins ==
    ASSUME Inv, NEW s \in Sessions, NEW b \in Bundles, NEW force \in BOOLEAN, Load(s, b, force)
    PROVE  Inv'
<1> DEFINE t == Loaded(node, b)
           changed == {c \in Rows(t) : t[c] # node[c]}
           derived == Stale(t)
           all == Recompute(t, derived)
           S == changed \cup derived
           at == SpotRefreshed(all, S)
           new == Rows(t) \ Rows(node)
<1>1. WellFormed(node) /\ Wants(t, b)
  BY LoadedWants DEF Inv
<1>2. /\ derived \subseteq Rows(t) /\ S \subseteq Rows(t)
      /\ \A c \in Rows(t) \ S : t[c] = node[c]
  BY DEF Stale
<1>3. Begin(s, [Tx(all, S, new) EXCEPT !.spot = at, !.load = b])
  BY DEF Load
<1> HIDE DEF t
<1>4. WellFormed(t)
  <2>1. \A c \in Rows(t) : t[c] \in Row /\ t[c].parent \in Rows(t) \cup {None}
    BY <1>1 DEF Wants, Makes, WellFormed
  <2> QED
    BY <1>1, <2>1 DEF WellFormed, Wants
<1> HIDE DEF changed, derived
<1>5. WorkedOut(all, t, derived) /\ WellFormed(all) /\ Rows(all) = Rows(t)
  BY <1>2, <1>4, RecomputeIs
<1>6. \A d \in S : all[d] \in Row /\ Alike(all[d], t[d])
  <2>1. \A d \in Rows(t) \ derived : all[d] = t[d] /\ t[d] \in Row
    BY <1>4, <1>5 DEF WorkedOut, WellFormed, Rows
  <2> QED
    BY <1>2, <1>5, <2>1 DEF WorkedOut, Alike
<1> HIDE DEF all
<1>7. at # None => at \in At
  BY <1>2, <1>5, SpotIs DEF SpotRefreshed
<1> HIDE DEF at
<1> DEFINE tx == [Tx(all, S, new) EXCEPT !.spot = at, !.load = b]
<1>8. TxIs(tx, all, S, new, at, b, {})
  BY TxForms
<1>9. Begin(s, tx)
  BY <1>3
<1> HIDE DEF tx, S
<1>10. Holds(tx) /\ tx.load # None
  <2>1. Holds(tx)
    BY <1>1, <1>2, <1>6, <1>7, <1>8, LoadHolds
  <2> QED
    BY <1>8, <2>1, PlacesAssumption DEF TxIs
<1> QED
  BY <1>9, <1>10, Begins

-----------------------------------------------------------------------------
(* Commits *)

\* A row a person makes of one that says what a bundle says, says so too.
LEMMA MadeSays ==
    ASSUME NEW row, NEW old, MadeFrom(row, old), row.origin = old.origin,
           old.kept \subseteq row.kept, NEW b, NEW c, Says(old, b, c)
    PROVE  Says(row, b, c)
BY DEF MadeFrom, Says

LEMMA SourceSays ==
    FollowsSource <=> source # None => /\ DOMAIN source \subseteq Rows(node)
                                       /\ \A c \in Rows(node) : Says(node[c], source, c)
BY DEF FollowsSource, Says

LEMMA LostIs ==
    /\ DOMAIN Lost = {"rows", "new", "spot", "load", "redone", "clean", "alone"}
    /\ Lost.clean = FALSE
BY DEF Lost, Tx

\* The rows after a commit.
LEMMA RowsAfter ==
    ASSUME Inv, NEW s \in Sessions, Commit(s)
    PROVE  /\ Holds(work[s]) /\ DOMAIN node' = Codes
           /\ \A c \in DOMAIN work[s].rows : node'[c] = work[s].rows[c]
           /\ \A c \in Codes \ DOMAIN work[s].rows : node'[c] = node[c]
           /\ Rows(node') = Rows(node) \cup DOMAIN work[s].rows
           /\ WellFormed(node')
<1> DEFINE tx == work[s]
<1>1. Holds(tx) /\ WellFormed(node)
  BY DEF Inv, MayCommit, Commit
<1>2. node' = [c \in Codes |-> IF c \in DOMAIN tx.rows THEN tx.rows[c] ELSE node[c]]
  BY DEF Commit
<1>3. DOMAIN tx.rows \subseteq Codes
  BY <1>1 DEF Holds, IsTx
<1> HIDE DEF tx
<1>4. /\ DOMAIN node' = Codes
      /\ \A c \in DOMAIN tx.rows : node'[c] = tx.rows[c]
      /\ \A c \in Codes \ DOMAIN tx.rows : node'[c] = node[c]
  BY <1>2, <1>3
<1>5. \A c \in DOMAIN tx.rows :
         /\ tx.rows[c] \in Row /\ tx.rows[c] # None
         /\ tx.rows[c].parent \in Rows(node) \cup DOMAIN tx.rows \cup {None}
  BY <1>1, RowAssumption DEF Holds, IsTx
<1>6. Rows(node') = Rows(node) \cup DOMAIN tx.rows
  BY <1>3, <1>4, <1>5 DEF Rows
<1>7. WellFormed(node')
  <2>1. ASSUME NEW c \in Rows(node')
        PROVE  node'[c] \in Row /\ node'[c].parent \in Rows(node') \cup {None}
    <3>1. CASE c \in DOMAIN tx.rows
      BY <1>4, <1>5, <1>6, <3>1
    <3>2. CASE c \notin DOMAIN tx.rows
      <4>1. c \in Rows(node) /\ node'[c] = node[c]
        BY <1>4, <1>6, <2>1, <3>2 DEF Rows
      <4> QED
        BY <1>1, <1>6, <4>1 DEF WellFormed
    <3> QED
      BY <3>1, <3>2
  <2> QED
    BY <1>4, <2>1 DEF WellFormed
<1> QED
  BY <1>1, <1>4, <1>6, <1>7 DEF tx

\* Whatever commits, a row that said what `b' says does so after it, unless another bundle wrote it.
LEMMA StillSays ==
    ASSUME Inv, NEW s \in Sessions, Commit(s), NEW b, work[s].load = None \/ work[s].load = b,
           NEW c \in Codes, c \in Rows(node) => Says(node[c], b, c)
    PROVE  c \in Rows(node') => Says(node'[c], b, c)
<1> DEFINE tx == work[s]
<1>1. Holds(tx) /\ (c \in DOMAIN tx.rows => node'[c] = tx.rows[c])
  BY RowsAfter
<1>2. tx.load = None \/ tx.load = b
  OBVIOUS
<1>3. CASE c \notin DOMAIN tx.rows
  <2>1. node'[c] = node[c]
    BY <1>3, RowsAfter
  <2> QED
    BY <2>1 DEF Rows
<1> HIDE DEF tx
<1>4. CASE c \in DOMAIN tx.rows /\ tx.load # None
  <2>1. ByLoad(tx, b)
    BY <1>1, <1>2, <1>4 DEF Holds
  <2> QED
    BY <1>1, <1>4, <2>1 DEF ByLoad
<1>5. CASE c \in tx.new /\ tx.load = None
  <2>1. c \in DOMAIN tx.rows /\ tx.rows[c].origin = "overlay"
    BY <1>1, <1>5 DEF Holds, IsTx, ByHand
  <2> QED
    BY <1>1, <2>1 DEF Says
<1>6. CASE c \in DOMAIN tx.rows \ tx.new /\ tx.load = None
  <2>1. /\ c \in Rows(node) /\ MadeFrom(tx.rows[c], node[c])
        /\ tx.rows[c].origin = node[c].origin /\ node[c].kept \subseteq tx.rows[c].kept
    BY <1>1, <1>6 DEF Holds, Founded, ByHand
  <2>2. Says(tx.rows[c], b, c)
    BY <2>1, MadeSays
  <2> QED
    BY <1>1, <1>6, <2>2
<1> QED
  BY <1>3, <1>4, <1>5, <1>6

\* Who is left of the other requests: those that write no row this one wrote.
LEMMA OthersAfter ==
    ASSUME Inv, NEW s \in Sessions, Commit(s), NEW u \in Sessions, ~Idle(u)'
    PROVE  /\ u # s /\ ~Idle(u)
           /\ "clean" \in DOMAIN work'[u]
           /\ work'[u].clean =>
                 /\ MayCommit(u) /\ ~Collide(work[u], work[s])
                 /\ work'[u] = [work[u] EXCEPT !.alone = FALSE]
<1>1. work'[u] = IF u = s \/ Idle(u) THEN None
                 ELSE IF Collide(work[u], work[s]) THEN Lost
                 ELSE [work[u] EXCEPT !.alone = FALSE]
  BY DEF Commit
<1>2. u # s /\ ~Idle(u)
  BY <1>1 DEF Idle
<1>3. "clean" \in DOMAIN work[u]
  BY <1>2 DEF Inv
<1>4. CASE Collide(work[u], work[s])
  BY <1>1, <1>2, <1>4, LostIs
<1>5. CASE ~Collide(work[u], work[s])
  <2> DEFINE v == work[u]
             w == [v EXCEPT !.alone = FALSE]
  <2>1. "clean" \in DOMAIN w /\ w.clean = v.clean
    BY <1>3
  <2>2. work'[u] = w
    BY <1>1, <1>2, <1>5
  <2> HIDE DEF w
  <2>3. work'[u].clean => v.clean
    BY <2>1, <2>2
  <2> QED
    BY <1>2, <1>5, <2>1, <2>2, <2>3 DEF MayCommit, w
<1> QED
  BY <1>2, <1>4, <1>5

\* What holds of a request that is left goes on holding.
LEMMA OthersHold ==
    ASSUME Inv, NEW s \in Sessions, Commit(s), NEW v, Holds(v), ~Collide(v, work[s]),
           NEW w, w = [v EXCEPT !.alone = FALSE]
    PROVE  Holds(w)'
<1> DEFINE tx == work[s]
           Wrote == DOMAIN tx.rows
<1>1. Holds(tx) /\ Rows(node') = Rows(node) \cup Wrote
  BY RowsAfter
<1>2. \A c \in Codes \ Wrote : node'[c] = node[c]
  BY RowsAfter
<1>3. /\ DOMAIN w = DOMAIN v /\ w.rows = v.rows /\ w.new = v.new /\ w.spot = v.spot
      /\ w.load = v.load /\ w.redone = v.redone /\ w.alone = FALSE
  BY DEF Holds, IsTx
<1>4. DOMAIN v.rows \cap Wrote = {} /\ DOMAIN v.rows \subseteq Codes
  BY DEF Collide, Holds, IsTx
<1>5. \A c \in DOMAIN v.rows : node'[c] = node[c] /\ (c \in Rows(node') <=> c \in Rows(node))
  BY <1>1, <1>2, <1>4
<1>6. IsTx(w)'
  <2>1. \A c \in DOMAIN v.rows : v.rows[c].parent \in Rows(node') \cup DOMAIN v.rows \cup {None}
    BY <1>1 DEF Holds, IsTx
  <2> HIDE DEF tx
  <2> QED
    BY <1>3, <2>1 DEF Holds, IsTx
<1>7. Founded(w)'
  <2>1. DOMAIN v.rows \ v.new \subseteq DOMAIN v.rows
    OBVIOUS
  <2> QED
    BY <1>3, <1>5, <2>1 DEF Holds, Founded
<1>8. CASE v.load = None
  <2>1. ByHand(w)'
    BY <1>3, <1>5, <1>8 DEF Holds, ByHand
  <2> QED
    BY <1>3, <1>6, <1>7, <1>8, <2>1 DEF Holds
<1>9. CASE v.load # None
  <2>1. ByLoad(v, v.load)
    BY <1>9 DEF Holds
  <2>2. tx.load = None \/ tx.load = v.load
    BY <1>9 DEF Collide
  <2>3. ASSUME NEW c \in Codes \ DOMAIN v.rows
        PROVE  /\ c \in DOMAIN v.load => c \in Rows(node')
               /\ c \in Rows(node') => Says(node'[c], v.load, c)
    <3>1. /\ c \in DOMAIN v.load => c \in Rows(node)
          /\ c \in Rows(node) => Says(node[c], v.load, c)
      BY <2>1, <2>3 DEF ByLoad
    <3>2. c \in Rows(node') => Says(node'[c], v.load, c)
      BY <2>2, <2>3, <3>1, StillSays
    <3> QED
      BY <1>1, <3>1, <3>2
  <2>4. ByLoad(w, v.load)'
    <3>1. \A c \in DOMAIN v.rows : Says(v.rows[c], v.load, c)
      BY <2>1 DEF ByLoad
    <3>2. \A c \in DOMAIN v.rows \ v.new : Leaves(v.rows[c], node'[c])
      BY <1>5, <2>1 DEF ByLoad
    <3> QED
      BY <1>3, <2>3, <3>1, <3>2 DEF ByLoad
  <2> QED
    BY <1>3, <1>6, <1>7, <1>9, <2>4 DEF Holds
<1> QED
  BY <1>8, <1>9

LEMMA CommitKeeps ==
    ASSUME Inv, NEW s \in Sessions, Commit(s)
    PROVE  Inv'
<1> DEFINE tx == work[s]
<1>1. Holds(tx) /\ Rows(node') = Rows(node) \cup DOMAIN tx.rows /\ WellFormed(node')
  BY RowsAfter
<1>2. /\ spot' = IF tx.spot = None THEN spot ELSE tx.spot
      /\ source' = IF tx.load = None THEN source ELSE tx.load
      /\ raced' = ((raced /\ (tx.load = None \/ ~tx.alone)) \/ ~tx.alone)
      /\ redone' = redone \cup tx.redone
                        \cup IF tx.alone THEN {} ELSE DOMAIN tx.rows \cup {spot'.place}
      /\ edits' = IF tx.load = None THEN edits + 1 ELSE edits
  BY DEF Commit
<1>3. DOMAIN work' = Sessions
  BY DEF Commit
<1>4. \A u \in Sessions : ~Idle(u)' => "clean" \in DOMAIN work'[u]
  BY OthersAfter
<1>5. ASSUME NEW u \in Sessions, MayCommit(u)'
      PROVE  Holds(work[u])'
  <2>1. /\ MayCommit(u) /\ ~Collide(work[u], work[s])
        /\ work'[u] = [work[u] EXCEPT !.alone = FALSE]
    BY <1>5, OthersAfter DEF MayCommit
  <2>2. Holds(work[u])
    BY <2>1 DEF Inv
  <2>3. ASSUME NEW w, w = [work[u] EXCEPT !.alone = FALSE] PROVE Holds(w)'
    BY <2>1, <2>2, <2>3, OthersHold
  <2> QED
    BY <2>1, <2>3
<1>6. Editing' \subseteq Editing \ {s}
  <2>1. ASSUME NEW u \in Sessions, MayCommit(u)', work'[u].load = None
        PROVE  u \in Editing \ {s}
    <3>1. /\ MayCommit(u) /\ u # s
          /\ work'[u] = [work[u] EXCEPT !.alone = FALSE]
      BY <2>1, OthersAfter DEF MayCommit
    <3>2. Holds(work[u])
      BY <3>1 DEF Inv
    <3>3. work'[u].load = work[u].load
      BY <3>1, <3>2 DEF Holds, IsTx
    <3> QED
      BY <2>1, <3>1, <3>3 DEF Editing
  <2> QED
    BY <2>1 DEF Editing
<1>7. edits \in Nat /\ MaxEdits \in Nat
  BY PlacesAssumption DEF Inv, TypeOK
<1>8. EditsLeft' /\ edits' \in 0..MaxEdits
  <2>1. IsFiniteSet(Editing) /\ Cardinality(Editing) \in Nat
    BY Counted
  <2>2. IsFiniteSet(Editing \ {s}) /\
        Cardinality(Editing \ {s}) =
           IF s \in Editing THEN Cardinality(Editing) - 1 ELSE Cardinality(Editing)
    BY <2>1, FS_RemoveElement
  <2>3. IsFiniteSet(Editing') /\ Cardinality(Editing') <= Cardinality(Editing \ {s})
    BY <1>6, <2>2, FS_Subset
  <2>4. Cardinality(Editing') \in Nat
    BY <2>3, FS_CardinalityType
  <2>5. edits + Cardinality(Editing) <= MaxEdits
    BY DEF Inv, EditsLeft
  <2>6. CASE tx.load = None
    <3>1. s \in Editing
      BY <2>6 DEF Editing, MayCommit, Commit
    <3>2. edits' + Cardinality(Editing') <= MaxEdits /\ edits' = edits + 1
      BY <1>2, <1>7, <2>1, <2>2, <2>3, <2>4, <2>5, <2>6, <3>1
    <3> QED
      BY <1>7, <2>4, <3>2 DEF EditsLeft
  <2>7. CASE tx.load # None
    <3>1. Cardinality(Editing \ {s}) <= Cardinality(Editing)
      BY <2>1, <2>2
    <3>2. edits' + Cardinality(Editing') <= MaxEdits /\ edits' = edits
      BY <1>2, <1>7, <2>1, <2>2, <2>3, <2>4, <2>5, <2>7, <3>1
    <3> QED
      BY <1>7, <2>4, <3>2 DEF EditsLeft
  <2> QED
    BY <2>6, <2>7
<1>9. TypeOK'
  <2>1. \A c \in Codes : node'[c] # None => node'[c] \in Row
    BY <1>1 DEF WellFormed, Rows
  <2>2. /\ source' \in Bundles \cup {None}
        /\ spot' \in At
    BY <1>1, <1>2 DEF Inv, TypeOK, Holds, IsTx
  <2>3. raced' \in BOOLEAN
    BY <1>1, <1>2 DEF Holds, IsTx
  <2>4. redone' \subseteq Codes \cup {None}
    <3>1. spot'.place \in Codes \cup {None}
      BY <2>2 DEF At
    <3>2. tx.redone \subseteq Codes /\ DOMAIN tx.rows \subseteq Codes
      BY <1>1 DEF Holds, IsTx
    <3>3. redone \subseteq Codes \cup {None}
      BY DEF Inv, TypeOK
    <3> QED
      BY <1>2, <3>1, <3>2, <3>3
  <2> QED
    BY <1>8, <2>1, <2>2, <2>3, <2>4 DEF TypeOK
<1>10. FollowsSource'
  <2> SUFFICES ASSUME source' # None
               PROVE  /\ DOMAIN source' \subseteq Rows(node')
                      /\ \A c \in Rows(node') : Says(node'[c], source', c)
    BY DEF FollowsSource, Says
  <2>1. /\ tx.load = None \/ tx.load = source'
        /\ DOMAIN source' \subseteq Rows(node')
        /\ \A c \in Codes \ DOMAIN tx.rows : c \in Rows(node) => Says(node[c], source', c)
        /\ tx.load = None => \A c \in Rows(node) : Says(node[c], source', c)
    <3>1. CASE tx.load = None
      BY <1>1, <1>2, <3>1, SourceSays DEF Inv
    <3>2. CASE tx.load # None
      <4>1. ByLoad(tx, source') /\ source' = tx.load
        BY <1>1, <1>2, <3>2 DEF Holds
      <4>2. source' \in Bundles
        BY <1>1, <3>2, <4>1 DEF Holds, IsTx
      <4>3. DOMAIN source' \subseteq Codes
        BY <4>2, PlacesAssumption
      <4> QED
        BY <1>1, <3>2, <4>1, <4>3 DEF ByLoad
    <3> QED
      BY <3>1, <3>2
  <2>2. ASSUME NEW c \in Rows(node')
        PROVE  Says(node'[c], source', c)
    <3>1. c \in Codes
      BY DEF Rows
    <3>2. CASE c \in DOMAIN tx.rows /\ tx.load # None
      <4>1. ByLoad(tx, source') /\ node'[c] = tx.rows[c]
        BY <1>1, <2>1, <3>2, RowsAfter DEF Holds
      <4> QED
        BY <3>2, <4>1 DEF ByLoad
    <3>3. CASE c \notin DOMAIN tx.rows \/ tx.load = None
      <4>1. c \in Rows(node) => Says(node[c], source', c)
        BY <2>1, <3>1, <3>3
      <4> QED
        BY <2>1, <3>1, <4>1, StillSays
    <3> QED
      BY <3>2, <3>3
  <2> QED
    BY <2>1, <2>2
<1> QED
  BY <1>1, <1>3, <1>4, <1>5, <1>8, <1>9, <1>10 DEF Inv

LEMMA AbortKeeps ==
    ASSUME Inv, NEW s \in Sessions, Abort(s)
    PROVE  Inv'
<1>1. /\ UNCHANGED <<node, source, spot, edits, raced, redone>>
      /\ work' = [work EXCEPT ![s] = None] /\ DOMAIN work = Sessions
  BY DEF Abort, Inv
<1>2. /\ DOMAIN work' = Sessions /\ work'[s] = None
      /\ \A u \in Sessions \ {s} : work'[u] = work[u]
  BY <1>1
<1>3. TypeOK' /\ WellFormed(node)' /\ FollowsSource'
  BY <1>1 DEF Inv, TypeOK, WellFormed, Rows, FollowsSource
<1>4. ASSUME NEW u \in Sessions, MayCommit(u)'
      PROVE  Holds(work[u])'
  <2>1. Holds(work'[u])
    BY <1>2, <1>4 DEF Inv, MayCommit, Idle
  <2>2. ASSUME NEW v, v = work'[u] PROVE Holds(v)'
    BY <1>1, <2>1, <2>2, HoldsOn
  <2> QED
    BY <2>2
<1>5. EditsLeft'
  <2>1. Editing' \subseteq Editing
    BY <1>2 DEF Editing, MayCommit, Idle
  <2>2. IsFiniteSet(Editing') /\ Cardinality(Editing') <= Cardinality(Editing)
    BY <2>1, Counted, FS_Subset
  <2>3. Cardinality(Editing') \in Nat
    BY <2>2, FS_CardinalityType
  <2>4. edits \in Nat /\ MaxEdits \in Nat
    BY PlacesAssumption DEF Inv, TypeOK
  <2> QED
    BY <1>1, <2>2, <2>3, <2>4, Counted DEF Inv, EditsLeft
<1>6. \A u \in Sessions : ~Idle(u)' => "clean" \in DOMAIN work'[u]
  BY <1>2 DEF Inv, Idle
<1> QED
  BY <1>2, <1>3, <1>4, <1>5, <1>6 DEF Inv

-----------------------------------------------------------------------------
(* The theorems *)

LEMMA Starts ==
    ASSUME Init
    PROVE  Inv
<1>1. /\ node = [c \in Codes |-> None] /\ source = None /\ edits = 0 /\ raced = FALSE
      /\ spot = [place |-> None, city |-> None] /\ work = [s \in Sessions |-> None]
      /\ redone = {}
  BY DEF Init
<1>2. Rows(node) = {}
  BY <1>1 DEF Rows
<1>3. TypeOK /\ WellFormed(node) /\ FollowsSource
  <2>1. WellFormed(node) /\ FollowsSource
    BY <1>1, <1>2 DEF WellFormed, FollowsSource
  <2>2. \A c \in Codes : node[c] = None
    BY <1>1
  <2>3. spot \in At
    BY <1>1 DEF At
  <2>4. edits \in 0..MaxEdits
    <3>1. MaxEdits \in Nat /\ edits = 0
      BY <1>1, PlacesAssumption
    <3> QED
      BY <3>1
  <2>5. /\ raced \in BOOLEAN /\ source \in Bundles \cup {None}
        /\ redone \subseteq Codes \cup {None}
    BY <1>1
  <2> QED
    BY <2>1, <2>2, <2>3, <2>4, <2>5 DEF TypeOK
<1>4. \A s \in Sessions : Idle(s)
  BY <1>1 DEF Idle
<1>5. EditsLeft
  <2>1. Editing = {}
    BY <1>4 DEF Editing, MayCommit
  <2>2. Cardinality(Editing) = 0
    BY <2>1, FS_EmptySet
  <2> QED
    BY <1>1, <2>2, PlacesAssumption DEF EditsLeft
<1> QED
  BY <1>1, <1>3, <1>4, <1>5 DEF Inv, MayCommit

\* What the proofs rest on holds in every state: a request that may still commit decided from
\* the rows that are there.
THEOREM Invariance == Spec => []Inv
<1>1. Init => Inv
  BY Starts
<1>2. Inv /\ [Next]_vars => Inv'
  <2> SUFFICES ASSUME Inv, [Next]_vars
               PROVE  Inv'
    OBVIOUS
  <2>1. ASSUME NEW s \in Sessions, NEW c \in Codes, NEW name \in NameOf[c], Rename(s, c, name)
        PROVE  Inv'
    BY <2>1, RenameBegins
  <2>2. ASSUME NEW s \in Sessions, NEW c \in Codes, NEW name \in NameOf[c],
               NEW parent \in Codes \cup {None}, Add(s, c, name, parent)
        PROVE  Inv'
    BY <2>2, AddBegins
  <2>3. ASSUME NEW s \in Sessions, NEW c \in Codes, NEW parent \in Codes \cup {None},
               Move(s, c, parent)
        PROVE  Inv'
    BY <2>3, MoveBegins
  <2>4. ASSUME NEW s \in Sessions, NEW c \in Codes, NEW active \in BOOLEAN,
               Archive(s, c, active)
        PROVE  Inv'
    BY <2>4, ArchiveBegins
  <2>5. ASSUME NEW s \in Sessions, NEW c \in Codes, Settle(s, c)
        PROVE  Inv'
    BY <2>5, SettleBegins
  <2>6. ASSUME NEW s \in Sessions, NEW b \in Bundles, NEW force \in BOOLEAN, Load(s, b, force)
        PROVE  Inv'
    BY <2>6, LoadBegins
  <2>7. ASSUME NEW s \in Sessions, Commit(s)
        PROVE  Inv'
    BY <2>7, CommitKeeps
  <2>8. ASSUME NEW s \in Sessions, Abort(s)
        PROVE  Inv'
    BY <2>8, AbortKeeps
  <2>9. CASE UNCHANGED vars
    <3>1. UNCHANGED <<node, source, spot, work, edits, raced, redone>>
      BY <2>9 DEF vars
    <3>2. TypeOK' /\ WellFormed(node)' /\ FollowsSource' /\ DOMAIN work' = Sessions
      BY <3>1 DEF Inv, TypeOK, WellFormed, Rows, FollowsSource
    <3>3. EditsLeft'
      BY <3>1 DEF Inv, EditsLeft, Editing, MayCommit, Idle
    <3>4. \A u \in Sessions : ~Idle(u)' => "clean" \in DOMAIN work'[u]
      BY <3>1 DEF Inv, Idle
    <3>5. ASSUME NEW u \in Sessions, MayCommit(u)'
          PROVE  Holds(work[u])'
      <4>1. Holds(work'[u])
        BY <3>1, <3>5 DEF Inv, MayCommit, Idle
      <4>2. ASSUME NEW v, v = work'[u] PROVE Holds(v)'
        BY <3>1, <4>1, <4>2, HoldsOn
      <4> QED
        BY <4>2
    <3> QED
      BY <3>2, <3>3, <3>4, <3>5 DEF Inv
  <2> QED
    BY <2>1, <2>2, <2>3, <2>4, <2>5, <2>6, <2>7, <2>8, <2>9 DEF Next
<1> QED
  BY <1>1, <1>2, PTL DEF Spec

\* Every row, the located record and the histories have their shape.
THEOREM TypeCorrect == Spec => []TypeOK
<1>1. Inv => TypeOK
  BY DEF Inv
<1> QED
  BY <1>1, Invariance, PTL

\* Whatever people edit, add and retire before, during and between loads, every row the last load
\* was about reads as that bundle says, except what somebody took over (place_load.py).
THEOREM SourceFollowed == Spec => []FollowsSource
<1>1. Inv => FollowsSource
  BY DEF Inv
<1> QED
  BY <1>1, Invariance, PTL

\* A load that commits leaves what people decided as they decided it, also when they did so while
\* it was running (WHAT A LOAD MAY TOUCH, place_load.py).
THEOREM PeopleDecided == Spec => PeopleDecide
<1> DEFINE Left(c) ==
       /\ node'[c] # None /\ node'[c].origin = node[c].origin
       /\ LET fixed == IF node[c].origin = "overlay" THEN Carried ELSE node[c].kept
          IN /\ "name" \in fixed => node'[c].name = node[c].name
             /\ "parent" \in fixed => node'[c].parent = node[c].parent
             /\ "active" \in fixed => node'[c].active = node[c].active
<1>1. ASSUME Inv, NEW s \in Sessions, Loading(s), NEW c \in Rows(node)
      PROVE  Left(c)
  <2> DEFINE tx == work[s]
  <2>1. Commit(s) /\ tx.load # None
    BY <1>1 DEF Loading
  <2>2. Holds(tx) /\ c \in Rows(node') /\ c \in Codes
    BY <1>1, <2>1, RowsAfter DEF Rows
  <2>3. CASE c \notin DOMAIN tx.rows
    <3>1. node'[c] = node[c]
      BY <1>1, <2>1, <2>2, <2>3, RowsAfter
    <3> QED
      BY <2>2, <3>1 DEF Rows
  <2>4. CASE c \in DOMAIN tx.rows
    <3>1. c \notin tx.new
      BY <1>1, <2>1 DEF Commit, Rows
    <3>2. node'[c] = tx.rows[c]
      BY <1>1, <2>1, <2>4, RowsAfter
    <3> HIDE DEF tx
    <3>3. tx.rows[c].origin = node[c].origin /\ Leaves(tx.rows[c], node[c])
      BY <2>1, <2>2, <2>4, <3>1 DEF Holds, Founded, ByLoad
    <3> QED
      BY <2>2, <3>2, <3>3 DEF Leaves, Rows
  <2> QED
    BY <2>3, <2>4
<1>2. Inv /\ [Next]_vars =>
         [(\E s \in Sessions : Loading(s)) => \A c \in Rows(node) : Left(c)]_vars
  BY <1>1
<1> QED
  BY <1>2, Invariance, PTL DEF Spec, PeopleDecide

-----------------------------------------------------------------------------
(* What a place reads as follows the tree *)

\* `row' reads in the tree of `t' as it should for a row of `c'.
Reads(row, t, c) ==
    /\ row.up = Above(t, c)
    /\ row.index = <<row.name>> \o [i \in DOMAIN Above(t, c) |-> t[Above(t, c)[i]].name]

\* A row is stale when it does not read as it should.
LEMMA StaleIs ==
    ASSUME NEW t, WellFormed(t), NEW c \in Rows(t)
    PROVE  c \in Stale(t) <=> ~Reads(t[c], t, c)
<1> DEFINE up == Above(t, c)
           Index(row) == <<row.name>> \o [i \in DOMAIN up |-> t[up[i]].name]
<1>1. ASSUME NEW row \in Row, NEW u, NEW i
      PROVE  row = [row EXCEPT !.up = u, !.index = i] <=> row.up = u /\ row.index = i
  BY <1>1 DEF Row
<1>2. Derived(t[c], t, c) = [t[c] EXCEPT !.up = up, !.index = Index(t[c])]
  BY DEF Derived
<1>3. t[c] \in Row
  BY DEF WellFormed
<1>4. Reads(t[c], t, c) <=> t[c].up = up /\ t[c].index = Index(t[c])
  BY DEF Reads
<1> HIDE DEF up, Index
<1>5. t[c] = [t[c] EXCEPT !.up = up, !.index = Index(t[c])] <=>
         t[c].up = up /\ t[c].index = Index(t[c])
  BY <1>1, <1>3
<1>6. Reads(t[c], t, c) <=> t[c] = Derived(t[c], t, c)
  BY <1>2, <1>4, <1>5
<1> QED
  BY <1>6 DEF Stale

\* A row worked out in a table reads as it should there.
LEMMA DerivedReads ==
    ASSUME NEW t, NEW row \in Row, NEW c
    PROVE  Reads(Derived(row, t, c), t, c)
<1> DEFINE up == Above(t, c)
           Names == [i \in DOMAIN up |-> t[up[i]].name]
           index == <<row.name>> \o Names
           d == [row EXCEPT !.up = up, !.index = index]
<1>1. Derived(row, t, c) = d
  BY DEF Derived
<1> HIDE DEF up, Names
<1>2. d.up = up /\ d.index = <<d.name>> \o Names
  BY DEF Row
<1> HIDE DEF d
<1>3. Reads(d, t, c)
  BY <1>2 DEF Reads, up, Names
<1> QED
  BY <1>1, <1>3

\* The walk up from `key' is the same when the parents of places it does not meet differ.
LEMMA WalkBeside ==
    ASSUME NEW S, NEW key, NEW p, NEW q, NEW C, key \notin C,
           \A k \in DOMAIN p : p[k] \in S, \A k \in DOMAIN q : q[k] \in S,
           \A k : k \notin C => (k \in DOMAIN p <=> k \in DOMAIN q),
           \A k \in DOMAIN p : k \notin C => p[k] = q[k],
           ToSet(Chain(key, p)) \cap C = {}
    PROVE  Chain(key, q) = Chain(key, p)
<1> DEFINE u == CHOOSE up : Walks(key, p, up)
           w == CHOOSE up : Walks(key, q, up)
           Good == {n \in 0..MaxSteps :
                    u[n] \in Seq(S) /\ (ToSet(u[n]) \cap C # {} \/ w[n] = u[n])}
<1>1. Walks(key, p, u) /\ Walks(key, q, w) /\ MaxSteps \in Nat
  BY WalksExist, PlacesAssumption
<1>2. Chain(key, p) = u[MaxSteps] /\ Chain(key, q) = w[MaxSteps]
  BY ChainIsWalk
<1> HIDE DEF u, w
<1>3. 0 \in Good
  <2>1. 0 \in 0..MaxSteps /\ u[0] = <<>> /\ w[0] = <<>>
    BY <1>1 DEF Walks
  <2>2. <<>> \in Seq(S)
    OBVIOUS
  <2> QED
    BY <2>1, <2>2
<1>4. ASSUME NEW n \in 1..MaxSteps, n - 1 \in Good
      PROVE  n \in Good
  <2>1. u[n] = Further(key, p, u[n - 1], n) /\ w[n] = Further(key, q, w[n - 1], n)
    BY <1>1 DEF Walks
  <2>2. u[n - 1] \in Seq(S) /\ n \in 0..MaxSteps
    BY <1>1, <1>4
  <2>3. u[n] \in Seq(S)
    BY <2>1, <2>2, FurtherIn
  <2>4. CASE ToSet(u[n - 1]) \cap C # {}
    <3>1. PICK c \in C : c \in ToSet(u[n - 1])
      BY <2>4
    <3>2. \A x \in S : c \in ToSet(Append(u[n - 1], x))
      <4>1. PICK i \in DOMAIN u[n - 1] : c = u[n - 1][i]
        BY <3>1 DEF ToSet
      <4>2. ASSUME NEW x \in S
            PROVE  /\ i \in DOMAIN Append(u[n - 1], x)
                   /\ Append(u[n - 1], x)[i] = c
        BY <2>2, <4>1
      <4> QED
        BY <4>2 DEF ToSet
    <3>3. c \in ToSet(u[n])
      BY <2>1, <3>1, <3>2 DEF Further
    <3> QED
      BY <2>2, <2>3, <3>3
  <2>5. CASE ToSet(u[n - 1]) \cap C = {}
    <3> DEFINE out == u[n - 1]
               last == IF out = <<>> THEN key ELSE out[Len(out)]
    <3>1. w[n - 1] = out
      BY <1>4, <2>5
    <3>2. last \notin C
      <4>1. CASE out = <<>>
        BY <4>1
      <4>2. CASE out # <<>>
        <5>1. Len(out) \in DOMAIN out
          BY <2>2, <4>2
        <5>2. out[Len(out)] \in ToSet(out)
          BY <5>1 DEF ToSet
        <5> QED
          BY <2>5, <4>2, <5>2
      <4> QED
        BY <4>1, <4>2
    <3> HIDE DEF last
    <3>3. last \in DOMAIN p <=> last \in DOMAIN q
      BY <3>2
    <3>4. last \in DOMAIN p => p[last] = q[last]
      BY <3>2
    <3>5. Further(key, p, out, n) = Further(key, q, out, n)
      BY <3>3, <3>4 DEF Further, last
    <3> QED
      BY <2>1, <2>2, <2>3, <3>1, <3>5
  <2> QED
    BY <2>4, <2>5
<1> HIDE DEF Good
<1>5. MaxSteps \in Good
  BY <1>1, <1>3, <1>4, Induction
<1> QED
  BY <1>2, <1>5 DEF Good

\* So it is when only the parent of one place it does not meet differs.
LEMMA WalkAside ==
    ASSUME NEW S, NEW key, NEW p, NEW q, NEW c, c # key,
           \A k \in DOMAIN p : p[k] \in S, \A k \in DOMAIN q : q[k] \in S,
           \A k : k # c => (k \in DOMAIN p <=> k \in DOMAIN q),
           \A k \in DOMAIN p : k # c => p[k] = q[k],
           c \notin ToSet(Chain(key, p))
    PROVE  Chain(key, q) = Chain(key, p)
<1> DEFINE C == {c}
<1>1. /\ key \notin C /\ ToSet(Chain(key, p)) \cap C = {}
      /\ \A k : k \notin C => (k \in DOMAIN p <=> k \in DOMAIN q)
      /\ \A k \in DOMAIN p : k \notin C => p[k] = q[k]
  OBVIOUS
<1> HIDE DEF C
<1> QED
  BY <1>1, WalkBeside

\* A place reads the same in two tables with the same walk up from it and the same names on it.
LEMMA SameReads ==
    ASSUME NEW t, NEW q, NEW c, NEW row, Above(t, c) = Above(q, c), WellFormed(t),
           \A d \in ToSet(Above(t, c)) : t[d].name = q[d].name
    PROVE  Reads(row, t, c) <=> Reads(row, q, c)
<1> DEFINE up == Above(t, c)
<1>1. \A i \in DOMAIN up : t[up[i]].name = q[up[i]].name
  BY DEF ToSet
<1>2. [i \in DOMAIN up |-> t[up[i]].name] = [i \in DOMAIN up |-> q[up[i]].name]
  BY <1>1
<1> QED
  BY <1>2 DEF Reads

\* Once every stale row is worked out, nothing is stale.
LEMMA RecomputeReads ==
    ASSUME NEW t, WellFormed(t), NEW S, S \subseteq Rows(t), Stale(t) \subseteq S
    PROVE  Stale(Recompute(t, S)) = {}
<1> DEFINE all == Recompute(t, S)
<1>1. WorkedOut(all, t, S) /\ WellFormed(all) /\ Rows(all) = Rows(t)
  BY RecomputeIs
<1> HIDE DEF all
<1>2. \A c \in Rows(t) : all[c].parent = t[c].parent /\ all[c].name = t[c].name
  BY <1>1 DEF WorkedOut, Alike, Rows
<1>3. ParentOf(all) = ParentOf(t)
  BY <1>1, <1>2 DEF ParentOf
<1>4. ASSUME NEW c \in Rows(t)
      PROVE  Reads(all[c], t, c)
  <2>1. CASE c \in S
    <3>1. all[c] = Derived(t[c], t, c) /\ t[c] \in Row
      BY <1>1, <2>1 DEF WorkedOut, WellFormed
    <3> QED
      BY <3>1, DerivedReads
  <2>2. CASE c \notin S
    <3>1. all[c] = t[c]
      BY <1>1, <2>2 DEF WorkedOut, Rows
    <3> QED
      BY <2>2, <3>1, StaleIs
  <2> QED
    BY <2>1, <2>2
<1>5. ASSUME NEW c \in Rows(t)
      PROVE  c \notin Stale(all)
  <2>1. Above(all, c) = Above(t, c)
    BY <1>3 DEF Above
  <2>2. \A d \in ToSet(Above(t, c)) : t[d].name = all[d].name
    <3>1. Above(t, c) \in Seq(Rows(t))
      BY AboveIn
    <3>2. ToSet(Above(t, c)) \subseteq Rows(t)
      BY <3>1 DEF ToSet
    <3> QED
      BY <1>2, <3>2
  <2>3. Reads(all[c], all, c)
    BY <1>4, <2>1, <2>2, SameReads
  <2> QED
    BY <1>1, <2>3, StaleIs
<1>6. Stale(all) \subseteq Rows(all)
  BY DEF Stale
<1> QED
  BY <1>1, <1>5, <1>6 DEF all

\* Who reads otherwise once the row of `c' changed: the place and those below it.
LEMMA EditStales ==
    ASSUME WellFormed(node), Stale(node) = {}, NEW c \in Rows(node), NEW t, EditedAt(t, c),
           WellFormed(t), Rows(t) = Rows(node)
    PROVE  Stale(t) \subseteq {c} \cup Below(t, c)
<1> SUFFICES ASSUME NEW d \in Stale(t), d \notin {c} \cup Below(t, c)
             PROVE  FALSE
  OBVIOUS
<1>1. d \in Rows(t) /\ d # c /\ c \notin ToSet(Above(t, d)) /\ d \in Codes /\ c \in Codes
  BY DEF Stale, Below, Rows
<1>2. /\ \A k \in DOMAIN ParentOf(t) : ParentOf(t)[k] \in Codes
      /\ \A k \in DOMAIN ParentOf(node) : ParentOf(node)[k] \in Codes
  BY DEF ParentOf, WellFormed, Rows
<1>3. /\ \A k : k # c => (k \in DOMAIN ParentOf(t) <=> k \in DOMAIN ParentOf(node))
      /\ \A k \in DOMAIN ParentOf(t) : k # c => ParentOf(t)[k] = ParentOf(node)[k]
  <2>1. \A k \in Rows(t) : k # c => t[k] = node[k]
    BY DEF EditedAt, Rows
  <2> QED
    BY <2>1 DEF ParentOf
<1>4. Above(node, d) = Above(t, d)
  BY <1>1, <1>2, <1>3, WalkAside DEF Above
<1>5. \A e \in ToSet(Above(t, d)) : t[e].name = node[e].name
  <2>1. Above(t, d) \in Seq(Rows(t))
    BY AboveIn
  <2>2. ToSet(Above(t, d)) \subseteq Rows(t)
    BY <2>1 DEF ToSet
  <2>3. \A e \in ToSet(Above(t, d)) : e # c /\ e \in Codes
    BY <1>1, <2>2 DEF Rows
  <2> QED
    BY <2>3 DEF EditedAt
<1>6. Reads(node[d], node, d) /\ t[d] = node[d]
  BY <1>1, StaleIs DEF EditedAt
<1>7. Reads(t[d], t, d)
  BY <1>4, <1>5, <1>6, SameReads
<1> QED
  BY <1>1, <1>7, StaleIs

\* Nobody but the new place itself reads otherwise once it is there.
LEMMA AddStales ==
    ASSUME WellFormed(node), Stale(node) = {}, NEW c \in Codes \ Rows(node), NEW t, WellFormed(t),
           Rows(t) = Rows(node) \cup {c}, \A d \in Rows(node) : t[d] = node[d]
    PROVE  Stale(t) \subseteq {c}
<1> SUFFICES ASSUME NEW d \in Stale(t), d # c
             PROVE  FALSE
  OBVIOUS
<1>1. d \in Rows(t) /\ d \in Rows(node)
  BY DEF Stale
<1>2. /\ \A k \in DOMAIN ParentOf(t) : ParentOf(t)[k] \in Codes
      /\ \A k \in DOMAIN ParentOf(node) : ParentOf(node)[k] \in Codes
  BY DEF ParentOf, WellFormed, Rows
<1>3. /\ \A k : k # c => (k \in DOMAIN ParentOf(node) <=> k \in DOMAIN ParentOf(t))
      /\ \A k \in DOMAIN ParentOf(node) : k # c => ParentOf(node)[k] = ParentOf(t)[k]
  BY DEF ParentOf
<1>4. ToSet(Above(node, d)) \subseteq Rows(node)
  <2>1. Above(node, d) \in Seq(Rows(node))
    BY AboveIn
  <2> QED
    BY <2>1 DEF ToSet
<1>5. Above(t, d) = Above(node, d)
  <2>1. c \notin ToSet(Above(node, d))
    BY <1>4
  <2> QED
    BY <1>2, <1>3, <2>1, WalkAside DEF Above
<1>6. Reads(node[d], node, d) /\ t[d] = node[d]
  BY <1>1, StaleIs
<1>7. Reads(t[d], t, d)
  BY <1>4, <1>5, <1>6, SameReads
<1> QED
  BY <1>1, <1>7, StaleIs

\* The rows after the commit of `tx', when nobody commits before.
After(tx) == [c \in Codes |-> IF c \in DOMAIN tx.rows THEN tx.rows[c] ELSE node[c]]

\* A request that nobody overlapped leaves a tree that reads right, if it found one or is a load.
Rebuilds ==
    \A s \in Sessions :
        MayCommit(s) /\ work[s].alone /\ (~raced \/ work[s].load # None)
            => Stale(After(work[s])) = {}
ReadInv == Inv /\ ReadsRight /\ Rebuilds

\* Tables of the same rows have the same stale ones.
LEMMA SameStale ==
    ASSUME NEW t, WellFormed(t), NEW q, DOMAIN q = Codes, \A c \in Codes : q[c] = t[c]
    PROVE  Stale(q) = Stale(t)
<1>1. Rows(q) = Rows(t) /\ Rows(t) \subseteq Codes
  BY DEF Rows
<1>2. ParentOf(q) = ParentOf(t)
  BY <1>1 DEF ParentOf
<1>3. WellFormed(q)
  BY <1>1 DEF WellFormed
<1>4. ASSUME NEW c \in Rows(t)
      PROVE  c \in Stale(q) <=> c \in Stale(t)
  <2>1. Above(t, c) = Above(q, c)
    BY <1>2 DEF Above
  <2>2. \A d \in ToSet(Above(t, c)) : t[d].name = q[d].name
    <3>1. Above(t, c) \in Seq(Rows(t))
      BY AboveIn
    <3>2. ToSet(Above(t, c)) \subseteq Rows(t)
      BY <3>1 DEF ToSet
    <3> QED
      BY <1>1, <3>2
  <2>3. Reads(t[c], t, c) <=> Reads(t[c], q, c)
    BY <2>1, <2>2, SameReads
  <2>4. q[c] = t[c]
    BY <1>1
  <2> QED
    BY <1>1, <1>3, <2>3, <2>4, StaleIs
<1>5. Stale(q) \subseteq Rows(q) /\ Stale(t) \subseteq Rows(t)
  BY DEF Stale
<1> QED
  BY <1>1, <1>4, <1>5

LEMMA AfterIs ==
    ASSUME NEW tx, NEW all, NEW S, NEW new, NEW at, NEW load, NEW redo,
           TxIs(tx, all, S, new, at, load, redo), WellFormed(all),
           \A c \in Codes \ S : all[c] = node[c]
    PROVE  Stale(After(tx)) = Stale(all)
<1>1. DOMAIN After(tx) = Codes /\ \A c \in Codes : After(tx)[c] = all[c]
  BY DEF After, TxIs
<1> HIDE DEF After
<1> QED
  BY <1>1, SameStale

\* A request begins that leaves a tree that reads right, if it found one or is a load.
LEMMA BeginsReading ==
    ASSUME ReadInv, NEW s \in Sessions, NEW tx, Begin(s, tx),
           ~raced \/ tx.load # None => Stale(After(tx)) = {}
    PROVE  ReadsRight' /\ Rebuilds'
<1>1. /\ UNCHANGED <<node, source, spot, edits, raced, redone>>
      /\ work' = [work EXCEPT ![s] = tx] /\ DOMAIN work = Sessions
  BY DEF Begin, ReadInv, Inv
<1>2. work'[s] = tx /\ \A u \in Sessions \ {s} : work'[u] = work[u]
  BY <1>1
<1>3. ReadsRight'
  BY <1>1 DEF ReadInv, ReadsRight
<1>4. ASSUME NEW v, Stale(After(v)) = {}
      PROVE  Stale(After(v))' = {}
  BY <1>1, <1>4 DEF After
<1>5. ASSUME NEW u \in Sessions, MayCommit(u)', work'[u].alone, ~raced' \/ work'[u].load # None
      PROVE  Stale(After(work[u]))' = {}
  <2>1. CASE u = s
    <3>1. Stale(After(tx)) = {} /\ work'[u] = tx
      BY <1>1, <1>2, <1>5, <2>1
    <3> QED
      BY <1>4, <3>1
  <2>2. CASE u # s
    <3>1. work'[u] = work[u]
      BY <1>2, <2>2
    <3>2. Stale(After(work[u])) = {}
      BY <1>1, <1>5, <3>1 DEF ReadInv, Rebuilds, MayCommit, Idle
    <3> QED
      BY <1>4, <3>1, <3>2
  <2> QED
    BY <2>1, <2>2
<1> QED
  BY <1>3, <1>5 DEF Rebuilds

\* The tables a write works out read right when the one before did: renamed and moved places,
\* and new ones.
LEMMA EditReads ==
    ASSUME ReadInv, NEW s \in Sessions, NEW c \in Rows(node), NEW t, EditedAt(t, c),
           NEW S, S = {c} \cup Below(t, c),
           NEW tx, NEW at, NEW redo, TxIs(tx, Recompute(t, S), S, {}, at, None, redo),
           Edit(s, tx)
    PROVE  ReadsRight' /\ Rebuilds'
<1>1. WellFormed(node) /\ c \in Codes
  BY DEF ReadInv, Inv, Rows
<1>2. WellFormed(t) /\ Rows(t) = Rows(node) /\ S \subseteq Rows(t)
  BY <1>1, EditedIs DEF Below
<1>3. WorkedOut(Recompute(t, S), t, S) /\ WellFormed(Recompute(t, S))
  BY <1>2, RecomputeIs
<1>4. \A d \in Codes \ S : Recompute(t, S)[d] = node[d]
  BY <1>3 DEF WorkedOut, EditedAt
<1>5. Stale(After(tx)) = Stale(Recompute(t, S))
  BY <1>3, <1>4, AfterIs
<1>6. ASSUME ~raced PROVE Stale(After(tx)) = {}
  <2>1. Stale(node) = {}
    BY <1>6 DEF ReadInv, ReadsRight
  <2>2. Stale(t) \subseteq S
    BY <1>1, <1>2, <2>1, EditStales
  <2> QED
    BY <1>2, <1>5, <2>2, RecomputeReads
<1>7. tx.load = None /\ Begin(s, tx)
  BY DEF TxIs, Edit
<1> QED
  BY <1>6, <1>7, BeginsReading

LEMMA RenameReads ==
    ASSUME ReadInv, NEW s \in Sessions, NEW c \in Codes, NEW name \in NameOf[c],
           Rename(s, c, name)
    PROVE  ReadsRight' /\ Rebuilds'
<1> DEFINE t == [node EXCEPT ![c].name = name, ![c].kept = Kept(node[c], {"name"})]
           S == {c} \cup Below(t, c)
<1>1. c \in Rows(node)
  BY DEF Rename, Rows
<1>2. EditedAt(t, c)
  BY <1>1, RenameEdits DEF ReadInv
<1>3. Edit(s, [Tx(Recompute(t, S), S, {}) EXCEPT !.redone = {c}])
  BY DEF Rename
<1> HIDE DEF t
<1>4. S = {c} \cup Below(t, c)
  OBVIOUS
<1> HIDE DEF S
<1>5. TxIs([Tx(Recompute(t, S), S, {}) EXCEPT !.redone = {c}],
           Recompute(t, S), S, {}, None, None, {c})
  BY TxForms
<1> QED
  BY <1>1, <1>2, <1>3, <1>4, <1>5, EditReads

LEMMA MoveReads ==
    ASSUME ReadInv, NEW s \in Sessions, NEW c \in Codes, NEW parent \in Codes \cup {None},
           Move(s, c, parent)
    PROVE  ReadsRight' /\ Rebuilds'
<1> DEFINE t == [node EXCEPT ![c].parent = parent, ![c].kept = Kept(node[c], {"parent"})]
           S == {c} \cup Below(t, c)
           at == SpotAfter(t, c)
<1>1. c \in Rows(node) /\ parent \in Rows(node) \cup {None}
  BY DEF Move, Rows
<1>2. EditedAt(t, c)
  BY <1>1, MoveEdits DEF ReadInv
<1>3. Edit(s, [Tx(Recompute(t, S), S, {}) EXCEPT !.spot = at, !.redone = {c}])
  BY DEF Move
<1> HIDE DEF t, at
<1>4. S = {c} \cup Below(t, c)
  OBVIOUS
<1> HIDE DEF S
<1>5. TxIs([Tx(Recompute(t, S), S, {}) EXCEPT !.spot = at, !.redone = {c}],
           Recompute(t, S), S, {}, at, None, {c})
  BY TxForms
<1> QED
  BY <1>1, <1>2, <1>3, <1>4, <1>5, EditReads

LEMMA AddReads ==
    ASSUME ReadInv, NEW s \in Sessions, NEW c \in Codes, NEW name \in NameOf[c],
           NEW parent \in Codes \cup {None}, Add(s, c, name, parent)
    PROVE  ReadsRight' /\ Rebuilds'
<1> DEFINE row == NewRow(name, parent, "overlay")
           t == [node EXCEPT ![c] = row]
           tx == Tx(Recompute(t, {c}), {c}, {c})
<1>1. c \in Codes \ Rows(node) /\ WellFormed(node) /\ parent \in Rows(node) \cup {None}
  BY DEF Add, Rows, ReadInv, Inv
<1>2. Edit(s, tx)
  BY DEF Add
<1>3. TxIs(tx, Recompute(t, {c}), {c}, {c}, None, None, {})
  BY TxForms
<1>4. WellFormed(t) /\ Rows(t) = Rows(node) \cup {c} /\ \A d \in Codes \ {c} : t[d] = node[d]
  <2>1. AddedAt(t, c)
    BY <1>1, AddedIs
  <2> QED
    BY <2>1 DEF AddedAt
<1> HIDE DEF t, tx
<1>5. WorkedOut(Recompute(t, {c}), t, {c}) /\ WellFormed(Recompute(t, {c}))
  BY <1>4, RecomputeIs
<1>6. Stale(After(tx)) = Stale(Recompute(t, {c}))
  <2>1. \A d \in Codes \ {c} : Recompute(t, {c})[d] = node[d]
    BY <1>4, <1>5 DEF WorkedOut
  <2> QED
    BY <1>3, <1>5, <2>1, AfterIs
<1>7. ASSUME ~raced PROVE Stale(After(tx)) = {}
  <2>1. Stale(node) = {} /\ \A d \in Rows(node) : t[d] = node[d]
    BY <1>1, <1>4, <1>7 DEF ReadInv, ReadsRight, Rows
  <2>2. Stale(t) \subseteq {c}
    BY <1>1, <1>4, <2>1, AddStales
  <2> QED
    BY <1>4, <1>6, <2>2, RecomputeReads
<1>8. tx.load = None /\ Begin(s, tx)
  BY <1>2, <1>3 DEF TxIs, Edit
<1> QED
  BY <1>7, <1>8, BeginsReading

LEMMA ArchiveReads ==
    ASSUME ReadInv, NEW s \in Sessions, NEW c \in Codes, NEW active \in BOOLEAN,
           Archive(s, c, active)
    PROVE  ReadsRight' /\ Rebuilds'
<1> DEFINE t == [node EXCEPT ![c].active = active, ![c].kept = Kept(node[c], {"active"})]
           tx == Tx(t, {c}, {})
<1>1. c \in Rows(node) /\ WellFormed(node)
  BY DEF Archive, Rows, ReadInv, Inv
<1>2. EditedAt(t, c)
  BY <1>1, ArchiveEdits DEF ReadInv
<1>3. Edit(s, tx)
  BY DEF Archive
<1>4. TxIs(tx, t, {c}, {}, None, None, {})
  BY TxForms
<1>5. /\ t[c].name = node[c].name /\ t[c].parent = node[c].parent
      /\ t[c].up = node[c].up /\ t[c].index = node[c].index
  <2>1. ASSUME NEW row \in Row, NEW kept
        PROVE  LET new == [row EXCEPT !.active = active, !.kept = kept]
               IN /\ new.name = row.name /\ new.parent = row.parent
                  /\ new.up = row.up /\ new.index = row.index
    BY <2>1 DEF Row
  <2>2. node[c] \in Row /\ DOMAIN node = Codes
    BY <1>1 DEF WellFormed
  <2>3. t[c] = [node[c] EXCEPT !.active = active, !.kept = Kept(node[c], {"active"})]
    BY <2>2
  <2> HIDE DEF t
  <2> QED
    BY <2>1, <2>2, <2>3
<1> HIDE DEF t, tx
<1>6. WellFormed(t) /\ Rows(t) = Rows(node)
  BY <1>1, <1>2, EditedIs
<1>7. /\ \A d \in Rows(t) : t[d].name = node[d].name /\ t[d].parent = node[d].parent
      /\ \A d \in Rows(t) : t[d].up = node[d].up /\ t[d].index = node[d].index
  BY <1>2, <1>5 DEF EditedAt, Rows
<1>8. Stale(After(tx)) = Stale(t)
  <2>1. \A d \in Codes \ {c} : t[d] = node[d]
    BY <1>2 DEF EditedAt
  <2> QED
    BY <1>4, <1>6, <2>1, AfterIs
<1>9. ASSUME ~raced PROVE Stale(t) = {}
  <2>1. ParentOf(t) = ParentOf(node)
    BY <1>6, <1>7 DEF ParentOf
  <2>2. ASSUME NEW d \in Rows(t)
        PROVE  d \notin Stale(t)
    <3>1. Reads(node[d], node, d)
      BY <1>1, <1>6, <1>9, StaleIs DEF ReadInv, ReadsRight
    <3>2. Above(t, d) = Above(node, d)
      BY <2>1 DEF Above
    <3>3. \A e \in ToSet(Above(t, d)) : t[e].name = node[e].name
      <4>1. Above(t, d) \in Seq(Rows(t))
        BY <1>6, AboveIn
      <4>2. ToSet(Above(t, d)) \subseteq Rows(t)
        BY <4>1 DEF ToSet
      <4> QED
        BY <1>7, <4>2
    <3>4. Reads(node[d], t, d)
      BY <1>6, <3>1, <3>2, <3>3, SameReads
    <3>5. Reads(t[d], t, d)
      BY <1>7, <3>4 DEF Reads
    <3> QED
      BY <1>6, <3>5, StaleIs
  <2>3. Stale(t) \subseteq Rows(t)
    BY DEF Stale
  <2> QED
    BY <2>2, <2>3
<1>10. tx.load = None /\ Begin(s, tx)
  BY <1>3, <1>4 DEF TxIs, Edit
<1> QED
  BY <1>8, <1>9, <1>10, BeginsReading

LEMMA SettleReads ==
    ASSUME ReadInv, NEW s \in Sessions, NEW c \in Codes, Settle(s, c)
    PROVE  ReadsRight' /\ Rebuilds'
<1> DEFINE at == Spot(node, c)
           tx == [Tx(node, {}, {}) EXCEPT !.spot = at]
<1>1. Edit(s, tx)
  BY DEF Settle
<1>2. TxIs(tx, node, {}, {}, at, None, {})
  BY TxForms
<1> HIDE DEF tx, at
<1>3. Stale(After(tx)) = Stale(node)
  BY <1>2, AfterIs DEF ReadInv, Inv
<1>4. tx.load = None /\ Begin(s, tx)
  BY <1>1, <1>2 DEF TxIs, Edit
<1> QED
  BY <1>3, <1>4, BeginsReading DEF ReadInv, ReadsRight

\* A load works out every row that does not read right, whatever it found.
LEMMA LoadReads ==
    ASSUME ReadInv, NEW s \in Sessions, NEW b \in Bundles, NEW force \in BOOLEAN,
           Load(s, b, force)
    PROVE  ReadsRight' /\ Rebuilds'
<1> DEFINE t == Loaded(node, b)
           changed == {c \in Rows(t) : t[c] # node[c]}
           derived == Stale(t)
           all == Recompute(t, derived)
           S == changed \cup derived
           at == SpotRefreshed(all, S)
           new == Rows(t) \ Rows(node)
           tx == [Tx(all, S, new) EXCEPT !.spot = at, !.load = b]
<1>1. WellFormed(node) /\ Wants(t, b)
  BY LoadedWants DEF ReadInv, Inv
<1>2. Begin(s, tx)
  BY DEF Load
<1>3. TxIs(tx, all, S, new, at, b, {})
  BY TxForms
<1> HIDE DEF t, tx, at
<1>4. WellFormed(t)
  <2>1. \A c \in Rows(t) : t[c] \in Row /\ t[c].parent \in Rows(t) \cup {None}
    BY <1>1 DEF Wants, Makes, WellFormed
  <2> QED
    BY <1>1, <2>1 DEF WellFormed, Wants
<1>5. derived \subseteq Rows(t)
  BY DEF Stale
<1>6. WorkedOut(all, t, derived) /\ WellFormed(all) /\ Stale(all) = {}
  BY <1>4, <1>5, RecomputeIs, RecomputeReads
<1>7. \A c \in Codes \ S : all[c] = node[c]
  <2>1. \A c \in Codes \ derived : all[c] = t[c]
    BY <1>6 DEF WorkedOut
  <2>2. \A c \in Codes \ Rows(t) : t[c] = None
    BY DEF Rows
  <2>3. \A c \in Codes \ Rows(t) : node[c] = None
    BY <1>1 DEF Wants, Rows
  <2>4. \A c \in Rows(t) \ changed : t[c] = node[c]
    OBVIOUS
  <2> QED
    BY <2>1, <2>2, <2>3, <2>4
<1> HIDE DEF all, S, new
<1>8. Stale(After(tx)) = {}
  BY <1>3, <1>6, <1>7, AfterIs
<1> QED
  BY <1>2, <1>8, BeginsReading

LEMMA CommitReads ==
    ASSUME ReadInv, NEW s \in Sessions, Commit(s)
    PROVE  ReadsRight' /\ Rebuilds'
<1> DEFINE tx == work[s]
<1>1. /\ raced' = ((raced /\ (tx.load = None \/ ~tx.alone)) \/ ~tx.alone)
      /\ node' = After(tx) /\ MayCommit(s) /\ tx.alone \in BOOLEAN
  BY DEF Commit, After, MayCommit, ReadInv, Inv, Holds, IsTx
<1>2. ReadsRight'
  <2>1. CASE raced'
    BY <2>1 DEF ReadsRight
  <2>2. CASE ~raced'
    <3>1. tx.alone /\ (~raced \/ tx.load # None)
      BY <1>1, <2>2
    <3>2. Stale(After(tx)) = {}
      BY <1>1, <3>1 DEF ReadInv, Rebuilds
    <3>3. Stale(node') = {}
      BY <1>1, <3>2
    <3> QED
      BY <3>3 DEF ReadsRight
  <2> QED
    BY <2>1, <2>2
<1>3. ASSUME NEW u \in Sessions, MayCommit(u)'
      PROVE  work'[u].alone = FALSE
  <2>1. MayCommit(u) /\ work'[u] = [work[u] EXCEPT !.alone = FALSE]
    BY <1>3, OthersAfter DEF MayCommit, ReadInv
  <2>2. "alone" \in DOMAIN work[u]
    BY <2>1 DEF ReadInv, Inv, Holds, IsTx
  <2> QED
    BY <2>1, <2>2
<1> QED
  BY <1>2, <1>3 DEF Rebuilds

LEMMA AbortReads ==
    ASSUME ReadInv, NEW s \in Sessions, Abort(s)
    PROVE  ReadsRight' /\ Rebuilds'
<1>1. /\ UNCHANGED <<node, source, spot, edits, raced, redone>>
      /\ work' = [work EXCEPT ![s] = None] /\ DOMAIN work = Sessions
  BY DEF Abort, ReadInv, Inv
<1>2. work'[s] = None /\ \A u \in Sessions \ {s} : work'[u] = work[u]
  BY <1>1
<1>3. ReadsRight'
  BY <1>1 DEF ReadInv, ReadsRight
<1>4. ASSUME NEW v, Stale(After(v)) = {}
      PROVE  Stale(After(v))' = {}
  BY <1>1, <1>4 DEF After
<1>5. ASSUME NEW u \in Sessions, MayCommit(u)', work'[u].alone, ~raced' \/ work'[u].load # None
      PROVE  Stale(After(work[u]))' = {}
  <2>1. work'[u] = work[u]
    BY <1>2, <1>5 DEF MayCommit, Idle
  <2>2. Stale(After(work[u])) = {}
    BY <1>1, <1>5, <2>1 DEF ReadInv, Rebuilds, MayCommit, Idle
  <2> QED
    BY <1>4, <2>1, <2>2
<1> QED
  BY <1>3, <1>5 DEF Rebuilds

\* Every place reads as its own name and the names above it say, and is found by them, however far
\* above somebody renamed or moved one: unless requests overlapped since a load ran alone.
THEOREM EveryPlaceReadsRight == Spec => []ReadsRight
<1>1. Init => ReadsRight /\ Rebuilds
  <2> SUFFICES ASSUME Init PROVE ReadsRight /\ Rebuilds
    OBVIOUS
  <2>1. Rows(node) = {} /\ \A s \in Sessions : Idle(s)
    BY DEF Init, Rows, Idle
  <2> QED
    BY <2>1 DEF ReadsRight, Stale, Rebuilds, MayCommit
<1>2. Inv /\ (ReadsRight /\ Rebuilds) /\ [Next]_vars => (ReadsRight /\ Rebuilds)'
  <2> SUFFICES ASSUME ReadInv, [Next]_vars
               PROVE  ReadsRight' /\ Rebuilds'
    BY DEF ReadInv
  <2>1. ASSUME NEW s \in Sessions, NEW c \in Codes, NEW name \in NameOf[c], Rename(s, c, name)
        PROVE  ReadsRight' /\ Rebuilds'
    BY <2>1, RenameReads
  <2>2. ASSUME NEW s \in Sessions, NEW c \in Codes, NEW name \in NameOf[c],
               NEW parent \in Codes \cup {None}, Add(s, c, name, parent)
        PROVE  ReadsRight' /\ Rebuilds'
    BY <2>2, AddReads
  <2>3. ASSUME NEW s \in Sessions, NEW c \in Codes, NEW parent \in Codes \cup {None},
               Move(s, c, parent)
        PROVE  ReadsRight' /\ Rebuilds'
    BY <2>3, MoveReads
  <2>4. ASSUME NEW s \in Sessions, NEW c \in Codes, NEW active \in BOOLEAN,
               Archive(s, c, active)
        PROVE  ReadsRight' /\ Rebuilds'
    BY <2>4, ArchiveReads
  <2>5. ASSUME NEW s \in Sessions, NEW c \in Codes, Settle(s, c)
        PROVE  ReadsRight' /\ Rebuilds'
    BY <2>5, SettleReads
  <2>6. ASSUME NEW s \in Sessions, NEW b \in Bundles, NEW force \in BOOLEAN, Load(s, b, force)
        PROVE  ReadsRight' /\ Rebuilds'
    BY <2>6, LoadReads
  <2>7. ASSUME NEW s \in Sessions, Commit(s)
        PROVE  ReadsRight' /\ Rebuilds'
    BY <2>7, CommitReads
  <2>8. ASSUME NEW s \in Sessions, Abort(s)
        PROVE  ReadsRight' /\ Rebuilds'
    BY <2>8, AbortReads
  <2>9. CASE UNCHANGED vars
    <3>1. node' = node /\ work' = work /\ raced' = raced
      BY <2>9 DEF vars
    <3>2. ReadsRight'
      BY <3>1 DEF ReadInv, ReadsRight
    <3>3. Rebuilds'
      BY <3>1 DEF ReadInv, Rebuilds, MayCommit, Idle, After
    <3> QED
      BY <3>2, <3>3
  <2> QED
    BY <2>1, <2>2, <2>3, <2>4, <2>5, <2>6, <2>7, <2>8, <2>9 DEF Next
<1> QED
  BY <1>1, <1>2, Invariance, PTL DEF Spec

-----------------------------------------------------------------------------
(* The city stored with the located record *)

\* The walk up from a place is the same in two tables whose rows differ in no
\* parent but those of the places of C, which it does not meet.
LEMMA AboveBeside ==
    ASSUME NEW t, WellFormed(t), NEW q, WellFormed(q), NEW C,
           \A k \in Codes \ C : /\ k \in Rows(t) <=> k \in Rows(q)
                                /\ k \in Rows(t) => t[k].parent = q[k].parent,
           NEW d \in Codes \ C, ToSet(Above(t, d)) \cap C = {}
    PROVE  Above(q, d) = Above(t, d)
<1>1. /\ \A k \in DOMAIN ParentOf(t) : ParentOf(t)[k] \in Codes
      /\ \A k \in DOMAIN ParentOf(q) : ParentOf(q)[k] \in Codes
  BY DEF ParentOf, WellFormed, Rows
<1>2. /\ \A k : k \notin C => (k \in DOMAIN ParentOf(t) <=> k \in DOMAIN ParentOf(q))
      /\ \A k \in DOMAIN ParentOf(t) : k \notin C => ParentOf(t)[k] = ParentOf(q)[k]
  BY DEF ParentOf, Rows
<1> QED
  BY <1>1, <1>2, WalkBeside DEF Above

\* The city of a place depends on the walk up only.
LEMMA SameCity ==
    ASSUME NEW t, NEW q, NEW c, Above(t, c) = Above(q, c)
    PROVE  CityOf(t, c) = CityOf(q, c)
<1> DEFINE Walk(r) == <<c>> \o Above(r, c)
           isCity(d) == Kind[d] \in CITY_KINDS
           Find(walk) == LET at == SelectInSeq(walk, isCity) IN IF at = 0 THEN None ELSE walk[at]
<1>1. CityOf(t, c) = Find(Walk(t)) /\ CityOf(q, c) = Find(Walk(q))
  BY DEF CityOf
<1>2. Walk(t) = Walk(q)
  OBVIOUS
<1> HIDE DEF Walk, Find
<1> QED
  BY <1>1, <1>2

\* The record `at' names a place that is there, with its city; what the rows keep of the walk up
\* is so: unless somebody redid (`R') the place or one on the walk that is kept.
Located(t, at, R) ==
    /\ at.place \in Rows(t) \cup {None}
    /\ \A c \in Rows(t) \ R : t[c].up = Above(t, c) \/ ToSet(t[c].up) \cap R # {}
    /\ at.place # None /\ ({at.place} \cup ToSet(t[at.place].up)) \cap R = {}
          => at.city = CityOf(t, at.place)

\* The located record after the commit of `tx'.
SpotNext(tx) == IF tx.spot = None THEN spot ELSE tx.spot

\* A request writes the record at a place there is by then; one that nobody overlapped leaves it
\* with its city.
Tells(tx) ==
    /\ tx.spot # None => tx.spot.place \in Rows(node) \cup DOMAIN tx.rows
    /\ tx.alone => Located(After(tx), SpotNext(tx), redone \cup tx.redone)

Told ==
    /\ node = [c \in Codes |-> node[c]]
    /\ Located(node, spot, redone)
    /\ \A s \in Sessions : MayCommit(s) => Tells(work[s])
CityInv == Inv /\ Told

\* Of a place's row and walk up in `t', what it keeps of where the record is.
Keeps(t, d, R) ==
    \/ ToSet(t[d].up) \cap R # {}
    \/ d \in Rows(node) /\ t[d].up = node[d].up /\ Above(t, d) = Above(node, d)
    \/ t[d].up = Above(t, d) /\ d # spot.place

LEMMA StaysLocated ==
    ASSUME Located(node, spot, redone), NEW t, Rows(node) \subseteq Rows(t), NEW R,
           redone \subseteq R, NEW at, at.place \in Rows(t) \cup {None},
           at.place \in R \/ at = spot, \A d \in Rows(t) \ R : Keeps(t, d, R)
    PROVE  Located(t, at, R)
<1>1. ASSUME NEW c \in Rows(t) \ R
      PROVE  t[c].up = Above(t, c) \/ ToSet(t[c].up) \cap R # {}
  <2>1. CASE c \in Rows(node) /\ t[c].up = node[c].up /\ Above(t, c) = Above(node, c)
    <3>1. node[c].up = Above(node, c) \/ ToSet(node[c].up) \cap redone # {}
      BY <1>1, <2>1 DEF Located
    <3> QED
      BY <2>1, <3>1
  <2> QED
    BY <1>1, <2>1 DEF Keeps
<1>2. ASSUME at.place # None, ({at.place} \cup ToSet(t[at.place].up)) \cap R = {}
      PROVE  at.city = CityOf(t, at.place)
  <2> DEFINE d == at.place
  <2>1. d \in Rows(t) \ R /\ at = spot
    BY <1>2
  <2>2. d \in Rows(node) /\ t[d].up = node[d].up /\ Above(t, d) = Above(node, d)
    BY <1>2, <2>1 DEF Keeps
  <2>3. ({d} \cup ToSet(node[d].up)) \cap redone = {}
    BY <1>2, <2>2
  <2>4. at.city = CityOf(node, d)
    BY <1>2, <2>1, <2>3 DEF Located
  <2>5. CityOf(t, d) = CityOf(node, d)
    BY <2>2, SameCity
  <2> QED
    BY <2>4, <2>5
<1> QED
  BY <1>1, <1>2 DEF Located

\* The table after the commit, when it is one.
LEMMA AfterTable ==
    ASSUME NEW tx, NEW all, NEW S, NEW new, NEW at, NEW load, NEW redo,
           TxIs(tx, all, S, new, at, load, redo), all = [c \in Codes |-> all[c]],
           \A c \in Codes \ S : all[c] = node[c]
    PROVE  After(tx) = all
<1>1. \A c \in Codes : (IF c \in DOMAIN tx.rows THEN tx.rows[c] ELSE node[c]) = all[c]
  BY DEF TxIs
<1>2. After(tx) = [c \in Codes |-> all[c]]
  BY <1>1 DEF After
<1> QED
  BY <1>2

\* A row worked out again keeps its parent: the walks up are the same.
LEMMA WorkedAbove ==
    ASSUME NEW t, WellFormed(t), NEW S, S \subseteq Rows(t)
    PROVE  /\ \A c : Above(Recompute(t, S), c) = Above(t, c)
           /\ \A c \in S : Recompute(t, S)[c].up = Above(t, c)
           /\ Recompute(t, S) = [c \in Codes |-> Recompute(t, S)[c]]
<1> DEFINE all == Recompute(t, S)
<1>1. all = [c \in Codes |-> all[c]]
  BY DEF Recompute
<1>2. WorkedOut(all, t, S) /\ WellFormed(all) /\ Rows(all) = Rows(t)
  BY RecomputeIs
<1> HIDE DEF all
<1>3. \A c \in Rows(t) : all[c].parent = t[c].parent
  BY <1>2 DEF WorkedOut, Alike, Rows
<1>4. ParentOf(all) = ParentOf(t)
  BY <1>2, <1>3 DEF ParentOf
<1>5. \A c : Above(all, c) = Above(t, c)
  BY <1>4 DEF Above
<1>6. ASSUME NEW c \in S PROVE all[c].up = Above(t, c)
  <2>1. all[c] = Derived(t[c], t, c) /\ t[c] \in Row
    BY <1>2 DEF WorkedOut, WellFormed
  <2>2. Reads(all[c], t, c)
    BY <2>1, DerivedReads
  <2> QED
    BY <2>2 DEF Reads
<1> QED
  BY <1>1, <1>5, <1>6 DEF all

\* A request that tells begins.
LEMMA BeginsTelling ==
    ASSUME CityInv, NEW s \in Sessions, NEW tx, Begin(s, tx), Tells(tx)
    PROVE  Told'
<1>1. /\ UNCHANGED <<node, source, spot, edits, raced, redone>>
      /\ work' = [work EXCEPT ![s] = tx] /\ DOMAIN work = Sessions
  BY DEF Begin, CityInv, Inv
<1>2. work'[s] = tx /\ \A u \in Sessions \ {s} : work'[u] = work[u]
  BY <1>1
<1>3. (node = [c \in Codes |-> node[c]])' /\ Located(node, spot, redone)'
  BY <1>1 DEF CityInv, Told
<1>4. ASSUME NEW v, Tells(v) PROVE Tells(v)'
  BY <1>1, <1>4 DEF Tells, After, SpotNext
<1>5. ASSUME NEW u \in Sessions, MayCommit(u)'
      PROVE  Tells(work[u])'
  <2>1. Tells(work'[u])
    <3>1. CASE u = s
      BY <1>2, <3>1
    <3>2. CASE u # s
      BY <1>2, <1>5, <3>2 DEF CityInv, Told, MayCommit, Idle
    <3> QED
      BY <3>1, <3>2
  <2>2. ASSUME NEW v, v = work'[u] PROVE Tells(v)'
    BY <1>4, <2>1, <2>2
  <2> QED
    BY <2>2
<1> QED
  BY <1>3, <1>5 DEF Told

\* A place renamed or moved, with those below it worked out: whoever is below has it on the walk
\* that is kept, and nothing changes for the others.
LEMMA EditTells ==
    ASSUME CityInv, NEW s \in Sessions, NEW c \in Rows(node), NEW t, EditedAt(t, c),
           NEW S, S = {c} \cup Below(t, c), NEW at, at = None \/ at.place = c,
           NEW tx, TxIs(tx, Recompute(t, S), S, {}, at, None, {c}), Edit(s, tx)
    PROVE  Told'
<1> DEFINE all == Recompute(t, S)
           R == redone \cup {c}
<1>1. WellFormed(node) /\ c \in Codes /\ Located(node, spot, redone)
  BY DEF CityInv, Told, Inv, Rows
<1>2. WellFormed(t) /\ Rows(t) = Rows(node) /\ S \subseteq Rows(t)
  BY <1>1, EditedIs DEF Below
<1>3. /\ WorkedOut(all, t, S) /\ Rows(all) = Rows(node)
      /\ \A d : Above(all, d) = Above(t, d)
      /\ \A d \in S : all[d].up = Above(t, d)
      /\ all = [d \in Codes |-> all[d]]
  <2>1. WorkedOut(all, t, S) /\ Rows(all) = Rows(t)
    BY <1>2, RecomputeIs
  <2>2. /\ \A d : Above(all, d) = Above(t, d)
        /\ \A d \in S : all[d].up = Above(t, d)
        /\ all = [d \in Codes |-> all[d]]
    BY <1>2, WorkedAbove
  <2> HIDE DEF all
  <2> QED
    BY <1>2, <2>1, <2>2
<1> HIDE DEF all
<1>4. \A d \in Codes \ S : all[d] = node[d]
  BY <1>3 DEF WorkedOut, EditedAt
<1>5. TxIs(tx, all, S, {}, at, None, {c})
  BY DEF all
<1>6. After(tx) = all
  BY <1>3, <1>4, <1>5, AfterTable
<1>7. ASSUME NEW d \in Rows(all) \ R
      PROVE  Keeps(all, d, R)
  <2>1. d \in Rows(t) /\ d # c /\ d \in Codes \ {c}
    BY <1>2, <1>3, <1>7 DEF Rows
  <2>2. CASE d \in S
    <3>1. c \in ToSet(Above(t, d))
      BY <2>1, <2>2 DEF Below
    <3>2. c \in ToSet(all[d].up) \cap R
      BY <1>3, <2>2, <3>1
    <3> QED
      BY <3>2 DEF Keeps
  <2>3. CASE d \notin S
    <3>1. ToSet(Above(t, d)) \cap {c} = {}
      BY <2>1, <2>3 DEF Below
    <3>2. \A k \in Codes \ {c} : t[k] = node[k]
      BY DEF EditedAt
    <3>3. Above(node, d) = Above(t, d)
      BY <1>1, <1>2, <2>1, <3>1, <3>2, AboveBeside
    <3> QED
      BY <1>2, <1>3, <1>4, <2>1, <2>3, <3>3 DEF Keeps
  <2> QED
    BY <2>2, <2>3
<1>8. SpotNext(tx) = spot \/ SpotNext(tx).place = c
  BY <1>5 DEF SpotNext, TxIs
<1>9. Located(all, SpotNext(tx), R)
  <2>1. SpotNext(tx).place \in Rows(all) \cup {None}
    BY <1>1, <1>3, <1>8 DEF Located
  <2>2. SpotNext(tx).place \in R \/ SpotNext(tx) = spot
    BY <1>8
  <2>3. redone \subseteq R /\ Rows(node) \subseteq Rows(all)
    BY <1>3
  <2> HIDE DEF R
  <2> QED
    BY <1>1, <1>7, <2>1, <2>2, <2>3, StaysLocated
<1>10. Tells(tx)
  <2>1. tx.redone = {c} /\ tx.spot = at
    BY <1>5 DEF TxIs
  <2> QED
    BY <1>6, <1>9, <2>1 DEF Tells
<1> QED
  BY <1>10, BeginsTelling DEF Edit

LEMMA RenameTells ==
    ASSUME CityInv, NEW s \in Sessions, NEW c \in Codes, NEW name \in NameOf[c],
           Rename(s, c, name)
    PROVE  Told'
<1> DEFINE t == [node EXCEPT ![c].name = name, ![c].kept = Kept(node[c], {"name"})]
           S == {c} \cup Below(t, c)
<1>1. c \in Rows(node)
  BY DEF Rename, Rows
<1>2. EditedAt(t, c)
  BY <1>1, RenameEdits DEF CityInv
<1>3. Edit(s, [Tx(Recompute(t, S), S, {}) EXCEPT !.redone = {c}])
  BY DEF Rename
<1> HIDE DEF t
<1>4. S = {c} \cup Below(t, c)
  OBVIOUS
<1> HIDE DEF S
<1>5. TxIs([Tx(Recompute(t, S), S, {}) EXCEPT !.redone = {c}],
           Recompute(t, S), S, {}, None, None, {c})
  BY TxForms
<1> QED
  BY <1>1, <1>2, <1>3, <1>4, <1>5, EditTells

LEMMA MoveTells ==
    ASSUME CityInv, NEW s \in Sessions, NEW c \in Codes, NEW parent \in Codes \cup {None},
           Move(s, c, parent)
    PROVE  Told'
<1> DEFINE t == [node EXCEPT ![c].parent = parent, ![c].kept = Kept(node[c], {"parent"})]
           S == {c} \cup Below(t, c)
           at == SpotAfter(t, c)
<1>1. c \in Rows(node) /\ parent \in Rows(node) \cup {None}
  BY DEF Move, Rows
<1>2. EditedAt(t, c)
  BY <1>1, MoveEdits DEF CityInv
<1>3. Edit(s, [Tx(Recompute(t, S), S, {}) EXCEPT !.spot = at, !.redone = {c}])
  BY DEF Move
<1> HIDE DEF t
<1>4. at = None \/ at.place = c
  BY DEF SpotAfter, Spot
<1> HIDE DEF at
<1>5. S = {c} \cup Below(t, c)
  OBVIOUS
<1> HIDE DEF S
<1>6. TxIs([Tx(Recompute(t, S), S, {}) EXCEPT !.spot = at, !.redone = {c}],
           Recompute(t, S), S, {}, at, None, {c})
  BY TxForms
<1> QED
  BY <1>1, <1>2, <1>3, <1>4, <1>5, <1>6, EditTells

\* Nobody is below a new place.
LEMMA AddTells ==
    ASSUME CityInv, NEW s \in Sessions, NEW c \in Codes, NEW name \in NameOf[c],
           NEW parent \in Codes \cup {None}, Add(s, c, name, parent)
    PROVE  Told'
<1> DEFINE row == NewRow(name, parent, "overlay")
           t == [node EXCEPT ![c] = row]
           all == Recompute(t, {c})
           tx == Tx(all, {c}, {c})
<1>1. /\ c \in Codes \ Rows(node) /\ WellFormed(node) /\ parent \in Rows(node) \cup {None}
      /\ Located(node, spot, redone)
  BY DEF Add, Rows, CityInv, Told, Inv
<1>2. Edit(s, tx)
  BY DEF Add
<1>3. TxIs(tx, all, {c}, {c}, None, None, {})
  BY TxForms
<1>4. WellFormed(t) /\ Rows(t) = Rows(node) \cup {c} /\ \A d \in Codes \ {c} : t[d] = node[d]
  <2>1. AddedAt(t, c)
    BY <1>1, AddedIs
  <2> QED
    BY <2>1 DEF AddedAt
<1> HIDE DEF t, tx
<1>5. WorkedOut(all, t, {c}) /\ Rows(all) = Rows(t)
  BY <1>4, RecomputeIs
<1>6. /\ \A d : Above(all, d) = Above(t, d)
      /\ \A d \in {c} : all[d].up = Above(t, d)
      /\ all = [d \in Codes |-> all[d]]
  BY <1>4, WorkedAbove
<1> HIDE DEF all
<1>7. \A d \in Codes \ {c} : all[d] = node[d]
  BY <1>4, <1>5 DEF WorkedOut
<1>8. After(tx) = all
  BY <1>3, <1>6, <1>7, AfterTable
<1>9. c # spot.place
  BY <1>1, PlacesAssumption DEF Located
<1>10. ASSUME NEW d \in Rows(all) \ redone
       PROVE  Keeps(all, d, redone)
  <2>1. CASE d = c
    BY <1>6, <1>9, <2>1 DEF Keeps
  <2>2. CASE d # c
    <3>1. d \in Rows(node) /\ d \in Codes \ {c} /\ all[d] = node[d]
      BY <1>4, <1>5, <1>7, <1>10, <2>2 DEF Rows
    <3>2. c \notin ToSet(Above(node, d))
      <4>1. Above(node, d) \in Seq(Rows(node))
        BY <1>1, AboveIn
      <4>2. ToSet(Above(node, d)) \subseteq Rows(node)
        BY <4>1 DEF ToSet
      <4> QED
        BY <1>1, <4>2
    <3>3. /\ \A k \in DOMAIN ParentOf(t) : ParentOf(t)[k] \in Codes
          /\ \A k \in DOMAIN ParentOf(node) : ParentOf(node)[k] \in Codes
      BY <1>1, <1>4 DEF ParentOf, WellFormed, Rows
    <3>4. /\ \A k : k # c => (k \in DOMAIN ParentOf(node) <=> k \in DOMAIN ParentOf(t))
          /\ \A k \in DOMAIN ParentOf(node) : k # c => ParentOf(node)[k] = ParentOf(t)[k]
      <4>1. \A k \in Rows(node) : t[k] = node[k]
        BY <1>1, <1>4 DEF Rows
      <4> QED
        BY <1>4, <4>1 DEF ParentOf
    <3>5. Above(t, d) = Above(node, d)
      BY <2>2, <3>2, <3>3, <3>4, WalkAside DEF Above
    <3> QED
      BY <1>6, <3>1, <3>5 DEF Keeps
  <2> QED
    BY <2>1, <2>2
<1>11. Located(all, spot, redone)
  <2>1. Rows(node) \subseteq Rows(all) /\ spot.place \in Rows(all) \cup {None}
    BY <1>1, <1>4, <1>5 DEF Located
  <2> QED
    BY <1>1, <1>10, <2>1, StaysLocated
<1>12. Tells(tx)
  <2>1. tx.redone = {} /\ tx.spot = None
    BY <1>3 DEF TxIs
  <2> QED
    BY <1>8, <1>11, <2>1 DEF Tells, SpotNext
<1> QED
  BY <1>2, <1>12, BeginsTelling DEF Edit

LEMMA ArchiveTells ==
    ASSUME CityInv, NEW s \in Sessions, NEW c \in Codes, NEW active \in BOOLEAN,
           Archive(s, c, active)
    PROVE  Told'
<1> DEFINE t == [node EXCEPT ![c].active = active, ![c].kept = Kept(node[c], {"active"})]
           tx == Tx(t, {c}, {})
<1>1. c \in Rows(node) /\ WellFormed(node) /\ Located(node, spot, redone)
  BY DEF Archive, Rows, CityInv, Told, Inv
<1>2. EditedAt(t, c)
  BY <1>1, ArchiveEdits DEF CityInv
<1>3. Edit(s, tx)
  BY DEF Archive
<1>4. TxIs(tx, t, {c}, {}, None, None, {})
  BY TxForms
<1>5. t[c].parent = node[c].parent /\ t[c].up = node[c].up
  <2>1. ASSUME NEW row \in Row, NEW kept
        PROVE  LET new == [row EXCEPT !.active = active, !.kept = kept]
               IN new.parent = row.parent /\ new.up = row.up
    BY <2>1 DEF Row
  <2>2. node[c] \in Row /\ DOMAIN node = Codes
    BY <1>1 DEF WellFormed
  <2>3. t[c] = [node[c] EXCEPT !.active = active, !.kept = Kept(node[c], {"active"})]
    BY <2>2
  <2> HIDE DEF t
  <2> QED
    BY <2>1, <2>2, <2>3
<1>6. t = [d \in Codes |-> t[d]]
  <2>1. DOMAIN node = Codes
    BY <1>1 DEF WellFormed
  <2> QED
    BY <2>1
<1> HIDE DEF t, tx
<1>7. WellFormed(t) /\ Rows(t) = Rows(node)
  BY <1>1, <1>2, EditedIs
<1>8. \A d \in Rows(t) : t[d].parent = node[d].parent /\ t[d].up = node[d].up
  BY <1>2, <1>5 DEF EditedAt, Rows
<1>9. ParentOf(t) = ParentOf(node)
  BY <1>7, <1>8 DEF ParentOf
<1>10. \A d \in Rows(t) : Keeps(t, d, redone)
  BY <1>7, <1>8, <1>9 DEF Keeps, Above
<1>11. After(tx) = t
  <2>1. \A d \in Codes \ {c} : t[d] = node[d]
    BY <1>2 DEF EditedAt
  <2> QED
    BY <1>4, <1>6, <2>1, AfterTable
<1>12. Located(t, spot, redone)
  <2>1. spot.place \in Rows(t) \cup {None}
    BY <1>1, <1>7 DEF Located
  <2> QED
    BY <1>1, <1>7, <1>10, <2>1, StaysLocated
<1>13. Tells(tx)
  <2>1. tx.redone = {} /\ tx.spot = None
    BY <1>4 DEF TxIs
  <2> QED
    BY <1>11, <1>12, <2>1 DEF Tells, SpotNext
<1> QED
  BY <1>3, <1>13, BeginsTelling DEF Edit

LEMMA SettleTells ==
    ASSUME CityInv, NEW s \in Sessions, NEW c \in Codes, Settle(s, c)
    PROVE  Told'
<1> DEFINE at == Spot(node, c)
           tx == [Tx(node, {}, {}) EXCEPT !.spot = at]
<1>1. c \in Rows(node) /\ WellFormed(node) /\ Located(node, spot, redone)
  BY DEF Settle, Rows, CityInv, Told, Inv
<1>2. Edit(s, tx)
  BY DEF Settle
<1>3. TxIs(tx, node, {}, {}, at, None, {})
  BY TxForms
<1>4. at.place = c /\ at.city = CityOf(node, c)
  BY DEF Spot
<1> HIDE DEF tx, at
<1>5. Located(node, at, redone)
  BY <1>1, <1>4 DEF Located
<1>6. node = [d \in Codes |-> node[d]]
  BY DEF CityInv, Told
<1>7. After(tx) = node
  BY <1>3, <1>6, AfterTable
<1>8. Tells(tx)
  <2>1. /\ tx.redone = {} /\ tx.spot = at /\ DOMAIN tx.rows = {}
        /\ SpotNext(tx) = IF at = None THEN spot ELSE at
    BY <1>3 DEF TxIs, SpotNext
  <2>2. Located(node, SpotNext(tx), redone)
    BY <1>1, <1>5, <2>1
  <2> QED
    BY <1>1, <1>4, <1>7, <2>1, <2>2 DEF Tells
<1> QED
  BY <1>2, <1>8, BeginsTelling DEF Edit

\* A load leaves every row right: what is on the walk that a row keeps was so before, or the row
\* is written and the record with it.
LEMMA LoadTells ==
    ASSUME CityInv, NEW s \in Sessions, NEW b \in Bundles, NEW force \in BOOLEAN,
           Load(s, b, force)
    PROVE  Told'
<1> DEFINE t == Loaded(node, b)
           changed == {c \in Rows(t) : t[c] # node[c]}
           derived == Stale(t)
           all == Recompute(t, derived)
           S == changed \cup derived
           at == SpotRefreshed(all, S)
           new == Rows(t) \ Rows(node)
           tx == [Tx(all, S, new) EXCEPT !.spot = at, !.load = b]
<1>1. WellFormed(node) /\ Wants(t, b) /\ Located(node, spot, redone)
  BY LoadedWants DEF CityInv, Told, Inv
<1>2. Begin(s, tx)
  BY DEF Load
<1>3. TxIs(tx, all, S, new, at, b, {})
  BY TxForms
<1> HIDE DEF t, tx
<1>4. WellFormed(t)
  <2>1. \A c \in Rows(t) : t[c] \in Row /\ t[c].parent \in Rows(t) \cup {None}
    BY <1>1 DEF Wants, Makes, WellFormed
  <2> QED
    BY <1>1, <2>1 DEF WellFormed, Wants
<1>5. derived \subseteq Rows(t)
  BY DEF Stale
<1>6. WorkedOut(all, t, derived) /\ WellFormed(all) /\ Rows(all) = Rows(t) /\ Stale(all) = {}
  BY <1>4, <1>5, RecomputeIs, RecomputeReads
<1>7. all = [c \in Codes |-> all[c]]
  BY DEF Recompute
<1>8. \A c \in Codes \ S : all[c] = node[c]
  <2>1. \A c \in Codes \ derived : all[c] = t[c]
    BY <1>6 DEF WorkedOut
  <2>2. \A c \in Codes \ Rows(t) : t[c] = None
    BY DEF Rows
  <2>3. \A c \in Codes \ Rows(t) : node[c] = None
    BY <1>1 DEF Wants, Rows
  <2>4. \A c \in Rows(t) \ changed : t[c] = node[c]
    OBVIOUS
  <2> QED
    BY <2>1, <2>2, <2>3, <2>4
<1>9. Rows(node) \subseteq Rows(all) /\ S \subseteq Rows(all)
  BY <1>1, <1>5, <1>6 DEF Wants, Rows
<1> HIDE DEF all, S, new
<1>10. After(tx) = all
  BY <1>3, <1>7, <1>8, AfterTable
<1>11. \A c \in Rows(all) : all[c].up = Above(all, c)
  BY <1>6, StaleIs DEF Reads
<1>12. CASE spot.place \in S
  <2>1. at = Spot(all, spot.place)
    BY <1>12 DEF SpotRefreshed
  <2>2. at.place = spot.place /\ at.city = CityOf(all, spot.place)
    BY <2>1 DEF Spot
  <2>3. at # None
    <3>1. Spot(all, spot.place) \in At
      BY <1>6, <1>9, <1>12, SpotIs
    <3> QED
      BY <2>1, <3>1, RowAssumption
  <2> HIDE DEF at
  <2>4. Located(all, at, redone)
    BY <1>9, <1>11, <1>12, <2>2 DEF Located
  <2>5. SpotNext(tx) = at /\ tx.redone = {} /\ tx.spot.place \in DOMAIN tx.rows
    BY <1>3, <1>12, <2>2, <2>3 DEF SpotNext, TxIs
  <2>6. Tells(tx)
    BY <1>10, <2>4, <2>5 DEF Tells
  <2> QED
    BY <1>2, <2>6, BeginsTelling
<1>13. CASE spot.place \notin S
  <2>1. at = None
    BY <1>13 DEF SpotRefreshed
  <2>2. SpotNext(tx) = spot /\ tx.redone = {} /\ tx.spot = None
    BY <1>3, <2>1 DEF SpotNext, TxIs
  <2>3. ASSUME NEW d \in Rows(all) \ redone
        PROVE  Keeps(all, d, redone)
    <3>1. CASE d # spot.place
      BY <1>11, <2>3, <3>1 DEF Keeps
    <3>2. CASE d = spot.place
      <4>1. d \in Rows(node) /\ d \in Codes \ S
        BY <1>1, <1>13, <2>3, <3>2, PlacesAssumption DEF Located, Rows
      <4>2. all[d] = node[d] /\ all[d].up = Above(all, d)
        BY <1>8, <1>11, <2>3, <4>1
      <4>3. node[d].up = Above(node, d) \/ ToSet(node[d].up) \cap redone # {}
        BY <1>1, <2>3, <4>1 DEF Located
      <4> QED
        BY <4>1, <4>2, <4>3 DEF Keeps
    <3> QED
      BY <3>1, <3>2
  <2>4. spot.place \in Rows(all) \cup {None}
    BY <1>1, <1>9 DEF Located
  <2>5. Located(all, spot, redone)
    BY <1>1, <1>9, <2>3, <2>4, StaysLocated
  <2>6. Tells(tx)
    BY <1>10, <2>2, <2>5 DEF Tells
  <2> QED
    BY <1>2, <2>6, BeginsTelling
<1> QED
  BY <1>12, <1>13

\* A commit that nobody overlapped leaves what it told; one that somebody overlapped has redone
\* the rows it wrote and the place of the record, and the walks that do not meet them are the same.
LEMMA CommitTells ==
    ASSUME CityInv, NEW s \in Sessions, Commit(s)
    PROVE  Told'
<1> DEFINE tx == work[s]
           R == redone \cup tx.redone \cup IF tx.alone THEN {} ELSE DOMAIN tx.rows \cup {spot'.place}
<1>1. /\ node' = After(tx) /\ spot' = SpotNext(tx) /\ redone' = R /\ MayCommit(s)
  BY DEF Commit, After, SpotNext, MayCommit
<1>2. /\ Inv /\ Tells(tx) /\ Holds(tx) /\ WellFormed(node) /\ Located(node, spot, redone)
  BY <1>1 DEF CityInv, Told, Inv
<1>3. /\ DOMAIN node' = Codes
      /\ \A c \in Codes \ DOMAIN tx.rows : node'[c] = node[c]
      /\ Rows(node') = Rows(node) \cup DOMAIN tx.rows
      /\ WellFormed(node')
  BY <1>2, RowsAfter
<1>4. (node = [c \in Codes |-> node[c]])'
  BY <1>1 DEF After
<1>5. tx.alone \in BOOLEAN
  BY <1>2 DEF Holds, IsTx
<1>6. Located(node', spot', redone')
  <2>1. CASE tx.alone = TRUE
    <3>1. Located(After(tx), SpotNext(tx), redone \cup tx.redone)
      BY <1>2, <2>1 DEF Tells
    <3>2. redone' = redone \cup tx.redone
      BY <1>1, <2>1
    <3> HIDE DEF tx, R
    <3> QED
      BY <1>1, <3>1, <3>2
  <2>2. CASE tx.alone = FALSE
    <3>1. redone \cup DOMAIN tx.rows \cup {spot'.place} \subseteq redone'
      BY <1>1, <2>2
    <3>2. spot'.place \in Rows(node') \cup {None}
      BY <1>1, <1>2, <1>3 DEF SpotNext, Tells, Located
    <3> HIDE DEF tx, R
    <3>3. ASSUME NEW d \in Rows(node') \ redone'
          PROVE  Keeps(node', d, redone')
      <4>1. /\ d \in Rows(node) /\ d \in Codes \ DOMAIN tx.rows /\ node'[d] = node[d]
            /\ d \notin redone
        BY <1>3, <3>1, <3>3 DEF Rows
      <4>2. CASE ToSet(node[d].up) \cap redone' # {}
        BY <4>1, <4>2 DEF Keeps
      <4>3. CASE ToSet(node[d].up) \cap redone' = {}
        <5>1. ToSet(node[d].up) \cap redone = {}
          BY <3>1, <4>3
        <5>2. node[d].up = Above(node, d)
          BY <1>2, <4>1, <5>1 DEF Located
        <5>3. ToSet(Above(node, d)) \cap DOMAIN tx.rows = {}
          BY <3>1, <4>3, <5>2
        <5>4. \A k \in Codes \ DOMAIN tx.rows :
                 /\ k \in Rows(node) <=> k \in Rows(node')
                 /\ k \in Rows(node) => node[k].parent = node'[k].parent
          BY <1>3
        <5>5. Above(node', d) = Above(node, d)
          BY <1>2, <1>3, <4>1, <5>3, <5>4, AboveBeside
        <5> QED
          BY <4>1, <5>5 DEF Keeps
      <4> QED
        BY <4>2, <4>3
    <3>4. Rows(node) \subseteq Rows(node') /\ redone \subseteq redone' /\ spot'.place \in redone'
      BY <1>3, <3>1
    <3> QED
      BY <1>2, <3>2, <3>3, <3>4, StaysLocated
  <2> QED
    BY <1>5, <2>1, <2>2
<1>7. ASSUME NEW u \in Sessions, MayCommit(u)'
      PROVE  Tells(work[u])'
  <2>1. MayCommit(u) /\ work'[u] = [work[u] EXCEPT !.alone = FALSE]
    BY <1>2, <1>7, OthersAfter DEF MayCommit
  <2>2. Holds(work[u]) /\ Tells(work[u])
    BY <2>1 DEF CityInv, Told, Inv
  <2>3. work'[u].alone = FALSE /\ work'[u].spot = work[u].spot /\ work'[u].rows = work[u].rows
    BY <2>1, <2>2 DEF Holds, IsTx
  <2>4. ASSUME NEW v, v.alone = FALSE,
               v.spot # None => v.spot.place \in Rows(node') \cup DOMAIN v.rows
        PROVE  Tells(v)'
    BY <2>4 DEF Tells
  <2>5. work'[u].spot # None => work'[u].spot.place \in Rows(node') \cup DOMAIN work'[u].rows
    BY <1>3, <2>2, <2>3 DEF Tells
  <2>6. ASSUME NEW v, v = work'[u] PROVE Tells(v)'
    BY <2>3, <2>4, <2>5, <2>6
  <2> QED
    BY <2>6
<1> QED
  BY <1>4, <1>6, <1>7 DEF Told

LEMMA AbortTells ==
    ASSUME CityInv, NEW s \in Sessions, Abort(s)
    PROVE  Told'
<1>1. /\ UNCHANGED <<node, source, spot, edits, raced, redone>>
      /\ work' = [work EXCEPT ![s] = None] /\ DOMAIN work = Sessions
  BY DEF Abort, CityInv, Inv
<1>2. work'[s] = None /\ \A u \in Sessions \ {s} : work'[u] = work[u]
  BY <1>1
<1>3. (node = [c \in Codes |-> node[c]])' /\ Located(node, spot, redone)'
  BY <1>1 DEF CityInv, Told
<1>4. ASSUME NEW v, Tells(v) PROVE Tells(v)'
  BY <1>1, <1>4 DEF Tells, After, SpotNext
<1>5. ASSUME NEW u \in Sessions, MayCommit(u)'
      PROVE  Tells(work[u])'
  <2>1. work'[u] = work[u] /\ MayCommit(u)
    BY <1>2, <1>5 DEF MayCommit, Idle
  <2>2. Tells(work'[u])
    BY <2>1 DEF CityInv, Told
  <2>3. ASSUME NEW v, v = work'[u] PROVE Tells(v)'
    BY <1>4, <2>2, <2>3
  <2> QED
    BY <2>3
<1> QED
  BY <1>3, <1>5 DEF Told

\* The last of three sequences is in what they make together.
LEMMA JoinedHolds ==
    ASSUME NEW S, NEW r \in Seq(S), NEW s \in Seq(S), NEW up \in Seq(S)
    PROVE  ToSet(up) \subseteq ToSet(r \o s \o up)
<1> SUFFICES ASSUME NEW i \in DOMAIN up
             PROVE  up[i] \in ToSet(r \o s \o up)
  BY DEF ToSet
<1>1. r \o s \in Seq(S) /\ i \in 1..Len(up)
  OBVIOUS
<1> DEFINE rs == r \o s
<1> HIDE DEF rs
<1>2. /\ Len(rs) + i \in DOMAIN (rs \o up)
      /\ (rs \o up)[Len(rs) + i] = up[i]
  BY <1>1 DEF rs
<1>3. up[i] \in ToSet(rs \o up)
  BY <1>2 DEF ToSet
<1> QED
  BY <1>3 DEF rs

\* A record's stored city is the one its place is in, unless a place at or above it was renamed
\* or moved by hand, or requests that wrote one overlapped: only a load reaches every record
\* under a place that moves.
THEOREM CityIsTheTrees == Spec => []CityAsInTheTree
<1>1. Init => Told
  <2> SUFFICES ASSUME Init PROVE Told
    OBVIOUS
  <2>1. /\ node = [c \in Codes |-> None] /\ Rows(node) = {} /\ \A s \in Sessions : Idle(s)
        /\ spot.place = None
    BY DEF Init, Rows, Idle
  <2>2. Located(node, spot, redone)
    BY <2>1 DEF Located
  <2>3. node = [c \in Codes |-> node[c]]
    BY <2>1
  <2> QED
    BY <2>1, <2>2, <2>3 DEF Told, MayCommit
<1>2. Inv /\ Told /\ [Next]_vars => Told'
  <2> SUFFICES ASSUME CityInv, [Next]_vars
               PROVE  Told'
    BY DEF CityInv
  <2>1. ASSUME NEW s \in Sessions, NEW c \in Codes, NEW name \in NameOf[c], Rename(s, c, name)
        PROVE  Told'
    BY <2>1, RenameTells
  <2>2. ASSUME NEW s \in Sessions, NEW c \in Codes, NEW name \in NameOf[c],
               NEW parent \in Codes \cup {None}, Add(s, c, name, parent)
        PROVE  Told'
    BY <2>2, AddTells
  <2>3. ASSUME NEW s \in Sessions, NEW c \in Codes, NEW parent \in Codes \cup {None},
               Move(s, c, parent)
        PROVE  Told'
    BY <2>3, MoveTells
  <2>4. ASSUME NEW s \in Sessions, NEW c \in Codes, NEW active \in BOOLEAN,
               Archive(s, c, active)
        PROVE  Told'
    BY <2>4, ArchiveTells
  <2>5. ASSUME NEW s \in Sessions, NEW c \in Codes, Settle(s, c)
        PROVE  Told'
    BY <2>5, SettleTells
  <2>6. ASSUME NEW s \in Sessions, NEW b \in Bundles, NEW force \in BOOLEAN, Load(s, b, force)
        PROVE  Told'
    BY <2>6, LoadTells
  <2>7. ASSUME NEW s \in Sessions, Commit(s)
        PROVE  Told'
    BY <2>7, CommitTells
  <2>8. ASSUME NEW s \in Sessions, Abort(s)
        PROVE  Told'
    BY <2>8, AbortTells
  <2>9. CASE UNCHANGED vars
    BY <2>9 DEF vars, CityInv, Told, Tells, After, SpotNext, MayCommit, Idle
  <2> QED
    BY <2>1, <2>2, <2>3, <2>4, <2>5, <2>6, <2>7, <2>8, <2>9 DEF Next
<1>3. Inv /\ Told => CityAsInTheTree
  <2> DEFINE c == spot.place
             walk == <<c>> \o Above(node, c) \o node[c].up
  <2> SUFFICES ASSUME Inv, Told, c # None, (ToSet(walk) \cup {c}) \cap redone = {}
               PROVE  spot.city = CityOf(node, c)
    BY DEF CityAsInTheTree
  <2>1. Located(node, spot, redone) /\ c \in Rows(node) /\ WellFormed(node)
    BY DEF Told, Located, Inv
  <2>2. Above(node, c) \in Seq(Codes) /\ node[c].up \in Seq(Codes) /\ <<c>> \in Seq(Codes)
    <3>1. Above(node, c) \in Seq(Rows(node)) /\ Rows(node) \subseteq Codes
      BY <2>1, AboveIn DEF Rows
    <3>2. node[c].up \in Seq(Codes) /\ c \in Codes
      BY <2>1, <3>1 DEF WellFormed, Row
    <3>3. Above(node, c) \in Seq(Codes)
      BY <3>1
    <3> QED
      BY <3>2, <3>3
  <2>3. ToSet(node[c].up) \subseteq ToSet(walk)
    BY <2>2, JoinedHolds
  <2> HIDE DEF walk
  <2>4. ({c} \cup ToSet(node[c].up)) \cap redone = {}
    BY <2>3
  <2> QED
    BY <2>1, <2>4 DEF Located
<1> QED
  BY <1>1, <1>2, <1>3, Invariance, PTL DEF Spec

-----------------------------------------------------------------------------
\* An imported pair somebody removed is archived, both ways round, as theirs.
StaysGone ==
    \A e \in N!Ends : N!Pair(e) \in dropped \ bent =>
        /\ link[e] # None /\ link[e].origin = "bundle"
        /\ "active" \in link[e].kept /\ ~link[e].active
\* What the bundle loaded last lets an imported row say.
RowFollows(row, b) ==
    row.origin = "bundle" =>
        IF row.key \in DOMAIN b
        THEN /\ "relation" \in row.kept \/ row.relation = b[row.key]
             /\ "active" \in row.kept \/ row.active
        ELSE row.kept # {}
LinksInv == N!TypeOK /\ N!BothWays /\ N!FollowsBundle /\ StaysGone

\* The table with both rows of a pair written.
BothRows(e, row) == [x \in N!Ends |-> IF x \in {e, N!Mirror(e)} THEN row ELSE link[x]]

-----------------------------------------------------------------------------
\* A pair of places has two rows, each the other's mirror.
LEMMA Mirrors ==
    ASSUME NEW e \in N!Ends
    PROVE  /\ N!Mirror(e) \in N!Ends /\ N!Mirror(e) # e /\ N!Mirror(N!Mirror(e)) = e
           /\ N!Pair(N!Mirror(e)) = N!Pair(e) /\ N!Pair(e) \in SUBSET LinkPlaces
           /\ \A x \in N!Ends : N!Pair(x) = N!Pair(e) => x \in {e, N!Mirror(e)}
<1>1. PICK p \in LinkPlaces, o \in LinkPlaces : e = <<p, o>> /\ p # o
  BY DEF N!Ends
<1>2. N!Mirror(e) = <<o, p>> /\ N!Pair(e) = {p, o}
  BY <1>1 DEF N!Mirror, N!Pair
<1>3. ASSUME NEW x \in N!Ends, N!Pair(x) = N!Pair(e) PROVE x \in {e, N!Mirror(e)}
  <2>1. PICK a \in LinkPlaces, c \in LinkPlaces : x = <<a, c>> /\ a # c
    BY DEF N!Ends
  <2>2. {a, c} = {p, o}
    BY <1>2, <1>3, <2>1 DEF N!Pair
  <2>3. (a = p /\ c = o) \/ (a = o /\ c = p)
    BY <2>1, <2>2
  <2> QED BY <1>1, <1>2, <2>1, <2>3
<1> QED BY <1>1, <1>2, <1>3 DEF N!Ends, N!Mirror, N!Pair

\* _mirror, after a row was written: both rows are what was written.
LEMMA BothWritten ==
    ASSUME N!TypeOK, NEW e \in N!Ends, NEW row
    PROVE  N!Mirrored([link EXCEPT ![e] = row], e) = BothRows(e, row)
<1> DEFINE t == [link EXCEPT ![e] = row]
<1>1. t = [x \in N!Ends |-> IF x = e THEN row ELSE link[x]]
  BY DEF N!TypeOK
<1>2. [t EXCEPT ![N!Mirror(e)] = t[e]] = [x \in N!Ends |-> IF x = N!Mirror(e) THEN t[e] ELSE t[x]]
  BY <1>1
<1> QED BY <1>1, <1>2 DEF N!Mirrored, BothRows

\* The bundle loaded last speaks of a row, not of where it stands.
LEMMA FollowsByRow ==
    N!FollowsBundle <=> (linkSource # None => \A e \in N!Ends : link[e] # None => RowFollows(link[e], linkSource))
BY DEF N!FollowsBundle, RowFollows

\* A pair both rows of which are written: what is asked of the rows is asked of the one written.
LEMMA WrittenKeeps ==
    ASSUME LinksInv, NEW e \in N!Ends, NEW row \in N!Row,
           link' = BothRows(e, row), linkSource' = linkSource, bent' = bent,
           linkSource # None => RowFollows(row, linkSource)
    PROVE  /\ link' \in [N!Ends -> N!Row \cup {None}]
           /\ N!BothWays' /\ N!FollowsBundle'
           /\ \A x \in N!Ends : N!Pair(x) # N!Pair(e) => link'[x] = link[x]
           /\ \A x \in N!Ends : N!Pair(x) = N!Pair(e) => link'[x] = row
<1>1. \A x \in N!Ends : link'[x] = IF x \in {e, N!Mirror(e)} THEN row ELSE link[x]
  BY DEF BothRows
<1>2. link' \in [N!Ends -> N!Row \cup {None}]
  BY DEF BothRows, LinksInv, N!TypeOK
<1>3. \A x \in N!Ends : x \in {e, N!Mirror(e)} <=> N!Pair(x) = N!Pair(e)
  BY Mirrors
<1>4. N!BothWays'
  <2>1. ASSUME NEW x \in N!Ends, N!Pair(x) \notin bent PROVE link'[x] = link'[N!Mirror(x)]
    <3>1. N!Mirror(x) \in N!Ends /\ N!Pair(N!Mirror(x)) = N!Pair(x)
      BY Mirrors
    <3>2. link[x] = link[N!Mirror(x)]
      BY <2>1 DEF LinksInv, N!BothWays
    <3> QED BY <1>1, <1>3, <3>1, <3>2
  <2> QED BY <2>1 DEF N!BothWays
<1>5. N!FollowsBundle'
  <2>1. linkSource # None => \A x \in N!Ends : link'[x] # None => RowFollows(link'[x], linkSource)
    BY <1>1, FollowsByRow DEF LinksInv
  <2> QED BY <2>1 DEF N!FollowsBundle, RowFollows
<1> QED BY <1>1, <1>2, <1>3, <1>4, <1>5

-----------------------------------------------------------------------------
\* A person's change counts.
LEMMA PairCounted ==
    ASSUME MaxLinkEdits \in Nat, LinksInv, linkEdits < MaxLinkEdits, linkEdits' = linkEdits + 1
    PROVE  linkEdits' \in 0..MaxLinkEdits
BY DEF LinksInv, N!TypeOK

LEMMA CreateKeeps ==
    ASSUME MaxLinkEdits \in Nat, LinksInv, NEW e \in N!Ends, NEW relation \in N!Relations, N!Create(e, relation)
    PROVE  LinksInv'
<1> DEFINE row == [relation |-> relation, active |-> TRUE, origin |-> "overlay", key |-> None,
                   kept |-> {}]
<1>1. row \in N!Row
  BY DEF N!Row, N!Origins, N!Carried
<1>2. /\ link[e] = None /\ link' = BothRows(e, row) /\ linkSource' = linkSource
      /\ linkEdits < MaxLinkEdits /\ linkEdits' = linkEdits + 1 /\ bent' = bent /\ dropped' = dropped
  BY BothWritten, Zenon DEF N!Create, N!Change, LinksInv
<1>3. RowFollows(row, linkSource)
  BY DEF RowFollows
<1> HIDE DEF row
<1>4. /\ link' \in [N!Ends -> N!Row \cup {None}] /\ N!BothWays' /\ N!FollowsBundle'
      /\ \A x \in N!Ends : N!Pair(x) # N!Pair(e) => link'[x] = link[x]
  BY <1>1, <1>2, <1>3, WrittenKeeps
<1>5. StaysGone'
  <2>1. N!Pair(e) \notin dropped \ bent
    BY <1>2 DEF LinksInv, StaysGone
  <2> QED BY <1>2, <1>4, <2>1 DEF StaysGone, LinksInv
<1>6. N!TypeOK'
  BY <1>2, <1>4, PairCounted DEF LinksInv, N!TypeOK
<1> QED BY <1>4, <1>5, <1>6 DEF LinksInv

\* The row once somebody changed what may be changed of it.
ChangedLink(row, relation, active, touched) ==
    N!Written(row, [row EXCEPT !.relation = relation, !.active = active], touched)

\* What such a change leaves: the bundle says of the row what it said, or somebody took it over.
TheirsNow(row, relation, active, touched, new) ==
    /\ new \in N!Row /\ \A b : RowFollows(row, b) => RowFollows(new, b)
    /\ new.relation = relation /\ new.active = active /\ new.origin = row.origin
    /\ row.origin = "bundle" => touched \subseteq new.kept

\* A change somebody makes to a row that is there is a row, and theirs where it was imported.
LEMMA WrittenRow ==
    ASSUME NEW row \in N!Row, NEW relation \in N!Relations, NEW active \in BOOLEAN,
           NEW touched \in SUBSET N!Carried,
           relation # row.relation => "relation" \in touched,
           active # row.active => "active" \in touched,
           NEW new, new = ChangedLink(row, relation, active, touched)
    PROVE  TheirsNow(row, relation, active, touched, new)
<1>1. /\ new.relation = relation /\ new.active = active /\ new.origin = row.origin /\ new.key = row.key
      /\ new.kept = (IF row.origin = "bundle" THEN row.kept \cup touched ELSE row.kept)
      /\ new \in N!Row
  BY DEF ChangedLink, N!Written, N!Row
<1> QED BY <1>1 DEF RowFollows, N!Row, TheirsNow

LEMMA RelateKeeps ==
    ASSUME MaxLinkEdits \in Nat, LinksInv, NEW e \in N!Ends, NEW relation \in N!Relations, N!Relate(e, relation)
    PROVE  LinksInv'
<1>1. link[e] \in N!Row /\ link[e] # None /\ link[e].active
  BY DEF N!Relate, N!Shown, LinksInv, N!TypeOK
<1> DEFINE row == N!Written(link[e], [link[e] EXCEPT !.relation = relation], {"relation"})
<1>2. /\ link' = BothRows(e, row) /\ linkSource' = linkSource
      /\ linkEdits < MaxLinkEdits /\ linkEdits' = linkEdits + 1 /\ bent' = bent /\ dropped' = dropped
  BY BothWritten, Zenon DEF N!Relate, N!Change, LinksInv
<1>3. row = ChangedLink(link[e], relation, link[e].active, {"relation"})
  BY <1>1 DEF N!Row, ChangedLink
<1>4. linkSource # None => RowFollows(link[e], linkSource)
  BY <1>1, FollowsByRow DEF LinksInv
<1> HIDE DEF row
<1>5. row \in N!Row /\ (linkSource # None => RowFollows(row, linkSource))
  <2>1. link[e].active \in BOOLEAN /\ {"relation"} \in SUBSET N!Carried
    BY <1>1 DEF N!Row, N!Carried
  <2>2. TheirsNow(link[e], relation, link[e].active, {"relation"}, row)
    BY <1>1, <1>3, <2>1, WrittenRow
  <2> QED BY <1>4, <2>2 DEF TheirsNow
<1>6. /\ link' \in [N!Ends -> N!Row \cup {None}] /\ N!BothWays' /\ N!FollowsBundle'
      /\ \A x \in N!Ends : N!Pair(x) # N!Pair(e) => link'[x] = link[x]
  BY <1>2, <1>5, WrittenKeeps
<1>7. StaysGone'
  <2>1. N!Pair(e) \notin dropped \ bent
    BY <1>1 DEF LinksInv, StaysGone
  <2> QED BY <1>2, <1>6, <2>1 DEF StaysGone, LinksInv
<1>8. N!TypeOK'
  BY <1>2, <1>6, PairCounted DEF LinksInv, N!TypeOK
<1> QED BY <1>6, <1>7, <1>8 DEF LinksInv

\* The row is made to name another neighbour: both its pairs are bent from now on.
LEMMA RepointKeeps ==
    ASSUME MaxLinkEdits \in Nat, LinksInv, NEW e \in N!Ends, NEW other \in LinkPlaces, N!Repoint(e, other)
    PROVE  LinksInv'
<1> DEFINE to == <<e[1], other>>
<1>1. /\ link[e] # None /\ to \in N!Ends /\ link[to] = None
      /\ link' = N!Mirrored([link EXCEPT ![e] = None, ![to] = link[e]], to)
      /\ linkEdits < MaxLinkEdits /\ linkEdits' = linkEdits + 1 /\ linkSource' = linkSource
      /\ bent' = bent \cup {N!Pair(e), N!Pair(to)} /\ dropped' = dropped
  BY DEF N!Repoint, N!Change, N!Shown
<1>2. link[e] \in N!Row /\ to # e
  BY <1>1 DEF LinksInv, N!TypeOK
<1> HIDE DEF to
<1> DEFINE t == [link EXCEPT ![e] = None, ![to] = link[e]]
<1>3. /\ t = [x \in N!Ends |-> IF x = to THEN link[e] ELSE IF x = e THEN None ELSE link[x]]
      /\ t[to] = link[e] /\ t[N!Mirror(to)] \in N!Row \cup {None}
  BY <1>1, <1>2, Mirrors DEF LinksInv, N!TypeOK
<1>4. link' = [x \in N!Ends |-> IF x = N!Mirror(to) THEN link[e] ELSE t[x]]
  BY <1>1, <1>3 DEF N!Mirrored
<1> HIDE DEF t
<1>5. \A x \in N!Ends : link'[x] = IF x \in {to, N!Mirror(to)} THEN link[e] ELSE IF x = e THEN None ELSE link[x]
  BY <1>3, <1>4
<1>6. link' \in [N!Ends -> N!Row \cup {None}]
  BY <1>2, <1>3, <1>4 DEF LinksInv, N!TypeOK
<1>7. \A x \in N!Ends : N!Pair(x) \notin {N!Pair(e), N!Pair(to)} => link'[x] = link[x]
  BY <1>1, <1>5, Mirrors
<1>8. N!BothWays'
  <2>1. ASSUME NEW x \in N!Ends, N!Pair(x) \notin bent' PROVE link'[x] = link'[N!Mirror(x)]
    <3>1. N!Mirror(x) \in N!Ends /\ N!Pair(N!Mirror(x)) = N!Pair(x)
      BY Mirrors
    <3>2. N!Pair(x) \notin {N!Pair(e), N!Pair(to)} /\ N!Pair(x) \notin bent
      BY <1>1, <2>1
    <3>3. link[x] = link[N!Mirror(x)]
      BY <3>2 DEF LinksInv, N!BothWays
    <3> QED BY <1>7, <3>1, <3>2, <3>3
  <2> QED BY <2>1 DEF N!BothWays
<1>9. N!FollowsBundle'
  <2>1. linkSource # None => \A x \in N!Ends : link'[x] # None => RowFollows(link'[x], linkSource)
    BY <1>1, <1>5, FollowsByRow DEF LinksInv
  <2> QED BY <1>1, <2>1 DEF N!FollowsBundle, RowFollows
<1>10. StaysGone'
  BY <1>1, <1>7 DEF StaysGone, LinksInv
<1>11. N!TypeOK'
  <2>1. {N!Pair(e), N!Pair(to)} \subseteq SUBSET LinkPlaces
    <3>1. N!Pair(e) \in SUBSET LinkPlaces
      BY Mirrors
    <3>2. N!Pair(to) \in SUBSET LinkPlaces
      BY <1>1, Mirrors
    <3> QED BY <3>1, <3>2
  <2>2. bent' \subseteq SUBSET LinkPlaces /\ dropped' \subseteq SUBSET LinkPlaces
    BY <1>1, <2>1 DEF LinksInv, N!TypeOK
  <2>3. linkEdits' \in 0..MaxLinkEdits
    BY <1>1, PairCounted
  <2> QED BY <1>1, <1>6, <2>2, <2>3 DEF LinksInv, N!TypeOK
<1> QED BY <1>8, <1>9, <1>10, <1>11 DEF LinksInv

LEMMA RemoveKeeps ==
    ASSUME MaxLinkEdits \in Nat, None \notin N!Row, LinksInv, NEW e \in N!Ends, N!Remove(e)
    PROVE  LinksInv'
<1>1. link[e] \in N!Row /\ link[e] # None /\ link[e].active
  BY DEF N!Remove, N!Shown, LinksInv, N!TypeOK
<1>2. /\ linkEdits < MaxLinkEdits /\ linkEdits' = linkEdits + 1 /\ linkSource' = linkSource /\ bent' = bent
  BY Zenon DEF N!Remove, N!Change
<1>3. CASE link[e].origin = "bundle"
  <2> DEFINE row == N!Written(link[e], [link[e] EXCEPT !.active = FALSE], {"active"})
  <2>1. link' = BothRows(e, row) /\ dropped' = dropped \cup {N!Pair(e)}
    BY <1>3, BothWritten, Zenon DEF N!Remove, N!Change, LinksInv
  <2>2. row = ChangedLink(link[e], link[e].relation, FALSE, {"active"})
    BY <1>1 DEF N!Row, ChangedLink
  <2>3. linkSource # None => RowFollows(link[e], linkSource)
    BY <1>1, FollowsByRow DEF LinksInv
  <2> HIDE DEF row
  <2>4. link[e].relation \in N!Relations /\ {"active"} \in SUBSET N!Carried
    BY <1>1 DEF N!Row, N!Carried
  <2>5. /\ row \in N!Row /\ ~row.active /\ row.origin = "bundle" /\ "active" \in row.kept
        /\ linkSource # None => RowFollows(row, linkSource)
    <3>1. TheirsNow(link[e], link[e].relation, FALSE, {"active"}, row)
      BY <1>1, <2>2, <2>4, WrittenRow
    <3> QED BY <1>3, <2>3, <3>1 DEF TheirsNow
  <2>6. /\ link' \in [N!Ends -> N!Row \cup {None}] /\ N!BothWays' /\ N!FollowsBundle'
        /\ \A x \in N!Ends : N!Pair(x) # N!Pair(e) => link'[x] = link[x]
        /\ \A x \in N!Ends : N!Pair(x) = N!Pair(e) => link'[x] = row
    BY <1>2, <2>1, <2>5, WrittenKeeps
  <2>7. StaysGone'
    <3>1. row # None
      BY <2>5
    <3> QED BY <1>2, <2>1, <2>5, <2>6, <3>1 DEF StaysGone, LinksInv
  <2>8. N!TypeOK'
    BY <1>2, <2>1, <2>6, PairCounted, Mirrors DEF LinksInv, N!TypeOK
  <2> QED BY <2>6, <2>7, <2>8 DEF LinksInv
<1>4. CASE link[e].origin # "bundle"
  <2> DEFINE left == IF N!Shown(N!Mirror(e)) THEN None ELSE link[N!Mirror(e)]
  <2>1. /\ link' = [link EXCEPT ![e] = None, ![N!Mirror(e)] = left] /\ dropped' = dropped
    BY <1>4, Mirrors DEF N!Remove, N!Change, LinksInv, N!TypeOK
  <2>2. \A x \in N!Ends : link'[x] = IF x = N!Mirror(e) THEN left ELSE IF x = e THEN None ELSE link[x]
    BY <2>1, Mirrors DEF LinksInv, N!TypeOK
  <2>3. link' \in [N!Ends -> N!Row \cup {None}]
    BY <2>1, Mirrors DEF LinksInv, N!TypeOK
  <2>4. left \in {None, link[N!Mirror(e)]}
    OBVIOUS
  <2>5. N!BothWays'
    <3>1. ASSUME NEW x \in N!Ends, N!Pair(x) \notin bent PROVE link'[x] = link'[N!Mirror(x)]
      <4>1. N!Mirror(x) \in N!Ends /\ N!Pair(N!Mirror(x)) = N!Pair(x) /\ N!Mirror(N!Mirror(x)) = x
        BY Mirrors
      <4>2. link[x] = link[N!Mirror(x)]
        BY <3>1 DEF LinksInv, N!BothWays
      <4>3. CASE x \in {e, N!Mirror(e)}
        <5>1. N!Shown(N!Mirror(e))
          <6>1. link[N!Mirror(e)] = link[e]
            BY <3>1, <4>1, <4>2, <4>3, Mirrors
          <6> QED BY <1>1, <6>1 DEF N!Shown
        <5>2. left = None
          BY <5>1
        <5> QED BY <2>2, <4>1, <4>3, <5>2, Mirrors
      <4>4. CASE x \notin {e, N!Mirror(e)}
        <5>1. N!Mirror(x) \notin {e, N!Mirror(e)}
          BY <4>1, <4>4, Mirrors
        <5> QED BY <2>2, <4>1, <4>2, <4>4, <5>1
      <4> QED BY <4>3, <4>4
    <3> QED BY <1>2, <3>1 DEF N!BothWays
  <2>6. N!FollowsBundle'
    <3>1. linkSource # None => \A x \in N!Ends : link'[x] # None => RowFollows(link'[x], linkSource)
      BY <2>2, <2>4, FollowsByRow, Mirrors DEF LinksInv
    <3> QED BY <1>2, <3>1 DEF N!FollowsBundle, RowFollows
  <2>7. StaysGone'
    <3>1. N!Pair(e) \notin dropped \ bent
      BY <1>1 DEF LinksInv, StaysGone
    <3>2. \A x \in N!Ends : N!Pair(x) # N!Pair(e) => link'[x] = link[x]
      BY <2>2, Mirrors
    <3> QED BY <1>2, <2>1, <3>1, <3>2 DEF StaysGone, LinksInv
  <2>8. N!TypeOK'
    BY <1>2, <2>1, <2>3, PairCounted DEF LinksInv, N!TypeOK
  <2> QED BY <2>5, <2>6, <2>7, <2>8 DEF LinksInv
<1> QED BY <1>3, <1>4

-----------------------------------------------------------------------------
\* A load does to a row what the row and its pair say, whichever way round the row stands.
LoadedRow(row, pair, imported, b) ==
    IF row # None /\ row.origin = "bundle" /\ row.key \notin DOMAIN b /\ row.kept = {} THEN None
    ELSE IF row = None
    THEN IF imported
         THEN [relation |-> b[pair], active |-> TRUE, origin |-> "bundle", key |-> pair, kept |-> {}]
         ELSE None
    ELSE IF row.origin = "bundle" /\ row.key \in DOMAIN b THEN N!Updated(row, b[row.key])
    ELSE row

LEMMA LoadsByRow ==
    ASSUME NEW b, NEW e \in N!Ends
    PROVE  N!Loaded(b)[e] = LoadedRow(link[e], N!Pair(e), N!Pair(e) \in N!Imports(b), b)
BY Zenon DEF N!Loaded, LoadedRow, N!Retired

\* What a load leaves of a row.
RowLoaded(row, b, new) ==
    /\ new = None \/ (new \in N!Row /\ RowFollows(new, b))
    /\ row # None /\ row.origin = "bundle" /\ "active" \in row.kept /\ ~row.active
       => new # None /\ new.origin = "bundle" /\ "active" \in new.kept /\ ~new.active

LEMMA LoadsRow ==
    ASSUME N!BundlesRelate, None \notin N!Row, NEW b \in LinkBundles, NEW row \in N!Row \cup {None},
           NEW pair \in SUBSET LinkPlaces, NEW imported, imported => pair \in DOMAIN b,
           NEW new, new = LoadedRow(row, pair, imported, b)
    PROVE  RowLoaded(row, b, new)
<1>1. \A key \in DOMAIN b : b[key] \in N!Relations
  BY DEF N!BundlesRelate
<1>2. CASE row # None /\ row.origin = "bundle" /\ row.key \notin DOMAIN b /\ row.kept = {}
  BY <1>2 DEF LoadedRow, RowLoaded
<1>3. CASE row = None /\ imported
  <2>1. /\ new = [relation |-> b[pair], active |-> TRUE, origin |-> "bundle", key |-> pair, kept |-> {}]
        /\ b[pair] \in N!Relations
    BY <1>1, <1>3 DEF LoadedRow
  <2>2. new \in N!Row
    BY <2>1 DEF N!Row, N!Origins
  <2>3. new.key = pair /\ new.relation = b[pair] /\ new.active = TRUE
    BY <2>1
  <2>4. RowFollows(new, b)
    BY <1>3, <2>3 DEF RowFollows
  <2> QED BY <1>3, <2>2, <2>4 DEF RowLoaded
<1>4. CASE row = None /\ ~imported
  BY <1>4 DEF LoadedRow, RowLoaded
<1>5. CASE row # None /\ row.origin = "bundle" /\ row.key \in DOMAIN b
  <2>1. new = N!Updated(row, b[row.key]) /\ row \in N!Row /\ b[row.key] \in N!Relations
    BY <1>1, <1>5 DEF LoadedRow
  <2>2. /\ new.relation = (IF "relation" \in row.kept THEN row.relation ELSE b[row.key])
        /\ new.active = (IF "active" \in row.kept THEN row.active ELSE TRUE)
        /\ new.origin = row.origin /\ new.key = row.key /\ new.kept = row.kept
        /\ new \in N!Row
    BY <2>1 DEF N!Updated, N!Row
  <2> QED BY <1>5, <2>2 DEF RowLoaded, RowFollows
<1>6. CASE row # None /\ (row.origin # "bundle" \/ (row.key \notin DOMAIN b /\ row.kept # {}))
  <2>1. new = row
    BY <1>6 DEF LoadedRow
  <2> QED BY <1>6, <2>1 DEF RowLoaded, RowFollows
<1> QED BY <1>2, <1>3, <1>4, <1>5, <1>6

LEMMA LoadKeeps ==
    ASSUME N!BundlesRelate, None \notin N!Row, LinksInv, NEW b \in LinkBundles, N!Load(b)
    PROVE  LinksInv'
<1>1. /\ \A e \in N!Ends : link'[e] = LoadedRow(link[e], N!Pair(e), N!Pair(e) \in N!Imports(b), b)
      /\ DOMAIN link' = N!Ends /\ link' = [e \in N!Ends |-> link'[e]]
  <2>1. link' = N!Loaded(b)
    BY DEF N!Load
  <2>2. DOMAIN link' = N!Ends /\ link' = [e \in N!Ends |-> link'[e]]
    BY <2>1, Zenon DEF N!Loaded
  <2> QED BY <2>1, <2>2, LoadsByRow
<1>2. linkSource' = b /\ linkEdits' = linkEdits /\ bent' = bent /\ dropped' = dropped
  BY DEF N!Load
<1>3. ASSUME NEW e \in N!Ends PROVE RowLoaded(link[e], b, link'[e])
  <2>1. link[e] \in N!Row \cup {None} /\ N!Pair(e) \in SUBSET LinkPlaces
    BY Mirrors DEF LinksInv, N!TypeOK
  <2>2. N!Pair(e) \in N!Imports(b) => N!Pair(e) \in DOMAIN b
    BY DEF N!Imports
  <2> QED BY <1>1, <2>1, <2>2, LoadsRow
<1>4. link' \in [N!Ends -> N!Row \cup {None}]
  BY <1>1, <1>3 DEF RowLoaded
<1>5. N!BothWays'
  <2>1. ASSUME NEW e \in N!Ends, N!Pair(e) \notin bent PROVE link'[e] = link'[N!Mirror(e)]
    <3>1. N!Mirror(e) \in N!Ends /\ N!Pair(N!Mirror(e)) = N!Pair(e)
      BY Mirrors
    <3>2. link[e] = link[N!Mirror(e)]
      BY <2>1 DEF LinksInv, N!BothWays
    <3> QED BY <1>1, <3>1, <3>2
  <2> QED BY <1>2, <2>1 DEF N!BothWays
<1>6. N!FollowsBundle'
  <2>1. \A e \in N!Ends : link'[e] # None => RowFollows(link'[e], b)
    BY <1>3 DEF RowLoaded
  <2> QED BY <1>2, <2>1 DEF N!FollowsBundle, RowFollows
<1>7. StaysGone'
  <2>1. ASSUME NEW e \in N!Ends, N!Pair(e) \in dropped \ bent
        PROVE  /\ link'[e] # None /\ link'[e].origin = "bundle"
               /\ "active" \in link'[e].kept /\ ~link'[e].active
    <3>1. /\ link[e] # None /\ link[e].origin = "bundle" /\ "active" \in link[e].kept /\ ~link[e].active
      BY <2>1 DEF LinksInv, StaysGone
    <3> QED BY <1>3, <3>1 DEF RowLoaded
  <2> QED BY <1>2, <2>1 DEF StaysGone
<1>8. N!TypeOK'
  BY <1>2, <1>4 DEF LinksInv, N!TypeOK
<1> QED BY <1>5, <1>6, <1>7, <1>8 DEF LinksInv

-----------------------------------------------------------------------------
LEMMA InitKeeps == ASSUME N!Tables, N!Init PROVE LinksInv
<1>1. link \in [N!Ends -> N!Row \cup {None}] /\ \A e \in N!Ends : link[e] = None
  BY DEF N!Init
<1>2. linkSource = None /\ linkEdits = 0 /\ bent = {} /\ dropped = {}
  BY DEF N!Init
<1>3. N!TypeOK
  BY <1>1, <1>2 DEF N!TypeOK, N!Tables
<1>4. N!BothWays
  BY <1>1, Mirrors DEF N!BothWays
<1>5. N!FollowsBundle
  BY <1>2 DEF N!FollowsBundle
<1>6. StaysGone
  BY <1>2 DEF StaysGone
<1> QED BY <1>3, <1>4, <1>5, <1>6 DEF LinksInv

LEMMA StepKeeps == ASSUME N!Tables, LinksInv, [N!Next]_links PROVE LinksInv'
<1>1. CASE UNCHANGED links
  <2>1. UNCHANGED link /\ UNCHANGED linkSource /\ UNCHANGED linkEdits /\ UNCHANGED bent /\ UNCHANGED dropped
    BY <1>1 DEF links
  <2> QED BY <2>1 DEF LinksInv, N!TypeOK, N!BothWays, N!FollowsBundle, StaysGone
<1>2. CASE N!Next
  <2>1. ASSUME NEW e \in N!Ends, NEW relation \in N!Relations, N!Create(e, relation) PROVE LinksInv'
    BY <2>1, CreateKeeps DEF N!Tables
  <2>2. ASSUME NEW e \in N!Ends, NEW relation \in N!Relations, N!Relate(e, relation) PROVE LinksInv'
    BY <2>2, RelateKeeps DEF N!Tables
  <2>3. ASSUME NEW e \in N!Ends, NEW other \in LinkPlaces, N!Repoint(e, other) PROVE LinksInv'
    BY <2>3, RepointKeeps DEF N!Tables
  <2>4. ASSUME NEW e \in N!Ends, N!Remove(e) PROVE LinksInv'
    BY <2>4, RemoveKeeps DEF N!Tables
  <2>5. ASSUME NEW b \in LinkBundles, N!Load(b) PROVE LinksInv'
    BY <2>5, LoadKeeps DEF N!Tables
  <2> QED BY <1>2, <2>1, <2>2, <2>3, <2>4, <2>5 DEF N!Next
<1> QED BY <1>1, <1>2

\* A step of the whole is one of the table of neighbours, or leaves it alone.
LEMMA LinksStep == [TablesNext]_tables => [N!Next]_links
BY DEF TablesNext, tables, links

\* The invariant holds whatever people and bundles do to the table of neighbours.
THEOREM LinksInvariance == TablesSpec => []LinksInv
<1>1. TablesInit => LinksInv
  BY InitKeeps, LinksAssumption DEF TablesInit
<1>2. LinksInv /\ [TablesNext]_tables => LinksInv'
  <2> SUFFICES ASSUME LinksInv, [TablesNext]_tables PROVE LinksInv'
    OBVIOUS
  <2>1. [N!Next]_links
    BY LinksStep
  <2> QED BY <2>1, StepKeeps, LinksAssumption
<1> QED BY <1>1, <1>2, PTL DEF TablesSpec

\* "What places are near here?" has the same answer from both sides (link.py): the two rows of a pair
\* say the same, down to who decided what, unless a row was re-pointed from the pair or to it.
THEOREM SameFromBothSides == TablesSpec => []BothWays
<1>1. LinksInv => BothWays
  BY DEF LinksInv, BothWays
<1> QED BY <1>1, LinksInvariance, PTL

\* No load brings back a neighbour somebody removed, and every other imported row is what the bundle
\* loaded last says, except for what somebody took over (link.py, place_load.py).
THEOREM LoadsFollowPeople == TablesSpec => []LinksFollow
<1>1. LinksInv => LinksFollow
  BY DEF LinksInv, LinksFollow, N!LinksFollow, N!RemovedStays, StaysGone, N!Shown
<1> QED BY <1>1, LinksInvariance, PTL

-----------------------------------------------------------------------------
(***************************************************************************)
(* The responder's answers.  What is in the cache was said to somebody with the  *)
(* same words by the index of the generation in its key, and the language to fall *)
(* back to is the default one of a load that is served or about to be.            *)
(***************************************************************************)
Bodies == {None, <<>>} \cup {A!Said(g, lang, q) : g \in Nat, lang \in A!Languages, q \in Queries}
Keys == Nat \X A!Languages \X {WordsOf[q] : q \in Queries}
Request == [at : {"asked", "indexed", "waiting", "searching", "answered", "busy", "unready"},
            map : Nat, lang : A!Languages, q : Queries, body : Bodies]
\* A body that is right for these words, of a generation and in a language.
Right(body, g, lang, q, broken) == body = A!Said(g, lang, q) \/ <<g, lang, CodeReadIn[q]>> \in broken
SaidTo(e, broken) ==
    \E g \in Nat, lang \in A!Languages, q \in Queries :
        e.key = <<g, lang, WordsOf[q]>> /\ Right(e.body, g, lang, q, broken)
Entries(broken) == {e \in [key : Keys, body : Bodies] : SaidTo(e, broken)}
\* A request that is where it may be.
NotYet(g, read) == g = 0 \/ \E h \in (g + 1)..Len(read) : read[h][1] # read[g][1]
Fine(c, read, now, broken) ==
    /\ c \in Request /\ c.map <= now
    /\ c.at # "unready" => c.map > 0
    /\ c.at = "answered" => A!Ambiguous(c.q) \/ Right(c.body, c.map, c.lang, c.q, broken)
    /\ c.at = "unready" => NotYet(c.map, read)
\* A language to fall back to is the default one of a load since the one served.
Falls(lang, read, now) == \E h \in now..Len(read) : lang = read[h][1]
AnswersInv ==
    /\ loads \in Seq(Loads)
    /\ current \in Nat /\ current <= Len(loads)
    /\ current > 0 => Falls(fallback, loads, current)
    /\ loading = "fallback" /\ Len(loads) > 0 => fallback = loads[Len(loads)][1]
    /\ DOMAIN client = Clients
    /\ \A r \in Clients : client[r] # None => Fine(client[r], loads, current, torn)
    /\ cache \in Seq(Entries(torn))

\* What was read, served or disordered stays so.
LEMMA FineStays ==
    ASSUME NEW read \in Seq(Loads), NEW more \in Seq(Loads), NEW now \in Nat, NEW next \in Nat,
           NEW broken, NEW worse, Len(read) <= Len(more), \A h \in 1..Len(read) : more[h] = read[h],
           now <= next, now <= Len(read), broken \subseteq worse, NEW c, Fine(c, read, now, broken)
    PROVE  Fine(c, more, next, worse)
<1>1. c \in Request /\ c.map <= now /\ (c.at # "unready" => c.map > 0)
  BY DEF Fine
<1>2. c.map \in Nat /\ c.map <= next
  BY <1>1 DEF Request
<1>3. c.at = "answered" => A!Ambiguous(c.q) \/ Right(c.body, c.map, c.lang, c.q, worse)
  BY DEF Fine, Right
<1>4. c.at = "unready" => NotYet(c.map, more)
  <2>1. SUFFICES ASSUME c.at = "unready", c.map # 0 PROVE NotYet(c.map, more)
    BY DEF NotYet
  <2>2. PICK h \in (c.map + 1)..Len(read) : read[h][1] # read[c.map][1]
    BY <2>1 DEF Fine, NotYet
  <2>3. h \in 1..Len(read) /\ c.map \in 1..Len(read) /\ h \in (c.map + 1)..Len(more)
    BY <1>1, <1>2, <2>1
  <2>4. more[h][1] # more[c.map][1]
    BY <2>2, <2>3
  <2> QED BY <2>3, <2>4 DEF NotYet
<1> QED BY <1>1, <1>2, <1>3, <1>4 DEF Fine

LEMMA EntriesStay == ASSUME NEW broken, NEW worse, broken \subseteq worse PROVE Entries(broken) \subseteq Entries(worse)
BY DEF Entries, SaidTo, Right

\* The entry of a key, when there is one, is an entry of that key.
LEMMA Found ==
    ASSUME cache \in Seq(Entries(torn)), NEW key, NEW i, i = A!InCache(key)
    PROVE  i \in 0..Len(cache) /\ (i # 0 => cache[i].key = key)
<1> DEFINE I == {j \in 1..Len(cache) : cache[j].key = key}
<1>1. i = IF I # {} THEN A!Min(I) ELSE 0
  BY DEF A!InCache, A!SelectInSeq
<1>2. Len(cache) \in Nat /\ I \subseteq 1..Len(cache)
  OBVIOUS
<1>3. I # {} => A!Min(I) \in I
  <2> HIDE DEF I
  <2>1. I # {} => \E m \in I : \A y \in I : m <= y
    BY <1>2, LeastFrom
  <2> QED BY <2>1 DEF A!Min
<1> QED BY <1>1, <1>2, <1>3

\* The cache holds what it held and the entry that was set.
LEMMA Set ==
    ASSUME cache \in Seq(Entries(torn)), NEW E, Entries(torn) \subseteq E, NEW e \in E
    PROVE  A!Foremost(e) \in Seq(E)
<1> DEFINE n == Len(cache)
<1>1. n \in Nat /\ \A j \in 1..n : cache[j] \in E
  OBVIOUS
<1>2. ASSUME NEW i, i = A!InCache(e.key), NEW m, m = (IF i = 0 /\ n < CacheSize THEN n + 1 ELSE n)
      PROVE  A!Foremost(e) \in Seq(E)
  <2> DEFINE f == [j \in 1..m |-> IF j = 1 THEN e ELSE IF i = 0 \/ j <= i THEN cache[j - 1] ELSE cache[j]]
  <2>1. A!Foremost(e) = f
    BY <1>2 DEF A!Foremost
  <2>2. i \in 0..n
    BY <1>2, Found
  <2>3. m \in Nat /\ m <= n + 1 /\ (i # 0 => m = n)
    BY <1>1, <1>2
  <2>4. ASSUME NEW j \in 1..m PROVE f[j] \in E
    <3>1. CASE j = 1 BY <3>1
    <3>2. CASE j # 1 /\ (i = 0 \/ j <= i)
      <4>1. j - 1 \in 1..n BY <1>1, <2>2, <2>3, <3>2
      <4> QED BY <1>1, <3>2, <4>1
    <3>3. CASE j # 1 /\ ~(i = 0 \/ j <= i)
      <4>1. j \in 1..n BY <1>1, <2>2, <2>3, <3>3
      <4> QED BY <1>1, <3>3, <4>1
    <3> QED BY <3>1, <3>2, <3>3
  <2>5. f \in [1..m -> E]
    <3>1. f = [j \in 1..m |-> f[j]]
      OBVIOUS
    <3> HIDE DEF f
    <3> QED BY <2>4, <3>1
  <2> HIDE DEF f
  <2> QED BY <2>1, <2>3, <2>5
<1> QED BY <1>2

\* A step of one request, which leaves it where it may be, and the cache with what was said.
LEMMA OneMoves ==
    ASSUME AnswersInv, NEW r \in Clients, NEW c, A!Becomes(r, c),
           torn \subseteq torn', c # None => Fine(c, loads, current, torn'), cache' \in Seq(Entries(torn'))
    PROVE  AnswersInv'
<1>1. UNCHANGED loads /\ UNCHANGED loading /\ UNCHANGED current /\ UNCHANGED fallback
  BY DEF A!Becomes
<1>2. client' = [client EXCEPT ![r] = c]
  BY DEF A!Becomes
<1>3. DOMAIN client' = Clients
  BY <1>2 DEF AnswersInv
<1>4. ASSUME NEW s \in Clients, client'[s] # None PROVE Fine(client'[s], loads, current, torn')
  <2>1. CASE s = r BY <1>2, <1>4, <2>1 DEF AnswersInv
  <2>2. CASE s # r
    <3>1. client'[s] = client[s] BY <1>2, <2>2 DEF AnswersInv
    <3>2. Fine(client[s], loads, current, torn) BY <1>4, <3>1 DEF AnswersInv
    <3>3. loads \in Seq(Loads) /\ current \in Nat /\ current <= Len(loads) BY DEF AnswersInv
    <3>4. Len(loads) \in Nat BY <3>3
    <3> QED BY <3>1, <3>2, <3>3, <3>4, FineStays
  <2> QED BY <2>1, <2>2
<1> QED BY <1>1, <1>3, <1>4 DEF AnswersInv

\* A request at one of the steps.
LEMMA Standing ==
    ASSUME AnswersInv, NEW step, NEW r \in A!At(step), NEW c, c = client[r]
    PROVE  r \in Clients /\ c # None /\ c.at = step /\ Fine(c, loads, current, torn) /\ c \in Request
BY DEF A!At, AnswersInv, Fine

LEMMA AskKeeps ==
    ASSUME AnswersInv, NEW r \in Clients, NEW lang \in A!Languages, NEW q \in Queries, A!Ask(r, lang, q)
    PROVE  AnswersInv'
<1> DEFINE c == [at |-> "asked", map |-> current, lang |-> lang, q |-> q, body |-> None]
           d == [at |-> "unready", map |-> current, lang |-> lang, q |-> q, body |-> None]
<1>1. torn' = torn /\ cache' = cache /\ current \in Nat /\ cache \in Seq(Entries(torn))
  BY DEF A!Ask, AnswersInv
<1>2. A!Becomes(r, IF current = 0 THEN d ELSE c)
  BY DEF A!Ask, A!Refused
<1>3. c \in Request /\ d \in Request
  BY <1>1 DEF Request, Bodies
<1>4. CASE current = 0
  <2>1. Fine(d, loads, current, torn)
    BY <1>1, <1>3, <1>4 DEF Fine, NotYet
  <2>2. A!Becomes(r, d)
    BY <1>2, <1>4
  <2> HIDE DEF c, d
  <2> QED BY <1>1, <2>1, <2>2, OneMoves
<1>5. CASE current # 0
  <2>1. Fine(c, loads, current, torn)
    BY <1>1, <1>3, <1>5 DEF Fine
  <2>2. A!Becomes(r, c)
    BY <1>2, <1>5
  <2> HIDE DEF c, d
  <2> QED BY <1>1, <2>1, <2>2, OneMoves
<1> QED BY <1>4, <1>5

\* A request that goes on to a step at which nothing was answered or refused for want of an index.
LEMMA GoesTo ==
    ASSUME NEW c \in Request, Fine(c, loads, current, torn), c.at # "unready", NEW broken,
           NEW step \in {"indexed", "waiting", "searching", "busy"}
    PROVE  Fine([c EXCEPT !.at = step], loads, current, broken)
BY DEF Fine, Request

LEMMA IndexKeeps == ASSUME AnswersInv, NEW r \in Clients, A!Index(r) PROVE AnswersInv'
<1>1. r \in A!At("asked") /\ torn' = torn /\ cache' = cache /\ cache \in Seq(Entries(torn))
  BY DEF A!Index, AnswersInv
<1>2. ASSUME NEW c \in Request, c = client[r] PROVE AnswersInv'
  <2>1. c.at = "asked" /\ Fine(c, loads, current, torn)
    BY <1>1, <1>2, Standing
  <2>2. /\ loads \in Seq(Loads) /\ Len(loads) \in Nat /\ current \in Nat /\ current <= Len(loads)
        /\ c.map \in 1..current /\ c.map \in 1..Len(loads)
        /\ Falls(fallback, loads, current)
    BY <2>1 DEF AnswersInv, Fine, Request
  <2>3. PICK h \in current..Len(loads) : fallback = loads[h][1]
    BY <2>2 DEF Falls
  <2>4. h \in 1..Len(loads)
    BY <2>2
  <2>5. \A g \in 1..Len(loads) : /\ loads[g] \in Seq(A!Languages) /\ loads[g] # <<>>
                                 /\ loads[g][1] \in A!Languages /\ loads[g][1] \in A!ToSet(loads[g])
    <3> SUFFICES ASSUME NEW g \in 1..Len(loads), NEW l, l = loads[g]
                 PROVE  l \in Seq(A!Languages) /\ l # <<>> /\ l[1] \in A!Languages /\ l[1] \in A!ToSet(l)
      OBVIOUS
    <3>1. l \in Loads
      BY <2>2
    <3>2. l \in Seq(A!Languages) /\ l # <<>>
      BY <3>1, AnswersAssumption
    <3>3. 1 \in DOMAIN l
      BY <3>2
    <3> QED BY <3>2, <3>3 DEF A!ToSet
  <2>6. fallback \in A!Languages
    BY <2>3, <2>4, <2>5
  <2> DEFINE built == A!ToSet(loads[c.map])
  <2>8. ASSUME NEW lang \in A!Languages, lang = (IF c.lang \in built THEN c.lang ELSE fallback)
        PROVE  AnswersInv'
    <3> DEFINE to == [c EXCEPT !.at = "indexed", !.lang = lang]
               no == [c EXCEPT !.at = "unready"]
    <3>1. to \in Request /\ no \in Request /\ to.lang = lang
      BY DEF Request
    <3>2. A!Becomes(r, IF lang \in built THEN to ELSE no)
      BY <1>2, <2>8 DEF A!Index, A!Refused, Request
    <3>3. CASE lang \in built
      <4>1. Fine(to, loads, current, torn)
        BY <2>1, <3>1 DEF Fine, Request
      <4>2. A!Becomes(r, to)
        BY <3>2, <3>3
      <4> HIDE DEF to, no
      <4> QED BY <1>1, <4>1, <4>2, OneMoves
    <3>4. CASE lang \notin built
      <4>1. lang = fallback /\ fallback # loads[c.map][1]
        BY <2>2, <2>5, <2>8, <3>4
      <4>2. h \in (c.map + 1)..Len(loads)
        BY <2>2, <2>3, <4>1
      <4>3. NotYet(c.map, loads)
        BY <2>3, <4>1, <4>2 DEF NotYet
      <4>4. Fine(no, loads, current, torn)
        BY <2>1, <3>1, <4>3 DEF Fine, Request
      <4>5. A!Becomes(r, no)
        BY <3>2, <3>4
      <4> HIDE DEF to, no
      <4> QED BY <1>1, <4>4, <4>5, OneMoves
    <3> QED BY <3>3, <3>4
  <2>9. (IF c.lang \in built THEN c.lang ELSE fallback) \in A!Languages
    BY <2>6 DEF Request
  <2> QED BY <2>8, <2>9
<1> QED BY <1>1, <1>2, Standing

LEMMA LookUpKeeps == ASSUME AnswersInv, NEW r \in Clients, A!LookUp(r) PROVE AnswersInv'
<1>1. r \in A!At("indexed") /\ torn' = torn /\ cache \in Seq(Entries(torn))
  BY DEF A!LookUp, AnswersInv
<1>2. ASSUME NEW c \in Request, c = client[r], NEW i, i = A!InCache(A!Key(c)) PROVE AnswersInv'
  <2>1. c.at = "indexed" /\ Fine(c, loads, current, torn)
    BY <1>1, <1>2, Standing
  <2>2. i \in 0..Len(cache) /\ (i # 0 => cache[i].key = A!Key(c))
    BY <1>1, <1>2, Found
  <2>3. CASE i = 0
    <3> DEFINE d == [c EXCEPT !.at = "waiting"]
    <3>1. A!Becomes(r, d) /\ cache' = cache
      BY <1>2, <2>3 DEF A!LookUp
    <3>2. Fine(d, loads, current, torn)
      BY <2>1, GoesTo
    <3> HIDE DEF d
    <3> QED BY <1>1, <3>1, <3>2, OneMoves
  <2>4. CASE i # 0
    <3>1. i \in 1..Len(cache) /\ cache[i] \in Entries(torn)
      BY <1>1, <2>2, <2>4
    <3>2. ASSUME NEW e \in Entries(torn), e = cache[i] PROVE AnswersInv'
      <4> DEFINE d == [c EXCEPT !.at = "answered", !.body = e.body]
      <4>1. A!Becomes(r, d) /\ cache' = A!Foremost(e)
        BY <1>2, <2>4, <3>2 DEF A!LookUp, A!Answered
      <4>2. cache' \in Seq(Entries(torn))
        BY <1>1, <3>2, <4>1, Set
      <4>3. e.key = A!Key(c) /\ e.body \in Bodies /\ SaidTo(e, torn)
        BY <2>2, <2>4, <3>2 DEF Entries
      <4>4. PICK g \in Nat, lang \in A!Languages, q \in Queries :
                e.key = <<g, lang, WordsOf[q]>> /\ Right(e.body, g, lang, q, torn)
        BY <4>3 DEF SaidTo
      <4>5. g = c.map /\ lang = c.lang /\ WordsOf[q] = WordsOf[c.q]
        BY <4>3, <4>4 DEF A!Key
      <4>6. A!Ambiguous(c.q) \/ Right(e.body, c.map, c.lang, c.q, torn)
        <5>1. CASE CodeReadIn[q] = CodeReadIn[c.q]
          BY <4>4, <4>5, <5>1 DEF Right, A!Said
        <5>2. CASE CodeReadIn[q] # CodeReadIn[c.q]
          BY <4>5, <5>2 DEF A!Ambiguous
        <5> QED BY <5>1, <5>2
      <4>7. /\ d \in Request /\ d.at = "answered" /\ d.map = c.map /\ d.lang = c.lang /\ d.q = c.q
            /\ d.body = e.body
        BY <4>3 DEF Request
      <4> HIDE DEF d
      <4>8. Fine(d, loads, current, torn)
        BY <2>1, <4>6, <4>7 DEF Fine
      <4> QED BY <1>1, <4>1, <4>2, <4>8, OneMoves
    <3> QED BY <3>1, <3>2
  <2> QED BY <2>3, <2>4
<1> QED BY <1>1, <1>2, Standing

LEMMA SearchKeeps == ASSUME AnswersInv, NEW r \in Clients, A!Search(r) PROVE AnswersInv'
<1>1. r \in A!At("waiting") /\ torn \subseteq torn' /\ cache' = cache /\ cache \in Seq(Entries(torn))
  BY DEF A!Search, AnswersInv
<1>2. ASSUME NEW c \in Request, c = client[r] PROVE AnswersInv'
  <2> DEFINE d == [c EXCEPT !.at = "searching"]
  <2>1. A!Becomes(r, d)
    BY <1>2 DEF A!Search
  <2>2. Fine(d, loads, current, torn')
    BY <1>1, <1>2, Standing, GoesTo
  <2>3. cache' \in Seq(Entries(torn'))
    BY <1>1, EntriesStay
  <2> HIDE DEF d
  <2> QED BY <1>1, <2>1, <2>2, <2>3, OneMoves
<1> QED BY <1>1, <1>2, Standing

LEMMA AnswerKeeps == ASSUME AnswersInv, NEW r \in Clients, A!Answer(r) PROVE AnswersInv'
<1>1. r \in A!At("searching") /\ torn' = torn /\ cache \in Seq(Entries(torn))
  BY DEF A!Answer, AnswersInv
<1>2. ASSUME NEW c \in Request, c = client[r] PROVE AnswersInv'
  <2>1. Fine(c, loads, current, torn) /\ c.at = "searching"
    BY <1>1, <1>2, Standing
  <2>2. PICK body \in {A!Said(c.map, c.lang, c.q)} \cup (IF A!Rows(c) \in torn THEN {<<>>} ELSE {}) :
            /\ A!Becomes(r, A!Answered(c, body))
            /\ cache' = IF CacheSize = 0 THEN cache ELSE A!Foremost([key |-> A!Key(c), body |-> body])
    BY <1>2 DEF A!Answer
  <2>3. c.map \in Nat /\ c.lang \in A!Languages /\ c.q \in Queries
    BY DEF Request
  <2>4. body \in Bodies /\ Right(body, c.map, c.lang, c.q, torn)
    BY <2>2, <2>3 DEF Bodies, Right, A!Rows
  <2> DEFINE d == [c EXCEPT !.at = "answered", !.body = body]
             e == [key |-> A!Key(c), body |-> body]
  <2>5. e.key = <<c.map, c.lang, WordsOf[c.q]>> /\ e.body = body
    BY DEF A!Key
  <2>6. e \in Entries(torn)
    <3>1. e \in [key : Keys, body : Bodies]
      BY <2>3, <2>4 DEF A!Key, Keys
    <3> HIDE DEF e
    <3>2. SaidTo(e, torn)
      BY <2>3, <2>4, <2>5 DEF SaidTo
    <3> QED BY <3>1, <3>2 DEF Entries
  <2>7. A!Becomes(r, d) /\ cache' \in Seq(Entries(torn))
    <3> HIDE DEF e
    <3>1. A!Foremost(e) \in Seq(Entries(torn))
      BY <1>1, <2>6, Set
    <3>2. cache' = IF CacheSize = 0 THEN cache ELSE A!Foremost(e)
      BY <2>2 DEF e
    <3>3. A!Becomes(r, d)
      BY <2>2 DEF A!Answered
    <3> QED BY <1>1, <3>1, <3>2, <3>3
  <2>8. /\ d \in Request /\ d.at = "answered" /\ d.map = c.map /\ d.lang = c.lang /\ d.q = c.q
        /\ d.body = body
    BY <2>4 DEF Request
  <2> HIDE DEF d, e
  <2>9. Fine(d, loads, current, torn)
    BY <2>1, <2>4, <2>8 DEF Fine
  <2> QED BY <1>1, <2>7, <2>9, OneMoves
<1> QED BY <1>1, <1>2, Standing

LEMMA GiveUpKeeps == ASSUME AnswersInv, NEW r \in Clients, A!GiveUp(r) PROVE AnswersInv'
<1>1. r \in A!At("waiting") /\ torn' = torn /\ cache' = cache /\ cache \in Seq(Entries(torn))
  BY DEF A!GiveUp, AnswersInv
<1>2. ASSUME NEW c \in Request, c = client[r] PROVE AnswersInv'
  <2> DEFINE d == [c EXCEPT !.at = "busy"]
  <2>1. A!Becomes(r, d)
    BY <1>2 DEF A!GiveUp, A!Refused
  <2>2. Fine(d, loads, current, torn)
    BY <1>1, <1>2, Standing, GoesTo
  <2> HIDE DEF d
  <2> QED BY <1>1, <2>1, <2>2, OneMoves
<1> QED BY <1>1, <1>2, Standing

LEMMA DoneKeeps == ASSUME AnswersInv, NEW r \in Clients, A!Done(r) PROVE AnswersInv'
<1>1. torn' = torn /\ cache' = cache /\ cache \in Seq(Entries(torn)) /\ A!Becomes(r, None)
  BY DEF A!Done, AnswersInv
<1> QED BY <1>1, OneMoves

\* install: the requests stay where they are, and the cache.
LEMMA BuildKeeps == ASSUME AnswersInv, NEW langs \in Loads, A!Build(langs) PROVE AnswersInv'
<1>1. /\ loads' = Append(loads, langs) /\ loading' = "built"
      /\ UNCHANGED current /\ UNCHANGED fallback /\ UNCHANGED cache /\ UNCHANGED client /\ UNCHANGED torn
  BY DEF A!Build
<1>2. loads \in Seq(Loads) /\ Len(loads) \in Nat /\ current \in Nat /\ current <= Len(loads)
  BY DEF AnswersInv
<1>3. loads' \in Seq(Loads) /\ Len(loads') = Len(loads) + 1 /\ \A h \in 1..Len(loads) : loads'[h] = loads[h]
  BY <1>1, <1>2
<1>4. current > 0 => Falls(fallback, loads', current)
  BY <1>2, <1>3 DEF AnswersInv, Falls
<1>5. ASSUME NEW r \in Clients, client[r] # None PROVE Fine(client[r], loads', current, torn)
  <2>1. Fine(client[r], loads, current, torn)
    BY <1>5 DEF AnswersInv
  <2>2. Len(loads) <= Len(loads') /\ current <= current
    BY <1>2, <1>3
  <2> QED BY <1>2, <1>3, <2>1, <2>2, FineStays
<1>6. current' <= Len(loads')
  BY <1>1, <1>2, <1>3
<1> QED BY <1>1, <1>2, <1>3, <1>4, <1>5, <1>6 DEF AnswersInv

LEMMA StoreFallbackKeeps == ASSUME AnswersInv, A!StoreFallback PROVE AnswersInv'
<1>1. /\ fallback' = loads[Len(loads)][1]
      /\ UNCHANGED loads /\ UNCHANGED current /\ UNCHANGED cache /\ UNCHANGED client /\ UNCHANGED torn
  BY DEF A!StoreFallback
<1>2. current > 0 => Falls(fallback', loads, current)
  BY <1>1 DEF AnswersInv, Falls
<1> QED BY <1>1, <1>2 DEF AnswersInv

LEMMA StoreIndexesKeeps == ASSUME AnswersInv, A!StoreIndexes PROVE AnswersInv'
<1>1. /\ loading = "fallback" /\ current' = Len(loads)
      /\ UNCHANGED loads /\ UNCHANGED fallback /\ UNCHANGED cache /\ UNCHANGED client /\ UNCHANGED torn
  BY DEF A!StoreIndexes
<1>2. loads \in Seq(Loads) /\ Len(loads) \in Nat /\ current \in Nat /\ current <= Len(loads)
  BY DEF AnswersInv
<1>3. Len(loads) > 0 => fallback = loads[Len(loads)][1]
  BY <1>1 DEF AnswersInv
<1>4. Len(loads) > 0 => Falls(fallback, loads, Len(loads))
  BY <1>2, <1>3 DEF Falls
<1>5. ASSUME NEW r \in Clients, client[r] # None PROVE Fine(client[r], loads, Len(loads), torn)
  <2>1. Fine(client[r], loads, current, torn)
    BY <1>5 DEF AnswersInv
  <2>2. Len(loads) <= Len(loads)
    BY <1>2
  <2> QED BY <1>2, <2>1, <2>2, FineStays
<1> QED BY <1>1, <1>2, <1>3, <1>4, <1>5 DEF AnswersInv

LEMMA AnswersStart == A!Init => AnswersInv
BY DEF A!Init, AnswersInv

LEMMA AnswersStep == ASSUME AnswersInv, [A!Next]_answers PROVE AnswersInv'
<1>1. CASE UNCHANGED answers
  <2>1. UNCHANGED loads /\ UNCHANGED loading /\ UNCHANGED current /\ UNCHANGED fallback /\ UNCHANGED cache
        /\ UNCHANGED client /\ UNCHANGED torn
    BY <1>1 DEF answers
  <2> QED BY <2>1 DEF AnswersInv
<1>2. CASE A!Next
  <2>1. ASSUME NEW r \in Clients, NEW lang \in A!Languages, NEW q \in Queries, A!Ask(r, lang, q) PROVE AnswersInv'
    BY <2>1, AskKeeps
  <2>2. ASSUME NEW r \in Clients, A!Index(r) PROVE AnswersInv'
    BY <2>2, IndexKeeps
  <2>3. ASSUME NEW r \in Clients, A!LookUp(r) PROVE AnswersInv'
    BY <2>3, LookUpKeeps
  <2>4. ASSUME NEW r \in Clients, A!Search(r) PROVE AnswersInv'
    BY <2>4, SearchKeeps
  <2>5. ASSUME NEW r \in Clients, A!Answer(r) PROVE AnswersInv'
    BY <2>5, AnswerKeeps
  <2>6. ASSUME NEW r \in Clients, A!GiveUp(r) PROVE AnswersInv'
    BY <2>6, GiveUpKeeps
  <2>7. ASSUME NEW r \in Clients, A!Done(r) PROVE AnswersInv'
    BY <2>7, DoneKeeps
  <2>8. ASSUME NEW langs \in Loads, A!Build(langs) PROVE AnswersInv'
    BY <2>8, BuildKeeps
  <2> QED BY <1>2, <2>1, <2>2, <2>3, <2>4, <2>5, <2>6, <2>7, <2>8, StoreFallbackKeeps, StoreIndexesKeeps DEF A!Next
<1> QED BY <1>1, <1>2

THEOREM AnswersInvariance == TablesSpec => []AnswersInv
<1>1. TablesInit => AnswersInv
  BY AnswersStart DEF TablesInit
<1>2. AnswersInv /\ [TablesNext]_tables => AnswersInv'
  <2>1. [TablesNext]_tables => [A!Next]_answers
    BY DEF TablesNext, tables, answers
  <2> QED BY <2>1, AnswersStep
<1> QED BY <1>1, <1>2, PTL DEF TablesSpec

\* Whatever is loaded, cached, dropped and used again meanwhile, and however many ask at once: an answer
\* is what the index of the generation it bears says to its query, but for words that are two questions
\* and for rows two searches put in order at once; and a request is refused for want of an index only
\* before the first load, or when the default language changed under it (server.go, state.go, lru.go).
THEOREM EveryAnswerIsItsOwn == TablesSpec => []Answered
<1>1. AnswersInv => A!AnswersAreItsOwn
  <2> SUFFICES ASSUME AnswersInv, NEW r \in A!At("answered"), NEW c, c = client[r]
               PROVE  A!Ambiguous(c.q) \/ Right(c.body, c.map, c.lang, c.q, torn)
    BY DEF A!AnswersAreItsOwn, Right, A!Rows
  <2> QED BY Standing DEF Fine
<1>2. AnswersInv => A!ReadyStays
  <2> SUFFICES ASSUME AnswersInv, NEW r \in A!At("unready"), NEW c, c = client[r]
               PROVE  NotYet(c.map, loads)
    BY DEF A!ReadyStays, NotYet
  <2> QED BY Standing DEF Fine
<1>3. AnswersInv => Answered
  BY <1>1, <1>2 DEF Answered
<1> QED BY <1>3, AnswersInvariance, PTL

-----------------------------------------------------------------------------
(***************************************************************************)
(* Other names.  UNIQUE(place, name) holds through a load because an imported  *)
(* row whose name nobody took over bears the name in its key, whoever renamed    *)
(* it since took it over, and a name that is taken, shown or not, is not added.    *)
(***************************************************************************)
GoodAlias(a) ==
    /\ a \in P!AliasRow
    /\ a.origin = "bundle" => /\ a.key \in NamePlaces \X OtherNames /\ a.key[1] = a.place
                              /\ "name" \in a.kept \/ a.key[2] = a.name
NamesOK(rows) ==
    /\ \A a \in rows : GoodAlias(a)
    /\ \A a, b \in rows : a.place = b.place /\ a.name = b.name => a = b

\* One row gives way to another which is called as no other row is.
LEMMA Replaced ==
    ASSUME NamesOK(alias), NEW a, NEW b, GoodAlias(b),
           \A c \in alias \ {a} : ~(c.place = b.place /\ c.name = b.name)
    PROVE  NamesOK(P!Replace(a, b))
<1>1. \A c \in P!Replace(a, b) : c = b \/ c \in alias \ {a}
  BY DEF P!Replace
<1>2. \A c \in P!Replace(a, b) : GoodAlias(c)
  BY <1>1 DEF NamesOK
<1>3. ASSUME NEW c \in P!Replace(a, b), NEW d \in P!Replace(a, b), c.place = d.place, c.name = d.name PROVE c = d
  BY <1>1, <1>3 DEF NamesOK
<1> QED BY <1>2, <1>3 DEF NamesOK

LEMMA Added ==
    ASSUME NamesOK(alias), NEW b, GoodAlias(b), P!Called(b.place, b.name) = {}
    PROVE  NamesOK(alias \cup {b})
<1>1. \A c \in alias : ~(c.place = b.place /\ c.name = b.name)
  BY DEF P!Called
<1> QED BY <1>1 DEF NamesOK

LEMMA OwnIsGood ==
    ASSUME NEW p \in NamePlaces, NEW n \in OtherNames
    PROVE  /\ GoodAlias(P!OwnAlias(p, n)) /\ P!OwnAlias(p, n).place = p /\ P!OwnAlias(p, n).name = n
           /\ P!OwnAlias(p, n).origin = "overlay"
BY DEF GoodAlias, P!AliasRow, P!OwnAlias

\* A row people change, or show again.
LEMMA Touched ==
    ASSUME NEW a, GoodAlias(a), NEW active \in BOOLEAN
    PROVE  LET b == P!Touch(a, [a EXCEPT !.active = active], {"active"})
           IN  GoodAlias(b) /\ b.place = a.place /\ b.name = a.name
BY DEF GoodAlias, P!AliasRow, P!Touch, P!Carried
LEMMA Renamed ==
    ASSUME NEW a, GoodAlias(a), NEW n \in OtherNames
    PROVE  LET b == P!Touch(a, [a EXCEPT !.name = n], {"name"})
           IN  GoodAlias(b) /\ b.place = a.place /\ b.name = n
BY DEF GoodAlias, P!AliasRow, P!Touch, P!Carried

LEMMA AddAliasKeeps ==
    ASSUME NamesOK(alias), NEW p \in NamePlaces, NEW n \in OtherNames, P!AddAlias(p, n) PROVE NamesOK(alias')
<1>1. alias' = alias \cup {P!OwnAlias(p, n)} /\ P!Called(p, n) = {}
  BY DEF P!AddAlias
<1> QED BY <1>1, OwnIsGood, Added

LEMMA RenameAliasKeeps ==
    ASSUME NamesOK(alias), NEW a \in alias, NEW n \in OtherNames, P!RenameAlias(a, n) PROVE NamesOK(alias')
<1> DEFINE b == P!Touch(a, [a EXCEPT !.name = n], {"name"})
<1>1. alias' = P!Replace(a, b) /\ P!Called(a.place, n) = {}
  BY DEF P!RenameAlias
<1>2. GoodAlias(b) /\ b.place = a.place /\ b.name = n
  BY Renamed DEF NamesOK
<1>3. \A c \in alias : ~(c.place = a.place /\ c.name = n)
  BY <1>1 DEF P!Called
<1> HIDE DEF b
<1> QED BY <1>1, <1>2, <1>3, Replaced

\* Shown or archived: it is called as it was.
LEMMA TouchedStays ==
    ASSUME NamesOK(alias), NEW a \in alias, NEW active \in BOOLEAN
    PROVE  NamesOK(P!Replace(a, P!Touch(a, [a EXCEPT !.active = active], {"active"})))
<1> DEFINE b == P!Touch(a, [a EXCEPT !.active = active], {"active"})
<1>1. GoodAlias(b) /\ b.place = a.place /\ b.name = a.name
  BY Touched DEF NamesOK
<1>2. \A c \in alias \ {a} : ~(c.place = a.place /\ c.name = a.name)
  BY DEF NamesOK
<1> HIDE DEF b
<1>3. NamesOK(P!Replace(a, b))
  BY <1>1, <1>2, Replaced
<1> QED BY <1>3 DEF b

LEMMA RemoveAliasKeeps == ASSUME NamesOK(alias), NEW a \in alias, P!RemoveAlias(a) PROVE NamesOK(alias')
<1>1. CASE a.origin = "bundle"
  <2>1. alias' = P!Replace(a, P!Touch(a, [a EXCEPT !.active = FALSE], {"active"}))
    BY <1>1 DEF P!RemoveAlias
  <2>2. FALSE \in BOOLEAN
    OBVIOUS
  <2> QED BY <2>1, <2>2, TouchedStays
<1>2. CASE a.origin # "bundle"
  <2>1. alias' = alias \ {a}
    BY <1>2 DEF P!RemoveAlias
  <2> QED BY <2>1 DEF NamesOK
<1> QED BY <1>1, <1>2

LEMMA RatifiedKeeps ==
    ASSUME NamesOK(alias), NEW what, what[2] \in NamePlaces, what[3] \in OtherNames
    PROVE  NamesOK(P!Ratified(what))
<1> DEFINE there == P!Called(what[2], what[3])
           shown(a) == P!Replace(a, P!Touch(a, [a EXCEPT !.active = TRUE], {"active"}))
<1>1. CASE there = {}
  <2>1. P!Ratified(what) = alias \cup {P!OwnAlias(what[2], what[3])}
    BY <1>1 DEF P!Ratified
  <2> QED BY <1>1, <2>1, OwnIsGood, Added
<1>2. CASE there # {}
  <2>1. PICK a \in there : TRUE
    BY <1>2
  <2>2. there = {a} /\ a \in alias
    BY <2>1 DEF NamesOK, P!Called
  <2>3. P!Ratified(what) = UNION {shown(c) : c \in there}
    BY <1>2 DEF P!Ratified
  <2> HIDE DEF there, shown
  <2>4. UNION {shown(c) : c \in there} = shown(a)
    BY <2>2
  <2>5. TRUE \in BOOLEAN
    OBVIOUS
  <2> QED BY <2>2, <2>3, <2>4, <2>5, TouchedStays DEF shown
<1> QED BY <1>1, <1>2

\* One row for a place of the prefix.
CodesOK(rows) ==
    /\ rows \in Seq(P!CodeRow)
    /\ \A i, j \in DOMAIN rows : rows[i].place = rows[j].place => i = j
\* What a bundle says of the prefix.
HitsOK(hits) == /\ DOMAIN hits \subseteq NamePlaces /\ P!IsFiniteSet(DOMAIN hits)
                /\ \A p \in DOMAIN hits : hits[p] \in P!Hits
\* What a load carries from its snapshot: rows of the bundle, names nobody had, codes no place had.
ReadOK(l) ==
    /\ DOMAIN l = {"revised", "removed", "new", "hits", "dropped", "rehit", "newCodes", "clean", "names", "coded"}
    /\ \A a \in l.revised : a.origin = "bundle"
    /\ \A a \in l.removed : a.origin = "bundle" /\ a.kept = {}
    /\ l.new \subseteq NamePlaces \X OtherNames
    /\ \A p \in l.new : <<p[1], p[2]>> \notin l.names
    /\ HitsOK(l.hits)
    /\ l.rehit \subseteq DOMAIN l.hits
    /\ l.newCodes \subseteq DOMAIN l.hits /\ l.newCodes \cap l.coded = {}
\* The codes it is to write are imported ones until somebody writes them.
Awaits(l, rows) ==
    l.clean => \A i \in DOMAIN rows : rows[i].place \in l.dropped \cup l.rehit => rows[i].source = "import"
ReadingInv == reading # None => ReadOK(reading) /\ Awaits(reading, code)

\* What a load writes over a row: it is called as it was.
AfterLoad(a, l) == IF a \in l.revised THEN P!WantedAlias(a) ELSE a
LEMMA WantedIsGood ==
    ASSUME NEW a, GoodAlias(a), NEW l, ReadOK(l)
    PROVE  GoodAlias(AfterLoad(a, l)) /\ AfterLoad(a, l).place = a.place /\ AfterLoad(a, l).name = a.name
<1>1. CASE a \in l.revised
  <2>1. a.origin = "bundle"
    BY <1>1 DEF ReadOK
  <2>2. GoodAlias(P!WantedAlias(a)) /\ P!WantedAlias(a).place = a.place /\ P!WantedAlias(a).name = a.name
    BY <2>1 DEF GoodAlias, P!AliasRow, P!WantedAlias
  <2> QED BY <1>1, <2>2 DEF AfterLoad
<1>2. CASE a \notin l.revised
  BY <1>2 DEF AfterLoad
<1> QED BY <1>1, <1>2
LEMMA BroughtIsGood ==
    ASSUME NEW p \in NamePlaces \X OtherNames
    PROVE  GoodAlias(P!Brought(p)) /\ P!Brought(p).place = p[1] /\ P!Brought(p).name = p[2]
BY DEF GoodAlias, P!AliasRow, P!OwnAlias, P!Brought

\* A name clashes when two rows have it.
LEMMA NamesClash ==
    ASSUME NEW rows
    PROVE  /\ P!NameClashes(rows) = {} <=> \A a, b \in rows : a.place = b.place /\ a.name = b.name => a = b
           /\ \A n \in P!NameClashes(rows) : \E a, b \in rows :
                 a # b /\ a.place = b.place /\ a.name = b.name /\ n = <<a.place, a.name>>
<1> DEFINE B == {b \in rows : \E c \in rows \ {b} : c.place = b.place /\ c.name = b.name}
<1>1. P!NameClashes(rows) = {<<a.place, a.name>> : a \in B}
  BY DEF P!NameClashes
<1>2. P!NameClashes(rows) = {} <=> B = {}
  <2> HIDE DEF B
  <2> QED BY <1>1
<1>3. \A n \in P!NameClashes(rows) : \E a \in B : n = <<a.place, a.name>>
  <2> HIDE DEF B
  <2> QED BY <1>1
<1> QED BY <1>2, <1>3
LEMMA CodesClash ==
    ASSUME NEW rows
    PROVE  /\ P!CodeClashes(rows) = {} <=> \A i, j \in DOMAIN rows : rows[i].place = rows[j].place => i = j
           /\ \A p \in P!CodeClashes(rows) : \E i, j \in DOMAIN rows :
                 i # j /\ rows[i].place = rows[j].place /\ p = rows[i].place
<1> DEFINE J == {j \in DOMAIN rows : \E k \in DOMAIN rows \ {j} : rows[k].place = rows[j].place}
<1>1. P!CodeClashes(rows) = {rows[i].place : i \in J}
  BY DEF P!CodeClashes
<1>2. P!CodeClashes(rows) = {} <=> J = {}
  <2> HIDE DEF J
  <2> QED BY <1>1
<1>3. \A p \in P!CodeClashes(rows) : \E i \in J : p = rows[i].place
  <2> HIDE DEF J
  <2> QED BY <1>1
<1> QED BY <1>2, <1>3

\* Row by row: a row that was there, or one the bundle brings, is called as it was.
LEMMA AliasesAfterAre ==
    ASSUME NamesOK(alias), NEW l, ReadOK(l)
    PROVE  /\ \A c \in P!Copied(l) : GoodAlias(c) /\ (c \in alias \/ <<c.place, c.name>> \notin l.names)
           /\ P!AliasesAfter(l) = {AfterLoad(a, l) : a \in P!Copied(l) \ l.removed}
           /\ \A c \in P!AliasesAfter(l) : GoodAlias(c) /\ \E a \in P!Copied(l) :
                 c = AfterLoad(a, l) /\ c.place = a.place /\ c.name = a.name
<1>1. ASSUME NEW c \in P!Copied(l) PROVE GoodAlias(c) /\ (c \in alias \/ <<c.place, c.name>> \notin l.names)
  <2>1. CASE c \in alias
    BY <2>1 DEF NamesOK
  <2>2. CASE c \notin alias
    <3>1. PICK p \in l.new : c = P!Brought(p)
      BY <2>2 DEF P!Copied
    <3>2. p \in NamePlaces \X OtherNames /\ <<p[1], p[2]>> \notin l.names
      BY DEF ReadOK
    <3> QED BY <3>1, <3>2, BroughtIsGood
  <2> QED BY <2>1, <2>2
<1>2. P!AliasesAfter(l) = {AfterLoad(a, l) : a \in P!Copied(l) \ l.removed}
  BY Zenon DEF P!AliasesAfter, AfterLoad
<1>3. ASSUME NEW c \in P!AliasesAfter(l)
      PROVE  GoodAlias(c) /\ \E a \in P!Copied(l) : c = AfterLoad(a, l) /\ c.place = a.place /\ c.name = a.name
  <2>1. PICK a \in P!Copied(l) : c = AfterLoad(a, l)
    BY <1>2
  <2> QED BY <1>1, <2>1, WantedIsGood
<1> QED BY <1>1, <1>2, <1>3

\* What stands in a load's way was not there when it read.
LEMMA NamesStandAside ==
    ASSUME NamesOK(alias), NEW l, ReadOK(l)
    PROVE  (P!NameClashes(P!Copied(l)) \cup P!NameClashes(P!AliasesAfter(l))) \cap l.names = {}
<1>1. ASSUME NEW a \in P!Copied(l), NEW b \in P!Copied(l), a # b, a.place = b.place, a.name = b.name
      PROVE  <<a.place, a.name>> \notin l.names
  <2>1. a \notin alias \/ b \notin alias
    BY <1>1 DEF NamesOK
  <2> QED BY <1>1, <2>1, AliasesAfterAre
<1>2. ASSUME NEW n \in P!NameClashes(P!Copied(l)) PROVE n \notin l.names
  BY <1>1, NamesClash
<1>3. ASSUME NEW n \in P!NameClashes(P!AliasesAfter(l)) PROVE n \notin l.names
  <2>1. PICK c \in P!AliasesAfter(l), d \in P!AliasesAfter(l) :
            c # d /\ c.place = d.place /\ c.name = d.name /\ n = <<c.place, c.name>>
    BY NamesClash
  <2>2. PICK a \in P!Copied(l) : c = AfterLoad(a, l) /\ c.place = a.place /\ c.name = a.name
    BY AliasesAfterAre
  <2>3. PICK b \in P!Copied(l) : d = AfterLoad(b, l) /\ d.place = b.place /\ d.name = b.name
    BY AliasesAfterAre
  <2>4. a # b
    BY <2>1, <2>2, <2>3
  <2> QED BY <1>1, <2>1, <2>2, <2>3, <2>4
<1> QED BY <1>2, <1>3

-----------------------------------------------------------------------------
(***************************************************************************)
(* Post codes.  A load's rows are those it leaves, in their order, and the new  *)
(* ones after them.                                                         *)
(***************************************************************************)
LEMMA NamesSize == ASSUME NEW S PROVE P!Cardinality(S) = Cardinality(S)
BY DEF P!Cardinality, Cardinality
LEMMA NamesFinite == ASSUME NEW S PROVE P!IsFiniteSet(S) <=> IsFiniteSet(S)
BY DEF P!IsFiniteSet, IsFiniteSet

\* Counting off numbers up to n, in their order.
LEMMA CountedOff ==
    ASSUME NEW n \in Nat, NEW K, K \subseteq 1..n
    PROVE  /\ P!Cardinality(K) \in Nat
           /\ \A m \in 1..P!Cardinality(K) : P!Nth(K, m) \in K
           /\ \A i \in K : \E m \in 1..P!Cardinality(K) : P!Nth(K, m) = i
           /\ \A l, m \in 1..P!Cardinality(K) : l < m => P!Nth(K, l) < P!Nth(K, m)
<1> DEFINE upTo(i) == {j \in K : j <= i}
           c == Cardinality(K)
           rank == [i \in K |-> Cardinality(upTo(i))]
<1>0. \A i \in K : i \in Int
  OBVIOUS
<1>1. IsFiniteSet(K) /\ c \in Nat
  <2>1. IsFiniteSet(1..n) /\ K \in SUBSET (1..n)
    BY FS_Interval
  <2>2. IsFiniteSet(K)
    BY <2>1, FS_Subset
  <2> QED BY <2>2, FS_CardinalityType
<1>2. ASSUME NEW i \in K PROVE /\ IsFiniteSet(upTo(i)) /\ i \in upTo(i) /\ Cardinality(upTo(i)) \in 1..c
  <2>1. upTo(i) \in SUBSET K /\ i \in upTo(i)
    OBVIOUS
  <2>2. IsFiniteSet(upTo(i)) /\ Cardinality(upTo(i)) <= c
    BY <1>1, <2>1, FS_Subset
  <2>3. Cardinality(upTo(i)) \in Nat /\ Cardinality(upTo(i)) # 0
    BY <2>1, <2>2, FS_CardinalityType, FS_EmptySet
  <2> QED BY <1>1, <2>1, <2>2, <2>3
<1>3. ASSUME NEW i \in K, NEW k \in K, i < k PROVE Cardinality(upTo(i)) < Cardinality(upTo(k))
  <2>1. upTo(i) \in SUBSET upTo(k) /\ k \notin upTo(i)
    <3>1. i \in Int /\ k \in Int /\ ~(k <= i)
      BY <1>0, <1>3
    <3>2. ASSUME NEW j \in K, j <= i PROVE j <= k
      BY <1>0, <1>3, <3>1, <3>2
    <3> QED BY <3>1, <3>2
  <2>2. Cardinality(upTo(i)) <= Cardinality(upTo(k)) /\ Cardinality(upTo(i)) # Cardinality(upTo(k))
    BY <1>2, <2>1, FS_Subset
  <2> QED BY <1>2, <2>2
<1>4. \A i, k \in K : Cardinality(upTo(i)) = Cardinality(upTo(k)) => i = k
  <2> SUFFICES ASSUME NEW i \in K, NEW k \in K, i # k PROVE Cardinality(upTo(i)) # Cardinality(upTo(k))
    OBVIOUS
  <2>1. Cardinality(upTo(i)) \in Int /\ Cardinality(upTo(k)) \in Int
    BY <1>2
  <2> HIDE DEF upTo
  <2>2. CASE i < k BY <1>3, <2>1, <2>2
  <2>3. CASE k < i BY <1>3, <2>1, <2>3
  <2> QED BY <1>0, <2>2, <2>3
<1>5. rank \in Surjection(K, 1..c)
  <2>1. rank \in [K -> 1..c]
    BY <1>2
  <2>2. rank \in Injection(K, 1..c)
    BY <1>4, <2>1 DEF Injection, IsInjective
  <2>3. IsFiniteSet(1..c) /\ Cardinality(1..c) = c
    BY <1>1, FS_Interval
  <2> QED BY <2>2, <2>3, FS_Injection
<1>6. ASSUME NEW m \in 1..c PROVE \E i \in K : Cardinality(upTo(i)) = m
  BY <1>5 DEF Surjection
<1>7. ASSUME NEW m \in 1..c PROVE P!Nth(K, m) \in K /\ Cardinality(upTo(P!Nth(K, m))) = m
  <2>1. P!Nth(K, m) = CHOOSE i \in K : Cardinality(upTo(i)) = m
    BY NamesSize DEF P!Nth
  <2> HIDE DEF upTo
  <2> QED BY <1>6, <2>1
<1>8. ASSUME NEW i \in K PROVE \E m \in 1..c : P!Nth(K, m) = i
  <2>1. Cardinality(upTo(i)) \in 1..c
    BY <1>2
  <2> HIDE DEF upTo
  <2> QED BY <1>4, <1>7, <2>1
<1>9. ASSUME NEW l \in 1..c, NEW m \in 1..c, l < m PROVE P!Nth(K, l) < P!Nth(K, m)
  <2>1. P!Nth(K, l) \in K /\ P!Nth(K, m) \in K
    BY <1>7
  <2>2. P!Nth(K, l) \in Int /\ P!Nth(K, m) \in Int
    BY <1>0, <2>1
  <2>3. Cardinality(upTo(P!Nth(K, l))) = l /\ Cardinality(upTo(P!Nth(K, m))) = m
    BY <1>7
  <2>4. l \in Int /\ m \in Int
    OBVIOUS
  <2> HIDE DEF upTo
  <2>5. CASE P!Nth(K, m) < P!Nth(K, l)
    <3>1. m < l
      BY <1>3, <2>1, <2>3, <2>5
    <3> QED BY <1>9, <2>4, <3>1
  <2>6. CASE P!Nth(K, m) = P!Nth(K, l)
    BY <1>9, <2>3, <2>4, <2>6
  <2> QED BY <2>2, <2>5, <2>6
<1> HIDE DEF upTo
<1> QED BY <1>1, <1>7, <1>8, <1>9, NamesSize

\* A set that is written out names each of its members once.
LEMMA WrittenOut ==
    ASSUME NEW S, IsFiniteSet(S)
    PROVE  /\ P!SetToSeq(S) \in Seq(S)
           /\ \A i, j \in DOMAIN P!SetToSeq(S) : P!SetToSeq(S)[i] = P!SetToSeq(S)[j] => i = j
<1> DEFINE c == Cardinality(S)
<1>1. c \in Nat /\ ExistsBijection(1..c, S)
  BY FS_CardinalityType
<1>2. PICK f \in Bijection(1..c, S) : TRUE
  BY <1>1 DEF ExistsBijection
<1>3. f \in [1..c -> S] /\ P!IsInjective(f)
  BY <1>2 DEF Bijection, Injection, IsInjective, P!IsInjective
<1>4. P!SetToSeq(S) = CHOOSE g \in [1..c -> S] : P!IsInjective(g)
  BY NamesSize DEF P!SetToSeq
<1>5. P!SetToSeq(S) \in [1..c -> S] /\ P!IsInjective(P!SetToSeq(S))
  BY <1>3, <1>4
<1> QED BY <1>1, <1>5 DEF P!IsInjective

\* The row of a place, when there is one.
LEMMA RowFound ==
    ASSUME CodesOK(code), NEW p
    PROVE  /\ P!RowOf(p) \in 0..Len(code)
           /\ P!RowOf(p) # 0 => code[P!RowOf(p)].place = p
           /\ P!RowOf(p) = 0 => \A i \in DOMAIN code : code[i].place # p
<1> DEFINE I == {j \in 1..Len(code) : code[j].place = p}
<1>1. P!RowOf(p) = IF I # {} THEN P!Min(I) ELSE 0
  BY DEF P!RowOf, P!SelectInSeq
<1>2. Len(code) \in Nat /\ I \subseteq 1..Len(code) /\ DOMAIN code = 1..Len(code)
  BY DEF CodesOK
<1>3. I # {} => P!Min(I) \in I
  <2> HIDE DEF I
  <2>1. I # {} => \E m \in I : \A y \in I : m <= y
    BY <1>2, LeastFrom
  <2> QED BY <2>1 DEF P!Min
<1> QED BY <1>1, <1>2, <1>3

Left(l) == {i \in DOMAIN code : code[i].place \notin l.dropped}
LeftRow(row, l) == IF row.place \in l.rehit THEN [row EXCEPT !.hits = l.hits[row.place]] ELSE row
Newcomers(l) == P!SetToSeq(l.newCodes)
NewcomerRow(p, hits) == [place |-> p, source |-> "import", hits |-> hits[p]]

LEMMA LeftCounted ==
    ASSUME CodesOK(code), NEW l, NEW c, c = P!Cardinality(Left(l))
    PROVE  /\ c \in Nat
           /\ \A m \in 1..c : P!Nth(Left(l), m) \in Left(l) /\ P!Nth(Left(l), m) \in DOMAIN code
           /\ \A i \in Left(l) : \E m \in 1..c : P!Nth(Left(l), m) = i
           /\ \A k, m \in 1..c : k < m => P!Nth(Left(l), k) < P!Nth(Left(l), m)
<1>1. Len(code) \in Nat /\ Left(l) \subseteq 1..Len(code) /\ Left(l) \subseteq DOMAIN code
  BY DEF CodesOK, Left
<1> QED BY <1>1, CountedOff

LEMMA NewcomersAre ==
    ASSUME NEW l, ReadOK(l)
    PROVE  /\ Newcomers(l) \in Seq(DOMAIN l.hits)
           /\ \A i \in DOMAIN Newcomers(l) : Newcomers(l)[i] \in l.newCodes /\ Newcomers(l)[i] \in DOMAIN l.hits
           /\ \A i, j \in DOMAIN Newcomers(l) : Newcomers(l)[i] = Newcomers(l)[j] => i = j
<1> DEFINE S == l.newCodes
<1>1. IsFiniteSet(DOMAIN l.hits) /\ S \in SUBSET DOMAIN l.hits
  BY NamesFinite DEF HitsOK, ReadOK
<1>2. IsFiniteSet(S)
  BY <1>1, FS_Subset
<1>3. Newcomers(l) = P!SetToSeq(S)
  BY DEF Newcomers
<1> HIDE DEF S
<1>4. Newcomers(l) \in Seq(S)
  BY <1>2, <1>3, WrittenOut
<1>5. \A i, j \in DOMAIN Newcomers(l) : Newcomers(l)[i] = Newcomers(l)[j] => i = j
  BY <1>2, <1>3, WrittenOut
<1>6. \A i \in DOMAIN Newcomers(l) : Newcomers(l)[i] \in S
  BY <1>4
<1>7. Newcomers(l) \in Seq(DOMAIN l.hits)
  BY <1>1, <1>4, <1>6
<1> QED BY <1>1, <1>5, <1>6, <1>7 DEF S

\* Row by row.
LEMMA CodesAfterIs ==
    ASSUME CodesOK(code), NEW l, ReadOK(l), NEW c, c = P!Cardinality(Left(l))
    PROVE  /\ P!CodesAfter(l) \in Seq(P!CodeRow)
           /\ c <= Len(P!CodesAfter(l))
           /\ \A m \in 1..c : P!CodesAfter(l)[m] = LeftRow(code[P!Nth(Left(l), m)], l)
           /\ \A m \in DOMAIN P!CodesAfter(l) : m \in 1..c \/
                 (m - c \in DOMAIN Newcomers(l) /\ P!CodesAfter(l)[m] = NewcomerRow(Newcomers(l)[m - c], l.hits))
<1> DEFINE left == [m \in 1..c |-> LeftRow(code[P!Nth(Left(l), m)], l)]
           new == [m \in DOMAIN Newcomers(l) |-> NewcomerRow(Newcomers(l)[m], l.hits)]
<1>0. HitsOK(l.hits) /\ l.rehit \subseteq DOMAIN l.hits
  BY DEF ReadOK
<1>1. P!CodesAfter(l) = left \o new
  BY DEF P!CodesAfter, P!Rows, Left, LeftRow, Newcomers, NewcomerRow
<1>2. /\ c \in Nat
      /\ \A m \in 1..c : P!Nth(Left(l), m) \in DOMAIN code /\ P!Nth(Left(l), m) \in Left(l)
  BY LeftCounted
<1>3. \A i \in Left(l) : LeftRow(code[i], l) \in P!CodeRow
  <2> SUFFICES ASSUME NEW i \in Left(l), NEW row, row = code[i] PROVE LeftRow(row, l) \in P!CodeRow
    OBVIOUS
  <2>1. row \in P!CodeRow
    BY DEF CodesOK, Left
  <2> QED BY <1>0, <2>1 DEF LeftRow, P!CodeRow, HitsOK
<1>4. left \in [1..c -> P!CodeRow] /\ DOMAIN left = 1..c
  BY <1>2, <1>3
<1>5. Len(Newcomers(l)) \in Nat /\ DOMAIN Newcomers(l) = 1..Len(Newcomers(l))
  BY NewcomersAre
<1>6. \A m \in DOMAIN Newcomers(l) : NewcomerRow(Newcomers(l)[m], l.hits) \in P!CodeRow
  <2> SUFFICES ASSUME NEW m \in DOMAIN Newcomers(l), NEW p, p = Newcomers(l)[m] PROVE NewcomerRow(p, l.hits) \in P!CodeRow
    OBVIOUS
  <2>1. p \in DOMAIN l.hits
    BY NewcomersAre
  <2> QED BY <1>0, <2>1 DEF NewcomerRow, P!CodeRow, P!Sources, HitsOK
<1>7. new \in [1..Len(Newcomers(l)) -> P!CodeRow]
  BY <1>5, <1>6
<1>8. left \in Seq(P!CodeRow) /\ new \in Seq(P!CodeRow) /\ Len(left) = c /\ Len(new) = Len(Newcomers(l))
  <2> HIDE DEF left, new
  <2> QED BY <1>2, <1>4, <1>5, <1>7
<1>9. \A m \in 1..c : left[m] = LeftRow(code[P!Nth(Left(l), m)], l)
  OBVIOUS
<1>10. \A m \in DOMAIN Newcomers(l) : new[m] = NewcomerRow(Newcomers(l)[m], l.hits)
  OBVIOUS
<1> HIDE DEF left, new
<1>11. left \o new \in Seq(P!CodeRow) /\ Len(left \o new) = c + Len(Newcomers(l))
  BY <1>2, <1>5, <1>8
<1>12. \A m \in 1..c : (left \o new)[m] = left[m]
  BY <1>2, <1>5, <1>8
<1>13. ASSUME NEW m \in DOMAIN (left \o new), m \notin 1..c
       PROVE  m - c \in DOMAIN Newcomers(l) /\ (left \o new)[m] = new[m - c]
  <2>1. m \in 1..(c + Len(Newcomers(l)))
    BY <1>11
  <2>2. m - c \in 1..Len(Newcomers(l))
    BY <1>2, <1>5, <1>13, <2>1
  <2>3. (left \o new)[m] = new[m - c]
    BY <1>2, <1>5, <1>8, <1>13, <2>1, ConcatProperties
  <2> QED BY <1>5, <2>2, <2>3
<1>14. c <= Len(left \o new)
  BY <1>2, <1>5, <1>11
<1> QED BY <1>1, <1>9, <1>10, <1>11, <1>12, <1>13, <1>14

\* What stands in a load's way was not there when it read: two rows of one place are never both old.
LEMMA CodesStandAside ==
    ASSUME CodesOK(code), NEW l, ReadOK(l) PROVE P!CodeClashes(P!CodesAfter(l)) \cap l.coded = {}
<1> DEFINE after == P!CodesAfter(l)
           c == P!Cardinality(Left(l))
           old(m) == code[P!Nth(Left(l), m)]
<1>1. after \in Seq(P!CodeRow) /\ \A m \in 1..c : after[m] = LeftRow(old(m), l)
  BY CodesAfterIs
<1>2. \A m \in DOMAIN after : m \notin 1..c =>
          m - c \in DOMAIN Newcomers(l) /\ after[m] = NewcomerRow(Newcomers(l)[m - c], l.hits)
  BY CodesAfterIs
<1>3. \A m \in 1..c : P!Nth(Left(l), m) \in DOMAIN code /\ after[m].place = old(m).place
  <2> SUFFICES ASSUME NEW m \in 1..c, NEW row, row = old(m)
               PROVE  P!Nth(Left(l), m) \in DOMAIN code /\ LeftRow(row, l).place = row.place
    BY <1>1
  <2>1. P!Nth(Left(l), m) \in DOMAIN code
    BY LeftCounted
  <2>2. row \in P!CodeRow
    BY <2>1 DEF CodesOK
  <2> QED BY <2>1, <2>2 DEF LeftRow, P!CodeRow
<1>4. \A m \in DOMAIN after : m \notin 1..c => after[m].place \notin l.coded
  BY <1>2, NewcomersAre DEF NewcomerRow, ReadOK
<1>5. c \in Nat
  BY LeftCounted
<1>6. \A k, m \in 1..c : after[k].place = after[m].place => k = m
  <2> SUFFICES ASSUME NEW k \in 1..c, NEW m \in 1..c, after[k].place = after[m].place PROVE k = m
    OBVIOUS
  <2>1. P!Nth(Left(l), k) = P!Nth(Left(l), m)
    BY <1>3 DEF CodesOK
  <2>2. P!Nth(Left(l), k) \in Int
    BY <1>3 DEF CodesOK
  <2>3. ~(k < m) /\ ~(m < k)
    BY <2>1, <2>2, LeftCounted
  <2> QED BY <1>5, <2>3
<1>7. ASSUME NEW p \in P!CodeClashes(after) PROVE p \notin l.coded
  <2>1. PICK i \in DOMAIN after, j \in DOMAIN after : i # j /\ after[i].place = after[j].place /\ p = after[i].place
    BY CodesClash
  <2>2. i \notin 1..c \/ j \notin 1..c
    BY <1>6, <2>1
  <2> QED BY <1>4, <2>1, <2>2
<1> QED BY <1>7

\* What a load writes commits only if no UNIQUE refuses it.
LEMMA LoadLeavesOne == ASSUME NamesOK(alias), CodesOK(code), ReadingInv, P!Load PROVE NamesOK(alias') /\ CodesOK(code')
<1>1. ASSUME NEW l, l = reading PROVE NamesOK(alias') /\ CodesOK(code')
  <2>1. /\ ReadOK(l) /\ alias' = P!AliasesAfter(l) /\ code' = P!CodesAfter(l)
        /\ P!NameClashes(P!AliasesAfter(l)) = {} /\ P!CodeClashes(P!CodesAfter(l)) = {}
    BY <1>1 DEF P!Load, ReadingInv
  <2>2. NamesOK(alias')
    <3>1. \A c \in P!AliasesAfter(l) : GoodAlias(c)
      BY <2>1, AliasesAfterAre
    <3>2. \A a, b \in P!AliasesAfter(l) : a.place = b.place /\ a.name = b.name => a = b
      BY <2>1, NamesClash
    <3> QED BY <2>1, <3>1, <3>2 DEF NamesOK
  <2>3. CodesOK(code')
    <3>1. P!CodesAfter(l) \in Seq(P!CodeRow)
      BY <2>1, CodesAfterIs
    <3>2. \A i, j \in DOMAIN P!CodesAfter(l) : P!CodesAfter(l)[i].place = P!CodesAfter(l)[j].place => i = j
      BY <2>1, CodesClash
    <3> QED BY <2>1, <3>1, <3>2 DEF CodesOK
  <2> QED BY <2>2, <2>3
<1> QED BY <1>1

LEMMA LearnKeeps ==
    ASSUME CodesOK(code), NEW p \in NamePlaces, P!Learn(p) PROVE CodesOK(code')
<1> DEFINE r == [place |-> p, source |-> "learned", hits |-> 1]
<1>1. CASE P!RowOf(p) = 0
  <2>1. code' = Append(code, r)
    BY <1>1 DEF P!Learn
  <2>2. r \in P!CodeRow /\ r.place = p
    BY DEF P!CodeRow, P!Sources, P!Hits, P!LEARNED_OVER_IMPORT
  <2>3. \A i \in DOMAIN code : code[i].place # p
    BY <1>1, RowFound
  <2> HIDE DEF r
  <2> QED BY <2>1, <2>2, <2>3 DEF CodesOK
<1>2. CASE P!RowOf(p) # 0
  <2>1. ASSUME NEW i, i = P!RowOf(p), NEW row \in P!CodeRow, row = code[i] PROVE CodesOK(code')
    <3>1. i \in DOMAIN code
      BY <1>2, <2>1, RowFound DEF CodesOK
    <3>2. code' = [code EXCEPT ![i] = [row EXCEPT !.hits = P!More(row.hits)]]
      BY <1>2, <2>1 DEF P!Learn
    <3>3. [row EXCEPT !.hits = P!More(row.hits)] \in P!CodeRow /\ [row EXCEPT !.hits = P!More(row.hits)].place = row.place
      BY DEF P!CodeRow, P!More
    <3> QED BY <2>1, <3>1, <3>2, <3>3 DEF CodesOK
  <2>2. P!RowOf(p) \in DOMAIN code
    BY <1>2, RowFound DEF CodesOK
  <2>3. code[P!RowOf(p)] \in P!CodeRow
    BY <2>2 DEF CodesOK
  <2> QED BY <2>1, <2>3
<1> QED BY <1>1, <1>2

LEMMA SourceKeeps ==
    ASSUME CodesOK(code), NEW i \in DOMAIN code, NEW who \in P!Sources
    PROVE  CodesOK([code EXCEPT ![i].source = who])
<1>1. ASSUME NEW row \in P!CodeRow, row = code[i] PROVE CodesOK([code EXCEPT ![i].source = who])
  <2>1. [code EXCEPT ![i].source = who] = [code EXCEPT ![i] = [row EXCEPT !.source = who]]
    BY <1>1
  <2>2. [row EXCEPT !.source = who] \in P!CodeRow /\ [row EXCEPT !.source = who].place = row.place
    BY DEF P!CodeRow
  <2>3. CodesOK([code EXCEPT ![i] = [row EXCEPT !.source = who]])
    BY <1>1, <2>2 DEF CodesOK
  <2> QED BY <2>1, <2>3
<1>2. code[i] \in P!CodeRow
  BY DEF CodesOK
<1> QED BY <1>1, <1>2

LEMMA DecidedKeeps == ASSUME CodesOK(code), NEW p \in NamePlaces PROVE CodesOK(P!Decided(p))
<1> DEFINE r == [place |-> p, source |-> "staff", hits |-> 0]
<1>1. CASE P!RowOf(p) = 0
  <2>1. P!Decided(p) = Append(code, r)
    BY <1>1 DEF P!Decided
  <2>2. r \in P!CodeRow /\ r.place = p
    BY DEF P!CodeRow, P!Sources, P!Hits, P!LEARNED_OVER_IMPORT
  <2>3. \A i \in DOMAIN code : code[i].place # p
    BY <1>1, RowFound
  <2> HIDE DEF r
  <2> QED BY <2>1, <2>2, <2>3 DEF CodesOK
<1>2. CASE P!RowOf(p) # 0
  <2>1. P!RowOf(p) \in DOMAIN code /\ "staff" \in P!Sources
    BY <1>2, RowFound DEF CodesOK, P!Sources
  <2>2. P!Decided(p) = [code EXCEPT ![P!RowOf(p)].source = "staff"]
    BY <1>2 DEF P!Decided
  <2>3. CodesOK([code EXCEPT ![P!RowOf(p)].source = "staff"])
    BY <2>1, SourceKeeps
  <2> QED BY <2>2, <2>3
<1> QED BY <1>1, <1>2

LEMMA TrustIs ==
    ASSUME NEW r \in P!CodeRow
    PROVE  /\ P!Trust(r) \in 0..3 /\ r.hits \in 0..4
           /\ P!Trust(r) >= 2 => r.source # "import"
<1>1. r.source \in {"staff", "learned", "import"} /\ r.hits \in 0..4
  BY DEF P!CodeRow, P!Sources, P!Hits, P!LEARNED_OVER_IMPORT
<1>2. CASE r.source = "staff"
  BY <1>1, <1>2 DEF P!Trust
<1>3. CASE r.source = "import"
  <2>1. P!Trust(r) = 1
    BY <1>3 DEF P!Trust
  <2> QED BY <1>1, <2>1
<1>4. CASE r.source = "learned"
  <2>1. P!Trust(r) = IF r.hits >= P!LEARNED_OVER_IMPORT THEN 2 ELSE 0
    BY <1>4 DEF P!Trust
  <2> QED BY <1>1, <1>4, <2>1
<1> QED BY <1>1, <1>2, <1>3, <1>4

\* Of rows there is a best one, the first none is better than.
LEMMA BestIs ==
    ASSUME NEW rows \in Seq(P!CodeRow), rows # <<>>
    PROVE  \E i \in DOMAIN rows : /\ P!Best(rows) = rows[i]
                                  /\ \A j \in DOMAIN rows : ~P!Better(rows[j], rows[i])
                                  /\ \A k \in DOMAIN rows : k < i => \E j \in DOMAIN rows : P!Better(rows[j], rows[k])
<1> DEFINE score(r) == 10 * P!Trust(r) + r.hits + 1
           best(i) == \A j \in DOMAIN rows : ~P!Better(rows[j], rows[i])
           I == {i \in DOMAIN rows : best(i)}
           T == {score(rows[j]) : j \in DOMAIN rows}
<1>1. ASSUME NEW r \in P!CodeRow PROVE score(r) \in 1..41
  <2>1. \A a \in 0..3 : \A h \in 0..4 : 10 * a + h + 1 \in 1..41
    OBVIOUS
  <2>2. P!Trust(r) \in 0..3 /\ r.hits \in 0..4
    BY TrustIs
  <2> QED BY <2>1, <2>2
<1>2. ASSUME NEW r \in P!CodeRow, NEW q \in P!CodeRow PROVE P!Better(r, q) => score(r) > score(q)
  <2>1. \A a, b \in 0..3 : \A h, k \in 0..4 : a > b \/ (a = b /\ h > k) => 10 * a + h + 1 > 10 * b + k + 1
    OBVIOUS
  <2>2. P!Trust(r) \in 0..3 /\ r.hits \in 0..4 /\ P!Trust(q) \in 0..3 /\ q.hits \in 0..4
    BY TrustIs
  <2> QED BY <2>1, <2>2 DEF P!Better
<1>3. \A i \in DOMAIN rows : rows[i] \in P!CodeRow
  OBVIOUS
<1>4. T \subseteq 1..41 /\ T # {}
  <2> HIDE DEF score
  <2>1. DOMAIN rows = 1..Len(rows) /\ Len(rows) \in Nat /\ 1 \in DOMAIN rows
    OBVIOUS
  <2>2. score(rows[1]) \in T
    BY <2>1
  <2> QED BY <1>1, <1>3, <2>2
<1>5. PICK t \in T : \A u \in T : u <= t
  <2> HIDE DEF T
  <2> QED BY <1>4, GreatestBelow
<1>6. PICK m \in DOMAIN rows : t = score(rows[m])
  OBVIOUS
<1> HIDE DEF score
<1>7. \A j \in DOMAIN rows : score(rows[j]) \in T /\ score(rows[j]) \in Int
  <2> SUFFICES ASSUME NEW j \in DOMAIN rows PROVE score(rows[j]) \in T /\ score(rows[j]) \in Int
    OBVIOUS
  <2>1. score(rows[j]) \in T
    OBVIOUS
  <2>2. score(rows[j]) \in 1..41
    BY <1>1, <1>3
  <2> QED BY <2>1, <2>2
<1> HIDE DEF T
<1>8. best(m)
  BY <1>2, <1>3, <1>5, <1>6, <1>7
<1>9. I # {} /\ I \subseteq 1..Len(rows) /\ Len(rows) \in Nat
  BY <1>8
<1>10. P!Best(rows) = rows[P!Min(I)]
  BY DEF P!Best
<1> HIDE DEF I
<1>11. P!Min(I) \in I /\ \A y \in I : P!Min(I) <= y
  <2>1. \E k \in I : \A y \in I : k <= y
    BY <1>9, LeastFrom
  <2> QED BY <2>1 DEF P!Min
<1>12. ASSUME NEW k \in DOMAIN rows, k < P!Min(I) PROVE k \notin I
  <2>1. P!Min(I) \in Int /\ k \in Int
    <3>1. P!Min(I) \in 1..Len(rows)
      BY <1>9, <1>11
    <3>2. k \in 1..Len(rows)
      OBVIOUS
    <3> QED BY <3>1, <3>2
  <2> QED BY <1>11, <1>12, <2>1
<1> QED BY <1>10, <1>11, <1>12 DEF I

LEMMA BetterOrders ==
    ASSUME NEW a \in P!CodeRow, NEW b \in P!CodeRow, NEW c \in P!CodeRow, P!Better(a, c), ~P!Better(a, b)
    PROVE  P!Better(b, c)
<1>1. /\ P!Trust(a) \in 0..3 /\ P!Trust(b) \in 0..3 /\ P!Trust(c) \in 0..3
      /\ a.hits \in 0..4 /\ b.hits \in 0..4 /\ c.hits \in 0..4
  BY TrustIs
<1> QED BY <1>1 DEF P!Better

\* A load changes imported rows alone, and none of those outranks what staff or enough people said.
LEMMA AnswerStays ==
    ASSUME CodesOK(code), NEW l, ReadOK(l), l.clean, Awaits(l, code), code # <<>>, P!Trust(P!Best(code)) >= 2
    PROVE  P!Best(P!CodesAfter(l)) = P!Best(code)
<1> DEFINE c == P!Cardinality(Left(l))
           old(m) == code[P!Nth(Left(l), m)]
<1> SUFFICES ASSUME NEW after, after = P!CodesAfter(l) PROVE P!Best(after) = P!Best(code)
  OBVIOUS
<1>1. code \in Seq(P!CodeRow)
  BY DEF CodesOK
<1>2. PICK i \in DOMAIN code : /\ P!Best(code) = code[i]
                               /\ \A j \in DOMAIN code : ~P!Better(code[j], code[i])
                               /\ \A k \in DOMAIN code : k < i => \E j \in DOMAIN code : P!Better(code[j], code[k])
  BY <1>1, BestIs
<1> DEFINE b == code[i]
<1>3. b \in P!CodeRow /\ P!Trust(b) >= 2 /\ b.source # "import"
  BY <1>1, <1>2, TrustIs
<1>4. i \in Left(l) /\ b.place \notin l.rehit
  BY <1>3 DEF Left, Awaits
<1>5. PICK m \in 1..c : P!Nth(Left(l), m) = i
  BY <1>4, LeftCounted
<1>6. /\ c \in Nat /\ after \in Seq(P!CodeRow) /\ c <= Len(after)
      /\ \A h \in 1..c : after[h] = LeftRow(old(h), l) /\ P!Nth(Left(l), h) \in DOMAIN code
      /\ \A h \in DOMAIN after : h \in 1..c \/
            after[h] = NewcomerRow(Newcomers(l)[h - c], l.hits)
  BY CodesAfterIs, LeftCounted
<1>7. \A h \in DOMAIN after : after[h] \in P!CodeRow
  BY <1>6
<1>8. ASSUME NEW h \in DOMAIN after, after[h].source # "import"
      PROVE  h \in 1..c /\ after[h] = old(h)
  <2>1. CASE h \in 1..c
    <3>1. ASSUME NEW row \in P!CodeRow, row = old(h) PROVE after[h] = row
      <4>1. after[h] = LeftRow(row, l)
        BY <1>6, <2>1, <3>1
      <4>2. LeftRow(row, l).source = row.source
        BY DEF LeftRow, P!CodeRow
      <4>3. row.place \in l.dropped \cup l.rehit => row.source = "import"
        BY <1>6, <2>1, <3>1 DEF Awaits
      <4> QED BY <1>8, <4>1, <4>2, <4>3 DEF LeftRow
    <3>2. old(h) \in P!CodeRow
      BY <1>1, <1>6, <2>1
    <3> QED BY <2>1, <3>1, <3>2
  <2>2. CASE h \notin 1..c
    <3>1. after[h].source = "import"
      BY <1>6, <2>2 DEF NewcomerRow
    <3> QED BY <1>8, <3>1
  <2> QED BY <2>1, <2>2
<1>9. m \in DOMAIN after /\ after[m] = b
  <2>1. m \in DOMAIN after
    BY <1>6
  <2>2. after[m] = LeftRow(b, l)
    BY <1>5, <1>6
  <2> QED BY <1>4, <2>1, <2>2 DEF LeftRow
<1>10. ASSUME NEW h \in DOMAIN after PROVE ~P!Better(after[h], b)
  <2>1. CASE after[h].source # "import"
    BY <1>2, <1>6, <1>8, <2>1
  <2>2. CASE after[h].source = "import"
    <3>1. P!Trust(after[h]) = 1
      BY <2>2 DEF P!Trust
    <3>2. P!Trust(b) \in 0..3
      BY <1>3, TrustIs
    <3> HIDE DEF b
    <3> QED BY <1>3, <3>1, <3>2 DEF P!Better
  <2> QED BY <2>1, <2>2
<1>11. after # <<>>
  BY <1>6, <1>9
<1>12. PICK k \in DOMAIN after : /\ P!Best(after) = after[k]
                                 /\ \A j \in DOMAIN after : ~P!Better(after[j], after[k])
                                 /\ \A h \in DOMAIN after : h < k => \E j \in DOMAIN after : P!Better(after[j], after[h])
  BY <1>6, <1>11, BestIs
<1>13. k \in Int /\ m \in Int /\ ~(m < k)
  <2>1. k \in 1..Len(after)
    BY <1>6
  <2>2. ~(m < k)
    BY <1>9, <1>10, <1>12
  <2> QED BY <2>1, <2>2
<1>14. CASE k = m
  BY <1>2, <1>9, <1>12, <1>14
<1>15. CASE k < m
  <2>1. ~P!Better(b, after[k]) /\ after[k] \in P!CodeRow
    BY <1>7, <1>9, <1>12
  <2>2. after[k].source # "import"
    <3>1. P!Trust(after[k]) \in 0..3 /\ P!Trust(b) \in 0..3
      BY <1>3, <2>1, TrustIs
    <3>2. P!Trust(after[k]) >= 2
      <4> HIDE DEF b
      <4> QED BY <1>3, <2>1, <3>1 DEF P!Better
    <3> QED BY <2>1, <3>2, TrustIs
  <2>3. k \in 1..c /\ after[k] = old(k) /\ P!Nth(Left(l), k) \in DOMAIN code
    BY <1>6, <1>8, <2>2
  <2>4. P!Nth(Left(l), k) < i
    BY <1>5, <1>15, <2>3, LeftCounted
  <2>5. PICK j \in DOMAIN code : P!Better(code[j], after[k])
    BY <1>2, <2>3, <2>4
  <2>6. code[j] \in P!CodeRow /\ ~P!Better(code[j], b)
    BY <1>1, <1>2
  <2> HIDE DEF b
  <2> QED BY <1>3, <2>1, <2>5, <2>6, BetterOrders
<1> QED BY <1>13, <1>14, <1>15

-----------------------------------------------------------------------------
(***************************************************************************)
(* Suggestions.  A request that is about to write has read a row that still says  *)
(* what it read, for whoever wrote it since refused the request; or it saw nothing  *)
(* that waits, and what waits of that by now was opened again.                     *)
(***************************************************************************)
Writes(w, rows) ==
    /\ w \in [what : Contents, saw : SUBSET Nat, row : Nat, times : Nat, clean : BOOLEAN]
    /\ w.saw \subseteq DOMAIN rows
    /\ w.row # 0 => w.row \in DOMAIN rows
    /\ w.row # 0 /\ w.clean => rows[w.row].what = w.what /\ rows[w.row].times = w.times
    /\ w.row = 0 => \A i \in w.saw : rows[i].what = w.what /\ rows[i].state = "proposed" => rows[i].reopened
Weighs(row, what) == IF row.what = what THEN row.times ELSE 0
Weights(rows, what) == [n \in 1..Len(rows) |-> Weighs(rows[n], what)]
\* The rows about something add up to how often it was suggested.
AddUp(rows, count) ==
    \A what \in Contents : \E up : Totals(up, Weights(rows, what), Len(rows)) /\ up[Len(rows)] = count[what]
\* A row that waits is another's double only if one was opened again or was not to be seen.
Doubles(rows) ==
    \A i, j \in DOMAIN rows :
        i < j /\ rows[i].what = rows[j].what /\ rows[i].state = "proposed" /\ rows[j].state = "proposed"
        => rows[i].reopened \/ rows[j].reopened \/ i \notin rows[j].saw
AskedInv ==
    /\ asked \in Seq(P!Suggestion)
    /\ nameEdits \in 0..MaxNameEdits
    /\ counted \in [Contents -> Nat]
    /\ DOMAIN writing = Sessions
    /\ \A s \in Sessions : writing[s] # None => Writes(writing[s], asked)
    /\ AddUp(asked, counted)
    /\ Doubles(asked)

LEMMA Weighed ==
    ASSUME NEW rows \in Seq(P!Suggestion), NEW what
    PROVE  Weights(rows, what) \in [1..Len(rows) -> Int] /\ Len(rows) \in Nat
<1>1. \A n \in 1..Len(rows) : rows[n] \in P!Suggestion
  OBVIOUS
<1>2. \A row \in P!Suggestion : Weighs(row, what) \in Int
  BY DEF P!Suggestion, Weighs
<1> QED BY <1>1, <1>2 DEF Weights

\* The votes are the running total at the end.
LEMMA VotesAreTotals ==
    ASSUME asked \in Seq(P!Suggestion), NEW what, NEW up, Totals(up, Weights(asked, what), Len(asked))
    PROVE  P!Votes(what) = up[Len(asked)]
<1> DEFINE Sums(f) == f = [n \in 0..Len(asked) |->
                              IF n = 0 THEN 0 ELSE f[n - 1] + (IF asked[n].what = what THEN asked[n].times ELSE 0)]
           f == CHOOSE f : Sums(f)
           w == Weights(asked, what)
<1>1. Len(asked) \in Nat /\ w \in [1..Len(asked) -> Int]
  BY Weighed
<1>2. \A n \in 1..Len(asked) : w[n] = IF asked[n].what = what THEN asked[n].times ELSE 0
  BY DEF Weights, Weighs
<1>3. P!Votes(what) = f[Len(asked)]
  BY DEF P!Votes
<1> HIDE DEF w
<1>4. \A g : Sums(g) <=> Totals(g, w, Len(asked))
  <2> SUFFICES ASSUME NEW g
               PROVE  [n \in 0..Len(asked) |->
                          IF n = 0 THEN 0 ELSE g[n - 1] + (IF asked[n].what = what THEN asked[n].times ELSE 0)]
                      = [n \in 0..Len(asked) |-> IF n = 0 THEN 0 ELSE g[n - 1] + w[n]]
    BY DEF Totals
  <2>1. \A n \in 0..Len(asked) : n # 0 => n \in 1..Len(asked)
    OBVIOUS
  <2> QED BY <1>2, <2>1
<1>5. Sums(up)
  BY <1>4 DEF w
<1> HIDE DEF Sums
<1>6. Sums(f)
  BY <1>5
<1> HIDE DEF f
<1>7. Totals(f, w, Len(asked)) /\ Totals(up, w, Len(asked))
  BY <1>4, <1>6 DEF w
<1>8. Len(asked) \in 0..Len(asked)
  BY <1>1
<1> QED BY <1>1, <1>3, <1>7, <1>8, TotalsAgree

\* A row that says so much more often what it said, and the counts of it.
SaysMore(was, row, d) == row.what = was.what /\ row.times = was.times + d
CountedMore(count, about, d) == [what \in Contents |-> IF what = about THEN count[what] + d ELSE count[what]]

\* One row is written anew.
LEMMA RowCounts ==
    ASSUME NEW rows \in Seq(P!Suggestion), NEW more \in Seq(P!Suggestion), NEW i \in DOMAIN rows, NEW d \in Nat,
           Len(more) = Len(rows), \A j \in DOMAIN rows : j # i => more[j] = rows[j],
           SaysMore(rows[i], more[i], d),
           NEW count \in [Contents -> Nat], AddUp(rows, count)
    PROVE  AddUp(more, CountedMore(count, rows[i].what, d))
<1>0. more[i].what = rows[i].what /\ more[i].times = rows[i].times + d
  BY DEF SaysMore
<1> DEFINE n == Len(rows)
<1> SUFFICES ASSUME NEW what \in Contents
             PROVE  \E up : Totals(up, Weights(more, what), n)
                            /\ up[n] = IF what = rows[i].what THEN count[what] + d ELSE count[what]
  BY DEF AddUp, CountedMore
<1>1. n \in Nat /\ Weights(rows, what) \in [1..n -> Int] /\ Weights(more, what) \in [1..n -> Int]
  BY Weighed
<1>2. i \in 1..n /\ \A k \in 1..n : k # i => Weights(more, what)[k] = Weights(rows, what)[k]
  <2>1. DOMAIN rows = 1..n /\ Len(more) = n
    OBVIOUS
  <2>2. \A k \in 1..n : /\ Weights(more, what)[k] = Weighs(more[k], what)
                         /\ Weights(rows, what)[k] = Weighs(rows[k], what)
    BY <2>1 DEF Weights
  <2>3. \A k \in 1..n : k # i => more[k] = rows[k]
    BY <2>1
  <2> QED BY <2>1, <2>2, <2>3
<1>3. PICK up : Totals(up, Weights(rows, what), n) /\ up[n] = count[what]
  BY DEF AddUp
<1>4. PICK down : Totals(down, Weights(more, what), n)
  BY <1>1, TotalsExist
<1>5. PICK e \in Nat : /\ e = IF what = rows[i].what THEN d ELSE 0
                       /\ Weights(more, what)[i] = Weights(rows, what)[i] + e
  <2>1. rows[i].times \in Int
    <3>1. rows[i] \in P!Suggestion
      OBVIOUS
    <3> QED BY <3>1 DEF P!Suggestion
  <2>2. /\ Weights(more, what)[i] = IF rows[i].what = what THEN rows[i].times + d ELSE 0
        /\ Weights(rows, what)[i] = IF rows[i].what = what THEN rows[i].times ELSE 0
    BY <1>0, <1>2 DEF Weights, Weighs
  <2> QED BY <2>1, <2>2
<1>6. down[n] = up[n] + e
  <2> DEFINE a == Weights(rows, what)
             b == Weights(more, what)
  <2>1. n \in Nat /\ a \in [1..n -> Int] /\ b \in [1..n -> Int] /\ Totals(up, a, n) /\ Totals(down, b, n)
    BY <1>1, <1>3, <1>4
  <2>2. i \in 1..n /\ e \in Int /\ b[i] = a[i] + e /\ DifferAt(i, a, b, n)
    BY <1>2, <1>5 DEF DifferAt
  <2> HIDE DEF a, b, n
  <2>3. MovesAs(down[n], up[n], a[i], b[i])
    BY <2>1, <2>2, TotalsDiffer
  <2>4. up[n] \in Int
    BY <2>1, TotalsStep
  <2>5. a[i] \in Int
    BY <2>1, <2>2
  <2> QED BY <2>2, <2>3, <2>4, <2>5 DEF MovesAs
<1> QED BY <1>3, <1>4, <1>5, <1>6

\* A row more.
LEMMA RowAdded ==
    ASSUME NEW rows \in Seq(P!Suggestion), NEW row \in P!Suggestion, row.times = 1,
           NEW count \in [Contents -> Nat], AddUp(rows, count)
    PROVE  AddUp(Append(rows, row), CountedMore(count, row.what, 1))
<1> DEFINE n == Len(rows)
           more == Append(rows, row)
<1>1. n \in Nat /\ more \in Seq(P!Suggestion) /\ Len(more) = n + 1 /\ more[n + 1] = row
      /\ \A k \in 1..n : more[k] = rows[k]
  OBVIOUS
<1> HIDE DEF more
<1> SUFFICES ASSUME NEW what \in Contents
             PROVE  \E up : Totals(up, Weights(more, what), n + 1)
                            /\ up[n + 1] = IF what = row.what THEN count[what] + 1 ELSE count[what]
  BY <1>1 DEF AddUp, CountedMore, more
<1>2. Weights(rows, what) \in [1..n -> Int] /\ Weights(more, what) \in [1..(n + 1) -> Int]
  BY <1>1, Weighed
<1>3. /\ \A k \in 1..n : Weights(more, what)[k] = Weights(rows, what)[k]
      /\ Weights(more, what)[n + 1] = IF row.what = what THEN 1 ELSE 0
  BY <1>1 DEF Weights, Weighs
<1>4. PICK up : Totals(up, Weights(rows, what), n) /\ up[n] = count[what]
  BY DEF AddUp
<1>5. n + 1 \in Nat
  BY <1>1
<1>6. PICK down : Totals(down, Weights(more, what), n + 1)
  BY <1>2, <1>5, TotalsExist
<1>7. down[n + 1] = up[n] + Weights(more, what)[n + 1]
  <2> DEFINE a == Weights(rows, what)
             b == Weights(more, what)
  <2>1. n \in Nat /\ a \in [1..n -> Int] /\ b \in [1..(n + 1) -> Int]
    BY <1>1, <1>2
  <2>2. (\A k \in 1..n : b[k] = a[k]) /\ Totals(up, a, n) /\ Totals(down, b, n + 1)
    BY <1>3, <1>4, <1>6
  <2> HIDE DEF a, b, n
  <2>3. down[n + 1] = up[n] + b[n + 1]
    BY <2>1, <2>2, TotalsGrow
  <2> QED BY <2>3 DEF b
<1> QED BY <1>3, <1>4, <1>6, <1>7

\* Of the rows that wait for the same thing one comes first in the table.
LEMMA ForemostWaits ==
    ASSUME asked \in Seq(P!Suggestion), NEW ids, ids \subseteq DOMAIN asked, ids # {}
    PROVE  P!Foremost(ids) \in ids
<1> DEFINE n == Len(asked)
           Bounded == {k \in 0..n : \E b \in Nat : \A j \in 1..k : asked[j].times <= b}
<1>1. n \in Nat /\ DOMAIN asked = 1..n /\ \A j \in 1..n : asked[j].times \in Nat
  <2>1. \A j \in 1..n : asked[j] \in P!Suggestion
    OBVIOUS
  <2> QED BY <2>1 DEF P!Suggestion
<1>2. 0 \in Bounded
  <2>1. 1..0 = {}
    OBVIOUS
  <2> QED BY <1>1, <2>1
<1>3. ASSUME NEW k \in 1..n, k - 1 \in Bounded PROVE k \in Bounded
  <2>1. PICK b \in Nat : \A j \in 1..(k - 1) : asked[j].times <= b
    BY <1>3
  <2>2. PICK c \in Nat : b <= c /\ asked[k].times <= c
    <3>1. asked[k].times \in Nat
      BY <1>1
    <3>2. CASE b <= asked[k].times BY <3>1, <3>2
    <3>3. CASE asked[k].times <= b BY <3>1, <3>3
    <3> QED BY <3>1, <3>2, <3>3
  <2>3. \A j \in 1..k : asked[j].times <= c
    <3> SUFFICES ASSUME NEW j \in 1..k PROVE asked[j].times <= c
      OBVIOUS
    <3>1. CASE j = k BY <2>2, <3>1
    <3>2. CASE j # k
      <4>1. j \in 1..(k - 1) /\ asked[j].times \in Nat
        BY <1>1, <3>2
      <4> QED BY <2>1, <2>2, <4>1
    <3> QED BY <3>1, <3>2
  <2>4. k \in 0..n
    OBVIOUS
  <2>5. \E d \in Nat : \A j \in 1..k : asked[j].times <= d
    BY <2>3
  <2> QED BY <2>4, <2>5
<1> HIDE DEF Bounded
<1>4. n \in Bounded
  <2>1. \A k \in 0..n : k \in Bounded
    BY <1>1, <1>2, <1>3, Induction
  <2> QED BY <1>1, <2>1
<1>5. PICK b \in Nat : \A j \in 1..n : asked[j].times <= b
  BY <1>4 DEF Bounded
<1> DEFINE T == {asked[j].times + 1 : j \in ids}
<1>6. T \subseteq 1..(b + 1) /\ T # {} /\ b + 1 \in Nat
  <2>1. ASSUME NEW j \in ids PROVE asked[j].times + 1 \in 1..(b + 1)
    <3>1. asked[j].times \in Nat /\ asked[j].times <= b
      BY <1>1, <1>5
    <3> QED BY <3>1
  <2>2. PICK j \in ids : TRUE
    OBVIOUS
  <2>3. asked[j].times + 1 \in T
    OBVIOUS
  <2> QED BY <2>1, <2>3
<1>7. \A j \in ids : asked[j].times + 1 \in T /\ asked[j].times \in Nat /\ j \in Nat
  BY <1>1
<1>8. \A t \in T : \E j \in ids : asked[j].times + 1 = t
  OBVIOUS
<1> HIDE DEF T
<1>9. PICK t \in T : \A u \in T : u <= t
  BY <1>6, GreatestBelow
<1> DEFINE J == {j \in ids : asked[j].times + 1 = t}
<1>10. J \subseteq 1..n /\ J # {} /\ J \subseteq ids
  BY <1>1, <1>8
<1>11. PICK m \in J : \A j \in J : j <= m
  <2> HIDE DEF J
  <2> QED BY <1>1, <1>10, GreatestBelow
<1>12. \A j \in ids : asked[j].times < asked[m].times \/ (asked[j].times = asked[m].times /\ j <= m)
  <2> SUFFICES ASSUME NEW j \in ids PROVE asked[j].times < asked[m].times \/ (asked[j].times = asked[m].times /\ j <= m)
    OBVIOUS
  <2>1. /\ m \in ids /\ asked[m].times + 1 = t /\ asked[m].times \in Nat /\ asked[j].times \in Nat
        /\ asked[j].times + 1 <= t
    BY <1>7, <1>9
  <2>2. CASE asked[j].times + 1 = t
    <3>1. j <= m
      BY <1>11, <2>2
    <3> QED BY <2>1, <2>2, <3>1
  <2>3. CASE asked[j].times + 1 # t
    <3>1. \A x, y \in Nat : x + 1 <= y + 1 /\ x + 1 # y + 1 => x < y
      OBVIOUS
    <3>2. asked[j].times < asked[m].times
      BY <2>1, <2>3, <3>1
    <3> QED BY <3>2
  <2> QED BY <2>2, <2>3
<1>13. m \in ids
  OBVIOUS
<1> QED BY <1>12, <1>13 DEF P!Foremost

LEMMA LookUpReads ==
    ASSUME AskedInv, NEW s \in Sessions, NEW what \in Contents, P!LookUp(s, what) PROVE AskedInv'
<1> DEFINE same == P!Waiting(what)
<1>1. /\ UNCHANGED asked /\ UNCHANGED nameEdits /\ UNCHANGED counted
      /\ writing' = [writing EXCEPT ![s] =
             [what |-> what, saw |-> DOMAIN asked, row |-> IF same = {} THEN 0 ELSE P!Foremost(same),
              times |-> IF same = {} THEN 0 ELSE asked[P!Foremost(same)].times, clean |-> TRUE]]
  BY DEF P!LookUp
<1>2. asked \in Seq(P!Suggestion) /\ DOMAIN asked = 1..Len(asked) /\ Len(asked) \in Nat /\ DOMAIN asked \subseteq Nat
  BY DEF AskedInv
<1>3. /\ same \subseteq DOMAIN asked
      /\ \A i \in same : asked[i].what = what
      /\ \A i \in DOMAIN asked : asked[i].what = what /\ asked[i].state = "proposed" => i \in same
  BY DEF P!Waiting
<1> HIDE DEF same
<1>4. ASSUME NEW row, NEW times,
             row = (IF same = {} THEN 0 ELSE P!Foremost(same)),
             times = (IF same = {} THEN 0 ELSE asked[P!Foremost(same)].times)
      PROVE  Writes([what |-> what, saw |-> DOMAIN asked, row |-> row, times |-> times, clean |-> TRUE], asked)
  <2>1. CASE same = {}
    <3>1. row = 0 /\ times = 0
      BY <1>4, <2>1
    <3> QED BY <1>2, <1>3, <2>1, <3>1 DEF Writes
  <2>2. CASE same # {}
    <3>1. row \in same /\ times = asked[row].times
      BY <1>2, <1>3, <1>4, <2>2, ForemostWaits
    <3>2. row \in DOMAIN asked /\ row \in Nat /\ row # 0 /\ asked[row].what = what
      BY <1>2, <1>3, <3>1
    <3>3. times \in Nat
      <4>1. asked[row] \in P!Suggestion
        BY <1>2, <3>2
      <4> QED BY <3>1, <4>1 DEF P!Suggestion
    <3> QED BY <1>2, <3>1, <3>2, <3>3 DEF Writes
  <2> QED BY <2>1, <2>2
<1>5. ASSUME NEW w, writing' = [writing EXCEPT ![s] = w], Writes(w, asked) PROVE AskedInv'
  <2>1. DOMAIN writing' = Sessions
    BY <1>5 DEF AskedInv
  <2>2. \A u \in Sessions : writing'[u] # None => Writes(writing'[u], asked)
    BY <1>5 DEF AskedInv
  <2> QED BY <1>1, <2>1, <2>2 DEF AskedInv
<1> QED BY <1>1, <1>4, <1>5

LEMMA GiveUpLeaves == ASSUME AskedInv, NEW s \in Sessions, P!GiveUp(s) PROVE AskedInv'
<1>1. UNCHANGED asked /\ UNCHANGED nameEdits /\ UNCHANGED counted /\ writing' = [writing EXCEPT ![s] = None]
  BY DEF P!GiveUp
<1>2. DOMAIN writing' = Sessions /\ \A u \in Sessions : writing'[u] # None => Writes(writing'[u], asked)
  BY <1>1 DEF AskedInv
<1> QED BY <1>1, <1>2 DEF AskedInv

\* A row that is written keeps what it is about; if it waits, it did, or was opened again.
SameRow(was, row) ==
    /\ row \in P!Suggestion
    /\ row.what = was.what /\ row.saw = was.saw
    /\ was.reopened => row.reopened
    /\ row.state = "proposed" => was.state = "proposed" \/ row.reopened

\* Who read the row that was written is refused, the others go on.
LEMMA OthersRefused ==
    ASSUME AskedInv, NEW i \in DOMAIN asked, NEW row, SameRow(asked[i], row), NEW more,
           more = [asked EXCEPT ![i] = row],
           \A s \in Sessions : writing'[s] # None => writing'[s] = P!Dirtied({i})[s]
    PROVE  /\ more \in Seq(P!Suggestion) /\ Doubles(more)
           /\ \A s \in Sessions : writing'[s] # None => Writes(writing'[s], more)
<1>1. asked \in Seq(P!Suggestion) /\ row \in P!Suggestion
  BY DEF AskedInv, SameRow
<1>2. /\ more \in Seq(P!Suggestion) /\ DOMAIN more = DOMAIN asked /\ more[i] = row
      /\ \A j \in DOMAIN asked : j # i => more[j] = asked[j]
  BY <1>1
<1>3. \A j \in DOMAIN asked : /\ more[j].what = asked[j].what /\ more[j].saw = asked[j].saw
                              /\ asked[j].reopened => more[j].reopened
                              /\ more[j].state = "proposed" => asked[j].state = "proposed" \/ more[j].reopened
  <2> SUFFICES ASSUME NEW j \in DOMAIN asked
               PROVE  /\ more[j].what = asked[j].what /\ more[j].saw = asked[j].saw
                      /\ asked[j].reopened => more[j].reopened
                      /\ more[j].state = "proposed" => asked[j].state = "proposed" \/ more[j].reopened
    OBVIOUS
  <2>1. CASE j = i
    BY <1>2, <2>1 DEF SameRow
  <2>2. CASE j # i
    BY <1>2, <2>2
  <2> QED BY <2>1, <2>2
<1>4. Doubles(more)
  <2>1. Doubles(asked)
    BY DEF AskedInv
  <2> QED BY <1>2, <1>3, <2>1 DEF Doubles
<1>5. ASSUME NEW s \in Sessions, writing'[s] # None PROVE Writes(writing'[s], more)
  <2>1. ASSUME NEW w, w = writing[s], NEW v, v = writing'[s] PROVE Writes(v, more)
    <3>1. v = IF w # None /\ w.row \in {i} THEN [w EXCEPT !.clean = FALSE] ELSE w
      BY <1>5, <2>1 DEF P!Dirtied
    <3>2. CASE w # None /\ w.row = i
      <4>1. Writes(w, asked)
        BY <2>1, <3>2 DEF AskedInv
      <4>2. v = [w EXCEPT !.clean = FALSE]
        BY <3>1, <3>2
      <4>3. /\ v \in [what : Contents, saw : SUBSET Nat, row : Nat, times : Nat, clean : BOOLEAN]
            /\ v.what = w.what /\ v.saw = w.saw /\ v.row = w.row /\ v.times = w.times /\ v.clean = FALSE
        BY <4>1, <4>2 DEF Writes
      <4>4. v.row # 0
        BY <1>1, <3>2, <4>3
      <4>5. v.saw \subseteq DOMAIN more /\ v.row \in DOMAIN more
        BY <1>2, <3>2, <4>1, <4>3 DEF Writes
      <4> QED BY <4>3, <4>4, <4>5 DEF Writes
    <3>3. CASE ~(w # None /\ w.row = i)
      <4>1. v = w
        BY <3>1, <3>3
      <4>2. w # None /\ w.row # i
        BY <1>5, <2>1, <3>3, <4>1
      <4>3. Writes(w, asked)
        BY <2>1, <4>2 DEF AskedInv
      <4>4. /\ w \in [what : Contents, saw : SUBSET Nat, row : Nat, times : Nat, clean : BOOLEAN]
            /\ w.saw \subseteq DOMAIN more
            /\ w.row # 0 => w.row \in DOMAIN more
            /\ w.row # 0 /\ w.clean => more[w.row].what = w.what /\ more[w.row].times = w.times
        BY <1>2, <4>2, <4>3 DEF Writes
      <4>5. w.row = 0 => \A j \in w.saw : more[j].what = w.what /\ more[j].state = "proposed" => more[j].reopened
        BY <1>2, <1>3, <4>3 DEF Writes
      <4> QED BY <4>1, <4>4, <4>5 DEF Writes
    <3> QED BY <3>2, <3>3
  <2> QED BY <2>1
<1> QED BY <1>2, <1>4, <1>5

LEMMA EditCounts == ASSUME P!Tables, nameEdits \in 0..MaxNameEdits, P!Edit PROVE nameEdits' \in 0..MaxNameEdits
BY DEF P!Edit, P!Tables

\* Somebody decides about a row, or opens it again: it says as often what it said.
LEMMA DecisionKeeps ==
    ASSUME P!Tables, AskedInv, NEW i \in DOMAIN asked, NEW row, SameRow(asked[i], row), row.times = asked[i].times,
           asked' = [asked EXCEPT ![i] = row], writing' = P!Dirtied({i}), P!Edit, counted' = counted
    PROVE  AskedInv'
<1>1. asked \in Seq(P!Suggestion) /\ counted \in [Contents -> Nat] /\ AddUp(asked, counted)
  BY DEF AskedInv
<1>2. /\ asked' \in Seq(P!Suggestion) /\ Doubles(asked')
      /\ \A s \in Sessions : writing'[s] # None => Writes(writing'[s], asked')
  BY OthersRefused
<1>3. DOMAIN writing' = Sessions
  BY DEF P!Dirtied
<1>4. AddUp(asked', counted)
  <2>1. CountedMore(counted, asked[i].what, 0) = counted
    <3>1. \A what \in Contents : counted[what] + 0 = counted[what]
      BY <1>1
    <3> QED BY <1>1, <3>1 DEF CountedMore
  <2>2. /\ Len(asked') = Len(asked) /\ \A j \in DOMAIN asked : j # i => asked'[j] = asked[j]
        /\ asked'[i] = row
    BY <1>1
  <2>3. SaysMore(asked[i], asked'[i], 0) /\ 0 \in Nat
    <3>1. asked[i] \in P!Suggestion
      BY <1>1
    <3>2. asked[i].times \in Nat
      BY <3>1 DEF P!Suggestion
    <3> QED BY <2>2, <3>2 DEF SameRow, SaysMore
  <2>4. AddUp(asked', CountedMore(counted, asked[i].what, 0))
    BY <1>1, <1>2, <2>2, <2>3, RowCounts
  <2> QED BY <2>1, <2>4
<1>5. nameEdits' \in 0..MaxNameEdits
  BY EditCounts DEF AskedInv
<1> QED BY <1>1, <1>2, <1>3, <1>4, <1>5 DEF AskedInv

LEMMA RatifyCounts == ASSUME P!Tables, AskedInv, NEW i \in DOMAIN asked, P!Ratify(i) PROVE AskedInv'
<1>1. ASSUME NEW was \in P!Suggestion, was = asked[i] PROVE AskedInv'
  <2> DEFINE row == [was EXCEPT !.state = "ratified"]
  <2>1. asked' = [asked EXCEPT ![i] = row] /\ writing' = P!Dirtied({i}) /\ P!Edit /\ counted' = counted
    BY <1>1 DEF P!Ratify
  <2>2. SameRow(was, row) /\ row.times = was.times
    BY DEF SameRow, P!Suggestion
  <2> HIDE DEF row
  <2> QED BY <1>1, <2>1, <2>2, DecisionKeeps
<1>2. asked[i] \in P!Suggestion
  BY DEF AskedInv
<1> QED BY <1>1, <1>2

LEMMA RejectCounts == ASSUME P!Tables, AskedInv, NEW i \in DOMAIN asked, P!Reject(i) PROVE AskedInv'
<1>1. ASSUME NEW was \in P!Suggestion, was = asked[i] PROVE AskedInv'
  <2> DEFINE row == [was EXCEPT !.state = "rejected"]
  <2>1. asked' = [asked EXCEPT ![i] = row] /\ writing' = P!Dirtied({i}) /\ P!Edit /\ counted' = counted
    BY <1>1 DEF P!Reject
  <2>2. SameRow(was, row) /\ row.times = was.times
    BY DEF SameRow, P!Suggestion
  <2> HIDE DEF row
  <2> QED BY <1>1, <2>1, <2>2, DecisionKeeps
<1>2. asked[i] \in P!Suggestion
  BY DEF AskedInv
<1> QED BY <1>1, <1>2

LEMMA ReopenCounts == ASSUME P!Tables, AskedInv, NEW i \in DOMAIN asked, P!Reopen(i) PROVE AskedInv'
<1>1. ASSUME NEW was \in P!Suggestion, was = asked[i] PROVE AskedInv'
  <2> DEFINE row == [was EXCEPT !.state = "proposed", !.reopened = TRUE]
  <2>1. asked' = [asked EXCEPT ![i] = row] /\ writing' = P!Dirtied({i}) /\ P!Edit /\ counted' = counted
    BY <1>1 DEF P!Reopen
  <2>2. SameRow(was, row) /\ row.times = was.times
    BY DEF SameRow, P!Suggestion
  <2> HIDE DEF row
  <2> QED BY <1>1, <2>1, <2>2, DecisionKeeps
<1>2. asked[i] \in P!Suggestion
  BY DEF AskedInv
<1> QED BY <1>1, <1>2

LEMMA SuggestCounts == ASSUME P!Tables, AskedInv, NEW s \in Sessions, P!Suggest(s) PROVE AskedInv'
<1>0. asked \in Seq(P!Suggestion) /\ counted \in [Contents -> Nat] /\ AddUp(asked, counted) /\ Doubles(asked)
  BY DEF AskedInv
<1>1. nameEdits' \in 0..MaxNameEdits
  <2>1. P!Edit
    BY DEF P!Suggest
  <2> QED BY <2>1, EditCounts DEF AskedInv
<1>2. ASSUME NEW w, w = writing[s] PROVE AskedInv'
  <2>1. w # None /\ w.clean /\ Writes(w, asked)
    BY <1>2 DEF P!Suggest, AskedInv
  <2>2. /\ w.what \in Contents /\ w.saw \subseteq DOMAIN asked /\ w.saw \in SUBSET Nat
        /\ w.row \in Nat /\ w.times \in Nat
    BY <2>1 DEF Writes
  <2>3. counted' = [counted EXCEPT ![w.what] = @ + 1]
    BY <1>2 DEF P!Suggest
  <2>4. /\ counted' \in [Contents -> Nat]
        /\ counted' = CountedMore(counted, w.what, 1)
    <3>1. counted' = [what \in Contents |-> IF what = w.what THEN counted[w.what] + 1 ELSE counted[what]]
      BY <1>0, <2>3
    <3>2. \A what \in Contents : counted[what] \in Nat
      BY <1>0
    <3> QED BY <2>2, <3>1, <3>2 DEF CountedMore
  <2>5. DOMAIN writing' = Sessions /\ \A u \in Sessions : writing'[u] # None => writing'[u] = P!Dirtied({w.row} \ {0})[u]
    <3>1. writing' = [P!Dirtied({w.row} \ {0}) EXCEPT ![s] = None]
      BY <1>2 DEF P!Suggest
    <3>2. DOMAIN P!Dirtied({w.row} \ {0}) = Sessions
      BY DEF P!Dirtied
    <3> QED BY <3>1, <3>2
  <2>6. CASE w.row = 0
    <3> DEFINE new == [what |-> w.what, state |-> "proposed", times |-> 1, saw |-> w.saw, reopened |-> FALSE]
    <3>1. asked' = Append(asked, new)
      BY <1>2, <2>6 DEF P!Suggest
    <3>2. /\ new \in P!Suggestion /\ new.what = w.what /\ new.times = 1 /\ new.saw = w.saw
          /\ new.reopened = FALSE
      BY <2>2 DEF P!Suggestion
    <3> HIDE DEF new
    <3>3. /\ asked' \in Seq(P!Suggestion) /\ DOMAIN asked \subseteq DOMAIN asked'
          /\ \A j \in DOMAIN asked : asked'[j] = asked[j]
          /\ \A j \in DOMAIN asked' : j \notin DOMAIN asked => j = Len(asked) + 1 /\ asked'[j] = new
      BY <1>0, <3>1, <3>2
    <3>4. AddUp(asked', counted')
      BY <1>0, <2>4, <3>1, <3>2, RowAdded
    <3>5. Doubles(asked')
      <4> SUFFICES ASSUME NEW i \in DOMAIN asked', NEW j \in DOMAIN asked', i < j,
                          asked'[i].what = asked'[j].what, asked'[i].state = "proposed", asked'[j].state = "proposed"
                   PROVE  asked'[i].reopened \/ asked'[j].reopened \/ i \notin asked'[j].saw
        BY DEF Doubles
      <4>1. CASE j \in DOMAIN asked
        <5>1. i \in DOMAIN asked
          <6>1. DOMAIN asked = 1..Len(asked) /\ DOMAIN asked' = 1..Len(asked') /\ Len(asked) \in Nat
            BY <1>0, <3>3
          <6> QED BY <4>1, <6>1
        <5> QED BY <1>0, <3>3, <4>1, <5>1 DEF Doubles
      <4>2. CASE j \notin DOMAIN asked
        <5>1. asked'[j] = new
          BY <3>3, <4>2
        <5>2. CASE i \in w.saw
          <6>1. asked'[i] = asked[i]
            BY <2>2, <3>3, <5>2
          <6> QED BY <2>1, <2>6, <3>2, <5>1, <5>2, <6>1 DEF Writes
        <5>3. CASE i \notin w.saw
          BY <3>2, <5>1, <5>3
        <5> QED BY <5>2, <5>3
      <4> QED BY <4>1, <4>2
    <3>6. ASSUME NEW u \in Sessions, writing'[u] # None PROVE Writes(writing'[u], asked')
      <4>1. writing'[u] = writing[u]
        <5>1. {w.row} \ {0} = {}
          BY <2>6
        <5>2. P!Dirtied({})[u] = writing[u]
          BY DEF P!Dirtied
        <5> QED BY <2>5, <3>6, <5>1, <5>2
      <4>2. Writes(writing[u], asked)
        BY <3>6, <4>1 DEF AskedInv
      <4>3. ASSUME NEW v, v = writing[u] PROVE Writes(v, asked')
        BY <3>3, <4>2, <4>3 DEF Writes
      <4> QED BY <4>1, <4>3
    <3> QED BY <1>1, <2>4, <2>5, <3>3, <3>4, <3>5, <3>6 DEF AskedInv
  <2>7. CASE w.row # 0
    <3>1. w.row \in DOMAIN asked /\ asked[w.row].what = w.what /\ asked[w.row].times = w.times /\ {w.row} \ {0} = {w.row}
      BY <2>1, <2>7 DEF Writes
    <3>2. ASSUME NEW i \in DOMAIN asked, i = w.row, NEW was \in P!Suggestion, was = asked[i] PROVE AskedInv'
      <4> DEFINE row == [was EXCEPT !.times = w.times + 1]
      <4>1. asked' = [asked EXCEPT ![i] = row]
        BY <1>2, <2>7, <3>2 DEF P!Suggest
      <4>2. SameRow(was, row) /\ row.times = was.times + 1 /\ row.what = w.what
        BY <2>2, <3>1, <3>2 DEF SameRow, P!Suggestion
      <4> HIDE DEF row
      <4>3. \A u \in Sessions : writing'[u] # None => writing'[u] = P!Dirtied({i})[u]
        BY <2>5, <3>1, <3>2
      <4>4. /\ asked' \in Seq(P!Suggestion) /\ Doubles(asked')
            /\ \A u \in Sessions : writing'[u] # None => Writes(writing'[u], asked')
        BY <3>2, <4>1, <4>2, <4>3, OthersRefused
      <4>5. /\ Len(asked') = Len(asked) /\ \A j \in DOMAIN asked : j # i => asked'[j] = asked[j]
            /\ asked'[i] = row
        BY <1>0, <4>1
      <4>6. SaysMore(asked[i], asked'[i], 1) /\ asked[i].what = w.what /\ 1 \in Nat
        BY <3>1, <3>2, <4>2, <4>5 DEF SaysMore
      <4>7. AddUp(asked', CountedMore(counted, asked[i].what, 1))
        BY <1>0, <4>4, <4>5, <4>6, RowCounts
      <4>8. AddUp(asked', counted')
        BY <2>4, <4>6, <4>7
      <4> QED BY <1>1, <2>4, <2>5, <4>4, <4>8 DEF AskedInv
    <3>3. asked[w.row] \in P!Suggestion
      BY <1>0, <3>1
    <3> QED BY <3>1, <3>2, <3>3
  <2> QED BY <2>6, <2>7
<1> QED BY <1>2

\* What people do to names and codes leaves the suggestions alone.
LEMMA EditLeaves ==
    ASSUME P!Tables, AskedInv, P!Edit, UNCHANGED asked, UNCHANGED writing, UNCHANGED counted PROVE AskedInv'
<1>1. nameEdits' \in 0..MaxNameEdits
  BY EditCounts DEF AskedInv
<1> QED BY <1>1 DEF AskedInv

\* Nothing was suggested yet.
LEMMA AskedStarts == ASSUME P!Tables, P!Init PROVE AskedInv
<1>1. /\ asked = <<>> /\ writing = [s \in Sessions |-> None] /\ nameEdits = 0
      /\ counted = [what \in Contents |-> 0]
  BY DEF P!Init
<1>2. asked \in Seq(P!Suggestion) /\ Len(asked) = 0 /\ DOMAIN asked = {}
  BY <1>1
<1>3. AddUp(asked, counted)
  <2> SUFFICES ASSUME NEW what \in Contents
               PROVE  \E up : Totals(up, Weights(asked, what), Len(asked)) /\ up[Len(asked)] = counted[what]
    BY DEF AddUp
  <2>1. Weights(asked, what) \in [1..Len(asked) -> Int] /\ Len(asked) \in Nat
    BY <1>2, Weighed
  <2>2. PICK up : Totals(up, Weights(asked, what), Len(asked))
    BY <2>1, TotalsExist
  <2>3. up[0] = 0
    BY <2>1, <2>2, TotalsStep
  <2> QED BY <1>1, <1>2, <2>2, <2>3
<1>4. 0 \in 0..MaxNameEdits
  BY DEF P!Tables
<1>5. Doubles(asked)
  BY <1>2 DEF Doubles
<1> QED BY <1>1, <1>2, <1>3, <1>4, <1>5 DEF AskedInv

-----------------------------------------------------------------------------
(* The names, the codes and the suggestions, together.                       *)
NamesInv == NamesOK(alias) /\ CodesOK(code) /\ ReadingInv /\ AskedInv

LEMMA NamesStart == ASSUME P!Tables, P!Init PROVE NamesInv
<1>1. NamesOK(alias)
  BY DEF P!Init, NamesOK
<1>2. CodesOK(code)
  BY DEF P!Init, CodesOK
<1>3. ReadingInv
  BY DEF P!Init, ReadingInv
<1> QED BY <1>1, <1>2, <1>3, AskedStarts DEF NamesInv

\* What a load reads.
LEMMA ReadReads ==
    ASSUME P!Tables, CodesOK(code), NEW b \in NameFiles, P!Read(b) PROVE ReadingInv'
<1>1. /\ b.alias \subseteq NamePlaces \X OtherNames /\ HitsOK(b.hits)
  BY DEF P!Tables, HitsOK
<1>2. /\ \A a \in P!Revised(b.alias) : a.origin = "bundle"
      /\ \A a \in P!Removed(b.alias) : a.origin = "bundle" /\ a.kept = {}
  BY DEF P!Revised, P!Removed, P!Imported
<1> DEFINE names0 == {<<a.place, a.name>> : a \in alias}
           coded0 == {code[i].place : i \in P!Rows}
<1>3. P!New(b.alias) \subseteq b.alias /\ \A p \in P!New(b.alias) : <<p[1], p[2]>> \notin names0
  BY DEF P!New, P!Called
<1>4. P!Rehit(b.hits) \subseteq DOMAIN b.hits
  BY DEF P!Rehit
<1>5. P!NewCodes(b.hits) \subseteq DOMAIN b.hits /\ P!NewCodes(b.hits) \cap coded0 = {}
  <2>1. P!NewCodes(b.hits) \subseteq DOMAIN b.hits
    BY DEF P!NewCodes
  <2>2. ASSUME NEW p \in P!NewCodes(b.hits), NEW i \in P!Rows PROVE code[i].place # p
    BY RowFound DEF P!NewCodes, P!Rows
  <2> QED BY <2>1, <2>2
<1>6. \A i \in DOMAIN code : code[i].place \in P!Dropped(b.hits) \cup P!Rehit(b.hits) => code[i].source = "import"
  <2> SUFFICES ASSUME NEW i \in DOMAIN code, code[i].place \in P!Dropped(b.hits) \cup P!Rehit(b.hits)
               PROVE  code[i].source = "import"
    OBVIOUS
  <2>1. PICK j \in P!ImportedCodes : code[j].place = code[i].place
    BY DEF P!Dropped, P!Rehit
  <2>2. j \in DOMAIN code /\ code[j].source = "import"
    BY DEF P!ImportedCodes, P!Rows
  <2> QED BY <2>1, <2>2 DEF CodesOK
<1>7. ASSUME NEW l, l = [revised |-> P!Revised(b.alias), removed |-> P!Removed(b.alias), new |-> P!New(b.alias),
                         hits |-> b.hits, dropped |-> P!Dropped(b.hits), rehit |-> P!Rehit(b.hits),
                         newCodes |-> P!NewCodes(b.hits), clean |-> TRUE, names |-> names0, coded |-> coded0]
      PROVE  ReadOK(l) /\ Awaits(l, code)
  <2>1. /\ DOMAIN l = {"revised", "removed", "new", "hits", "dropped", "rehit", "newCodes", "clean", "names", "coded"}
        /\ l.revised = P!Revised(b.alias) /\ l.removed = P!Removed(b.alias) /\ l.new = P!New(b.alias)
        /\ l.hits = b.hits /\ l.dropped = P!Dropped(b.hits) /\ l.rehit = P!Rehit(b.hits)
        /\ l.newCodes = P!NewCodes(b.hits) /\ l.names = names0 /\ l.coded = coded0
    <3> HIDE DEF names0, coded0
    <3> QED BY <1>7
  <2> HIDE DEF names0, coded0
  <2>2. ReadOK(l)
    BY <1>1, <1>2, <1>3, <1>4, <1>5, <2>1 DEF ReadOK
  <2>3. Awaits(l, code)
    BY <1>6, <2>1 DEF Awaits
  <2> QED BY <2>2, <2>3
<1>8. code' = code /\ reading' = [revised |-> P!Revised(b.alias), removed |-> P!Removed(b.alias), new |-> P!New(b.alias),
                         hits |-> b.hits, dropped |-> P!Dropped(b.hits), rehit |-> P!Rehit(b.hits),
                         newCodes |-> P!NewCodes(b.hits), clean |-> TRUE, names |-> names0, coded |-> coded0]
  BY DEF P!Read
<1> HIDE DEF names0, coded0
<1> QED BY <1>7, <1>8 DEF ReadingInv

\* A load's rows may be written by others, and then it is not clean any more.
LEMMA OvertakenKeeps ==
    ASSUME ReadingInv, NEW rows, NEW places, reading' = P!Overtaken(rows, places),
           \A i \in DOMAIN code' : \/ code'[i].place \in places
                                   \/ /\ i \in DOMAIN code
                                      /\ code'[i].place = code[i].place /\ code'[i].source = code[i].source
    PROVE  ReadingInv'
<1>1. CASE reading = None
  BY <1>1 DEF P!Overtaken, ReadingInv
<1>2. CASE reading # None
  <2>1. ASSUME NEW l, l = reading PROVE ReadingInv'
    <3>1. ReadOK(l) /\ Awaits(l, code)
      BY <1>2, <2>1 DEF ReadingInv
    <3>2. CASE reading' = l /\ places \cap (l.dropped \cup l.rehit) = {}
      <4>1. Awaits(l, code')
        BY <3>1, <3>2 DEF Awaits
      <4> QED BY <3>1, <3>2, <4>1 DEF ReadingInv
    <3>3. CASE reading' = [l EXCEPT !.clean = FALSE]
      <4>1. ASSUME NEW m, m = [l EXCEPT !.clean = FALSE] PROVE ReadOK(m) /\ Awaits(m, code')
        <5>0. DOMAIN l = {"revised", "removed", "new", "hits", "dropped", "rehit", "newCodes", "clean", "names",
                          "coded"}
          BY <3>1 DEF ReadOK
        <5>1. /\ DOMAIN m = DOMAIN l
              /\ m.revised = l.revised /\ m.removed = l.removed /\ m.new = l.new /\ m.names = l.names
              /\ m.hits = l.hits /\ m.rehit = l.rehit /\ m.newCodes = l.newCodes /\ m.coded = l.coded
          BY <4>1, <5>0
        <5>2. ReadOK(m)
          BY <3>1, <5>1 DEF ReadOK
        <5>3. ~m.clean
          BY <4>1, <5>0
        <5> QED BY <5>2, <5>3 DEF Awaits
      <4> QED BY <3>3, <4>1 DEF ReadingInv
    <3> QED BY <1>2, <2>1, <3>2, <3>3 DEF P!Overtaken
  <2> QED BY <2>1
<1> QED BY <1>1, <1>2

\* Of the rows of codes, one more or one that is settled is the place's that is written.
LEMMA CodeWritten ==
    ASSUME CodesOK(code), NEW p, NEW row, row.place = p
    PROVE  /\ \A i \in DOMAIN Append(code, row) : \/ Append(code, row)[i].place = p
                                                  \/ i \in DOMAIN code /\ Append(code, row)[i] = code[i]
           /\ \A k \in DOMAIN code : \A i \in DOMAIN [code EXCEPT ![k] = row] :
                 \/ [code EXCEPT ![k] = row][i].place = p
                 \/ i \in DOMAIN code /\ [code EXCEPT ![k] = row][i] = code[i]
<1>1. code \in Seq(P!CodeRow)
  BY DEF CodesOK
<1> QED BY <1>1
LEMMA ReadingBesideLearn ==
    ASSUME CodesOK(code), ReadingInv, NEW p \in NamePlaces, P!Learn(p) PROVE ReadingInv'
<1>1. ASSUME NEW rows, rows = code', \A i \in DOMAIN rows : rows[i].place = p \/ (i \in DOMAIN code /\ rows[i] = code[i])
      PROVE  ReadingInv'
  <2>1. reading' = P!Overtaken({}, {p})
    BY DEF P!Learn
  <2> QED BY <1>1, <2>1, OvertakenKeeps
<1>2. CASE P!RowOf(p) = 0
  <2>1. code' = Append(code, [place |-> p, source |-> "learned", hits |-> 1])
    BY <1>2 DEF P!Learn
  <2> QED BY <1>1, <2>1, CodeWritten
<1>3. CASE P!RowOf(p) # 0
  <2>1. ASSUME NEW i, i = P!RowOf(p), NEW row, row = code[i] PROVE ReadingInv'
    <3>1. i \in DOMAIN code /\ row \in P!CodeRow /\ row.place = p
      BY <1>3, <2>1, RowFound DEF CodesOK
    <3>2. code' = [code EXCEPT ![i] = [row EXCEPT !.hits = P!More(row.hits)]]
      BY <1>3, <2>1 DEF P!Learn
    <3>3. ASSUME NEW new, new = [row EXCEPT !.hits = P!More(row.hits)], NEW rows, rows = code' PROVE ReadingInv'
      <4>1. new.place = p
        BY <3>1, <3>3 DEF P!CodeRow
      <4>2. rows = [code EXCEPT ![i] = new]
        BY <3>2, <3>3
      <4>3. \A j \in DOMAIN rows : rows[j].place = p \/ (j \in DOMAIN code /\ rows[j] = code[j])
        BY <3>1, <4>1, <4>2, CodeWritten
      <4> QED BY <1>1, <3>3, <4>3
    <3> QED BY <3>3
  <2> QED BY <2>1
<1> QED BY <1>2, <1>3

\* Staff write a row's source.
LEMMA ReadingBesideSource ==
    ASSUME CodesOK(code), ReadingInv, NEW i \in DOMAIN code, NEW who,
           code' = [code EXCEPT ![i].source = who], reading' = P!Overtaken({}, {code[i].place})
    PROVE  ReadingInv'
<1>1. ASSUME NEW row, row = code[i], NEW rows, rows = code' PROVE ReadingInv'
  <2>1. row \in P!CodeRow
    BY <1>1 DEF CodesOK
  <2>2. rows = [code EXCEPT ![i] = [row EXCEPT !.source = who]] /\ [row EXCEPT !.source = who].place = row.place
    BY <1>1, <2>1 DEF P!CodeRow
  <2>3. \A j \in DOMAIN rows : rows[j].place = row.place \/ (j \in DOMAIN code /\ rows[j] = code[j])
    BY <2>2, CodeWritten
  <2> QED BY <1>1, <2>3, OvertakenKeeps
<1> QED BY <1>1
LEMMA ReadingBesideDecided ==
    ASSUME CodesOK(code), ReadingInv, NEW p \in NamePlaces, code' = P!Decided(p), reading' = P!Overtaken({}, {p})
    PROVE  ReadingInv'
<1>1. CASE P!RowOf(p) = 0
  <2>1. code' = Append(code, [place |-> p, source |-> "staff", hits |-> 0])
    BY <1>1 DEF P!Decided
  <2>2. \A i \in DOMAIN code' : code'[i].place = p \/ (i \in DOMAIN code /\ code'[i] = code[i])
    BY <2>1, CodeWritten
  <2> QED BY <2>2, OvertakenKeeps
<1>2. CASE P!RowOf(p) # 0
  <2>1. P!RowOf(p) \in DOMAIN code /\ code[P!RowOf(p)].place = p
    BY <1>2, RowFound DEF CodesOK
  <2>2. code' = [code EXCEPT ![P!RowOf(p)].source = "staff"]
    BY <1>2 DEF P!Decided
  <2> QED BY <2>1, <2>2, ReadingBesideSource
<1> QED BY <1>1, <1>2

\* Names alone are written.
LEMMA ReadingBesideNames ==
    ASSUME ReadingInv, UNCHANGED code, NEW rows, reading' = P!Overtaken(rows, {}) PROVE ReadingInv'
<1>1. \A i \in DOMAIN code' : i \in DOMAIN code /\ code'[i].place = code[i].place /\ code'[i].source = code[i].source
  OBVIOUS
<1> QED BY <1>1, OvertakenKeeps

\* What is ratified is about a place and a name there are.
LEMMA RatifyKeeps ==
    ASSUME P!Tables, NamesInv, NEW i \in DOMAIN asked, P!Ratify(i) PROVE NamesOK(alias') /\ CodesOK(code')
<1>1. ASSUME NEW what \in Contents, what = asked[i].what PROVE NamesOK(alias') /\ CodesOK(code')
  <2>1. /\ alias' = IF what[1] = "alias" THEN P!Ratified(what) ELSE alias
        /\ code' = IF what[1] = "postcode" THEN P!Decided(what[2]) ELSE code
    BY <1>1 DEF P!Ratify
  <2>2. \/ what[1] = "alias" /\ what[2] \in NamePlaces /\ what[3] \in OtherNames
        \/ what[1] = "postcode" /\ what[2] \in NamePlaces
    BY DEF P!Tables
  <2>3. CASE what[1] = "alias" /\ what[2] \in NamePlaces /\ what[3] \in OtherNames
    <3>1. alias' = P!Ratified(what) /\ code' = code
      BY <2>1, <2>3
    <3> QED BY <2>3, <3>1, RatifiedKeeps DEF NamesInv
  <2>4. CASE what[1] = "postcode" /\ what[2] \in NamePlaces
    <3>1. alias' = alias /\ code' = P!Decided(what[2])
      BY <2>1, <2>4
    <3> QED BY <2>4, <3>1, DecidedKeeps DEF NamesInv
  <2> QED BY <2>2, <2>3, <2>4
<1>2. asked[i].what \in Contents
  <2>1. asked[i] \in P!Suggestion
    BY DEF NamesInv, AskedInv
  <2> QED BY <2>1 DEF P!Suggestion
<1> QED BY <1>1, <1>2
LEMMA ReadingBesideRatify ==
    ASSUME P!Tables, NamesInv, NEW i \in DOMAIN asked, P!Ratify(i) PROVE ReadingInv'
<1>0. CodesOK(code) /\ ReadingInv
  BY DEF NamesInv
<1>1. ASSUME NEW what \in Contents, what = asked[i].what PROVE ReadingInv'
  <2>1. /\ code' = IF what[1] = "postcode" THEN P!Decided(what[2]) ELSE code
        /\ reading' = IF what[1] = "alias" THEN P!Overtaken(P!Called(what[2], what[3]), {})
                      ELSE P!Overtaken({}, {what[2]})
    BY <1>1 DEF P!Ratify
  <2>2. \/ what[1] = "alias"
        \/ what[1] = "postcode" /\ what[2] \in NamePlaces
    BY DEF P!Tables
  <2>3. CASE what[1] = "alias"
    BY <1>0, <2>1, <2>3, ReadingBesideNames
  <2>4. CASE what[1] = "postcode" /\ what[2] \in NamePlaces
    BY <1>0, <2>1, <2>4, ReadingBesideDecided
  <2> QED BY <2>2, <2>3, <2>4
<1>2. asked[i].what \in Contents
  <2>1. asked[i] \in P!Suggestion
    BY DEF NamesInv, AskedInv
  <2> QED BY <2>1 DEF P!Suggestion
<1> QED BY <1>1, <1>2

LEMMA NamesStep == ASSUME P!Tables, NamesInv, [P!Next]_names PROVE NamesInv'
<1>0. NamesOK(alias) /\ CodesOK(code) /\ ReadingInv /\ AskedInv
  BY DEF NamesInv
<1>1. CASE UNCHANGED names
  <2>1. UNCHANGED alias /\ UNCHANGED code /\ UNCHANGED asked /\ UNCHANGED writing /\ UNCHANGED reading
        /\ UNCHANGED nameEdits /\ UNCHANGED counted
    BY <1>1 DEF names
  <2> QED BY <2>1 DEF NamesInv, ReadingInv, AskedInv
<1>2. CASE P!Next
  <2>1. ASSUME NEW p \in NamePlaces, NEW n \in OtherNames, P!AddAlias(p, n) PROVE NamesInv'
    <3>1. P!Edit /\ UNCHANGED code /\ UNCHANGED asked /\ UNCHANGED writing /\ UNCHANGED reading /\ UNCHANGED counted
      BY <2>1 DEF P!AddAlias
    <3>2. ReadingInv'
      BY <1>0, <3>1 DEF ReadingInv
    <3> QED BY <1>0, <2>1, <3>1, <3>2, AddAliasKeeps, EditLeaves DEF NamesInv
  <2>2. ASSUME NEW a \in alias, P!RemoveAlias(a) PROVE NamesInv'
    <3>1. P!Edit /\ UNCHANGED code /\ UNCHANGED asked /\ UNCHANGED writing /\ UNCHANGED counted
      BY <2>2 DEF P!RemoveAlias
    <3>2. ReadingInv'
      <4>1. reading' = P!Overtaken({a}, {})
        BY <2>2 DEF P!RemoveAlias
      <4> QED BY <1>0, <3>1, <4>1, ReadingBesideNames
    <3> QED BY <1>0, <2>2, <3>1, <3>2, RemoveAliasKeeps, EditLeaves DEF NamesInv
  <2>3. ASSUME NEW a \in alias, NEW n \in OtherNames, P!RenameAlias(a, n) PROVE NamesInv'
    <3>1. P!Edit /\ UNCHANGED code /\ UNCHANGED asked /\ UNCHANGED writing /\ UNCHANGED counted
      BY <2>3 DEF P!RenameAlias
    <3>2. ReadingInv'
      <4>1. reading' = P!Overtaken({a}, {})
        BY <2>3 DEF P!RenameAlias
      <4> QED BY <1>0, <3>1, <4>1, ReadingBesideNames
    <3> QED BY <1>0, <2>3, <3>1, <3>2, RenameAliasKeeps, EditLeaves DEF NamesInv
  <2>4. ASSUME NEW p \in NamePlaces, P!Learn(p) PROVE NamesInv'
    <3>1. P!Edit /\ UNCHANGED alias /\ UNCHANGED asked /\ UNCHANGED writing /\ UNCHANGED counted
      BY <2>4 DEF P!Learn
    <3> QED BY <1>0, <2>4, <3>1, LearnKeeps, ReadingBesideLearn, EditLeaves DEF NamesInv
  <2>5. ASSUME NEW i \in P!Rows, NEW who \in P!Sources, P!Settle(i, who) PROVE NamesInv'
    <3>1. /\ P!Edit /\ UNCHANGED alias /\ UNCHANGED asked /\ UNCHANGED writing /\ UNCHANGED counted
          /\ code' = [code EXCEPT ![i].source = who]
      BY <2>5 DEF P!Settle
    <3>2. i \in DOMAIN code
      BY DEF P!Rows
    <3>3. ReadingInv'
      <4>1. reading' = P!Overtaken({}, {code[i].place})
        BY <2>5 DEF P!Settle
      <4> QED BY <1>0, <3>1, <3>2, <4>1, ReadingBesideSource
    <3> QED BY <1>0, <3>1, <3>2, <3>3, SourceKeeps, EditLeaves DEF NamesInv
  <2>6. ASSUME NEW s \in Sessions, P!Suggest(s) PROVE NamesInv'
    <3>1. UNCHANGED alias /\ UNCHANGED code /\ UNCHANGED reading
      BY <2>6 DEF P!Suggest
    <3>2. ReadingInv'
      BY <1>0, <3>1 DEF ReadingInv
    <3> QED BY <1>0, <2>6, <3>1, <3>2, SuggestCounts DEF NamesInv
  <2>7. ASSUME NEW s \in Sessions, P!GiveUp(s) PROVE NamesInv'
    <3>1. UNCHANGED alias /\ UNCHANGED code /\ UNCHANGED reading
      BY <2>7 DEF P!GiveUp
    <3>2. ReadingInv'
      BY <1>0, <3>1 DEF ReadingInv
    <3> QED BY <1>0, <2>7, <3>1, <3>2, GiveUpLeaves DEF NamesInv
  <2>8. ASSUME NEW s \in Sessions, NEW what \in Contents, P!LookUp(s, what) PROVE NamesInv'
    <3>1. UNCHANGED alias /\ UNCHANGED code /\ UNCHANGED reading
      BY <2>8 DEF P!LookUp
    <3>2. ReadingInv'
      BY <1>0, <3>1 DEF ReadingInv
    <3> QED BY <1>0, <2>8, <3>1, <3>2, LookUpReads DEF NamesInv
  <2>9. ASSUME NEW i \in DOMAIN asked, P!Ratify(i) PROVE NamesInv'
    BY <1>0, <2>9, RatifyKeeps, ReadingBesideRatify, RatifyCounts DEF NamesInv
  <2>10. ASSUME NEW i \in DOMAIN asked, P!Reject(i) PROVE NamesInv'
    <3>1. UNCHANGED alias /\ UNCHANGED code /\ UNCHANGED reading
      BY <2>10 DEF P!Reject
    <3>2. ReadingInv'
      BY <1>0, <3>1 DEF ReadingInv
    <3> QED BY <1>0, <2>10, <3>1, <3>2, RejectCounts DEF NamesInv
  <2>11. ASSUME NEW i \in DOMAIN asked, P!Reopen(i) PROVE NamesInv'
    <3>1. UNCHANGED alias /\ UNCHANGED code /\ UNCHANGED reading
      BY <2>11 DEF P!Reopen
    <3>2. ReadingInv'
      BY <1>0, <3>1 DEF ReadingInv
    <3> QED BY <1>0, <2>11, <3>1, <3>2, ReopenCounts DEF NamesInv
  <2>12. ASSUME NEW b \in NameFiles, P!Read(b) PROVE NamesInv'
    <3>1. UNCHANGED alias /\ UNCHANGED code /\ UNCHANGED asked /\ UNCHANGED writing /\ UNCHANGED nameEdits
          /\ UNCHANGED counted
      BY <2>12 DEF P!Read
    <3>2. AskedInv'
      BY <1>0, <3>1 DEF AskedInv
    <3> QED BY <1>0, <2>12, <3>1, <3>2, ReadReads DEF NamesInv
  <2>13. ASSUME P!Load PROVE NamesInv'
    <3>1. UNCHANGED asked /\ UNCHANGED writing /\ UNCHANGED nameEdits /\ UNCHANGED counted /\ reading' = None
      BY <2>13 DEF P!Load
    <3>2. AskedInv' /\ ReadingInv'
      BY <1>0, <3>1 DEF AskedInv, ReadingInv
    <3> QED BY <1>0, <2>13, <3>2, LoadLeavesOne DEF NamesInv
  <2>14. ASSUME P!LoadFails PROVE NamesInv'
    <3>1. UNCHANGED alias /\ UNCHANGED code /\ UNCHANGED asked /\ UNCHANGED writing /\ UNCHANGED nameEdits
          /\ UNCHANGED counted /\ reading' = None
      BY <2>14 DEF P!LoadFails
    <3>2. AskedInv' /\ ReadingInv'
      BY <1>0, <3>1 DEF AskedInv, ReadingInv
    <3> QED BY <1>0, <3>1, <3>2 DEF NamesInv
  <2> QED BY <1>2, <2>1, <2>2, <2>3, <2>4, <2>5, <2>6, <2>7, <2>8, <2>9, <2>10, <2>11, <2>12, <2>13, <2>14 DEF P!Next
<1> QED BY <1>1, <1>2

\* The invariant holds whatever people suggest, decide and edit and bundles bring.
THEOREM NamesInvariance == TablesSpec => []NamesInv
<1>1. TablesInit => NamesInv
  BY NamesStart, NamesAssumption DEF TablesInit
<1>2. NamesInv /\ [TablesNext]_tables => NamesInv'
  <2>1. [TablesNext]_tables => [P!Next]_names
    BY DEF TablesNext, tables, names
  <2> QED BY <2>1, NamesStep, NamesAssumption
<1> QED BY <1>1, <1>2, PTL DEF TablesSpec

\* A load of a bundle is refused by UNIQUE(place, name) or UNIQUE(prefix, place), which takes the whole
\* load back, only over a name or a place's code somebody wrote after it read: nothing that was there by
\* then, whatever people added, renamed, removed, ratified and learnt, stands in its way (place_load.py).
THEOREM OnlyTheRacedAreRefused == TablesSpec => []LoadsGoThrough
<1>1. NamesInv => LoadsGoThrough
  <2> SUFFICES ASSUME NamesInv PROVE P!LoadsGoThrough
    BY DEF LoadsGoThrough
  <2>1. P!NameClashes(alias) = {} /\ P!CodeClashes(code) = {}
    BY NamesClash, CodesClash DEF NamesInv, NamesOK, CodesOK
  <2>2. ASSUME reading # None, NEW l, l = reading
        PROVE  /\ (P!NameClashes(P!Copied(l)) \cup P!NameClashes(P!AliasesAfter(l))) \cap l.names = {}
               /\ P!CodeClashes(P!CodesAfter(l)) \cap l.coded = {}
    <3>1. ReadOK(l)
      BY <2>2 DEF NamesInv, ReadingInv
    <3> QED BY <3>1, NamesStandAside, CodesStandAside DEF NamesInv
  <2> QED BY <2>1, <2>2 DEF P!LoadsGoThrough
<1> QED BY <1>1, NamesInvariance, PTL

\* However visitors and editors interleave, what was suggested is counted once each time, in one row or
\* another, and the same is not waiting twice unless it was opened again or not to be seen (suggestion.py).
THEOREM EverySuggestionCounts == TablesSpec => []SuggestionsCounted
<1>1. AskedInv => P!EveryVoteCounts
  <2> SUFFICES ASSUME AskedInv, NEW what \in Contents PROVE P!Votes(what) = counted[what]
    BY DEF P!EveryVoteCounts
  <2>1. PICK up : Totals(up, Weights(asked, what), Len(asked)) /\ up[Len(asked)] = counted[what]
    BY DEF AskedInv, AddUp
  <2> QED BY <2>1, VotesAreTotals DEF AskedInv
<1>2. AskedInv => P!CountedOnce
  BY DEF AskedInv, Doubles, P!CountedOnce
<1>3. NamesInv => SuggestionsCounted
  BY <1>1, <1>2 DEF NamesInv, SuggestionsCounted
<1> QED BY <1>3, NamesInvariance, PTL

\* What a load leaves of the names people decided about.
LEMMA NamesStay ==
    ASSUME NamesInv, NEW l, l = reading, P!Load
    PROVE  /\ \A a \in alias : a.origin = "overlay" => a \in alias'
           /\ \A a \in P!Imported : a.kept # {} => AfterLoad(a, l) \in alias'
<1>1. ReadOK(l) /\ alias' = P!AliasesAfter(l)
  BY DEF P!Load, NamesInv, ReadingInv
<1>2. P!AliasesAfter(l) = {AfterLoad(a, l) : a \in P!Copied(l) \ l.removed} /\ alias \subseteq P!Copied(l)
  BY <1>1, AliasesAfterAre DEF NamesInv, P!Copied
<1>3. \A a \in alias \ l.removed : AfterLoad(a, l) \in alias'
  BY <1>1, <1>2
<1>4. \A a \in alias : a.origin = "overlay" => AfterLoad(a, l) = a /\ a \notin l.removed
  BY <1>1 DEF AfterLoad, ReadOK
<1>5. \A a \in P!Imported : a.kept # {} => a \in alias \ l.removed
  BY <1>1 DEF P!Imported, ReadOK
<1> QED BY <1>3, <1>4, <1>5
LEMMA KeptAfter ==
    ASSUME NEW a \in alias, GoodAlias(a), NEW l
    PROVE  /\ AfterLoad(a, l).key = a.key
           /\ "name" \in a.kept => AfterLoad(a, l).name = a.name
           /\ "active" \in a.kept => AfterLoad(a, l).active = a.active
<1>1. P!WantedAlias(a).key = a.key
      /\ ("name" \in a.kept => P!WantedAlias(a).name = a.name)
      /\ ("active" \in a.kept => P!WantedAlias(a).active = a.active)
  BY DEF GoodAlias, P!AliasRow, P!WantedAlias
<1> QED BY <1>1 DEF AfterLoad

\* A load leaves what people decided: the names they added, what they changed of imported ones - one they
\* removed stays away - and the post code's answer, once staff or enough people gave it (place_load.py,
\* postcode.py).
THEOREM LoadsLeaveDecisions == TablesSpec => DecidedStays
<1> DEFINE Stays == /\ \A a \in alias : a.origin = "overlay" => a \in alias'
                    /\ \A a \in P!Imported : a.kept # {} =>
                          \E b \in alias' : /\ b.key = a.key
                                            /\ "name" \in a.kept => b.name = a.name
                                            /\ "active" \in a.kept => b.active = a.active
                    /\ code # <<>> /\ P!Trust(P!Best(code)) >= 2 => P!Best(code)' = P!Best(code)
<1>1. ASSUME NamesInv, NEW l, l = reading, P!Load PROVE Stays
  <2>1. \A a \in alias : a.origin = "overlay" => a \in alias'
    BY <1>1, NamesStay
  <2>2. ASSUME NEW a \in P!Imported, a.kept # {}
        PROVE  \E b \in alias' : /\ b.key = a.key
                                 /\ "name" \in a.kept => b.name = a.name
                                 /\ "active" \in a.kept => b.active = a.active
    <3>1. a \in alias /\ GoodAlias(a)
      BY <1>1 DEF P!Imported, NamesInv, NamesOK
    <3> QED BY <1>1, <2>2, <3>1, NamesStay, KeptAfter
  <2>3. ASSUME code # <<>>, P!Trust(P!Best(code)) >= 2 PROVE P!Best(code') = P!Best(code)
    <3>1. ReadOK(l) /\ l.clean /\ Awaits(l, code) /\ code' = P!CodesAfter(l)
      BY <1>1 DEF P!Load, NamesInv, ReadingInv
    <3> QED BY <1>1, <2>3, <3>1, AnswerStays DEF NamesInv
  <2> QED BY <2>1, <2>2, <2>3
<1>2. NamesInv /\ [TablesNext]_tables => [P!Load => Stays]_(P!vars)
  <2> HIDE DEF Stays
  <2> QED BY <1>1
<1> QED BY <1>2, NamesInvariance, PTL DEF TablesSpec, DecidedStays, P!DecidedStays

-----------------------------------------------------------------------------
(***************************************************************************)
(* The tree beside the other tables is the tree alone, so what Places_proofs says  *)
(* of it holds here.                                                         *)
(***************************************************************************)
THEOREM TreeIsPlaces == TablesSpec => Spec
<1>1. TablesInit => Init
  BY DEF TablesInit
<1>2. [TablesNext]_tables => [Next]_vars
  BY DEF TablesNext, tables, tree
<1> QED BY <1>1, <1>2, PTL DEF TablesSpec, Spec

\* The rows of places, links, names, post codes and suggestions have their shape.
THEOREM TablesTyped == TablesSpec => []Shapes
<1>1. LinksInv => N!TypeOK
  BY DEF LinksInv
<1>2. NamesInv => P!TypeOK
  BY DEF NamesInv, NamesOK, GoodAlias, CodesOK, AskedInv, P!TypeOK
<1>3. TypeOK /\ LinksInv /\ NamesInv => Shapes
  BY <1>1, <1>2 DEF Shapes
<1> QED BY <1>3, TreeIsPlaces, TypeCorrect, LinksInvariance, NamesInvariance, PTL
================================================================================
