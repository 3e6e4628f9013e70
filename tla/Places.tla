-------------------------------- MODULE Places --------------------------------
(***************************************************************************)
(* The tree of places (place.node) under people's edits and bundle loads.   *)
(* A row keeps what it reads as and is found by - path, parent_path, search  *)
(* index, here `up' and `index'; one record that is somewhere                *)
(* (place.located) keeps its city.                                           *)
(*                                                                         *)
(* A request is a transaction of its own: it reads a snapshot and decides,   *)
(* then commits; it is refused when a row it writes was written meanwhile.   *)
(* A write from a form and a ratified suggestion (rename, move, retire, a    *)
(* missing place) are the same writes.  Kinds are fixed and every layer is   *)
(* shown; English names, points and sources go the way of the name.          *)
(***************************************************************************)
EXTENDS PlaceRules, FiniteSets

CONSTANTS
    Codes,              \* the codes of places
    Kind,               \* the kind of each
    NameOf,             \* the names each may bear
    Bundles,            \* the bundles there are: code -> [name, parent], parents first
    Sessions,           \* requests served side by side
    MaxEdits            \* bound: what people change

ASSUME PlacesAssumption ==
    /\ None \notin Codes
    /\ Kind \in [Codes -> Kinds]
    /\ MaxSteps \in Nat /\ MaxEdits \in Nat
    /\ IsFiniteSet(Sessions)
    /\ None \notin Bundles
    /\ \A b \in Bundles :
          /\ DOMAIN b \subseteq Codes
          /\ \A c \in DOMAIN b : b[c].name \in NameOf[c] /\ b[c].parent \in DOMAIN b \cup {None}

VARIABLES
    node,               \* the rows: code -> row, or None
    source,             \* the bundle loaded last (its fingerprint is kept), or None
    spot,               \* the located record: its place and the city stored with it
    work,               \* each session's transaction between its snapshot and its commit
    edits,              \* history: how much people have changed
    raced,              \* history: requests overlapped since the last load that ran alone
    redone              \* history: places whose row somebody renamed or moved

vars == <<node, source, spot, work, edits, raced, redone>>

\* What a bundle carries about a place, and a person may take over (BUNDLE_FIELDS).
Carried == {"name", "parent", "active"}
Origins == {"bundle", "overlay"}
Row == [name : UNION {NameOf[c] : c \in Codes}, parent : Codes \cup {None}, active : BOOLEAN,
        origin : Origins, kept : SUBSET Carried,
        up : Seq(Codes), index : Seq(UNION {NameOf[c] : c \in Codes})]

At == [place : Codes \cup {None}, city : Codes \cup {None}]

ASSUME RowAssumption == None \notin Row /\ None \notin At

Rows(t) == {c \in Codes : t[c] # None}
ParentOf(t) == [c \in {c \in Rows(t) : t[c].parent # None} |-> t[c].parent]
Above(t, c) == Chain(c, ParentOf(t))
Below(t, c) == {d \in Rows(t) : c \in ToSet(Above(t, d))}
\* A place reaches a top, so it is not inside itself.
Rooted(t, c) ==
    LET up == Above(t, c) IN t[IF up = <<>> THEN c ELSE up[Len(up)]].parent = None

\* The columns worked out from the tree.  All of them - path, parent_path, the search index - are
\* functions of the walk up and of the names read along it, so a row keeps these two.
Derived(row, t, c) ==
    LET up == Above(t, c)
    IN [row EXCEPT !.up = up, !.index = <<row.name>> \o [i \in DOMAIN up |-> t[up[i]].name]]
Recompute(t, S) == [c \in Codes |-> IF c \in S THEN Derived(t[c], t, c) ELSE t[c]]

\* place_of_kinds(('city', 'village')): a place, or the nearest above it that is one.
CityOf(t, c) ==
    LET walk == <<c>> \o Above(t, c)
        isCity(d) == Kind[d] \in CITY_KINDS
        at == SelectInSeq(walk, isCity)
    IN IF at = 0 THEN None ELSE walk[at]
Spot(t, c) == [place |-> c, city |-> CityOf(t, c)]

-----------------------------------------------------------------------------
(* Transactions.  `rows' are the rows written, `new' those created, `spot'   *)
(* the located record if it is written, `load' the bundle if it is a load.   *)
Tx(t, S, new) == [rows |-> [c \in S |-> t[c]], new |-> new, spot |-> None, load |-> None,
                  redone |-> {}, clean |-> TRUE, alone |-> TRUE]
Idle(s) == work[s] = None
Lost == [Tx(node, {}, {}) EXCEPT !.clean = FALSE]

Begin(s, tx) ==
    /\ Idle(s)
    /\ work' = [work EXCEPT ![s] = tx]
    /\ UNCHANGED <<node, source, spot, edits, raced, redone>>
Edit(s, tx) ==
    /\ edits + Cardinality({u \in Sessions : ~Idle(u)}) < MaxEdits
    /\ Begin(s, tx)

Kept(row, touched) == IF row.origin = "bundle" THEN row.kept \cup touched ELSE row.kept

\* mutant: only the renamed place is read again
RenameAlone(s, c, name) ==
    LET t == [node EXCEPT ![c].name = name, ![c].kept = Kept(node[c], {"name"})]
    IN /\ node[c] # None /\ node[c].name # name
       /\ Edit(s, [Tx(Recompute(t, {c}), {c}, {}) EXCEPT !.redone = {c}])
\* place.write({'name': ...}): the names and paths below it follow.
Rename(s, c, name) ==
    LET t == [node EXCEPT ![c].name = name, ![c].kept = Kept(node[c], {"name"})]
        S == {c} \cup Below(t, c)
    IN /\ node[c] # None /\ node[c].name # name
       /\ Edit(s, [Tx(Recompute(t, S), S, {}) EXCEPT !.redone = {c}])

\* What is computed again on the located record when a place's parent is written: it depends
\* on the place it names, and on that place's parent.
SpotAfter(t, c) == IF spot.place = c THEN Spot(t, c) ELSE None

\* place.write({'parent_id': ...}), refused when the place would be inside itself.
Move(s, c, parent) ==
    LET t == [node EXCEPT ![c].parent = parent, ![c].kept = Kept(node[c], {"parent"})]
        S == {c} \cup Below(t, c)
    IN /\ node[c] # None /\ node[c].parent # parent
       /\ parent \in Rows(node) \cup {None}
       /\ Rooted(t, c)
       /\ Edit(s, [Tx(Recompute(t, S), S, {}) EXCEPT !.spot = SpotAfter(t, c), !.redone = {c}])

\* place.write({'active': ...}).
Archive(s, c, active) ==
    LET t == [node EXCEPT ![c].active = active, ![c].kept = Kept(node[c], {"active"})]
    IN node[c] # None /\ node[c].active # active /\ Edit(s, Tx(t, {c}, {}))

\* mutant: the default of `active' forgotten
NewRowBare(name, parent, origin) ==
    [name |-> name, parent |-> parent, active |-> None, origin |-> origin, kept |-> {},
     up |-> <<>>, index |-> <<>>]
NewRow(name, parent, origin) ==
    [name |-> name, parent |-> parent, active |-> TRUE, origin |-> origin, kept |-> {},
     up |-> <<>>, index |-> <<>>]

\* A place somebody adds, in the form or by ratifying a missing place: the overlay.
Add(s, c, name, parent) ==
    LET t == [node EXCEPT ![c] = NewRow(name, parent, "overlay")]
    IN /\ node[c] = None
       /\ parent \in Rows(node) \cup {None}
       /\ Edit(s, Tx(Recompute(t, {c}), {c}, {c}))

\* The owner of the located record says where it is.
Settle(s, c) ==
    /\ node[c] # None
    /\ Edit(s, [Tx(node, {}, {}) EXCEPT !.spot = Spot(node, c)])

-----------------------------------------------------------------------------
(* A load (place_load.py): the difference between the bundle and the rows.   *)

\* mutant: a place that is back stays archived
WantedHidden(row, b, c) ==
    [row EXCEPT !.name = IF "name" \in row.kept THEN row.name ELSE b[c].name,
                !.parent = IF "parent" \in row.kept THEN row.parent ELSE b[c].parent]
\* mutant: the bundle wins over people
WantedAll(row, b, c) == [row EXCEPT !.name = b[c].name, !.parent = b[c].parent, !.active = TRUE]
\* What the bundle wants of a row, field by field: what a person kept stays.
Wanted(row, b, c) ==
    [row EXCEPT
        !.name = IF "name" \in row.kept THEN row.name ELSE b[c].name,
        !.parent = IF "parent" \in row.kept THEN row.parent ELSE b[c].parent,
        !.active = IF "active" \in row.kept THEN row.active ELSE TRUE]
Retired(t, b) == {c \in Rows(t) \ DOMAIN b : /\ t[c].origin = "bundle" /\ t[c].active
                                             /\ "active" \notin t[c].kept}
\* places(): new rows, updates, retirements.
Loaded(t, b) ==
    [c \in Codes |->
        IF c \in Retired(t, b) THEN [t[c] EXCEPT !.active = FALSE]
        ELSE IF c \notin DOMAIN b THEN t[c]
        ELSE IF t[c] = None THEN NewRow(b[c].name, b[c].parent, "bundle")
        ELSE IF t[c].origin # "bundle" THEN t[c]
        ELSE Wanted(t[c], b, c)]
\* _refresh_derived: the rows whose derived columns differ from what they should be.
Stale(t) == {c \in Rows(t) : t[c] # Derived(t[c], t, c)}
\* mutant: records are left as they were
SpotLeft(t, changed) == None
\* _refresh_located: records at a place that changed.
SpotRefreshed(t, changed) == IF spot.place \in changed THEN Spot(t, spot.place) ELSE None

\* load_bundle: nothing when the fingerprint is the same and nobody forces it; else run() - and
\* two loads that write the fingerprint collide on it.
Load(s, b, force) ==
    LET t == Loaded(node, b)
        changed == {c \in Rows(t) : t[c] # node[c]}
        derived == Stale(t)
        all == Recompute(t, derived)
    IN /\ b # source \/ force
       /\ Begin(s, [Tx(all, changed \cup derived, Rows(t) \ Rows(node)) EXCEPT
                       !.spot = SpotRefreshed(all, changed \cup derived), !.load = b])

-----------------------------------------------------------------------------
\* The two transactions write a row both, and the one that is left loses.
Collide(u, t) ==
    \/ DOMAIN u.rows \cap DOMAIN t.rows # {}
    \/ u.spot # None /\ t.spot # None
    \/ u.load # None /\ t.load # None /\ (u.load # source \/ t.load # source)

Commit(s) ==
    LET tx == work[s]
    IN /\ ~Idle(s)
       /\ tx.clean
       /\ \A c \in tx.new : node[c] = None             \* UNIQUE(code)
       /\ node' = [c \in Codes |-> IF c \in DOMAIN tx.rows THEN tx.rows[c] ELSE node[c]]
       /\ spot' = IF tx.spot = None THEN spot ELSE tx.spot
       /\ source' = IF tx.load = None THEN source ELSE tx.load
       /\ work' = [u \in Sessions |->
                      IF u = s \/ Idle(u) THEN None
                      ELSE IF Collide(work[u], tx) THEN Lost
                      ELSE [work[u] EXCEPT !.alone = FALSE]]
       /\ raced' = ((raced /\ (tx.load = None \/ ~tx.alone)) \/ ~tx.alone)
       /\ redone' = redone \cup tx.redone
                        \cup IF tx.alone THEN {} ELSE DOMAIN tx.rows \cup {spot'.place}
       /\ edits' = IF tx.load = None THEN edits + 1 ELSE edits

\* The request is refused, or its server stops: nothing is written.
Abort(s) ==
    /\ ~Idle(s)
    /\ work' = [work EXCEPT ![s] = None]
    /\ UNCHANGED <<node, source, spot, edits, raced, redone>>

Init ==
    /\ node = [c \in Codes |-> None]
    /\ source = None
    /\ spot = [place |-> None, city |-> None]
    /\ work = [s \in Sessions |-> None]
    /\ edits = 0
    /\ raced = FALSE
    /\ redone = {}

Next ==
    \E s \in Sessions :
        \/ \E c \in Codes : \E name \in NameOf[c] :
              \/ Rename(s, c, name)
              \/ \E parent \in Codes \cup {None} : Add(s, c, name, parent)
        \/ \E c \in Codes, parent \in Codes \cup {None} : Move(s, c, parent)
        \/ \E c \in Codes, active \in BOOLEAN : Archive(s, c, active)
        \/ \E c \in Codes : Settle(s, c)
        \/ \E b \in Bundles, force \in BOOLEAN : Load(s, b, force)
        \/ Commit(s)
        \/ Abort(s)

Spec == Init /\ [][Next]_vars

-----------------------------------------------------------------------------
\* Every row, the located record and the histories have their shape.
TypeOK ==
    /\ \A c \in Codes : node[c] # None => node[c] \in Row
    /\ source \in Bundles \cup {None}
    /\ spot \in At
    /\ edits \in 0..MaxEdits
    /\ raced \in BOOLEAN
    /\ redone \subseteq Codes \cup {None}

\* The bundle is the source of what no person changed: whatever people edited, added or retired
\* before, during and between the loads, every row the last load was about reads as that bundle
\* says, field by field, except the fields somebody took over; and what the bundle dropped is
\* archived.  (WHAT A LOAD MAY TOUCH, place_load.py.)
FollowsSource ==
    source # None =>
        /\ DOMAIN source \subseteq Rows(node)
        /\ \A c \in Rows(node) : node[c].origin = "bundle" =>
              IF c \in DOMAIN source
              THEN /\ "name" \in node[c].kept \/ node[c].name = source[c].name
                   /\ "parent" \in node[c].kept \/ node[c].parent = source[c].parent
                   /\ "active" \in node[c].kept \/ node[c].active
              ELSE "active" \in node[c].kept \/ ~node[c].active

Loading(s) == Commit(s) /\ work[s].load # None

\* A load never changes what a person decided: the rows of the overlay, and the fields of
\* imported rows somebody took over, also when they did so while the load was running.
PeopleDecide ==
    [][(\E s \in Sessions : Loading(s)) =>
          \A c \in Rows(node) :
              /\ node'[c] # None /\ node'[c].origin = node[c].origin
              /\ LET fixed == IF node[c].origin = "overlay" THEN Carried ELSE node[c].kept
                 IN /\ "name" \in fixed => node'[c].name = node[c].name
                    /\ "parent" \in fixed => node'[c].parent = node[c].parent
                    /\ "active" \in fixed => node'[c].active = node[c].active]_vars

\* Every place reads as its own name and the names above it say, and is found by them, however
\* far above somebody renamed or moved one: unless requests overlapped since a load ran alone,
\* which rebuilds what such requests left behind.
ReadsRight == raced \/ Stale(node) = {}

\* A record's stored city is the one its place is in, unless a place at or above it was renamed
\* or moved by hand, or requests that wrote one overlapped: only a load reaches every record
\* under a place that moves.
CityAsInTheTree ==
    LET c == spot.place
    IN c # None /\ (ToSet(<<c>> \o Above(node, c) \o node[c].up) \cup {c}) \cap redone = {}
          => spot.city = CityOf(node, c)
===============================================================================
