------------------------------ MODULE Neighbours ------------------------------
(***************************************************************************)
(* Which places touch which (place.link), kept in both directions, under     *)
(* what people do on a place's form and under bundle loads.                  *)
(*                                                                         *)
(* A row of the table is an ordered pair; `key' is the pair it was imported  *)
(* as, None for a row made here.  A request is atomic: it writes both rows   *)
(* of a pair, so of two that overlap on a pair one is refused.               *)
(***************************************************************************)
EXTENDS Naturals, FiniteSets

CONSTANTS
    Places,
    BundleLinks,        \* what bundles say: each a function from pairs {a, b} to relations
    None,
    MaxEdits            \* bound: what people change

Relations == {"adjacent", "near"}
\* What a person may take over of an imported link (BUNDLE_FIELDS).
Carried == {"relation", "active"}
Origins == {"bundle", "overlay"}
Row == [relation : Relations, active : BOOLEAN, origin : Origins,
        key : (SUBSET Places) \cup {None}, kept : SUBSET Carried]

\* What the constants are taken to be: a bundle says a relation of pairs of places (bundle.py).
BundlesRelate == \A b \in BundleLinks : \E S \in SUBSET SUBSET Places : b \in [S -> Relations]
Tables == MaxEdits \in Nat /\ BundlesRelate /\ None \notin Row

VARIABLES
    link,               \* the table: <<place, other>> -> row, or None
    source,             \* the bundle loaded last, or None
    edits,              \* history: what people have changed
    bent,               \* history: pairs a row was re-pointed from or to
    dropped             \* history: imported pairs a person removed

vars == <<link, source, edits, bent, dropped>>

Ends == {e \in Places \X Places : e[1] # e[2]}
Mirror(e) == <<e[2], e[1]>>
Pair(e) == {e[1], e[2]}
Shown(e) == link[e] # None /\ link[e].active            \* the form lists what is active

\* A change a person makes to the imported fields of a row: they are theirs from now on (_keep).
Written(row, changed, touched) ==
    [changed EXCEPT !.kept = IF row.origin = "bundle" THEN row.kept \cup touched ELSE row.kept]
\* mutant: a mirror that is there is left alone
MirroredOnce(t, e) == IF t[Mirror(e)] = None THEN [t EXCEPT ![Mirror(e)] = t[e]] ELSE t
\* _mirror: the row the other way round is made, or made to say the same.
Mirrored(t, e) == [t EXCEPT ![Mirror(e)] = t[e]]

Change(t) ==
    /\ edits < MaxEdits
    /\ link' = t
    /\ edits' = edits + 1
    /\ UNCHANGED source

-----------------------------------------------------------------------------
\* A neighbour is added; UNIQUE(place, other) also sees the archived rows.
Create(e, relation) ==
    LET row == [relation |-> relation, active |-> TRUE, origin |-> "overlay", key |-> None,
                kept |-> {}]
    IN /\ link[e] = None
       /\ Change(Mirrored([link EXCEPT ![e] = row], e))
       /\ UNCHANGED <<bent, dropped>>

Relate(e, relation) ==
    /\ Shown(e) /\ link[e].relation # relation
    /\ LET row == Written(link[e], [link[e] EXCEPT !.relation = relation], {"relation"})
       IN Change(Mirrored([link EXCEPT ![e] = row], e))
    /\ UNCHANGED <<bent, dropped>>

\* The row is made to name another neighbour: its old mirror stays where it is.
Repoint(e, other) ==
    LET to == <<e[1], other>>
    IN /\ Shown(e) /\ to \in Ends
       /\ link[to] = None
       /\ Change(Mirrored([link EXCEPT ![e] = None, ![to] = link[e]], to))
       /\ bent' = bent \cup {Pair(e), Pair(to)}
       /\ UNCHANGED dropped

\* unlink: an imported pair is archived, both ways round; one made here goes, with its mirror.
Remove(e) ==
    /\ Shown(e)
    /\ IF link[e].origin = "bundle"
       THEN LET row == Written(link[e], [link[e] EXCEPT !.active = FALSE], {"active"})
            IN /\ Change(Mirrored([link EXCEPT ![e] = row], e))
               /\ dropped' = dropped \cup {Pair(e)}
       ELSE /\ Change([link EXCEPT ![e] = None,
                                   ![Mirror(e)] = IF Shown(Mirror(e)) THEN None ELSE @])
            /\ UNCHANGED dropped
    /\ UNCHANGED bent

-----------------------------------------------------------------------------
\* A load (place_load.py links): rows are found by the pair they were imported as.
Imported(key) == {e \in Ends : link[e] # None /\ link[e].origin = "bundle" /\ link[e].key = key}
Imports(b) == {key \in DOMAIN b : Imported(key) = {}}
\* mutant: the bundle wins over people
UpdatedAll(row, relation) == [row EXCEPT !.relation = relation, !.active = TRUE]
Updated(row, relation) ==
    [row EXCEPT !.relation = IF "relation" \in row.kept THEN row.relation ELSE relation,
                !.active = IF "active" \in row.kept THEN row.active ELSE TRUE]
Retired(b) == {e \in Ends : /\ link[e] # None /\ link[e].origin = "bundle"
                            /\ link[e].key \notin DOMAIN b /\ link[e].kept = {}}
Loaded(b) ==
    [e \in Ends |->
        IF e \in Retired(b) THEN None
        ELSE IF link[e] = None
        THEN IF Pair(e) \in Imports(b)
             THEN [relation |-> b[Pair(e)], active |-> TRUE, origin |-> "bundle",
                   key |-> Pair(e), kept |-> {}]
             ELSE None
        ELSE IF link[e].origin = "bundle" /\ link[e].key \in DOMAIN b
        THEN Updated(link[e], b[link[e].key])
        ELSE link[e]]

Load(b) ==
    /\ link' = Loaded(b)
    /\ source' = b
    /\ UNCHANGED <<edits, bent, dropped>>

Init ==
    /\ link = [e \in Ends |-> None]
    /\ source = None
    /\ edits = 0
    /\ bent = {}
    /\ dropped = {}

Next ==
    \/ \E e \in Ends, relation \in Relations : Create(e, relation) \/ Relate(e, relation)
    \/ \E e \in Ends, other \in Places : Repoint(e, other)
    \/ \E e \in Ends : Remove(e)
    \/ \E b \in BundleLinks : Load(b)

Spec == Init /\ [][Next]_vars

-----------------------------------------------------------------------------
TypeOK ==
    /\ link \in [Ends -> Row \cup {None}]
    /\ source \in BundleLinks \cup {None}
    /\ edits \in 0..MaxEdits
    /\ bent \subseteq SUBSET Places /\ dropped \subseteq SUBSET Places

\* "What places are near here?" has the same answer from both sides, whatever people and
\* bundles did in whatever order: the two rows of a pair say the same, down to who decided
\* what - except of a pair some row was re-pointed from or to (link.py, first comment).
BothWays == \A e \in Ends : Pair(e) \notin bent => link[e] = link[Mirror(e)]

\* An imported neighbour somebody removed does not come back: no load writes it again, with
\* the same bundle, a later one, or one that dropped the pair for a while.
RemovedStays ==
    \A e \in Ends : Pair(e) \in dropped \ bent => ~Shown(e)

\* An imported row says what the bundle loaded last says of its pair, except the fields somebody
\* took over; and a pair that bundle does not have is left only where somebody took it over.
FollowsBundle ==
    source # None =>
        \A e \in Ends : link[e] # None /\ link[e].origin = "bundle" =>
            LET row == link[e]
            IN IF row.key \in DOMAIN source
               THEN /\ "relation" \in row.kept \/ row.relation = source[row.key]
                    /\ "active" \in row.kept \/ row.active
               ELSE row.kept # {}
LinksFollow == RemovedStays /\ FollowsBundle
===============================================================================
