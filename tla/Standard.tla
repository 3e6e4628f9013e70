------------------------------- MODULE Standard -------------------------------
(***************************************************************************)
(* The standard as it is read (ikiku_spec_node's rules of a country in          *)
(* ikiku_base/models/spec.py, the pages of ikiku_portal/controllers/standard.py,  *)
(* the tiles of portal.py and the cards of demand.py).  It keeps no state: a page  *)
(* is a function of the tree, of the country's rules and of what rests on what.    *)
(*                                                                         *)
(* A standard is [tree, off, on, needs, core, above, links].  The tree is a sequence of  *)
(* [kind, parent, active, featured], parents first and in the published order, its  *)
(* root the first node; `off' and `on' are the nodes a rule withholds or lets back; *)
(* `needs' holds <<role, skill>>, `core' those a role cannot do without, `links'     *)
(* <<node, class>>, and `above' is each class's own class or None.              *)
(***************************************************************************)
EXTENDS Integers, Sequences, FiniteSets, SequencesExt

CONSTANTS
    None,
    FirstRoles          \* how many roles are buttons where none is featured: 6

\* parent_path: from the top down to each of a sequence of nodes that name their parents.
Paths(parent) ==
    LET path[i \in DOMAIN parent] ==
            IF parent[i] = None THEN <<i>> ELSE Append(path[parent[i]], i)
    IN path
Parents(std) == [i \in DOMAIN std.tree |-> std.tree[i].parent]
\* child_of: the nodes at and below some.
Below(std, tops) == {i \in DOMAIN std.tree : ToSet(Paths(Parents(std))[i]) \cap tops # {}}

WithheldItself(std) == std.off \ std.on          \* mutant: not what is below
\* ikiku_hidden_ids: below a rule that withholds, save what is below one that lets back.
Withheld(std) == IF std.off = {} THEN {} ELSE Below(std, std.off) \ Below(std, std.on)
OfKind(std, kind) == {i \in DOMAIN std.tree : std.tree[i].kind = kind /\ std.tree[i].active}
\* ikiku_offered_domain, with the kind every search asks for: what may be found.
MayFind(std, kind) == OfKind(std, kind) \ Withheld(std)
\* _node: whose page opens.
OpensAs(std, i, kind) == i \in OfKind(std, kind) /\ i \notin Withheld(std)

Ordered(nodes) == SetToSortSeq(nodes, <)
\* subgroups: those directly in the family first, without a heading, then each sub-family's.
Subgroups(std, roles, family) ==
    LET up(r) == std.tree[r].parent
        direct == {r \in roles : up(r) = family}
        subs == Ordered({up(r) : r \in roles \ direct})
    IN (IF direct = {} THEN <<>> ELSE <<[heading |-> None, roles |-> direct]>>)
       \o [n \in DOMAIN subs |-> [heading |-> subs[n], roles |-> {r \in roles : up(r) = subs[n]}]]
Group(std, family, roles, buttons) ==
    [family |-> family, buttons |-> buttons, parts |-> Subgroups(std, roles \ buttons, family)]
Families(std) == {i \in OfKind(std, "family") : std.tree[i].parent = 1}
RolesUnder(std, family) == MayFind(std, "role") \cap Below(std, {family})
Featured(std, roles) == {r \in roles : std.tree[r].featured}
\* /roles: every family below the root that has a role on offer.
RolesPage(std) ==
    {Group(std, f, RolesUnder(std, f), Featured(std, RolesUnder(std, f))) :
        f \in {g \in Families(std) : RolesUnder(std, g) # {}}}
Buttons(std, roles) ==
    IF Featured(std, roles) # {} THEN Featured(std, roles)
    ELSE ToSet(SubSeq(Ordered(roles), 1, FirstRoles))
\* _competencies: the tiles a worker or a café chooses from.
Tiles(std) ==
    {Group(std, f, RolesUnder(std, f), Buttons(std, RolesUnder(std, f))) :
        f \in {g \in Families(std) \ Withheld(std) : RolesUnder(std, g) # {}}}
Shown(group) == group.buttons \cup UNION {group.parts[n].roles : n \in DOMAIN group.parts}

\* A role's page and a skill's, where they open.
SkillsOf(std, role) == {need[2] : need \in {n \in std.needs : n[1] = role}} \ Withheld(std)
RolesOfAll(std, skill) == {need[1] : need \in {n \in std.needs : n[2] = skill}}   \* mutant: withheld ones too
RolesOf(std, skill) == {need[1] : need \in {n \in std.needs : n[2] = skill}} \ Withheld(std)
\* The card of an open need: the role and its skills link into the standard, or nothing does.  It
\* shows the first few of them.
Card(std, node, required) ==
    IF std.tree[node].kind # "role" \/ node \in Withheld(std) THEN [role |-> None, skills |-> {}]
    ELSE [role |-> node,
          skills |-> {s \in (required \cup {need[2] : need \in {n \in std.core : n[1] = node}}) \ Withheld(std) :
                         std.tree[s].kind = "competency"}]

\* What rests on a class, and how many rest on it and on the classes below it (_link_counts).
RestsOn(std, class) == {link[1] : link \in {l \in std.links : l[2] = class}} \ Withheld(std)
Count(std, class) ==
    LET path == Paths(std.above)
    IN Cardinality(UNION {RestsOn(std, c) : c \in {d \in DOMAIN std.above : class \in ToSet(path[d])}})

-----------------------------------------------------------------------------
\* What is withheld is decided step by step down the tree: below what is withheld only a rule of its
\* own lets a node back, and below what is shown only a rule of its own withholds one.
DecidedDownTheTree(std) ==
    \A i \in DOMAIN std.tree :
        LET up == std.tree[i].parent
        IN up # None =>
              /\ up \in Withheld(std) => (i \in Withheld(std) <=> i \notin std.on)
              /\ up \notin Withheld(std) /\ i \in Withheld(std) => i \in std.off
\* Every role and skill a page, a tile, a card or a suggestion links to has a page that opens, as long
\* as it is active: none of them names what the country withholds.
LinksOpen(std) ==
    LET active(i) == std.tree[i].active
        roles == UNION {Shown(g) : g \in RolesPage(std) \cup Tiles(std)}
                 \cup UNION {RolesOf(std, s) : s \in OfKind(std, "competency")}
                 \cup ({Card(std, i, {}).role : i \in DOMAIN std.tree} \ {None})
                 \cup MayFind(std, "role")
        skills == UNION {SkillsOf(std, r) : r \in OfKind(std, "role")}
                  \cup UNION {Card(std, i, OfKind(std, "competency")).skills : i \in DOMAIN std.tree}
                  \cup MayFind(std, "competency")
        resting == UNION {RestsOn(std, c) : c \in DOMAIN std.above}
    IN /\ \A r \in roles : active(r) => OpensAs(std, r, "role")
       /\ \A s \in skills : active(s) => OpensAs(std, s, "competency")
       /\ \A i \in resting : active(i) => OpensAs(std, i, std.tree[i].kind)
\* A role on offer below a family of the root is on the page of roles once, a button or in one part;
\* and on the tiles once, unless its whole family is withheld.
ListedOnce(std) ==
    LET once(r, groups) ==
            \E g \in groups : /\ r \in Shown(g)
                              /\ \A h \in groups \ {g} : r \notin Shown(h)
                              /\ Cardinality({n \in DOMAIN g.parts : r \in g.parts[n].roles})
                                 = IF r \in g.buttons THEN 0 ELSE 1
    IN \A f \in Families(std) : \A r \in RolesUnder(std, f) :
          once(r, RolesPage(std)) /\ (f \notin Withheld(std) => once(r, Tiles(std)))
\* A role's page names a skill exactly when the skill's page names the role.
NamedBothWays(std) ==
    \A r \in MayFind(std, "role"), s \in MayFind(std, "competency") :
        s \in SkillsOf(std, r) <=> r \in RolesOf(std, s)
\* The count beside a class is never less than what its own page lists or than the count of a class
\* of it, and is no more than those together.
CountsRollUp(std) ==
    \A c \in DOMAIN std.above :
        LET below == {d \in DOMAIN std.above : std.above[d] = c}
            sum == FoldSet(LAMBDA d, total : total + Count(std, d), 0, below)
        IN /\ Count(std, c) >= Cardinality(RestsOn(std, c))
           /\ \A d \in below : Count(std, c) >= Count(std, d)
           /\ Count(std, c) <= Cardinality(RestsOn(std, c)) + sum
===============================================================================
