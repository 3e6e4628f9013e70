-------------------------------- MODULE Bundle --------------------------------
(***************************************************************************)
(* What a bundle of places says (place_graph/tools/bundle.py), what a first  *)
(* load of it writes (models/place_load.py into an empty database), and what *)
(* the responder reads from it without Odoo (data.go, index.go).             *)
(*                                                                         *)
(* A bundle is [places, aliases, links, postcodes], each a sequence of rows  *)
(* in file order.  Names are numbers, in the order the code sorts them by; a *)
(* post code prefix is a model value.  One language is installed.            *)
(***************************************************************************)
EXTENDS PlaceRules, FiniteSets, Functions, FiniteSetsExt

RELATIONS == {"adjacent", "near"}
\* The kinds of aliases, and the relations, in the order their codes sort by.
AliasOrder == <<"colloquial", "landmark", "old", "spelling", "square", "transit">>
RelationOrder == <<"adjacent", "near">>
At(order, kind) == SelectInSeq(order, LAMBDA k : k = kind)

Once(rows, key(_)) == \A i, j \in DOMAIN rows : key(rows[i]) = key(rows[j]) => i = j
CodeOf(row) == row.code
BundleCodes(data) == {data.places[i].code : i \in DOMAIN data.places}
PlaceName(row) == <<row.place, row.name>>
PairOf(row) == {row.place, row.other}
PrefixPlace(row) == <<row.prefix, row.place>>

\* check: a bundle that fails is never loaded.
PlacesHold(data) ==
    /\ Once(data.places, CodeOf)
    /\ \A i \in DOMAIN data.places :
          /\ data.places[i].kind \in Kinds
          /\ data.places[i].parent # None =>
                \E j \in 1..(i - 1) : data.places[j].code = data.places[i].parent
\* mutant: a name twice is let through
AliasesLoose(data) ==
    \A a \in ToSet(data.aliases) : a.place \in BundleCodes(data) /\ a.kind \in ALIAS_KINDS
AliasesHold(data) ==
    /\ \A a \in ToSet(data.aliases) : a.place \in BundleCodes(data) /\ a.kind \in ALIAS_KINDS
    /\ Once(data.aliases, PlaceName)
LinksHold(data) ==
    /\ \A l \in ToSet(data.links) : /\ PairOf(l) \subseteq BundleCodes(data)
                                    /\ l.place # l.other
                                    /\ l.relation \in RELATIONS
    /\ Once(data.links, PairOf)
PostcodesHold(data) ==
    /\ \A p \in ToSet(data.postcodes) : p.place \in BundleCodes(data)
    /\ Once(data.postcodes, PrefixPlace)
Check(data) == PlacesHold(data) /\ AliasesHold(data) /\ LinksHold(data) /\ PostcodesHold(data)

-----------------------------------------------------------------------------
(* derive: what the model would compute, from the bundle alone.              *)
RowsOf(data) ==
    [c \in BundleCodes(data) |-> CHOOSE row \in ToSet(data.places) : row.code = c]
ParentsOf(rows) == [c \in {d \in DOMAIN rows : rows[d].parent # None} |-> rows[c].parent]

\* Rows in the order of their kinds - `order' - and, of one kind, as they were.
ByKind(rows, order, kind(_)) ==
    LET of(k) == SelectSeq(rows, LAMBDA r : kind(r) = k)
    IN FoldLeft(LAMBDA out, k : out \o of(k), <<>>, order)
KindOf(row) == row.kind
RelationOf(row) == row.relation
\* sorted(...): by kind, then by name.
SortedAliases(rows) ==
    ByKind(SetToSortSeq(ToSet(rows), LAMBDA a, b : a.name < b.name), AliasOrder, KindOf)

\* What a place reads as and is found by; the search index folds these texts, one by one.
Derivation(c, rows, aliases, near) ==
    LET up == Chain(c, ParentsOf(rows))
        above == [i \in DOMAIN up |-> rows[up[i]]]
        names(s) == [i \in DOMAIN s |-> s[i].name]
    IN [path |-> ReadPath(rows[c], above), parent_path |-> Append(Reverse(up), c),
        texts |-> SuggestTexts(<<rows[c].name>>, None, c, aliases, names(above),
                               [i \in DOMAIN near |-> rows[near[i]].name])]

Derive(data) ==
    LET rows == RowsOf(data)
        other(l, c) == IF l.place = c THEN l.other ELSE l.place
        of(c) == SelectSeq(data.aliases, LAMBDA a : a.place = c)
        touching(c) == SelectSeq(data.links, LAMBDA l : c \in PairOf(l))
        near(c) == LET sorted == ByKind(touching(c), RelationOrder, RelationOf)
                   IN [i \in DOMAIN sorted |-> other(sorted[i], c)]
    IN [c \in DOMAIN rows |-> Derivation(c, rows, SortedAliases(of(c)), near(c))]

-----------------------------------------------------------------------------
(* A load into an empty database: the rows written, by id.                   *)
\* A row is written unless its key was taken by one before it.
Fresh(rows, key(_)) ==
    LET free(out, row) == \A i \in DOMAIN out : key(out[i]) # key(row)
    IN FoldLeft(LAMBDA out, row : IF free(out, row) THEN Append(out, row) ELSE out, <<>>, rows)
Ends(row) == <<row.place, row.other>>
OneWay(l) == <<l>>                          \* mutant: the row the other way round not made
TwoWays(l) == <<l, [l EXCEPT !.place = l.other, !.other = l.place]>>
Loaded(data) ==
    [places |-> RowsOf(data),
     aliases |-> Fresh(data.aliases, PlaceName),
     links |-> Fresh(FlattenSeq([i \in DOMAIN data.links |-> TwoWays(data.links[i])]), Ends),
     postcodes |-> Fresh(data.postcodes, PrefixPlace)]

\* _refresh_derived: the same, from the rows of the database.
Refreshed(db) ==
    LET of(c) == SelectSeq(db.aliases, LAMBDA a : a.place = c)
        near(c) == LET from == SelectSeq(db.links, LAMBDA l : l.place = c)
                       sorted == ByKind(from, RelationOrder, RelationOf)
                   IN [i \in DOMAIN sorted |-> sorted[i].other]
    IN [c \in DOMAIN db.places |-> Derivation(c, db.places, SortedAliases(of(c)), near(c))]

-----------------------------------------------------------------------------
(* The responder over bundles, with no Odoo: loadBundle and buildIndex.      *)

\* A row with a code already seen replaces it; what the other files say adds up.
Placed(out, row) ==
    LET at == SelectInSeq(out, LAMBDA r : r.code = row.code)
    IN IF at = 0 THEN Append(out, row) ELSE [out EXCEPT ![at] = row]
ReadBundles(dirs) ==
    LET all(rows(_)) == FlattenSeq([i \in DOMAIN dirs |-> rows(dirs[i])])
        links == all(LAMBDA d : d.links)
    IN [places |-> FoldLeft(Placed, <<>>, all(LAMBDA d : d.places)),
        aliases |-> all(LAMBDA d : d.aliases),
        links |-> FlattenSeq([i \in DOMAIN links |-> TwoWays(links[i])])]
\* Neighbours in the order of the files: only the table of Odoo is read in order of relations.
Indexed(d) ==
    LET rows == RowsOf(d)
        of(c) == SelectSeq(d.aliases, LAMBDA a : a.place = c)
        near(c) == LET from == SelectSeq(d.links, LAMBDA l : l.place = c)
                   IN [i \in DOMAIN from |-> from[i].other]
    IN [c \in DOMAIN rows |-> Derivation(c, rows, SortedAliases(of(c)), near(c))]

-----------------------------------------------------------------------------
\* A place of a checked bundle is in no circle: going up from it ends at a place that is in none,
\* past every place once, however the file was put together.
WalksEnd(data) ==
    Check(data) =>
        LET rows == RowsOf(data)
        IN \A c \in DOMAIN rows :
              LET walk == <<c>> \o Chain(c, ParentsOf(rows))
              IN IsInjective(walk) /\ rows[walk[Len(walk)]].parent = None

\* "A loaded row and an edited row read exactly the same": what the tool works out from the files
\* is what the loader works out from the rows it wrote, for every place.
DeriveAgrees(data) == Check(data) => Derive(data) = Refreshed(Loaded(data))

\* The responder over the same files, read once or again as an overlay of itself, gives every
\* place the same path and finds it by the same texts; only neighbours come in another order.
ResponderAgrees(data) ==
    Check(data) =>
        \A dirs \in {<<data>>, <<data, data>>} :
            LET there == Indexed(ReadBundles(dirs))
                here == Derive(data)
            IN /\ DOMAIN there = DOMAIN here
               /\ \A c \in DOMAIN here : /\ there[c].path = here[c].path
                                         /\ ToSet(there[c].texts) = ToSet(here[c].texts)

\* A checked bundle is loaded whole: each of its aliases and prefixes is a row, each of its pairs
\* two; none is left out as taken.
LoadedWhole(data) ==
    Check(data) =>
        LET db == Loaded(data)
        IN /\ Cardinality(DOMAIN db.places) = Len(data.places)
           /\ Len(db.aliases) = Len(data.aliases)
           /\ Len(db.links) = 2 * Len(data.links)
           /\ Len(db.postcodes) = Len(data.postcodes)
===============================================================================
