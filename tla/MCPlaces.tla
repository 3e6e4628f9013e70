------------------------------- MODULE MCPlaces -------------------------------
(* A small instance of PlaceTables for TLC, with what is asked of bundles and   *)
(* searches, which are pure: a case of theirs is asked once (`given').           *)
EXTENDS PlaceTables, TLC

CONSTANTS n1, n2, n3, p, q, x, y, r1, r2      \* places, names, requests
VARIABLE given                                \* Bundle, Search: the case that is asked

-----------------------------------------------------------------------------
(* The tree: two cities, one with two names, and a district that moves.       *)
KindIs == "c1" :> "city" @@ "c2" :> "city" @@ "d" :> "district"
NamesOf == "c1" :> {"A", "B"} @@ "c2" :> {"C"} @@ "d" :> {"D"}
Says(place, name, parent) == place :> [name |-> name, parent |-> parent]
TwoBundles ==
    {Says("c1", "A", None) @@ Says("d", "D", "c1"),
     Says("c1", "B", None) @@ Says("c2", "C", None) @@ Says("d", "D", "c2")}

(* Neighbours: three places, a bundle with one pair and one with two.         *)
TwoLinkBundles == {{n1, n2} :> "adjacent", {n1, n2} :> "near" @@ {n2, n3} :> "near"}

(* Names: two places, a name and a place of the prefix people suggest.        *)
TwoContents == {<<"alias", p, x>>, <<"postcode", q, None>>}
TwoNameFiles == {[alias |-> {<<p, x>>}, hits |-> p :> 2], [alias |-> {<<p, y>>}, hits |-> q :> 1]}

(* Answers: a post code, a name, and digits that read like the post code.     *)
TwoLoads == {<<"fa">>, <<"en">>}
MCWords == [code |-> "1 2", name |-> "w", joined |-> "1 2"]
MCCode == [code |-> "12", name |-> None, joined |-> None]

-----------------------------------------------------------------------------
(* Bundles: up to three rows of three places, two aliases, links in four ways. *)
D == INSTANCE Bundle
Line(place, name, kind, parent) ==
    [code |-> place, name |-> name, kind |-> kind, parent |-> parent, in_path |-> TRUE]
Lines == {Line("a", 1, "city", up) : up \in {"a", "b", "c", None}}
         \cup {Line("b", 2, "district", up) : up \in {"a", "b", "c", None}}
         \cup {Line("c", 1, kind, up) : kind \in {"neighbourhood", "province"},
                                        up \in {"a", "b", "c", None}}
Alias(place, name, kind) == [place |-> place, name |-> name, kind |-> kind]
Linked(place, other, relation) == [place |-> place, other |-> other, relation |-> relation]
Files ==
    [places : BoundedSeq(Lines, 3),
     aliases : {<<>>, <<Alias("a", 3, "old"), Alias("a", 4, "landmark")>>,
                <<Alias("a", 3, "old"), Alias("b", 3, "old")>>,
                <<Alias("a", 3, "old"), Alias("a", 3, "landmark")>>},
     links : {<<>>, <<Linked("a", "b", "near"), Linked("c", "a", "adjacent")>>,
              <<Linked("b", "c", "adjacent"), Linked("a", "c", "near")>>,
              <<Linked("a", "b", "near"), Linked("b", "a", "near")>>},
     postcodes : {<<>>}]

-----------------------------------------------------------------------------
(* Searches: texts of one or two of eight words - one inside another, two run *)
(* together, a plural, a light plural, a near miss - over four places.        *)
S == INSTANCE Search WITH MaxSteps <- 4, Small <- TRUE,
        Latin <- {"a", "b", "c", "d", "e", "s"}
Word == <<<<"a", "b", "c">>, <<"a", "b", "c", "d", "s">>, <<"b", "c", "d">>,
          <<"a", "b", "d", "he", "alef">>, <<"a", "b", "d", "he", "alef", "ye">>,
          <<"d", "b", "c">>, <<"a", "b", "c", "d", "b", "c">>, <<"a", "b", "c", "e">>>>
One == {<<w>> : w \in ToSet(Word)}
Two == {<<v, w>> : v, w \in ToSet(Word)}
Node(kind, name, parent, at) ==
    [kind |-> kind, name |-> name, parent |-> parent, sequence |-> at, active |-> TRUE]
Trees ==
    {<<Node("city", <<Word[1]>>, None, 1), [Node("district", d, 1, 2) EXCEPT !.active = shown],
       Node("street", s, 2, 1), Node("street", <<Word[8]>>, 1, 1)>> :
        d \in {<<Word[1]>>, <<Word[2], Word[3]>>}, shown \in BOOLEAN,
        s \in {<<Word[1]>>, <<Word[2]>>, <<Word[7], Word[1]>>}}
Typed == One \cup {<<Word[1], Word[3]>>, <<Word[2], Word[8]>>}

Ask ==
    /\ given = None
    /\ \/ \E file \in Files : given' = [about |-> "bundle", file |-> file]
       \/ \E query, t \in One \cup Two : given' = [about |-> "text", query |-> query, text |-> t]
       \/ \E query \in Typed, places \in Trees, within \in {None, 2},
             allowed \in {{}, PICKER_KINDS.area} :
             given' = [about |-> "search", query |-> query, places |-> places,
                       allowed |-> allowed, within |-> within]

-----------------------------------------------------------------------------
MCInit == TablesInit /\ given = None
MCNext ==
    \/ TablesNext /\ UNCHANGED given
    \/ part = "rules" /\ Ask /\ UNCHANGED tables
MCSpec == MCInit /\ [][MCNext]_<<tables, given>>

Symmetry == Permutations(Sessions) \cup Permutations({r1, r2})
Given(about) == given # None /\ given.about = about

-----------------------------------------------------------------------------
\* The programs say the same. A bundle (bundle.py, place_load.py, data.go) that passes the check is
\* loaded whole and is a tree, and the tool, Odoo and the responder read the same in it. In a search
\* (text.py, suggest_mixin.py, place.py, index.go) narrowing loses nothing the ranking finds, and Odoo
\* and the responder give the same answers in one order.
ProgramsAgree ==
    /\ Given("bundle") => /\ D!WalksEnd(given.file) /\ D!LoadedWhole(given.file)
                          /\ D!DeriveAgrees(given.file) /\ D!ResponderAgrees(given.file)
    /\ Given("text") => /\ S!CandidatesCover(given.query, {given.text})
                        /\ S!AttemptsFind(given.query, given.text)
    /\ Given("search") => /\ S!SameAnswers(given.query, given.places, given.allowed, given.within)
                          /\ S!QuickIsTrue(given.query, given.places)
===============================================================================
