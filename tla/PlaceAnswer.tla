------------------------------ MODULE PlaceAnswer ------------------------------
(***************************************************************************)
(* The question where (`_place_from_post' in ikiku_portal/controllers/        *)
(* portal.py): one place of the tree, from the id a browser sent, a post code,   *)
(* or what was typed.  It keeps no state: an answer is a function of the tree    *)
(* and of the form.                                                          *)
(*                                                                         *)
(* A tree is a sequence of [kind, parent, active, name, aliases].  A form is    *)
(* [id, code, typed, missed], with 0 or None for a field left empty; what is      *)
(* typed is a name or Digits, and a code is known by the place its prefix         *)
(* answers, 0 when it answers none.  `found' is what the search answers to what    *)
(* was typed, best first, as <<place, score>>.                                   *)
(***************************************************************************)
EXTENDS PlaceRules

CONSTANTS Digits

\* The places above one, nearest first, whether they are active or not.
Above(tree, id) ==
    LET linked == {i \in DOMAIN tree : tree[i].parent # None}
    IN Chain(id, [i \in linked |-> tree[i].parent])
\* place_of_kinds: the place itself or the nearest above it that is of these kinds; 0 for none.
PlaceOfKinds(tree, id, kinds) ==
    LET fits(i) == tree[i].kind \in kinds
        up == SelectSeq(<<id>> \o Above(tree, id), fits)
    IN IF up = <<>> THEN 0 ELSE up[1]
Within(tree, city) == {i \in DOMAIN tree : city \in ToSet(<<i>> \o Above(tree, i))}
HasAreasDirect(tree, city) ==          \* mutant: only what is directly in the city
    \E i \in DOMAIN tree : tree[i].parent = city /\ tree[i].active /\ tree[i].kind \in PATH_AREA_KINDS
\* _has_areas: whether the tree knows a part of the city.
HasAreas(tree, city) ==
    \E i \in Within(tree, city) : tree[i].active /\ tree[i].kind \in PATH_AREA_KINDS

PickedAny(tree, mode, id) ==           \* mutant: of any kind, as long as it is active
    IF id \notin DOMAIN tree \/ ~tree[id].active THEN 0 ELSE id
\* The id that came with the form: a place the form may offer, a street read as the area it is in.
Picked(tree, mode, id) ==
    IF id \notin DOMAIN tree \/ ~tree[id].active THEN 0
    ELSE IF tree[id].kind \in PICKER_KINDS[mode] THEN id
    ELSE IF mode = "area" /\ tree[id].kind = "street" THEN PlaceOfKinds(tree, id, PICKER_KINDS[mode])
    ELSE 0
\* What the search found: one place, or one that is better than every other.
Best(found) == IF Len(found) = 1 \/ (Len(found) > 1 /\ found[1][2] > found[2][2]) THEN found[1][1] ELSE 0

Nothing == [place |-> 0, asks |-> "where", candidates |-> {}, learns |-> 0, suggests |-> None]
Asking(question) == [Nothing EXCEPT !.asks = question]
\* _suggest_missed: another name for the place, unless it is one, or a number.
Missed(place, missed) ==
    IF missed \in {None, Digits} \/ missed \in {place.name} \cup place.aliases THEN None ELSE missed

\* The place is known; a city whose parts are known asks for one of them.
Chosen(tree, mode, form, id) ==
    IF mode = "area" /\ tree[id].kind \in CITY_KINDS /\ HasAreas(tree, id) THEN Asking("which part")
    ELSE [Nothing EXCEPT !.place = id, !.asks = None, !.suggests = Missed(tree[id], form.missed),
                         !.learns = IF mode = "all" /\ form.code # None THEN id ELSE 0]
\* _place_from_post.
Answer(tree, mode, form, found) ==
    LET picked == Picked(tree, mode, form.id)
        byCode == mode = "all" /\ form.code # None
    IN CASE picked # 0 -> Chosen(tree, mode, form, picked)
         [] picked = 0 /\ byCode ->
              IF form.code = 0 THEN Asking("name") ELSE Chosen(tree, mode, form, form.code)
         [] picked = 0 /\ ~byCode /\ form.typed = None -> Asking("where")
         [] picked = 0 /\ ~byCode /\ form.typed # None ->
              IF mode = "area" /\ form.typed = Digits THEN Asking("name")
              ELSE IF Best(found) # 0 THEN Chosen(tree, mode, form, Best(found))
              ELSE IF found = <<>> THEN Asking("name")
              ELSE [Asking("which one") EXCEPT !.candidates = {found[i][1] : i \in DOMAIN found}]

-----------------------------------------------------------------------------
\* What a search may answer: active places of an offered kind, each once, best first.
MayFind(tree, mode, found) ==
    /\ \A i \in DOMAIN found : tree[found[i][1]].active /\ tree[found[i][1]].kind \in PICKER_KINDS[mode]
    /\ \A i, j \in DOMAIN found : i < j => found[i][1] # found[j][1] /\ found[i][2] >= found[j][2]

\* Whatever a browser sends, the answer is of a kind the form asks for and can be seen in the tree -
\* but for what stands above a street, and for what a post code answers.
Offered(tree, mode, form, found) ==
    LET answer == Answer(tree, mode, form, found).place
        byCode == mode = "all" /\ answer = form.code
        above == mode = "area" /\ form.id \in DOMAIN tree /\ tree[form.id].kind = "street"
    IN answer # 0 => /\ tree[answer].kind \in PICKER_KINDS[mode] \/ byCode
                     /\ tree[answer].active \/ byCode \/ above
\* The one place of a person or a café is an area, or a city or village in which the tree knows none.
AreaOrWhole(tree, form, found) ==
    LET answer == Answer(tree, "area", form, found).place
    IN answer # 0 /\ tree[answer].kind \in CITY_KINDS =>
           \A i \in DOMAIN tree : tree[i].active /\ tree[i].kind \in PATH_AREA_KINDS =>
                                  PlaceOfKinds(tree, i, CITY_KINDS) # answer
===============================================================================
