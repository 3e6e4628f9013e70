------------------------------ MODULE PlaceRules ------------------------------
(***************************************************************************)
(* What a place reads as and what it is found by: place_graph/tools/tree.py *)
(* as functions of plain data.  The model (place.py), the bundle loader     *)
(* (place_load.py), the checker (bundle.py) and the responder share them.   *)
(*                                                                         *)
(* A walk up the tree is a sequence, nearest first.  Weights are hundredths.*)
(***************************************************************************)
EXTENDS Integers, Sequences, SequencesExt

CONSTANTS
    None,
    MaxSteps            \* the longest walk up: 4 * MAX_DEPTH

FINENESS == [country |-> 0, province |-> 1, county |-> 2, city |-> 3, village |-> 3,
             district |-> 4, neighbourhood |-> 5, street |-> 6, other |-> 4]
Kinds == DOMAIN FINENESS
PATH_AREA_KINDS == {"neighbourhood", "district"}
CITY_KINDS == {"city", "village"}
PATH_REGION_KINDS == {"province"}
PATH_DEPTH == 3
PICKER_KINDS == [city |-> {"city", "village", "province"},
                 area |-> {"neighbourhood", "district", "city", "village"},
                 all |-> {"street", "neighbourhood", "district", "city", "village", "province"}]

ALIAS_KINDS == {"old", "colloquial", "landmark", "transit", "square", "spelling"}
ALIAS_WEIGHT == [kind \in ALIAS_KINDS |->
                    IF kind \in {"old", "colloquial", "spelling"} THEN 90 ELSE 60]
OWN_WEIGHT == [name |-> 100, name_en |-> 80, code |-> 40]
PARENT_WEIGHT == 35
NEIGHBOUR_WEIGHT == 25

\* The keys above `key', nearest first; a cycle or MaxSteps ends the walk.
Chain(key, parentOf) ==
    LET up[n \in 0..MaxSteps] ==
            IF n = 0 THEN <<>>
            ELSE LET out == up[n - 1]
                     last == IF out = <<>> THEN key ELSE out[Len(out)]
                 IN IF \/ Len(out) < n - 1
                       \/ last \notin DOMAIN parentOf
                       \/ parentOf[last] \in ToSet(out) \cup {key}
                    THEN out
                    ELSE Append(out, parentOf[last])
    IN up[MaxSteps]

-----------------------------------------------------------------------------
(* The path.  `own' and each place above are [name, kind, in_path].         *)

\* One more part of the path: the nearest shown place of these kinds that is coarser than `own'.
WithNearest(parts, kinds, own, above) ==
    LET fits(a) == a.in_path /\ a.kind \in kinds /\ FINENESS[a.kind] < FINENESS[own.kind]
        found == SelectSeq(above, fits)
    IN IF Len(parts) < PATH_DEPTH /\ found # <<>> /\ found[1].name \notin ToSet(parts)
       THEN Append(parts, found[1].name)
       ELSE parts

\* read_path: the place, the part of the city it is in, and the city - or, with no city, the province.
ReadPath(own, above) ==
    LET named == IF own.in_path THEN <<own.name>> ELSE <<>>
        area == WithNearest(named, PATH_AREA_KINDS, own, above)
        city == WithNearest(area, CITY_KINDS, own, above)
    IN IF city # area THEN city ELSE WithNearest(area, PATH_REGION_KINDS, own, above)

-----------------------------------------------------------------------------
(* The texts a place is found by, each <<field, weight, text>>, in the order *)
(* that decides between equal scores.                                        *)
SuggestTexts(names, nameEn, code, aliases, above, neighbours) ==
    LET text(field, weight, t) == <<field, weight, t>>
        each(s, field, weight) == [i \in DOMAIN s |-> text(field, weight, s[i])]
        first(i) == \A j \in 1..(i - 1) : names[j] # names[i]
        own == SelectSeq([i \in DOMAIN names |-> i], first)
    IN [i \in DOMAIN own |-> text("name", OWN_WEIGHT.name, names[own[i]])]
       \o (IF nameEn = None THEN <<>> ELSE <<text("name_en", OWN_WEIGHT.name_en, nameEn)>>)
       \o <<text("code", OWN_WEIGHT.code, code)>>
       \o [i \in DOMAIN aliases |->
              text("alias", ALIAS_WEIGHT[aliases[i].kind], aliases[i].name)]
       \o each(above, "parent", PARENT_WEIGHT)
       \o each(neighbours, "neighbour", NEIGHBOUR_WEIGHT)

-----------------------------------------------------------------------------
(* Answering with the kinds a form offers.  Above: [kind, active, sequence]. *)

\* climb: 0 is the place itself, i > 0 the i-th place above it, None no answer on this form.
Climb(kind, above, allowed) ==
    LET offered(a) == a.active /\ a.kind \in allowed /\ FINENESS[a.kind] >= FINENESS["city"]
        finer == \A k \in allowed : FINENESS[kind] > FINENESS[k]
        at == SelectInSeq(above, offered)
    IN IF allowed = {} \/ kind \in allowed THEN 0
       ELSE IF finer /\ at # 0 THEN at ELSE None

\* city_sequence: the order of the city a place is, or is in; its own when it is in none.
CitySequence(kind, sequence, above) ==
    LET isCity(a) == a.kind \in CITY_KINDS
        at == SelectInSeq(above, isCity)
    IN IF kind \in CITY_KINDS \/ at = 0 THEN sequence ELSE above[at].sequence
===============================================================================
