------------------------------- MODULE MCOffice -------------------------------
(* A small instance of Office for TLC.                                       *)
EXTENDS Office, TLC

CONSTANTS w1, w2                              \* two people

(* A job of one day, one of two and one without an end.                       *)
MCSpans == {<<1, 1>>, <<3, 4>>, <<3, None>>}
MCCheckpoints == "t3" :> 2 @@ "t24" :> 1

(* Of three people, w1 speaks of two.                                         *)
MCClaims == w1 :> [by |-> w1, method |-> "self"] @@ w2 :> [by |-> w1, method |-> "coworker"]

(* Two periods with one day in both, and bookings on both sides of it.        *)
Booked(business, from, to) == [business |-> business, start |-> from, end |-> to]
MCPeriods == "p1" :> [start |-> 1, end |-> 3] @@ "p2" :> [start |-> 3, end |-> 7]
MCBookings == "b1" :> Booked("x", 1, 4) @@ "b2" :> Booked("y", 3, None)
              @@ "b3" :> Booked("z", 2, 6) @@ "b4" :> Booked("x", 6, 6)

(* A worker of one neighbourhood.                                             *)
MCCityOf == "n" :> "city"

(* Two texts whose answers share a result, the quick ones in part.            *)
MCFull == "a" :> <<1, 2>> @@ "b" :> <<2, 3>>
MCQuick == "a" :> <<2>> @@ "b" :> <<3>>

(* Answers of a city, a place in it, a street in that or in the city, and what  *)
(* is above them: every form a browser can send, with what the search may find.  *)
Row(kind, parent, active) == [kind |-> kind, parent |-> parent, active |-> active, name |-> kind, aliases |-> {}]
Maps == {<<Row("city", 4, TRUE), Row(kind, 1, active), Row(fine, up, TRUE), Row(top, None, TRUE)>> :
           kind \in {"neighbourhood", "village", "county"}, active \in BOOLEAN, up \in {1, 2},
           fine \in {"street", "neighbourhood"}, top \in {"province", "district"}}
Finds == {<<>>} \cup {<<<<i, 1>>>> : i \in 1..4} \cup {<<<<i, a>>, <<j, 1>>>> : i, j \in 1..4, a \in {1, 2}}
Form(id, code, typed, missed) == [id |-> id, code |-> code, typed |-> typed, missed |-> missed]
Forms == {Form(id, code, typed, None) : id \in 0..5, code \in {None, 0, 2}, typed \in {None, "12345", "x"}}
         \cup {Form(2, None, None, "y")}
Questions == {<<form, <<>>>> : form \in Forms} \cup {<<Form(5, None, "x", None), found>> : found \in Finds}
Case(tree, mode, q) == [tree |-> tree, mode |-> mode, form |-> q[1], found |-> q[2]]
MCCases == {c \in {Case(tree, mode, q) : tree \in Maps, mode \in {"area", "all"}, q \in Questions} :
              W!MayFind(c.tree, c.mode, c.found)}

(* Months on both sides of leap years of four years and of five, and of the    *)
(* Gregorian years 2000, a leap year, and 2100, none.                          *)
MCMonths == {<<jy, jm>> : jy \in {1300, 1498} \cup (1377..1379) \cup (1402..1409) \cup (1478..1480), jm \in 1..12}
(* Trees of a root, a family of it, a family or a role in either, two roles and *)
(* a skill, under no rule, one that withholds, and one that lets back besides.  *)
Node(kind, parent, active, featured) == [kind |-> kind, parent |-> parent, active |-> active, featured |-> featured]
Trees == {<<Node("family", None, TRUE, FALSE), Node("family", 1, TRUE, FALSE), Node(kind, up[1], TRUE, FALSE),
            Node("role", up[2], active, FALSE), Node("role", up[3], TRUE, featured),
            Node("competency", up[4], TRUE, FALSE)>> :
              kind \in {"family", "role"}, up \in (1..2) \X (2..3) \X (1..3) \X {1, 3}, active \in BOOLEAN, featured \in BOOLEAN}
Standard(tree, off, on) ==
    [tree |-> tree, off |-> off, on |-> on, needs |-> {<<4, 6>>, <<5, 6>>}, core |-> {<<5, 6>>},
     above |-> <<None, 1, 1>>, links |-> {<<4, 2>>, <<5, 2>>, <<5, 3>>, <<6, 1>>}]
MCStandards ==
    {Standard(tree, off, on) : tree \in Trees, off \in {{}, {2}, {3}, {5}, {1, 6}}, on \in {{}, {2}, {4}, {6}}}

Symmetry == Permutations(Visits) \cup Permutations(Requests)
===============================================================================
