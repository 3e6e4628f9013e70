------------------------------ MODULE PlaceNames ------------------------------
(***************************************************************************)
(* What else leads to a place - other names (place.alias) and post code      *)
(* prefixes (place.postcode) - and what people suggest about them            *)
(* (place.suggestion), under people's edits and bundle loads.                *)
(*                                                                         *)
(* `suggest' reads what is waiting and then writes: two that overlap do not  *)
(* see each other.  A load reads what is taken and writes later, too, beside *)
(* everybody's requests; a lock holds off another load.  The other requests  *)
(* are atomic.  One prefix is followed; hits stop mattering at               *)
(* LEARNED_OVER_IMPORT and are capped past it.  The suggestions that edit    *)
(* the tree are in Places.                                                   *)
(***************************************************************************)
EXTENDS Naturals, Sequences, FiniteSets, SequencesExt, FiniteSetsExt

CONSTANTS
    Places, Names,
    Contents,           \* what people suggest: <<"alias", place, name>> or, of the prefix,
                        \* <<"postcode", place, None>>
    BundleFiles,        \* what bundles say: [alias : place, name pairs; hits : place -> hits]
    Sessions,           \* visitors who suggest something at one time
    None,
    MaxEdits            \* bound: what people do

LEARNED_OVER_IMPORT == 3
Hits == 0..(LEARNED_OVER_IMPORT + 1)
Sources == {"staff", "learned", "import"}
Carried == {"name", "active"}

VARIABLES
    alias,              \* the other names: a set of rows
    code,               \* the rows of the prefix, by id
    asked,              \* the suggestions, by id
    writing,            \* each visitor's suggestion between its search and its write
    reading,            \* a load between its snapshot and its commit, or None
    edits,              \* history: what people have done
    counted             \* history: how often each thing was suggested

vars == <<alias, code, asked, writing, reading, edits, counted>>

AliasRow == [place : Places, name : Names, active : BOOLEAN, origin : {"bundle", "overlay"},
             key : (Places \X Names) \cup {None}, kept : SUBSET Carried]
CodeRow == [place : Places, source : Sources, hits : Hits]
Suggestion == [what : Contents, state : {"proposed", "ratified", "rejected"}, times : Nat,
               saw : SUBSET Nat, reopened : BOOLEAN]

Called(place, name) == {a \in alias : a.place = place /\ a.name = name}
Edit == edits < MaxEdits /\ edits' = edits + 1

\* A row a load is to write is written by another - of an imported name, or of a place's code -
\* and the load is refused when it comes to that row.
Overtaken(rows, places) ==
    IF reading # None /\ (\/ rows \cap (reading.revised \cup reading.removed) # {}
                          \/ places \cap (reading.dropped \cup reading.rehit) # {})
    THEN [reading EXCEPT !.clean = FALSE]
    ELSE reading

\* What is suggested, and what bundles say, is about places there are.
Tables ==
    /\ MaxEdits \in Nat
    /\ \A what \in Contents :
          \/ what[1] = "alias" /\ what[2] \in Places /\ what[3] \in Names
          \/ what[1] = "postcode" /\ what[2] \in Places
    /\ \A b \in BundleFiles :
          /\ b.alias \subseteq Places \X Names
          /\ DOMAIN b.hits \subseteq Places /\ IsFiniteSet(DOMAIN b.hits)
          /\ \A p \in DOMAIN b.hits : b.hits[p] \in Hits

-----------------------------------------------------------------------------
(* Other names.                                                              *)
Touch(a, changed, touched) ==
    [changed EXCEPT !.kept = IF a.origin = "bundle" THEN a.kept \cup touched ELSE a.kept]
Replace(a, b) == (alias \ {a}) \cup {b}
OwnAlias(place, name) == [place |-> place, name |-> name, active |-> TRUE,
                          origin |-> "overlay", key |-> None, kept |-> {}]

\* UNIQUE(place, name): the archived ones count.
AddAlias(place, name) ==
    /\ Called(place, name) = {}
    /\ alias' = alias \cup {OwnAlias(place, name)}
    /\ Edit
    /\ UNCHANGED <<code, asked, writing, reading, counted>>

RenameAlias(a, name) ==
    /\ a.active /\ Called(a.place, name) = {}
    /\ alias' = Replace(a, Touch(a, [a EXCEPT !.name = name], {"name"}))
    /\ reading' = Overtaken({a}, {})
    /\ Edit
    /\ UNCHANGED <<code, asked, writing, counted>>

\* unlink: an imported one is archived, one made here goes.
RemoveAlias(a) ==
    /\ a.active
    /\ alias' = IF a.origin = "bundle"
                THEN Replace(a, Touch(a, [a EXCEPT !.active = FALSE], {"active"}))
                ELSE alias \ {a}
    /\ reading' = Overtaken({a}, {})
    /\ Edit
    /\ UNCHANGED <<code, asked, writing, counted>>

-----------------------------------------------------------------------------
(* Post codes.                                                               *)
Rows == DOMAIN code
RowOf(place) == SelectInSeq(code, LAMBDA r : r.place = place)
More(hits) == IF hits + 1 \in Hits THEN hits + 1 ELSE hits

Trust(r) ==
    CASE r.source = "staff" -> 3
      [] r.source = "import" -> 1
      [] r.source = "learned" -> IF r.hits >= LEARNED_OVER_IMPORT THEN 2 ELSE 0
Better(r, q) == Trust(r) > Trust(q) \/ (Trust(r) = Trust(q) /\ r.hits > q.hits)
\* place_for_code: the first row none is better than.
Best(rows) ==
    LET best(i) == \A j \in DOMAIN rows : ~Better(rows[j], rows[i])
    IN IF rows = <<>> THEN None ELSE rows[Min({i \in DOMAIN rows : best(i)})]

\* learn: somebody's code belongs to a place.
Learn(place) ==
    LET i == RowOf(place)
    IN /\ code' = IF i = 0
                  THEN Append(code, [place |-> place, source |-> "learned", hits |-> 1])
                  ELSE [code EXCEPT ![i].hits = More(code[i].hits)]
       /\ reading' = Overtaken({}, {place})
       /\ Edit
       /\ UNCHANGED <<alias, asked, writing, counted>>

\* An editor writes a row's source on the form.
Settle(i, source) ==
    /\ code' = [code EXCEPT ![i].source = source]
    /\ reading' = Overtaken({}, {code[i].place})
    /\ Edit
    /\ UNCHANGED <<alias, asked, writing, counted>>

Decided(place) ==
    LET i == RowOf(place)
    IN IF i = 0 THEN Append(code, [place |-> place, source |-> "staff", hits |-> 0])
       ELSE [code EXCEPT ![i].source = "staff"]

-----------------------------------------------------------------------------
(* Suggestions.                                                              *)
Waiting(what) == {i \in DOMAIN asked : asked[i].what = what /\ asked[i].state = "proposed"}
\* The order of the table: the one suggested most often, of those the latest.
Foremost(ids) ==
    CHOOSE i \in ids : \A j \in ids :
        asked[j].times < asked[i].times \/ (asked[j].times = asked[i].times /\ j <= i)

\* suggest, its search: the one that is waiting, and how often it was suggested.
LookUp(s, what) ==
    LET same == Waiting(what)
    IN /\ writing[s] = None
       /\ edits + Cardinality({u \in Sessions : writing[u] # None}) < MaxEdits
       /\ writing' = [writing EXCEPT ![s] =
              [what |-> what, saw |-> DOMAIN asked, row |-> IF same = {} THEN 0 ELSE Foremost(same),
               times |-> IF same = {} THEN 0 ELSE asked[Foremost(same)].times, clean |-> TRUE]]
       /\ UNCHANGED <<alias, code, asked, reading, edits, counted>>

\* mutant: a request writes what it read, whoever wrote since
DirtiedNever(ids) == writing
\* The row a request read is written by another: the request is refused when it writes it.
Dirtied(ids) ==
    [s \in Sessions |->
        IF writing[s] # None /\ writing[s].row \in ids THEN [writing[s] EXCEPT !.clean = FALSE]
        ELSE writing[s]]

\* suggest, its write: counted once more, or written.
Suggest(s) ==
    LET w == writing[s]
        new == [what |-> w.what, state |-> "proposed", times |-> 1, saw |-> w.saw,
                reopened |-> FALSE]
    IN /\ w # None /\ w.clean
       /\ asked' = IF w.row = 0 THEN Append(asked, new)
                   ELSE [asked EXCEPT ![w.row].times = w.times + 1]
       /\ writing' = [Dirtied({w.row} \ {0}) EXCEPT ![s] = None]
       /\ counted' = [counted EXCEPT ![w.what] = @ + 1]
       /\ Edit
       /\ UNCHANGED <<alias, code, reading>>

GiveUp(s) ==
    /\ writing[s] # None
    /\ writing' = [writing EXCEPT ![s] = None]
    /\ UNCHANGED <<alias, code, asked, reading, edits, counted>>

\* action_ratify and _apply: a name that is there is shown again, a new one is the overlay's.
Ratified(what) ==
    LET there == Called(what[2], what[3])
    IN IF there = {} THEN alias \cup {OwnAlias(what[2], what[3])}
       ELSE UNION {Replace(a, Touch(a, [a EXCEPT !.active = TRUE], {"active"})) : a \in there}
Ratify(i) ==
    /\ asked[i].state = "proposed"
    /\ asked' = [asked EXCEPT ![i].state = "ratified"]
    /\ alias' = IF asked[i].what[1] = "alias" THEN Ratified(asked[i].what) ELSE alias
    /\ code' = IF asked[i].what[1] = "postcode" THEN Decided(asked[i].what[2]) ELSE code
    /\ reading' = IF asked[i].what[1] = "alias"
                  THEN Overtaken(Called(asked[i].what[2], asked[i].what[3]), {})
                  ELSE Overtaken({}, {asked[i].what[2]})
    /\ writing' = Dirtied({i})
    /\ Edit
    /\ UNCHANGED counted

Reject(i) ==
    /\ asked[i].state = "proposed"
    /\ asked' = [asked EXCEPT ![i].state = "rejected"]
    /\ writing' = Dirtied({i})
    /\ Edit
    /\ UNCHANGED <<alias, code, reading, counted>>

\* What a ratification wrote stays.
Reopen(i) ==
    /\ asked[i].state # "proposed"
    /\ asked' = [asked EXCEPT ![i].state = "proposed", ![i].reopened = TRUE]
    /\ writing' = Dirtied({i})
    /\ Edit
    /\ UNCHANGED <<alias, code, reading, counted>>

-----------------------------------------------------------------------------
(* A load (aliases, postcodes): what it is to write comes from its snapshot,  *)
(* where it writes is the table as it is by then.                            *)
Imported == {a \in alias : a.origin = "bundle"}
\* mutant: the bundle wins over people
WantedAll(a) == [a EXCEPT !.name = a.key[2], !.active = TRUE]
WantedAlias(a) ==
    [a EXCEPT !.name = IF "name" \in a.kept THEN a.name ELSE a.key[2],
              !.active = IF "active" \in a.kept THEN a.active ELSE TRUE]
\* The imported rows that do not say what they should, and those that are not imported any more.
Revised(pairs) == {a \in Imported : a.key \in pairs /\ WantedAlias(a) # a}
Removed(pairs) == {a \in Imported : a.key \notin pairs /\ a.kept = {}}
\* mutant: a name that is taken is written again
NewAgain(pairs) == {p \in pairs : ~\E a \in Imported : a.key = p}
\* The names that are not imported yet and that nobody has.
New(pairs) == {p \in pairs : ~(\E a \in Imported : a.key = p) /\ Called(p[1], p[2]) = {}}

\* Of the codes, the imported ones the bundle does not say, says otherwise, and those to come.
ImportedCodes == {i \in Rows : code[i].source = "import"}
Dropped(hits) == {code[i].place : i \in ImportedCodes} \ DOMAIN hits
Rehit(hits) ==
    {code[i].place : i \in {j \in ImportedCodes : /\ code[j].place \in DOMAIN hits
                                                  /\ code[j].hits # hits[code[j].place]}}
NewCodes(hits) == {p \in DOMAIN hits : RowOf(p) = 0}

\* The load has its lock, and reads.
Read(b) ==
    /\ reading = None
    /\ reading' = [revised |-> Revised(b.alias), removed |-> Removed(b.alias), new |-> New(b.alias),
                   hits |-> b.hits, dropped |-> Dropped(b.hits), rehit |-> Rehit(b.hits),
                   newCodes |-> NewCodes(b.hits), clean |-> TRUE,
                   names |-> {<<a.place, a.name>> : a \in alias},         \* history: what there was
                   coded |-> {code[i].place : i \in Rows}]                \* history: what there was
    /\ UNCHANGED <<alias, code, asked, writing, edits, counted>>

Brought(p) == [OwnAlias(p[1], p[2]) EXCEPT !.origin = "bundle", !.key = p]
\* The names once the new ones are copied in, and once the others are changed and removed.
Copied(l) == alias \cup {Brought(p) : p \in l.new}
AliasesAfter(l) ==
    {IF a \in l.revised THEN WantedAlias(a) ELSE a : a \in Copied(l) \ l.removed}

\* The n-th of some rows, in the order of the table.
Nth(ids, n) == CHOOSE i \in ids : Cardinality({j \in ids : j <= i}) = n
\* The bundle's own rows say what it says or go; of the places it names, those with no row get one.
CodesAfter(l) ==
    LET left == {i \in Rows : code[i].place \notin l.dropped}
        Said(row) == IF row.place \in l.rehit THEN [row EXCEPT !.hits = l.hits[row.place]] ELSE row
        new == SetToSeq(l.newCodes)
    IN [n \in 1..Cardinality(left) |-> Said(code[Nth(left, n)])]
       \o [n \in DOMAIN new |-> [place |-> new[n], source |-> "import", hits |-> l.hits[new[n]]]]

\* What a UNIQUE refuses: names two rows have, places with two rows.
NameClashes(rows) ==
    {<<a.place, a.name>> : a \in {b \in rows : \E c \in rows \ {b} : c.place = b.place /\ c.name = b.name}}
CodeClashes(rows) ==
    {rows[i].place : i \in {j \in DOMAIN rows : \E k \in DOMAIN rows \ {j} : rows[k].place = rows[j].place}}

\* The load writes what it read should be written, and commits.
Load ==
    /\ reading # None /\ reading.clean
    /\ NameClashes(Copied(reading)) = {} /\ NameClashes(AliasesAfter(reading)) = {}
    /\ CodeClashes(CodesAfter(reading)) = {}
    /\ alias' = AliasesAfter(reading)
    /\ code' = CodesAfter(reading)
    /\ reading' = None
    /\ UNCHANGED <<asked, writing, edits, counted>>

\* A UNIQUE or a row somebody wrote refuses it, or its server stops: nothing is written.
LoadFails ==
    /\ reading # None
    /\ reading' = None
    /\ UNCHANGED <<alias, code, asked, writing, edits, counted>>

Init ==
    /\ alias = {}
    /\ code = <<>>
    /\ asked = <<>>
    /\ writing = [s \in Sessions |-> None]
    /\ reading = None
    /\ edits = 0
    /\ counted = [what \in Contents |-> 0]

Next ==
    \/ \E p \in Places, n \in Names : AddAlias(p, n)
    \/ \E a \in alias : RemoveAlias(a) \/ \E n \in Names : RenameAlias(a, n)
    \/ \E p \in Places : Learn(p)
    \/ \E i \in Rows, source \in Sources : Settle(i, source)
    \/ \E s \in Sessions : Suggest(s) \/ GiveUp(s) \/ \E what \in Contents : LookUp(s, what)
    \/ \E i \in DOMAIN asked : Ratify(i) \/ Reject(i) \/ Reopen(i)
    \/ \E b \in BundleFiles : Read(b)
    \/ Load
    \/ LoadFails

Spec == Init /\ [][Next]_vars

-----------------------------------------------------------------------------
TypeOK ==
    /\ alias \subseteq AliasRow
    /\ code \in Seq(CodeRow)
    /\ asked \in Seq(Suggestion)
    /\ edits \in 0..MaxEdits

\* A load is refused by UNIQUE(place, name) or UNIQUE(prefix, place) - the whole load, and with
\* it the update it runs in - only over what somebody wrote after it read: whatever people added,
\* renamed, removed and learnt before, no name and no place's code that was there stands in its way.
LoadsGoThrough ==
    /\ NameClashes(alias) = {} /\ CodeClashes(code) = {}
    /\ reading # None /\ reading.clean =>
          /\ (NameClashes(Copied(reading)) \cup NameClashes(AliasesAfter(reading))) \cap reading.names = {}
          /\ CodeClashes(CodesAfter(reading)) \cap reading.coded = {}

\* A load leaves what people decided: the names they added, what they changed of imported ones -
\* one they removed stays away - and the post code's answer once staff or enough people gave it.
DecidedStays ==
    [][Load =>
          /\ \A a \in alias : a.origin = "overlay" => a \in alias'
          /\ \A a \in Imported : a.kept # {} =>
                \E b \in alias' : /\ b.key = a.key
                                  /\ "name" \in a.kept => b.name = a.name
                                  /\ "active" \in a.kept => b.active = a.active
          /\ code # <<>> /\ Trust(Best(code)) >= 2 => Best(code)' = Best(code)]_vars

\* How often the rows say something was suggested, together.
Votes(what) ==
    LET upTo[n \in 0..Len(asked)] ==
            IF n = 0 THEN 0
            ELSE upTo[n - 1] + (IF asked[n].what = what THEN asked[n].times ELSE 0)
    IN upTo[Len(asked)]
\* Every time somebody suggests something is counted, once, in one row or another: however
\* visitors and editors interleave, the rows about it add up to how often it was suggested.
EveryVoteCounts == \A what \in Contents : Votes(what) = counted[what]

\* The same suggestion is not waiting twice: of two rows that wait, one was decided and opened
\* again, or the visitor who wrote the later one could not have seen the other.
CountedOnce ==
    \A i, j \in DOMAIN asked :
        i < j /\ asked[i].what = asked[j].what
              /\ asked[i].state = "proposed" /\ asked[j].state = "proposed"
        => asked[i].reopened \/ asked[j].reopened \/ i \notin asked[j].saw
===============================================================================
