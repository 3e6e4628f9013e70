------------------------------ MODULE PlaceTables ------------------------------
(***************************************************************************)
(* What is kept about places besides the tree: the table of neighbours, other  *)
(* names with post codes and suggestions, and the responder's answers.  None     *)
(* of them shares state with another, so each runs on its own (`part').          *)
(***************************************************************************)
EXTENDS Places

CONSTANTS
    LinkPlaces, LinkBundles, MaxLinkEdits,                              \* Neighbours
    NamePlaces, OtherNames, Contents, NameFiles, MaxNameEdits,          \* PlaceNames
    Loads, Queries, WordsOf, CodeReadIn, Clients, CacheSize, Busy, MaxLoads \* Answers

VARIABLES
    part,
    link, linkSource, linkEdits, bent, dropped,                     \* Neighbours
    alias, code, asked, writing, reading, nameEdits, counted,       \* PlaceNames
    loads, loading, current, fallback, cache, client, sorted, torn  \* Answers

tree == vars
links == <<link, linkSource, linkEdits, bent, dropped>>
names == <<alias, code, asked, writing, reading, nameEdits, counted>>
answers == <<loads, loading, current, fallback, cache, client, sorted, torn>>

N == INSTANCE Neighbours WITH
        Places <- LinkPlaces, BundleLinks <- LinkBundles, MaxEdits <- MaxLinkEdits,
        source <- linkSource, edits <- linkEdits
P == INSTANCE PlaceNames WITH
        Places <- NamePlaces, Names <- OtherNames, BundleFiles <- NameFiles, MaxEdits <- MaxNameEdits,
        edits <- nameEdits
A == INSTANCE Answers WITH Words <- WordsOf, Code <- CodeReadIn

ASSUME LinksAssumption == N!Tables
ASSUME NamesAssumption == P!Tables
\* A load reads a default language at least (state.go).
ASSUME AnswersAssumption == Loads \subseteq Seq(A!Languages) \ {<<>>}

-----------------------------------------------------------------------------
TablesInit ==
    /\ part \in {"tree", "links", "names", "answers", "rules"}
    /\ Init /\ N!Init /\ P!Init /\ A!Init

TablesNext ==
    /\ UNCHANGED part
    /\ \/ part = "tree" /\ Next /\ UNCHANGED <<links, names, answers>>
       \/ part = "links" /\ N!Next /\ UNCHANGED <<tree, names, answers>>
       \/ part = "names" /\ P!Next /\ UNCHANGED <<tree, links, answers>>
       \/ part = "answers" /\ A!Next /\ UNCHANGED <<tree, links, names>>

tables == <<part, tree, links, names, answers>>
TablesSpec == TablesInit /\ [][TablesNext]_tables

-----------------------------------------------------------------------------
\* The rows of places, links, names, post codes and suggestions have their shape (place_graph).
Shapes == TypeOK /\ N!TypeOK /\ P!TypeOK

\* Neighbours (link.py): both rows of a pair say the same, unless a row was re-pointed from or to it.
BothWays == N!BothWays
\* Neighbours (link.py, place_load.py): an imported neighbour somebody removed stays removed, and
\* every other imported row is what the bundle loaded last says.
LinksFollow == N!LinksFollow
\* Other names and post codes (place_load.py): a UNIQUE refuses a load only over
\* what somebody wrote while it ran.
LoadsGoThrough == P!LoadsGoThrough
\* Other names and post codes (place_load.py): a load leaves what people decided.
DecidedStays == P!DecidedStays
\* Suggestions (suggestion.py): each is counted once, in one row that waits.
SuggestionsCounted == P!EveryVoteCounts /\ P!CountedOnce
\* The responder (server.go, state.go, lru.go): every answer is its own index's, and once there
\* is an index there is an answer.
Answered == A!AnswersAreItsOwn /\ A!ReadyStays
===============================================================================
