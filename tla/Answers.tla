-------------------------------- MODULE Answers --------------------------------
(***************************************************************************)
(* Requests to the responder (server.go) side by side with each other and    *)
(* with the loop that installs a new index (state.go), over a cache of whole *)
(* answers (lru.go).                                                         *)
(*                                                                         *)
(* A generation is what one load read: its languages.  What its index says   *)
(* to a query stands for itself, Said.  A query has one form of words, which *)
(* the cache's key holds; kinds, `within' and limit are the same all along.  *)
(***************************************************************************)
EXTENDS Naturals, Sequences, FiniteSets, SequencesExt

CONSTANTS
    Loads,              \* what loads read: the languages of each, the default one first
    Queries, Words,     \* the queries, and a function: the words of each
    Code,               \* a function: the post code a query is taken for, or None
    Clients, None,
    CacheSize, Busy,    \* answers kept; searches at one time (the cores)
    MaxLoads            \* bound: loads

VARIABLES
    loads,              \* each generation's languages, by generation
    loading,            \* install between its stores: None, "built", "fallback"
    current, fallback,  \* the generation served, 0 before the first; the language it falls to
    cache,              \* [key, body], the one used last first
    client,             \* each request, or None
    sorted, torn        \* history: code rows in order; those two searches sorted at once

vars == <<loads, loading, current, fallback, cache, client, sorted, torn>>

Said(g, lang, q) == <<g, lang, IF Code[q] = None THEN Words[q] ELSE Code[q]>>
Rows(c) == <<c.map, c.lang, Code[c.q]>>
Key(c) == <<c.map, c.lang, Words[c.q]>>
Languages == UNION {ToSet(l) : l \in Loads}
At(step) == {r \in Clients : client[r] # None /\ client[r].at = step}

-----------------------------------------------------------------------------
(* install: the generation and its indexes, then two pointers.               *)
Build(langs) ==
    /\ loading = None
    /\ Len(loads) < MaxLoads
    /\ loads' = Append(loads, langs)
    /\ loading' = "built"
    /\ UNCHANGED <<current, fallback, cache, client, sorted, torn>>

StoreFallback ==
    /\ loading = "built"
    /\ fallback' = loads[Len(loads)][1]
    /\ loading' = "fallback"
    /\ UNCHANGED <<loads, current, cache, client, sorted, torn>>

StoreIndexes ==
    /\ loading = "fallback"
    /\ current' = Len(loads)
    /\ loading' = None
    /\ UNCHANGED <<loads, fallback, cache, client, sorted, torn>>

-----------------------------------------------------------------------------
(* suggest.                                                                  *)
Becomes(r, c) ==
    /\ client' = [client EXCEPT ![r] = c]
    /\ UNCHANGED <<loads, loading, current, fallback>>
Answered(c, body) == [c EXCEPT !.at = "answered", !.body = body]
Refused(c, why) == [c EXCEPT !.at = why]

\* state.index, its first half: the indexes that are served.
Ask(r, lang, q) ==
    LET c == [at |-> "asked", map |-> current, lang |-> lang, q |-> q, body |-> None]
    IN /\ client[r] = None
       /\ Becomes(r, IF current = 0 THEN Refused(c, "unready") ELSE c)
       /\ UNCHANGED <<cache, sorted, torn>>

\* mutant: no language to fall back to
IndexStrict(r) ==
    LET c == client[r]
    IN /\ r \in At("asked")
       /\ Becomes(r, IF c.lang \in ToSet(loads[c.map]) THEN [c EXCEPT !.at = "indexed"]
                     ELSE Refused(c, "unready"))
       /\ UNCHANGED <<cache, sorted, torn>>
\* Its second half: the language asked for, else the one to fall back to.
Index(r) ==
    LET c == client[r]
        built == ToSet(loads[c.map])
        to == [c EXCEPT !.at = "indexed", !.lang = IF c.lang \in built THEN c.lang ELSE fallback]
    IN /\ r \in At("asked")
       /\ Becomes(r, IF to.lang \in built THEN to ELSE Refused(c, "unready"))
       /\ UNCHANGED <<cache, sorted, torn>>

InCache(key) == SelectInSeq(cache, LAMBDA e : e.key = key)
\* set: the entry of the key comes first, the others stay in their order; one too many is the last to go.
Foremost(e) ==
    LET i == InCache(e.key)
        grows == i = 0 /\ Len(cache) < CacheSize
    IN [j \in 1..(IF grows THEN Len(cache) + 1 ELSE Len(cache)) |->
           IF j = 1 THEN e ELSE IF i = 0 \/ j <= i THEN cache[j - 1] ELSE cache[j]]
LookUp(r) ==
    LET c == client[r]
        i == InCache(Key(c))
    IN /\ r \in At("indexed")
       /\ Becomes(r, IF i = 0 THEN [c EXCEPT !.at = "waiting"] ELSE Answered(c, cache[i].body))
       /\ cache' = IF i = 0 THEN cache ELSE Foremost(cache[i])
       /\ UNCHANGED <<sorted, torn>>

\* A turn among the searches; byPostcode puts the rows of a code in order where they are.
Search(r) ==
    LET c == client[r]
        together == {s \in At("searching") : Code[c.q] # None /\ Rows(client[s]) = Rows(c)}
    IN /\ r \in At("waiting")
       /\ Cardinality(At("searching")) < Busy
       /\ Becomes(r, [c EXCEPT !.at = "searching"])
       /\ torn' = IF together # {} /\ Rows(c) \notin sorted THEN torn \cup {Rows(c)} ELSE torn
       /\ UNCHANGED <<cache, sorted>>

Answer(r) ==
    LET c == client[r]
    IN /\ r \in At("searching")
       /\ \E body \in {Said(c.map, c.lang, c.q)} \cup (IF Rows(c) \in torn THEN {<<>>} ELSE {}) :
              /\ Becomes(r, Answered(c, body))
              /\ cache' = IF CacheSize = 0 THEN cache ELSE Foremost([key |-> Key(c), body |-> body])
       /\ sorted' = IF Code[c.q] = None THEN sorted ELSE sorted \cup {Rows(c)}
       /\ UNCHANGED torn

\* Two seconds without a turn, or the client went away.
GiveUp(r) ==
    /\ r \in At("waiting")
    /\ Becomes(r, Refused(client[r], "busy"))
    /\ UNCHANGED <<cache, sorted, torn>>

Done(r) ==
    /\ r \in At("answered") \cup At("busy") \cup At("unready")
    /\ Becomes(r, None)
    /\ UNCHANGED <<cache, sorted, torn>>

Init ==
    /\ loads = <<>>
    /\ loading = None
    /\ current = 0
    /\ fallback = None
    /\ cache = <<>>
    /\ client = [r \in Clients |-> None]
    /\ sorted = {}
    /\ torn = {}

Next ==
    \/ \E langs \in Loads : Build(langs)
    \/ StoreFallback
    \/ StoreIndexes
    \/ \E r \in Clients :
          \/ \E lang \in Languages, q \in Queries : Ask(r, lang, q)
          \/ Index(r) \/ LookUp(r) \/ Search(r) \/ Answer(r) \/ GiveUp(r) \/ Done(r)

-----------------------------------------------------------------------------
\* Two ways of writing one query that are not the same question: its words are those of a post
\* code, and it is not taken for one.  Their answers share a key.
Ambiguous(q) == \E p \in Queries : Words[p] = Words[q] /\ Code[p] # Code[q]

\* Whatever is loaded meanwhile, cached, dropped and used again, an answer is what the index of
\* the generation it bears says to the query in the language of the answer - not what another
\* load said, nor what somebody else asked - but for the rows two searches put in order at once.
AnswersAreItsOwn ==
    \A r \in At("answered") :
        LET c == client[r]
        IN \/ c.body = Said(c.map, c.lang, c.q)
           \/ Ambiguous(c.q)
           \/ Rows(c) \in torn

\* Once something is served nobody is told it is not ready, unless loads have changed the
\* default language since the indexes this request met.
ReadyStays ==
    \A r \in At("unready") :
        LET g == client[r].map
        IN g = 0 \/ \E h \in (g + 1)..Len(loads) : loads[h][1] # loads[g][1]
===============================================================================
