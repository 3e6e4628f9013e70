------------------------------- MODULE SearchBox -------------------------------
(***************************************************************************)
(* The suggest box of a page (search_suggest/static/src/js/search_suggest.js):  *)
(* what is typed, the questions in flight, and the list on the screen.          *)
(*                                                                         *)
(* A question asks for the full answer at once and for the quick one when that   *)
(* is late; an address that fails is replaced by the fallback for good.  Timers  *)
(* and answers come in any order, each handled whole.                           *)
(***************************************************************************)
EXTENDS Integers, Sequences, SequencesExt

CONSTANTS
    None,               \* nothing: the text below data-suggest-min, a question not in flight
    Texts,              \* what can be typed
    Full, Quick,        \* Texts -> the answers, sequences of results
    MaxKeys, MaxAsks    \* bounds: texts typed, questions asked

VARIABLES
    text,               \* the trimmed value of the input
    keys,               \* texts typed so far
    timer,              \* a key's DELAY has not passed
    usingFallback,
    question,           \* <<[query, full, wide, narrow]>>: wide and narrow are in flight at an address
    cache,              \* Texts -> None or the full answer
    list,               \* [query, results, active, waiting, open]: the screen
    busy,               \* "off", "soon" (BUSY_AFTER has not passed), "on"
    mark,               \* the result the person highlighted last
    gaveUp              \* the texts whose full question failed last

vars == <<text, keys, timer, usingFallback, question, cache, list, busy, mark, gaveUp>>

Addresses == {"first", "fallback"}
Results == UNION {ToSet(Full[t]) : t \in Texts}
TypeOK ==
    /\ text \in {None} \cup Texts /\ keys \in 0..MaxKeys /\ timer \in BOOLEAN
    /\ \A k \in DOMAIN question : /\ question[k].query \in Texts
                                  /\ question[k].wide \in {None} \cup Addresses
                                  /\ question[k].narrow \in {None, "later"} \cup Addresses
    /\ \A t \in Texts : cache[t] # None => cache[t] \in Seq(Results)
    /\ list.results \in Seq(Results) /\ list.active \in 0..Len(list.results)
    /\ busy \in {"off", "soon", "on"} /\ gaveUp \subseteq Texts

endpoint == IF usingFallback THEN "fallback" ELSE "first"
Waits(k) == question[k].wide # None
Looking == \E k \in DOMAIN question : Waits(k) /\ question[k].query = text

-----------------------------------------------------------------------------
Init ==
    /\ text = None /\ keys = 0 /\ timer = FALSE /\ usingFallback = FALSE /\ question = <<>>
    /\ cache = [t \in Texts |-> None] /\ busy = "off" /\ mark = None /\ gaveUp = {}
    /\ list = [query |-> None, results |-> <<>>, active |-> 0, waiting |-> FALSE, open |-> FALSE]

\* render: what was highlighted stays so, wherever it moved to.
RenderIndex(items) == list.active      \* mutant: the index stays, not the result
Stays(items) ==
    IF list.active = 0 THEN 0 ELSE SelectInSeq(items, LAMBDA item : item = list.results[list.active])
render(query, items, waiting) ==
    list' = [query |-> query, results |-> items, active |-> Stays(items), waiting |-> waiting,
             open |-> items # <<>>]
close == list' = [list EXCEPT !.open = FALSE, !.active = 0]

\* The input listener.
Types(t) ==
    /\ keys < MaxKeys /\ keys' = keys + 1 /\ text' = t /\ timer' = TRUE
    /\ UNCHANGED <<usingFallback, question, cache, list, busy, mark, gaveUp>>

\* fetchResults, DELAY after the last key, with nothing typed, an answer that is known, or one to ask for:
\* the questions in flight are aborted, and the one for this same text, if there was one, takes the sign
\* of waiting down with it.
ShowsNothing ==
    /\ text = None /\ busy' = "off"
    /\ list' = [query |-> None, results |-> <<>>, active |-> 0, waiting |-> FALSE, open |-> FALSE]
    /\ UNCHANGED <<question, gaveUp>>
ShowsKnown ==
    /\ text # None /\ cache[text] # None
    /\ busy' = "off" /\ render(text, cache[text], FALSE)
    /\ UNCHANGED <<question, gaveUp>>
aborted(q) == [q EXCEPT !.full = TRUE, !.wide = None, !.narrow = IF q.narrow = "later" THEN "later" ELSE None]
asks == [query |-> text, full |-> FALSE, wide |-> endpoint, narrow |-> "later"]
Asks ==
    /\ text # None /\ cache[text] = None /\ Len(question) < MaxAsks
    /\ busy' = IF Looking THEN "off" ELSE "soon"
    /\ question' = Append([k \in DOMAIN question |-> aborted(question[k])], asks)
    /\ gaveUp' = gaveUp \ {text} /\ UNCHANGED list
Fetch ==
    /\ timer /\ timer' = FALSE
    /\ UNCHANGED <<text, keys, usingFallback, cache, mark>>
    /\ ShowsNothing \/ ShowsKnown \/ Asks

CurrentAlways(query) == TRUE           \* mutant: an answer is shown whatever is typed now
current(query) == text = query

\* The full answer comes.
Answered(k) ==
    LET query == question[k].query
    IN /\ Waits(k)
       /\ question' = [question EXCEPT ![k].wide = None, ![k].full = TRUE]
       /\ cache' = [cache EXCEPT ![query] = Full[query]]
       /\ IF current(query) THEN busy' = "off" /\ render(query, Full[query], FALSE)
          ELSE UNCHANGED <<busy, list>>
       /\ UNCHANGED <<text, keys, timer, usingFallback, mark, gaveUp>>
\* It fails: it is asked of the fallback, if nothing is yet; else the box gives up on it.
Fails(k) ==
    LET query == question[k].query
    IN /\ Waits(k)
       /\ usingFallback' = TRUE
       /\ \/ /\ ~usingFallback
             /\ question' = [question EXCEPT ![k].wide = "fallback"]
             /\ UNCHANGED <<busy, gaveUp>>
          \/ /\ usingFallback
             /\ question' = [question EXCEPT ![k].wide = None, ![k].full = TRUE]
             /\ busy' = IF current(query) THEN "off" ELSE busy
             /\ gaveUp' = gaveUp \cup {query}
       /\ UNCHANGED <<text, keys, timer, cache, list, mark>>

\* QUICK_AFTER passes; the quick answer comes, or fails.
AsksQuick(k) ==
    /\ question[k].narrow = "later"
    /\ question' = [question EXCEPT ![k].narrow =
                        IF question[k].full \/ ~current(question[k].query) THEN None ELSE endpoint]
    /\ UNCHANGED <<text, keys, timer, usingFallback, cache, list, busy, mark, gaveUp>>
AnsweredQuick(k) ==
    /\ question[k].narrow \in Addresses
    /\ question' = [question EXCEPT ![k].narrow = None]
    /\ IF ~question[k].full /\ current(question[k].query)
       THEN render(question[k].query, Quick[question[k].query], TRUE) ELSE UNCHANGED list
    /\ UNCHANGED <<text, keys, timer, usingFallback, cache, busy, mark, gaveUp>>
FailsQuick(k) ==
    /\ question[k].narrow \in Addresses
    /\ question' = [question EXCEPT ![k].narrow = IF usingFallback THEN None ELSE "fallback"]
    /\ usingFallback' = TRUE
    /\ UNCHANGED <<text, keys, timer, cache, list, busy, mark, gaveUp>>

BusyShows ==
    /\ busy = "soon" /\ busy' = "on"
    /\ UNCHANGED <<text, keys, timer, usingFallback, question, cache, list, mark, gaveUp>>

\* An arrow (step 1 or -1) opens the list and moves; the first one up goes to the last but one.
Arrow(step) ==
    LET count == Len(list.results)
        index == ((list.active - 1 + step + count) % count) + 1
    IN /\ count > 0
       /\ list' = [list EXCEPT !.open = TRUE, !.active = index] /\ mark' = list.results[index]
       /\ UNCHANGED <<text, keys, timer, usingFallback, question, cache, busy, gaveUp>>
\* Escape, choosing (choose closes first), and leaving the field.
Closes ==
    /\ list.open /\ close
    /\ UNCHANGED <<text, keys, timer, usingFallback, question, cache, busy, mark, gaveUp>>

Next ==
    \/ \E t \in {None} \cup Texts : t # text /\ Types(t)
    \/ Fetch \/ BusyShows \/ Closes \/ Arrow(1) \/ Arrow(-1)
    \/ \E k \in DOMAIN question : \/ Answered(k) \/ Fails(k)
                                  \/ AsksQuick(k) \/ AnsweredQuick(k) \/ FailsQuick(k)

-----------------------------------------------------------------------------
\* Once the box has nothing left to wait for, the list is the full answer to what is typed, unless the
\* question failed.
Settles ==
    ~timer /\ ~Looking /\ text \notin gaveUp =>
        list.query = text /\ ~list.waiting /\ (text # None => list.results = Full[text])
\* A part of an answer to what is typed stands only while the whole of it is looked for.
PartOnlyBefore ==
    list.waiting /\ list.query = text /\ ~timer => cache[text] = None /\ (Looking \/ text \in gaveUp)
\* The sign of waiting never outlives what is waited for.
NotBusyForNothing == busy # "off" /\ ~timer => Looking
\* What is highlighted, and so chosen by Enter, is what the person highlighted.
MarkStays == list.active # 0 => list.results[list.active] = mark
===============================================================================
