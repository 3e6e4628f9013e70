-------------------------------- MODULE Search --------------------------------
(***************************************************************************)
(* Finding a place by what somebody types: the ranking search_suggest        *)
(* publishes (tools/text.py), what narrows it (models/suggest_mixin.py), and *)
(* the two doors built on it - Odoo's (place.py) and the responder's         *)
(* (text.go, index.go).                                                      *)
(*                                                                         *)
(* A text is a sequence of words as `spaced' leaves them, a word a sequence  *)
(* of letters.  Weights and match values are hundredths, a score the         *)
(* fraction <<n, d>> of their product; rounded, it is in ten thousandths.    *)
(* No search here reaches CANDIDATE_LIMIT or SHORTLIST rows.                 *)
(***************************************************************************)
EXTENDS PlaceRules, FiniteSets, FiniteSetsExt

CONSTANTS
    Latin,              \* the letters English plurals are made of
    Small               \* whether the table is read whole in the end (SCAN_LIMIT)

PLURAL_FA == <<<<"he", "alef", "ye">>, <<"he", "alef">>>>
MATCH_KINDS == [exact |-> 100, phrase |-> 85, words |-> 75, compact |-> 60, partial |-> 45,
                typo |-> 35]
TYPO_THRESHOLD == 45
WITHIN_BOOST == 135
PREFIX == 3
WHOLE_WORD_MIN == 3

Fraction(n, d) == <<n, d>>
Greater(f, g) == f[1] * g[2] > g[1] * f[2]
Larger(f, g) == IF Greater(g, f) THEN g ELSE f
Rounded(f, factor) == (2 * f[1] * factor + 100 * f[2]) \div (200 * f[2])

-----------------------------------------------------------------------------
(* tools/text.py, text.go.                                                   *)
Inside(s, t) == \E i \in 0..(Len(t) - Len(s)) : SubSeq(t, i + 1, i + Len(s)) = s
Without(w, n) == SubSeq(w, 1, Len(w) - n)
Compact(t) == FlattenSeq(t)

\* A light plural fold, for words long enough to keep their meaning.
Stem(w) ==
    LET plural(s) == IsSuffix(s, w) /\ Len(w) - Len(s) >= 3
        at == SelectInSeq(PLURAL_FA, plural)
    IN IF at # 0 THEN Without(w, Len(PLURAL_FA[at]))
       ELSE IF ToSet(w) \subseteq Latin /\ Len(w) > 4 /\ Last(w) = "s" THEN Without(w, 1)
       ELSE w
Words(t) == [i \in DOMAIN t |-> Stem(t[i])]

Threes(w) == {SubSeq(w, i, i + 2) : i \in 1..(Len(w) - 2)}
Trigrams(w) == Threes(<<" ", " ">> \o w \o <<" ">>)
Similarity(a, b) ==
    Fraction(Cardinality(Trigrams(a) \cap Trigrams(b)), Cardinality(Trigrams(a) \cup Trigrams(b)))
Close(f) == 100 * f[1] >= TYPO_THRESHOLD * f[2]

\* The query as written, from the start of a word of the text.
Phrase(q, t) ==
    \E i \in 0..(Len(t) - Len(q)) :
        /\ \A j \in 1..(Len(q) - 1) : t[i + j] = q[j]
        /\ IsPrefix(Last(q), t[i + Len(q)])
Starts(w, t) == \E i \in DOMAIN t : IsPrefix(w, Words(t)[i])

\* How close in spelling: a word of each, or the two without their spaces.
Closeness(q, t) ==
    LET cq == Compact(q)
        ct == Compact(t)
        pairs == {<<Words(q)[i], Words(t)[j]>> : i \in DOMAIN q, j \in DOMAIN t}
        close == {Similarity(p[1], p[2]) : p \in {w \in pairs : Len(w[1]) >= 3}}
        whole == IF Len(cq) >= 4 /\ Len(ct) <= 2 * Len(cq) THEN {Similarity(cq, ct)} ELSE {}
    IN FoldSet(Larger, Fraction(0, 1), close \cup whole)

NoMatch == [kind |-> None, value |-> Fraction(0, 1)]
\* match: the best way a text answers a query.
Match(q, t) ==
    LET as(kind, f) == [kind |-> kind, value |-> Fraction(MATCH_KINDS[kind] * f[1], f[2])]
        starts == Cardinality({i \in DOMAIN q : Starts(Words(q)[i], t)})
        spelt(f) == IF Close(f) THEN as("typo", f) ELSE NoMatch
    IN CASE q = t -> as("exact", Fraction(1, 1))
         [] q # t /\ Phrase(q, t) -> as("phrase", Fraction(1, 1))
         [] OTHER ->
            IF starts = Len(q) THEN as("words", Fraction(1, 1))
            ELSE IF Len(Compact(q)) >= 3 /\ Inside(Compact(q), Compact(t))
            THEN as("compact", Fraction(1, 1))
            ELSE IF starts > 0 THEN as("partial", Fraction(starts, Len(q)))
            ELSE spelt(Closeness(q, t))

\* A document's score: the best of its texts, each <<field, weight, text>>.
Score(q, texts) ==
    LET weighed(weight, f) == Fraction(weight * f[1], f[2])
    IN FoldLeft(LAMBDA best, t : Larger(best, weighed(t[2], Match(q, t[3]).value)),
                Fraction(0, 1), texts)

-----------------------------------------------------------------------------
(* suggest: from what is called this, out to what contains these letters.    *)
\* mutant: without the words run together
IndexApart(texts) == UNION {ToSet(t[3]) : t \in ToSet(texts)}
IndexWords(texts) == UNION {ToSet(t[3]) \cup {Compact(t[3])} : t \in ToSet(texts)}
Pieces(q) == ToSet(Words(q)) \cup {Compact(q)}

Asks(how, piece, index) ==
    CASE how = "whole" -> piece \in index
      [] how = "start" -> \E w \in index : IsPrefix(piece, w)
      [] how = "anywhere" -> \E w \in index : Inside(piece, w)
Attempt(all, pieces, how) == [all |-> all, pieces |-> pieces, how |-> how]
Answers(attempt, index) ==
    IF attempt.all THEN \A p \in attempt.pieces : Asks(attempt.how, p, index)
    ELSE \E p \in attempt.pieces : Asks(attempt.how, p, index)

Attempts(q) ==
    LET words == ToSet(Words(q))
        long == {SubSeq(w, 1, PREFIX) : w \in {v \in words : Len(v) > PREFIX}}
        when(condition, attempt) == IF condition THEN <<attempt>> ELSE <<>>
        named == Len(Compact(q)) >= WHOLE_WORD_MIN
    IN when(named /\ Len(q) > 1, Attempt(TRUE, words, "whole"))
       \o when(named, Attempt(FALSE, Pieces(q), "whole"))
       \o when(Len(q) > 1, Attempt(TRUE, words, "start"))
       \o <<Attempt(FALSE, Pieces(q), "start")>>
       \o when(long # {}, Attempt(FALSE, long, "start"))
       \o <<Attempt(FALSE, Pieces(q), "anywhere")>>
\* What a page shows while the full answer is still coming (widen = False).
Quick(q) ==
    Attempt(FALSE, Pieces(q), IF Len(Compact(q)) >= WHOLE_WORD_MIN THEN "whole" ELSE "start")

\* The elements of a set in the order `Before' puts them in.
InOrder(S, Before(_, _)) ==
    [i \in 1..Cardinality(S) |->
        CHOOSE a \in S : Cardinality({b \in S : Before(b, a)}) = i - 1]
First(s, limit) == IF Len(s) > limit THEN SubSeq(s, 1, limit) ELSE s

\* rank, over documents [id, sequence, texts], boosted by `factor'; equal scores keep the published
\* order.
Before(d, e) == d.sequence < e.sequence \/ (d.sequence = e.sequence /\ d.id < e.id)
Rank(q, docs, limit, factor) ==
    LET scored == {<<Score(q, d.texts), d>> : d \in docs}
        found == {<<Rounded(r[1], factor[r[2].id]), r[2]>> : r \in {s \in scored : s[1][1] > 0}}
        ahead(r, s) == r[1] > s[1] \/ (r[1] = s[1] /\ Before(r[2], s[2]))
    IN First(InOrder(found, ahead), limit)

EnoughAny(results, limit) == results # <<>> \* mutant: any answer ends the search
Enough(results, limit) == Len(results) >= limit
\* A wider attempt is only asked when the tighter ones came back with less than was wanted.
Step(q, docs, limit, factor, out, attempt) ==
    LET all == out.seen \cup {d \in docs : Answers(attempt, IndexWords(d.texts))}
    IN IF Enough(out.results, limit) \/ all = out.seen THEN out
       ELSE [seen |-> all, results |-> Rank(q, all, limit, factor)]
\* A table read whole after all: when it is small and the last attempt brought too little.
Whole(q, docs, limit, factor, last) ==
    IF Small /\ ~Enough(last.results, limit) /\ docs # last.seen
    THEN Rank(q, docs, limit, factor) ELSE last.results
Suggest(q, docs, limit, factor) ==
    Whole(q, docs, limit, factor,
          FoldLeft(LAMBDA out, attempt : Step(q, docs, limit, factor, out, attempt),
                   [seen |-> {}, results |-> <<>>], Attempts(q)))
QuickSuggest(q, docs, limit, factor) ==
    Rank(q, {d \in docs : Answers(Quick(q), IndexWords(d.texts))}, limit, factor)

-----------------------------------------------------------------------------
(* The two doors.  A tree is id -> [kind, name, parent, sequence, active].   *)
Above(tree, id) == Chain(id, [i \in {j \in DOMAIN tree : tree[j].parent # None} |-> tree[i].parent])
AboveRows(tree, id) == [i \in DOMAIN Above(tree, id) |-> tree[Above(tree, id)[i]]]
Doc(tree, id) ==
    LET names == [i \in DOMAIN Above(tree, id) |-> tree[Above(tree, id)[i]].name]
    IN [id |-> id, sequence |-> tree[id].sequence,
        texts |-> SelectSeq(SuggestTexts(<<tree[id].name>>, None, None, <<>>, names, <<>>),
                            LAMBDA t : t[1] # "code")]
Docs(tree) == {Doc(tree, id) : id \in {i \in DOMAIN tree : tree[i].active}}
\* The place a match answers as, None when it does not answer on this form.
Target(tree, id, allowed) ==
    LET step == Climb(tree[id].kind, AboveRows(tree, id), allowed)
    IN IF step = None THEN None ELSE IF step = 0 THEN id ELSE Above(tree, id)[step]
Under(tree, id, within) == within # None /\ (id = within \/ within \in ToSet(Above(tree, id)))

City(tree, id) == CitySequence(tree[id].kind, tree[id].sequence, AboveRows(tree, id))
\* The published order of equal scores: an answer is [id, score, via].
Ahead(tree, a, b) ==
    LET key(r) == <<-r.score, IF r.via = None THEN 0 ELSE 1, tree[r.id].sequence,
                    City(tree, r.id), r.id>>
        ka == key(a)
        kb == key(b)
    IN \E i \in DOMAIN ka : ka[i] < kb[i] /\ \A j \in 1..(i - 1) : ka[j] = kb[j]
Answer(tree, id, matched, score) ==
    [id |-> id, score |-> score, via |-> IF id = matched THEN None ELSE matched]

\* The row a match becomes: the place `to' it answers as, with its score.
Lift(tree, id, allowed, score) == [id |-> id, to |-> Target(tree, id, allowed), score |-> score]
Listed(tree, answers, limit) == First(InOrder(answers, LAMBDA a, b : Ahead(tree, a, b)), limit)

\* place.suggest_places: boosted as what matched, then lifted to what the form offers.
Lifted(tree, rows, limit) ==
    LET own(r) == r.to = r.id
        better(i, j) ==
            \/ rows[i].score > rows[j].score
            \/ rows[i].score = rows[j].score /\ own(rows[i]) /\ ~own(rows[j])
        best(i) == \A j \in DOMAIN rows : rows[j].to = rows[i].to =>
                      ~better(j, i) /\ (better(i, j) \/ i <= j)
    IN Listed(tree, {Answer(tree, rows[i].to, rows[i].id, rows[i].score) :
                        i \in {k \in DOMAIN rows : best(k)}}, limit)
SuggestPlaces(q, tree, allowed, within, limit) ==
    LET factor == [id \in DOMAIN tree |-> IF Under(tree, id, within) THEN WITHIN_BOOST ELSE 100]
        wanted == IF allowed = {} THEN limit ELSE Max({limit * 4, 40})
        lift(r) == Lift(tree, r[2].id, allowed, r[1])
        rows(found) == SelectSeq([i \in DOMAIN found |-> lift(found[i])], LAMBDA r : r.to # None)
    IN Lifted(tree, rows(Suggest(q, Docs(tree), wanted, factor)), limit)

\* Index.Search: every active place, lifted, then boosted as what it answers as.
Best(tree, hits, within, limit) ==
    LET factor(r) == IF Under(tree, r.to, within) THEN WITHIN_BOOST ELSE 100
        better(r, s) ==
            \/ Greater(r.score, s.score)
            \/ /\ ~Greater(s.score, r.score) /\ s.to # s.id
               /\ r.to = r.id \/ r.id < s.id
        best == {r \in hits : \A s \in hits \ {r} : s.to = r.to => better(r, s)}
    IN Listed(tree, {Answer(tree, r.to, r.id, Rounded(r.score, factor(r))) : r \in best}, limit)
SearchPlaces(q, tree, allowed, within, limit) ==
    LET rows == {Lift(tree, d.id, allowed, Score(q, d.texts)) : d \in Docs(tree)}
    IN Best(tree, {r \in rows : r.score[1] > 0 /\ r.to # None}, within, limit)

\* candidates: the texts that can answer the query at all, of those in the index.
Candidates(q, texts) ==
    LET vocab(t) == ToSet(t) \cup ToSet(Words(t))
        stems == UNION {ToSet(Words(t)) : t \in texts}
        starts(t) == \E p \in {q[1]} \cup ToSet(Words(q)), w \in vocab(t) : IsPrefix(p, w)
        compact(t) == Len(Compact(q)) >= 3 /\ Threes(Compact(q)) \subseteq Threes(Compact(t))
        spelt(t) == \E w \in ToSet(Words(q)), v \in vocab(t) \cap stems :
                        Len(w) >= 3 /\ Close(Similarity(w, v))
        whole(t) == /\ Len(Compact(q)) >= 4
                    /\ Len(Compact(t)) <= 2 * Len(Compact(q))
                    /\ Close(Similarity(Compact(q), Compact(t)))
    IN {t \in texts : starts(t) \/ compact(t) \/ spelt(t) \/ whole(t)}

-----------------------------------------------------------------------------
\* "A superset of those match() accepts, never a subset": the responder's three tables - word
\* starts, trigrams inside, close words - miss no text the ranking would have found.
CandidatesCover(q, texts) ==
    {t \in texts : Match(q, t).kind # None} \subseteq Candidates(q, texts)

\* Whatever matches by more than its spelling is found by some attempt, with nothing read whole:
\* "nothing findable is lost" by asking for the starts of words, though both the query's and the
\* text's words are cut to their stems before they are compared and the index keeps neither.
AttemptsFind(q, t) ==
    Match(q, t).kind \notin {None, "typo"} =>
        \E a \in ToSet(Attempts(q)) : Answers(a, IndexWords(<<<<"name", 100, t>>>>))

\* Both doors give the same places with the same scores in the same order, for a list long
\* enough to hold them - unless a place inside the one the asker is in answers as one outside
\* it, which Odoo lifts and the responder does not.
Leaves(tree, allowed, within) ==
    \E id \in DOMAIN tree :
        LET to == Target(tree, id, allowed)
        IN to # None /\ Under(tree, id, within) /\ ~Under(tree, to, within)
SameAnswers(q, tree, allowed, within) ==
    LET plain(s) == [i \in DOMAIN s |-> <<s[i].id, s[i].score, s[i].via = None>>]
        n == Cardinality(DOMAIN tree)
    IN Leaves(tree, allowed, within)
       \/ plain(SuggestPlaces(q, tree, allowed, within, n))
             = plain(SearchPlaces(q, tree, allowed, within, n))

\* The quick answer is no other answer: "the wide answer only adds records the tight one could
\* not see", with the same scores.
QuickIsTrue(q, tree) ==
    LET n == Cardinality(DOMAIN tree)
        one == [id \in DOMAIN tree |-> 100]
    IN ToSet(QuickSuggest(q, Docs(tree), n, one)) \subseteq ToSet(Suggest(q, Docs(tree), n, one))
===============================================================================
