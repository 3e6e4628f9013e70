------------------------------ MODULE Candidates ------------------------------
(***************************************************************************)
(* What people said that the standard does not know (IkikuSpecCandidate in    *)
(* ikiku_base/models/spec.py): kept as they said it, counted, queued once three *)
(* said it, and promoted to the standard or rejected.                         *)
(*                                                                         *)
(* A request reads a snapshot and decides; it is refused when somebody wrote    *)
(* the row it writes meanwhile.  Nothing keeps two rows of one text apart.      *)
(* A text is what is left of it once blanks are stripped and case is folded.    *)
(***************************************************************************)
EXTENDS Integers, Sequences, FiniteSets, SequencesExt

CONSTANTS
    None,
    Texts,              \* what people write
    Requests,           \* requests served side by side
    MaxSaid,            \* bound: how often something is said
    MaxHandled          \* bound: how often staff change a row

VARIABLES
    candidate,          \* the rows, by id: [text, occurrence, state, node]
    hearing,            \* each request's row between its snapshot and its commit, or None
    said,               \* history: how often each text was kept
    handled,            \* history: how often staff changed a row
    reopened,           \* history: rows staff set back to new since they were last said
    apart               \* history: texts two first said at once, or staff opened again

PROMOTION_THRESHOLD == 3
States == {"new", "queued", "promoted", "rejected"}

Candidate(text) == [text |-> text, occurrence |-> 1, state |-> "new", node |-> FALSE]
Idle(r) == hearing[r] = None
Open(text) == {i \in DOMAIN candidate : /\ candidate[i].text = text
                                        /\ candidate[i].state \in {"new", "queued"}}
\* The row `search' answers: the one most said, of those the latest.
Existing(text) ==
    CHOOSE i \in Open(text) : \A j \in Open(text) \ {i} :
        \/ candidate[j].occurrence < candidate[i].occurrence
        \/ candidate[j].occurrence = candidate[i].occurrence /\ j < i

Begin(r, on, row, staff) ==
    /\ Idle(r)
    /\ hearing' = [hearing EXCEPT ![r] = [on |-> on, row |-> row, staff |-> staff, clean |-> TRUE]]
    /\ UNCHANGED <<candidate, said, handled, reopened, apart>>

\* mutant: one more than the threshold
SaidAgainLate(row) ==
    [row EXCEPT !.occurrence = @ + 1,
                !.state = IF row.occurrence + 1 > PROMOTION_THRESHOLD /\ @ = "new"
                          THEN "queued" ELSE @]
\* One more said it; the third one queues it.
SaidAgain(row) ==
    [row EXCEPT !.occurrence = @ + 1,
                !.state = IF row.occurrence + 1 >= PROMOTION_THRESHOLD /\ @ = "new"
                          THEN "queued" ELSE @]
\* record, from a worker's or a café's page and from `steer': a row of its own, or one more of it.
Record(r, text) ==
    IF Open(text) = {} THEN Begin(r, Len(candidate) + 1, Candidate(text), FALSE)
    ELSE Begin(r, Existing(text), SaidAgain(candidate[Existing(text)]), FALSE)

\* action_promote: once, because the node bears the candidate's number.
Promote(r, i) ==
    /\ candidate[i].state # "promoted" /\ ~candidate[i].node
    /\ Begin(r, i, [candidate[i] EXCEPT !.state = "promoted", !.node = TRUE], TRUE)
\* The back office's form: the state as staff choose it.
Sets(r, i, state) ==
    /\ candidate[i].state # state
    /\ Begin(r, i, [candidate[i] EXCEPT !.state = state], TRUE)

Creates(req) == ~req.staff /\ req.row.occurrence = 1
\* The rows once a request has written its own.
Written(req) ==
    IF Creates(req) THEN Append(candidate, req.row) ELSE [candidate EXCEPT ![req.on] = req.row]
Commit(r) ==
    LET req == hearing[r]
        id == IF Creates(req) THEN Len(candidate) + 1 ELSE req.on
        opens == req.row.state \in {"new", "queued"}
    IN /\ ~Idle(r) /\ req.clean
       /\ candidate' = Written(req)
       /\ hearing' = [u \in Requests |->
                         IF u = r \/ Idle(u) THEN None
                         ELSE IF ~Creates(req) /\ ~Creates(hearing[u]) /\ hearing[u].on = req.on
                         THEN [hearing[u] EXCEPT !.clean = FALSE]
                         ELSE hearing[u]]
       /\ said' = IF req.staff THEN said ELSE [said EXCEPT ![req.row.text] = @ + 1]
       /\ handled' = IF req.staff THEN handled + 1 ELSE handled
       /\ reopened' = IF req.staff /\ req.row.state = "new" THEN reopened \cup {id}
                      ELSE reopened \ {id}
       /\ apart' = IF opens /\ Open(req.row.text) \ {id} # {} THEN apart \cup {req.row.text}
                   ELSE apart
\* The request is refused, or its server stops: it writes nothing.
Ends(r) ==
    /\ ~Idle(r)
    /\ hearing' = [hearing EXCEPT ![r] = None]
    /\ UNCHANGED <<candidate, said, handled, reopened, apart>>

Init ==
    /\ candidate = <<>>
    /\ hearing = [r \in Requests |-> None]
    /\ said = [text \in Texts |-> 0]
    /\ handled = 0 /\ reopened = {} /\ apart = {}

Total == FoldSet(LAMBDA t, sum : sum + said[t], 0, Texts)
Next ==
    \E r \in Requests :
        \/ Total < MaxSaid /\ \E text \in Texts : Record(r, text)
        \/ handled < MaxHandled /\ \E i \in DOMAIN candidate :
              Promote(r, i) \/ \E state \in States : Sets(r, i, state)
        \/ Commit(r)
        \/ Ends(r)

-----------------------------------------------------------------------------
\* The rows, the counts and the histories have their shape.
TypeOK ==
    /\ candidate \in Seq([text : Texts, occurrence : Nat \ {0}, state : States, node : BOOLEAN])
    /\ said \in [Texts -> Nat] /\ handled \in Nat
    /\ reopened \subseteq DOMAIN candidate /\ apart \subseteq Texts

\* Never drop the remainder (record): everything said counts once, in one row or in several,
\* whoever says it at the same moment and whatever staff do to the rows meanwhile.
EveryWordCounts ==
    \A text \in Texts :
        said[text] = SumFunction([i \in DOMAIN candidate |->
                                     IF candidate[i].text = text THEN candidate[i].occurrence ELSE 0])
\* What three said is not left among the new, unless staff put it back there.
ThreeQueue ==
    \A i \in DOMAIN candidate \ reopened :
        candidate[i].state = "new" => candidate[i].occurrence < PROMOTION_THRESHOLD
\* One text is one open row, unless two said it first at once or staff opened one again.
OneRowEach == \A text \in Texts \ apart : Cardinality(Open(text)) <= 1
===============================================================================
