--------------------------------- MODULE Ledger ---------------------------------
(***************************************************************************)
(* The verification ledger (ikiku_base/models/ledger.py) and the standing     *)
(* read from it (partner.py).  There is one assertion about each subject, and  *)
(* the others vote on it; a vote weighs what its speaker's standing was when   *)
(* it was written, and the standing is what the assertions say by then.        *)
(*                                                                         *)
(* Weights and standings are hundredths.  Two votes on one assertion both      *)
(* write its row, so a transaction is one step.                                *)
(***************************************************************************)
EXTENDS Integers, FiniteSets, FiniteSetsExt

CONSTANTS
    None,
    People,
    Claims,             \* who is spoken of -> [by, method]: by whom and from what
    Methods,            \* the methods staff may write over that
    MaxChanges          \* bound: corrections by staff, and identities they check

METHOD_BASE == [self |-> 0, coworker |-> 100, employer |-> 150, academy |-> 200,
                platform |-> 100, document |-> 100]
Verdicts == {"confirm", "dispute", "cannot_say"}
States == {"claimed", "supported", "contested", "withdrawn"}
STANDING_VERIFIED == 100
STANDING_PER_SUPPORTED == 25
STANDING_MAX == 500

VARIABLES
    assertion,          \* person -> [by, method, state, strength, confirms, disputes]
    vote,               \* person -> [the others -> None or [verdict, standing]]
    verified,           \* the people whose identity staff checked
    corrected,          \* the people whose assertion staff rewrote: method, state or a verdict
    changes

vars == <<assertion, vote, verified, corrected, changes>>

Subjects == DOMAIN Claims
Others(p) == People \ {p}
TypeOK ==
    /\ \A p \in Subjects : /\ assertion[p].method \in DOMAIN METHOD_BASE /\ assertion[p].state \in States
                           /\ assertion[p].by \in People
                           /\ vote[p] \in [Others(p) -> {None} \cup [verdict : Verdicts,
                                                                    standing : 0..STANDING_MAX]]
    /\ verified \subseteq People /\ corrected \subseteq Subjects /\ changes \in 0..MaxChanges

\* _compute_ikiku_standing: bounded, from what others confirmed.
Standing(p) ==
    LET checked == IF p \in verified THEN STANDING_VERIFIED ELSE 0
        supported == {q \in Subjects \cap {p} : assertion[q].state = "supported"}
    IN Min({STANDING_MAX, checked + STANDING_PER_SUPPORTED * Cardinality(supported)})
\* mutant: what the speaker is worth today
WeightNow(v, speaker) == IF v.verdict = "cannot_say" THEN 0 ELSE Max({Standing(speaker), 0})
Weight(v, speaker) == IF v.verdict = "cannot_say" THEN 0 ELSE Max({v.standing, 0})

Voters(votes, verdict) == {v \in DOMAIN votes : votes[v] # None /\ votes[v].verdict = verdict}
Total(votes, verdict) == MapThenSumSet(LAMBDA v : Weight(votes[v], v), Voters(votes, verdict))

\* _compute_strength, on the votes as they are now; what is withdrawn stays so, and what is left
\* without votes that say anything stays what it was.
Computed(a, votes) ==
    [by |-> a.by, method |-> a.method,
     confirms |-> Cardinality(Voters(votes, "confirm")),
     disputes |-> Cardinality(Voters(votes, "dispute")),
     strength |-> METHOD_BASE[a.method] + Total(votes, "confirm") - Total(votes, "dispute"),
     state |-> IF a.state = "withdrawn" THEN a.state
               ELSE IF Voters(votes, "dispute") # {} THEN "contested"
               ELSE IF Voters(votes, "confirm") # {} THEN "supported" ELSE a.state]
SetVotes(p, votes) ==
    /\ vote' = [vote EXCEPT ![p] = votes]
    /\ assertion' = [assertion EXCEPT ![p] = Computed(assertion[p], votes)]

\* _check_self_claim_honest
Honest(p, by, method) == by = p => method = "self"

-----------------------------------------------------------------------------
Init ==
    /\ vote = [p \in Subjects |-> [v \in Others(p) |-> None]]
    /\ assertion = [p \in Subjects |->
           Computed([by |-> Claims[p].by, method |-> Claims[p].method, state |-> "claimed",
                     strength |-> 0, confirms |-> 0, disputes |-> 0], vote[p])]
    /\ verified = {} /\ corrected = {} /\ changes = 0

\* create of a verification: one for each speaker, never about oneself, with the standing of now.
Votes(v, p, verdict) ==
    /\ v \in Others(p) /\ vote[p][v] = None
    /\ SetVotes(p, [vote[p] EXCEPT ![v] = [verdict |-> verdict, standing |-> Standing(v)]])
    /\ UNCHANGED <<verified, corrected, changes>>

Changes == changes < MaxChanges /\ changes' = changes + 1
\* Staff check an identity, or take that back.
Verify(p) ==
    /\ Changes
    /\ verified' = IF p \in verified THEN verified \ {p} ELSE verified \cup {p}
    /\ UNCHANGED <<assertion, vote, corrected>>
\* Staff correct what a speaker said: the weight is still of the day they spoke.
Correct(v, p, verdict) ==
    /\ Changes /\ v \in Others(p) /\ vote[p][v] # None /\ vote[p][v].verdict # verdict
    /\ SetVotes(p, [vote[p] EXCEPT ![v].verdict = verdict])
    /\ corrected' = corrected \cup {p}
    /\ UNCHANGED verified
\* Staff write the method or the state of an assertion: neither counts the votes again.
Rewrite(p, method, state) ==
    /\ Changes /\ Honest(p, assertion[p].by, method)
    /\ assertion' = [assertion EXCEPT ![p] = [@ EXCEPT !.method = method, !.state = state]]
    /\ corrected' = corrected \cup {p}
    /\ UNCHANGED <<vote, verified>>

Next ==
    \/ \E p \in People : Verify(p)
    \/ \E p \in Subjects, m \in Methods, s \in States : Rewrite(p, m, s)
    \/ \E p \in Subjects, v \in People, verdict \in Verdicts : Votes(v, p, verdict) \/ Correct(v, p, verdict)

-----------------------------------------------------------------------------
\* Every vote counts once, for what it says today with the weight of the day it was said: the
\* numbers a page shows are those of the votes below them, whoever's standing has changed since -
\* and so is the state, unless staff wrote over it.
Counted ==
    \A p \in Subjects :
        LET a == assertion[p]
            now == Computed(a, vote[p])
        IN /\ <<a.confirms, a.disputes>> = <<now.confirms, now.disputes>>
           /\ p \notin corrected => a = now
           /\ \E m \in Methods \cup {Claims[p].method} :
                 a.strength = Computed([a EXCEPT !.method = m], vote[p]).strength

\* A correction changes what is said and not what it weighs, and no other vote at all.
Frozen ==
    [][\A p \in Subjects : \A v \in Others(p) :
        vote[p][v] # None => vote'[p][v] # None /\ vote'[p][v].standing = vote[p][v].standing]_vars

\* Nobody's standing comes from their own word: above what staff checked, somebody else confirmed
\* it - unless staff wrote over the assertion.
StandsOnOthers ==
    \A p \in Subjects :
        Standing(p) > (IF p \in verified THEN STANDING_VERIFIED ELSE 0) /\ p \notin corrected =>
            /\ Voters(vote[p], "confirm") # {}
            /\ Voters(vote[p], "dispute") = {}
===============================================================================
