---------------------------- MODULE MCChallenge ----------------------------
(* Small instances of Challenge for TLC.  Times are in ticks: a tick is the *)
(* pause after which a code may be asked for again.                         *)
EXTENDS Challenge, TLC

\* Browsers are interchangeable, and so are numbers and requests.
Same == Permutations(Sessions) \cup Permutations(Partners) \cup Permutations(Mobiles) \cup Permutations(Requests)
============================================================================
