------------------------------ MODULE MCNumbers ------------------------------
(* A small instance of Numbers for TLC: accounts, numbers and threads are     *)
(* interchangeable.                                                           *)
EXTENDS Numbers, TLC

\* Bound: accounts with a browser signed in at the same time.
FewOpen == Cardinality(open) <= 1

Same == Permutations(Accounts) \cup Permutations(Mobiles) \cup Permutations(Workers)
==============================================================================
