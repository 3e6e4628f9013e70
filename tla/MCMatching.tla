------------------------------ MODULE MCMatching ------------------------------
(* A small instance of Matching for TLC: needs, workers, terms and desks are   *)
(* interchangeable.                                                            *)
EXTENDS Matching, TLC

Same == Permutations(Demands) \cup Permutations(Workers)
            \cup Permutations(Terms) \cup Permutations(Desks)
===============================================================================
