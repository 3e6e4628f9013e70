------------------------------ MODULE Ownership ------------------------------
(***************************************************************************)
(* What sign-in by SMS promises about mobile numbers: a number an account  *)
(* has proven stays its own until that account proves another one, or      *)
(* staff take the number off it.  It never passes from one account         *)
(* straight to another.                                                    *)
(***************************************************************************)
CONSTANTS Accounts, Mobiles, None

VARIABLE owner          \* who has proven each number

\* An account proves a number that is nobody's or its own; it has one number at a time.
Prove(a, m) ==
    /\ owner[m] \in {None, a}
    /\ owner' = [x \in Mobiles |-> IF x = m THEN a ELSE IF owner[x] = a THEN None ELSE owner[x]]

\* Staff change an account's number: the new one is not proven yet.
LetGo(a) == owner' = [x \in Mobiles |-> IF owner[x] = a THEN None ELSE owner[x]]

Init == owner = [m \in Mobiles |-> None]

Next == \E a \in Accounts : LetGo(a) \/ \E m \in Mobiles : Prove(a, m)

Spec == Init /\ [][Next]_owner
=============================================================================
