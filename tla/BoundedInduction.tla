--------------------------- MODULE BoundedInduction ---------------------------
(***************************************************************************)
(* Numbers up to a bound: a set of them that is not empty has a greatest     *)
(* and a least element (`the newest challenge', `the next row of the job's   *)
(* list'), what holds of 0 and of the next holds of all, and a recursive     *)
(* function on them exists.  The library's own induction theorems take an    *)
(* operator as a parameter, which no prover here can instantiate: these take *)
(* sets and functions, and rest on counting.                                 *)
(***************************************************************************)
EXTENDS Integers, FiniteSets, FiniteSetTheorems, TLAPS

\* The numbers of 1..n that some member of S reaches are 1..c for the c they count; c is
\* reached by c itself and by nothing above it.
LEMMA GreatestBelow ==
    ASSUME NEW n \in Nat, NEW S, S \subseteq 1..n, S # {}
    PROVE  \E m \in S : \A y \in S : y <= m
<1> DEFINE T == {k \in 1..n : \E x \in S : k <= x}
<1> DEFINE c == Cardinality(T)
<1>1. IsFiniteSet(T) /\ c \in Nat
  <2>1. IsFiniteSet(1..n) /\ T \in SUBSET (1..n)
    BY FS_Interval
  <2>2. IsFiniteSet(T)
    BY <2>1, FS_Subset
  <2> QED
    BY <2>2, FS_CardinalityType
<1>2. \A k \in T : 1..k \subseteq T
  OBVIOUS
<1>3. \A k \in T : k <= c
  <2> SUFFICES ASSUME NEW k \in T PROVE k <= c
    OBVIOUS
  <2>1. k \in 1..n /\ 1..k \in SUBSET T
    BY <1>2
  <2>2. Cardinality(1..k) = k
    BY <2>1, FS_Interval
  <2>3. Cardinality(1..k) <= Cardinality(T)
    BY <2>1, <1>1, FS_Subset
  <2> QED
    BY <2>2, <2>3
<1>4. T = 1..c
  <2>1. T \in SUBSET (1..c)
    BY <1>1, <1>3
  <2>2. IsFiniteSet(1..c) /\ Cardinality(1..c) = c
    BY <1>1, FS_Interval
  <2> QED
    BY <2>1, <2>2, FS_Subset
<1>5. S \subseteq T
  OBVIOUS
<1>6. c \in T
  <2>1. T # {}
    BY <1>5
  <2>2. 1 <= c
    BY <1>1, <1>4, <2>1
  <2> HIDE DEF c, T
  <2> QED
    BY <1>1, <1>4, <2>2
<1>7. PICK x \in S : c <= x
  BY <1>6
<1>8. \A y \in S : y <= c
  BY <1>3, <1>5
<1>9. x = c
  <2>1. x \in Int
    OBVIOUS
  <2> HIDE DEF c, T
  <2> QED
    BY <1>1, <1>7, <1>8, <2>1
<1> QED
  BY <1>7, <1>8, <1>9

\* The same from the other end.
LEMMA LeastFrom ==
    ASSUME NEW n \in Nat, NEW S, S \subseteq 1..n, S # {}
    PROVE  \E m \in S : \A y \in S : m <= y
<1> DEFINE M == {n + 1 - x : x \in S}
<1>1. M \subseteq 1..n /\ M # {}
  <2>1. PICK x \in S : TRUE
    OBVIOUS
  <2>2. n + 1 - x \in M
    OBVIOUS
  <2>3. \A m \in M : m \in 1..n
    OBVIOUS
  <2> QED
    BY <2>2, <2>3
<1>2. PICK m \in M : \A y \in M : y <= m
  BY <1>1, GreatestBelow
<1>3. PICK x \in S : m = n + 1 - x
  OBVIOUS
<1>4. \A y \in S : n + 1 - y <= n + 1 - x
  BY <1>2, <1>3
<1>5. \A y \in S : y \in Int /\ x \in Int
  OBVIOUS
<1> QED
  BY <1>4, <1>5

\* What holds of 0, and of each number when it holds of the one before, holds up to n.
LEMMA Induction ==
    ASSUME NEW n \in Nat, NEW P, 0 \in P, \A k \in 1..n : k - 1 \in P => k \in P
    PROVE  \A k \in 0..n : k \in P
<1> DEFINE B == {k \in 1..n : k \notin P}
<1>1. CASE B = {}
  BY <1>1
<1>2. CASE B # {}
  <2>1. B \subseteq 1..n
    OBVIOUS
  <2> HIDE DEF B
  <2>2. PICK m \in B : \A y \in B : m <= y
    BY <1>2, <2>1, LeastFrom
  <2>3. m \in 1..n /\ m \notin P
    BY DEF B
  <2>4. m - 1 \notin P
    BY <2>3
  <2>5. m - 1 \in B
    BY <2>3, <2>4 DEF B
  <2> QED
    BY <2>2, <2>3, <2>5
<1> QED
  BY <1>1, <1>2

\* f[0] is `a' and each further value is what `g' makes of the one before.
Follows(f, n, a, g) ==
    /\ DOMAIN f = 0..n
    /\ f[0] = a
    /\ \A k \in 1..n : f[k] = g[<<f[k - 1], k>>]

\* There is such a function, with values among those `g' works on.
LEMMA Recursion ==
    ASSUME NEW n \in Nat, NEW S, NEW a \in S, NEW g \in [S \X (1..n) -> S]
    PROVE  \E f \in [0..n -> S] : Follows(f, n, a, g)
<1> DEFINE P == {k \in 0..n : \E f \in [0..k -> S] : Follows(f, k, a, g)}
<1>1. 0 \in P
  <2> DEFINE f == [x \in 0..0 |-> a]
  <2>1. f \in [0..0 -> S] /\ DOMAIN f = 0..0 /\ f[0] = a
    OBVIOUS
  <2>2. 1..0 = {}
    OBVIOUS
  <2>3. Follows(f, 0, a, g)
    BY <2>1, <2>2 DEF Follows
  <2> QED
    BY <2>1, <2>3
<1>2. ASSUME NEW k \in 1..n, k - 1 \in P
      PROVE  k \in P
  <2>1. PICK f \in [0..(k - 1) -> S] : Follows(f, k - 1, a, g)
    BY <1>2
  <2> DEFINE next == g[<<f[k - 1], k>>]
             h == [x \in 0..k |-> IF x = k THEN next ELSE f[x]]
  <2>2. next \in S
    OBVIOUS
  <2>3. \A x \in 0..k : x # k => x \in 0..(k - 1)
    OBVIOUS
  <2> HIDE DEF next
  <2>4. h \in [0..k -> S]
    BY <2>2, <2>3
  <2>5. /\ DOMAIN h = 0..k /\ h[k] = next
        /\ \A x \in 0..(k - 1) : h[x] = f[x]
    OBVIOUS
  <2>6. h[0] = a
    BY <2>1, <2>5 DEF Follows
  <2>7. ASSUME NEW x \in 1..k
        PROVE  h[x] = g[<<h[x - 1], x>>]
    <3> HIDE DEF h
    <3>1. CASE x = k
      <4>1. h[k - 1] = f[k - 1] /\ h[k] = next
        BY <2>5
      <4> QED
        BY <3>1, <4>1 DEF next
    <3>2. CASE x # k
      <4>1. x \in 1..(k - 1) /\ x \in 0..(k - 1) /\ x - 1 \in 0..(k - 1)
        BY <3>2
      <4>2. f[x] = g[<<f[x - 1], x>>]
        BY <2>1, <4>1 DEF Follows
      <4>3. h[x] = f[x] /\ h[x - 1] = f[x - 1]
        BY <2>5, <4>1
      <4> QED
        BY <4>2, <4>3
    <3> QED
      BY <3>1, <3>2
  <2> HIDE DEF h
  <2>8. Follows(h, k, a, g)
    BY <2>5, <2>6, <2>7 DEF Follows
  <2> QED
    BY <2>4, <2>8
<1> HIDE DEF P
<1>3. n \in P
  BY <1>1, <1>2, Induction
<1> QED
  BY <1>3 DEF P

-----------------------------------------------------------------------------
(* Running totals.                                                           *)
\* `up' are the totals of the first 0, 1, .. n weights.
Totals(up, weight, n) == up = [k \in 0..n |-> IF k = 0 THEN 0 ELSE up[k - 1] + weight[k]]

LEMMA TotalsExist ==
    ASSUME NEW n \in Nat, NEW weight \in [1..n -> Int]
    PROVE  \E up \in [0..n -> Int] : Totals(up, weight, n)
<1> DEFINE g == [x \in Int \X (1..n) |-> x[1] + weight[x[2]]]
<1>1. g \in [Int \X (1..n) -> Int] /\ 0 \in Int
  OBVIOUS
<1>2. \A t \in Int, k \in 1..n : g[<<t, k>>] = t + weight[k]
  OBVIOUS
<1> HIDE DEF g
<1>3. PICK f \in [0..n -> Int] : Follows(f, n, 0, g)
  BY <1>1, Recursion
<1>4. \A k \in 0..n : f[k] = IF k = 0 THEN 0 ELSE f[k - 1] + weight[k]
  <2> SUFFICES ASSUME NEW k \in 0..n PROVE f[k] = IF k = 0 THEN 0 ELSE f[k - 1] + weight[k]
    OBVIOUS
  <2>1. CASE k = 0
    BY <1>3, <2>1 DEF Follows
  <2>2. CASE k # 0
    <3>1. k \in 1..n /\ f[k - 1] \in Int
      BY <2>2
    <3> QED BY <1>2, <1>3, <2>2, <3>1 DEF Follows
  <2> QED BY <2>1, <2>2
<1>5. f = [k \in 0..n |-> f[k]]
  OBVIOUS
<1> QED BY <1>4, <1>5 DEF Totals

\* Whatever totals they are, from the first weight on.
LEMMA TotalsStep ==
    ASSUME NEW n \in Nat, NEW weight \in [1..n -> Int], NEW up, Totals(up, weight, n)
    PROVE  up \in [0..n -> Int] /\ up[0] = 0 /\ \A k \in 1..n : up[k] = up[k - 1] + weight[k]
<1>1. DOMAIN up = 0..n /\ up[0] = 0 /\ \A k \in 1..n : up[k] = up[k - 1] + weight[k]
  BY DEF Totals
<1> DEFINE P == {k \in 0..n : up[k] \in Int}
<1>2. \A k \in 1..n : k - 1 \in P => k \in P
  BY <1>1
<1>3. 0 \in P
  BY <1>1
<1> HIDE DEF P
<1>4. \A k \in 0..n : k \in P
  BY <1>2, <1>3, Induction
<1>5. \A k \in 0..n : up[k] \in Int
  BY <1>4 DEF P
<1>6. up = [k \in 0..n |-> up[k]]
  BY DEF Totals
<1> QED BY <1>1, <1>5, <1>6

\* Weights that differ in one place at most, and totals that differ as weights do.
DifferAt(m, weight, other, n) == \A k \in 1..n : k # m => other[k] = weight[k]
MovesAs(total, was, weight, other) == total = was + other - weight
\* Totals of weights that differ in one place differ by as much in the end.
LEMMA TotalsDiffer ==
    ASSUME NEW n \in Nat, NEW weight \in [1..n -> Int], NEW other \in [1..n -> Int],
           NEW m \in 1..n,
           DifferAt(m, weight, other, n),
           NEW up, Totals(up, weight, n), NEW down, Totals(down, other, n)
    PROVE  MovesAs(down[n], up[n], weight[m], other[m])
<1> DEFINE d == other[m] - weight[m]
<1>0. d \in Int /\ other[m] = weight[m] + d /\ \A k \in 1..n : k # m => other[k] = weight[k]
  BY DEF DifferAt
<1> HIDE DEF d
<1> DEFINE P == {k \in 0..n : down[k] = up[k] + (IF k < m THEN 0 ELSE d)}
<1>1. /\ up \in [0..n -> Int] /\ up[0] = 0 /\ \A k \in 1..n : up[k] = up[k - 1] + weight[k]
      /\ down \in [0..n -> Int] /\ down[0] = 0 /\ \A k \in 1..n : down[k] = down[k - 1] + other[k]
  BY TotalsStep
<1>2. ASSUME NEW k \in 1..n, k - 1 \in P PROVE k \in P
  <2>1. down[k - 1] = up[k - 1] + (IF k - 1 < m THEN 0 ELSE d)
    BY <1>2
  <2>2. up[k] = up[k - 1] + weight[k] /\ down[k] = down[k - 1] + other[k]
    BY <1>1
  <2>3. k \in Int /\ k - 1 \in 0..n /\ k \in 0..n /\ m \in Int
    OBVIOUS
  <2>4. up[k - 1] \in Int /\ weight[k] \in Int /\ up[k] \in Int
    BY <1>1, <2>3
  <2>5. down[k] = up[k] + (IF k < m THEN 0 ELSE d)
    <3>1. CASE k < m
      <4>1. other[k] = weight[k] /\ k - 1 < m
        BY <1>0, <2>3, <3>1
      <4>2. down[k - 1] = up[k - 1]
        BY <2>1, <2>4, <4>1
      <4>3. down[k] = up[k]
        BY <2>2, <4>1, <4>2
      <4> QED BY <2>4, <3>1, <4>3
    <3>2. CASE k = m
      <4>1. k - 1 < m /\ other[k] = weight[k] + d
        BY <1>0, <2>3, <3>2
      <4> QED BY <1>0, <2>1, <2>2, <2>3, <2>4, <3>2, <4>1
    <3>3. CASE k > m
      <4>1. other[k] = weight[k] /\ ~(k - 1 < m) /\ ~(k < m)
        BY <1>0, <2>3, <3>3
      <4> QED BY <1>0, <2>1, <2>2, <2>4, <4>1
    <3> QED BY <2>3, <3>1, <3>2, <3>3
  <2> QED BY <2>3, <2>5
<1>3. 0 \in P
  BY <1>1
<1> HIDE DEF P
<1>4. \A k \in 0..n : k \in P
  BY <1>2, <1>3, Induction
<1>5. n \in P /\ ~(n < m)
  BY <1>4
<1>6. down[n] = up[n] + d
  BY <1>5 DEF P
<1>7. up[n] \in Int
  BY <1>1
<1> QED BY <1>6, <1>7 DEF d, MovesAs

\* There is one way to add up.
LEMMA TotalsAgree ==
    ASSUME NEW n \in Nat, NEW weight \in [1..n -> Int],
           NEW up, Totals(up, weight, n), NEW down, Totals(down, weight, n)
    PROVE  \A k \in 0..n : down[k] = up[k]
<1> DEFINE P == {k \in 0..n : down[k] = up[k]}
<1>1. /\ up[0] = 0 /\ \A k \in 1..n : up[k] = up[k - 1] + weight[k]
      /\ down[0] = 0 /\ \A k \in 1..n : down[k] = down[k - 1] + weight[k]
  BY TotalsStep
<1>2. \A k \in 1..n : k - 1 \in P => k \in P
  BY <1>1
<1>3. 0 \in P
  BY <1>1
<1> HIDE DEF P
<1>4. \A k \in 0..n : k \in P
  BY <1>2, <1>3, Induction
<1> QED BY <1>4 DEF P

\* One weight more.
LEMMA TotalsGrow ==
    ASSUME NEW n \in Nat, NEW weight \in [1..n -> Int], NEW more \in [1..(n + 1) -> Int],
           \A k \in 1..n : more[k] = weight[k],
           NEW up, Totals(up, weight, n), NEW down, Totals(down, more, n + 1)
    PROVE  down[n + 1] = up[n] + more[n + 1]
<1> DEFINE P == {k \in 0..n : down[k] = up[k]}
<1>1. /\ up[0] = 0 /\ \A k \in 1..n : up[k] = up[k - 1] + weight[k]
      /\ down[0] = 0 /\ \A k \in 1..(n + 1) : down[k] = down[k - 1] + more[k]
  <2>1. n + 1 \in Nat
    OBVIOUS
  <2>2. up[0] = 0 /\ \A k \in 1..n : up[k] = up[k - 1] + weight[k]
    BY TotalsStep
  <2>3. down[0] = 0 /\ \A k \in 1..(n + 1) : down[k] = down[k - 1] + more[k]
    BY <2>1, TotalsStep
  <2> QED BY <2>2, <2>3
<1>2. \A k \in 1..n : k - 1 \in P => k \in P
  BY <1>1
<1>3. 0 \in P
  BY <1>1
<1> HIDE DEF P
<1>4. \A k \in 0..n : k \in P
  BY <1>2, <1>3, Induction
<1>5. down[n] = up[n]
  BY <1>4 DEF P
<1>6. down[n + 1] = down[n + 1 - 1] + more[n + 1] /\ n + 1 - 1 = n
  BY <1>1
<1> QED BY <1>5, <1>6

-----------------------------------------------------------------------------
(* Sums over finite sets.                                                    *)
\* What holds of the empty set, and of a set when it holds of it without any one member, holds of the
\* subsets of a finite set.
LEMMA SetInduction ==
    ASSUME NEW S, IsFiniteSet(S), NEW P, {} \in P,
           \A T \in SUBSET S : T # {} /\ (\A x \in T : T \ {x} \in P) => T \in P
    PROVE  \A T \in SUBSET S : T \in P
<1>. DEFINE n == Cardinality(S)
            Q == {k \in 0..n : \A T \in SUBSET S : Cardinality(T) = k => T \in P}
<1>1. n \in Nat /\ \A T \in SUBSET S : IsFiniteSet(T) /\ Cardinality(T) \in 0..n
  BY FS_Subset, FS_CardinalityType
<1>. HIDE DEF n
<1>2. 0 \in Q
  BY <1>1, FS_EmptySet
<1>3. ASSUME NEW k \in 1..n, k - 1 \in Q PROVE k \in Q
  <2>1. ASSUME NEW T \in SUBSET S, Cardinality(T) = k PROVE T \in P
    <3>1. IsFiniteSet(T) /\ T # {}
      BY <1>1, <1>3, <2>1, FS_EmptySet
    <3>2. ASSUME NEW x \in T PROVE T \ {x} \in P
      <4>1. Cardinality(T \ {x}) = k - 1
        BY <2>1, <3>1, FS_RemoveElement
      <4>. QED BY <1>3, <4>1
    <3>. QED BY <3>1, <3>2
  <2>. QED BY <1>1, <2>1
<1>. HIDE DEF Q
<1>4. \A k \in 0..n : k \in Q
  BY <1>1, <1>2, <1>3, Induction
<1>. QED BY <1>1, <1>4 DEF Q

Taken(T) == CHOOSE x \in T : TRUE
\* `sum' are the sums of f over the subsets of S, one member at a time.
Summable(f, S) == IsFiniteSet(S) /\ \A x \in S : f[x] \in Int
Summed(sum, f, S) == sum = [T \in SUBSET S |-> IF T = {} THEN 0 ELSE f[Taken(T)] + sum[T \ {Taken(T)}]]
Adds(sum, f, S) == Summable(f, S) /\ Summed(sum, f, S)

LEMMA SumsExist ==
    ASSUME NEW S, NEW f, Summable(f, S)
    PROVE  \E sum : Adds(sum, f, S)
<1>. DEFINE n == Cardinality(S)
            Upto(k) == {T \in SUBSET S : Cardinality(T) <= k}
            Good(sum, k) == \A T \in Upto(k) :
                               sum[T] = IF T = {} THEN 0 ELSE f[Taken(T)] + sum[T \ {Taken(T)}]
            Q == {k \in 0..n : \E sum : sum = [T \in Upto(k) |-> sum[T]] /\ Good(sum, k)}
<1>0. IsFiniteSet(S) /\ \A x \in S : f[x] \in Int
  BY DEF Summable
<1>1. n \in Nat /\ \A T \in SUBSET S : IsFiniteSet(T) /\ Cardinality(T) \in 0..n
  BY <1>0, FS_Subset, FS_CardinalityType
<1>2. \A T \in SUBSET S : T # {} => Taken(T) \in T /\ T \ {Taken(T)} \in SUBSET S
                                  /\ Cardinality(T \ {Taken(T)}) = Cardinality(T) - 1
  BY <1>1, FS_RemoveElement DEF Taken
<1>. HIDE DEF n
<1>3. 0 \in Q
  <2>1. Upto(0) = {{}}
    BY <1>1, FS_EmptySet
  <2>. DEFINE sum == [T \in Upto(0) |-> 0]
  <2>2. sum = [T \in Upto(0) |-> sum[T]] /\ Good(sum, 0)
    BY <2>1
  <2>. HIDE DEF sum, Upto, Good
  <2>. QED BY <1>1, <2>2
<1>4. ASSUME NEW k \in 1..n, k - 1 \in Q PROVE k \in Q
  <2>1. PICK low : Good(low, k - 1)
    BY <1>4
  <2>. DEFINE sum == [T \in Upto(k) |-> IF T = {} THEN 0 ELSE f[Taken(T)] + low[T \ {Taken(T)}]]
  <2>2. k \in Int /\ k >= 1 /\ \A T \in SUBSET S : Cardinality(T) \in Int
    BY <1>1
  <2>3. \A T \in Upto(k - 1) : T \in Upto(k) /\ sum[T] = low[T]
    BY <2>1, <2>2
  <2>4. \A T \in Upto(k) : T # {} => T \ {Taken(T)} \in Upto(k - 1)
    BY <1>2, <2>2
  <2>5. Good(sum, k)
    BY <2>3, <2>4
  <2>6. sum = [T \in Upto(k) |-> sum[T]]
    OBVIOUS
  <2>. HIDE DEF sum, Upto, Good
  <2>. QED BY <2>5, <2>6
<1>. HIDE DEF Q
<1>5. n \in Q
  BY <1>1, <1>3, <1>4, Induction
<1>6. PICK sum : sum = [T \in Upto(n) |-> sum[T]] /\ Good(sum, n)
  BY <1>5 DEF Q
<1>7. Upto(n) = SUBSET S
  BY <1>1
<1>8. sum = [T \in SUBSET S |-> IF T = {} THEN 0 ELSE f[Taken(T)] + sum[T \ {Taken(T)}]]
  BY <1>6, <1>7
<1>. QED BY <1>8 DEF Adds, Summed

Steps(sum, f, S) ==
    /\ sum[{}] = 0
    /\ \A T \in SUBSET S : T # {} => Taken(T) \in T /\ sum[T] = f[Taken(T)] + sum[T \ {Taken(T)}]
    /\ \A T \in SUBSET S : sum[T] \in Int
LEMMA SumsStart == ASSUME NEW S, NEW f, NEW sum, Adds(sum, f, S) PROVE Steps(sum, f, S)
<1>. DEFINE P == {T \in SUBSET S : sum[T] \in Int}
<1>0. IsFiniteSet(S) /\ \A x \in S : f[x] \in Int
  BY DEF Adds, Summable
<1>1. sum[{}] = 0
  BY DEF Adds, Summed
<1>2. ASSUME NEW T \in SUBSET S, T # {}
      PROVE  Taken(T) \in T /\ sum[T] = f[Taken(T)] + sum[T \ {Taken(T)}]
  <2>1. Taken(T) \in T
    BY <1>2 DEF Taken
  <2>2. sum[T] = f[Taken(T)] + sum[T \ {Taken(T)}]
    BY <1>2 DEF Adds, Summed
  <2>. QED BY <2>1, <2>2
<1>3. {} \in P
  BY <1>1
<1>4. ASSUME NEW T \in SUBSET S, T # {}, \A x \in T : T \ {x} \in P PROVE T \in P
  <2>1. PICK c : c = Taken(T)
    OBVIOUS
  <2>2. c \in T /\ sum[T] = f[c] + sum[T \ {c}]
    BY <1>2, <1>4, <2>1
  <2>3. f[c] \in Int /\ sum[T \ {c}] \in Int
    BY <1>0, <1>4, <2>2
  <2>. QED BY <2>2, <2>3
<1>. HIDE DEF P
<1>5. \A T \in SUBSET S : T \in P
  BY <1>0, <1>3, <1>4, SetInduction
<1>6. \A T \in SUBSET S : sum[T] \in Int
  BY <1>5 DEF P
<1>. QED BY <1>1, <1>2, <1>6 DEF Steps

\* Whatever member is taken first.
LEMMA SumsAre ==
    ASSUME NEW S, NEW f, NEW sum, Adds(sum, f, S), NEW U \in SUBSET S, NEW m \in U
    PROVE  sum[U] = f[m] + sum[U \ {m}]
<1>. DEFINE Moved(T, x) == sum[T] = f[x] + sum[T \ {x}]
            P == {T \in SUBSET S : \A x \in T : Moved(T, x)}
<1>0. IsFiniteSet(S) /\ \A x \in S : f[x] \in Int
  BY DEF Adds, Summable
<1>1. /\ \A T \in SUBSET S : T # {} => Taken(T) \in T /\ sum[T] = f[Taken(T)] + sum[T \ {Taken(T)}]
      /\ \A T \in SUBSET S : sum[T] \in Int
  <2>1. Steps(sum, f, S)
    BY SumsStart
  <2>. QED BY <2>1 DEF Steps
<1>2. {} \in P
  OBVIOUS
<1>3. ASSUME NEW T \in SUBSET S, T # {}, \A x \in T : T \ {x} \in P PROVE T \in P
  <2>1. PICK c : c = Taken(T)
    OBVIOUS
  <2>2. c \in T /\ sum[T] = f[c] + sum[T \ {c}] /\ f[c] \in Int
    BY <1>0, <1>1, <1>3, <2>1
  <2>3. ASSUME NEW x \in T, x # c PROVE Moved(T, x)
    <3>1. PICK R : R = (T \ {c}) \ {x}
      OBVIOUS
    <3>2. sum[T \ {c}] = f[x] + sum[R]
      BY <1>3, <2>2, <2>3, <3>1
    <3>3. sum[T \ {x}] = f[c] + sum[R]
      <4>1. (T \ {x}) \ {c} = R
        BY <3>1
      <4>2. T \ {x} \in P /\ c \in T \ {x}
        BY <1>3, <2>2, <2>3
      <4>. QED BY <4>1, <4>2
    <3>4. sum[R] \in Int
      BY <1>1, <3>1
    <3>5. f[x] \in Int /\ f[c] \in Int
      BY <1>0, <2>2
    <3>. QED BY <2>2, <3>2, <3>3, <3>4, <3>5
  <2>. HIDE DEF Moved
  <2>4. Moved(T, c)
    BY <2>2 DEF Moved
  <2>. QED BY <2>3, <2>4
<1>. HIDE DEF P
<1>4. \A T \in SUBSET S : T \in P
  BY <1>0, <1>2, <1>3, SetInduction
<1>5. \A x \in U : Moved(U, x)
  BY <1>4 DEF P
<1>. QED BY <1>5

\* There is one way to add the same up.
LEMMA SumsAgree ==
    ASSUME NEW S, NEW f, NEW sum, Adds(sum, f, S),
           NEW R, NEW g, NEW other, Adds(other, g, R),
           NEW T, T \subseteq S, T \subseteq R, \A x \in T : f[x] = g[x]
    PROVE  sum[T] = other[T]
<1>. DEFINE P == {U \in SUBSET T : sum[U] = other[U]}
<1>0. IsFiniteSet(T) /\ \A x \in T : f[x] \in Int
  BY FS_Subset DEF Adds, Summable
<1>1. /\ sum[{}] = 0
      /\ \A U \in SUBSET T : U # {} => Taken(U) \in U /\ sum[U] = f[Taken(U)] + sum[U \ {Taken(U)}]
  <2>1. Steps(sum, f, S)
    BY SumsStart
  <2>. QED BY <2>1 DEF Steps
<1>2. /\ other[{}] = 0
      /\ \A U \in SUBSET T : U # {} => Taken(U) \in U /\ other[U] = g[Taken(U)] + other[U \ {Taken(U)}]
  <2>1. Steps(other, g, R)
    BY SumsStart
  <2>. QED BY <2>1 DEF Steps
<1>3. {} \in P
  BY <1>1, <1>2
<1>4. ASSUME NEW U \in SUBSET T, U # {}, \A x \in U : U \ {x} \in P PROVE U \in P
  BY <1>1, <1>2, <1>4
<1>. HIDE DEF P
<1>5. \A U \in SUBSET T : U \in P
  BY <1>0, <1>3, <1>4, SetInduction
<1>. QED BY <1>5 DEF P

\* Of finitely many that can all be compared, one is above all.
LEMMA OneAbove ==
    ASSUME NEW S, IsFiniteSet(S), S # {}, NEW above,
           \A x, y \in S : <<x, y>> \in above \/ <<y, x>> \in above,
           \A x, y, z \in S : <<x, y>> \in above /\ <<y, z>> \in above => <<x, z>> \in above
    PROVE  \E x \in S : \A y \in S : <<x, y>> \in above
<1>. DEFINE P == {T \in SUBSET S : T = {} \/ \E x \in T : \A y \in T : <<x, y>> \in above}
<1>1. {} \in P
  OBVIOUS
<1>2. ASSUME NEW T \in SUBSET S, T # {}, \A x \in T : T \ {x} \in P PROVE T \in P
  <2>1. PICK c \in T : TRUE
    BY <1>2
  <2>2. \A x \in S : <<x, x>> \in above
    OBVIOUS
  <2>3. CASE T \ {c} = {}
    <3>1. \A y \in T : <<c, y>> \in above
      BY <2>1, <2>2, <2>3
    <3>. QED BY <2>1, <3>1
  <2>4. CASE T \ {c} # {}
    <3>1. PICK x \in T \ {c} : \A y \in T \ {c} : <<x, y>> \in above
      BY <1>2, <2>1, <2>4
    <3>2. CASE <<x, c>> \in above
      <4>1. \A y \in T : <<x, y>> \in above
        BY <2>1, <3>1, <3>2
      <4>. QED BY <3>1, <4>1
    <3>3. CASE <<c, x>> \in above
      <4>1. \A y \in T : <<c, y>> \in above
        BY <2>1, <2>2, <3>1, <3>3
      <4>. QED BY <2>1, <4>1
    <3>. QED BY <2>1, <3>1, <3>2, <3>3
  <2>. QED BY <2>3, <2>4
<1>. HIDE DEF P
<1>3. \A T \in SUBSET S : T \in P
  BY <1>1, <1>2, SetInduction
<1>. QED BY <1>3 DEF P
===============================================================================
