--------------------------------- MODULE Sums ---------------------------------
(***************************************************************************)
(* Facts about sums that the proofs of several components need.  Induction *)
(* is stated for a set of naturals: that it has a least element follows    *)
(* from the well-founded order of strict inclusion on intervals.           *)
(***************************************************************************)
EXTENDS Integers, FiniteSetTheorems, TLAPS

\* s adds up c: s[n] is c[1] + ... + c[n].
IsSum(s, c, N) ==
    s = [n \in 0 .. N |-> IF n = 0 THEN 0 ELSE s[n - 1] + c[n]]

\* A non-empty set of naturals has a least element.
LEMMA LeastNumber ==
    ASSUME NEW T \in SUBSET Nat, T # {}
    PROVE  \E m \in T : \A k \in T : m <= k
<1> DEFINE below == {0 .. k : k \in T}
<1>1. below \subseteq FiniteSubsetsOf(Nat) /\ below # {}
  <2>1. \A k \in T : IsFiniteSet(0 .. k) /\ 0 .. k \in SUBSET Nat
    BY FS_Interval
  <2> QED
    BY <2>1 DEF FiniteSubsetsOf
<1>2. PICK S \in below : \A V \in below : <<V, S>> \notin StrictSubsetOrdering(Nat)
  <2> HIDE DEF below
  <2> QED
    BY <1>1, WFMin, FS_StrictSubsetOrderingWellFounded
<1>3. PICK m \in T : S = 0 .. m
  OBVIOUS
<1>4. ASSUME NEW k \in T, k < m PROVE FALSE
  <2>1. m \in 0 .. m /\ m \notin 0 .. k /\ 0 .. k \subseteq 0 .. m
    BY <1>4
  <2>2. <<0 .. k, S>> \in StrictSubsetOrdering(Nat)
    BY <2>1, <1>3 DEF StrictSubsetOrdering
  <2> QED
    BY <2>2, <1>2
<1> QED
  BY <1>4

\* Induction up to N for membership in a set.
LEMMA IntervalInduction ==
    ASSUME NEW N \in Nat, NEW S, 0 \in S,
           \A n \in 1 .. N : n - 1 \in S => n \in S
    PROVE  0 .. N \subseteq S
<1> DEFINE out == {n \in 0 .. N : n \notin S}
<1> SUFFICES ASSUME out # {} PROVE FALSE
  OBVIOUS
<1>1. PICK n \in out : \A k \in out : n <= k
  <2>1. out \in SUBSET Nat
    OBVIOUS
  <2> HIDE DEF out
  <2> QED
    BY <2>1, LeastNumber
<1>2. n \in 1 .. N /\ n - 1 \in 0 .. N /\ ~(n <= n - 1)
  BY <1>1
<1> QED
  BY <1>1, <1>2

\* Every sequence of summands has a sum.
LEMMA SumExists ==
    ASSUME NEW N \in Nat, NEW c
    PROVE  \E s : IsSum(s, c, N)
<1> DEFINE S == {n \in 0 .. N : \E s : IsSum(s, c, n)}
<1>1. 0 \in S
  <2> DEFINE zero == [n \in 0 .. 0 |-> 0]
  <2>1. IsSum(zero, c, 0)
    BY DEF IsSum
  <2> QED
    BY <2>1
<1>2. ASSUME NEW n \in 1 .. N, n - 1 \in S PROVE n \in S
  <2>1. PICK s : IsSum(s, c, n - 1)
    BY <1>2
  <2> DEFINE next == [k \in 0 .. n |-> IF k = n THEN s[n - 1] + c[n] ELSE s[k]]
  <2>2. \A k \in 0 .. n - 1 : s[k] = IF k = 0 THEN 0 ELSE s[k - 1] + c[k]
    BY <2>1 DEF IsSum
  <2>3. \A k \in 0 .. n : next[k] = IF k = 0 THEN 0 ELSE next[k - 1] + c[k]
    BY <2>2
  <2>4. IsSum(next, c, n)
    BY <2>3 DEF IsSum
  <2> QED
    BY <2>4
<1>3. N \in S
  <2> HIDE DEF S
  <2> QED
    BY <1>1, <1>2, IntervalInduction
<1> QED
  BY <1>3

\* Where at most one summand is not 0, the sum is that one.
LEMMA SumOfOne ==
    ASSUME NEW N \in Nat, NEW c, NEW s, IsSum(s, c, N), NEW k \in 1 .. N,
           c[k] \in Nat, \A n \in 1 .. N : n # k => c[n] = 0
    PROVE  s[N] = c[k]
<1> DEFINE S == {n \in 0 .. N : s[n] = IF n < k THEN 0 ELSE c[k]}
<1>1. \A n \in 0 .. N : s[n] = IF n = 0 THEN 0 ELSE s[n - 1] + c[n]
  BY DEF IsSum
<1>2. 0 \in S /\ \A n \in 1 .. N : n - 1 \in S => n \in S
  BY <1>1
<1>3. N \in S
  <2> HIDE DEF S
  <2> QED
    BY <1>2, IntervalInduction
<1> QED
  BY <1>3

\* A sequence of summands has one sum.
LEMMA SumsAgree ==
    ASSUME NEW N \in Nat, NEW c, NEW s, IsSum(s, c, N), NEW u, IsSum(u, c, N)
    PROVE  s[N] = u[N]
<1> DEFINE S == {n \in 0 .. N : s[n] = u[n]}
<1>1. \A n \in 0 .. N : /\ s[n] = IF n = 0 THEN 0 ELSE s[n - 1] + c[n]
                        /\ u[n] = IF n = 0 THEN 0 ELSE u[n - 1] + c[n]
  BY DEF IsSum
<1>2. 0 \in S /\ \A n \in 1 .. N : n - 1 \in S => n \in S
  BY <1>1
<1>3. N \in S
  <2> HIDE DEF S
  <2> QED
    BY <1>2, IntervalInduction
<1> QED
  BY <1>3
===============================================================================
