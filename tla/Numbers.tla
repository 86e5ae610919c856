------------------------------ MODULE Numbers ------------------------------
(***************************************************************************)
(* Induction on natural numbers in the form the proofs of the other        *)
(* modules use: about sets of numbers instead of predicates, and about     *)
(* functions that are defined by recursion up to a bound.                  *)
(***************************************************************************)
EXTENDS Integers, WellFoundedInduction, TLAPS

(* A set of numbers has a least one.                                       *)
LEMMA LeastNat ==
  ASSUME NEW T \in SUBSET Nat, T # {}
  PROVE  \E n \in T : \A m \in T : n <= m
<1> DEFINE R == OpToRel(<, Nat)
<1>1. IsWellFoundedOn(R, Nat)
  BY NatLessThanWellFounded
<1>2. \A i, j \in Nat : i < j => <<i, j>> \in R
  BY DEF OpToRel
<1> HIDE DEF R
<1>3. T \subseteq Nat
  OBVIOUS
<1>4. PICK n \in T : \A m \in T : ~(<<m, n>> \in R)
  BY <1>1, <1>3, WFMin, Zenon
<1>5. \A m \in T : ~(m < n)
  BY <1>2, <1>3, <1>4, Zenon
<1>6. \A m \in T : n <= m
  <2> TAKE m \in T
  <2>1. m \in Nat /\ n \in Nat
    BY <1>3
  <2> QED BY <1>5, <2>1
<1> QED BY <1>6

(* Induction up to a bound.                                                *)
LEMMA InductionUpTo ==
  ASSUME NEW N \in Nat, NEW T, 0 \in T,
         \A n \in 0..(N - 1) : n \in T => n + 1 \in T
  PROVE  0..N \subseteq T
<1> DEFINE W == {n \in 0..N : n \notin T}
<1> SUFFICES ASSUME W # {}
             PROVE  FALSE
  OBVIOUS
<1>1. PICK n \in W : \A m \in W : n <= m
  <2>1. W \in SUBSET Nat
    OBVIOUS
  <2> HIDE DEF W
  <2> QED BY <2>1, LeastNat
<1>2. n \in Nat /\ n # 0 /\ n <= N
  BY <1>1
<1>3. n - 1 \notin W /\ n - 1 \in 0..(N - 1) /\ n = (n - 1) + 1
  BY <1>1, <1>2
<1>4. n - 1 \in T
  BY <1>3
<1> QED BY <1>1, <1>3, <1>4

(* A function f of 0..N with values in V that starts with s and follows a  *)
(* list of steps: f[i] is what the i-th step makes of f[i - 1].            *)
Steps(step, N, V) == step \in [1..N -> [V -> V]]
Iterates(f, N, V, s, step) ==
  /\ f \in [0..N -> V]
  /\ f[0] = s
  /\ \A i \in 1..N : f[i] = step[i][f[i - 1]]

(* A function that is defined by recursion up to a bound exists.           *)
LEMMA Recursion ==
  ASSUME NEW N \in Nat, NEW V, NEW s \in V, NEW step, Steps(step, N, V)
  PROVE  \E f : Iterates(f, N, V, s, step)
<1> USE DEF Steps
<1> DEFINE Upto(n, f) == /\ f \in [0..n -> V] /\ f[0] = s
                         /\ \A i \in 1..n : f[i] = step[i][f[i - 1]]
           T == {n \in 0..N : \E f : Upto(n, f)}
<1>1. 0 \in T
  <2> DEFINE f == [i \in 0..0 |-> s]
  <2>1. f \in [0..0 -> V] /\ f[0] = s /\ 1..0 = {}
    OBVIOUS
  <2> HIDE DEF f
  <2>2. Upto(0, f)
    BY <2>1
  <2>3. 0 \in 0..N
    OBVIOUS
  <2> HIDE DEF Upto
  <2> QED BY <2>2, <2>3, Zenon
<1>2. \A n \in 0..(N - 1) : n \in T => n + 1 \in T
  <2> SUFFICES ASSUME NEW n \in 0..(N - 1), NEW f, Upto(n, f)
               PROVE  n + 1 \in T
    OBVIOUS
  <2> DEFINE g == [i \in 0..(n + 1) |-> IF i = n + 1 THEN step[n + 1][f[n]]
                                        ELSE f[i]]
  <2>1. n \in Nat /\ n + 1 \in 1..N /\ n + 1 \in 0..N /\ n \in 0..n
    OBVIOUS
  <2>2. step[n + 1][f[n]] \in V
    BY <2>1
  <2>3. \A i \in 0..(n + 1) : i = n + 1 \/ i \in 0..n
    BY <2>1
  <2>4. g \in [0..(n + 1) -> V]
    BY <2>1, <2>2, <2>3
  <2>5. g[0] = s
    BY <2>1
  <2>6. ASSUME NEW i \in 1..(n + 1)
        PROVE  g[i] = step[i][g[i - 1]]
    <3>1. i - 1 \in 0..n /\ i - 1 # n + 1 /\ i - 1 \in 0..(n + 1)
      BY <2>1
    <3>2. g[i - 1] = f[i - 1]
      BY <3>1
    <3>3. CASE i = n + 1
      BY <2>1, <3>2, <3>3
    <3>4. CASE i # n + 1
      <4>1. i \in 1..n /\ i \in 0..(n + 1)
        BY <2>1, <3>4
      <4>2. g[i] = f[i]
        BY <3>4, <4>1
      <4> QED BY <3>2, <4>1, <4>2
    <3> QED BY <3>3, <3>4
  <2> HIDE DEF g
  <2>7. Upto(n + 1, g)
    BY <2>4, <2>5, <2>6
  <2> QED BY <2>1, <2>7
<1> HIDE DEF T
<1>3. N \in T
  <2>1. 0..N \subseteq T
    BY <1>1, <1>2, InductionUpTo, Zenon
  <2> QED BY <2>1
<1>4. PICK f : Upto(N, f)
  BY <1>3 DEF T
<1> QED BY <1>4 DEF Iterates

(* The products of the first k factors of a list.                         *)
LEMMA Products ==
  ASSUME NEW N \in Nat, NEW a \in [1..N -> Nat]
  PROVE  \E f \in [0..N -> Nat] :
           f = [k \in 0..N |-> IF k = 0 THEN 1 ELSE a[k] * f[k - 1]]
<1> DEFINE V == Nat
           step == [i \in 1..N |-> [v \in V |-> a[i] * v]]
<1>1. Steps(step, N, V) /\ 1 \in V
  BY DEF Steps
<1>2. \A i \in 1..N, v \in V : step[i][v] = a[i] * v
  OBVIOUS
<1> HIDE DEF V, step
<1>3. PICK f : Iterates(f, N, V, 1, step)
  BY <1>1, Recursion, Zenon
<1>4. /\ f \in [0..N -> Nat] /\ f[0] = 1
      /\ \A i \in 1..N : f[i] = step[i][f[i - 1]]
  BY <1>3 DEF Iterates, V
<1>5. \A i \in 1..N : i - 1 \in 0..N /\ f[i - 1] \in Nat
  BY <1>4
<1>6. \A i \in 1..N : f[i] = a[i] * f[i - 1]
  BY <1>2, <1>4, <1>5 DEF V
<1>7. f = [k \in 0..N |-> IF k = 0 THEN 1 ELSE a[k] * f[k - 1]]
  BY <1>4, <1>6
<1> QED BY <1>4, <1>7

(* The sums of the first k terms of a list.                                *)
LEMMA Sums ==
  ASSUME NEW N \in Nat, NEW a \in [1..N -> Nat]
  PROVE  \E f \in [0..N -> Nat] :
           f = [k \in 0..N |-> IF k = 0 THEN 0 ELSE f[k - 1] + a[k]]
<1> DEFINE V == Nat
           step == [i \in 1..N |-> [v \in V |-> v + a[i]]]
<1>1. Steps(step, N, V) /\ 0 \in V
  BY DEF Steps
<1>2. \A i \in 1..N, v \in V : step[i][v] = v + a[i]
  OBVIOUS
<1> HIDE DEF V, step
<1>3. PICK f : Iterates(f, N, V, 0, step)
  BY <1>1, Recursion, Zenon
<1>4. /\ f \in [0..N -> Nat] /\ f[0] = 0
      /\ \A i \in 1..N : f[i] = step[i][f[i - 1]]
  BY <1>3 DEF Iterates, V
<1>5. \A i \in 1..N : i - 1 \in 0..N /\ f[i - 1] \in Nat
  BY <1>4
<1>6. \A i \in 1..N : f[i] = f[i - 1] + a[i]
  BY <1>2, <1>4, <1>5 DEF V
<1>7. f = [k \in 0..N |-> IF k = 0 THEN 0 ELSE f[k - 1] + a[k]]
  BY <1>4, <1>6
<1> QED BY <1>4, <1>7

=============================================================================
