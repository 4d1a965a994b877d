------------------------------ MODULE LeastNats ------------------------------
(***************************************************************************)
(* Facts the proofs of recursive definitions rest on: a set of natural     *)
(* numbers has a least member, a recursion along a range of them has a     *)
(* solution, and sequences are joined one after the other.                 *)
(***************************************************************************)
EXTENDS Integers, SequencesExt, NaturalsInduction, WellFoundedInduction, TLAPS

\* What holds of every number is proved by taking the least one it does not hold of.
LEMMA LeastNat == ASSUME NEW T \in SUBSET Nat, T # {} PROVE \E x \in T : \A y \in T : x <= y
<1> DEFINE R == OpToRel(<, Nat)
<1>1. IsWellFoundedOn(R, Nat)
  BY NatLessThanWellFounded
<1> HIDE DEF R
<1>2. PICK x \in T : \A y \in T : ~(<<y, x>> \in R)
  BY <1>1, WFMin
<1>3. ASSUME NEW y \in T PROVE x <= y
  <2>1. x \in Nat /\ y \in Nat
    OBVIOUS
  <2>2. ~(<<y, x>> \in R)
    BY <1>2
  <2>3. ~(y < x)
    BY <2>1, <2>2 DEF R, OpToRel
  <2> QED
    BY <2>1, <2>3
<1> QED
  BY <1>3

\* A function is given by its value at 0 and by what each value makes of the one before it.
Recursion(f, N, S, first, step) ==
  f \in [0..N -> S] /\ f[0] = first /\ \A n \in 1..N : f[n] = step[<<f[n - 1], n>>]

\* A recursion along a range of numbers has a solution: the least range without one would have it.
LEMMA RecursionExists ==
  ASSUME NEW N \in Nat, NEW S, NEW first \in S, NEW step \in [S \X (1..N) -> S]
  PROVE  \E f : Recursion(f, N, S, first, step)
<1> USE DEF Recursion
<1> DEFINE Upto(n) == {f \in [0..n -> S] : f[0] = first /\ \A k \in 1..n : f[k] = step[<<f[k - 1], k>>]}
           T == {n \in 0..N : Upto(n) = {}}
<1> SUFFICES T = {}
  <2>1. Upto(N) # {}
    <3> HIDE DEF Upto
    <3> QED
      OBVIOUS
  <2> QED
    BY <2>1
<1> SUFFICES ASSUME T # {} PROVE FALSE
  OBVIOUS
<1>1. PICK n \in T : \A k \in T : n <= k
  <2>1. T \in SUBSET Nat
    OBVIOUS
  <2> HIDE DEF T
  <2> QED
    BY <2>1, LeastNat
<1>2. CASE n = 0
  <2>1. [k \in 0..0 |-> first] \in Upto(0)
    OBVIOUS
  <2> QED
    BY <2>1, <1>2
<1>3. CASE n # 0
  <2> HIDE DEF Upto
  <2>0. n \in 1..N /\ n - 1 \in 0..N
    BY <1>3
  <2>1. n - 1 \notin T
    <3> HIDE DEF T
    <3> QED
      BY <1>1, <2>0
  <2>2. PICK f : f \in Upto(n - 1)
    BY <2>0, <2>1
  <2> USE DEF Upto
  <2> DEFINE g == [k \in 0..n |-> IF k = n THEN step[<<f[n - 1], n>>] ELSE f[k]]
  <2>3. f \in [0..(n - 1) -> S] /\ f[0] = first /\ \A k \in 1..(n - 1) : f[k] = step[<<f[k - 1], k>>]
    BY <2>2
  <2>4. f[n - 1] \in S /\ step[<<f[n - 1], n>>] \in S
    BY <2>0, <2>3
  <2>5. g \in [0..n -> S]
    BY <2>0, <2>3, <2>4
  <2>6. g[0] = first
    BY <2>0, <2>3
  <2>7. ASSUME NEW k \in 1..n PROVE g[k] = step[<<g[k - 1], k>>]
    <3>1. k - 1 \in 0..(n - 1) /\ k - 1 \in 0..n /\ k - 1 # n /\ k \in 0..n
      BY <2>0
    <3>2. g[k - 1] = f[k - 1]
      BY <3>1
    <3>3. CASE k = n
      BY <3>1, <3>2, <3>3
    <3>4. CASE k # n
      <4>1. k \in 1..(n - 1)
        BY <2>0, <3>4
      <4> QED
        BY <2>3, <3>1, <3>2, <3>4, <4>1
    <3> QED
      BY <3>3, <3>4
  <2>8. g \in Upto(n)
    BY <2>5, <2>6, <2>7
  <2> QED
    BY <2>8, <1>1
<1> QED
  BY <1>2, <1>3

\* Sequences are joined from the first on.
LEMMA FlattenedSteps ==
  ASSUME NEW S, NEW ss \in Seq(Seq(S)), Len(ss) # 0
  PROVE  \E f : /\ \A i \in 1..Len(ss) : f[i] = IF i = 1 THEN ss[i] ELSE f[i - 1] \o ss[i]
                /\ FlattenSeq(ss) = f[Len(ss)]
<1> DEFINE N == Len(ss) - 1
           step == [an1 \in Seq(S) \X (1..N) |-> an1[1] \o ss[an1[2] + 1]]
<1>1. Len(ss) \in Nat /\ N \in Nat /\ 1..Len(ss) = 1..N + 1 /\ \A i \in 1..Len(ss) : ss[i] \in Seq(S)
  OBVIOUS
<1> HIDE DEF N
<1>2. step \in [Seq(S) \X (1..N) -> Seq(S)]
  <2>1. ASSUME NEW x \in Seq(S) \X (1..N) PROVE x[1] \o ss[x[2] + 1] \in Seq(S)
    <3>1. x[1] \in Seq(S) /\ x[2] + 1 \in 1..N + 1
      BY <1>1
    <3>2. ss[x[2] + 1] \in Seq(S)
      BY <1>1, <3>1
    <3> QED
      BY <3>1, <3>2
  <2> QED
    BY <2>1
<1>3. ss[1] \in Seq(S)
  BY <1>1
<1>4. PICK f : Recursion(f, N, Seq(S), ss[1], step)
  <2> HIDE DEF step
  <2> QED
    BY <1>1, <1>2, <1>3, RecursionExists
<1> DEFINE g == [i \in 1..Len(ss) |-> f[i - 1]]
<1>5. \A i \in 1..Len(ss) : g[i] = IF i = 1 THEN ss[i] ELSE g[i - 1] \o ss[i]
  <2> SUFFICES ASSUME NEW i \in 1..Len(ss) PROVE g[i] = IF i = 1 THEN ss[i] ELSE g[i - 1] \o ss[i]
    OBVIOUS
  <2>1. CASE i = 1
    BY <1>4, <2>1 DEF Recursion
  <2>2. CASE i # 1
    <3>1. i - 1 \in 1..N /\ i - 1 \in 1..Len(ss) /\ i - 2 \in 0..N /\ i - 1 - 1 = i - 2 /\ (i - 1) + 1 = i
      BY <1>1, <2>2
    <3>2. f[i - 1] = step[<<f[i - 2], i - 1>>] /\ f[i - 2] \in Seq(S)
      BY <1>4, <3>1 DEF Recursion
    <3>3. <<f[i - 2], i - 1>> \in Seq(S) \X (1..N)
      BY <3>1, <3>2
    <3>4. step[<<f[i - 2], i - 1>>] = f[i - 2] \o ss[i]
      BY <3>1, <3>3
    <3> QED
      BY <2>2, <3>1, <3>2, <3>4
  <2> QED
    BY <2>1, <2>2
<1>6. g = [i \in 1..Len(ss) |-> IF i = 1 THEN ss[i] ELSE g[i - 1] \o ss[i]]
  <2>1. g = [i \in 1..Len(ss) |-> g[i]]
    OBVIOUS
  <2> HIDE DEF g
  <2> QED
    BY <1>5, <2>1
<1> DEFINE h == CHOOSE h : h = [i \in 1..Len(ss) |-> IF i = 1 THEN ss[i] ELSE h[i - 1] \o ss[i]]
<1>7. h = [i \in 1..Len(ss) |-> IF i = 1 THEN ss[i] ELSE h[i - 1] \o ss[i]]
  <2> HIDE DEF g
  <2> QED
    BY <1>6
<1>8. FlattenSeq(ss) = h[Len(ss)]
  BY DEF FlattenSeq
<1> HIDE DEF h
<1>9. \A i \in 1..Len(ss) : h[i] = IF i = 1 THEN ss[i] ELSE h[i - 1] \o ss[i]
  BY <1>7
<1> QED
  BY <1>8, <1>9
=============================================================================
