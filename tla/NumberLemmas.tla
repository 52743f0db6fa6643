----------------------------- MODULE NumberLemmas -----------------------------
(***************************************************************************)
(* Facts about numbers that the proofs need in place of induction: a set   *)
(* of numbers has a smallest element; of the members of a set of positions *)
(* one has any given number of members from it on; numbered calls are as   *)
(* many as their numbers; what is defined by steps exists.                 *)
(***************************************************************************)
EXTENDS Integers, FiniteSets, FiniteSetTheorems, TLAPS

(* The initial segments 0 .. x of the set's elements are finite sets, and   *)
(* strict inclusion is well founded on these.                               *)
LEMMA Smallest ==
    ASSUME NEW T, T \subseteq Nat, T # {}
    PROVE  \E x \in T : \A y \in T : x <= y
  <1> DEFINE U == {0 .. x : x \in T}
             R == StrictSubsetOrdering(Nat)
             F == FiniteSubsetsOf(Nat)
  <1>1. U \subseteq F
    <2> SUFFICES ASSUME NEW x \in T PROVE 0 .. x \in F
      OBVIOUS
    <2>1. x \in Nat /\ 0 .. x \subseteq Nat
      OBVIOUS
    <2>2. IsFiniteSet(0 .. x)
      BY <2>1, FS_Interval
    <2> QED BY <2>1, <2>2 DEF FiniteSubsetsOf
  <1>2. U # {}
    OBVIOUS
  <1>3. IsWellFoundedOn(R, F)
    BY FS_StrictSubsetOrderingWellFounded
  <1>4. \E u \in U : \A v \in U : <<v, u>> \notin R
    <2> HIDE DEF U, R, F
    <2> QED BY <1>1, <1>2, <1>3, WFMin
  <1>5. PICK x \in T : \A y \in T : <<0 .. y, 0 .. x>> \notin R
    BY <1>4
  <1>6. ASSUME NEW y \in T, y < x PROVE FALSE
    <2>1. 0 .. y \in SUBSET Nat /\ 0 .. x \in SUBSET Nat
      OBVIOUS
    <2>2. 0 .. y \subseteq 0 .. x /\ x \in 0 .. x /\ x \notin 0 .. y
      BY <1>6
    <2>3. <<0 .. y, 0 .. x>> \in R
      BY <2>1, <2>2 DEF StrictSubsetOrdering
    <2> QED BY <1>5, <2>3
  <1> QED BY <1>5, <1>6

UpFrom(S, i) == {j \in S : j >= i}

(* Of a set of positions with at least k members, one has exactly k members *)
(* from it on.                                                              *)
LEMMA FromTheEnd ==
    ASSUME NEW n \in Nat, NEW S, S \subseteq 1 .. n, NEW k \in Nat \ {0}, k <= Cardinality(S)
    PROVE  \E i \in S : Cardinality(UpFrom(S, i)) = k
  <1> DEFINE From(m) == {j \in S : j >= m}
             T == {d \in 0 .. n : k <= Cardinality(From(n + 1 - d))}
  <1>0. \A j \in S : j \in Nat /\ 1 <= j /\ j <= n
    OBVIOUS
  <1>1. IsFiniteSet(S) /\ \A m : IsFiniteSet(From(m)) /\ Cardinality(From(m)) \in Nat
    <2>1. IsFiniteSet(1 .. n)
      BY FS_Interval
    <2>2. IsFiniteSet(S)
      BY <2>1, FS_Subset
    <2>3. ASSUME NEW m PROVE IsFiniteSet(From(m)) /\ Cardinality(From(m)) \in Nat
      <3>1. From(m) \subseteq S
        OBVIOUS
      <3> HIDE DEF From
      <3> QED BY <2>2, <3>1, FS_Subset, FS_CardinalityType
    <2> QED BY <2>2, <2>3
  <1>2. n \in T
    <2>1. From(1) = S
      BY <1>0
    <2>2. n + 1 - n = 1 /\ n \in 0 .. n
      OBVIOUS
    <2> HIDE DEF From
    <2> QED BY <2>1, <2>2
  <1>3. From(n + 1) = {} /\ Cardinality(From(n + 1)) = 0
    <2>0. \A j \in S : ~ (j >= n + 1)
      BY <1>0
    <2>1. From(n + 1) = {}
      BY <2>0
    <2> HIDE DEF From
    <2> QED BY <2>1, FS_EmptySet
  <1>4. ASSUME NEW m \in 1 .. n PROVE m \notin S => From(m) = From(m + 1)
    <2>1. \A j \in S : m # j => (j >= m <=> j >= m + 1)
      BY <1>0
    <2> QED BY <2>1
  <1>5. ASSUME NEW m \in S PROVE From(m) = From(m + 1) \cup {m} /\ m \notin From(m + 1)
    <2>1. \A j \in S : m # j => (j >= m <=> j >= m + 1)
      BY <1>0
    <2>2. m >= m /\ ~ (m >= m + 1)
      BY <1>0
    <2> QED BY <2>1, <2>2
  <1>6. T \subseteq Nat
    OBVIOUS
  <1>7. PICK d \in T : \A e \in T : d <= e
    <2> HIDE DEF T
    <2> QED BY <1>2, <1>6, Smallest
  <1> HIDE DEF From
  <1>8. d \in 0 .. n /\ k <= Cardinality(From(n + 1 - d))
    OBVIOUS
  <1>9. d # 0
    <2>1. n + 1 - 0 = n + 1
      OBVIOUS
    <2> QED BY <1>3, <1>8, <2>1
  <1>10. PICK m \in 1 .. n : m = n + 1 - d /\ n + 1 - (d - 1) = m + 1 /\ d - 1 \in 0 .. n
    BY <1>8, <1>9
  <1>11. k <= Cardinality(From(m)) /\ ~ (k <= Cardinality(From(m + 1)))
    <2>1. d - 1 \notin T
      BY <1>7, <1>8, <1>9
    <2> QED BY <1>8, <1>10, <2>1
  <1>12. m \in S
    BY <1>4, <1>11
  <1>13. Cardinality(From(m)) = Cardinality(From(m + 1)) + 1
    BY <1>1, <1>5, <1>12, FS_AddElement
  <1>14. Cardinality(From(m)) = k
    BY <1>1, <1>11, <1>13
  <1> QED BY <1>12, <1>14 DEF From, UpFrom

Numbered(r, steps, n) == {<<r, steps, k>> : k \in 1 .. n}

(* The calls of a message are told apart by their numbers.                  *)
LEMMA NumberedCalls ==
    ASSUME NEW n \in Nat, NEW r, NEW steps
    PROVE  Cardinality(Numbered(r, steps, n)) = n
  <1> DEFINE T == {<<r, steps, k>> : k \in 1 .. n}
             f == [k \in 1 .. n |-> <<r, steps, k>>]
  <1>1. f \in Bijection(1 .. n, T)
    <2>1. f \in [1 .. n -> T]
      OBVIOUS
    <2>2. \A a, b \in 1 .. n : f[a] = f[b] => a = b
      OBVIOUS
    <2>3. \A t \in T : \E k \in 1 .. n : f[k] = t
      OBVIOUS
    <2> HIDE DEF f, T
    <2>4. f \in Injection(1 .. n, T)
      BY <2>1, <2>2 DEF Injection, IsInjective
    <2>5. f \in Surjection(1 .. n, T)
      BY <2>1, <2>3 DEF Surjection
    <2> QED BY <2>4, <2>5 DEF Bijection
  <1>2. ExistsBijection(1 .. n, T)
    <2> HIDE DEF T, f
    <2> QED BY <1>1 DEF ExistsBijection
  <1> QED BY <1>2, FS_CountingElements DEF Numbered

(***************************************************************************)
(* Recursive functions: what is defined from its last value exists, is     *)
(* settled by its steps, and a sum is as large as its steps.               *)
(***************************************************************************)

(* k steps from x.                                                          *)
Steps(f, x, step, k) == f[0] = x /\ \A n \in 1 .. k : f[n] = step[n][f[n - 1]]

LEMMA Recursion ==
    ASSUME NEW m \in Nat, NEW S, NEW x \in S, NEW step \in [1 .. m -> [S -> S]]
    PROVE  \E f \in [0 .. m -> S] : Steps(f, x, step, m)
  <1> DEFINE T == {k \in 0 .. m : \A f \in [0 .. k -> S] : ~Steps(f, x, step, k)}
  <1>1. ASSUME T # {} PROVE FALSE
    <2>1. T \subseteq Nat
      OBVIOUS
    <2>2. PICK k \in T : \A y \in T : k <= y
      <3> HIDE DEF T
      <3> QED BY <1>1, <2>1, Smallest
    <2>3. CASE k = 0
      <3> DEFINE f == [n \in 0 .. 0 |-> x]
      <3>1. f \in [0 .. k -> S] /\ Steps(f, x, step, k)
        BY <2>3 DEF Steps
      <3> QED BY <2>2, <3>1
    <2>4. CASE k # 0
      <3>1. k \in 1 .. m /\ k - 1 \in 0 .. m /\ k - 1 \notin T
        BY <2>2, <2>4
      <3>2. PICK f \in [0 .. k - 1 -> S] : Steps(f, x, step, k - 1)
        BY <3>1
      <3> DEFINE g == [n \in 0 .. k |-> IF n < k THEN f[n] ELSE step[k][f[k - 1]]]
      <3>3. step[k][f[k - 1]] \in S
        <4>1. f[k - 1] \in S
          BY <3>1
        <4> QED BY <3>1, <4>1
      <3>4. g \in [0 .. k -> S]
        BY <3>1, <3>3
      <3>5. Steps(g, x, step, k)
        <4>1. g[0] = x
          BY <3>1, <3>2 DEF Steps
        <4>2. ASSUME NEW n \in 1 .. k PROVE g[n] = step[n][g[n - 1]]
          <5>1. CASE n = k
            <6>1. k \in 0 .. k /\ k - 1 \in 0 .. k /\ k - 1 < k /\ ~(k < k)
              BY <3>1
            <6>2. g[k] = step[k][f[k - 1]] /\ g[k - 1] = f[k - 1]
              BY <6>1
            <6> QED BY <5>1, <6>2
          <5>2. CASE n # k
            <6>1. n \in 1 .. k - 1 /\ n \in 0 .. k /\ n - 1 \in 0 .. k /\ n < k /\ n - 1 < k
              BY <3>1, <5>2
            <6>2. g[n] = f[n] /\ g[n - 1] = f[n - 1]
              BY <6>1
            <6> QED BY <3>2, <6>1, <6>2 DEF Steps
          <5> QED BY <5>1, <5>2
        <4> QED BY <4>1, <4>2 DEF Steps
      <3> HIDE DEF g
      <3> QED BY <2>2, <3>4, <3>5
    <2> QED BY <2>3, <2>4
  <1>2. PICK f \in [0 .. m -> S] : Steps(f, x, step, m)
    <2>1. m \in 0 .. m /\ m \notin T
      BY <1>1
    <2> QED BY <2>1
  <1> QED BY <1>2

(* Of two that take the same steps, one is as long as is compared.          *)
LEMMA SameSteps ==
    ASSUME NEW k \in Nat, NEW x, NEW step, NEW f, NEW g, Steps(f, x, step, k), Steps(g, x, step, k)
    PROVE  \A n \in 0 .. k : f[n] = g[n]
  <1> DEFINE T == {n \in 0 .. k : f[n] # g[n]}
  <1>1. ASSUME T # {} PROVE FALSE
    <2>1. T \subseteq Nat
      OBVIOUS
    <2>2. PICK n \in T : \A y \in T : n <= y
      <3> HIDE DEF T
      <3> QED BY <1>1, <2>1, Smallest
    <2>3. n \in 1 .. k /\ n - 1 \in 0 .. k /\ n - 1 \notin T
      BY <2>2 DEF Steps
    <2>4. f[n - 1] = g[n - 1]
      BY <2>3
    <2> QED BY <2>2, <2>3, <2>4 DEF Steps
  <1> QED BY <1>1

(* The sum of some numbers.                                                 *)
LEMMA SumExists ==
    ASSUME NEW m \in Nat, NEW g \in [1 .. m -> Int]
    PROVE  \E f \in [0 .. m -> Int] : f = [n \in 0 .. m |-> IF n = 0 THEN 0 ELSE f[n - 1] + g[n]]
  <1> DEFINE step == [n \in 1 .. m |-> [y \in Int |-> y + g[n]]]
  <1>1. step \in [1 .. m -> [Int -> Int]] /\ 0 \in Int
    OBVIOUS
  <1>2. \A n \in 1 .. m, y \in Int : step[n][y] = y + g[n]
    OBVIOUS
  <1> HIDE DEF step
  <1>3. PICK f \in [0 .. m -> Int] : Steps(f, 0, step, m)
    BY <1>1, Recursion
  <1>4. \A n \in 0 .. m : f[n] = IF n = 0 THEN 0 ELSE f[n - 1] + g[n]
    <2>1. \A n \in 0 .. m : n # 0 => n \in 1 .. m /\ f[n - 1] \in Int
      OBVIOUS
    <2> QED BY <1>2, <1>3, <2>1 DEF Steps
  <1> QED BY <1>4

LEMMA SumsAreNumbers ==
    ASSUME NEW m \in Nat, NEW g \in [1 .. m -> Int],
           NEW f, f = [n \in 0 .. m |-> IF n = 0 THEN 0 ELSE f[n - 1] + g[n]]
    PROVE  f \in [0 .. m -> Int]
  <1> DEFINE T == {n \in 0 .. m : f[n] \notin Int}
  <1>1. ASSUME T # {} PROVE FALSE
    <2>1. T \subseteq Nat
      OBVIOUS
    <2>2. PICK n \in T : \A y \in T : n <= y
      <3> HIDE DEF T
      <3> QED BY <1>1, <2>1, Smallest
    <2>3. n \in 1 .. m /\ n - 1 \in 0 .. m /\ n - 1 \notin T
      BY <2>2
    <2>4. f[n] = f[n - 1] + g[n] /\ f[n - 1] \in Int /\ g[n] \in Int
      BY <2>3
    <2> QED BY <2>2, <2>4
  <1> QED BY <1>1

(* A sum whose terms are no smaller, one of them by d, is larger by d.      *)
LEMMA SumsCompared ==
    ASSUME NEW m \in Nat, NEW d \in Nat, NEW f \in [0 .. m -> Int], NEW g \in [0 .. m -> Int],
           f[0] = g[0], \A n \in 1 .. m : f[n] - f[n - 1] >= g[n] - g[n - 1],
           NEW i \in 1 .. m, f[i] - f[i - 1] >= g[i] - g[i - 1] + d
    PROVE  f[m] >= g[m] + d
  <1> DEFINE Ahead(n) == IF n < i THEN 0 ELSE d
             T == {n \in 0 .. m : ~(f[n] >= g[n] + Ahead(n))}
  <1>1. ASSUME T # {} PROVE FALSE
    <2>1. T \subseteq Nat
      OBVIOUS
    <2>2. PICK n \in T : \A y \in T : n <= y
      <3> HIDE DEF T
      <3> QED BY <1>1, <2>1, Smallest
    <2>0. n \in 0 .. m /\ ~(f[n] >= g[n] + Ahead(n))
      OBVIOUS
    <2>a. n # 0
      <3>1. f[0] \in Int /\ f[0] >= g[0] + Ahead(0)
        OBVIOUS
      <3> QED BY <2>0, <3>1
    <2>3. n \in 1 .. m /\ n - 1 \in 0 .. m /\ n - 1 \notin T
      <3>1. n \in 1 .. m /\ n - 1 \in 0 .. m /\ n - 1 < n /\ ~(n <= n - 1)
        BY ONLY <2>0, <2>a, m \in Nat
      <3> HIDE DEF T
      <3> QED BY <2>2, <3>1
    <2>4. f[n - 1] >= g[n - 1] + Ahead(n - 1) /\ ~(f[n] >= g[n] + Ahead(n))
      BY <2>2, <2>3
    <2>5. f[n] \in Int /\ g[n] \in Int /\ f[n - 1] \in Int /\ g[n - 1] \in Int
      BY <2>3
    <2>6. CASE n = i
      BY <2>4, <2>5, <2>6
    <2>7. CASE n # i
      <3>1. Ahead(n) = Ahead(n - 1) /\ Ahead(n) \in Nat
        BY <2>3, <2>7
      <3> HIDE DEF Ahead
      <3> QED BY <2>3, <2>4, <2>5, <3>1
    <2> QED BY <2>6, <2>7
  <1>2. m \in 0 .. m /\ m \notin T /\ ~(m < i)
    <2>1. m \in 0 .. m /\ ~(m < i)
      OBVIOUS
    <2> HIDE DEF T
    <2> QED BY <1>1, <2>1
  <1> QED BY <1>2
=============================================================================
