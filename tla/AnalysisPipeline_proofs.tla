------------------------ MODULE AnalysisPipeline_proofs ------------------------
(***************************************************************************)
(* For any library, graph, contexts, limits, replies and schemas, with the *)
(* submitter's permissions changing at any time: the materials of an       *)
(* analysis are what its submitter asked for and may read, its report says *)
(* what the model said, graded as it deserves, for nobody else; the schema *)
(* in its prompt is safe; and a search fuses its lanes as they agree and   *)
(* cites only what it showed and the caller may read.                      *)
(***************************************************************************)
EXTENDS AnalysisPipeline, NumberLemmas, SequenceTheorems

----------------------------------------------------------------------------
(* Finite sets in order: what Ordered computes.                             *)

Below(S, R, x) == {y \in S : <<y, x>> \in R}
StrictOrder(S, R) ==
    /\ \A x \in S : <<x, x>> \notin R
    /\ \A x, y, z \in S : <<x, y>> \in R /\ <<y, z>> \in R => <<x, z>> \in R
    /\ \A x, y \in S : x = y \/ <<x, y>> \in R \/ <<y, x>> \in R
(* The i-th of a sequence has i - 1 elements below it, if any of the set has. *)
ByRank(q, S, R) ==
    \A i \in 1 .. Cardinality(S), x \in S : Cardinality(Below(S, R, x)) = i - 1 =>
        q[i] \in S /\ Cardinality(Below(S, R, q[i])) = i - 1

LEMMA BelowSmaller ==
    ASSUME NEW S, IsFiniteSet(S), NEW R, StrictOrder(S, R), NEW x \in S
    PROVE  /\ Cardinality(Below(S, R, x)) \in 0 .. Cardinality(S) - 1
           /\ \A y \in Below(S, R, x) : Cardinality(Below(S, R, y)) < Cardinality(Below(S, R, x))
  <1>1. \A z \in S : IsFiniteSet(Below(S, R, z)) /\ Cardinality(Below(S, R, z)) \in Nat
    <2>1. \A z \in S : Below(S, R, z) \in SUBSET S
      BY DEF Below
    <2> QED BY <2>1, FS_Subset, FS_CardinalityType
  <1>2. ASSUME NEW T, NEW U, IsFiniteSet(U), T \subseteq U, T # U
        PROVE  Cardinality(T) < Cardinality(U) /\ Cardinality(T) \in Nat /\ Cardinality(U) \in Nat
    BY <1>2, FS_Subset, FS_CardinalityType
  <1>3. Below(S, R, x) \subseteq S /\ x \notin Below(S, R, x)
    BY DEF Below, StrictOrder
  <1>4. Cardinality(Below(S, R, x)) \in 0 .. Cardinality(S) - 1
    <2>1. Cardinality(Below(S, R, x)) < Cardinality(S) /\ Cardinality(S) \in Nat
      BY <1>2, <1>3
    <2> QED BY <1>1, <2>1
  <1>5. ASSUME NEW y \in Below(S, R, x) PROVE Cardinality(Below(S, R, y)) < Cardinality(Below(S, R, x))
    <2>1. y \in S /\ <<y, x>> \in R
      BY DEF Below
    <2>2. Below(S, R, y) \subseteq Below(S, R, x)
      BY <2>1 DEF Below, StrictOrder
    <2>3. y \notin Below(S, R, y)
      BY <2>1 DEF Below, StrictOrder
    <2> QED BY <1>1, <1>2, <2>2, <2>3
  <1> QED BY <1>4, <1>5

(* Each element has a rank of its own, so the ranks are all there are.      *)
LEMMA RanksTaken ==
    ASSUME NEW S, IsFiniteSet(S), NEW R, StrictOrder(S, R), NEW i \in 1 .. Cardinality(S)
    PROVE  \E x \in S : Cardinality(Below(S, R, x)) = i - 1
  <1> DEFINE n == Cardinality(S)
             f == [x \in S |-> Cardinality(Below(S, R, x))]
  <1>1. n \in Nat
    BY FS_CardinalityType
  <1>2. IsFiniteSet(0 .. n - 1) /\ Cardinality(0 .. n - 1) = n
    <2> HIDE DEF n
    <2>1. 0 \in Int /\ n - 1 \in Int
      BY <1>1
    <2>2. IsFiniteSet(0 .. n - 1) /\ Cardinality(0 .. n - 1) = IF 0 > n - 1 THEN 0 ELSE n - 1 - 0 + 1
      BY <2>1, FS_Interval, Zenon
    <2> QED BY <1>1, <2>2
  <1>3. f \in [S -> 0 .. n - 1]
    BY BelowSmaller
  <1>4. ASSUME NEW x \in S, NEW y \in S, x # y PROVE f[x] # f[y]
    <2>1. y \in Below(S, R, x) \/ x \in Below(S, R, y)
      BY <1>4 DEF StrictOrder, Below
    <2>2. Cardinality(Below(S, R, x)) \in Int /\ Cardinality(Below(S, R, y)) \in Int
      BY <1>1, BelowSmaller
    <2>3. Cardinality(Below(S, R, y)) < Cardinality(Below(S, R, x))
          \/ Cardinality(Below(S, R, x)) < Cardinality(Below(S, R, y))
      BY <2>1, BelowSmaller
    <2> QED BY <2>2, <2>3
  <1> HIDE DEF f
  <1>5. f \in Injection(S, 0 .. n - 1)
    BY <1>3, <1>4 DEF Injection, IsInjective
  <1>6. f \in Surjection(S, 0 .. n - 1)
    <2> HIDE DEF n
    <2> QED BY <1>2, <1>5, FS_Injection DEF n
  <1>7. i - 1 \in 0 .. n - 1
    BY <1>1
  <1>8. PICK x \in S : f[x] = i - 1
    BY <1>6, <1>7 DEF Surjection
  <1> QED BY <1>8 DEF f

(* A sequence by rank enumerates the set, each element once, in order.      *)
LEMMA Enumerated ==
    ASSUME NEW S, IsFiniteSet(S), NEW R, StrictOrder(S, R), NEW q, ByRank(q, S, R)
    PROVE  /\ Cardinality(S) \in Nat
           /\ \A i \in 1 .. Cardinality(S) : q[i] \in S
           /\ \A x \in S : \E i \in 1 .. Cardinality(S) : q[i] = x
           /\ \A i, j \in 1 .. Cardinality(S) : i < j => <<q[i], q[j]>> \in R
  <1>1. Cardinality(S) \in Nat
    BY FS_CardinalityType
  <1>2. \A i \in 1 .. Cardinality(S) : q[i] \in S /\ Cardinality(Below(S, R, q[i])) = i - 1
    BY RanksTaken DEF ByRank
  <1>3. ASSUME NEW x \in S PROVE \E i \in 1 .. Cardinality(S) : q[i] = x
    <2> DEFINE i == Cardinality(Below(S, R, x)) + 1
    <2>1. i \in 1 .. Cardinality(S) /\ i - 1 = Cardinality(Below(S, R, x))
      BY <1>1, BelowSmaller
    <2>2. q[i] \in S /\ Cardinality(Below(S, R, q[i])) = Cardinality(Below(S, R, x))
      BY <1>2, <2>1
    <2> HIDE DEF i
    <2>3. CASE q[i] # x
      <3>1. q[i] \in Below(S, R, x) \/ x \in Below(S, R, q[i])
        BY <2>2, <2>3 DEF StrictOrder, Below
      <3>2. Cardinality(Below(S, R, x)) \in Int
        BY <1>1, BelowSmaller
      <3> QED BY <2>2, <3>1, <3>2, BelowSmaller
    <2> QED BY <2>1, <2>3
  <1>4. ASSUME NEW i \in 1 .. Cardinality(S), NEW j \in 1 .. Cardinality(S), i < j
        PROVE  <<q[i], q[j]>> \in R
    <2>1. q[i] # q[j]
      BY <1>1, <1>2, <1>4
    <2>2. CASE <<q[j], q[i]>> \in R
      <3>1. q[j] \in Below(S, R, q[i])
        BY <1>2, <2>2 DEF Below
      <3>2. j - 1 < i - 1
        BY <1>2, <3>1, BelowSmaller
      <3> QED BY <1>4, <3>2
    <2> QED BY <1>2, <2>1, <2>2 DEF StrictOrder
  <1> QED BY <1>1, <1>2, <1>3, <1>4


----------------------------------------------------------------------------
(* The limits of the prompt.                                                *)

LEMMA MinOfTwo ==
    ASSUME NEW a \in Int, NEW b \in Int
    PROVE  Min({a, b}) = IF a <= b THEN a ELSE b
  <1>1. \E x \in {a, b} : \A y \in {a, b} : x <= y
    OBVIOUS
  <1>2. Min({a, b}) \in {a, b} /\ \A y \in {a, b} : Min({a, b}) <= y
    BY <1>1 DEF Min
  <1> QED BY <1>2

LEMMA MaxOfSome ==
    ASSUME NEW n \in Nat, NEW S, S \subseteq 0 .. n, S # {}
    PROVE  Max(S) \in S /\ \A x \in S : x <= Max(S)
  <1> DEFINE T == {n - x : x \in S}
  <1>0. \A x \in S : x \in Nat /\ n - x \in Nat
    OBVIOUS
  <1>1. T \subseteq Nat /\ T # {}
    BY <1>0
  <1>2. PICK t \in T : \A u \in T : t <= u
    <2> HIDE DEF T
    <2> QED BY <1>1, Smallest
  <1>3. \E x \in S : \A y \in S : x >= y
    <2>1. PICK x \in S : t = n - x
      OBVIOUS
    <2>2. ASSUME NEW y \in S PROVE x >= y
      <3>1. n - y \in T
        OBVIOUS
      <3> HIDE DEF T
      <3>2. n - x <= n - y
        BY <1>2, <2>1, <3>1
      <3> QED BY <1>0, <3>2
    <2> QED BY <2>2
  <1>4. Max(S) \in S /\ \A y \in S : Max(S) >= y
    BY <1>3 DEF Max
  <1> HIDE DEF T
  <1>5. ASSUME NEW x \in S, NEW y \in S, x >= y PROVE y <= x
    <2>1. x \in Nat /\ y \in Nat
      BY <1>0
    <2> QED BY <1>5, <2>1
  <1> QED BY <1>4, <1>5

LEMMA FirstOnes ==
    ASSUME NEW T, NEW s \in Seq(T), NEW n \in Nat
    PROVE  /\ First(s, n) \in Seq(T)
           /\ Len(First(s, n)) = IF n <= Len(s) THEN n ELSE Len(s)
           /\ \A i \in 1 .. Len(First(s, n)) : First(s, n)[i] = s[i]
  <1> DEFINE m == IF n <= Len(s) THEN n ELSE Len(s)
  <1>1. Len(s) \in Nat /\ \A i \in 1 .. Len(s) : s[i] \in T
    OBVIOUS
  <1>2. First(s, n) = SubSeq(s, 1, m)
    BY <1>1, MinOfTwo DEF First
  <1>3. m \in Nat /\ m <= Len(s)
    BY <1>1
  <1>4. \A i \in 1 .. m : s[i] \in T
    BY <1>1, <1>3
  <1> HIDE DEF m
  <1>5. /\ SubSeq(s, 1, m) \in Seq(T)
        /\ Len(SubSeq(s, 1, m)) = IF 1 <= m THEN m - 1 + 1 ELSE 0
        /\ \A i \in 1 .. m - 1 + 1 : SubSeq(s, 1, m)[i] = s[1 + i - 1]
    BY <1>3, <1>4, SubSeqProperties
  <1>6. Len(SubSeq(s, 1, m)) = m
    BY <1>3, <1>5
  <1>7. \A i \in 1 .. m : SubSeq(s, 1, m)[i] = s[i]
    BY <1>3, <1>5
  <1> QED BY <1>2, <1>5, <1>6, <1>7 DEF m

LEMMA PlacesFinite ==
    ASSUME NEW lists, NEW n \in Nat, DOMAIN lists = 1 .. n,
           \A i \in 1 .. n : IsFiniteSet(DOMAIN lists[i])
    PROVE  IsFiniteSet(Places(lists)) /\ Cardinality(Places(lists)) \in Nat
  <1> DEFINE f == [i \in 1 .. n |-> {i} \X DOMAIN lists[i]]
             Parts == {{i} \X DOMAIN lists[i] : i \in DOMAIN lists}
  <1>1. f \in Surjection(1 .. n, Parts)
    BY DEF Surjection
  <1>2. IsFiniteSet(1 .. n)
    BY FS_Interval
  <1>3. IsFiniteSet(Parts)
    <2> HIDE DEF f, Parts
    <2> QED BY <1>1, <1>2, FS_Surjection
  <1>4. \A P \in Parts : IsFiniteSet(P)
    <2>1. ASSUME NEW i \in DOMAIN lists PROVE IsFiniteSet({i} \X DOMAIN lists[i])
      BY FS_Product, FS_Singleton
    <2> QED BY <2>1
  <1> HIDE DEF Parts
  <1>5. IsFiniteSet(UNION Parts)
    BY <1>3, <1>4, FS_UNION
  <1> QED BY <1>5, FS_CardinalityType DEF Places, Parts

LEMMA NoWords == Words(<< >>) = 0
  <1>1. DOMAIN << >> = {}
    OBVIOUS
  <1>2. DOMAIN [i \in DOMAIN << >> |-> << >>[i].text] = {}
    BY <1>1
  <1>3. Places([i \in DOMAIN << >> |-> << >>[i].text]) = {}
    BY <1>2 DEF Places
  <1> QED BY <1>3, FS_EmptySet DEF Words

(* The number of the first ones that both limits allow.                     *)
Allowed(ms, chunks, words) == {n \in 0 .. Min({chunks, Len(ms)}) : Words(First(ms, n)) <= words}

LEMMA LimitsAllow ==
    ASSUME NEW T, NEW ms \in Seq(T), NEW chunks \in Nat, NEW words \in Nat
    PROVE  /\ Max(Allowed(ms, chunks, words)) \in 0 .. Len(ms)
           /\ Max(Allowed(ms, chunks, words)) <= chunks
           /\ Words(First(ms, Max(Allowed(ms, chunks, words)))) <= words
           /\ \A n \in 0 .. Len(ms) : n <= chunks /\ Words(First(ms, n)) <= words
                => n <= Max(Allowed(ms, chunks, words))
  <1> DEFINE A == Allowed(ms, chunks, words)
             b == Min({chunks, Len(ms)})
  <1>1. Len(ms) \in Nat /\ b = IF chunks <= Len(ms) THEN chunks ELSE Len(ms)
    BY MinOfTwo
  <1>2. b \in Nat /\ b <= chunks /\ b <= Len(ms)
    BY <1>1
  <1>3. First(ms, 0) = << >>
    <2>1. Len(First(ms, 0)) = 0 /\ First(ms, 0) \in Seq(T)
      BY <1>1, FirstOnes
    <2> QED BY <2>1
  <1>4. 0 \in A
    BY <1>2, <1>3, NoWords DEF Allowed
  <1>5. A \subseteq 0 .. b
    BY DEF Allowed
  <1>6. Max(A) \in A /\ \A x \in A : x <= Max(A)
    <2> HIDE DEF A, b
    <2> QED BY <1>2, <1>4, <1>5, MaxOfSome
  <1>7. ASSUME NEW n \in 0 .. Len(ms), n <= chunks, Words(First(ms, n)) <= words PROVE n \in A
    BY <1>1, <1>7 DEF Allowed
  <1>8. Words(First(ms, Max(A))) <= words /\ Max(A) \in 0 .. b
    <2>1. \A x \in A : Words(First(ms, x)) <= words /\ x \in 0 .. b
      BY DEF Allowed
    <2> HIDE DEF A
    <2> QED BY <1>6, <2>1
  <1> HIDE DEF A
  <1>9. Max(A) \in 0 .. Len(ms) /\ Max(A) <= chunks
    BY <1>1, <1>2, <1>8
  <1> QED BY <1>6, <1>7, <1>8, <1>9 DEF A

LEMMA SelectIs ==
    ASSUME NEW ms, NEW chunks, NEW words
    PROVE  Select(ms, chunks, words) =
             IF Max(Allowed(ms, chunks, words)) = 0 /\ ms # << >> /\ chunks > 0
             THEN <<[ms[1] EXCEPT !.text = First(ms[1].text, words)]>>
             ELSE First(ms, Max(Allowed(ms, chunks, words)))
  BY DEF Select, Allowed

(* What is left of a material that is too long.                             *)
LEMMA ShortenedFits ==
    ASSUME NEW m \in StoredChunk, NEW words \in Nat
    PROVE  LET t == [m EXCEPT !.text = First(m.text, words)] IN
           t \in StoredChunk /\ t.id = m.id /\ t.level = m.level /\ Words(<<t>>) <= words
  <1> DEFINE t == [m EXCEPT !.text = First(m.text, words)]
             k == Len(First(m.text, words))
  <1>1. First(m.text, words) \in Seq(STRING) /\ k <= words /\ k \in Nat
    <2>1. m.text \in Seq(STRING)
      BY DEF StoredChunk
    <2>2. First(m.text, words) \in Seq(STRING)
          /\ Len(First(m.text, words)) = IF words <= Len(m.text) THEN words ELSE Len(m.text)
      BY <2>1, FirstOnes
    <2>3. Len(m.text) \in Nat
      BY <2>1
    <2> QED BY <2>2, <2>3
  <1>2. t \in StoredChunk /\ t.id = m.id /\ t.level = m.level /\ t.text = First(m.text, words)
    BY <1>1 DEF StoredChunk
  <1> HIDE DEF t
  <1>3. DOMAIN t.text = 1 .. k
    BY <1>1, <1>2
  <1>4. Places([i \in DOMAIN <<t>> |-> <<t>>[i].text]) = {1} \X (1 .. k)
    <2>1. DOMAIN <<t>> = {1} /\ <<t>>[1] = t
      OBVIOUS
    <2>2. DOMAIN [i \in DOMAIN <<t>> |-> <<t>>[i].text] = {1}
          /\ [i \in DOMAIN <<t>> |-> <<t>>[i].text][1] = t.text
      BY <2>1
    <2>3. ASSUME NEW f, DOMAIN f = {1}, f[1] = t.text PROVE Places(f) = {1} \X (1 .. k)
      BY <1>3, <2>3 DEF Places
    <2> QED BY <2>2, <2>3
  <1>5. Cardinality({1} \X (1 .. k)) = k
    <2> HIDE DEF k
    <2>1. IsFiniteSet(1 .. k) /\ Cardinality(1 .. k) = k
      BY <1>1, FS_Interval
    <2>2. IsFiniteSet({1}) /\ Cardinality({1}) = 1
      BY FS_Singleton
    <2>3. Cardinality({1} \X (1 .. k)) = Cardinality({1}) * Cardinality(1 .. k)
      BY <2>1, <2>2, FS_Product
    <2> QED BY <1>1, <2>1, <2>2, <2>3
  <1> QED BY <1>1, <1>2, <1>4, <1>5 DEF Words, t

(* Of materials the limits leave the first ones, and of the first something *)
(* unless there may be none.                                                *)
LEMMA SelectedFirst ==
    ASSUME NEW ms \in Seq(StoredChunk), NEW chunks \in Nat, NEW words \in Nat,
           NEW sel, sel = Select(ms, chunks, words)
    PROVE  /\ sel \in Seq(StoredChunk) /\ Len(sel) <= Len(ms) /\ Len(sel) <= chunks
           /\ Words(sel) <= words
           /\ \A i \in 1 .. Len(sel) : sel[i].id = ms[i].id /\ sel[i].level = ms[i].level
           /\ sel = << >> <=> ms = << >> \/ chunks = 0
  <1> DEFINE n == Max(Allowed(ms, chunks, words))
             t == [ms[1] EXCEPT !.text = First(ms[1].text, words)]
  <1>1. n \in 0 .. Len(ms) /\ n <= chunks /\ Words(First(ms, n)) <= words /\ Len(ms) \in Nat
    BY LimitsAllow
  <1>2. sel = IF n = 0 /\ ms # << >> /\ chunks > 0 THEN <<t>> ELSE First(ms, n)
    BY SelectIs
  <1> HIDE DEF n
  <1>3. CASE n = 0 /\ ms # << >> /\ chunks > 0
    <2>1. sel = <<t>>
      BY <1>2, <1>3
    <2>2. ms[1] \in StoredChunk /\ Len(ms) >= 1
      BY <1>3
    <2>3. t \in StoredChunk /\ t.id = ms[1].id /\ t.level = ms[1].level /\ Words(<<t>>) <= words
      BY <2>2, ShortenedFits
    <2> HIDE DEF t
    <2>4. sel \in Seq(StoredChunk) /\ Len(sel) = 1 /\ sel[1] = t /\ sel # << >>
      BY <2>1, <2>3
    <2> QED BY <1>1, <1>3, <2>1, <2>2, <2>3, <2>4
  <1>4. CASE ~(n = 0 /\ ms # << >> /\ chunks > 0)
    <2>1. sel = First(ms, n)
      BY <1>2, <1>4
    <2>2. sel \in Seq(StoredChunk) /\ Len(sel) = n /\ \A i \in 1 .. n : sel[i] = ms[i]
      BY <1>1, <2>1, FirstOnes
    <2>3. sel = << >> <=> n = 0
      BY <2>2
    <2>4. n = 0 <=> ms = << >> \/ chunks = 0
      <3>1. ms = << >> => Len(ms) = 0
        OBVIOUS
      <3> QED BY <1>1, <1>4, <3>1
    <2> QED BY <1>1, <2>1, <2>2, <2>3, <2>4
  <1> QED BY <1>3, <1>4

(* Materials that are within the limits are not cut when more is added.     *)
LEMMA FirstStay ==
    ASSUME NEW T, NEW ms \in Seq(T), NEW more \in Seq(T), NEW chunks \in Nat, NEW words \in Nat,
           ms # << >>, Len(ms) <= chunks, Words(ms) <= words
    PROVE  /\ First(Select(ms \o more, chunks, words), Len(ms)) = ms
           /\ Select(ms \o more, chunks, words) \in Seq(T)
           /\ Range(Select(ms \o more, chunks, words)) \subseteq Range(ms) \cup Range(more)
  <1> DEFINE all == ms \o more
             n == Max(Allowed(all, chunks, words))
  <1>1. all \in Seq(T) /\ Len(all) = Len(ms) + Len(more) /\ Len(ms) \in Nat \ {0} /\ Len(more) \in Nat
        /\ \A i \in 1 .. Len(ms) : all[i] = ms[i]
    OBVIOUS
  <1> HIDE DEF all
  <1>2. First(all, Len(ms)) = ms
    <2>1. First(all, Len(ms)) \in Seq(T) /\ Len(First(all, Len(ms))) = Len(ms)
          /\ \A i \in 1 .. Len(ms) : First(all, Len(ms))[i] = all[i]
      BY <1>1, FirstOnes
    <2>2. \A i \in 1 .. Len(ms) : First(all, Len(ms))[i] = ms[i]
      BY <1>1, <2>1
    <2> HIDE DEF First
    <2> QED BY <2>1, <2>2, SeqEqual
  <1>3. n \in 0 .. Len(all) /\ Len(ms) <= n
    <2>1. Words(First(all, Len(ms))) <= words /\ Len(ms) \in 0 .. Len(all)
      BY <1>1, <1>2
    <2> QED BY <1>1, <2>1, LimitsAllow
  <1>4. Select(all, chunks, words) = First(all, n)
    <2>1. n # 0
      BY <1>1, <1>3
    <2> QED BY <2>1, SelectIs
  <1> HIDE DEF n
  <1>5. First(all, n) \in Seq(T) /\ Len(First(all, n)) = n /\ \A i \in 1 .. n : First(all, n)[i] = all[i]
    <2>1. n \in Nat /\ n <= Len(all)
      BY <1>1, <1>3
    <2>2. Len(First(all, n)) = n
      BY <1>1, <2>1, FirstOnes
    <2> QED BY <1>1, <2>1, <2>2, FirstOnes
  <1>6. First(First(all, n), Len(ms)) \in Seq(T) /\ Len(First(First(all, n), Len(ms))) = Len(ms)
        /\ \A i \in 1 .. Len(ms) : First(First(all, n), Len(ms))[i] = First(all, n)[i]
    BY <1>1, <1>3, <1>5, FirstOnes
  <1>7. \A i \in 1 .. Len(ms) : First(First(all, n), Len(ms))[i] = ms[i]
    BY <1>1, <1>3, <1>5, <1>6
  <1>8. Range(First(all, n)) \subseteq Range(ms) \cup Range(more)
    <2> SUFFICES ASSUME NEW i \in DOMAIN First(all, n) PROVE First(all, n)[i] \in Range(ms) \cup Range(more)
      BY DEF Range
    <2>1. i \in 1 .. Len(all) /\ First(all, n)[i] = all[i]
      BY <1>1, <1>3, <1>5
    <2>2. all[i] = IF i <= Len(ms) THEN ms[i] ELSE more[i - Len(ms)]
      BY <1>1, <2>1 DEF all
    <2>3. IF i <= Len(ms) THEN i \in DOMAIN ms ELSE i - Len(ms) \in DOMAIN more
      BY <1>1, <2>1
    <2> QED BY <2>1, <2>2, <2>3 DEF Range
  <1> QED BY <1>4, <1>5, <1>6, <1>7, <1>8, SeqEqual DEF all

----------------------------------------------------------------------------
(* What is gathered.                                                        *)

Reading(S) == {p \in S \X S :
    \/ PlaceOf(p[1].id[1]) < PlaceOf(p[2].id[1])
    \/ p[1].id[1] = p[2].id[1] /\ p[1].id[2] < p[2].id[2]}
AskedFor(doc) == setting.docs = << >> \/ doc \in Range(setting.docs)

(* A document has a place, and no other one has the same.                   *)
LEMMA DocsInPlace ==
    ASSUME setting \in Settings, NEW a \in Nat, NEW b \in Nat, AskedFor(a), AskedFor(b)
    PROVE  PlaceOf(a) \in Nat /\ (PlaceOf(a) = PlaceOf(b) => a = b)
  <1>1. setting.docs \in Seq(Nat)
    BY AnalysisAssumption DEF AnalysisAssumption
  <1>2. CASE setting.docs = << >>
    BY <1>2 DEF PlaceOf
  <1>3. CASE setting.docs # << >>
    <2>1. ASSUME NEW d \in Nat, d \in Range(setting.docs)
          PROVE  PlaceOf(d) \in DOMAIN setting.docs /\ setting.docs[PlaceOf(d)] = d
      <3> DEFINE I == {i \in DOMAIN setting.docs : setting.docs[i] = d}
      <3>1. I \subseteq Nat /\ I # {}
        BY <1>1, <2>1 DEF Range
      <3>2. PICK i \in I : \A j \in I : i <= j
        <4> HIDE DEF I
        <4> QED BY <3>1, Smallest
      <3>3. \A j \in 1 .. i - 1 : setting.docs[j] # d
        <4> SUFFICES ASSUME NEW j \in 1 .. i - 1, setting.docs[j] = d PROVE FALSE
          OBVIOUS
        <4>1. i \in 1 .. Len(setting.docs) /\ Len(setting.docs) \in Nat
          BY <1>1, <3>2
        <4>2. j \in I /\ ~(i <= j)
          BY <1>1, <4>1
        <4> QED BY <3>2, <4>2
      <3>4. PlaceOf(d) = CHOOSE k \in DOMAIN setting.docs :
                           setting.docs[k] = d /\ \A j \in 1 .. k - 1 : setting.docs[j] # d
        BY <1>3 DEF PlaceOf
      <3> QED BY <3>2, <3>3, <3>4
    <2>2. PlaceOf(a) \in DOMAIN setting.docs /\ setting.docs[PlaceOf(a)] = a
          /\ PlaceOf(b) \in DOMAIN setting.docs /\ setting.docs[PlaceOf(b)] = b
      BY <1>3, <2>1 DEF AskedFor
    <2> QED BY <1>1, <2>2
  <1> QED BY <1>2, <1>3

LEMMA WantedTypes ==
    ASSUME setting \in Settings, NEW c
    PROVE  /\ IsFiniteSet(Wanted(c)) /\ Wanted(c) \subseteq Library
           /\ \A r \in Wanted(c) : /\ r \in StoredChunk /\ r.id[1] \in Nat /\ r.id[2] \in Nat
                                   /\ r.id = <<r.id[1], r.id[2]>> /\ AskedFor(r.id[1])
           /\ \A r, s \in Wanted(c) : r.id = s.id => r = s
  <1>1. Wanted(c) \subseteq Library /\ \A r \in Wanted(c) : AskedFor(r.id[1])
    BY DEF Wanted, AskedFor
  <1>2. IsFiniteSet(Wanted(c))
    BY <1>1, AnalysisAssumption, FS_Subset DEF AnalysisAssumption
  <1>3. \A r \in Wanted(c) : r \in StoredChunk /\ r.id \in Nat \X Nat
    BY <1>1, AnalysisAssumption DEF AnalysisAssumption, StoredChunk
  <1> QED BY <1>1, <1>2, <1>3, AnalysisAssumption DEF AnalysisAssumption

LEMMA WantedOrdered ==
    ASSUME setting \in Settings, NEW c
    PROVE  StrictOrder(Wanted(c), Reading(Wanted(c)))
  <1> DEFINE W == Wanted(c)
             P(x, y) == PlaceOf(x.id[1]) < PlaceOf(y.id[1]) \/ (x.id[1] = y.id[1] /\ x.id[2] < y.id[2])
  <1>1. \A x, y \in W : <<x, y>> \in Reading(W) <=> P(x, y)
    BY DEF Reading
  <1>2. \A x \in W : PlaceOf(x.id[1]) \in Nat /\ x.id[2] \in Nat
    BY WantedTypes, DocsInPlace
  <1>3. ASSUME NEW x \in W, NEW y \in W, PlaceOf(x.id[1]) = PlaceOf(y.id[1]) PROVE x.id[1] = y.id[1]
    BY <1>3, WantedTypes, DocsInPlace
  <1>4. ASSUME NEW x \in W, NEW y \in W, x.id[1] = y.id[1], x.id[2] = y.id[2] PROVE x = y
    BY <1>4, WantedTypes
  <1> HIDE DEF W
  <1>5. \A x \in W : ~P(x, x)
    BY <1>2
  <1>6. \A x, y, z \in W : P(x, y) /\ P(y, z) => P(x, z)
    BY <1>2
  <1>7. \A x, y \in W : x = y \/ P(x, y) \/ P(y, x)
    BY <1>2, <1>3, <1>4
  <1> HIDE DEF P
  <1> QED BY <1>1, <1>5, <1>6, <1>7 DEF StrictOrder, W

LEMMA InOrderRanks ==
    ASSUME setting \in Settings, NEW c
    PROVE  /\ ByRank(InOrder(Wanted(c)), Wanted(c), Reading(Wanted(c)))
           /\ InOrder(Wanted(c)) = [i \in 1 .. Cardinality(Wanted(c)) |-> InOrder(Wanted(c))[i]]
  <1> DEFINE W == Wanted(c)
             P(x, y) == PlaceOf(x.id[1]) < PlaceOf(y.id[1]) \/ (x.id[1] = y.id[1] /\ x.id[2] < y.id[2])
             n == Cardinality(W)
  <1>1. InOrder(W) = [i \in 1 .. n |-> CHOOSE x \in W : Cardinality({y \in W : P(y, x)}) = i - 1]
    BY DEF InOrder, Ordered
  <1>2. ASSUME NEW x \in W PROVE {y \in W : P(y, x)} = Below(W, Reading(W), x)
    BY DEF Below, Reading
  <1> HIDE DEF W, P, n
  <1>3. ASSUME NEW i \in 1 .. n, NEW x \in W, Cardinality(Below(W, Reading(W), x)) = i - 1
        PROVE  LET z == InOrder(W)[i] IN z \in W /\ Cardinality(Below(W, Reading(W), z)) = i - 1
    <2>1. InOrder(W)[i] = CHOOSE z \in W : Cardinality({y \in W : P(y, z)}) = i - 1
      BY <1>1
    <2>2. Cardinality({y \in W : P(y, x)}) = i - 1
      BY <1>2, <1>3
    <2>3. InOrder(W)[i] \in W /\ Cardinality({y \in W : P(y, InOrder(W)[i])}) = i - 1
      BY <2>1, <2>2
    <2> QED BY <1>2, <2>3
  <1>4. InOrder(W) = [i \in 1 .. n |-> InOrder(W)[i]]
    BY <1>1
  <1> QED BY <1>3, <1>4 DEF ByRank, W, n

(* All that was asked for and may be read, each once, by the order of the   *)
(* request and of the text.                                                 *)
LEMMA GatheredInOrder ==
    ASSUME setting \in Settings, NEW c, NEW all, all = InOrder(Wanted(c))
    PROVE  /\ all \in Seq(StoredChunk) /\ \A i \in DOMAIN all : all[i] \in Library
           /\ {all[i].id : i \in DOMAIN all} = {id \in Readable(c) : AskedFor(id[1])}
           /\ \A i, j \in DOMAIN all : i < j /\ all[i].id[1] = all[j].id[1] => all[i].id[2] < all[j].id[2]
  <1> DEFINE W == Wanted(c)
             n == Cardinality(W)
  <1>1. ByRank(all, W, Reading(W)) /\ all = [i \in 1 .. n |-> all[i]]
    BY InOrderRanks
  <1>2. /\ n \in Nat
        /\ \A i \in 1 .. n : all[i] \in W
        /\ \A x \in W : \E i \in 1 .. n : all[i] = x
        /\ \A i, j \in 1 .. n : i < j => <<all[i], all[j]>> \in Reading(W)
    BY <1>1, Enumerated, WantedTypes, WantedOrdered
  <1>3. all \in Seq(StoredChunk) /\ DOMAIN all = 1 .. n /\ \A i \in 1 .. n : all[i] \in Library
    <2>0. \A i \in 1 .. n : all[i] \in Library
      BY <1>2, WantedTypes
    <2>1. \A i \in 1 .. n : all[i] \in StoredChunk
      BY <1>2, WantedTypes
    <2>2. all \in [1 .. n -> StoredChunk]
      <3> HIDE DEF n
      <3> QED BY <1>1, <2>1
    <2> QED BY <1>2, <2>0, <2>2
  <1>4. {all[i].id : i \in DOMAIN all} = {id \in Readable(c) : AskedFor(id[1])}
    <2>1. {id \in Readable(c) : AskedFor(id[1])} = {r.id : r \in W}
      BY DEF Readable, Wanted, AskedFor
    <2> HIDE DEF W, n
    <2> QED BY <1>2, <1>3, <2>1
  <1>5. ASSUME NEW i \in 1 .. n, NEW j \in 1 .. n, i < j, all[i].id[1] = all[j].id[1]
        PROVE  all[i].id[2] < all[j].id[2]
    <2>1. <<all[i], all[j]>> \in Reading(W)
      BY <1>2, <1>5
    <2>2. PlaceOf(all[i].id[1]) \in Nat
      BY <1>2, WantedTypes, DocsInPlace
    <2> HIDE DEF W, n
    <2> QED BY <1>5, <2>1, <2>2 DEF Reading
  <1> QED BY <1>3, <1>4, <1>5

IdsOf(ms) == {m.id : m \in Range(ms)}
Sourced(ms) == \A m \in Range(ms) : \E r \in Library : r.id = m.id /\ r.level = m.level
AskedOf(c) == {id \in Readable(c) : AskedFor(id[1])}

(* What the materials of a gathering are, and what is shown of them.        *)
LEMMA MaterialsFound ==
    ASSUME setting \in Settings, NEW c, NEW ms, ms = Selected(InOrder(Wanted(c)))
    PROVE  /\ ms \in Seq(StoredChunk) /\ Sourced(ms)
           /\ IdsOf(ms) \subseteq AskedOf(c)
           /\ IdsOf(ms) = {} <=> AskedOf(c) = {} \/ setting.chunks = 0
           /\ IdsOf(ms) # AskedOf(c) => ms # InOrder(Wanted(c))
           /\ \A id \in IdsOf(ms), other \in AskedOf(c) \ IdsOf(ms) : id[1] = other[1] => id[2] < other[2]
           /\ Words(ms) <= setting.words
           /\ ms # << >> => First(Selected(Fold(ms, c)), Len(ms)) = ms
  <1> PICK all : all = InOrder(Wanted(c))
    OBVIOUS
  <1> PICK of : of = IdsOf(ms)
    OBVIOUS
  <1> PICK asked : asked = AskedOf(c)
    OBVIOUS
  <1>1. /\ all \in Seq(StoredChunk) /\ \A i \in DOMAIN all : all[i] \in Library
        /\ {all[i].id : i \in DOMAIN all} = asked
        /\ \A i, j \in DOMAIN all : i < j /\ all[i].id[1] = all[j].id[1] => all[i].id[2] < all[j].id[2]
    BY GatheredInOrder DEF AskedOf
  <1>2. setting.chunks \in Nat /\ setting.words \in Nat
    BY AnalysisAssumption DEF AnalysisAssumption
  <1>3. /\ ms \in Seq(StoredChunk) /\ Len(ms) <= Len(all) /\ Len(ms) <= setting.chunks
        /\ Words(ms) <= setting.words
        /\ \A i \in 1 .. Len(ms) : ms[i].id = all[i].id /\ ms[i].level = all[i].level
        /\ ms = << >> <=> all = << >> \/ setting.chunks = 0
    <2>1. PICK chunks \in Nat, words \in Nat : chunks = setting.chunks /\ words = setting.words
      BY <1>2
    <2>2. ms = Select(all, chunks, words)
      BY <2>1 DEF Selected
    <2>3. all \in Seq(StoredChunk)
      BY <1>1
    <2>4. /\ ms \in Seq(StoredChunk) /\ Len(ms) <= Len(all) /\ Len(ms) <= chunks
          /\ Words(ms) <= words
          /\ \A i \in 1 .. Len(ms) : ms[i].id = all[i].id /\ ms[i].level = all[i].level
          /\ ms = << >> <=> all = << >> \/ chunks = 0
      BY <2>2, <2>3, SelectedFirst
    <2> QED BY <2>1, <2>4
  <1>4. Len(ms) \in Nat /\ DOMAIN ms = 1 .. Len(ms) /\ Len(all) \in Nat /\ DOMAIN all = 1 .. Len(all)
    BY <1>1, <1>3
  <1>5. \A id : id \in of <=> \E i \in 1 .. Len(ms) : id = all[i].id
    BY <1>3, <1>4 DEF Range, IdsOf
  <1>6. \A id : id \in asked <=> \E i \in 1 .. Len(all) : id = all[i].id
    BY <1>1, <1>4
  <1>7. of \subseteq asked
    <2>1. \A i \in 1 .. Len(ms) : i \in 1 .. Len(all)
      BY <1>3, <1>4
    <2>2. ASSUME NEW id \in of PROVE id \in asked
      <3>1. PICK i \in 1 .. Len(ms) : id = all[i].id
        BY <1>5
      <3> QED BY <1>6, <2>1, <3>1
    <2> QED BY <2>2
  <1>8. of = {} <=> asked = {} \/ setting.chunks = 0
    <2>1. of = {} <=> ms = << >>
      <3>1. ms = << >> <=> Len(ms) = 0
        BY <1>3
      <3>2. Len(ms) # 0 => 1 \in 1 .. Len(ms)
        BY <1>4
      <3>3. Len(ms) = 0 => \A i : i \notin 1 .. Len(ms)
        BY <1>4
      <3> QED BY <1>5, <3>1, <3>2, <3>3
    <2>2. asked = {} <=> all = << >>
      <3>1. all = << >> <=> Len(all) = 0
        BY <1>1
      <3>2. Len(all) # 0 => 1 \in 1 .. Len(all)
        BY <1>4
      <3>3. Len(all) = 0 => \A i : i \notin 1 .. Len(all)
        BY <1>4
      <3> QED BY <1>6, <3>1, <3>2, <3>3
    <2> QED BY <1>3, <2>1, <2>2
  <1>9. of # asked => ms # all
    BY <1>4, <1>5, <1>6
  <1>10. ASSUME NEW id \in of, NEW other \in asked \ of, id[1] = other[1] PROVE id[2] < other[2]
    <2>1. PICK i \in 1 .. Len(ms) : id = all[i].id
      BY <1>5
    <2>2. PICK j \in 1 .. Len(all) : other = all[j].id /\ j \notin 1 .. Len(ms)
      BY <1>5, <1>6
    <2>3. i < j /\ i \in DOMAIN all /\ j \in DOMAIN all
      BY <1>3, <1>4, <2>1, <2>2
    <2> QED BY <1>1, <1>10, <2>1, <2>2, <2>3
  <1>11. ASSUME ms # << >> PROVE First(Selected(Fold(ms, c)), Len(ms)) = ms
    <2>1. PICK x : GraphContext(ms, c) = << >> \/ GraphContext(ms, c) = <<x>>
      BY DEF GraphContext
    <2> DEFINE T == StoredChunk \cup {x}
    <2>2. ms \in Seq(T)
      BY <1>3
    <2>3. << >> \in Seq(T) /\ <<x>> \in Seq(T)
      OBVIOUS
    <2> HIDE DEF T
    <2>4. GraphContext(ms, c) \in Seq(T)
      BY <2>1, <2>3
    <2> QED BY <1>2, <1>3, <1>11, <2>2, <2>4, FirstStay DEF Selected, Fold
  <1>12. Sourced(ms)
    <2> SUFFICES ASSUME NEW i \in DOMAIN ms
                 PROVE  \E r \in Library : r.id = ms[i].id /\ r.level = ms[i].level
      BY DEF Sourced, Range
    <2>1. i \in DOMAIN all
      BY <1>3, <1>4
    <2> QED BY <1>1, <1>3, <1>4, <2>1
  <1> QED BY <1>3, <1>7, <1>8, <1>9, <1>10, <1>11, <1>12

----------------------------------------------------------------------------
(* The steps up to the report.                                              *)

(* Where an analysis is, what it has of its materials, and what the model   *)
(* has said.                                                                *)
UnderWay ==
    /\ setting \in Settings /\ ctx \in Contexts \cup {None}
    /\ pc \in {"asking", "parsed"} => access # None /\ materials # << >>
    /\ pc = "search" => setting.type = "query" \/ (setting.type = "qa" /\ access # None)
    /\ access # None => materials \in Seq(StoredChunk) /\ Sourced(materials)
    /\ last # None => last \in ReplyData
    /\ report # None => pc = "stored"
    /\ pc = "stored" => access # None

LEMMA SearchKeeps == SearchStep => setting' = setting /\ ctx' = ctx
  BY DEF SearchStep, Break, Retrieve, Rerank, Synthesize, Assess, Judge, Searched

(* Steps that touch neither the materials nor the report.                   *)
Aside ==
    /\ UNCHANGED <<setting, access, materials, truncated, given, report>>
    /\ pc' \in {"asking", "parsed"} => pc \in {"asking", "parsed"}
    /\ pc' = "stored" <=> pc = "stored"
    /\ pc = "stored" => last' = last
    /\ pc' = "search" => pc = "search" \/ setting.type = "query"

LEMMA StepsAside ==
    ASSUME setting \in Settings,
           \/ Submit \/ Ask \/ ImageFails \/ Disown \/ Raise \/ SearchForJob \/ Change
           \/ \E reply \in Replies[setting.type] : Attempt(reply)
           \/ UNCHANGED vars
    PROVE  Aside /\ (last' = last \/ last' = None \/ last' \in ReplyData)
  <1>1. CASE Submit
    BY <1>1 DEF Submit, Keep, Aside
  <1>2. CASE Ask
    BY <1>2 DEF Ask, Keep, Aside
  <1>3. CASE ImageFails
    BY <1>3 DEF ImageFails, Keep, Aside
  <1>4. CASE Disown
    BY <1>4 DEF Disown, Keep, Aside
  <1>5. CASE Raise
    BY <1>5 DEF Raise, Keep, Aside
  <1>6. CASE SearchForJob
    BY <1>6, SearchKeeps DEF SearchForJob, Aside, job
  <1>7. CASE Change
    BY <1>7 DEF Change, Aside, job
  <1>8. ASSUME NEW reply \in Replies[setting.type], Attempt(reply)
        PROVE  Aside /\ (last' = last \/ last' = None \/ last' \in ReplyData)
    <2>1. reply.data \in ReplyData
      BY AnalysisAssumption DEF AnalysisAssumption
    <2>2. last' = reply.data \/ last' = None
      BY <1>8 DEF Attempt, Extracted
    <2> QED BY <1>8, <2>1, <2>2 DEF Attempt, Keep, Aside
  <1>9. CASE UNCHANGED vars
    BY <1>9 DEF vars, job, Aside
  <1> QED BY <1>1, <1>2, <1>3, <1>4, <1>5, <1>6, <1>7, <1>8, <1>9

LEMMA InitUnderWay == Init => UnderWay /\ MaterialsWithinAsked
  BY DEF Init, UnderWay, MaterialsWithinAsked

LEMMA GatherUnderWay ==
    ASSUME UnderWay, Gather
    PROVE  UnderWay' /\ MaterialsWithinAsked'
  <1> DEFINE all == InOrder(Wanted(ctx))
             of == {m.id : m \in Range(materials')}
             asked == AskedOf(ctx)
  <1>1. setting \in Settings /\ ctx \in Contexts /\ ctx # None
    BY DEF UnderWay, Gather
  <1>2. /\ materials' = Selected(all) /\ truncated' = (materials' # all)
        /\ given' = Fold(materials', ctx) /\ access' = ctx
        /\ pc' \in {"failed", "search", "asking"}
        /\ pc' # "failed" => materials' # << >>
        /\ pc' = "search" => setting.type = "qa"
        /\ UNCHANGED <<setting, ctx, last, report>>
    BY DEF Gather, Keep
  <1>3. /\ materials' \in Seq(StoredChunk) /\ Sourced(materials')
        /\ of \subseteq asked
        /\ of = {} <=> asked = {} \/ setting.chunks = 0
        /\ of # asked => materials' # all
        /\ \A id \in of, other \in asked \ of : id[1] = other[1] => id[2] < other[2]
        /\ Words(materials') <= setting.words
        /\ materials' # << >> => First(Selected(given'), Len(materials')) = materials'
    <2>1. PICK ms : ms = materials'
      OBVIOUS
    <2>2. ms = Selected(InOrder(Wanted(ctx)))
      BY <1>2, <2>1
    <2>3. /\ ms \in Seq(StoredChunk) /\ Sourced(ms)
          /\ IdsOf(ms) \subseteq asked
          /\ IdsOf(ms) = {} <=> asked = {} \/ setting.chunks = 0
          /\ IdsOf(ms) # asked => ms # all
          /\ \A id \in IdsOf(ms), other \in asked \ IdsOf(ms) : id[1] = other[1] => id[2] < other[2]
          /\ Words(ms) <= setting.words
          /\ ms # << >> => First(Selected(Fold(ms, ctx)), Len(ms)) = ms
      BY <1>1, <2>2, MaterialsFound
    <2>4. of = IdsOf(ms)
      BY <2>1 DEF IdsOf
    <2> HIDE DEF of, asked, all
    <2> QED BY <1>2, <2>1, <2>3, <2>4
  <1>4. Shown' = Selected(given')
    BY <1>2 DEF Shown, Selected
  <1>5. pc = "queued"
    BY DEF Gather
  <1>6. report = None
    BY <1>5 DEF UnderWay
  <1>7. UnderWay'
    BY <1>1, <1>2, <1>3, <1>6 DEF UnderWay
  <1>8. asked = {id \in Readable(access') : setting'.docs = << >> \/ id[1] \in Range(setting'.docs)}
    BY <1>2 DEF AskedOf, AskedFor
  <1>9. Words(materials') <= setting'.words /\ setting'.chunks = setting.chunks
    BY <1>2, <1>3
  <1>10. pc' \in {"asking", "parsed"} => First(Shown', Len(materials')) = materials'
    BY <1>2, <1>3, <1>4
  <1> HIDE DEF asked
  <1>11. of # asked => truncated'
    BY <1>2, <1>3
  <1> QED BY <1>3, <1>7, <1>8, <1>9, <1>10, <1>11 DEF MaterialsWithinAsked

LEMMA MaterialsStay ==
    ASSUME MaterialsWithinAsked, UNCHANGED <<setting, access, materials, truncated, given>>,
           pc' \in {"asking", "parsed"} => pc \in {"asking", "parsed"}
    PROVE  MaterialsWithinAsked'
  <1>1. Shown' = Shown
    BY DEF Shown, Selected
  <1> QED BY <1>1 DEF MaterialsWithinAsked

LEMMA AsideUnderWay ==
    ASSUME UnderWay, MaterialsWithinAsked, Aside, ctx' \in Contexts \cup {None},
           last' = last \/ last' = None \/ last' \in ReplyData
    PROVE  UnderWay' /\ MaterialsWithinAsked'
  <1>1. UnderWay'
    BY DEF UnderWay, Aside
  <1>2. MaterialsWithinAsked'
    BY MaterialsStay DEF Aside
  <1> QED BY <1>1, <1>2

----------------------------------------------------------------------------
(* What becomes of an object of a reply.                                    *)

LEMMA Quoted ==
    ASSUME NEW es \in Seq(Quotation)
    PROVE  /\ Len(es) \in Nat /\ DOMAIN es = 1 .. Len(es) /\ SameQuotes(es, es)
           /\ \A i \in DOMAIN es : es[i] \in Quotation
  BY DEF SameQuotes

LEMMA SameEach ==
    ASSUME NEW es \in Seq(Quotation), NEW of \in Seq(Quotation), Len(es) = Len(of),
           \A i \in DOMAIN of : es[i].chunk = of[i].chunk /\ es[i].quote = of[i].quote
    PROVE  SameQuotes(es, of)
  <1>1. DOMAIN es = DOMAIN of
    BY Quoted
  <1> QED BY <1>1 DEF SameQuotes

LEMMA SameChain ==
    ASSUME NEW a \in Seq(Quotation), NEW b \in Seq(Quotation), NEW c \in Seq(Quotation),
           SameQuotes(a, b), SameQuotes(b, c)
    PROVE  SameQuotes(a, c)
  <1>1. CASE a = << >>
    BY <1>1 DEF SameQuotes
  <1>2. CASE a # << >>
    <2>1. Len(a) = Len(b) /\ \A i \in DOMAIN a : a[i].chunk = b[i].chunk /\ a[i].quote = b[i].quote
      BY <1>2 DEF SameQuotes
    <2>2. DOMAIN a = DOMAIN b /\ b # << >>
      BY <1>2, <2>1, Quoted
    <2> QED BY <2>1, <2>2 DEF SameQuotes
  <1> QED BY <1>1, <1>2

LEMMA CompletedObject ==
    ASSUME NEW o \in ReplyObject, NEW c, c = Completed(o)
    PROVE  /\ c \in ReplyObject /\ From(c, o)
           /\ ValidObject(o) => ValidObject(c)
           /\ c.evidence = << >> => c.conf <= Cap
  <1> DEFINE said == [i \in DOMAIN o.evidence |-> Defaulted(o.evidence[i])]
             sure == IF o.evidence = << >> THEN Min({Stated(o.conf), Cap}) ELSE Stated(o.conf)
  <1>1. c = [o EXCEPT !.conf = sure, !.evidence = said]
    BY DEF Completed, ReplyObject
  <1>2. /\ o.evidence \in Seq(Quotation) /\ o.nested \in Seq(Quotation)
        /\ Len(o.evidence) \in Nat /\ DOMAIN o.evidence = 1 .. Len(o.evidence)
        /\ \A i \in DOMAIN o.evidence : o.evidence[i] \in Quotation
    BY DEF ReplyObject
  <1>3. ASSUME NEW k \in 0 .. 4
        PROVE  Stated(k) \in 0 .. 4 /\ (k # Wrong => Stated(k) # Wrong)
    BY DEF Stated, Wrong, High, Unsaid
  <1>4. ASSUME NEW i \in DOMAIN o.evidence
        PROVE  /\ said[i] \in Quotation
               /\ said[i].chunk = o.evidence[i].chunk /\ said[i].quote = o.evidence[i].quote
               /\ GoodEvidence(o.evidence[i]) => GoodEvidence(said[i])
    BY <1>2, <1>3 DEF Quotation, GoodEvidence, Defaulted
  <1>5. DOMAIN said = DOMAIN o.evidence
    OBVIOUS
  <1> HIDE DEF said
  <1>6. said \in Seq(Quotation) /\ Len(said) = Len(o.evidence)
    <2>1. said \in [1 .. Len(o.evidence) -> Quotation]
      <3>1. said = [i \in 1 .. Len(o.evidence) |-> said[i]]
        BY <1>2 DEF said
      <3> QED BY <1>2, <1>4, <3>1
    <2> QED BY <1>2, <2>1
  <1>7. /\ sure \in 0 .. 4 /\ (o.conf # Wrong => sure # Wrong)
        /\ o.evidence = << >> => sure <= Cap
    <2>1. o.conf \in 0 .. 4
      BY DEF ReplyObject
    <2>2. Stated(o.conf) \in 0 .. 4 /\ (o.conf # Wrong => Stated(o.conf) # Wrong)
      BY <1>3, <2>1
    <2>3. Min({Stated(o.conf), Cap}) = IF Stated(o.conf) <= Cap THEN Stated(o.conf) ELSE Cap
      BY <2>2, MinOfTwo DEF Cap
    <2> QED BY <2>2, <2>3 DEF Cap, Wrong
  <1> HIDE DEF sure
  <1>8. /\ c \in ReplyObject /\ c.conf = sure /\ c.evidence = said /\ c.nested = o.nested
        /\ c.required = o.required /\ c.optional = o.optional /\ c.unknown = o.unknown
    BY <1>1, <1>6, <1>7 DEF ReplyObject
  <1>9. From(c, o)
    <2>1. SameQuotes(said, o.evidence)
      BY <1>2, <1>4, <1>6, SameEach
    <2> QED BY <1>2, <1>8, <2>1, Quoted DEF From
  <1>10. ValidObject(o) => ValidObject(c)
    BY <1>4, <1>5, <1>7, <1>8 DEF ValidObject
  <1>11. c.evidence = << >> => c.conf <= Cap
    <2>1. said = << >> => o.evidence = << >>
      BY <1>2, <1>6
    <2> QED BY <1>7, <1>8, <2>1
  <1> QED BY <1>8, <1>9, <1>10, <1>11

(* What the check of the evidence makes of some of it.                      *)
LEMMA GradedSame ==
    ASSUME NEW es \in Seq(Quotation), NEW gs, gs = GradedAll(es)
    PROVE  /\ gs \in Seq(Quotation) /\ Len(gs) = Len(es) /\ SameQuotes(gs, es)
           /\ \A i \in 1 .. Len(es) :
                 /\ GoodEvidence(es[i]) => GoodEvidence(gs[i])
                 /\ gs[i].conf > Cap => Genuine(gs[i])
                 /\ Genuine(gs[i]) <=> Genuine(es[i])
  <1>1. ASSUME NEW e \in Quotation
        PROVE  /\ Graded(e) \in Quotation /\ Graded(e).chunk = e.chunk /\ Graded(e).quote = e.quote
               /\ GoodEvidence(e) => GoodEvidence(Graded(e))
               /\ Graded(e).conf > Cap => Genuine(e)
    <2>1. e.conf \in 0 .. 4
      BY DEF Quotation
    <2>2. Min({e.conf, Cap}) = IF e.conf <= Cap THEN e.conf ELSE Cap
      BY <2>1, MinOfTwo DEF Cap
    <2>3. Min({e.conf, Cap}) \in {0, 1}
      BY <2>1, <2>2 DEF Cap
    <2>4. CASE Genuine(e)
      BY <2>4 DEF Graded
    <2>5. CASE ~Genuine(e)
      <3> DEFINE g == [e EXCEPT !.conf = Min({e.conf, Cap})]
      <3>1. Graded(e) = g
        BY <2>5 DEF Graded
      <3>2. g \in Quotation /\ g.chunk = e.chunk /\ g.quote = e.quote /\ g.conf \in {0, 1}
        BY <2>3 DEF Quotation
      <3>3. g.conf # Wrong /\ ~(g.conf > Cap)
        BY <3>2 DEF Wrong, Cap
      <3> QED BY <3>1, <3>2, <3>3 DEF GoodEvidence
    <2> QED BY <2>4, <2>5
  <1>2. Len(es) \in Nat /\ DOMAIN es = 1 .. Len(es) /\ \A i \in 1 .. Len(es) : es[i] \in Quotation
    BY Quoted
  <1>3. DOMAIN gs = 1 .. Len(es) /\ \A i \in 1 .. Len(es) : gs[i] = Graded(es[i])
    BY <1>2 DEF GradedAll
  <1>4. gs \in Seq(Quotation) /\ Len(gs) = Len(es)
    <2>1. gs = [i \in 1 .. Len(es) |-> Graded(es[i])]
      BY <1>2 DEF GradedAll
    <2>2. gs \in [1 .. Len(es) -> Quotation]
      BY <1>1, <1>2, <2>1
    <2> QED BY <1>2, <2>2
  <1>5. ASSUME NEW i \in 1 .. Len(es)
        PROVE  /\ gs[i].chunk = es[i].chunk /\ gs[i].quote = es[i].quote
               /\ GoodEvidence(es[i]) => GoodEvidence(gs[i])
               /\ gs[i].conf > Cap => Genuine(gs[i])
               /\ Genuine(gs[i]) <=> Genuine(es[i])
    <2>1. gs[i] = Graded(es[i]) /\ es[i] \in Quotation
      BY <1>2, <1>3
    <2>2. gs[i].chunk = es[i].chunk /\ gs[i].quote = es[i].quote
      BY <1>1, <2>1
    <2>3. Genuine(gs[i]) <=> Genuine(es[i])
      BY ONLY <2>2 DEF Genuine
    <2> QED BY <1>1, <2>1, <2>2, <2>3
  <1>6. SameQuotes(gs, es)
    BY <1>2, <1>4, <1>5, SameEach
  <1> QED BY <1>4, <1>5, <1>6

(* The evidence of an object and what has the form of it, place by place.   *)
LEMMA QuotationsAt ==
    ASSUME NEW o \in ReplyObject
    PROVE  /\ Quotations(o) \in Seq(Quotation)
           /\ Len(o.evidence) \in Nat /\ Len(o.nested) \in Nat
           /\ DOMAIN Quotations(o) = 1 .. Len(o.evidence) + Len(o.nested)
           /\ \A i \in 1 .. Len(o.evidence) : Quotations(o)[i] = o.evidence[i]
           /\ \A i \in 1 .. Len(o.nested) : Quotations(o)[Len(o.evidence) + i] = o.nested[i]
           /\ \A k \in DOMAIN Quotations(o) :
                 \/ k \in 1 .. Len(o.evidence)
                 \/ \E i \in 1 .. Len(o.nested) : k = Len(o.evidence) + i
  <1>1. PICK s \in Seq(Quotation), t \in Seq(Quotation) : s = o.evidence /\ t = o.nested
    BY DEF ReplyObject
  <1>2. PICK m \in Nat, n \in Nat : m = Len(s) /\ n = Len(t)
    OBVIOUS
  <1>3. PICK all : all = s \o t
    OBVIOUS
  <1>4. /\ all \in Seq(Quotation) /\ Len(all) = m + n
        /\ \A i \in 1 .. m + n : all[i] = IF i <= m THEN s[i] ELSE t[i - m]
    BY <1>2, <1>3
  <1>5. ASSUME NEW i \in 1 .. m PROVE all[i] = s[i]
    <2>1. i \in 1 .. m + n /\ i <= m
      OBVIOUS
    <2> QED BY <1>4, <2>1
  <1>6. ASSUME NEW i \in 1 .. n PROVE all[m + i] = t[i]
    <2>1. m + i \in 1 .. m + n /\ ~(m + i <= m) /\ m + i - m = i
      OBVIOUS
    <2> QED BY <1>4, <2>1
  <1>7. ASSUME NEW k \in 1 .. m + n PROVE k \in 1 .. m \/ \E i \in 1 .. n : k = m + i
    <2>1. CASE k <= m
      BY <2>1
    <2>2. CASE ~(k <= m)
      <3>1. k - m \in 1 .. n /\ k = m + (k - m)
        BY <2>2
      <3> QED BY <3>1
    <2> QED BY <2>1, <2>2
  <1>8. DOMAIN all = 1 .. m + n
    BY <1>4
  <1>9. Quotations(o) = all
    BY <1>1, <1>3 DEF Quotations
  <1>10. m = Len(o.evidence) /\ n = Len(o.nested)
    BY <1>1, <1>2
  <1>11. all \in Seq(Quotation) /\ DOMAIN all = 1 .. Len(o.evidence) + Len(o.nested)
    BY ONLY <1>4, <1>8, <1>10
  <1>12. \A i \in 1 .. Len(o.evidence) : all[i] = o.evidence[i]
    BY ONLY <1>1, <1>5, <1>10
  <1>13. \A i \in 1 .. Len(o.nested) : all[Len(o.evidence) + i] = o.nested[i]
    BY ONLY <1>1, <1>6, <1>10
  <1>14. \A k \in DOMAIN all : k \in 1 .. Len(o.evidence) \/ \E i \in 1 .. Len(o.nested) : k = Len(o.evidence) + i
    BY ONLY <1>7, <1>8, <1>10
  <1>15. Len(o.evidence) \in Nat /\ Len(o.nested) \in Nat
    BY ONLY <1>2, <1>10
  <1> QED BY ONLY <1>9, <1>11, <1>12, <1>13, <1>14, <1>15

LEMMA CheckedObject ==
    ASSUME NEW o \in ReplyObject, NEW c, c = Checked(o)
    PROVE  /\ c \in ReplyObject /\ From(c, o) /\ Len(c.evidence) = Len(o.evidence) /\ c.conf = o.conf
           /\ ValidObject(o) => ValidObject(c)
           /\ DOMAIN Quotations(c) = DOMAIN Quotations(o)
           /\ \A i \in DOMAIN Quotations(c) :
                 /\ Quotations(c)[i].conf > Cap => Genuine(Quotations(c)[i])
                 /\ Genuine(Quotations(c)[i]) <=> Genuine(Quotations(o)[i])
  <1>1. PICK said, besides : said = GradedAll(o.evidence) /\ besides = GradedAll(o.nested)
    OBVIOUS
  <1>2. c = [o EXCEPT !.evidence = said, !.nested = besides]
    BY <1>1 DEF Checked, ReplyObject
  <1>3. o.evidence \in Seq(Quotation) /\ o.nested \in Seq(Quotation)
    BY DEF ReplyObject
  <1>4. /\ said \in Seq(Quotation) /\ Len(said) = Len(o.evidence) /\ SameQuotes(said, o.evidence)
        /\ \A i \in 1 .. Len(o.evidence) :
              /\ GoodEvidence(o.evidence[i]) => GoodEvidence(said[i])
              /\ said[i].conf > Cap => Genuine(said[i])
              /\ Genuine(said[i]) <=> Genuine(o.evidence[i])
    BY <1>1, <1>3, GradedSame
  <1>5. /\ besides \in Seq(Quotation) /\ Len(besides) = Len(o.nested) /\ SameQuotes(besides, o.nested)
        /\ \A i \in 1 .. Len(o.nested) :
              /\ besides[i].conf > Cap => Genuine(besides[i])
              /\ Genuine(besides[i]) <=> Genuine(o.nested[i])
    BY <1>1, <1>3, GradedSame
  <1>6. /\ c \in ReplyObject /\ c.conf = o.conf /\ c.evidence = said /\ c.nested = besides
        /\ c.required = o.required /\ c.optional = o.optional /\ c.unknown = o.unknown
    BY <1>2, <1>4, <1>5 DEF ReplyObject
  <1>7. From(c, o)
    BY <1>4, <1>5, <1>6 DEF From
  <1>8. ValidObject(o) => ValidObject(c)
    <2>1. DOMAIN said = 1 .. Len(o.evidence) /\ DOMAIN o.evidence = 1 .. Len(o.evidence)
      BY <1>3, <1>4, Quoted
    <2> QED BY <1>4, <1>6, <2>1 DEF ValidObject
  <1>9. \A i \in 1 .. Len(o.evidence) : Quotations(o)[i] = o.evidence[i]
    BY ONLY o \in ReplyObject, QuotationsAt
  <1>10. \A i \in 1 .. Len(o.nested) : Quotations(o)[Len(o.evidence) + i] = o.nested[i]
    BY ONLY o \in ReplyObject, QuotationsAt
  <1>11. /\ DOMAIN Quotations(o) = 1 .. Len(o.evidence) + Len(o.nested)
         /\ \A k \in DOMAIN Quotations(o) :
               \/ k \in 1 .. Len(o.evidence)
               \/ \E i \in 1 .. Len(o.nested) : k = Len(o.evidence) + i
    BY ONLY o \in ReplyObject, QuotationsAt
  <1>12. \A i \in 1 .. Len(o.evidence) : Quotations(c)[i] = said[i]
    <2>1. \A i \in 1 .. Len(c.evidence) : Quotations(c)[i] = c.evidence[i]
      BY ONLY <1>6, QuotationsAt
    <2> QED BY ONLY <1>4, <1>6, <2>1
  <1>13. \A i \in 1 .. Len(o.nested) : Quotations(c)[Len(o.evidence) + i] = besides[i]
    <2>1. \A i \in 1 .. Len(c.nested) : Quotations(c)[Len(c.evidence) + i] = c.nested[i]
      BY ONLY <1>6, QuotationsAt
    <2> QED BY ONLY <1>4, <1>5, <1>6, <2>1
  <1>14. DOMAIN Quotations(c) = DOMAIN Quotations(o)
    <2>1. DOMAIN Quotations(c) = 1 .. Len(c.evidence) + Len(c.nested)
      BY ONLY <1>6, QuotationsAt
    <2> QED BY ONLY <1>4, <1>5, <1>6, <1>11, <2>1
  <1>15. ASSUME NEW k \in DOMAIN Quotations(c)
         PROVE  /\ Quotations(c)[k].conf > Cap => Genuine(Quotations(c)[k])
                /\ Genuine(Quotations(c)[k]) <=> Genuine(Quotations(o)[k])
    <2>1. CASE k \in 1 .. Len(o.evidence)
      <3>1. Quotations(c)[k] = said[k] /\ Quotations(o)[k] = o.evidence[k]
        BY ONLY <1>9, <1>12, <2>1
      <3> QED BY <1>4, <2>1, <3>1
    <2>2. ASSUME NEW i \in 1 .. Len(o.nested), k = Len(o.evidence) + i
          PROVE  /\ Quotations(c)[k].conf > Cap => Genuine(Quotations(c)[k])
                 /\ Genuine(Quotations(c)[k]) <=> Genuine(Quotations(o)[k])
      <3>1. Quotations(c)[k] = besides[i] /\ Quotations(o)[k] = o.nested[i]
        BY ONLY <1>10, <1>13, <2>2
      <3> QED BY <1>5, <3>1
    <2>3. k \in 1 .. Len(o.evidence) \/ \E i \in 1 .. Len(o.nested) : k = Len(o.evidence) + i
      BY ONLY <1>14, <1>11, k \in DOMAIN Quotations(c)
    <2> QED BY <2>1, <2>2, <2>3
  <1> QED BY <1>4, <1>6, <1>7, <1>8, <1>14, <1>15

LEMMA RepairedObject ==
    ASSUME NEW o \in ReplyObject, NEW r, r = Repaired(o)
    PROVE  r \in ReplyObject /\ From(r, o) /\ r.unknown = o.unknown
  <1> DEFINE said == IF \A i \in DOMAIN o.evidence : GoodEvidence(o.evidence[i]) THEN o.evidence ELSE << >>
             besides == IF o.optional = "bad" THEN << >> ELSE o.nested
             fields == IF o.optional = "bad" THEN "absent" ELSE o.optional
             sure == IF o.conf = Wrong THEN Unsaid ELSE o.conf
  <1>1. r = [o EXCEPT !.optional = fields, !.conf = sure, !.nested = besides, !.evidence = said]
    BY DEF Repaired, ReplyObject
  <1>2. o.evidence \in Seq(Quotation) /\ o.nested \in Seq(Quotation) /\ << >> \in Seq(Quotation)
    BY DEF ReplyObject
  <1>3. /\ said \in Seq(Quotation) /\ (said = o.evidence \/ said = << >>)
        /\ besides \in Seq(Quotation) /\ (besides = o.nested \/ besides = << >>)
    BY <1>2
  <1>4. fields \in {"good", "bad", "absent"} /\ fields \in {o.optional, "absent"}
    BY DEF ReplyObject
  <1>5. sure \in 0 .. 4
    BY DEF ReplyObject, Unsaid
  <1> HIDE DEF said, besides, fields, sure
  <1>6. /\ r \in ReplyObject /\ r.required = o.required /\ r.optional = fields
        /\ r.evidence = said /\ r.nested = besides /\ r.unknown = o.unknown
    BY <1>1, <1>3, <1>4, <1>5 DEF ReplyObject
  <1>7. SameQuotes(said, o.evidence) /\ SameQuotes(besides, o.nested)
    BY <1>2, <1>3, Quoted DEF SameQuotes
  <1> QED BY <1>4, <1>6, <1>7 DEF From

(* What an object says it says of itself, and says at second hand.          *)
LEMMA FromChain ==
    ASSUME NEW a \in ReplyObject, NEW b \in ReplyObject, NEW c \in ReplyObject, From(a, b), From(b, c)
    PROVE  From(a, c)
  <1>1. /\ a.evidence \in Seq(Quotation) /\ a.nested \in Seq(Quotation)
        /\ b.evidence \in Seq(Quotation) /\ b.nested \in Seq(Quotation)
        /\ c.evidence \in Seq(Quotation) /\ c.nested \in Seq(Quotation)
    BY DEF ReplyObject
  <1>2. SameQuotes(a.evidence, c.evidence) /\ SameQuotes(a.nested, c.nested)
    BY <1>1, SameChain DEF From
  <1> QED BY <1>2 DEF From

LEMMA FromSelf ==
    ASSUME NEW o \in ReplyObject PROVE From(o, o)
  BY Quoted DEF ReplyObject, From

----------------------------------------------------------------------------
(* What is saved of a reply.                                                *)

Sorted(S) == [i \in 1 .. Cardinality(S) |->
    CHOOSE x \in S : Cardinality({y \in S : y < x}) = i - 1]
Smaller(S) == {p \in S \X S : p[1] < p[2]}

LEMMA SortedNumbers ==
    ASSUME NEW n \in Nat, NEW S, S \subseteq 1 .. n
    PROVE  /\ Cardinality(S) \in Nat /\ (S # {} => Cardinality(S) # 0)
           /\ Sorted(S) \in [1 .. Cardinality(S) -> S]
           /\ \A i, j \in 1 .. Cardinality(S) : i < j => Sorted(S)[i] < Sorted(S)[j]
           /\ \A x \in S : \E i \in 1 .. Cardinality(S) : Sorted(S)[i] = x
  <1>1. IsFiniteSet(S)
    <2>1. IsFiniteSet(1 .. n)
      BY FS_Interval
    <2> QED BY <2>1, FS_Subset
  <1>2. StrictOrder(S, Smaller(S))
    BY DEF StrictOrder, Smaller
  <1>3. ByRank(Sorted(S), S, Smaller(S))
    <2>1. ASSUME NEW i \in 1 .. Cardinality(S), NEW x \in S, Cardinality(Below(S, Smaller(S), x)) = i - 1
          PROVE  Sorted(S)[i] \in S /\ Cardinality(Below(S, Smaller(S), Sorted(S)[i])) = i - 1
      <3>1. ASSUME NEW z \in S PROVE {y \in S : y < z} = Below(S, Smaller(S), z)
        BY DEF Below, Smaller
      <3>2. Sorted(S)[i] = CHOOSE z \in S : Cardinality({y \in S : y < z}) = i - 1
        BY DEF Sorted
      <3>3. Cardinality({y \in S : y < x}) = i - 1
        BY <2>1, <3>1
      <3>4. Sorted(S)[i] \in S /\ Cardinality({y \in S : y < Sorted(S)[i]}) = i - 1
        BY <3>2, <3>3
      <3> QED BY <3>1, <3>4
    <2> QED BY <2>1 DEF ByRank
  <1>4. /\ Cardinality(S) \in Nat
        /\ \A i \in 1 .. Cardinality(S) : Sorted(S)[i] \in S
        /\ \A i, j \in 1 .. Cardinality(S) : i < j => <<Sorted(S)[i], Sorted(S)[j]>> \in Smaller(S)
        /\ \A x \in S : \E i \in 1 .. Cardinality(S) : Sorted(S)[i] = x
    BY <1>1, <1>2, <1>3, Enumerated
  <1>6. Sorted(S) \in [1 .. Cardinality(S) -> S]
    <2>1. PICK rank : rank = [i \in 1 .. Cardinality(S) |->
                        CHOOSE x \in S : Cardinality({y \in S : y < x}) = i - 1]
      OBVIOUS
    <2>2. Sorted(S) = rank
      BY <2>1 DEF Sorted
    <2> QED BY <1>4, <2>1, <2>2
  <1>7. S # {} => Cardinality(S) # 0
    BY <1>1, FS_EmptySet
  <1>8. \A i, j \in 1 .. Cardinality(S) : i < j => Sorted(S)[i] < Sorted(S)[j]
    BY <1>4 DEF Smaller
  <1> QED BY <1>4, <1>6, <1>7, <1>8

(* Objects that say what others say, in their order.                        *)
SaidIn(objects, source) ==
    \E f \in [DOMAIN objects -> DOMAIN source] :
          /\ \A i, j \in DOMAIN objects : i < j => f[i] < f[j]
          /\ \A i \in DOMAIN objects : From(objects[i], source[f[i]])

LEMMA SaidInOrder ==
    ASSUME NEW source \in Seq(ReplyObject), NEW objects \in Seq(ReplyObject), Len(objects) = Len(source),
           \A i \in 1 .. Len(source) : From(objects[i], source[i])
    PROVE  SaidIn(objects, source)
  <1> DEFINE f == [i \in DOMAIN objects |-> i]
  <1>1. DOMAIN objects = DOMAIN source /\ DOMAIN source = 1 .. Len(source)
    OBVIOUS
  <1>2. f \in [DOMAIN objects -> DOMAIN source] /\ \A i \in DOMAIN objects : f[i] = i
    BY <1>1
  <1> HIDE DEF f
  <1> QED BY <1>1, <1>2 DEF SaidIn

LEMMA SalvagedReply ==
    ASSUME NEW data \in ReplyData, NEW s, s = Salvaged(data), s # None
    PROVE  /\ s \in ReplyData
           /\ \A i \in DOMAIN s.objects : ValidObject(s.objects[i])
           /\ SaidIn(s.objects, data.objects)
           /\ data.objects # << >> => s.objects # << >>
  <1> DEFINE work == [data EXCEPT !.unknown = FALSE]
             parts == IF Aggregate THEN [i \in DOMAIN work.objects |-> Repaired(work.objects[i])]
                      ELSE work.objects
             S == {i \in DOMAIN parts : ValidObject(parts[i])}
             kept == Sorted(S)
             n == Len(data.objects)
  <1>1. s = IF Valid(work) THEN work
            ELSE IF S = {} \/ ~(work.list \/ Aggregate) THEN None
            ELSE [work EXCEPT !.objects = [k \in DOMAIN kept |-> parts[kept[k]]]]
    BY DEF Salvaged, At, Ordered, Sorted
  <1>2. /\ data.objects \in Seq(ReplyObject) /\ n \in Nat /\ DOMAIN data.objects = 1 .. n
        /\ \A i \in 1 .. n : data.objects[i] \in ReplyObject
    BY DEF ReplyData
  <1>3. work \in ReplyData /\ work.objects = data.objects
    BY DEF ReplyData
  <1>4. CASE Valid(work)
    <2>1. s = work
      BY <1>1, <1>4
    <2>2. SaidIn(data.objects, data.objects)
      <3>1. \A i \in 1 .. n : From(data.objects[i], data.objects[i])
        BY <1>2, FromSelf
      <3> QED BY <1>2, <3>1, SaidInOrder
    <2>3. \A i \in DOMAIN work.objects : ValidObject(work.objects[i])
      BY <1>4 DEF Valid
    <2> QED BY <1>3, <2>1, <2>2, <2>3
  <1>5. CASE ~Valid(work)
    <2>1. S # {} /\ s = [work EXCEPT !.objects = [k \in DOMAIN kept |-> parts[kept[k]]]]
      BY <1>1, <1>5
    <2>2. /\ DOMAIN parts = 1 .. n
          /\ \A i \in 1 .. n : parts[i] \in ReplyObject /\ From(parts[i], data.objects[i])
      <3>1. CASE Aggregate
        <4>1. DOMAIN parts = 1 .. n /\ \A i \in 1 .. n : parts[i] = Repaired(data.objects[i])
          BY <1>2, <1>3, <3>1
        <4> QED BY <1>2, <4>1, RepairedObject
      <3>2. CASE ~Aggregate
        BY <1>2, <1>3, <3>2, FromSelf
      <3> QED BY <3>1, <3>2
    <2>3. S \subseteq 1 .. n
      BY <2>2
    <2>4. \A i \in S : ValidObject(parts[i])
      OBVIOUS
    <2> DEFINE m == Cardinality(S)
               said == [k \in DOMAIN kept |-> parts[kept[k]]]
    <2> HIDE DEF work, parts, S
    <2>5. m \in Nat /\ kept \in [1 .. m -> S] /\ \A i, j \in 1 .. m : i < j => kept[i] < kept[j]
      BY <1>2, <2>3, SortedNumbers
    <2> HIDE DEF kept, m
    <2>6. /\ DOMAIN kept = 1 .. m
          /\ \A k \in 1 .. m : kept[k] \in 1 .. n /\ ValidObject(parts[kept[k]])
      BY <2>3, <2>4, <2>5
    <2>7. said \in Seq(ReplyObject) /\ DOMAIN said = 1 .. m /\ \A k \in 1 .. m : said[k] = parts[kept[k]]
      <3>1. said \in [1 .. m -> ReplyObject]
        BY <2>2, <2>6
      <3> QED BY <2>5, <2>6, <3>1
    <2> HIDE DEF said
    <2>8. s \in ReplyData /\ s.objects = said
      BY <1>3, <2>1, <2>7 DEF said, ReplyData
    <2>9. SaidIn(said, data.objects)
      <3>1. kept \in [DOMAIN said -> DOMAIN data.objects]
        BY <1>2, <2>5, <2>6, <2>7
      <3>2. \A i, j \in DOMAIN said : i < j => kept[i] < kept[j]
        BY <2>5, <2>7
      <3>3. \A i \in DOMAIN said : From(said[i], data.objects[kept[i]])
        BY <2>2, <2>6, <2>7
      <3> QED BY <3>1, <3>2, <3>3 DEF SaidIn
    <2>10. said # << >>
      <3>1. m # 0
        BY <1>2, <2>1, <2>3, SortedNumbers DEF m
      <3> QED BY <2>5, <2>7, <3>1
    <2> QED BY <2>6, <2>7, <2>8, <2>9, <2>10
  <1> QED BY <1>4, <1>5

----------------------------------------------------------------------------
(* What is made of it for the report.                                       *)

LEMMA EvidenceCounted ==
    ASSUME NEW objects \in Seq(ReplyObject)
    PROVE  /\ Cardinality(EvidenceOf(objects)) \in Nat
           /\ Cardinality(Missed(objects)) \in Nat
           /\ \A p \in EvidenceOf(objects) :
                 p[1] \in DOMAIN objects /\ p[2] \in DOMAIN Quotations(objects[p[1]])
  <1> DEFINE lists == [i \in DOMAIN objects |-> Quotations(objects[i])]
             n == Len(objects)
  <1>1. n \in Nat /\ DOMAIN lists = 1 .. n /\ \A i \in 1 .. n : objects[i] \in ReplyObject
    OBVIOUS
  <1>2. ASSUME NEW i \in 1 .. n PROVE IsFiniteSet(DOMAIN lists[i])
    <2>1. PICK s \in Seq(Quotation) : s = Quotations(objects[i])
      BY <1>1, QuotationsAt
    <2>2. lists[i] = s
      BY <1>1, <2>1
    <2> HIDE DEF lists
    <2>3. PICK k \in Nat : DOMAIN lists[i] = 1 .. k
      BY <2>2
    <2>4. IsFiniteSet(1 .. k)
      BY FS_Interval
    <2> QED BY <2>3, <2>4
  <1>3. EvidenceOf(objects) = Places(lists)
    BY DEF EvidenceOf
  <1>4. \A p \in Places(lists) : p[1] \in DOMAIN lists /\ p[2] \in DOMAIN lists[p[1]]
    BY DEF Places
  <1>5. \A p \in EvidenceOf(objects) : p[1] \in DOMAIN objects /\ p[2] \in DOMAIN Quotations(objects[p[1]])
    BY <1>3, <1>4
  <1> HIDE DEF lists, n
  <1>6. IsFiniteSet(EvidenceOf(objects)) /\ Cardinality(EvidenceOf(objects)) \in Nat
    BY <1>1, <1>2, <1>3, PlacesFinite
  <1>7. Missed(objects) \subseteq EvidenceOf(objects)
    BY DEF Missed
  <1> QED BY <1>5, <1>6, <1>7, FS_Subset, FS_CardinalityType

(* What is missed does not depend on how sure anybody is.                   *)
LEMMA MissedAlike ==
    ASSUME NEW some \in Seq(ReplyObject), NEW others \in Seq(ReplyObject), DOMAIN some = DOMAIN others,
           \A i \in DOMAIN some :
              /\ DOMAIN Quotations(some[i]) = DOMAIN Quotations(others[i])
              /\ \A j \in DOMAIN Quotations(some[i]) :
                    Genuine(Quotations(some[i])[j]) <=> Genuine(Quotations(others[i])[j])
    PROVE  EvidenceOf(some) = EvidenceOf(others) /\ Missed(some) = Missed(others)
  <1>1. EvidenceOf(some) = EvidenceOf(others)
    <2>1. EvidenceOf(some) = UNION {{i} \X DOMAIN Quotations(some[i]) : i \in DOMAIN some}
      BY DEF EvidenceOf, Places
    <2>2. EvidenceOf(others) = UNION {{i} \X DOMAIN Quotations(others[i]) : i \in DOMAIN others}
      BY DEF EvidenceOf, Places
    <2> QED BY <2>1, <2>2
  <1>2. \A p \in EvidenceOf(some) :
           Genuine(Quotations(some[p[1]])[p[2]]) <=> Genuine(Quotations(others[p[1]])[p[2]])
    BY EvidenceCounted
  <1> QED BY <1>1, <1>2 DEF Missed

(* The objects of a report: valid, said by the model, and sure of nothing   *)
(* that is not supported.                                                   *)
Capped(o) ==
    /\ o.evidence = << >> => o.conf <= Cap
    /\ \A j \in DOMAIN Quotations(o) : Quotations(o)[j].conf > Cap => Genuine(Quotations(o)[j])
Supported(objects, source) ==
    /\ objects \in Seq(ReplyObject)
    /\ \A i \in DOMAIN objects : ValidObject(objects[i]) /\ Capped(objects[i])
    /\ SaidIn(objects, source)
    /\ source # << >> => objects # << >>

CompletedOf(objects) == [i \in DOMAIN objects |-> Completed(objects[i])]
CheckedOf(objects) == [i \in DOMAIN objects |-> Checked(objects[i])]

LEMMA ReportMade ==
    ASSUME NEW said \in Seq(ReplyObject), NEW source \in Seq(ReplyObject),
           \A i \in DOMAIN said : ValidObject(said[i]),
           SaidIn(said, source), source # << >> => said # << >>,
           NEW full, full = CompletedOf(said), NEW told, told = CheckedOf(full)
    PROVE  /\ Supported(told, source)
           /\ EvidenceOf(told) = EvidenceOf(full) /\ Missed(told) = Missed(full)
           /\ Cardinality(EvidenceOf(full)) \in Nat /\ Cardinality(Missed(full)) \in Nat
  <1> DEFINE n == Len(said)
  <1>1. n \in Nat /\ DOMAIN said = 1 .. n /\ \A i \in 1 .. n : said[i] \in ReplyObject
    OBVIOUS
  <1>2. ASSUME NEW i \in 1 .. n
        PROVE  /\ full[i] \in ReplyObject /\ From(full[i], said[i]) /\ ValidObject(full[i])
               /\ full[i].evidence = << >> => full[i].conf <= Cap
    <2>1. full[i] = Completed(said[i]) /\ said[i] \in ReplyObject /\ ValidObject(said[i])
      BY <1>1 DEF CompletedOf
    <2> QED BY <2>1, CompletedObject
  <1>3. full \in Seq(ReplyObject) /\ DOMAIN full = 1 .. n
    <2>1. full \in [1 .. n -> ReplyObject]
      BY <1>1, <1>2 DEF CompletedOf
    <2> QED BY <1>1, <2>1
  <1>4. ASSUME NEW i \in 1 .. n
        PROVE  /\ told[i] \in ReplyObject /\ From(told[i], full[i]) /\ ValidObject(told[i]) /\ Capped(told[i])
               /\ DOMAIN Quotations(told[i]) = DOMAIN Quotations(full[i])
               /\ \A j \in DOMAIN Quotations(told[i]) :
                     Genuine(Quotations(told[i])[j]) <=> Genuine(Quotations(full[i])[j])
    <2>1. told[i] = Checked(full[i]) /\ full[i] \in ReplyObject /\ ValidObject(full[i])
      BY <1>2, <1>3 DEF CheckedOf
    <2>2. /\ told[i] \in ReplyObject /\ From(told[i], full[i]) /\ ValidObject(told[i])
          /\ Len(told[i].evidence) = Len(full[i].evidence) /\ told[i].conf = full[i].conf
          /\ DOMAIN Quotations(told[i]) = DOMAIN Quotations(full[i])
          /\ \A j \in DOMAIN Quotations(told[i]) :
                /\ Quotations(told[i])[j].conf > Cap => Genuine(Quotations(told[i])[j])
                /\ Genuine(Quotations(told[i])[j]) <=> Genuine(Quotations(full[i])[j])
      BY <2>1, CheckedObject
    <2>3. told[i].evidence \in Seq(Quotation) /\ full[i].evidence \in Seq(Quotation)
      BY <2>1, <2>2 DEF ReplyObject
    <2>5. told[i].evidence = << >> => full[i].evidence = << >>
      BY <2>2, <2>3
    <2> QED BY <1>2, <2>2, <2>5 DEF Capped
  <1>5. told \in Seq(ReplyObject) /\ DOMAIN told = 1 .. n
    <2>1. told \in [1 .. n -> ReplyObject]
      BY <1>3, <1>4 DEF CheckedOf
    <2> QED BY <1>1, <2>1
  <1>6. SaidIn(told, source)
    <2>1. PICK f \in [DOMAIN said -> DOMAIN source] :
             /\ \A i, j \in DOMAIN said : i < j => f[i] < f[j]
             /\ \A i \in DOMAIN said : From(said[i], source[f[i]])
      BY DEF SaidIn
    <2>2. ASSUME NEW i \in 1 .. n PROVE From(told[i], source[f[i]])
      <3>1. f[i] \in DOMAIN source /\ From(said[i], source[f[i]])
        BY <1>1, <2>1
      <3>2. source[f[i]] \in ReplyObject
        BY <3>1
      <3>3. From(full[i], source[f[i]])
        BY <1>1, <1>2, <3>1, <3>2, FromChain
      <3> QED BY <1>2, <1>4, <3>2, <3>3, FromChain
    <2> QED BY <1>1, <1>5, <2>1, <2>2 DEF SaidIn
  <1>7. source # << >> => told # << >>
    <2>1. told = << >> => n = 0
      <3>1. DOMAIN << >> = {}
        OBVIOUS
      <3>2. n # 0 => 1 \in 1 .. n
        BY <1>1
      <3> HIDE DEF n
      <3> QED BY <1>5, <3>1, <3>2
    <2>2. n = 0 => said = << >>
      OBVIOUS
    <2> QED BY <2>1, <2>2
  <1>8. EvidenceOf(told) = EvidenceOf(full) /\ Missed(told) = Missed(full)
    BY <1>3, <1>4, <1>5, MissedAlike
  <1>9. Cardinality(EvidenceOf(full)) \in Nat /\ Cardinality(Missed(full)) \in Nat
    BY <1>3, EvidenceCounted
  <1> QED BY <1>4, <1>5, <1>6, <1>7, <1>8, <1>9 DEF Supported

LEMMA LevelCovers ==
    ASSUME NEW ms \in Seq(StoredChunk)
    PROVE  LevelOf(ms) \in 1 .. 3 /\ \A i \in DOMAIN ms : ms[i].level <= LevelOf(ms)
  <1> DEFINE S == {1} \cup {m.level : m \in Range(ms)}
  <1>1. \A m \in Range(ms) : m.level \in 0 .. 3
    <2>1. \A i \in DOMAIN ms : ms[i] \in StoredChunk
      OBVIOUS
    <2> QED BY <2>1 DEF StoredChunk, Range
  <1>2. S \subseteq 0 .. 3 /\ S # {} /\ 1 \in S
    BY <1>1
  <1>3. \A i \in DOMAIN ms : ms[i].level \in S
    BY DEF Range
  <1>4. LevelOf(ms) = Max(S)
    BY DEF LevelOf
  <1> HIDE DEF S
  <1>5. Max(S) \in S /\ \A x \in S : x <= Max(S)
    BY <1>2, MaxOfSome
  <1>6. Max(S) \in 0 .. 3 /\ 1 <= Max(S)
    BY <1>2, <1>5
  <1> QED BY <1>3, <1>4, <1>5, <1>6

----------------------------------------------------------------------------
(* The report.                                                              *)

(* A report is as confidential as its materials, and the submitter's own.   *)
Reported == report # None =>
    report.level = LevelOf(materials) /\ report.scope = "personal" /\ report.owner = access.user

(* All that is claimed of a report.                                         *)
ReportSound == StatusEarned /\ UnsupportedCapped /\ NothingInvented /\ Reported

LEMMA NoReport == report' = None => ReportSound'
  BY DEF ReportSound, StatusEarned, UnsupportedCapped, NothingInvented, Reported

LEMMA ReportStays ==
    ASSUME UnderWay, ReportSound, Aside
    PROVE  ReportSound'
  <1>1. CASE report = None
    BY <1>1, NoReport DEF Aside
  <1>2. CASE report # None
    <2>1. UNCHANGED <<setting, access, materials, given, report, last>>
      BY <1>2 DEF UnderWay, Aside
    <2>2. StatusEarned'
      BY <2>1 DEF ReportSound, StatusEarned, Valid, ValidObject, Aggregate, Missed, Genuine
    <2>3. UnsupportedCapped'
      BY <2>1 DEF ReportSound, UnsupportedCapped
    <2>4. NothingInvented'
      BY <2>1 DEF ReportSound, NothingInvented, ValidObject
    <2>5. Reported'
      BY <2>1 DEF ReportSound, Reported
    <2> QED BY <2>2, <2>3, <2>4, <2>5 DEF ReportSound
  <1> QED BY <1>1, <1>2

LEMMA AnsweredSound ==
    ASSUME UnderWay, MaterialsWithinAsked, Answered
    PROVE  UnderWay' /\ MaterialsWithinAsked' /\ ReportSound'
  <1>1. /\ UNCHANGED <<setting, ctx, access, materials, truncated, given, last>>
        /\ pc = "search" /\ pc' \in {"failed", "told", "stored"}
    BY DEF Answered, Keep
  <1>2. MaterialsWithinAsked'
    BY <1>1, MaterialsStay
  <1>3. pc' = "stored" => setting.type # "query"
    BY DEF Answered
  <1>4. report' # None => pc' = "stored"
    BY DEF Answered
  <1>5. UnderWay'
    BY <1>1, <1>3, <1>4 DEF UnderWay
  <1>6. CASE report' = None
    BY <1>2, <1>5, <1>6, NoReport
  <1>7. CASE report' # None
    <2>1. report' = [status |-> "ok", objects |-> << >>, shown |-> search.sources,
                     level |-> LevelOf(materials), scope |-> "personal", owner |-> access.user]
      BY <1>7 DEF Answered, Stored
    <2>2. setting.type = "qa"
      BY <1>1, <1>3, <1>4, <1>7 DEF UnderWay
    <2>3. StatusEarned' /\ NothingInvented'
      BY <1>1, <2>2 DEF StatusEarned, NothingInvented
    <2>4. UnsupportedCapped'
      <3>1. report'.objects = << >>
        BY <2>1
      <3>2. DOMAIN << >> = {}
        OBVIOUS
      <3> QED BY <3>1, <3>2 DEF UnsupportedCapped
    <2>5. Reported'
      BY <1>1, <2>1 DEF Reported, LevelOf
    <2> QED BY <1>2, <1>5, <2>3, <2>4, <2>5 DEF ReportSound
  <1> QED BY <1>6, <1>7

(* What a report is made from is valid, whole or saved.                     *)
LEMMA PartsUsed ==
    ASSUME NEW reply \in ReplyData, NEW data, data # None,
           data = IF Valid(reply) THEN reply ELSE Salvaged(reply)
    PROVE  /\ data \in ReplyData
           /\ \A i \in DOMAIN data.objects : ValidObject(data.objects[i])
           /\ SaidIn(data.objects, reply.objects)
           /\ reply.objects # << >> => data.objects # << >>
  <1>1. CASE Valid(reply)
    <2>1. reply.objects \in Seq(ReplyObject)
      BY DEF ReplyData
    <2>2. \A i \in 1 .. Len(reply.objects) : From(reply.objects[i], reply.objects[i])
      BY <2>1, FromSelf
    <2>3. SaidIn(reply.objects, reply.objects)
      BY <2>1, <2>2, SaidInOrder
    <2> QED BY <1>1, <2>3 DEF Valid
  <1>2. CASE ~Valid(reply)
    BY <1>2, SalvagedReply
  <1> QED BY <1>1, <1>2

LEMMA ConcludeSound ==
    ASSUME UnderWay, MaterialsWithinAsked, Conclude
    PROVE  UnderWay' /\ MaterialsWithinAsked' /\ ReportSound'
  <1> DEFINE whole == last # None /\ Valid(last)
             data == IF whole THEN last ELSE IF last = None THEN None ELSE Salvaged(last)
  <1>1. /\ UNCHANGED <<setting, ctx, access, materials, truncated, given, last>>
        /\ pc = "parsed" /\ pc' \in {"failed", "stored"}
    BY DEF Conclude, Keep
  <1>2. MaterialsWithinAsked'
    BY <1>1, MaterialsStay
  <1>3. CASE data = None
    <2>1. report' = None /\ pc' = "failed"
      BY <1>3 DEF Conclude
    <2>2. UnderWay'
      BY <1>1, <2>1 DEF UnderWay
    <2> QED BY <1>2, <2>1, <2>2, NoReport
  <1>4. CASE data # None
    <2>1. last # None /\ last \in ReplyData /\ data = IF Valid(last) THEN last ELSE Salvaged(last)
      BY <1>4 DEF UnderWay
    <2>2. PICK said : said = data.objects
      OBVIOUS
    <2>3. PICK full : full = CompletedOf(said)
      OBVIOUS
    <2>4. PICK told : told = CheckedOf(full)
      OBVIOUS
    <2> DEFINE status == IF whole /\ ~TooMany(Cardinality(Missed(full)), Cardinality(EvidenceOf(full)))
                         THEN "ok" ELSE "partial"
    <2>5. /\ pc' = "stored"
          /\ report' = [status |-> status, objects |-> told, shown |-> [i \in DOMAIN Shown |-> Shown[i].id],
                        level |-> LevelOf(materials), scope |-> "personal", owner |-> access.user]
      BY <1>4, <2>2, <2>3, <2>4 DEF Conclude, Stored, CompletedOf, CheckedOf
    <2>6. /\ data \in ReplyData /\ \A i \in DOMAIN said : ValidObject(said[i])
          /\ SaidIn(said, last.objects) /\ (last.objects # << >> => said # << >>)
      BY <1>4, <2>1, <2>2, PartsUsed
    <2> HIDE DEF data
    <2>7. said \in Seq(ReplyObject) /\ last.objects \in Seq(ReplyObject)
      BY <2>1, <2>2, <2>6 DEF ReplyData
    <2>8. PICK source \in Seq(ReplyObject) : source = last.objects
      BY <2>7
    <2>9. SaidIn(said, source) /\ (source # << >> => said # << >>)
      BY <2>6, <2>8
    <2>10. /\ Supported(told, source)
           /\ EvidenceOf(told) = EvidenceOf(full) /\ Missed(told) = Missed(full)
           /\ Cardinality(EvidenceOf(full)) \in Nat /\ Cardinality(Missed(full)) \in Nat
      BY <2>3, <2>4, <2>6, <2>7, <2>9, ReportMade
    <2>11. /\ report'.objects = told /\ report'.status = status
           /\ report'.level = LevelOf(materials) /\ report'.scope = "personal"
           /\ report'.owner = access.user
      BY <2>5
    <2>12. status = "ok" <=> Valid(last)
             /\ 10 * Cardinality(Missed(told)) <= 3 * Cardinality(EvidenceOf(told))
      BY <2>1, <2>10 DEF TooMany
    <2> HIDE DEF status
    <2>13. UnderWay'
      BY <1>1, <2>5 DEF UnderWay
    <2>14. StatusEarned'
      <3>1. Missed(told)' = Missed(told) /\ EvidenceOf(told)' = EvidenceOf(told) /\ Valid(last)' = Valid(last)
        BY <1>1 DEF Missed, Genuine, Valid, ValidObject, Aggregate
      <3>2. last.objects # << >> => told # << >>
        BY <2>8, <2>10 DEF Supported
      <3> QED BY <1>1, <2>1, <2>11, <2>12, <3>1, <3>2 DEF StatusEarned
    <2>15. UnsupportedCapped'
      <3>1. \A i \in DOMAIN told : Capped(told[i])
        BY <2>10 DEF Supported
      <3>2. ASSUME NEW i \in DOMAIN told, NEW e \in Range(Quotations(told[i])), e.conf > Cap
            PROVE  \E m \in Range(given') : m.id = e.chunk /\ e.quote \in Range(m.text)
        <4>1. Genuine(e)
          BY <3>1, <3>2 DEF Capped, Range
        <4> QED BY <1>1, <4>1 DEF Genuine
      <3> QED BY <2>11, <3>1, <3>2 DEF UnsupportedCapped, Capped
    <2>16. NothingInvented'
      <3>1. \A i \in DOMAIN told : ValidObject(told[i])'
        BY <1>1, <2>10 DEF Supported, ValidObject
      <3>2. SaidIn(told, last'.objects)
        BY <1>1, <2>8, <2>10 DEF Supported
      <3> QED BY <2>11, <3>1, <3>2 DEF NothingInvented, SaidIn
    <2>17. Reported'
      BY <1>1, <2>11 DEF Reported, LevelOf
    <2> QED BY <1>2, <2>13, <2>14, <2>15, <2>16, <2>17 DEF ReportSound
  <1> QED BY <1>3, <1>4

----------------------------------------------------------------------------
(* The theorems.                                                            *)

Sound == UnderWay /\ MaterialsWithinAsked /\ ReportSound

LEMMA SoundInit == Init => Sound
  <1>1. Init => ReportSound
    BY DEF Init, ReportSound, StatusEarned, UnsupportedCapped, NothingInvented, Reported
  <1> QED BY <1>1, InitUnderWay DEF Sound

LEMMA SoundNext == Sound /\ [Next]_vars => Sound'
  <1> SUFFICES ASSUME Sound, [Next]_vars PROVE Sound'
    OBVIOUS
  <1>1. UnderWay /\ MaterialsWithinAsked /\ ReportSound /\ setting \in Settings /\ ctx \in Contexts \cup {None}
    BY DEF Sound, UnderWay
  <1>2. CASE Gather
    <2>1. report' = None
      BY <1>1, <1>2 DEF Gather, Keep, UnderWay
    <2> QED BY <1>1, <1>2, <2>1, GatherUnderWay, NoReport DEF Sound
  <1>3. CASE Conclude
    BY <1>1, <1>3, ConcludeSound DEF Sound
  <1>4. CASE Answered
    BY <1>1, <1>4, AnsweredSound DEF Sound
  <1>5. CASE \/ Submit \/ Ask \/ ImageFails \/ Disown \/ Raise \/ SearchForJob \/ Change
             \/ \E reply \in Replies[setting.type] : Attempt(reply)
             \/ UNCHANGED vars
    <2>1. Aside /\ (last' = last \/ last' = None \/ last' \in ReplyData)
      BY <1>1, <1>5, StepsAside
    <2>2. ctx' \in Contexts \cup {None}
      BY <1>1, <1>5, SearchKeeps
         DEF Submit, Ask, ImageFails, Disown, Raise, SearchForJob, Change, Attempt, Keep, vars
    <2> QED BY <1>1, <2>1, <2>2, AsideUnderWay, ReportStays DEF Sound
  <1> QED BY <1>2, <1>3, <1>4, <1>5 DEF Next, Proceed

LEMMA AlwaysSound == FairSpec => []Sound
  <1>1. Init => Sound
    BY SoundInit
  <1>2. Sound /\ [Next]_vars => Sound'
    BY SoundNext
  <1> QED BY <1>1, <1>2, PTL DEF FairSpec

(* The materials of an analysis are of what its submitter asked for and may *)
(* read when the job begins, the first ones in the order of the request and *)
(* of the text, within the limits; what is left out is told, and what is    *)
(* gathered is shown to the model whole.                                    *)
THEOREM MaterialsAreAsked == FairSpec => []MaterialsWithinAsked
  <1>1. Sound => MaterialsWithinAsked
    BY DEF Sound
  <1> QED BY <1>1, AlwaysSound, PTL

(* A report is "ok" exactly if the last reply was valid as it was and at    *)
(* most 30 % of the evidence is not found in what was shown, it keeps       *)
(* something of a reply that says something, and what is not supported is   *)
(* no surer than the cap.                                                   *)
THEOREM GradesAreHonest == FairSpec => []GradedHonestly
  <1>1. Sound => GradedHonestly
    BY DEF Sound, ReportSound, GradedHonestly
  <1> QED BY <1>1, AlwaysSound, PTL

(* What a report says the last reply says, in its order, after all repairs. *)
THEOREM ReportsQuote == FairSpec => []NothingInvented
  <1>1. Sound => NothingInvented
    BY DEF Sound, ReportSound
  <1> QED BY <1>1, AlwaysSound, PTL

----------------------------------------------------------------------------
(* What a search finds.                                                     *)

ChunkIds == Nat \X Nat
Readables(s) == Range(s) \subseteq Readable(search.ctx)

(* What At returns: the items at the places, none added, none lost, in their order. *)
PicksOut(t, s, places) ==
    /\ \A k \in DOMAIN t : \E i \in places : t[k] = s[i]
    /\ (\A i, j \in places : s[i] = s[j] => i = j) => Unrepeated(t)
    /\ t = << >> <=> places = {}
    /\ \A i \in places : \E k \in DOMAIN t : t[k] = s[i]
    /\ \A k, l \in DOMAIN t : k < l => \E i, j \in places : i < j /\ t[k] = s[i] /\ t[l] = s[j]

(* The members of a sequence at some places.                                *)
LEMMA AtPlaces ==
    ASSUME NEW T, NEW s \in Seq(T), NEW places, places \subseteq 1 .. Len(s)
    PROVE  At(s, places) \in Seq(T) /\ PicksOut(At(s, places), s, places)
  <1> DEFINE n == Cardinality(places)
             order == Sorted(places)
  <1>1. /\ n \in Nat /\ order \in [1 .. n -> places] /\ (places # {} => n # 0)
        /\ \A i, j \in 1 .. n : i < j => order[i] < order[j]
        /\ \A x \in places : \E k \in 1 .. n : order[k] = x
    <2>1. Len(s) \in Nat
      OBVIOUS
    <2> QED BY <2>1, SortedNumbers
  <1>2. At(s, places) = [k \in DOMAIN order |-> s[order[k]]]
    BY DEF At, Ordered, Sorted
  <1>3. \A i \in places : s[i] \in T
    OBVIOUS
  <1>4. \A i \in 1 .. n : order[i] \in Nat
    <2>1. \A i \in places : i \in Nat
      OBVIOUS
    <2> HIDE DEF n, order
    <2> QED BY <1>1, <2>1
  <1>5. places = {} => n = 0
    BY FS_EmptySet
  <1> HIDE DEF n, order
  <1>6. /\ At(s, places) \in [1 .. n -> T] /\ \A k \in 1 .. n : At(s, places)[k] = s[order[k]]
    BY <1>1, <1>2, <1>3
  <1>7. At(s, places) \in Seq(T) /\ Len(At(s, places)) = n /\ DOMAIN At(s, places) = 1 .. n
    BY <1>1, <1>6
  <1>8. ASSUME \A i, j \in places : s[i] = s[j] => i = j PROVE Unrepeated(At(s, places))
    <2> SUFFICES ASSUME NEW i \in 1 .. n, NEW j \in 1 .. n, At(s, places)[i] = At(s, places)[j]
                 PROVE  i = j
      BY <1>7 DEF Unrepeated
    <2>1. order[i] = order[j]
      <3>1. order[i] \in places /\ order[j] \in places /\ s[order[i]] = s[order[j]]
        BY <1>1, <1>6
      <3> QED BY <1>8, <3>1
    <2>2. ~(i < j) /\ ~(j < i)
      BY <1>1, <1>4, <2>1
    <2> QED BY <1>1, <2>2
  <1>9. At(s, places) = << >> <=> n = 0
    BY <1>1, <1>7
  <1>10. \A i \in places : \E k \in 1 .. n : At(s, places)[k] = s[i]
    BY <1>1, <1>6
  <1>11. ASSUME NEW k \in 1 .. n, NEW l \in 1 .. n, k < l
         PROVE  \E i, j \in places : i < j /\ At(s, places)[k] = s[i] /\ At(s, places)[l] = s[j]
    BY <1>1, <1>6, <1>11
  <1>12. At(s, places) = << >> <=> places = {}
    BY <1>1, <1>5, <1>9
  <1>13. \A k \in 1 .. n : \E i \in places : At(s, places)[k] = s[i]
    BY <1>1, <1>6
  <1>14. \A k, l \in 1 .. n : k < l =>
            \E i, j \in places : i < j /\ At(s, places)[k] = s[i] /\ At(s, places)[l] = s[j]
    BY <1>11
  <1> QED BY <1>7, <1>8, <1>10, <1>12, <1>13, <1>14 DEF PicksOut

LEMMA FirstHonest ==
    ASSUME NEW T, NEW s \in Seq(T), NEW n \in Nat
    PROVE  /\ First(s, n) \in Seq(T) /\ Len(First(s, n)) <= n
           /\ Range(First(s, n)) \subseteq Range(s)
           /\ Unrepeated(s) => Unrepeated(First(s, n))
  <1>1. /\ First(s, n) \in Seq(T)
        /\ Len(First(s, n)) = IF n <= Len(s) THEN n ELSE Len(s)
        /\ \A i \in 1 .. Len(First(s, n)) : First(s, n)[i] = s[i]
    BY FirstOnes
  <1>2. Len(s) \in Nat /\ DOMAIN s = 1 .. Len(s) /\ DOMAIN First(s, n) = 1 .. Len(First(s, n))
    BY <1>1
  <1>3. Len(First(s, n)) <= n /\ DOMAIN First(s, n) \subseteq DOMAIN s
    BY <1>1, <1>2
  <1>4. \A i \in DOMAIN First(s, n) : First(s, n)[i] = s[i]
    BY <1>1, <1>2
  <1> QED BY <1>1, <1>3, <1>4 DEF Range, Unrepeated

LEMMA HitsHonest ==
    ASSUME NEW ranking \in Seq(ChunkIds), NEW k \in Nat
    PROVE  /\ Hits(ranking, k) \in Seq(ChunkIds) /\ Len(Hits(ranking, k)) <= k
           /\ Readables(Hits(ranking, k))
           /\ Unrepeated(ranking) => Unrepeated(Hits(ranking, k))
  <1> DEFINE places == {i \in DOMAIN ranking : ranking[i] \in Readable(search.ctx)}
  <1>1. Hits(ranking, k) = First(At(ranking, places), k)
    BY DEF Hits
  <1>2. places \subseteq 1 .. Len(ranking) /\ DOMAIN ranking = 1 .. Len(ranking)
    OBVIOUS
  <1>3. /\ At(ranking, places) \in Seq(ChunkIds)
        /\ \A j \in DOMAIN At(ranking, places) : \E i \in places : At(ranking, places)[j] = ranking[i]
        /\ (\A i, j \in places : ranking[i] = ranking[j] => i = j) => Unrepeated(At(ranking, places))
    <2>1. PICK chosen : chosen = places
      OBVIOUS
    <2>2. chosen \subseteq 1 .. Len(ranking)
      BY <1>2, <2>1
    <2> HIDE DEF places
    <2>3. /\ At(ranking, chosen) \in Seq(ChunkIds)
          /\ \A j \in DOMAIN At(ranking, chosen) : \E i \in chosen : At(ranking, chosen)[j] = ranking[i]
          /\ (\A i, j \in chosen : ranking[i] = ranking[j] => i = j) => Unrepeated(At(ranking, chosen))
      <3>1. At(ranking, chosen) \in Seq(ChunkIds) /\ PicksOut(At(ranking, chosen), ranking, chosen)
        BY ONLY AtPlaces, ranking \in Seq(ChunkIds), <2>2
      <3> QED BY ONLY <3>1 DEF PicksOut
    <2> QED BY ONLY <2>1, <2>3
  <1>4. Readables(At(ranking, places))
    BY <1>3 DEF Readables, Range
  <1>5. Unrepeated(ranking) => Unrepeated(At(ranking, places))
    BY <1>2, <1>3 DEF Unrepeated
  <1> HIDE DEF places
  <1> QED BY <1>1, <1>3, <1>4, <1>5, FirstHonest DEF Readables

(***************************************************************************)
(* Fusion.                                                                 *)
(***************************************************************************)
Lanes == Seq(Seq(ChunkIds))
Short(lanes) == \A l \in DOMAIN lanes : Len(lanes[l]) <= 900

LEMMA Quotients ==
    ASSUME NEW w \in Nat, NEW x \in Nat \ {0}
    PROVE  w \div x \in Nat /\ (w \div x) * x <= w /\ w < (w \div x + 1) * x
  OBVIOUS

LEMMA Products ==
    ASSUME NEW k \in Nat, NEW a \in Int, NEW b \in Int, a <= b
    PROVE  k * a \in Int /\ k * b \in Int /\ k * a <= k * b
  OBVIOUS

Share(r) == Whole \div (60 + r)
RankIn(lane, id) == IF id \in Range(lane) THEN CHOOSE i \in DOMAIN lane : lane[i] = id ELSE 1000

LEMMA RankOf ==
    ASSUME NEW lane \in Seq(ChunkIds), NEW id
    PROVE  \/ id \in Range(lane) /\ \E r \in 1 .. Len(lane) : RankIn(lane, id) = r /\ Points(lane, id) = Share(r)
           \/ id \notin Range(lane) /\ RankIn(lane, id) = 1000 /\ Points(lane, id) = 0
  <1>1. CASE id \in Range(lane)
    <2>1. \E i \in DOMAIN lane : lane[i] = id
      BY <1>1 DEF Range
    <2>2. PICK r : r = CHOOSE i \in DOMAIN lane : lane[i] = id
      OBVIOUS
    <2>3. r \in DOMAIN lane /\ DOMAIN lane = 1 .. Len(lane)
      BY <2>1, <2>2
    <2>4. RankIn(lane, id) = r
      BY <1>1, <2>2 DEF RankIn
    <2>5. Points(lane, id) = Share(r)
      BY <1>1, <2>2 DEF Points, Share
    <2> QED BY <1>1, <2>3, <2>4, <2>5
  <1>2. CASE id \notin Range(lane)
    BY <1>2 DEF RankIn, Points
  <1> QED BY <1>1, <1>2

LEMMA ShareInt ==
    ASSUME NEW r \in Nat
    PROVE  Share(r) \in Nat
  <1>1. PICK w \in Nat, x \in Nat \ {0} : w = Whole /\ x = 60 + r
    BY DEF Whole
  <1> QED BY <1>1, Quotients DEF Share

(* Up to rank 900 the points of two ranks differ by more than is rounded.   *)
LEMMA SharesApart ==
    ASSUME NEW x \in Nat, NEW y \in Nat, 60 < x, x < y, y <= 960
    PROVE  Whole \div x >= Whole \div y + 100
  <1>0. PICK w \in Nat : w = Whole /\ w > 960 * 104165
    BY DEF Whole
  <1>1. PICK p \in Nat : p = w \div x /\ p * x <= w /\ w < (p + 1) * x
    BY Quotients
  <1>2. PICK q \in Nat : q = w \div y /\ q * y <= w /\ w < (q + 1) * y
    BY Quotients
  <1>3. q + 1 > 104165
    <2>1. (q + 1) * y <= (q + 1) * 960
      BY Products
    <2>2. (q + 1) * y \in Int
      OBVIOUS
    <2>3. (q + 1) * 960 > 960 * 104165
      BY <1>0, <1>2, <2>1, <2>2
    <2> QED BY <2>3
  <1>4. ASSUME p < q + 100 PROVE FALSE
    <2>1. PICK px \in Int : px = x * (p + 1) /\ w < px
      <3>1. x * (p + 1) = (p + 1) * x /\ (p + 1) * x \in Int
        BY ONLY x \in Nat, p \in Nat
      <3> QED BY ONLY <1>1, <3>1
    <2>2. PICK qx \in Int : qx = x * (q + 100) /\ px <= qx
      BY <1>4, <2>1, Products
    <2>3. PICK r \in Int : r = q * x /\ qx = r + 100 * x
      BY <2>2
    <2>4. PICK s \in Int : s = q * (y - 1) /\ r <= s
      BY <2>3, Products
    <2>5. PICK t \in Int : t = q * y /\ s = t - q /\ t <= w
      BY <1>2, <2>4
    <2>6. w < px /\ px <= qx /\ qx = r + 100 * x /\ r <= s /\ s = t - q /\ t <= w
      BY <2>1, <2>2, <2>3, <2>4, <2>5
    <2> QED BY <1>3, <2>6
  <1>5. p >= q + 100
    BY <1>4
  <1> QED BY <1>0, <1>1, <1>2, <1>5

LEMMA ShareLarge ==
    ASSUME NEW r \in Nat, 0 < r, r <= 900
    PROVE  Share(r) \in Nat /\ Share(r) >= 100
  <1>1. PICK w \in Nat : w = Whole /\ w >= 960 * 101
    BY DEF Whole
  <1>2. PICK x \in Nat \ {0} : x = 60 + r /\ x <= 960
    OBVIOUS
  <1>3. PICK p \in Nat : p = w \div x /\ w < (p + 1) * x
    BY Quotients
  <1>4. (p + 1) * x <= (p + 1) * 960 /\ (p + 1) * x \in Int
    BY <1>2, Products
  <1>5. p >= 100
    BY <1>1, <1>3, <1>4
  <1> QED BY <1>1, <1>2, <1>3, <1>5 DEF Share

LEMMA PointsApart ==
    ASSUME NEW lane \in Seq(ChunkIds), Len(lane) <= 900, NEW a, NEW b
    PROVE  /\ Points(lane, a) \in Int /\ Points(lane, b) \in Int
           /\ RankIn(lane, a) \in Int /\ RankIn(lane, b) \in Int
           /\ RankIn(lane, a) <= RankIn(lane, b) => Points(lane, a) >= Points(lane, b)
           /\ RankIn(lane, a) < RankIn(lane, b) => Points(lane, a) >= Points(lane, b) + 100
  <1> DEFINE Ranked(r, p) == \/ r \in Nat /\ 0 < r /\ r <= 900 /\ p = Share(r)
                             \/ r = 1000 /\ p = 0
  <1>1. ASSUME NEW id PROVE \E r, p : r = RankIn(lane, id) /\ p = Points(lane, id) /\ Ranked(r, p)
    <2>1. PICK m \in Nat : m = Len(lane) /\ m <= 900
      OBVIOUS
    <2>2. \/ \E r \in 1 .. m : RankIn(lane, id) = r /\ Points(lane, id) = Share(r)
          \/ RankIn(lane, id) = 1000 /\ Points(lane, id) = 0
      BY <2>1, RankOf
    <2>3. ASSUME NEW r \in 1 .. m, RankIn(lane, id) = r, Points(lane, id) = Share(r)
          PROVE  Ranked(RankIn(lane, id), Points(lane, id))
      <3>1. r \in Nat /\ 0 < r /\ r <= 900
        BY ONLY <2>1, r \in 1 .. m
      <3> QED BY ONLY <2>3, <3>1
    <2>4. CASE RankIn(lane, id) = 1000 /\ Points(lane, id) = 0
      BY ONLY <2>4
    <2>5. Ranked(RankIn(lane, id), Points(lane, id))
      <3> HIDE DEF Ranked
      <3> QED BY ONLY <2>2, <2>3, <2>4
    <2> HIDE DEF Ranked
    <2> QED BY ONLY <2>5
  <1>2. PICK ra, pa : ra = RankIn(lane, a) /\ pa = Points(lane, a) /\ Ranked(ra, pa)
    BY <1>1
  <1>3. PICK rb, pb : rb = RankIn(lane, b) /\ pb = Points(lane, b) /\ Ranked(rb, pb)
    BY <1>1
  <1> DEFINE Inside(r) == r \in Nat /\ 0 < r /\ r <= 900
  <1>4. /\ pa \in Int /\ pb \in Int /\ ra \in Int /\ rb \in Int
        /\ ra < rb => pa >= pb + 100
        /\ ra = rb => pa = pb
    <2>0. ASSUME NEW r, Inside(r) PROVE Share(r) \in Nat /\ Share(r) >= 100
      BY ONLY <2>0, ShareLarge
    <2>1. CASE Inside(ra) /\ pa = Share(ra) /\ Inside(rb) /\ pb = Share(rb)
      <3>1. ASSUME ra < rb PROVE Share(ra) >= Share(rb) + 100
        <4>1. PICK x \in Nat : x = 60 + ra
          BY ONLY <2>1
        <4>2. PICK y \in Nat : y = 60 + rb
          BY ONLY <2>1
        <4>3. 60 < x /\ x < y /\ y <= 960
          BY ONLY <2>1, <3>1, <4>1, <4>2
        <4>4. Whole \div x >= Whole \div y + 100
          BY ONLY <4>1, <4>2, <4>3, SharesApart
        <4> QED BY ONLY <4>1, <4>2, <4>4 DEF Share
      <3>2. Share(ra) \in Nat /\ Share(rb) \in Nat
        <4> HIDE DEF Inside
        <4> QED BY ONLY <2>0, <2>1
      <3> QED BY ONLY <2>1, <3>1, <3>2
    <2>2. CASE Inside(ra) /\ pa = Share(ra) /\ rb = 1000 /\ pb = 0
      BY ONLY <2>0, <2>2
    <2>3. CASE ra = 1000 /\ pa = 0 /\ Inside(rb) /\ pb = Share(rb)
      BY ONLY <2>0, <2>3
    <2>4. CASE ra = 1000 /\ pa = 0 /\ rb = 1000 /\ pb = 0
      BY ONLY <2>4
    <2>5. (Inside(ra) /\ pa = Share(ra)) \/ (ra = 1000 /\ pa = 0)
      BY ONLY <1>2
    <2>6. (Inside(rb) /\ pb = Share(rb)) \/ (rb = 1000 /\ pb = 0)
      BY ONLY <1>3
    <2> HIDE DEF Inside, Ranked
    <2> QED BY ONLY <2>1, <2>2, <2>3, <2>4, <2>5, <2>6
  <1> HIDE DEF Ranked
  <1>5. ra <= rb => ra < rb \/ ra = rb
    BY <1>4
  <1> QED BY <1>2, <1>3, <1>4, <1>5

LEMMA PointsInt ==
    ASSUME NEW lane \in Seq(ChunkIds), NEW id
    PROVE  Points(lane, id) \in Int
  <1>1. \A r \in 1 .. Len(lane) : Share(r) \in Int
    BY ShareInt
  <1> QED BY <1>1, RankOf

SumOver(lanes, id, f) ==
    /\ f \in [0 .. Len(lanes) -> Int] /\ f[0] = 0
    /\ \A n \in 1 .. Len(lanes) : f[n] - f[n - 1] = Points(lanes[n], id)
    /\ Score(lanes, id) = (f[Len(lanes)] + 50) \div 100

LEMMA ScoreIsSum ==
    ASSUME NEW lanes \in Lanes, NEW id
    PROVE  \E f : SumOver(lanes, id, f)
  <1> DEFINE m == Len(lanes)
             g == [n \in 1 .. m |-> Points(lanes[n], id)]
             sum[n \in 0 .. m] == IF n = 0 THEN 0 ELSE sum[n - 1] + Points(lanes[n], id)
  <1>1. m \in Nat /\ DOMAIN lanes = 1 .. m /\ \A n \in 1 .. m : lanes[n] \in Seq(ChunkIds)
    BY DEF Lanes
  <1>2. Score(lanes, id) = (sum[m] + 50) \div 100
    BY DEF Score
  <1>3. g \in [1 .. m -> Int] /\ \A n \in 1 .. m : g[n] = Points(lanes[n], id)
    <2>1. \A n \in 1 .. m : Points(lanes[n], id) \in Int
      BY <1>1, PointsInt
    <2> QED BY <2>1
  <1> HIDE DEF m, g
  <1>4. PICK f \in [0 .. m -> Int] : f = [n \in 0 .. m |-> IF n = 0 THEN 0 ELSE f[n - 1] + g[n]]
    BY <1>1, <1>3, SumExists
  <1>5. f = [n \in 0 .. m |-> IF n = 0 THEN 0 ELSE f[n - 1] + Points(lanes[n], id)]
    <2>1. \A n \in 0 .. m : n # 0 => n \in 1 .. m
      BY <1>1
    <2>2. \A n \in 0 .. m : f[n] = IF n = 0 THEN 0 ELSE f[n - 1] + Points(lanes[n], id)
      BY <1>3, <1>4, <2>1
    <2> QED BY <1>4, <2>2
  <1>6. sum = [n \in 0 .. m |-> IF n = 0 THEN 0 ELSE sum[n - 1] + Points(lanes[n], id)]
    BY <1>5
  <1> HIDE DEF sum
  <1>7. \A n \in 0 .. m : sum[n] = IF n = 0 THEN 0 ELSE sum[n - 1] + g[n]
    <2>1. \A n \in 0 .. m : n # 0 => n \in 1 .. m
      BY <1>1
    <2> QED BY <1>3, <1>6, <2>1
  <1>8. sum = [n \in 0 .. m |-> IF n = 0 THEN 0 ELSE sum[n - 1] + g[n]]
    BY <1>6, <1>7
  <1>9. sum \in [0 .. m -> Int]
    BY <1>1, <1>3, <1>8, SumsAreNumbers
  <1>10. sum[0] = 0 /\ \A n \in 1 .. m : sum[n] - sum[n - 1] = Points(lanes[n], id)
    <2>1. \A n \in 1 .. m : n \in 0 .. m /\ n # 0 /\ sum[n - 1] \in Int
      BY <1>1, <1>9
    <2>2. 0 \in 0 .. m
      BY <1>1
    <2> QED BY <1>3, <1>7, <2>1, <2>2
  <1> QED BY <1>2, <1>9, <1>10 DEF SumOver, m

(* What the lanes find is finite, and ordered by score.                     *)
Ranked(lanes) == {p \in Merged(lanes) \X Merged(lanes) :
    \/ Score(lanes, p[1]) > Score(lanes, p[2])
    \/ Score(lanes, p[1]) = Score(lanes, p[2]) /\ IdBefore(p[1], p[2])}
InScoreOrder(lanes) == Ordered(Merged(lanes), LAMBDA a, b :
    \/ Score(lanes, a) > Score(lanes, b)
    \/ Score(lanes, a) = Score(lanes, b) /\ IdBefore(a, b))

LEMMA MergedIds ==
    ASSUME NEW lanes \in Lanes
    PROVE  /\ IsFiniteSet(Merged(lanes)) /\ Merged(lanes) \subseteq ChunkIds
           /\ \A id \in Merged(lanes) : Score(lanes, id) \in Int
  <1>1. Len(lanes) \in Nat /\ DOMAIN lanes = 1 .. Len(lanes)
        /\ \A l \in DOMAIN lanes : lanes[l] \in Seq(ChunkIds)
    BY DEF Lanes
  <1>2. ASSUME NEW l \in DOMAIN lanes
        PROVE  IsFiniteSet(Range(lanes[l])) /\ Range(lanes[l]) \subseteq ChunkIds
    <2>1. PICK lane \in Seq(ChunkIds) : lane = lanes[l]
      BY <1>1
    <2>2. Len(lane) \in Nat /\ DOMAIN lane = 1 .. Len(lane) /\ \A i \in DOMAIN lane : lane[i] \in ChunkIds
      OBVIOUS
    <2>3. IsFiniteSet(DOMAIN lane)
      BY <2>2, FS_Interval
    <2>4. IsFiniteSet(Range(lane))
      <3> DEFINE f == [i \in DOMAIN lane |-> lane[i]]
      <3>1. f \in Surjection(DOMAIN lane, Range(lane))
        BY DEF Surjection, Range
      <3> HIDE DEF f
      <3> QED BY <2>3, <3>1, FS_Surjection
    <2> QED BY <2>1, <2>2, <2>4 DEF Range
  <1>3. IsFiniteSet(Merged(lanes))
    <2> DEFINE Parts == {Range(lanes[l]) : l \in DOMAIN lanes}
               f == [l \in DOMAIN lanes |-> Range(lanes[l])]
    <2>1. f \in Surjection(DOMAIN lanes, Parts)
      BY DEF Surjection
    <2>2. IsFiniteSet(DOMAIN lanes)
      BY <1>1, FS_Interval
    <2>3. \A P \in Parts : IsFiniteSet(P)
      BY <1>2
    <2> HIDE DEF f, Parts
    <2>4. IsFiniteSet(UNION Parts)
      BY <2>1, <2>2, <2>3, FS_Surjection, FS_UNION
    <2> QED BY <2>4 DEF Merged, Parts
  <1>4. Merged(lanes) \subseteq ChunkIds
    BY <1>2 DEF Merged
  <1>5. ASSUME NEW id PROVE Score(lanes, id) \in Int
    <2>1. PICK f : SumOver(lanes, id, f)
      BY ScoreIsSum
    <2>2. PICK n \in Int : n = f[Len(lanes)]
      BY <1>1, <2>1 DEF SumOver
    <2> QED BY <2>1, <2>2 DEF SumOver
  <1> QED BY <1>3, <1>4, <1>5

LEMMA RankedOrdered ==
    ASSUME NEW lanes \in Lanes
    PROVE  StrictOrder(Merged(lanes), Ranked(lanes))
  <1> PICK M : M = Merged(lanes)
    OBVIOUS
  <1> DEFINE P(a, b) == Score(lanes, a) > Score(lanes, b) \/ (Score(lanes, a) = Score(lanes, b) /\ IdBefore(a, b))
  <1>1. \A a, b \in M : <<a, b>> \in Ranked(lanes) <=> P(a, b)
    BY DEF Ranked
  <1>2. \A a \in M : a \in Nat \X Nat /\ Score(lanes, a) \in Int
    BY MergedIds DEF ChunkIds
  <1>3. \A a \in M : a[1] \in Nat /\ a[2] \in Nat /\ a = <<a[1], a[2]>>
    BY <1>2
  <1>4. \A a \in M : ~IdBefore(a, a)
    BY <1>3 DEF IdBefore
  <1>5. \A a, b, c \in M : IdBefore(a, b) /\ IdBefore(b, c) => IdBefore(a, c)
    BY <1>3 DEF IdBefore
  <1>6. \A a, b \in M : a = b \/ IdBefore(a, b) \/ IdBefore(b, a)
    BY <1>3 DEF IdBefore
  <1>7. \A a \in M : ~P(a, a)
    BY <1>2, <1>4
  <1>8. \A a, b, c \in M : P(a, b) /\ P(b, c) => P(a, c)
    BY <1>2, <1>5
  <1>9. \A a, b \in M : a = b \/ P(a, b) \/ P(b, a)
    BY <1>2, <1>6
  <1> HIDE DEF P
  <1> QED BY <1>1, <1>7, <1>8, <1>9 DEF StrictOrder

LEMMA InScoreOrderRanks ==
    ASSUME NEW lanes
    PROVE  /\ ByRank(InScoreOrder(lanes), Merged(lanes), Ranked(lanes))
           /\ InScoreOrder(lanes) = [i \in 1 .. Cardinality(Merged(lanes)) |-> InScoreOrder(lanes)[i]]
  <1> DEFINE W == Merged(lanes)
             R == Ranked(lanes)
             q == InScoreOrder(lanes)
             P(a, b) == Score(lanes, a) > Score(lanes, b) \/ (Score(lanes, a) = Score(lanes, b) /\ IdBefore(a, b))
             n == Cardinality(W)
  <1>1. q = [i \in 1 .. n |-> CHOOSE x \in W : Cardinality({y \in W : P(y, x)}) = i - 1]
    BY DEF InScoreOrder, Ordered
  <1>2. ASSUME NEW x \in W PROVE {y \in W : P(y, x)} = Below(W, R, x)
    BY DEF Below, Ranked
  <1> HIDE DEF W, P, n, q, R
  <1>3. ASSUME NEW i \in 1 .. n, NEW x \in W, Cardinality(Below(W, R, x)) = i - 1
        PROVE  q[i] \in W /\ Cardinality(Below(W, R, q[i])) = i - 1
    <2>1. q[i] = CHOOSE z \in W : Cardinality({y \in W : P(y, z)}) = i - 1
      BY <1>1
    <2>2. Cardinality({y \in W : P(y, x)}) = i - 1
      BY <1>2, <1>3
    <2>3. q[i] \in W /\ Cardinality({y \in W : P(y, q[i])}) = i - 1
      BY <2>1, <2>2
    <2> QED BY <1>2, <2>3
  <1>4. q = [i \in 1 .. n |-> q[i]]
    <2> DEFINE Place(i) == CHOOSE x \in W : Cardinality({y \in W : P(y, x)}) = i - 1
    <2>1. q = [i \in 1 .. n |-> Place(i)]
      BY <1>1
    <2> HIDE DEF Place
    <2> QED BY <2>1
  <1> QED BY <1>3, <1>4 DEF ByRank, W, n, q, R

(* All that the lanes find, each once, those of more points first.          *)
LEMMA AllFused ==
    ASSUME NEW lanes \in Lanes, NEW order, order = InScoreOrder(lanes)
    PROVE  /\ order \in Seq(ChunkIds) /\ Range(order) = Merged(lanes) /\ Unrepeated(order)
           /\ \A i, j \in DOMAIN order : i < j => Score(lanes, order[i]) >= Score(lanes, order[j])
  <1> PICK M : M = Merged(lanes)
    OBVIOUS
  <1> PICK R : R = Ranked(lanes)
    OBVIOUS
  <1> DEFINE n == Cardinality(M)
  <1>1. ByRank(order, M, R) /\ order = [i \in 1 .. n |-> order[i]]
    BY InScoreOrderRanks
  <1>2. IsFiniteSet(M) /\ StrictOrder(M, R) /\ M \subseteq ChunkIds /\ \A id \in M : Score(lanes, id) \in Int
    BY MergedIds, RankedOrdered
  <1>3. /\ n \in Nat
        /\ \A i \in 1 .. n : order[i] \in M
        /\ \A x \in M : \E i \in 1 .. n : order[i] = x
        /\ \A i, j \in 1 .. n : i < j => <<order[i], order[j]>> \in R
    BY <1>1, <1>2, Enumerated
  <1> HIDE DEF n
  <1>4. order \in [1 .. n -> ChunkIds] /\ DOMAIN order = 1 .. n
    BY <1>1, <1>2, <1>3
  <1>5. order \in Seq(ChunkIds)
    BY <1>3, <1>4
  <1>6. Range(order) = M
    BY <1>3, <1>4 DEF Range
  <1>7. Unrepeated(order)
    <2> SUFFICES ASSUME NEW i \in 1 .. n, NEW j \in 1 .. n, order[i] = order[j], i < j PROVE FALSE
      BY <1>3, <1>4 DEF Unrepeated
    <2>1. <<order[i], order[i]>> \in R
      BY <1>3
    <2> QED BY <1>2, <1>3, <2>1 DEF StrictOrder
  <1>8. ASSUME NEW i \in 1 .. n, NEW j \in 1 .. n, i < j PROVE Score(lanes, order[i]) >= Score(lanes, order[j])
    <2>1. <<order[i], order[j]>> \in R
      BY <1>3, <1>8
    <2>2. Score(lanes, order[i]) > Score(lanes, order[j]) \/ Score(lanes, order[i]) = Score(lanes, order[j])
      BY <2>1 DEF Ranked
    <2>3. Score(lanes, order[i]) \in Int /\ Score(lanes, order[j]) \in Int
      BY <1>2, <1>3
    <2> QED BY <2>2, <2>3
  <1> QED BY <1>4, <1>5, <1>6, <1>7, <1>8

(* A fusion finds what its lanes find, each once, no more than is wanted.   *)
LEMMA FusionHonest ==
    ASSUME NEW lanes \in Lanes, NEW k \in Nat
    PROVE  /\ RRF(lanes, k) \in Seq(ChunkIds) /\ Len(RRF(lanes, k)) <= k
           /\ Unrepeated(RRF(lanes, k)) /\ Range(RRF(lanes, k)) \subseteq Merged(lanes)
  <1> PICK order : order = InScoreOrder(lanes)
    OBVIOUS
  <1>1. RRF(lanes, k) = First(order, k)
    BY DEF RRF, InScoreOrder
  <1>2. order \in Seq(ChunkIds) /\ Range(order) = Merged(lanes) /\ Unrepeated(order)
    BY AllFused
  <1> QED BY <1>1, <1>2, FirstHonest

Outranks(lanes, a, b) ==
    /\ \A i \in DOMAIN lanes : RankIn(lanes[i], a) <= RankIn(lanes[i], b)
    /\ \E i \in DOMAIN lanes : RankIn(lanes[i], a) < RankIn(lanes[i], b)

LEMMA OutranksScores ==
    ASSUME NEW lanes \in Lanes, Short(lanes), NEW a, NEW b, Outranks(lanes, a, b)
    PROVE  Score(lanes, a) > Score(lanes, b)
  <1> DEFINE m == Len(lanes)
  <1>1. m \in Nat /\ DOMAIN lanes = 1 .. m /\ \A n \in 1 .. m : lanes[n] \in Seq(ChunkIds) /\ Len(lanes[n]) <= 900
    BY DEF Lanes, Short
  <1>2. PICK f : SumOver(lanes, a, f)
    BY ScoreIsSum
  <1>3. PICK g : SumOver(lanes, b, g)
    BY ScoreIsSum
  <1>4. \A n \in 1 .. m :
          /\ Points(lanes[n], a) \in Int /\ Points(lanes[n], b) \in Int
          /\ RankIn(lanes[n], a) <= RankIn(lanes[n], b) => Points(lanes[n], a) >= Points(lanes[n], b)
          /\ RankIn(lanes[n], a) < RankIn(lanes[n], b) => Points(lanes[n], a) >= Points(lanes[n], b) + 100
    BY <1>1, PointsApart
  <1>5. PICK i \in 1 .. m : RankIn(lanes[i], a) < RankIn(lanes[i], b)
    BY <1>1 DEF Outranks
  <1> HIDE DEF m
  <1>6. \A n \in 1 .. m : f[n] - f[n - 1] >= g[n] - g[n - 1]
    <2>1. \A n \in 1 .. m : f[n] - f[n - 1] = Points(lanes[n], a) /\ g[n] - g[n - 1] = Points(lanes[n], b)
      BY <1>2, <1>3 DEF SumOver, m
    <2>2. \A n \in 1 .. m : Points(lanes[n], a) >= Points(lanes[n], b)
      BY <1>1, <1>4 DEF Outranks
    <2> QED BY <2>1, <2>2
  <1>7. f[i] - f[i - 1] >= g[i] - g[i - 1] + 100
    BY <1>2, <1>3, <1>4, <1>5 DEF SumOver, m
  <1>8. /\ f \in [0 .. m -> Int] /\ g \in [0 .. m -> Int] /\ f[0] = g[0]
        /\ Score(lanes, a) = (f[m] + 50) \div 100 /\ Score(lanes, b) = (g[m] + 50) \div 100
    BY <1>2, <1>3 DEF SumOver, m
  <1>9. f[m] >= g[m] + 100
    <2>1. PICK d \in Nat : d = 100
      OBVIOUS
    <2> QED BY <1>1, <1>6, <1>7, <1>8, <2>1, SumsCompared
  <1>10. f[m] \in Int /\ g[m] \in Int
    BY <1>1, <1>8
  <1>11. PICK x \in Int, y \in Int : x = f[m] /\ y = g[m]
    BY <1>10
  <1>12. (x + 50) \div 100 > (y + 50) \div 100
    BY <1>9, <1>11
  <1> QED BY <1>8, <1>11, <1>12

(* A candidate that outranks another is found before it.                    *)
LEMMA FusionOrders ==
    ASSUME NEW lanes \in Lanes, Short(lanes), NEW k \in Nat,
           NEW i \in DOMAIN RRF(lanes, k), NEW a \in Merged(lanes), Outranks(lanes, a, RRF(lanes, k)[i])
    PROVE  \E j \in 1 .. i - 1 : RRF(lanes, k)[j] = a
  <1> PICK order : order = InScoreOrder(lanes)
    OBVIOUS
  <1> PICK found : found = RRF(lanes, k)
    OBVIOUS
  <1>1. found = First(order, k)
    BY DEF RRF, InScoreOrder
  <1>2. /\ order \in Seq(ChunkIds) /\ Range(order) = Merged(lanes)
        /\ \A x, y \in DOMAIN order : x < y => Score(lanes, order[x]) >= Score(lanes, order[y])
    BY AllFused
  <1>3. /\ Len(order) \in Nat /\ DOMAIN order = 1 .. Len(order) /\ DOMAIN found = 1 .. Len(found)
        /\ Len(found) \in Nat /\ Len(found) <= Len(order)
        /\ \A x \in 1 .. Len(found) : found[x] = order[x]
    <2>1. /\ found \in Seq(ChunkIds)
          /\ Len(found) = IF k <= Len(order) THEN k ELSE Len(order)
          /\ \A x \in 1 .. Len(found) : found[x] = order[x]
      BY <1>1, <1>2, FirstOnes
    <2>2. Len(order) \in Nat /\ DOMAIN order = 1 .. Len(order) /\ DOMAIN found = 1 .. Len(found)
      BY <1>2, <2>1
    <2> QED BY <2>1, <2>2
  <1>4. PICK j \in 1 .. Len(order) : order[j] = a
    BY <1>2, <1>3 DEF Range
  <1>5. i \in 1 .. Len(found) /\ i \in 1 .. Len(order) /\ found[i] = order[i]
    BY <1>3
  <1>6. Score(lanes, a) > Score(lanes, order[i])
    BY <1>5, OutranksScores
  <1>7. Score(lanes, a) \in Int /\ Score(lanes, order[i]) \in Int
    <2>1. order[i] \in Merged(lanes)
      BY <1>2, <1>3, <1>5 DEF Range
    <2> QED BY <2>1, MergedIds
  <1>8. j < i
    <2>1. CASE j = i
      BY <1>4, <1>6, <1>7, <2>1
    <2>2. CASE i < j
      <3>1. Score(lanes, order[i]) >= Score(lanes, order[j])
        BY <1>2, <1>3, <1>5, <2>2
      <3> QED BY <1>4, <1>6, <1>7, <3>1
    <2> QED BY <1>5, <2>1, <2>2
  <1>9. j \in 1 .. i - 1 /\ j \in 1 .. Len(found)
    BY <1>3, <1>5, <1>8
  <1> QED BY <1>3, <1>4, <1>9

(* A candidate that precedes another in every lane precedes it in what they *)
(* make together.                                                           *)
LEMMA FusionPrecedes ==
    ASSUME NEW lanes \in Lanes, Short(lanes), \A l \in DOMAIN lanes : Unrepeated(lanes[l]),
           NEW k \in Nat, NEW a, NEW b, \A l \in DOMAIN lanes : Precedes(lanes[l], a, b)
    PROVE  Precedes(RRF(lanes, k), a, b)
  <1> SUFFICES ASSUME NEW i \in DOMAIN RRF(lanes, k), RRF(lanes, k)[i] = b
               PROVE  \E j \in 1 .. i - 1 : RRF(lanes, k)[j] = a
    BY DEF Precedes
  <1>1. DOMAIN lanes = 1 .. Len(lanes) /\ \A l \in DOMAIN lanes : lanes[l] \in Seq(ChunkIds) /\ Len(lanes[l]) <= 900
    BY DEF Lanes, Short
  <1>2. PICK o \in DOMAIN lanes : b \in Range(lanes[o])
    <2>1. RRF(lanes, k)[i] \in Range(RRF(lanes, k))
      BY DEF Range
    <2>2. b \in Merged(lanes)
      BY <2>1, FusionHonest
    <2> QED BY <2>2 DEF Merged
  <1>3. ASSUME NEW l \in DOMAIN lanes, b \in Range(lanes[l])
        PROVE  a \in Range(lanes[l]) /\ RankIn(lanes[l], a) < RankIn(lanes[l], b)
    <2>1. PICK lane \in Seq(ChunkIds) : lane = lanes[l] /\ Unrepeated(lane) /\ Precedes(lane, a, b)
      BY <1>1
    <2>2. DOMAIN lane = 1 .. Len(lane) /\ Len(lane) \in Nat
      BY <2>1
    <2>3. PICK y \in DOMAIN lane : lane[y] = b
      BY <1>3, <2>1 DEF Range
    <2>4. PICK x \in 1 .. y - 1 : lane[x] = a
      BY <2>1, <2>3 DEF Precedes
    <2>5. x \in DOMAIN lane /\ x < y
      BY <2>2, <2>3
    <2>6. a \in Range(lane) /\ b \in Range(lane)
      BY <2>3, <2>4, <2>5 DEF Range
    <2>7. \A z \in DOMAIN lane : (lane[z] = a => z = x) /\ (lane[z] = b => z = y)
      BY <2>1, <2>3, <2>4, <2>5 DEF Unrepeated
    <2>8. RankIn(lane, a) = x
      BY <2>4, <2>5, <2>6, <2>7 DEF RankIn
    <2>9. RankIn(lane, b) = y
      BY <2>3, <2>6, <2>7 DEF RankIn
    <2> QED BY <2>1, <2>5, <2>6, <2>8, <2>9
  <1>4. ASSUME NEW l \in DOMAIN lanes PROVE RankIn(lanes[l], a) <= RankIn(lanes[l], b)
    <2>1. RankIn(lanes[l], a) \in Int /\ RankIn(lanes[l], b) \in Int
      BY <1>1, PointsApart
    <2>2. CASE b \in Range(lanes[l])
      BY <1>3, <2>1, <2>2
    <2>3. CASE b \notin Range(lanes[l])
      <3>1. RankIn(lanes[l], b) = 1000
        BY <2>3 DEF RankIn
      <3>2. RankIn(lanes[l], a) <= 1000
        <4>1. PICK lane \in Seq(ChunkIds) : lane = lanes[l] /\ Len(lane) <= 900
          BY <1>1
        <4>2. \A r \in 1 .. Len(lane) : r <= 1000
          BY <4>1
        <4> QED BY <4>1, <4>2, RankOf
      <3> QED BY <3>1, <3>2
    <2> QED BY <2>2, <2>3
  <1>5. a \in Merged(lanes)
    BY <1>2, <1>3 DEF Merged
  <1>6. Outranks(lanes, a, RRF(lanes, k)[i])
    BY <1>2, <1>3, <1>4 DEF Outranks
  <1> QED BY <1>5, <1>6, FusionOrders

(* Lanes of what the caller may read, once each, no longer than n.          *)
Fine(lanes, n) ==
    /\ lanes \in Lanes
    /\ \A l \in DOMAIN lanes : Readables(lanes[l]) /\ Unrepeated(lanes[l]) /\ Len(lanes[l]) <= n

LEMMA FetchEnough ==
    ASSUME NEW k \in Nat
    PROVE  Fetch(k) \in Nat /\ 2 * k <= Fetch(k) /\ k <= Fetch(k)
           /\ Fetch(k) <= 3 * k + 10 /\ (k <= 50 => Fetch(k) <= 150) /\ (k <= 150 => Fetch(2 * k) <= 900)
  <1>1. ASSUME NEW n \in Nat PROVE Fetch(n) = IF 3 * n <= 10 THEN 10 ELSE 3 * n
    <2> DEFINE S == {3 * n, 10}
    <2>1. PICK m \in Nat : m = 3 * n + 10
      OBVIOUS
    <2>2. S \subseteq 0 .. m /\ S # {}
      BY <2>1
    <2>3. Fetch(n) = Max(S)
      BY DEF Fetch
    <2>4. Max(S) \in S /\ \A x \in S : x <= Max(S)
      <3> HIDE DEF S
      <3> QED BY <2>2, MaxOfSome
    <2> QED BY <2>3, <2>4
  <1>2. 2 * k \in Nat
    OBVIOUS
  <1>3. Fetch(k) = (IF 3 * k <= 10 THEN 10 ELSE 3 * k)
        /\ Fetch(2 * k) = (IF 3 * (2 * k) <= 10 THEN 10 ELSE 3 * (2 * k))
    BY <1>1, <1>2
  <1> QED BY <1>3

LEMMA LaneBounds ==
    ASSUME NEW lanes, NEW n \in Nat, NEW m \in Nat, n <= m, Fine(lanes, n)
    PROVE  Fine(lanes, m)
  <1>1. \A l \in DOMAIN lanes : Len(lanes[l]) \in Nat
    <2>1. \A l \in DOMAIN lanes : lanes[l] \in Seq(ChunkIds)
      BY DEF Fine, Lanes
    <2> QED BY <2>1
  <1> QED BY <1>1 DEF Fine

LEMMA TwoLanes ==
    ASSUME NEW n \in Nat, NEW s \in Seq(ChunkIds), NEW t \in Seq(ChunkIds),
           Readables(s), Readables(t), Unrepeated(s), Unrepeated(t), Len(s) <= n, Len(t) <= n
    PROVE  Fine(<<s, t>>, n)
  <1>1. <<s, t>> \in Lanes /\ DOMAIN <<s, t>> = {1, 2}
    BY DEF Lanes
  <1> QED BY <1>1 DEF Fine

LEMMA MergedReadable ==
    ASSUME NEW lanes, NEW n, Fine(lanes, n)
    PROVE  Merged(lanes) \subseteq Readable(search.ctx)
  BY DEF Fine, Merged, Readables

LEMMA QueryRanks ==
    ASSUME NEW q \in Queries
    PROVE  /\ q.dense \in Seq(ChunkIds) /\ Unrepeated(q.dense)
           /\ q.sparse \in Seq(ChunkIds) /\ Unrepeated(q.sparse)
  BY SearchAssumption DEF SearchAssumption, Queries, ChunkIds

LEMMA HybridFine ==
    ASSUME NEW q \in Queries, NEW k \in Nat
    PROVE  Fine(HybridLanes(q, k), Fetch(k))
  <1>1. Fetch(k) \in Nat
    BY FetchEnough
  <1>2. PICK s, t : s = Hits(q.dense, Fetch(k)) /\ t = Hits(q.sparse, Fetch(k))
    OBVIOUS
  <1>3. s \in Seq(ChunkIds) /\ Readables(s) /\ Unrepeated(s) /\ Len(s) <= Fetch(k)
    BY <1>1, <1>2, QueryRanks, HitsHonest
  <1>4. t \in Seq(ChunkIds) /\ Readables(t) /\ Unrepeated(t) /\ Len(t) <= Fetch(k)
    BY <1>1, <1>2, QueryRanks, HitsHonest
  <1> QED BY <1>1, <1>2, <1>3, <1>4, TwoLanes DEF HybridLanes

LEMMA FusionFine ==
    ASSUME NEW lanes, NEW n, Fine(lanes, n), NEW k \in Nat
    PROVE  /\ RRF(lanes, k) \in Seq(ChunkIds) /\ Len(RRF(lanes, k)) <= k
           /\ Unrepeated(RRF(lanes, k)) /\ Readables(RRF(lanes, k))
  <1>1. lanes \in Lanes
    BY DEF Fine
  <1> QED BY <1>1, FusionHonest, MergedReadable DEF Readables

LEMMA InnerFine ==
    ASSUME NEW qs \in Seq(Queries), qs # << >>, NEW k \in Nat
    PROVE  Fine(InnerLanes(qs, k), Fetch(k))
  <1>1. Fetch(k) \in Nat /\ 2 * k \in Nat /\ 2 * k <= Fetch(k)
    <2>1. 2 * k \in Nat
      OBVIOUS
    <2>2. Fetch(k) \in Nat /\ 2 * k <= Fetch(k)
      BY ONLY k \in Nat, FetchEnough
    <2> QED BY ONLY <2>1, <2>2
  <1>2. Len(qs) \in Nat /\ DOMAIN qs = 1 .. Len(qs) /\ \A i \in DOMAIN qs : qs[i] \in Queries
    OBVIOUS
  <1>3. CASE setting.rewrite
    <2> DEFINE lanes == [i \in DOMAIN qs |-> RRF(HybridLanes(qs[i], 2 * k), 2 * k)]
    <2>1. InnerLanes(qs, k) = lanes
      BY <1>3 DEF InnerLanes
    <2>2. ASSUME NEW i \in DOMAIN qs
          PROVE  /\ lanes[i] \in Seq(ChunkIds) /\ Readables(lanes[i]) /\ Unrepeated(lanes[i])
                 /\ Len(lanes[i]) <= 2 * k
      <3>1. PICK j \in Nat : j = 2 * k
        BY <1>1
      <3>2. Fine(HybridLanes(qs[i], j), Fetch(j))
        BY <1>2, HybridFine
      <3> QED BY <3>1, <3>2, FusionFine
    <2> HIDE DEF lanes
    <2>3. DOMAIN lanes = 1 .. Len(qs)
      BY <1>2 DEF lanes
    <2>4. lanes \in Lanes
      <3>1. lanes \in [1 .. Len(qs) -> Seq(ChunkIds)]
        BY <1>2, <2>2, <2>3 DEF lanes
      <3> QED BY <1>2, <3>1 DEF Lanes
    <2>5. \A i \in DOMAIN lanes : Len(lanes[i]) \in Nat
      BY <1>2, <2>2, <2>3
    <2>6. Fine(lanes, 2 * k)
      BY <1>2, <2>2, <2>3, <2>4 DEF Fine
    <2> QED BY <1>1, <2>1, <2>6, LaneBounds
  <1>4. CASE ~setting.rewrite
    <2>1. qs[1] \in Queries
      BY <1>2
    <2>2. InnerLanes(qs, k) = HybridLanes(qs[1], k)
      BY <1>4 DEF InnerLanes
    <2> QED BY <2>1, <2>2, HybridFine
  <1> QED BY <1>3, <1>4

LEMMA RewritingsAre ==
    ASSUME NEW own \in Queries, NEW qs \in Rewritings(own)
    PROVE  qs \in Seq(Queries) /\ qs # << >>
  <1>1. CASE qs = <<own>>
    BY <1>1
  <1>2. CASE \E m \in 0 .. MaxQueries : qs \in [1 .. m -> Queries] /\ qs # << >>
    <2>1. \A m \in 0 .. MaxQueries : m \in Nat
      BY SearchAssumption DEF SearchAssumption
    <2> QED BY <1>2, <2>1
  <1>3. qs = <<own>> \/ \E m \in 0 .. MaxQueries : qs \in [1 .. m -> Queries] /\ qs # << >>
    BY DEF Rewritings, BoundedSeq, SeqOf
  <1> QED BY <1>1, <1>2, <1>3

LEMMA NativeFine ==
    ASSUME NEW own \in Queries, NEW qs \in Rewritings(own), NEW k \in Nat
    PROVE  Fine(NativeLanes(own, qs, k), Fetch(k))
  <1>1. qs \in Seq(Queries) /\ qs # << >>
    BY RewritingsAre
  <1>2. CASE setting.context
    <2>1. PICK j \in Nat : j = Fetch(k)
      BY FetchEnough
    <2>2. PICK inner : inner = InnerLanes(qs, j)
      OBVIOUS
    <2>3. Fine(inner, Fetch(j))
      BY <1>1, <2>2, InnerFine
    <2>4. PICK s, t : s = RRF(inner, j) /\ t = Hits(own.dense, j)
      OBVIOUS
    <2>5. s \in Seq(ChunkIds) /\ Readables(s) /\ Unrepeated(s) /\ Len(s) <= j
      BY <2>3, <2>4, FusionFine
    <2>6. t \in Seq(ChunkIds) /\ Readables(t) /\ Unrepeated(t) /\ Len(t) <= j
      BY <2>4, QueryRanks, HitsHonest
    <2>7. NativeLanes(own, qs, k) = <<s, t>>
      BY <1>2, <2>1, <2>2, <2>4 DEF NativeLanes
    <2> QED BY <2>1, <2>5, <2>6, <2>7, TwoLanes
  <1>3. CASE ~setting.context
    <2>1. NativeLanes(own, qs, k) = InnerLanes(qs, k)
      BY <1>3 DEF NativeLanes
    <2> QED BY <1>1, <2>1, InnerFine
  <1> QED BY <1>2, <1>3

(***************************************************************************)
(* What every index agrees on is kept by the fusions of what they return,  *)
(* one within the other.                                                   *)
(***************************************************************************)
AllPrecede(set, a, b) == \A lane \in set : Precedes(lane, a, b)
EachPrecedes(lanes, a, b) == \A l \in DOMAIN lanes : Precedes(lanes[l], a, b)

(* A fusion of lanes that are short enough.                                 *)
LEMMA FineAgrees ==
    ASSUME NEW lanes, NEW n \in Nat, n <= 900, Fine(lanes, n), NEW k \in Nat,
           NEW a, NEW b, EachPrecedes(lanes, a, b)
    PROVE  Precedes(RRF(lanes, k), a, b)
  <1>1. lanes \in Lanes /\ \A l \in DOMAIN lanes : Unrepeated(lanes[l])
    BY DEF Fine
  <1>2. Short(lanes)
    <2>1. \A l \in DOMAIN lanes : Len(lanes[l]) \in Nat
      <3>1. \A l \in DOMAIN lanes : lanes[l] \in Seq(ChunkIds)
        BY <1>1 DEF Lanes
      <3> QED BY <3>1
    <2> QED BY <2>1 DEF Short, Fine
  <1> QED BY <1>1, <1>2, FusionPrecedes DEF EachPrecedes

LEMMA TwoAgree ==
    ASSUME NEW s, NEW t, NEW a, NEW b
    PROVE  /\ Range(<<s, t>>) = {s, t}
           /\ Precedes(s, a, b) /\ Precedes(t, a, b) => EachPrecedes(<<s, t>>, a, b)
  <1>1. DOMAIN <<s, t>> = {1, 2}
    OBVIOUS
  <1> QED BY <1>1 DEF Range, EachPrecedes

LEMMA HybridAgrees ==
    ASSUME NEW q, NEW k, NEW a, NEW b, AllPrecede(Range(HybridLanes(q, k)), a, b)
    PROVE  EachPrecedes(HybridLanes(q, k), a, b)
  <1>1. PICK s, t : s = Hits(q.dense, Fetch(k)) /\ t = Hits(q.sparse, Fetch(k))
    OBVIOUS
  <1>2. HybridLanes(q, k) = <<s, t>>
    BY <1>1 DEF HybridLanes
  <1> QED BY <1>2, TwoAgree DEF AllPrecede

(* What the indexes return for an inner retriever.                          *)
InnerMost(qs, k) ==
    IF setting.rewrite THEN UNION {Range(HybridLanes(qs[i], 2 * k)) : i \in DOMAIN qs}
    ELSE Range(HybridLanes(qs[1], k))

LEMMA InnerAgrees ==
    ASSUME NEW qs \in Seq(Queries), qs # << >>, NEW k \in Nat, k <= 150,
           NEW a, NEW b, AllPrecede(InnerMost(qs, k), a, b)
    PROVE  EachPrecedes(InnerLanes(qs, k), a, b)
  <1>1. PICK j \in Nat : j = 2 * k
    OBVIOUS
  <1>2. Fetch(j) \in Nat /\ Fetch(j) <= 900
    BY <1>1, FetchEnough
  <1>3. CASE setting.rewrite
    <2>1. ASSUME NEW i \in DOMAIN qs
          PROVE  Precedes(RRF(HybridLanes(qs[i], j), j), a, b)
      <3>1. PICK lanes : lanes = HybridLanes(qs[i], j)
        OBVIOUS
      <3>2. Fine(lanes, Fetch(j))
        <4>1. qs[i] \in Queries
          OBVIOUS
        <4> QED BY <3>1, <4>1, HybridFine
      <3>3. Range(lanes) \subseteq InnerMost(qs, k)
        BY <1>1, <1>3, <3>1 DEF InnerMost
      <3>4. AllPrecede(Range(lanes), a, b)
        BY <3>3 DEF AllPrecede
      <3>5. EachPrecedes(lanes, a, b)
        BY <3>1, <3>4, HybridAgrees
      <3> QED BY <1>2, <3>1, <3>2, <3>5, FineAgrees
    <2>2. InnerLanes(qs, k) = [i \in DOMAIN qs |-> RRF(HybridLanes(qs[i], j), j)]
      BY <1>1, <1>3 DEF InnerLanes
    <2> QED BY <2>1, <2>2 DEF EachPrecedes
  <1>4. CASE ~setting.rewrite
    <2>1. InnerLanes(qs, k) = HybridLanes(qs[1], k) /\ InnerMost(qs, k) = Range(HybridLanes(qs[1], k))
      BY <1>4 DEF InnerLanes, InnerMost
    <2> QED BY <2>1, HybridAgrees
  <1> QED BY <1>3, <1>4

LEMMA NativeAgrees ==
    ASSUME NEW own \in Queries, NEW qs \in Rewritings(own), NEW k \in Nat, k <= 50,
           NEW a, NEW b, AllPrecede(InnermostLanes(own, qs, k), a, b)
    PROVE  Precedes(RRF(NativeLanes(own, qs, k), k), a, b)
  <1>1. qs \in Seq(Queries) /\ qs # << >>
    BY RewritingsAre
  <1>2. PICK j \in Nat : j = Fetch(k) /\ j <= 150
    BY FetchEnough
  <1>3. Fine(NativeLanes(own, qs, k), j)
    BY <1>2, NativeFine
  <1>4. InnermostLanes(own, qs, k) =
          InnerMost(qs, IF setting.context THEN j ELSE k) \cup (IF setting.context THEN {Hits(own.dense, j)} ELSE {})
    BY <1>2 DEF InnermostLanes, InnerMost
  <1>5. EachPrecedes(NativeLanes(own, qs, k), a, b)
    <2>1. CASE setting.context
      <3>1. PICK inner : inner = InnerLanes(qs, j)
        OBVIOUS
      <3>2. AllPrecede(InnerMost(qs, j), a, b) /\ Precedes(Hits(own.dense, j), a, b)
        BY <1>4, <2>1 DEF AllPrecede
      <3>3. EachPrecedes(inner, a, b)
        BY <1>1, <1>2, <3>1, <3>2, InnerAgrees
      <3>4. Fine(inner, Fetch(j))
        BY <1>1, <3>1, InnerFine
      <3>5. Fetch(j) \in Nat /\ Fetch(j) <= 900
        <4>1. Fetch(j) \in Nat /\ Fetch(j) <= 3 * j + 10
          BY FetchEnough
        <4> QED BY <1>2, <4>1
      <3>6. Precedes(RRF(inner, j), a, b)
        BY <3>3, <3>4, <3>5, FineAgrees
      <3>7. NativeLanes(own, qs, k) = <<RRF(inner, j), Hits(own.dense, j)>>
        BY <1>2, <2>1, <3>1 DEF NativeLanes
      <3> QED BY <3>2, <3>6, <3>7, TwoAgree
    <2>2. CASE ~setting.context
      <3>1. NativeLanes(own, qs, k) = InnerLanes(qs, k) /\ InnermostLanes(own, qs, k) = InnerMost(qs, k)
        BY <1>4, <2>2 DEF NativeLanes
      <3> QED BY <1>1, <3>1, InnerAgrees
    <2> QED BY <2>1, <2>2
  <1> QED BY <1>2, <1>3, <1>5, FineAgrees

(* What the indexes return are sequences of chunks.                         *)
LEMMA InnermostAreLanes ==
    ASSUME NEW own \in Queries, NEW qs \in Rewritings(own), NEW k \in Nat
    PROVE  InnermostLanes(own, qs, k) \subseteq Seq(ChunkIds)
  <1>1. qs \in Seq(Queries) /\ qs # << >>
    BY RewritingsAre
  <1>2. \A i \in DOMAIN qs : qs[i] \in Queries
    BY <1>1
  <1>3. ASSUME NEW q \in Queries, NEW n \in Nat PROVE Range(HybridLanes(q, n)) \subseteq Seq(ChunkIds)
    <2>1. HybridLanes(q, n) \in Lanes
      BY HybridFine DEF Fine
    <2> QED BY <2>1 DEF Lanes, Range
  <1>4. Hits(own.dense, Fetch(k)) \in Seq(ChunkIds)
    <2>1. Fetch(k) \in Nat
      BY FetchEnough
    <2> QED BY <2>1, QueryRanks, HitsHonest
  <1>5. PICK inner \in Nat : inner = IF setting.context THEN Fetch(k) ELSE k
    BY FetchEnough
  <1>6. 2 * inner \in Nat /\ 1 \in DOMAIN qs
    BY <1>1
  <1>7. InnerMost(qs, inner) \subseteq Seq(ChunkIds)
    BY <1>2, <1>3, <1>6 DEF InnerMost
  <1>8. InnermostLanes(own, qs, k) = InnerMost(qs, inner) \cup (IF setting.context THEN {Hits(own.dense, Fetch(k))} ELSE {})
    BY <1>5 DEF InnermostLanes, InnerMost
  <1> QED BY <1>4, <1>7, <1>8

(***************************************************************************)
(* What the graph and the communities name.                                *)
(***************************************************************************)
ById(S) == {p \in S \X S : IdBefore(p[1], p[2])}

LEMMA NamedInOrder ==
    ASSUME NEW S, IsFiniteSet(S), S \subseteq ChunkIds, NEW q, q = Ordered(S, IdBefore)
    PROVE  q \in Seq(ChunkIds) /\ Unrepeated(q)
  <1> DEFINE n == Cardinality(S)
             R == ById(S)
  <1>1. \A a \in S : a[1] \in Nat /\ a[2] \in Nat /\ a = <<a[1], a[2]>>
    BY DEF ChunkIds
  <1>2. StrictOrder(S, R)
    <2>0. \A a, b \in S : IdBefore(a, b) <=> a[1] < b[1] \/ (a[1] = b[1] /\ a[2] < b[2])
      BY DEF IdBefore
    <2>1. \A a \in S : ~IdBefore(a, a)
      BY <1>1, <2>0
    <2>2. \A a, b, c \in S : IdBefore(a, b) /\ IdBefore(b, c) => IdBefore(a, c)
      BY <1>1, <2>0
    <2>3. \A a, b \in S : a = b \/ IdBefore(a, b) \/ IdBefore(b, a)
      <3> SUFFICES ASSUME NEW a \in S, NEW b \in S, ~IdBefore(a, b), ~IdBefore(b, a) PROVE a = b
        OBVIOUS
      <3>1. a[1] = b[1] /\ a[2] = b[2]
        BY <1>1, <2>0
      <3> QED BY <1>1, <3>1
    <2>4. \A a, b \in S : <<a, b>> \in R <=> IdBefore(a, b)
      BY DEF ById
    <2> HIDE DEF R
    <2> QED BY <2>1, <2>2, <2>3, <2>4 DEF StrictOrder
  <1>3. q = [i \in 1 .. n |-> CHOOSE x \in S : Cardinality({y \in S : IdBefore(y, x)}) = i - 1]
    BY DEF Ordered
  <1>4. ASSUME NEW x \in S PROVE {y \in S : IdBefore(y, x)} = Below(S, R, x)
    BY DEF Below, ById
  <1> HIDE DEF n, R
  <1>5. ByRank(q, S, R)
    <2>1. ASSUME NEW i \in 1 .. n, NEW x \in S, Cardinality(Below(S, R, x)) = i - 1
          PROVE  q[i] \in S /\ Cardinality(Below(S, R, q[i])) = i - 1
      <3>1. q[i] = CHOOSE z \in S : Cardinality({y \in S : IdBefore(y, z)}) = i - 1
        BY <1>3
      <3>2. Cardinality({y \in S : IdBefore(y, x)}) = i - 1
        BY <1>4, <2>1
      <3>3. q[i] \in S /\ Cardinality({y \in S : IdBefore(y, q[i])}) = i - 1
        BY <3>1, <3>2
      <3> QED BY <1>4, <3>3
    <2> QED BY <2>1 DEF ByRank, n
  <1>6. /\ n \in Nat
        /\ \A i \in 1 .. n : q[i] \in S
        /\ \A i, j \in 1 .. n : i < j => <<q[i], q[j]>> \in R
    BY <1>2, <1>5, Enumerated DEF n
  <1>7. q \in [1 .. n -> ChunkIds] /\ DOMAIN q = 1 .. n
    <2> DEFINE Place(i) == CHOOSE x \in S : Cardinality({y \in S : IdBefore(y, x)}) = i - 1
    <2>1. q = [i \in 1 .. n |-> Place(i)]
      BY <1>3
    <2> HIDE DEF Place
    <2> QED BY <1>6, <2>1
  <1>8. Unrepeated(q)
    <2> SUFFICES ASSUME NEW i \in 1 .. n, NEW j \in 1 .. n, q[i] = q[j], i < j PROVE FALSE
      BY <1>6, <1>7 DEF Unrepeated
    <2>1. <<q[i], q[i]>> \in R
      BY <1>6
    <2> QED BY <1>2, <1>6, <2>1 DEF StrictOrder
  <1> QED BY <1>6, <1>7, <1>8

LEMMA KeptAre ==
    ASSUME NEW ids
    PROVE  IsFiniteSet(Kept(ids)) /\ Kept(ids) \subseteq ChunkIds
  <1> DEFINE S == {x \in Library : x.id \in ids}
             f == [r \in S |-> r.id]
  <1>1. IsFiniteSet(S) /\ \A r \in S : r.id \in ChunkIds
    <2>1. IsFiniteSet(Library) /\ S \subseteq Library
      BY AnalysisAssumption DEF AnalysisAssumption
    <2>2. \A r \in Library : r.id \in ChunkIds
      BY AnalysisAssumption DEF AnalysisAssumption, StoredChunk, ChunkIds
    <2> QED BY <2>1, <2>2, FS_Subset
  <1>2. Kept(ids) = {r.id : r \in S}
    BY DEF Kept
  <1>3. f \in Surjection(S, Kept(ids))
    BY <1>2 DEF Surjection
  <1> HIDE DEF f
  <1> QED BY <1>1, <1>2, <1>3, FS_Surjection

(***************************************************************************)
(* What a search has at each step.                                         *)
(***************************************************************************)
SearchRecord == [
    pc: {"idle", "retrieve", "rerank", "synthesize", "assess", "judge", "answered", "error"},
    ctx: Contexts \cup {None}, lanes: SUBSET Seq(ChunkIds),
    found: Seq(ChunkIds), shown: Seq(ChunkIds), text: Seq(ChunkIds), sources: Seq(ChunkIds),
    again: BOOLEAN, checked: BOOLEAN]

(* Candidates are there once each and not too many; those of an index are   *)
(* the caller's to read.                                                    *)
Served(s) ==
    /\ Unrepeated(s) /\ Len(s) <= setting.top_k
    /\ setting.mode = "native_rag" => Readables(s)

(* The sources of a text: what it cites, by its order, or all of them.      *)
Credited(citable, text, shown, s) ==
    LET cited == Range(text) \cap citable \cap Range(shown) IN
    /\ Unrepeated(s) /\ (s = << >> <=> shown = << >>)
    /\ IF cited = {} THEN s = shown
       ELSE /\ Range(s) = cited
            /\ \A i, j \in DOMAIN s : i < j => Precedes(text, s[i], s[j])

Agreed(lanes, found) ==
    \A a, b \in UNION {Range(lane) : lane \in lanes} : AllPrecede(lanes, a, b) => Precedes(found, a, b)

SearchSound ==
    /\ search \in SearchRecord
    /\ setting.top_k <= 50 => Agreed(search.lanes, search.found)
    /\ Served(search.found) /\ Served(search.shown)
    /\ search.pc \in {"assess", "judge", "answered"} =>
          Credited(setting.citable, search.text, search.shown, search.sources)

LEMMA NoneAgreed ==
    ASSUME NEW found
    PROVE  Agreed({}, found) /\ {} \in SUBSET Seq(ChunkIds) /\ << >> \in Seq(ChunkIds)
  BY DEF Agreed

LEMMA NoneServed ==
    ASSUME setting \in Settings
    PROVE  Served(<< >>)
  <1>1. setting.top_k \in Nat
    BY SearchAssumption DEF SearchAssumption
  <1>2. DOMAIN << >> = {} /\ Len(<< >>) = 0
    OBVIOUS
  <1>3. Range(<< >>) = {}
    BY <1>2 DEF Range
  <1> QED BY <1>1, <1>2, <1>3 DEF Served, Unrepeated, Readables

(* A search that is not begun, and one that begins.                         *)
LEMMA SearchBegins ==
    ASSUME setting \in Settings, setting' = setting,
           NEW c \in Contexts, search' = NoSearch \/ search' = Searching(c)
    PROVE  SearchSound'
  <1>1. Served(<< >>)'
    <2>1. setting.top_k \in Nat
      BY SearchAssumption DEF SearchAssumption
    <2>2. DOMAIN << >> = {} /\ Len(<< >>) = 0
      OBVIOUS
    <2>3. Range(<< >>) = {}
      BY <2>2 DEF Range
    <2> QED BY <2>1, <2>2, <2>3 DEF Served, Unrepeated, Readables
  <1>2. /\ search'.found = << >> /\ search'.shown = << >> /\ search'.lanes = {}
        /\ search'.pc \in {"idle", "retrieve"} /\ search' \in SearchRecord
    <2>1. CASE search' = NoSearch
      BY NoneAgreed, <2>1 DEF NoSearch, SearchRecord
    <2>2. CASE search' = Searching(c)
      BY NoneAgreed, <2>2 DEF NoSearch, Searching, SearchRecord
    <2> QED BY <2>1, <2>2
  <1> QED BY <1>1, <1>2, NoneAgreed DEF SearchSound

LEMMA RetrieveSound ==
    ASSUME SearchSound, setting \in Settings, Retrieve
    PROVE  SearchSound'
  <1>1. setting' = setting /\ setting.top_k \in Nat /\ search \in SearchRecord
    BY SearchAssumption DEF SearchAssumption, SearchSound, Retrieve, Searched
  <1>2. PICK k \in Nat : k = setting.top_k
    BY <1>1
  <1>3. CASE setting.mode = "native_rag"
    <2>0. PICK own \in Queries : \E qs \in Rewritings(own) :
             search' = [search EXCEPT !.pc = "rerank", !.lanes = InnermostLanes(own, qs, k),
                                      !.found = RRF(NativeLanes(own, qs, k), k)]
      BY <1>2, <1>3 DEF Retrieve, Searched
    <2>1. PICK qs \in Rewritings(own) :
             search' = [search EXCEPT !.pc = "rerank", !.lanes = InnermostLanes(own, qs, k),
                                      !.found = RRF(NativeLanes(own, qs, k), k)]
      BY <2>0
    <2>2. PICK lanes \in SUBSET Seq(ChunkIds) : lanes = InnermostLanes(own, qs, k)
      BY InnermostAreLanes
    <2>3. PICK found : found = RRF(NativeLanes(own, qs, k), k)
      OBVIOUS
    <2>4. /\ found \in Seq(ChunkIds) /\ Len(found) <= k
          /\ Unrepeated(found) /\ Readables(found)
      BY <2>3, NativeFine, FusionFine
    <2>5. k <= 50 => Agreed(lanes, found)
      BY <2>2, <2>3, NativeAgrees DEF Agreed
    <2>6. search' = [search EXCEPT !.pc = "rerank", !.lanes = lanes, !.found = found]
      BY <2>1, <2>2, <2>3
    <2>7. /\ search' \in SearchRecord /\ search'.lanes = lanes /\ search'.found = found
          /\ search'.shown = search.shown /\ search'.ctx = search.ctx /\ search'.pc = "rerank"
      BY <1>1, <2>2, <2>4, <2>6 DEF SearchRecord
    <2>8. Served(search.shown)' /\ Served(found)'
      BY <1>1, <1>2, <2>4, <2>7 DEF Served, Readables, SearchSound
    <2> QED BY <1>1, <1>2, <2>5, <2>7, <2>8 DEF SearchSound, Served, Readables
  <1>4. CASE setting.mode # "native_rag"
    <2>1. PICK ids \in Named :
             search' = [search EXCEPT !.pc = "rerank", !.lanes = {},
                                      !.found = First(Ordered(Kept(ids), IdBefore), k)]
      BY <1>2, <1>4 DEF Retrieve, Searched
    <2>2. PICK all : all = Ordered(Kept(ids), IdBefore)
      OBVIOUS
    <2>3. all \in Seq(ChunkIds) /\ Unrepeated(all)
      <3>1. PICK S : S = Kept(ids)
        OBVIOUS
      <3>2. IsFiniteSet(S) /\ S \subseteq ChunkIds
        BY <3>1, KeptAre
      <3>3. all = Ordered(S, IdBefore)
        BY <2>2, <3>1
      <3> QED BY <3>2, <3>3, NamedInOrder
    <2>4. PICK found : found = First(all, k)
      OBVIOUS
    <2>5. found \in Seq(ChunkIds) /\ Len(found) <= k /\ Unrepeated(found)
      BY <2>3, <2>4, FirstHonest
    <2>6. search' = [search EXCEPT !.pc = "rerank", !.lanes = {}, !.found = found]
      BY <2>1, <2>2, <2>4
    <2>7. /\ search' \in SearchRecord /\ search'.lanes = {} /\ search'.found = found
          /\ search'.shown = search.shown /\ search'.ctx = search.ctx /\ search'.pc = "rerank"
      BY <1>1, <2>5, <2>6, NoneAgreed DEF SearchRecord
    <2>8. Served(search.shown)' /\ Served(found)'
      BY <1>1, <1>2, <1>4, <2>5, <2>7 DEF Served, Readables, SearchSound
    <2> QED BY <1>1, <2>7, <2>8, NoneAgreed DEF SearchSound, Served, Readables
  <1> QED BY <1>3, <1>4

LEMMA AtFewer ==
    ASSUME NEW T, NEW s \in Seq(T), NEW places, places \subseteq 1 .. Len(s)
    PROVE  Len(At(s, places)) <= Len(s)
  <1>1. Len(s) \in Nat
    OBVIOUS
  <1>2. Cardinality(places) \in Nat /\ Cardinality(places) <= Len(s)
    <2>0. PICK n \in Int : n = Len(s) /\ n >= 0
      BY <1>1
    <2>1. IsFiniteSet(1 .. Len(s)) /\ Cardinality(1 .. Len(s)) = Len(s)
      <3>1. IsFiniteSet(1 .. n) /\ Cardinality(1 .. n) = IF 1 > n THEN 0 ELSE n - 1 + 1
        BY ONLY FS_Interval, n \in Int, 1 \in Int
      <3> QED BY ONLY <2>0, <3>1
    <2> QED BY <2>1, FS_Subset, FS_CardinalityType
  <1>3. At(s, places) = [k \in 1 .. Cardinality(places) |-> At(s, places)[k]]
    BY DEF At, Ordered
  <1>4. Len(At(s, places)) = Cardinality(places)
    BY <1>2, <1>3
  <1> QED BY <1>1, <1>2, <1>4

(* What a reranker leaves are candidates, each once.                        *)
LEMMA ChosenHonest ==
    ASSUME NEW found \in Seq(ChunkIds), found = search.found, Unrepeated(found),
           NEW r \in Responses, NEW k \in Nat
    PROVE  /\ Chosen(r, k) \in Seq(ChunkIds) /\ Len(Chosen(r, k)) <= k
           /\ Unrepeated(Chosen(r, k)) /\ Range(Chosen(r, k)) \subseteq Range(found)
  <1>1. r \in Seq(Nat) /\ Unrepeated(r)
    <2>1. Len(found) \in Nat
      OBVIOUS
    <2>2. r \in BoundedSeq(0 .. Len(found), Len(found)) /\ Unrepeated(r)
      BY DEF Responses
    <2>3. PICK m \in 0 .. Len(found) : r \in [1 .. m -> 0 .. Len(found)]
      BY <2>2 DEF BoundedSeq, SeqOf
    <2>4. r \in [1 .. m -> Nat] /\ m \in Nat
      BY <2>1, <2>3
    <2> QED BY <2>2, <2>4
  <1>2. PICK best : best = First(r, k)
    OBVIOUS
  <1>3. best \in Seq(Nat) /\ Len(best) <= k /\ Unrepeated(best)
    BY <1>1, <1>2, FirstHonest
  <1> DEFINE places == {j \in DOMAIN best : best[j] \in DOMAIN found}
  <1>4. PICK kept : kept = At(best, places)
    OBVIOUS
  <1>5. places \subseteq 1 .. Len(best) /\ DOMAIN best = 1 .. Len(best) /\ Len(best) \in Nat
    BY <1>3
  <1>6. /\ kept \in Seq(Nat) /\ Unrepeated(kept) /\ Len(kept) <= Len(best)
        /\ \A j \in DOMAIN kept : kept[j] \in DOMAIN found
    <2>1. /\ kept \in Seq(Nat) /\ \A j \in DOMAIN kept : \E i \in places : kept[j] = best[i]
          /\ (\A i, j \in places : best[i] = best[j] => i = j) => Unrepeated(kept)
      <3> HIDE DEF places
      <3>1. /\ At(best, places) \in Seq(Nat)
            /\ \A j \in DOMAIN At(best, places) : \E i \in places : At(best, places)[j] = best[i]
            /\ (\A i, j \in places : best[i] = best[j] => i = j) => Unrepeated(At(best, places))
        <4>1. PICK taken : taken = places
          OBVIOUS
        <4>2. best \in Seq(Nat) /\ taken \subseteq 1 .. Len(best)
          BY ONLY <1>3, <1>5, <4>1
        <4>3. /\ At(best, taken) \in Seq(Nat)
              /\ \A j \in DOMAIN At(best, taken) : \E i \in taken : At(best, taken)[j] = best[i]
              /\ (\A i, j \in taken : best[i] = best[j] => i = j) => Unrepeated(At(best, taken))
          <5>1. At(best, taken) \in Seq(Nat) /\ PicksOut(At(best, taken), best, taken)
            BY ONLY <4>2, AtPlaces
          <5> QED BY ONLY <5>1 DEF PicksOut
        <4> QED BY ONLY <4>1, <4>3
      <3> QED BY <1>4, <3>1
    <2>2. \A i, j \in places : best[i] = best[j] => i = j
      BY <1>3 DEF Unrepeated
    <2>3. Len(kept) <= Len(best)
      BY <1>4, <1>5, <2>1, <1>3, AtFewer
    <2> QED BY <2>1, <2>2, <2>3
  <1>7. Chosen(r, k) = [j \in DOMAIN kept |-> found[kept[j]]]
    BY <1>2, <1>4 DEF Chosen
  <1>8. PICK c : c = Chosen(r, k)
    OBVIOUS
  <1>9. DOMAIN kept = 1 .. Len(kept) /\ Len(kept) \in Nat
    BY <1>6
  <1>10. DOMAIN c = 1 .. Len(kept) /\ \A j \in 1 .. Len(kept) : c[j] = found[kept[j]]
    BY <1>7, <1>8, <1>9
  <1>11. \A j \in 1 .. Len(kept) : found[kept[j]] \in ChunkIds
    BY <1>6, <1>9
  <1>12. c \in Seq(ChunkIds) /\ Len(c) = Len(kept)
    <2>1. c \in [1 .. Len(kept) -> ChunkIds]
      BY <1>7, <1>8, <1>9, <1>11
    <2> QED BY <1>9, <2>1
  <1>13. Unrepeated(c)
    <2> SUFFICES ASSUME NEW i \in 1 .. Len(kept), NEW j \in 1 .. Len(kept), c[i] = c[j] PROVE i = j
      BY <1>10 DEF Unrepeated
    <2>0. /\ kept[i] \in DOMAIN found /\ kept[j] \in DOMAIN found
          /\ found[kept[i]] = found[kept[j]] /\ i \in DOMAIN kept /\ j \in DOMAIN kept
      BY <1>6, <1>9, <1>10
    <2>1. kept[i] = kept[j]
      BY ONLY <2>0, Unrepeated(found) DEF Unrepeated
    <2> QED BY ONLY <1>6, <2>0, <2>1 DEF Unrepeated
  <1>14. Range(c) \subseteq Range(found)
    BY <1>6, <1>9, <1>10 DEF Range
  <1>15. Len(c) <= k
    BY <1>3, <1>5, <1>6, <1>9, <1>12
  <1> QED BY <1>8, <1>12, <1>13, <1>14, <1>15

LEMMA SourcesCite ==
    ASSUME NEW text \in Seq(ChunkIds), NEW shown \in Seq(ChunkIds), Unrepeated(shown)
    PROVE  /\ Sources(text, shown) \in Seq(ChunkIds)
           /\ Credited(setting.citable, text, shown, Sources(text, shown))
  <1> DEFINE cited == {i \in DOMAIN text : Matches(text[i]) /\ text[i] \in Range(shown)}
             firsts == {i \in cited : \A j \in cited : text[j] = text[i] => i <= j}
             ids == Range(text) \cap setting.citable \cap Range(shown)
  <1>0. /\ cited \subseteq DOMAIN text /\ DOMAIN text = 1 .. Len(text) /\ Len(text) \in Nat
        /\ \A i \in DOMAIN text : i \in cited <=> text[i] \in ids
        /\ \A x \in ids : \E i \in cited : text[i] = x
    BY DEF Matches, Range
  <1>1. CASE cited = {}
    <2>1. Sources(text, shown) = shown
      BY <1>1 DEF Sources
    <2>2. ids = {}
      BY <1>0, <1>1
    <2> QED BY <2>1, <2>2 DEF Credited
  <1>2. CASE cited # {}
    <2>1. Sources(text, shown) = At(text, firsts)
      BY <1>2 DEF Sources
    <2>2. ids # {} /\ ids \subseteq Range(shown)
      BY <1>0, <1>2
    <2>3. firsts \subseteq cited
      OBVIOUS
    <2>4. ASSUME NEW x \in ids
          PROVE  \E i \in firsts : text[i] = x
      <3> DEFINE I == {i \in cited : text[i] = x}
      <3>1. I \subseteq Nat /\ I # {}
        BY <1>0
      <3>2. PICK i \in I : \A j \in I : i <= j
        <4> HIDE DEF I
        <4> QED BY <3>1, Smallest
      <3> QED BY <3>2
    <2>5. ASSUME NEW i \in firsts, NEW j \in cited, text[j] = text[i] PROVE i <= j
      BY <2>5
    <2> HIDE DEF cited, firsts, ids
    <2>6. firsts \subseteq 1 .. Len(text)
      BY <1>0, <2>3
    <2>7. \A i, j \in firsts : text[i] = text[j] => i = j
      <3> SUFFICES ASSUME NEW i \in firsts, NEW j \in firsts, text[i] = text[j] PROVE i = j
        OBVIOUS
      <3>1. i <= j /\ j <= i /\ i \in Nat /\ j \in Nat
        BY <2>3, <2>5, <2>6, <1>0
      <3> QED BY <3>1
    <2>8. PICK s : s = At(text, firsts)
      OBVIOUS
    <2>9. /\ s \in Seq(ChunkIds) /\ Unrepeated(s) /\ (s = << >> <=> firsts = {})
          /\ \A k \in DOMAIN s : \E i \in firsts : s[k] = text[i]
          /\ \A i \in firsts : \E k \in DOMAIN s : s[k] = text[i]
          /\ \A k, l \in DOMAIN s : k < l => \E i, j \in firsts : i < j /\ s[k] = text[i] /\ s[l] = text[j]
      <3>1. /\ At(text, firsts) \in Seq(ChunkIds)
            /\ \A k \in DOMAIN At(text, firsts) : \E i \in firsts : At(text, firsts)[k] = text[i]
            /\ (\A i, j \in firsts : text[i] = text[j] => i = j) => Unrepeated(At(text, firsts))
            /\ At(text, firsts) = << >> <=> firsts = {}
            /\ \A i \in firsts : \E k \in DOMAIN At(text, firsts) : At(text, firsts)[k] = text[i]
            /\ \A k, l \in DOMAIN At(text, firsts) : k < l =>
                  \E i, j \in firsts : i < j /\ At(text, firsts)[k] = text[i] /\ At(text, firsts)[l] = text[j]
        <4>1. At(text, firsts) \in Seq(ChunkIds) /\ PicksOut(At(text, firsts), text, firsts)
          BY ONLY AtPlaces, text \in Seq(ChunkIds), <2>6
        <4> QED BY ONLY <4>1 DEF PicksOut
      <3> QED BY ONLY <2>7, <2>8, <3>1
    <2>10. s # << >> /\ shown # << >>
      <3>1. Range(<< >>) = {}
        <4>1. DOMAIN << >> = {}
          OBVIOUS
        <4> QED BY <4>1 DEF Range
      <3> QED BY <2>2, <2>4, <2>9, <3>1
    <2>11. Range(s) = ids
      <3>1. ASSUME NEW x \in Range(s) PROVE x \in ids
        <4>1. PICK k \in DOMAIN s : s[k] = x
          BY DEF Range
        <4> QED BY <1>0, <2>3, <2>6, <2>9, <4>1
      <3>2. ASSUME NEW x \in ids PROVE x \in Range(s)
        <4>1. PICK i \in firsts : text[i] = x
          BY ONLY <2>4, <3>2
        <4>2. PICK k \in DOMAIN s : s[k] = text[i]
          BY ONLY <2>9, i \in firsts
        <4> QED BY ONLY <4>1, <4>2 DEF Range
      <3> QED BY <3>1, <3>2
    <2>12. ASSUME NEW k \in DOMAIN s, NEW l \in DOMAIN s, k < l
           PROVE  Precedes(text, s[k], s[l])
      <3>1. PICK i \in firsts, j \in firsts : i < j /\ s[k] = text[i] /\ s[l] = text[j]
        BY <2>9, <2>12
      <3>2. ASSUME NEW m \in DOMAIN text, text[m] = s[l] PROVE i \in 1 .. m - 1
        <4>1. m \in cited
          BY <1>0, <2>3, <2>6, <3>1, <3>2
        <4>2. j <= m
          BY <2>5, <3>1, <3>2, <4>1
        <4>3. i \in 1 .. Len(text) /\ j \in 1 .. Len(text) /\ m \in 1 .. Len(text)
          BY <1>0, <2>6
        <4> QED BY ONLY <1>0, <3>1, <4>2, <4>3
      <3> QED BY <3>1, <3>2 DEF Precedes
    <2> QED BY <2>1, <2>2, <2>8, <2>9, <2>10, <2>11, <2>12 DEF Credited, ids
  <1> QED BY <1>1, <1>2

LEMMA RerankSound ==
    ASSUME SearchSound, setting \in Settings, Rerank
    PROVE  SearchSound'
  <1>1. setting' = setting /\ setting.top_k \in Nat /\ search \in SearchRecord
    BY SearchAssumption DEF SearchAssumption, SearchSound, Rerank, Searched
  <1>2. PICK k \in Nat : k = setting.top_k
    BY <1>1
  <1>3. PICK found \in Seq(ChunkIds) : found = search.found
    BY <1>1 DEF SearchRecord
  <1>4. Unrepeated(found) /\ (setting.mode = "native_rag" => Readables(found))
    BY <1>3 DEF SearchSound, Served
  <1>5. PICK shown \in Reranked :
           search' = [search EXCEPT !.pc = "synthesize", !.lanes = {}, !.shown = shown]
    BY DEF Rerank, Searched
  <1>6. /\ shown \in Seq(ChunkIds) /\ Len(shown) <= k /\ Unrepeated(shown)
        /\ Range(shown) \subseteq Range(found)
    <2>1. CASE shown = First(found, k)
      BY <1>4, <2>1, FirstHonest
    <2>2. CASE \E r \in Responses : shown = Chosen(r, k)
      BY <1>3, <1>4, <2>2, ChosenHonest
    <2>3. shown = First(found, k) \/ \E r \in Responses : shown = Chosen(r, k)
      BY <1>2, <1>3, <1>5 DEF Reranked
    <2> QED BY <2>1, <2>2, <2>3
  <1>8. /\ search' \in SearchRecord /\ search'.lanes = {} /\ search'.found = found
        /\ search'.shown = shown /\ search'.ctx = search.ctx /\ search'.pc = "synthesize"
    BY <1>1, <1>3, <1>5, <1>6, NoneAgreed DEF SearchRecord
  <1>9. Served(shown)' /\ Served(found)'
    BY <1>1, <1>2, <1>3, <1>4, <1>6, <1>8 DEF Served, Readables, SearchSound
  <1> QED BY <1>1, <1>8, <1>9, NoneAgreed DEF SearchSound, Served, Readables

LEMMA SynthesizeSound ==
    ASSUME SearchSound, setting \in Settings, Synthesize
    PROVE  SearchSound'
  <1>1. setting' = setting /\ search \in SearchRecord
    BY DEF SearchSound, Synthesize, Searched
  <1>2. PICK shown \in Seq(ChunkIds) : shown = search.shown
    BY <1>1 DEF SearchRecord
  <1>3. Unrepeated(shown)
    BY <1>2 DEF SearchSound, Served
  <1>4. \E text \in Seq(ChunkIds), sources \in Seq(ChunkIds) :
           /\ Credited(setting.citable, text, shown, sources)
           /\ search' = [search EXCEPT !.pc = "assess", !.text = text, !.sources = sources]
    <2>1. CASE shown = << >>
      <3>1. search' = [search EXCEPT !.pc = "assess", !.text = << >>, !.sources = << >>]
        BY <1>2, <2>1 DEF Synthesize, Searched
      <3>2. << >> \in Seq(ChunkIds) /\ Credited(setting.citable, << >>, shown, << >>)
        <4>1. DOMAIN << >> = {}
          OBVIOUS
        <4>2. Range(<< >>) = {}
          BY <4>1 DEF Range
        <4> QED BY <1>3, <2>1, <4>2 DEF Credited
      <3> QED BY <3>1, <3>2
    <2>2. CASE shown # << >>
      <3>1. PICK text \in Answers :
              search' = [search EXCEPT !.pc = "assess", !.text = text, !.sources = Sources(text, shown)]
        BY <1>2, <2>2 DEF Synthesize, Searched
      <3>2. text \in Seq(ChunkIds)
        BY SearchAssumption DEF SearchAssumption, ChunkIds
      <3> QED BY <1>3, <3>1, <3>2, SourcesCite
    <2> QED BY <2>1, <2>2
  <1>5. PICK text \in Seq(ChunkIds), sources \in Seq(ChunkIds) :
           /\ Credited(setting.citable, text, shown, sources)
           /\ search' = [search EXCEPT !.pc = "assess", !.text = text, !.sources = sources]
    BY <1>4
  <1>6. /\ search' \in SearchRecord /\ search'.lanes = search.lanes /\ search'.found = search.found
        /\ search'.shown = shown /\ search'.text = text /\ search'.sources = sources
        /\ search'.ctx = search.ctx
    BY <1>1, <1>2, <1>5 DEF SearchRecord
  <1> QED BY <1>1, <1>2, <1>5, <1>6 DEF SearchSound, Served, Readables

(* The other steps of a search leave what it has.                           *)
LEMMA SearchStays ==
    ASSUME SearchSound, setting' = setting,
           \/ UNCHANGED search
           \/ Break \/ Assess \/ Judge
    PROVE  SearchSound'
  <1>1. search \in SearchRecord
    BY DEF SearchSound
  <1>2. \/ search' = search
        \/ search' = [search EXCEPT !.pc = "error"]
        \/ search' = [search EXCEPT !.pc = "retrieve", !.again = TRUE]
        \/ search' = [search EXCEPT !.pc = "retrieve", !.again = FALSE, !.checked = TRUE]
        \/ search' = [search EXCEPT !.pc = "judge"] /\ search.pc = "assess"
        \/ search' = [search EXCEPT !.pc = "answered"] /\ search.pc = "judge"
    BY DEF Break, Assess, Judge, Searched
  <1>3. /\ search' \in SearchRecord /\ search'.lanes = search.lanes /\ search'.found = search.found
        /\ search'.shown = search.shown /\ search'.text = search.text
        /\ search'.sources = search.sources /\ search'.ctx = search.ctx
    <2>1. CASE search' = search
      BY ONLY <1>1, <2>1
    <2>2. CASE search' = [search EXCEPT !.pc = "error"]
      BY ONLY <1>1, <2>2 DEF SearchRecord
    <2>3. CASE search' = [search EXCEPT !.pc = "retrieve", !.again = TRUE]
      BY ONLY <1>1, <2>3 DEF SearchRecord
    <2>4. CASE search' = [search EXCEPT !.pc = "retrieve", !.again = FALSE, !.checked = TRUE]
      BY ONLY <1>1, <2>4 DEF SearchRecord
    <2>5. CASE search' = [search EXCEPT !.pc = "judge"] \/ search' = [search EXCEPT !.pc = "answered"]
      BY ONLY <1>1, <2>5 DEF SearchRecord
    <2> QED BY ONLY <1>2, <2>1, <2>2, <2>3, <2>4, <2>5
  <1>4. search'.pc \in {"assess", "judge", "answered"} => search.pc \in {"assess", "judge", "answered"}
    <2>1. CASE search' = [search EXCEPT !.pc = "error"]
      BY ONLY <1>1, <2>1 DEF SearchRecord
    <2>2. CASE search' = [search EXCEPT !.pc = "retrieve", !.again = TRUE]
      BY ONLY <1>1, <2>2 DEF SearchRecord
    <2>3. CASE search' = [search EXCEPT !.pc = "retrieve", !.again = FALSE, !.checked = TRUE]
      BY ONLY <1>1, <2>3 DEF SearchRecord
    <2> QED BY ONLY <1>2, <2>1, <2>2, <2>3
  <1> QED BY <1>3, <1>4 DEF SearchSound, Served, Readables

(* The caller's permissions are read when the search begins.                *)
LEMMA SearchSoundNext ==
    ASSUME UnderWay, SearchSound, [Next]_vars
    PROVE  SearchSound'
  <1>1. setting \in Settings /\ ctx \in Contexts \cup {None}
    BY DEF UnderWay
  <1>2. setting' = setting
    BY SearchKeeps DEF Next, Proceed, Change, Submit, Ask, ImageFails, Gather, Disown, Raise, Conclude,
                       Answered, SearchForJob, Attempt, Keep, vars
  <1>3. CASE \/ UNCHANGED search
             \/ Break \/ Assess \/ Judge
    BY <1>2, <1>3, SearchStays
  <1>4. CASE Retrieve
    BY <1>1, <1>4, RetrieveSound
  <1>5. CASE Rerank
    BY <1>1, <1>5, RerankSound
  <1>6. CASE Synthesize
    BY <1>1, <1>6, SynthesizeSound
  <1>7. CASE ctx # None /\ search' = Searching(ctx)
    <2>1. ctx \in Contexts
      BY <1>1, <1>7
    <2> QED BY <1>1, <1>2, <1>7, <2>1, SearchBegins
  <1>8. CASE SearchForJob
    BY <1>3, <1>4, <1>5, <1>6, <1>8 DEF SearchForJob, SearchStep
  <1>9. CASE Ask \/ Gather
    BY <1>3, <1>7, <1>9 DEF Ask, Gather
  <1>10. CASE \/ Submit \/ ImageFails \/ Disown \/ Raise \/ Conclude \/ Answered \/ Change
              \/ (\E reply \in Replies[setting.type] : Attempt(reply)) \/ UNCHANGED vars
    <2>1. UNCHANGED search
      BY <1>10 DEF Submit, ImageFails, Disown, Raise, Conclude, Answered, Change, Attempt, Keep, vars
    <2> QED BY <1>3, <2>1
  <1> QED BY <1>8, <1>9, <1>10 DEF Next, Proceed

LEMMA AlwaysSearchSound == FairSpec => []SearchSound
  <1>1. Init => SearchSound
    <2> SUFFICES ASSUME Init PROVE SearchSound
      OBVIOUS
    <2>1. setting \in Settings /\ search = NoSearch
      BY DEF Init
    <2>2. Served(<< >>)
      BY <2>1, NoneServed
    <2>3. search \in SearchRecord /\ search.pc = "idle"
      BY <2>1, NoneAgreed DEF SearchRecord, NoSearch
    <2> QED BY <2>1, <2>2, <2>3, NoneAgreed DEF SearchSound, NoSearch
  <1>2. Sound => UnderWay
    BY DEF Sound
  <1>3. UnderWay /\ SearchSound /\ [Next]_vars => SearchSound'
    BY SearchSoundNext
  <1> QED BY <1>1, <1>2, <1>3, AlwaysSound, PTL DEF FairSpec

(* The sources of an answer are what it cites, by its order, or all that    *)
(* the model was shown, once each; an answer without sources was given      *)
(* nothing.  What an index found was the caller's to read.                  *)
THEOREM SourcesAreHonest == FairSpec => []SourcesHonest
  <1>1. SearchSound => SourcesHonest
    BY DEF SearchSound, SourcesHonest, Credited, Cites, Served, Readables
  <1> QED BY <1>1, AlwaysSearchSound, PTL

(* Fusions, one within another, keep what every index agrees on, for every  *)
(* k for which the rounding to six digits tells the ranks apart.            *)
THEOREM FusionAgrees == FairSpec => [](setting.top_k <= 50 => FusionKeepsOrder)
  <1>1. SearchSound => (setting.top_k <= 50 => FusionKeepsOrder)
    BY DEF SearchSound, FusionKeepsOrder, Agreed, AllPrecede, Served
  <1> QED BY <1>1, AlwaysSearchSound, PTL

(***************************************************************************)
(* The types.                                                              *)
(***************************************************************************)
Ids(ms) == [i \in DOMAIN ms |-> ms[i].id]

LEMMA BudgetIs == ASSUME setting \in Settings PROVE Budget \in Nat \ {0} /\ Budget = Max({0, setting.retries}) + 1
  <1>1. setting.retries \in Int
    BY AnalysisAssumption DEF AnalysisAssumption
  <1> DEFINE S == {0, setting.retries}
  <1>2. \E x \in S : \A y \in S : x >= y
    BY <1>1
  <1>3. Max(S) \in S /\ \A y \in S : Max(S) >= y
    BY <1>2 DEF Max
  <1>4. Max(S) \in Nat
    BY <1>1, <1>3
  <1> HIDE DEF S
  <1>5. Budget = Max(S) + 1
    BY DEF Budget, S
  <1> QED BY <1>4, <1>5 DEF S

(* What is shown of the materials of a gathering has the id of a material   *)
(* or of the block of the graph.                                            *)
LEMMA ShownHasIds ==
    ASSUME setting \in Settings, NEW c, NEW ms, ms = Selected(InOrder(Wanted(c))), ms # << >>
    PROVE  /\ Ids(Selected(Fold(ms, c))) \in Seq(ChunkIds)
           /\ Range(Ids(Selected(Fold(ms, c)))) \subseteq IdsOf(ms) \cup {Block}
  <1>1. /\ ms \in Seq(StoredChunk) /\ Words(ms) <= setting.words
        /\ setting.chunks \in Nat /\ setting.words \in Nat
    BY MaterialsFound, AnalysisAssumption DEF AnalysisAssumption
  <1>2. PICK x : x.id = Block /\ (GraphContext(ms, c) = << >> \/ GraphContext(ms, c) = <<x>>)
    <2>1. CASE GraphContext(ms, c) = << >>
      <3>1. [id |-> Block].id = Block
        OBVIOUS
      <3> QED BY <2>1, <3>1
    <2>2. CASE GraphContext(ms, c) # << >>
      <3>1. PICK l, s, o, t :
              GraphContext(ms, c) = <<[id |-> Block, level |-> l, scope |-> s, owner |-> o, text |-> t]>>
        BY <2>2 DEF GraphContext
      <3>2. PICK x : x = [id |-> Block, level |-> l, scope |-> s, owner |-> o, text |-> t]
        OBVIOUS
      <3> QED BY <3>1, <3>2
    <2> QED BY <2>1, <2>2
  <1> DEFINE T == StoredChunk \cup {x}
  <1>3. ms \in Seq(T)
    BY <1>1
  <1>4. << >> \in Seq(T) /\ <<x>> \in Seq(T)
    OBVIOUS
  <1>5. \A t \in T : t.id \in ChunkIds
    <2>1. \A t \in StoredChunk : t.id \in Nat \X Nat
      BY DEF StoredChunk
    <2>2. x.id \in Nat \X Nat
      BY <1>2 DEF Block
    <2> QED BY <2>1, <2>2 DEF ChunkIds
  <1> HIDE DEF T
  <1>6. PICK more \in Seq(T) : more = GraphContext(ms, c) /\ Range(more) \subseteq {x}
    <2>1. Range(<< >>) = {} /\ Range(<<x>>) = {x}
      <3>1. DOMAIN << >> = {} /\ DOMAIN <<x>> = {1}
        OBVIOUS
      <3> QED BY <3>1 DEF Range
    <2> QED BY <1>2, <1>4, <2>1
  <1>7. PICK chunks \in Nat, words \in Nat : chunks = setting.chunks /\ words = setting.words
    BY <1>1
  <1>8. PICK sel : sel = Select(ms \o more, chunks, words)
    OBVIOUS
  <1>9. Len(ms) <= chunks
    <2>1. PICK all \in Seq(StoredChunk) : all = InOrder(Wanted(c))
      BY GatheredInOrder
    <2>2. ms = Select(all, chunks, words)
      BY <1>7, <2>1 DEF Selected
    <2> QED BY <2>2, SelectedFirst
  <1>10. sel \in Seq(T) /\ Range(sel) \subseteq Range(ms) \cup Range(more)
    BY <1>1, <1>3, <1>6, <1>7, <1>8, <1>9, FirstStay
  <1>11. Ids(sel) \in Seq(ChunkIds) /\ Range(Ids(sel)) = IdsOf(sel)
    <2>1. DOMAIN sel = 1 .. Len(sel) /\ Len(sel) \in Nat /\ \A i \in 1 .. Len(sel) : sel[i] \in T
      BY <1>10
    <2>2. Ids(sel) \in [1 .. Len(sel) -> ChunkIds]
      BY <1>5, <2>1 DEF Ids
    <2>3. Range(Ids(sel)) = IdsOf(sel)
      BY DEF Range, Ids, IdsOf
    <2> QED BY <2>1, <2>2, <2>3
  <1>12. IdsOf(sel) \subseteq IdsOf(ms) \cup {Block}
    BY <1>2, <1>6, <1>10 DEF IdsOf
  <1> QED BY <1>6, <1>7, <1>8, <1>11, <1>12 DEF Selected, Fold

(* What an analysis that is concluded stores.                               *)
Stores(r, objects, shown) ==
    \E status \in {"ok", "partial"} :
        r = [status |-> status, objects |-> objects, shown |-> shown, level |-> LevelOf(materials),
             scope |-> "personal", owner |-> access.user]

LEMMA ConcludeStores ==
    ASSUME UnderWay, Conclude
    PROVE  \/ pc' = "failed" /\ report' = None
           \/ pc' = "stored" /\ \E told \in Seq(ReplyObject) : Stores(report', told, Ids(Shown))
  <1> DEFINE whole == last # None /\ Valid(last)
             data == IF whole THEN last ELSE IF last = None THEN None ELSE Salvaged(last)
  <1>1. CASE data = None
    BY <1>1 DEF Conclude
  <1>2. CASE data # None
    <2>1. last # None /\ last \in ReplyData /\ data = IF Valid(last) THEN last ELSE Salvaged(last)
      BY <1>2 DEF UnderWay
    <2>2. PICK said : said = data.objects
      OBVIOUS
    <2>3. PICK full : full = CompletedOf(said)
      OBVIOUS
    <2>4. PICK told : told = CheckedOf(full)
      OBVIOUS
    <2> DEFINE status == IF whole /\ ~TooMany(Cardinality(Missed(full)), Cardinality(EvidenceOf(full)))
                         THEN "ok" ELSE "partial"
    <2>5. /\ pc' = "stored"
          /\ report' = [status |-> status, objects |-> told, shown |-> Ids(Shown),
                        level |-> LevelOf(materials), scope |-> "personal", owner |-> access.user]
      BY <1>2, <2>2, <2>3, <2>4 DEF Conclude, Stored, CompletedOf, CheckedOf, Ids
    <2>6. /\ data \in ReplyData /\ \A i \in DOMAIN said : ValidObject(said[i])
          /\ SaidIn(said, last.objects) /\ (last.objects # << >> => said # << >>)
      BY <1>2, <2>1, <2>2, PartsUsed
    <2> HIDE DEF data
    <2>7. said \in Seq(ReplyObject) /\ last.objects \in Seq(ReplyObject)
      BY <2>1, <2>2, <2>6 DEF ReplyData
    <2>8. PICK source \in Seq(ReplyObject) : source = last.objects
      BY <2>7
    <2>9. SaidIn(said, source) /\ (source # << >> => said # << >>)
      BY <2>6, <2>8
    <2>10. told \in Seq(ReplyObject)
      BY <2>3, <2>4, <2>6, <2>7, <2>9, ReportMade DEF Supported
    <2>11. status \in {"ok", "partial"}
      OBVIOUS
    <2> HIDE DEF status
    <2> QED BY <2>5, <2>10, <2>11 DEF Stores
  <1> QED BY <1>1, <1>2

Typed ==
    /\ pc \in {"submit", "refused", "queued", "asking", "parsed", "search", "told", "stored", "failed"}
    /\ feedback \in {"none", "syntax", "structure"}
    /\ attempts \in 0 .. Budget
    /\ pc \in {"submit", "queued"} => attempts = 0
    /\ pc = "asking" => attempts < Budget
    /\ access \in Contexts \cup {None}
    /\ pc \in {"asking", "parsed"} =>
          Ids(Shown) \in Seq(ChunkIds) /\ Range(Ids(Shown)) \subseteq IdsOf(materials) \cup {Block}
    /\ pc = "stored" => report \in Report
    /\ pc = "stored" /\ setting.type # "qa" => Range(report.shown) \subseteq IdsOf(materials) \cup {Block}

LEMMA StoredIsReport ==
    ASSUME UnderWay, access \in Contexts, materials \in Seq(StoredChunk),
           NEW r, NEW objects \in Seq(ReplyObject), NEW shown \in Seq(ChunkIds), Stores(r, objects, shown)
    PROVE  r \in Report
  <1>1. LevelOf(materials) \in 1 .. 3
    BY LevelCovers
  <1>2. access.user \in STRING
    BY AnalysisAssumption DEF AnalysisAssumption
  <1> QED BY <1>1, <1>2 DEF Stores, Report, ChunkIds

LEMMA TypedNext ==
    ASSUME UnderWay, MaterialsWithinAsked, SearchSound, Typed, [Next]_vars
    PROVE  Typed'
  <1>1. setting \in Settings /\ Budget \in Nat \ {0} /\ ctx \in Contexts \cup {None}
    BY BudgetIs DEF UnderWay
  <1>2. setting' = setting
    BY SearchKeeps DEF Next, Proceed, Change, Submit, Ask, ImageFails, Gather, Disown, Raise, Conclude,
                       Answered, SearchForJob, Attempt, Keep, vars
  <1>3. Budget' = Budget
    BY <1>2 DEF Budget
  <1>4. ASSUME given' = given PROVE Shown' = Shown
    BY <1>2, <1>4 DEF Shown, Selected
  <1>5. CASE Gather
    <2>1. /\ materials' = Selected(InOrder(Wanted(ctx))) /\ given' = Fold(materials', ctx)
          /\ pc' \in {"failed", "search", "asking"} /\ (pc' # "failed" => materials' # << >>)
          /\ access' = ctx /\ UNCHANGED <<attempts, feedback, report>> /\ pc = "queued"
      BY <1>5 DEF Gather, Keep
    <2>2. pc' \in {"asking", "parsed"} =>
            Ids(Shown') \in Seq(ChunkIds) /\ Range(Ids(Shown')) \subseteq IdsOf(materials') \cup {Block}
      <3> SUFFICES ASSUME pc' \in {"asking", "parsed"}
                   PROVE  /\ Ids(Shown') \in Seq(ChunkIds)
                          /\ Range(Ids(Shown')) \subseteq IdsOf(materials') \cup {Block}
        OBVIOUS
      <3>1. PICK ms : ms = materials'
        OBVIOUS
      <3>2. /\ Ids(Selected(Fold(ms, ctx))) \in Seq(ChunkIds)
            /\ Range(Ids(Selected(Fold(ms, ctx)))) \subseteq IdsOf(ms) \cup {Block}
        BY <1>1, <2>1, <3>1, ShownHasIds
      <3>3. Shown' = Selected(Fold(ms, ctx))
        BY <1>2, <2>1, <3>1 DEF Shown, Selected
      <3> QED BY <3>1, <3>2, <3>3
    <2> QED BY <1>1, <1>3, <2>1, <2>2 DEF Typed, Ids
  <1>6. CASE Conclude
    <2>1. /\ pc = "parsed" /\ UNCHANGED <<setting, access, materials, given, attempts, feedback>>
          /\ access \in Contexts /\ materials \in Seq(StoredChunk)
      BY <1>6 DEF Conclude, Keep, UnderWay, Typed
    <2>2. CASE pc' = "failed"
      BY <1>3, <2>1, <2>2 DEF Typed
    <2>3. CASE pc' = "stored" /\ \E told \in Seq(ReplyObject) : Stores(report', told, Ids(Shown))
      <3>1. Ids(Shown) \in Seq(ChunkIds) /\ Range(Ids(Shown)) \subseteq IdsOf(materials) \cup {Block}
        BY <2>1 DEF Typed
      <3>2. report' \in Report
        BY <2>1, <2>3, <3>1, StoredIsReport
      <3>3. report'.shown = Ids(Shown)
        BY <2>3 DEF Stores
      <3>4. Range(report'.shown) \subseteq IdsOf(materials') \cup {Block}
        BY <2>1, <3>1, <3>3
      <3> QED BY <1>3, <2>1, <2>3, <3>2, <3>4 DEF Typed
    <2> QED BY <1>6, <2>2, <2>3, ConcludeStores
  <1>7. CASE Answered
    <2>1. pc = "search" /\ UNCHANGED <<setting, access, materials, given, attempts, feedback>>
      BY <1>7 DEF Answered, Keep
    <2>2. CASE pc' \in {"failed", "told"}
      BY <1>3, <2>1, <2>2 DEF Typed
    <2>3. CASE pc' = "stored"
      <3>1. Stores(report', << >>, search.sources)
        BY <1>7, <2>3 DEF Answered, Stored, Stores
      <3>2. setting.type # "query" /\ access \in Contexts /\ materials \in Seq(StoredChunk)
        BY <1>7, <2>1, <2>3 DEF Answered, UnderWay, Typed
      <3>3. search.sources \in Seq(ChunkIds) /\ << >> \in Seq(ReplyObject)
        BY DEF SearchSound, SearchRecord
      <3>4. report' \in Report
        BY <3>1, <3>2, <3>3, StoredIsReport
      <3>5. setting.type = "qa"
        BY <2>1, <3>2 DEF UnderWay
      <3> QED BY <1>2, <1>3, <2>1, <2>3, <3>4, <3>5 DEF Typed
    <2> QED BY <1>7, <2>2, <2>3 DEF Answered
  <1>8. ASSUME NEW reply \in Replies[setting.type], Attempt(reply) PROVE Typed'
    <2>1. /\ pc = "asking" /\ attempts' = attempts + 1 /\ UNCHANGED <<setting, access, materials, given, report>>
          /\ pc' \in {"parsed", "asking"} /\ (attempts' = Budget => pc' = "parsed")
          /\ feedback' \in {feedback, "syntax", "structure"}
      BY <1>8 DEF Attempt, Keep, FeedbackMessage
    <2>2. attempts' \in 0 .. Budget /\ (pc' = "asking" => attempts' < Budget)
      BY <1>1, <2>1 DEF Typed
    <2> QED BY <1>3, <1>4, <2>1, <2>2 DEF Typed
  <1>9. CASE \/ Submit \/ Ask \/ ImageFails \/ Disown \/ Raise \/ SearchForJob \/ Change \/ UNCHANGED vars
    <2>1. /\ UNCHANGED <<access, materials, given, report, attempts, feedback>>
          /\ \/ pc' = pc
             \/ pc = "submit" /\ pc' \in {"refused", "queued", "search", "failed"}
             \/ pc' = "failed"
      BY <1>9 DEF Submit, Ask, ImageFails, Disown, Raise, SearchForJob, Change, Keep, vars, job
    <2> QED BY <1>2, <1>3, <1>4, <2>1 DEF Typed
  <1> QED BY <1>5, <1>6, <1>7, <1>8, <1>9 DEF Next, Proceed

LEMMA AlwaysTyped == FairSpec => []Typed
  <1>1. Init => Typed
    <2> SUFFICES ASSUME Init PROVE Typed
      OBVIOUS
    <2>1. setting \in Settings /\ pc = "submit" /\ attempts = 0 /\ feedback = "none" /\ access = None
      BY DEF Init
    <2> QED BY <2>1, BudgetIs DEF Typed
  <1>2. Sound => UnderWay /\ MaterialsWithinAsked
    BY DEF Sound
  <1>3. UnderWay /\ MaterialsWithinAsked /\ SearchSound /\ Typed /\ [Next]_vars => Typed'
    BY TypedNext
  <1> QED BY <1>1, <1>2, <1>3, AlwaysSound, AlwaysSearchSound, PTL DEF FairSpec

(* An analysis is asked of the model no more often than its budget, and has *)
(* a report exactly once it is stored.                                      *)
THEOREM AnalysesTyped == FairSpec => []AnalysisTypeOK
  <1>1. UnderWay /\ SearchSound /\ Typed => AnalysisTypeOK
    <2> SUFFICES ASSUME UnderWay, SearchSound, Typed PROVE AnalysisTypeOK
      OBVIOUS
    <2>1. SearchTypeOK
      <3>1. search \in SearchRecord
        BY DEF SearchSound
      <3>2. ASSUME NEW s \in Seq(ChunkIds) PROVE Range(s) \subseteq Int \X Int
        BY DEF Range, ChunkIds
      <3> QED BY <3>1, <3>2 DEF SearchTypeOK, SearchRecord
    <2>2. attempts \in 0 .. Max({0, setting.retries}) + 1
      BY BudgetIs DEF UnderWay, Typed
    <2>3. (report # None) = (pc = "stored")
      BY AnalysisAssumption DEF AnalysisAssumption, UnderWay, Typed
    <2>4. report # None => report.status \in {"ok", "partial"} /\ report.level \in 1 .. 3
      BY DEF UnderWay, Typed, Report
    <2> QED BY <2>1, <2>2, <2>3, <2>4 DEF AnalysisTypeOK, Typed
  <1>2. Sound => UnderWay
    BY DEF Sound
  <1> QED BY <1>1, <1>2, AlwaysSound, AlwaysSearchSound, AlwaysTyped, PTL

(* A report that is made from a template is the submitter's alone, and no   *)
(* longer once the clearance is below the level of a chunk that was in the  *)
(* prompt, whatever happens to the permissions.                             *)
THEOREM ReportsConfidential == FairSpec => []ReportCoversMaterials
  <1>1. Sound /\ Typed => ReportCoversMaterials
    <2> SUFFICES ASSUME Sound, Typed, report # None, setting.type # "qa",
                        NEW c \in Contexts, Visible(report, c)
                 PROVE  /\ c.user = access.user
                        /\ \A r \in Library : r.id \in Range(report.shown) => r.level <= c.clearance
      BY DEF ReportCoversMaterials, Covers
    <2>1. report.level = LevelOf(materials) /\ report.scope = "personal" /\ report.owner = access.user
      BY DEF Sound, ReportSound, Reported
    <2>2. c.clearance >= LevelOf(materials) /\ c.user = access.user
      BY <2>1 DEF Visible
    <2>3. pc = "stored" /\ materials \in Seq(StoredChunk) /\ Sourced(materials)
      BY DEF Sound, UnderWay
    <2>4. LevelOf(materials) \in 1 .. 3 /\ \A i \in DOMAIN materials : materials[i].level <= LevelOf(materials)
      BY <2>3, LevelCovers
    <2>5. c.clearance \in Int
      BY AnalysisAssumption DEF AnalysisAssumption
    <2>6. ASSUME NEW r \in Library, r.id \in Range(report.shown) PROVE r.level <= c.clearance
      <3>1. r.id \in IdsOf(materials) \cup {Block}
        BY <2>3, <2>6 DEF Typed
      <3>2. r.id # Block
        BY AnalysisAssumption DEF AnalysisAssumption, Block
      <3>3. PICK i \in DOMAIN materials : r.id = materials[i].id
        BY <3>1, <3>2 DEF IdsOf, Range
      <3>4. PICK other \in Library : other.id = materials[i].id /\ other.level = materials[i].level
        BY <2>3 DEF Sourced, Range
      <3>5. r = other
        BY <3>3, <3>4, AnalysisAssumption DEF AnalysisAssumption
      <3>6. r.level \in Int
        BY AnalysisAssumption DEF AnalysisAssumption, StoredChunk
      <3>7. r.level <= LevelOf(materials)
        BY <2>4, <3>4, <3>5
      <3> QED BY <2>2, <2>4, <2>5, <3>6, <3>7
    <2> QED BY <2>2, <2>6
  <1> QED BY <1>1, AlwaysSound, AlwaysTyped, PTL

(***************************************************************************)
(* The schema of a custom analysis.                                        *)
(***************************************************************************)
Paths == Seq(STRING)
Up(p) == Prefix(p, Len(p) - 1)

LEMMA PathsAbove ==
    ASSUME NEW p \in Paths, NEW n \in 0 .. Len(p)
    PROVE  /\ Prefix(p, n) \in Paths /\ Len(Prefix(p, n)) = n
           /\ \A i \in 1 .. n : Prefix(p, n)[i] = p[i]
           /\ \A k \in 0 .. n : Prefix(Prefix(p, n), k) = Prefix(p, k)
           /\ Prefix(p, 0) = << >> /\ Prefix(p, Len(p)) = p
  <1>1. Len(p) \in Nat /\ \A i \in 1 .. Len(p) : p[i] \in STRING
    BY DEF Paths
  <1>2. ASSUME NEW q \in Paths, NEW m \in 0 .. Len(q)
        PROVE  /\ Prefix(q, m) \in Paths /\ Len(Prefix(q, m)) = m
               /\ \A i \in 1 .. m : Prefix(q, m)[i] = q[i]
    <2>1. Len(q) \in Nat /\ m \in Int /\ m \in Nat /\ \A i \in 1 .. m : q[i] \in STRING
      BY DEF Paths
    <2>2. /\ SubSeq(q, 1, m) \in Seq(STRING)
          /\ Len(SubSeq(q, 1, m)) = IF 1 <= m THEN m - 1 + 1 ELSE 0
          /\ \A i \in 1 .. m - 1 + 1 : SubSeq(q, 1, m)[i] = q[1 + i - 1]
      BY <2>1, SubSeqProperties
    <2>3. Len(SubSeq(q, 1, m)) = m
      BY <2>1, <2>2
    <2>4. \A i \in 1 .. m : SubSeq(q, 1, m)[i] = q[i]
      BY <2>1, <2>2
    <2> QED BY <2>2, <2>3, <2>4 DEF Prefix, Paths
  <1>3. ASSUME NEW a \in Paths, NEW b \in Paths, Len(a) = Len(b), \A i \in 1 .. Len(a) : a[i] = b[i]
        PROVE  a = b
    BY <1>3, SeqEqual DEF Paths
  <1>4. /\ Prefix(p, n) \in Paths /\ Len(Prefix(p, n)) = n
        /\ \A i \in 1 .. n : Prefix(p, n)[i] = p[i]
    BY <1>2
  <1>5. ASSUME NEW k \in 0 .. n PROVE Prefix(Prefix(p, n), k) = Prefix(p, k)
    <2>1. PICK q \in Paths : q = Prefix(p, n)
      BY <1>4
    <2>2. k \in 0 .. Len(q) /\ k \in 0 .. Len(p) /\ \A i \in 1 .. k : i \in 1 .. n
      BY <1>1, <1>4, <2>1
    <2>3. /\ Prefix(q, k) \in Paths /\ Len(Prefix(q, k)) = k
          /\ \A i \in 1 .. k : Prefix(q, k)[i] = q[i]
      BY <1>2, <2>2
    <2>4. /\ Prefix(p, k) \in Paths /\ Len(Prefix(p, k)) = k
          /\ \A i \in 1 .. k : Prefix(p, k)[i] = p[i]
      BY <1>2, <2>2
    <2>5. \A i \in 1 .. k : Prefix(q, k)[i] = Prefix(p, k)[i]
      BY <1>4, <2>1, <2>2, <2>3, <2>4
    <2> QED BY <1>3, <2>1, <2>3, <2>4, <2>5
  <1>6. Prefix(p, 0) = << >>
    <2>1. 0 \in 0 .. Len(p)
      BY <1>1
    <2>2. Prefix(p, 0) \in Paths /\ Len(Prefix(p, 0)) = 0
      BY <1>2, <2>1
    <2> QED BY <2>2 DEF Paths
  <1>7. Prefix(p, Len(p)) = p
    <2>1. Len(p) \in 0 .. Len(p)
      BY <1>1
    <2> QED BY <1>2, <1>3, <2>1
  <1> QED BY <1>4, <1>5, <1>6, <1>7

(* The path above another one.                                              *)
LEMMA Above ==
    ASSUME NEW p \in Paths, p # << >>
    PROVE  /\ Len(p) \in Nat \ {0} /\ Up(p) \in Paths /\ Len(Up(p)) = Len(p) - 1
           /\ Last(p) = p[Len(p)] /\ Last(p) \in STRING
           /\ \A i \in 1 .. Len(p) - 1 : Up(p)[i] = p[i]
           /\ \A k \in 0 .. Len(p) - 1 : Prefix(Up(p), k) = Prefix(p, k)
  <1>1. Len(p) \in Nat \ {0}
    BY DEF Paths
  <1>2. Len(p) - 1 \in 0 .. Len(p) /\ Len(p) \in 1 .. Len(p)
    BY <1>1
  <1>3. p[Len(p)] \in STRING
    BY <1>2 DEF Paths
  <1>4. PICK n \in 0 .. Len(p) : n = Len(p) - 1
    BY <1>2
  <1>5. /\ Prefix(p, n) \in Paths /\ Len(Prefix(p, n)) = n
        /\ \A i \in 1 .. n : Prefix(p, n)[i] = p[i]
        /\ \A k \in 0 .. n : Prefix(Prefix(p, n), k) = Prefix(p, k)
    BY <1>4, PathsAbove
  <1>6. Up(p) = Prefix(p, n)
    BY <1>4 DEF Up
  <1>7. Last(p) = p[Len(p)]
    BY DEF Last
  <1> QED BY <1>1, <1>3, <1>4, <1>5, <1>6, <1>7

(* What holds of a path if it holds of the one above holds of all.          *)
LEMMA DownPaths ==
    ASSUME NEW D, D \subseteq Paths, NEW G,
           \A p \in D : p # << >> => Up(p) \in D,
           \A p \in D : (p = << >> \/ Up(p) \in G) => p \in G
    PROVE  D \subseteq G
  <1> DEFINE T == {Len(p) : p \in D \ G}
  <1>1. ASSUME D \ G # {} PROVE FALSE
    <2>1. T \subseteq Nat /\ T # {}
      <3>1. \A p \in D : Len(p) \in Nat
        BY DEF Paths
      <3>2. \A p \in D \ G : Len(p) \in T
        OBVIOUS
      <3>3. \A x \in T : x \in Nat
        BY <3>1
      <3> HIDE DEF T
      <3> QED BY <1>1, <3>2, <3>3
    <2>2. PICK n \in T : \A m \in T : n <= m
      <3> HIDE DEF T
      <3> QED BY <2>1, Smallest
    <2>3. PICK p \in D \ G : Len(p) = n
      OBVIOUS
    <2>4. p # << >> /\ Up(p) \in D /\ Up(p) \notin G
      OBVIOUS
    <2>5. Len(Up(p)) = n - 1 /\ n \in Nat
      BY <2>3, <2>4, Above
    <2>6. Len(Up(p)) \in T
      BY <2>4
    <2> HIDE DEF T
    <2> QED BY <2>2, <2>5, <2>6
  <1> QED BY <1>1

Kinds == {"schema", "names", "emptied", "whole", "cut"}

LEMMA PartKinds ==
    ASSUME NEW up \in Kinds, NEW key, NEW kind
    PROVE  Part(up, key, kind) \in Kinds
  BY DEF Part, Inner, Kinds

(* What becomes of the value at a path, from what becomes of the one above. *)
PartSteps(tree, p, f) ==
    /\ f[0] = "schema"
    /\ \A n \in 1 .. Len(p) : f[n] = Part(f[n - 1], p[n], tree[Prefix(p, n)])
    /\ f[Len(p)] = PartOf(tree, p)
    /\ \A n \in 0 .. Len(p) : f[n] \in Kinds

LEMMA PartsStep ==
    ASSUME NEW tree, NEW p \in Paths
    PROVE  \E f : PartSteps(tree, p, f)
  <1> DEFINE m == Len(p)
             step == [n \in 1 .. m |-> [y \in Kinds |-> Part(y, p[n], tree[Prefix(p, n)])]]
             part[n \in 0 .. m] == IF n = 0 THEN "schema" ELSE Part(part[n - 1], p[n], tree[Prefix(p, n)])
  <1>1. m \in Nat
    BY DEF Paths
  <1>2. PartOf(tree, p) = part[m]
    BY DEF PartOf
  <1>3. step \in [1 .. m -> [Kinds -> Kinds]] /\ "schema" \in Kinds
    BY PartKinds DEF Kinds
  <1>4. \A n \in 1 .. m, y \in Kinds : step[n][y] = Part(y, p[n], tree[Prefix(p, n)])
    OBVIOUS
  <1> HIDE DEF step, m
  <1>5. PICK f \in [0 .. m -> Kinds] : Steps(f, "schema", step, m)
    BY <1>1, <1>3, Recursion
  <1>6. f = [n \in 0 .. m |-> IF n = 0 THEN "schema" ELSE Part(f[n - 1], p[n], tree[Prefix(p, n)])]
    <2>1. \A n \in 0 .. m : n # 0 => n \in 1 .. m /\ f[n - 1] \in Kinds
      BY <1>1
    <2>2. \A n \in 0 .. m : f[n] = IF n = 0 THEN "schema" ELSE Part(f[n - 1], p[n], tree[Prefix(p, n)])
      BY <1>4, <1>5, <2>1 DEF Steps
    <2> QED BY <2>2
  <1>7. part = [n \in 0 .. m |-> IF n = 0 THEN "schema" ELSE Part(part[n - 1], p[n], tree[Prefix(p, n)])]
    BY <1>6
  <1> HIDE DEF part
  <1>8. part[0] = "schema" /\ \A n \in 1 .. m : part[n] = Part(part[n - 1], p[n], tree[Prefix(p, n)])
    <2>1. 0 \in 0 .. m /\ \A n \in 1 .. m : n \in 0 .. m /\ n # 0
      BY <1>1
    <2> QED BY <1>7, <2>1
  <1>9. \A n \in 0 .. m : part[n] \in Kinds
    <2> DEFINE T == {n \in 0 .. m : part[n] \notin Kinds}
    <2>1. ASSUME T # {} PROVE FALSE
      <3>1. T \subseteq Nat
        OBVIOUS
      <3>2. PICK n \in T : \A y \in T : n <= y
        <4> HIDE DEF T
        <4> QED BY <2>1, <3>1, Smallest
      <3>3. n # 0
        BY <1>3, <1>8, <3>2
      <3>4. n \in 1 .. m /\ n - 1 \in 0 .. m /\ n - 1 \notin T
        BY <1>1, <3>2, <3>3
      <3> QED BY <1>8, <3>2, <3>4, PartKinds
    <2> QED BY <2>1
  <1> QED BY <1>2, <1>8, <1>9 DEF PartSteps, m

LEMMA PartBelow ==
    ASSUME NEW tree, NEW p \in Paths
    PROVE  /\ PartOf(tree, p) \in Kinds
           /\ p = << >> => PartOf(tree, p) = "schema"
           /\ p # << >> => PartOf(tree, p) = Part(PartOf(tree, Up(p)), Last(p), tree[p])
  <1>1. PICK f : PartSteps(tree, p, f)
    BY PartsStep
  <1>2. Len(p) \in Nat
    BY DEF Paths
  <1>3. PartOf(tree, p) \in Kinds
    BY <1>1, <1>2 DEF PartSteps
  <1>4. ASSUME p = << >> PROVE PartOf(tree, p) = "schema"
    BY <1>1, <1>4 DEF PartSteps
  <1>5. ASSUME p # << >> PROVE PartOf(tree, p) = Part(PartOf(tree, Up(p)), Last(p), tree[p])
    <2>1. PICK q \in Paths : q = Up(p)
      BY <1>5, Above
    <2>2. /\ Len(p) \in Nat \ {0} /\ Len(q) = Len(p) - 1 /\ Last(p) = p[Len(p)]
          /\ \A i \in 1 .. Len(p) - 1 : q[i] = p[i]
          /\ \A k \in 0 .. Len(p) - 1 : Prefix(q, k) = Prefix(p, k)
      BY <1>5, <2>1, Above
    <2>3. PICK g : PartSteps(tree, q, g)
      BY <2>1, PartsStep
    <2> DEFINE m == Len(q)
               step == [n \in 1 .. m |-> [y \in Kinds |-> Part(y, p[n], tree[Prefix(p, n)])]]
    <2>4. m \in Nat /\ Len(p) = m + 1 /\ \A n \in 1 .. m : n \in 1 .. Len(p) /\ n \in 0 .. Len(p) - 1
          /\ n \in 1 .. Len(p) - 1 /\ n - 1 \in 0 .. m /\ n - 1 \in 0 .. Len(p)
      BY <2>2
    <2>5. Steps(f, "schema", step, m)
      <3>1. ASSUME NEW n \in 1 .. m PROVE f[n] = step[n][f[n - 1]]
        BY <1>1, <2>4 DEF PartSteps
      <3> QED BY <1>1, <3>1 DEF Steps, PartSteps
    <2>6. Steps(g, "schema", step, m)
      <3>1. ASSUME NEW n \in 1 .. m PROVE g[n] = step[n][g[n - 1]]
        BY <2>2, <2>3, <2>4 DEF PartSteps
      <3> QED BY <2>3, <3>1 DEF Steps, PartSteps
    <2>7. f[m] = g[m]
      <3> HIDE DEF step, m
      <3>1. m \in 0 .. m
        BY <2>4
      <3> QED BY <2>4, <2>5, <2>6, <3>1, SameSteps
    <2>8. f[Len(p)] = Part(f[Len(p) - 1], p[Len(p)], tree[Prefix(p, Len(p))])
      BY <1>1, <2>2 DEF PartSteps
    <2>9. Prefix(p, Len(p)) = p
      <3>1. PICK n \in 0 .. Len(p) : n = Len(p)
        BY <2>2
      <3>2. Prefix(p, 0) = << >> /\ Prefix(p, Len(p)) = p
        BY <3>1, PathsAbove
      <3> QED BY <3>2
    <2> QED BY <1>1, <2>1, <2>2, <2>3, <2>4, <2>7, <2>8, <2>9 DEF PartSteps
  <1> QED BY <1>3, <1>4, <1>5

LEMMA SchemaPaths ==
    ASSUME NEW tree, Schema(tree)
    PROVE  /\ DOMAIN tree \subseteq Paths /\ << >> \in DOMAIN tree /\ << >> \in Paths
           /\ \A p \in DOMAIN tree \ {<< >>} : Up(p) \in DOMAIN tree /\ tree[Up(p)] # "scalar"
           /\ \A p \in DOMAIN tree : tree[p] \in {"dict", "list", "scalar"}
           /\ IsFiniteSet(DOMAIN tree)
  BY DEF Schema, Paths, Up

(* What is left of a schema, and what it was.                               *)
LEMMA TrimmedIs ==
    ASSUME NEW tree, Schema(tree), NEW cut, cut = Trimmed(tree)
    PROVE  /\ DOMAIN cut \subseteq DOMAIN tree
           /\ \A p \in DOMAIN tree : p \in DOMAIN cut <=> PartOf(tree, p) # "cut"
           /\ \A p \in DOMAIN cut : PartOf(tree, p) = "emptied" => cut[p] = "dict"
           /\ \A p \in DOMAIN cut : PartOf(tree, p) # "emptied" => cut[p] = tree[p]
           /\ << >> \in DOMAIN cut /\ PartOf(tree, << >>) = "schema"
           /\ \A p \in DOMAIN cut \ {<< >>} :
                 /\ Up(p) \in DOMAIN cut /\ cut[Up(p)] = tree[Up(p)]
                 /\ PartOf(tree, Up(p)) \in {"schema", "names", "whole"}
                 /\ PartOf(tree, p) = Part(PartOf(tree, Up(p)), Last(p), tree[p])
  <1>1. cut = [p \in {q \in DOMAIN tree : PartOf(tree, q) # "cut"} |->
                 IF PartOf(tree, p) = "emptied" THEN "dict" ELSE tree[p]]
    BY DEF Trimmed
  <1>2. PartOf(tree, << >>) = "schema"
    BY SchemaPaths, PartBelow
  <1>3. /\ DOMAIN cut \subseteq DOMAIN tree
        /\ \A p \in DOMAIN tree : p \in DOMAIN cut <=> PartOf(tree, p) # "cut"
        /\ \A p \in DOMAIN cut : PartOf(tree, p) = "emptied" => cut[p] = "dict"
        /\ \A p \in DOMAIN cut : PartOf(tree, p) # "emptied" => cut[p] = tree[p]
    BY <1>1
  <1>4. << >> \in DOMAIN cut
    BY <1>2, <1>3, SchemaPaths
  <1>5. ASSUME NEW p \in DOMAIN cut \ {<< >>}
        PROVE  /\ Up(p) \in DOMAIN cut /\ cut[Up(p)] = tree[Up(p)]
               /\ PartOf(tree, Up(p)) \in {"schema", "names", "whole"}
               /\ PartOf(tree, p) = Part(PartOf(tree, Up(p)), Last(p), tree[p])
    <2>1. p \in Paths /\ p # << >> /\ Up(p) \in DOMAIN tree /\ PartOf(tree, p) # "cut"
      BY <1>3, SchemaPaths
    <2>2. PartOf(tree, p) = Part(PartOf(tree, Up(p)), Last(p), tree[p])
      BY <2>1, PartBelow
    <2>3. Up(p) \in Paths
      BY <2>1, SchemaPaths
    <2>4. PartOf(tree, Up(p)) \in Kinds
      BY <2>3, PartBelow
    <2>5. PartOf(tree, Up(p)) \notin {"cut", "emptied"}
      BY <2>1, <2>2 DEF Part, Inner
    <2>6. PartOf(tree, Up(p)) \in {"schema", "names", "whole"}
      BY <2>4, <2>5 DEF Kinds
    <2> QED BY <1>3, <2>1, <2>2, <2>6
  <1> QED BY <1>2, <1>3, <1>4, <1>5

(* To trim it again changes nothing.                                        *)
LEMMA TrimmedStays ==
    ASSUME NEW tree, Schema(tree), NEW cut, cut = Trimmed(tree)
    PROVE  Trimmed(cut) = cut
  <1> DEFINE After(p) == IF PartOf(tree, p) = "emptied" THEN "schema" ELSE PartOf(tree, p)
             G == {p \in DOMAIN cut : PartOf(cut, p) = After(p)}
  <1>1. /\ DOMAIN cut \subseteq Paths
        /\ \A p \in DOMAIN cut : PartOf(tree, p) # "cut"
        /\ \A p \in DOMAIN cut : PartOf(tree, p) = "emptied" => cut[p] = "dict"
        /\ \A p \in DOMAIN cut : PartOf(tree, p) # "emptied" => cut[p] = tree[p]
        /\ << >> \in DOMAIN cut /\ PartOf(tree, << >>) = "schema"
        /\ \A p \in DOMAIN cut : p # << >> =>
              /\ Up(p) \in DOMAIN cut /\ PartOf(tree, Up(p)) \in {"schema", "names", "whole"}
              /\ PartOf(tree, p) = Part(PartOf(tree, Up(p)), Last(p), tree[p])
    BY TrimmedIs, SchemaPaths
  <1>2. ASSUME NEW p \in DOMAIN cut, p = << >> \/ Up(p) \in G PROVE p \in G
    <2>1. p \in Paths
      BY <1>1
    <2>2. CASE p = << >>
      BY <1>1, <2>1, <2>2, PartBelow
    <2>3. CASE p # << >>
      <3>1. PartOf(cut, p) = Part(PartOf(cut, Up(p)), Last(p), cut[p])
        BY <2>1, <2>3, PartBelow
      <3>2. PartOf(cut, Up(p)) = PartOf(tree, Up(p)) /\ PartOf(tree, Up(p)) \in {"schema", "names", "whole"}
        BY <1>1, <1>2, <2>3
      <3>3. PartOf(tree, p) = Part(PartOf(tree, Up(p)), Last(p), tree[p])
        BY <1>1, <2>3
      <3>4. CASE PartOf(tree, p) = "emptied"
        <4>1. cut[p] = "dict"
          BY <1>1, <3>4
        <4>2. PartOf(tree, Up(p)) = "names"
          BY <3>2, <3>3, <3>4 DEF Part, Inner
        <4>3. PartOf(cut, p) = "schema"
          BY <3>1, <3>2, <4>1, <4>2 DEF Part, Inner
        <4> QED BY <3>4, <4>3
      <3>5. CASE PartOf(tree, p) # "emptied"
        BY <1>1, <3>1, <3>2, <3>3, <3>5
      <3> QED BY <3>4, <3>5
    <2> QED BY <2>2, <2>3
  <1>3. DOMAIN cut \subseteq G
    <2>1. \A p \in DOMAIN cut : p # << >> => Up(p) \in DOMAIN cut
      BY <1>1
    <2> HIDE DEF G
    <2> QED BY <1>1, <1>2, <2>1, DownPaths
  <1>4. \A p \in DOMAIN cut : PartOf(cut, p) # "cut" /\ PartOf(cut, p) # "emptied"
    BY <1>1, <1>3
  <1>5. Trimmed(cut) = [p \in {q \in DOMAIN cut : PartOf(cut, q) # "cut"} |->
                          IF PartOf(cut, p) = "emptied" THEN "dict" ELSE cut[p]]
    BY DEF Trimmed
  <1>6. Trimmed(cut) = [p \in DOMAIN cut |-> cut[p]]
    BY <1>4, <1>5
  <1>7. cut = [p \in DOMAIN cut |-> cut[p]]
    BY DEF Trimmed
  <1> QED BY <1>6, <1>7

(* The names of properties are below a dict of that key.                    *)
NamedAt(tree, p, i) == i > 1 /\ p[i - 1] = "properties" /\ tree[Prefix(p, i - 1)] = "dict"

LEMMA NamesAre ==
    ASSUME NEW tree, NEW q \in Paths, PartOf(tree, q) = "names"
    PROVE  q # << >> /\ Last(q) = "properties" /\ tree[q] = "dict"
  <1>1. q # << >>
    BY PartBelow
  <1>2. PartOf(tree, q) = Part(PartOf(tree, Up(q)), Last(q), tree[q]) /\ Up(q) \in Paths
    BY <1>1, PartBelow, Above
  <1>3. PartOf(tree, Up(q)) \in Kinds
    BY <1>2, PartBelow
  <1> QED BY <1>1, <1>2, <1>3 DEF Part, Inner, Kinds

(* A value that is kept whole is one, or is within one, that a key names    *)
(* which the code knows, in what is read as a schema.                       *)
WholeFrom(tree, p, n) ==
    \E i \in 1 .. n :
        /\ PartOf(tree, Prefix(p, i - 1)) = "schema" /\ p[i] \in Safe
        /\ p[i] \notin {"properties", "items"} \/ tree[Prefix(p, i)] # "dict"

LEMMA WholeNamed ==
    ASSUME NEW tree, Schema(tree), NEW p \in DOMAIN tree, PartOf(tree, p) = "whole"
    PROVE  WholeFrom(tree, p, Len(p))
  <1> DEFINE G == {q \in DOMAIN tree : PartOf(tree, q) = "whole" => WholeFrom(tree, q, Len(q))}
  <1>1. /\ DOMAIN tree \subseteq Paths
        /\ \A q \in DOMAIN tree : q # << >> => Up(q) \in DOMAIN tree
    BY SchemaPaths
  <1>2. ASSUME NEW q \in DOMAIN tree, q = << >> \/ Up(q) \in G PROVE q \in G
    <2> SUFFICES ASSUME PartOf(tree, q) = "whole" PROVE WholeFrom(tree, q, Len(q))
      OBVIOUS
    <2>1. q \in Paths /\ q # << >>
      BY <1>1, PartBelow
    <2>2. /\ PartOf(tree, q) = Part(PartOf(tree, Up(q)), Last(q), tree[q])
          /\ Up(q) \in Paths
      BY <2>1, PartBelow, Above
    <2>3. PartOf(tree, Up(q)) \in Kinds
      BY <2>2, PartBelow
    <2>4. /\ Len(q) \in Nat \ {0} /\ Len(Up(q)) = Len(q) - 1 /\ Last(q) = q[Len(q)]
          /\ \A i \in 1 .. Len(q) - 1 : Up(q)[i] = q[i]
          /\ \A k \in 0 .. Len(q) - 1 : Prefix(Up(q), k) = Prefix(q, k)
      BY <2>1, Above
    <2>5. Prefix(q, Len(q)) = q
      <3>1. PICK n \in 0 .. Len(q) : n = Len(q)
        BY <2>4
      <3>2. Prefix(q, 0) = << >> /\ Prefix(q, Len(q)) = q
        BY <2>1, <3>1, PathsAbove
      <3> QED BY <3>2
    <2>6. CASE PartOf(tree, Up(q)) = "schema"
      <3>1. Last(q) \in Safe /\ (Last(q) \notin {"properties", "items"} \/ tree[q] # "dict")
        BY <2>2, <2>6 DEF Part, Inner
      <3>2. Prefix(q, Len(q) - 1) = Up(q)
        BY DEF Up
      <3> QED BY <2>4, <2>5, <2>6, <3>1, <3>2 DEF WholeFrom
    <2>7. CASE PartOf(tree, Up(q)) = "whole"
      <3>1. WholeFrom(tree, Up(q), Len(Up(q)))
        BY <1>2, <2>1, <2>7
      <3>2. PICK i \in 1 .. Len(q) - 1 :
              /\ PartOf(tree, Prefix(Up(q), i - 1)) = "schema" /\ Up(q)[i] \in Safe
              /\ Up(q)[i] \notin {"properties", "items"} \/ tree[Prefix(Up(q), i)] # "dict"
        BY <2>4, <3>1 DEF WholeFrom
      <3>3. i \in 0 .. Len(q) - 1 /\ i - 1 \in 0 .. Len(q) - 1 /\ i \in 1 .. Len(q)
        BY <2>4, <3>2
      <3> QED BY <2>4, <3>2, <3>3 DEF WholeFrom
    <2>8. PartOf(tree, Up(q)) \in {"schema", "whole"}
      BY <2>2, <2>3 DEF Part, Inner, Kinds
    <2> QED BY <2>6, <2>7, <2>8
  <1>3. DOMAIN tree \subseteq G
    <2> HIDE DEF G
    <2> QED BY <1>1, <1>2, DownPaths
  <1> QED BY <1>3

(* The paths above one are there, and hold something.                       *)
LEMMA AllAbove ==
    ASSUME NEW tree, Schema(tree), NEW cut, cut = Trimmed(tree), NEW p \in DOMAIN cut, NEW i \in 0 .. Len(p) - 1
    PROVE  Prefix(p, i) \in DOMAIN cut /\ cut[Prefix(p, i)] = tree[Prefix(p, i)]
           /\ tree[Prefix(p, i)] \in {"dict", "list"}
  <1> DEFINE Fit(k, q) == k < Len(q) => Prefix(q, k) \in DOMAIN cut /\ cut[Prefix(q, k)] = tree[Prefix(q, k)]
                               /\ tree[Prefix(q, k)] \in {"dict", "list"}
             G == {q \in DOMAIN cut : \A k \in Nat : Fit(k, q)}
  <1>1. /\ DOMAIN cut \subseteq Paths /\ DOMAIN cut \subseteq DOMAIN tree
        /\ \A q \in DOMAIN cut : q # << >> =>
              /\ Up(q) \in DOMAIN cut /\ cut[Up(q)] = tree[Up(q)] /\ tree[Up(q)] \in {"dict", "list"}
    BY TrimmedIs, SchemaPaths
  <1>2. ASSUME NEW q \in DOMAIN cut, q = << >> \/ Up(q) \in G PROVE q \in G
    <2> SUFFICES ASSUME NEW k \in Nat, k < Len(q)
                 PROVE  Prefix(q, k) \in DOMAIN cut /\ cut[Prefix(q, k)] = tree[Prefix(q, k)]
                        /\ tree[Prefix(q, k)] \in {"dict", "list"}
      OBVIOUS
    <2>1. q \in Paths /\ q # << >>
      BY <1>1
    <2>2. /\ Len(q) \in Nat \ {0} /\ Len(Up(q)) = Len(q) - 1
          /\ \A n \in 0 .. Len(q) - 1 : Prefix(Up(q), n) = Prefix(q, n)
      BY <2>1, Above
    <2>3. CASE k = Len(q) - 1
      <3>1. Prefix(q, k) = Up(q)
        BY <2>3 DEF Up
      <3> QED BY <1>1, <2>1, <3>1
    <2>4. CASE k < Len(q) - 1
      <3>1. Fit(k, Up(q))
        BY <1>2, <2>1
      <3>2. Prefix(Up(q), k) = Prefix(q, k)
        BY <2>2, <2>4
      <3> QED BY <2>2, <2>4, <3>1, <3>2
    <2>5. k = Len(q) - 1 \/ k < Len(q) - 1
      BY <2>2
    <2> QED BY <2>3, <2>4, <2>5
  <1>3. DOMAIN cut \subseteq G
    <2> HIDE DEF G
    <2> QED BY <1>1, <1>2, DownPaths
  <1>4. i \in Nat /\ i < Len(p)
    <2>1. Len(p) \in Nat
      BY <1>1 DEF Paths
    <2> QED BY <2>1
  <1> QED BY <1>3, <1>4

(* What is left is small, and knows its keys.                               *)
LEMMA TrimmedSafe ==
    ASSUME NEW tree, Schema(tree), Acceptable(tree), NEW cut, cut = Trimmed(tree), setting \in Settings
    PROVE  /\ cut[<< >>] = "dict"
           /\ \A p \in DOMAIN cut : Len(p) <= setting.depth
           /\ \A p \in Keys(cut) : Last(p) # "$ref"
           /\ Cardinality(Keys(cut)) <= setting.fields
  <1>1. /\ DOMAIN cut \subseteq DOMAIN tree /\ IsFiniteSet(DOMAIN tree)
        /\ << >> \in DOMAIN cut /\ cut[<< >>] = tree[<< >>]
        /\ \A p \in DOMAIN cut \ {<< >>} : Up(p) \in DOMAIN cut /\ cut[Up(p)] = tree[Up(p)]
    <2>1. PartOf(tree, << >>) # "emptied"
      BY TrimmedIs
    <2> QED BY <2>1, TrimmedIs, SchemaPaths
  <1>2. setting.depth \in Nat /\ setting.fields \in Nat
    BY AnalysisAssumption DEF AnalysisAssumption
  <1>3. ASSUME NEW p \in DOMAIN cut PROVE Len(p) <= setting.depth
    <2>1. CASE p = << >>
      BY <1>2, <2>1
    <2>2. CASE p # << >>
      <3>1. p \in Paths /\ Up(p) \in DOMAIN tree /\ tree[Up(p)] # "scalar"
        BY <1>1, <2>2, SchemaPaths
      <3>2. Len(Up(p)) = Len(p) - 1 /\ Len(p) \in Nat
        BY <2>2, <3>1, Above
      <3>3. Len(Up(p)) < setting.depth
        BY <3>1 DEF Acceptable
      <3> QED BY <1>2, <3>2, <3>3
    <2> QED BY <2>1, <2>2
  <1>4. Keys(cut) \subseteq Keys(tree)
    BY <1>1 DEF Keys, Up
  <1>5. Keys(tree) \subseteq DOMAIN tree
    BY DEF Keys
  <1>6. /\ Cardinality(Keys(cut)) <= Cardinality(Keys(tree))
        /\ Cardinality(Keys(cut)) \in Nat /\ Cardinality(Keys(tree)) \in Nat
    <2>1. IsFiniteSet(Keys(tree))
      BY <1>1, <1>5, FS_Subset
    <2>2. IsFiniteSet(Keys(cut))
      BY <1>4, <2>1, FS_Subset
    <2> QED BY <1>4, <2>1, <2>2, FS_Subset, FS_CardinalityType
  <1>7. Cardinality(Keys(tree)) <= setting.fields
        /\ tree[<< >>] = "dict" /\ \A p \in Keys(tree) : Last(p) # "$ref"
    BY DEF Acceptable
  <1> QED BY <1>1, <1>2, <1>3, <1>4, <1>6, <1>7

(* Nothing in it is new but the empty schemas of properties that had none.  *)
LEMMA TrimmedNew ==
    ASSUME NEW tree, Schema(tree), NEW cut, cut = Trimmed(tree), NEW p \in DOMAIN cut
    PROVE  /\ p \in DOMAIN tree
           /\ cut[p] = tree[p] \/ (cut[p] = "dict" /\ NamedAt(cut, p, Len(p)))
  <1>1. p \in DOMAIN tree /\ p \in Paths
    BY TrimmedIs, SchemaPaths
  <1>2. CASE PartOf(tree, p) # "emptied"
    BY <1>1, <1>2, TrimmedIs
  <1>3. CASE PartOf(tree, p) = "emptied"
    <2>1. cut[p] = "dict" /\ p # << >>
      BY <1>3, TrimmedIs
    <2>2. /\ Up(p) \in Paths /\ cut[Up(p)] = tree[Up(p)]
          /\ PartOf(tree, p) = Part(PartOf(tree, Up(p)), Last(p), tree[p])
          /\ PartOf(tree, Up(p)) \in {"schema", "names", "whole"}
      BY <1>1, <2>1, TrimmedIs, Above
    <2>3. PartOf(tree, Up(p)) = "names"
      BY <1>3, <2>2 DEF Part, Inner
    <2>4. Up(p) # << >> /\ Last(Up(p)) = "properties" /\ tree[Up(p)] = "dict"
      BY <2>2, <2>3, NamesAre
    <2>5. /\ Len(p) \in Nat \ {0} /\ Len(Up(p)) = Len(p) - 1
          /\ \A i \in 1 .. Len(p) - 1 : Up(p)[i] = p[i]
      BY <1>1, <2>1, Above
    <2>6. Len(Up(p)) \in Nat \ {0} /\ Last(Up(p)) = Up(p)[Len(Up(p))]
      BY <2>2, <2>4, Above
    <2>7. Len(p) > 1 /\ p[Len(p) - 1] = "properties"
      BY <2>4, <2>5, <2>6
    <2> QED BY <1>1, <2>1, <2>2, <2>4, <2>7 DEF NamedAt, Up
  <1> QED BY <1>2, <1>3

(* A key of what is read as a schema is no name, unless the key above is.   *)
LEMMA KeywordAt ==
    ASSUME NEW tree, Schema(tree), NEW cut, cut = Trimmed(tree), NEW p \in DOMAIN cut,
           NEW i \in 1 .. Len(p), PartOf(tree, Prefix(p, i - 1)) = "schema", NamedAt(cut, p, i)
    PROVE  NamedAt(cut, p, i - 1)
  <1>1. p \in Paths /\ Len(p) \in Nat
    <2>1. p \in Paths
      BY TrimmedIs, SchemaPaths
    <2> QED BY <2>1 DEF Paths
  <1>2. PICK n \in Nat : n = i - 1 /\ n > 0 /\ n \in 0 .. Len(p) - 1 /\ n - 1 \in 0 .. Len(p) - 1 /\ n \in 0 .. Len(p)
    BY <1>1 DEF NamedAt
  <1>3. PICK q \in Paths : q = Prefix(p, n) /\ Len(q) = n /\ \A k \in 1 .. n : q[k] = p[k]
    BY <1>1, <1>2, PathsAbove
  <1>4. q # << >>
    <2>1. Len(<< >>) = 0
      OBVIOUS
    <2> QED BY <1>2, <1>3, <2>1
  <1>5. p[n] = "properties" /\ cut[q] = "dict" /\ PartOf(tree, q) = "schema"
    BY <1>2, <1>3 DEF NamedAt
  <1>6. tree[q] = "dict"
    BY <1>2, <1>3, <1>5, AllAbove
  <1>7. /\ PartOf(tree, q) = Part(PartOf(tree, Up(q)), Last(q), tree[q])
        /\ Last(q) = q[Len(q)] /\ Up(q) \in Paths /\ Len(Up(q)) = Len(q) - 1
        /\ \A k \in 1 .. Len(q) - 1 : Up(q)[k] = q[k]
        /\ \A k \in 0 .. Len(q) : Prefix(q, k) = Prefix(p, k)
    <2>1. \A k \in 0 .. n : Prefix(Prefix(p, n), k) = Prefix(p, k)
      BY <1>1, <1>2, PathsAbove
    <2> QED BY <1>3, <1>4, <2>1, PartBelow, Above
  <1>8. PartOf(tree, Up(q)) \in Kinds
    BY <1>7, PartBelow
  <1>9. PartOf(tree, Up(q)) = "names"
    BY <1>2, <1>3, <1>5, <1>6, <1>7, <1>8 DEF Part, Inner, Kinds
  <1>10. Up(q) # << >> /\ Last(Up(q)) = "properties" /\ tree[Up(q)] = "dict"
    BY <1>7, <1>9, NamesAre
  <1>11. Len(Up(q)) \in Nat \ {0} /\ Last(Up(q)) = Up(q)[Len(Up(q))]
    BY <1>7, <1>10, Above
  <1>12. n > 1 /\ p[n - 1] = "properties"
    BY <1>2, <1>3, <1>7, <1>10, <1>11
  <1>13. Up(q) = Prefix(p, n - 1)
    BY <1>2, <1>3, <1>7 DEF Up
  <1>14. cut[Prefix(p, n - 1)] = "dict"
    BY <1>2, <1>10, <1>13, AllAbove
  <1> QED BY <1>2, <1>12, <1>14 DEF NamedAt

LEMMA TrimmedKnows ==
    ASSUME NEW tree, Schema(tree), NEW cut, cut = Trimmed(tree), NEW p \in DOMAIN cut \ {<< >>}
    PROVE  \/ Last(p) \in Safe \/ NamedAt(cut, p, Len(p))
           \/ \E i \in 1 .. Len(p) - 1 :
                 /\ p[i] \in Safe /\ (NamedAt(cut, p, i) => NamedAt(cut, p, i - 1))
                 /\ p[i] \notin {"properties", "items"} \/ cut[Prefix(p, i)] = "list"
  <1>1. /\ p \in Paths /\ p # << >> /\ Up(p) \in DOMAIN cut /\ Up(p) \in DOMAIN tree /\ Up(p) \in Paths
        /\ cut[Up(p)] = tree[Up(p)]
        /\ PartOf(tree, Up(p)) \in {"schema", "names", "whole"} /\ PartOf(tree, p) # "cut"
        /\ PartOf(tree, p) = Part(PartOf(tree, Up(p)), Last(p), tree[p])
    BY TrimmedIs, SchemaPaths
  <1>2. /\ Len(p) \in Nat \ {0} /\ Len(Up(p)) = Len(p) - 1
        /\ \A i \in 1 .. Len(p) - 1 : Up(p)[i] = p[i]
        /\ \A k \in 0 .. Len(p) - 1 : Prefix(Up(p), k) = Prefix(p, k)
    BY <1>1, Above
  <1>3. CASE PartOf(tree, Up(p)) = "schema"
    <2>1. Last(p) \in Safe
      BY <1>1, <1>3 DEF Part
    <2> QED BY <2>1
  <1>4. CASE PartOf(tree, Up(p)) = "names"
    <2>1. Up(p) # << >> /\ Last(Up(p)) = "properties" /\ tree[Up(p)] = "dict"
      BY <1>1, <1>4, NamesAre
    <2>2. Len(Up(p)) \in Nat \ {0} /\ Last(Up(p)) = Up(p)[Len(Up(p))]
      BY <1>1, <2>1, Above
    <2>3. Len(p) > 1 /\ p[Len(p) - 1] = "properties"
      BY <1>2, <2>1, <2>2
    <2>4. cut[Prefix(p, Len(p) - 1)] = "dict"
      BY <1>1, <2>1 DEF Up
    <2> QED BY <2>3, <2>4 DEF NamedAt
  <1>5. CASE PartOf(tree, Up(p)) = "whole"
    <2>1. WholeFrom(tree, Up(p), Len(Up(p)))
      BY <1>1, <1>5, WholeNamed
    <2>2. PICK i \in 1 .. Len(p) - 1 :
            /\ PartOf(tree, Prefix(Up(p), i - 1)) = "schema" /\ Up(p)[i] \in Safe
            /\ Up(p)[i] \notin {"properties", "items"} \/ tree[Prefix(Up(p), i)] # "dict"
      BY <1>2, <2>1 DEF WholeFrom
    <2>3. i \in 0 .. Len(p) - 1 /\ i - 1 \in 0 .. Len(p) - 1 /\ i \in 1 .. Len(p)
      BY <1>2, <2>2
    <2>4. /\ PartOf(tree, Prefix(p, i - 1)) = "schema" /\ p[i] \in Safe
          /\ p[i] \notin {"properties", "items"} \/ tree[Prefix(p, i)] # "dict"
      BY <1>2, <2>2, <2>3
    <2>5. cut[Prefix(p, i)] = tree[Prefix(p, i)] /\ tree[Prefix(p, i)] \in {"dict", "list"}
      BY <2>3, AllAbove
    <2>6. NamedAt(cut, p, i) => NamedAt(cut, p, i - 1)
      BY <2>3, <2>4, KeywordAt
    <2> QED BY <2>2, <2>4, <2>5, <2>6
  <1> QED BY <1>1, <1>3, <1>4, <1>5

LEMMA SchemaStays ==
    ASSUME setting' = setting, sent' = sent, SchemaTrimmed
    PROVE  SchemaTrimmed'
  BY DEF SchemaTrimmed, NameAt

LEMMA SchemaNext ==
    ASSUME UnderWay, SchemaTrimmed, [Next]_vars
    PROVE  SchemaTrimmed'
  <1>1. setting \in Settings
    BY DEF UnderWay
  <1>2. setting' = setting
    BY SearchKeeps DEF Next, Proceed, Change, Submit, Ask, ImageFails, Gather, Disown, Raise, Conclude,
                       Answered, SearchForJob, Attempt, Keep, vars
  <1>3. CASE sent' = sent \/ sent' = None
    <2>1. CASE sent' = None
      BY <2>1 DEF SchemaTrimmed
    <2> QED BY <1>2, <1>3, <2>1, SchemaStays
  <1>4. CASE Submit
    <2>1. CASE sent' # None
      <3>1. PICK tree : tree = Schemas[setting.schema]
        OBVIOUS
      <3>2. setting.type = "custom" /\ setting.schema # None /\ Acceptable(tree) /\ sent' = Trimmed(tree)
        BY <1>4, <2>1, <3>1 DEF Submit
      <3>3. Schema(tree)
        BY <1>1, <3>1, <3>2, AnalysisAssumption DEF AnalysisAssumption
      <3>4. PICK cut : cut = Trimmed(tree)
        OBVIOUS
      <3>5. /\ cut[<< >>] = "dict" /\ Trimmed(cut) = cut
            /\ \A p \in DOMAIN cut : Len(p) <= setting.depth
            /\ \A p \in Keys(cut) : Last(p) # "$ref"
            /\ Cardinality(Keys(cut)) <= setting.fields
        BY <1>1, <3>2, <3>3, <3>4, TrimmedSafe, TrimmedStays
      <3>6. \A p \in DOMAIN cut \ {<< >>} :
              \/ Last(p) \in Safe \/ NamedAt(cut, p, Len(p))
              \/ \E i \in 1 .. Len(p) - 1 :
                    /\ p[i] \in Safe /\ (NamedAt(cut, p, i) => NamedAt(cut, p, i - 1))
                    /\ p[i] \notin {"properties", "items"} \/ cut[Prefix(p, i)] = "list"
        BY <3>3, <3>4, TrimmedKnows
      <3>7. \A p \in DOMAIN cut :
              /\ p \in DOMAIN tree
              /\ cut[p] = tree[p] \/ (cut[p] = "dict" /\ NamedAt(cut, p, Len(p)))
        BY <3>3, <3>4, TrimmedNew
      <3>8. sent' = cut
        BY <3>2, <3>4
      <3>9. \A p, i : NameAt(p, i)' <=> NamedAt(cut, p, i)
        BY <3>8 DEF NameAt, NamedAt
      <3>10. DOMAIN Inner = {"properties", "items"}
        BY DEF Inner
      <3> QED BY <1>2, <3>1, <3>5, <3>6, <3>7, <3>8, <3>9, <3>10 DEF SchemaTrimmed
    <2> QED BY <1>3, <2>1
  <1>5. CASE ~Submit
    <2>1. sent' = sent
      BY <1>5 DEF Next, Proceed, Change, Ask, ImageFails, Gather, Disown, Raise, Conclude,
                  Answered, SearchForJob, Attempt, Keep, vars, job
    <2> QED BY <1>3, <2>1
  <1> QED BY <1>4, <1>5

(* The schema that goes into a prompt names nothing the code does not know  *)
(* where it is read as a schema, the limits of depth and keys hold for it,  *)
(* nothing in it is new, and to trim it again would change nothing.         *)
THEOREM SchemasAreTrimmed == FairSpec => []SchemaTrimmed
  <1>1. Init => SchemaTrimmed
    BY DEF Init, SchemaTrimmed
  <1>2. Sound => UnderWay
    BY DEF Sound
  <1>3. UnderWay /\ SchemaTrimmed /\ [Next]_vars => SchemaTrimmed'
    BY SchemaNext
  <1> QED BY <1>1, <1>2, <1>3, AlwaysSound, PTL DEF FairSpec
=============================================================================
