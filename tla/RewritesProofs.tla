--------------------------- MODULE RewritesProofs ---------------------------
(***************************************************************************)
(* What the elements of a sequence at given indexes are, and what an       *)
(* operation makes of refs.                                                *)
(***************************************************************************)
EXTENDS Rewrites, FiniteSetTheorems, SequenceTheorems, WellFoundedInduction, TLAPS

\* A set of naturals that is not empty has a least element.
LEMMA LeastOfNaturals ==
    ASSUME NEW T \in SUBSET Nat, T # {}
    PROVE  \E m \in T : \A n \in T : m <= n
<1>1. PICK m \in T : \A n \in T : ~(<<n, m>> \in OpToRel(<, Nat))
  BY NatLessThanWellFounded, WFMin, Zenon
<1>2. \A n \in T : ~(n < m)
  BY <1>1, Zenon DEF OpToRel
<1>3. QED  BY <1>2
----------------------------------------------------------------------------
(* Nth and Keep                                                            *)

\* The number of the indexes up to i.
Rank(I, i) == Cardinality({j \in I : j <= i})

\* FS_Interval, for intervals that may be empty.
LEMMA IntervalSize ==
    ASSUME NEW a \in Int, NEW b \in Int, a <= b + 1
    PROVE  IsFiniteSet(a..b) /\ Cardinality(a..b) = b - a + 1
<1>1. IsFiniteSet(a..b) /\ Cardinality(a..b) = IF a > b THEN 0 ELSE b - a + 1
  BY FS_Interval, Zenon
<1>2. QED  BY <1>1

\* Every index has a rank of its own.
LEMMA RankIncreases ==
    ASSUME NEW I \in SUBSET Int, IsFiniteSet(I), NEW i \in I, NEW k \in I
    PROVE  /\ Rank(I, i) \in 1..Cardinality(I)
           /\ i < k => Rank(I, i) < Rank(I, k)
<1> DEFINE Upto(x) == {j \in I : j <= x}
<1>1. /\ IsFiniteSet(Upto(i)) /\ Cardinality(Upto(i)) <= Cardinality(I)
      /\ IsFiniteSet(Upto(k)) /\ Cardinality(Upto(k)) <= Cardinality(I)
  BY FS_Subset
<1>2. /\ Cardinality(Upto(i)) \in Nat /\ Cardinality(Upto(k)) \in Nat
      /\ Cardinality(I) \in Nat
  BY <1>1, FS_CardinalityType
<1>3. Upto(i) # {}
  OBVIOUS
<1>4. Cardinality(Upto(i)) # 0
  BY <1>1, <1>3, FS_EmptySet
<1>5. ASSUME i < k PROVE Cardinality(Upto(i)) < Cardinality(Upto(k))
  <2>0. \A j \in I : j <= i => j <= k
    BY <1>5
  <2>1. Upto(i) \in SUBSET Upto(k)
    BY <2>0, Zenon
  <2>4. k \in Upto(k) /\ k \notin Upto(i)
    BY <1>5
  <2>2. Cardinality(Upto(i)) <= Cardinality(Upto(k)) /\ Cardinality(Upto(i)) # Cardinality(Upto(k))
    BY <2>1, <2>4, <1>1, FS_Subset
  <2>3. QED  BY <2>2, <1>2
<1>6. QED  BY <1>1, <1>2, <1>4, <1>5 DEF Rank

\* There is a k-th index, and it is the one with the rank k.
LEMMA NthIsIndex ==
    ASSUME NEW I \in SUBSET Int, IsFiniteSet(I), NEW k \in 1..Cardinality(I)
    PROVE  Nth(I, k) \in I /\ Rank(I, Nth(I, k)) = k
<1> DEFINE N == 1..Cardinality(I)
           f == [i \in I |-> Rank(I, i)]
<1>1. Cardinality(I) \in Nat
  BY FS_CardinalityType
<1>2. IsFiniteSet(N) /\ Cardinality(N) = Cardinality(I)
  BY <1>1, FS_Interval
<1>3. f \in Injection(I, N)
  <2>1. \A i \in I : f[i] \in N
    BY RankIncreases
  <2>2. ASSUME NEW i \in I, NEW j \in I, f[i] = f[j] PROVE i = j
    <3>1. /\ i < j => Rank(I, i) < Rank(I, j)
          /\ j < i => Rank(I, j) < Rank(I, i)
          /\ Rank(I, i) = Rank(I, j) /\ Rank(I, i) \in Nat
      BY <2>2, RankIncreases
    <3>2. QED  BY <3>1
  <2>3. QED  BY <2>1, <2>2 DEF Injection, IsInjective
<1>4. f \in Surjection(I, N)
  BY <1>2, <1>3, FS_Injection
<1>5. \E i \in I : Rank(I, i) = k
  BY <1>4 DEF Surjection
<1>6. QED  BY <1>5 DEF Nth, Rank

\* Indexes are in their order.
LEMMA NthIncreases ==
    ASSUME NEW I \in SUBSET Int, IsFiniteSet(I),
           NEW j \in 1..Cardinality(I), NEW k \in 1..Cardinality(I), j < k
    PROVE  Nth(I, j) < Nth(I, k)
<1>1. /\ Nth(I, j) \in I /\ Rank(I, Nth(I, j)) = j
      /\ Nth(I, k) \in I /\ Rank(I, Nth(I, k)) = k
  BY NthIsIndex
<1>2. Nth(I, k) < Nth(I, j) => Rank(I, Nth(I, k)) < Rank(I, Nth(I, j))
  BY <1>1, RankIncreases
<1>3. Nth(I, j) \in Int /\ Nth(I, k) \in Int /\ Cardinality(I) \in Nat
  BY <1>1, FS_CardinalityType
<1>4. QED  BY <1>1, <1>2, <1>3

\* What is kept is there, and as many elements of it as there are indexes.
LEMMA KeepType ==
    ASSUME NEW T, NEW s \in Seq(T), NEW I \in SUBSET (1..Len(s))
    PROVE  /\ IsFiniteSet(I) /\ Cardinality(I) \in Nat /\ Cardinality(I) <= Len(s)
           /\ Keep(s, I) \in Seq(T) /\ Len(Keep(s, I)) = Cardinality(I)
           /\ \A k \in 1..Cardinality(I) : Nth(I, k) \in I /\ Keep(s, I)[k] = s[Nth(I, k)]
<1>1. /\ IsFiniteSet(I) /\ Cardinality(I) \in Nat /\ Cardinality(I) <= Len(s)
      /\ I \in SUBSET Int
  <2>1. Len(s) \in Nat /\ 1 \in Int /\ Len(s) \in Int /\ 1 <= Len(s) + 1
    BY LenProperties
  <2>2. IsFiniteSet(1..Len(s)) /\ Cardinality(1..Len(s)) = Len(s) - 1 + 1
    BY <2>1, IntervalSize, Zenon
  <2>3. IsFiniteSet(I) /\ Cardinality(I) <= Cardinality(1..Len(s))
    BY <2>2, FS_Subset, Zenon
  <2>4. Cardinality(I) \in Nat
    BY <2>3, FS_CardinalityType, Zenon
  <2>5. QED  BY <2>1, <2>2, <2>3, <2>4
<1>2. \A k \in 1..Cardinality(I) : Nth(I, k) \in I
  BY <1>1, NthIsIndex
<1>3. \A k \in 1..Cardinality(I) : s[Nth(I, k)] \in T
  BY <1>2, ElementOfSeq
<1>4. Keep(s, I) \in [1..Cardinality(I) -> T]
  BY <1>3 DEF Keep
<1>5. QED  BY <1>1, <1>2, <1>4 DEF Keep

\* The elements at successive indexes are a subsequence.
LEMMA KeepInterval ==
    ASSUME NEW T, NEW s \in Seq(T), NEW lo \in Int, NEW hi \in Int,
           1 <= lo, lo <= hi + 1, hi <= Len(s)
    PROVE  Keep(s, lo..hi) = SubSeq(s, lo, hi)
<1> DEFINE I == lo..hi
<1>1. Len(s) \in Nat /\ I \in SUBSET (1..Len(s)) /\ I \in SUBSET Int
  BY LenProperties
<1>2. IsFiniteSet(I) /\ Cardinality(I) = hi - lo + 1
  BY IntervalSize, Zenon
<1>3. ASSUME NEW k \in 1..Cardinality(I) PROVE Nth(I, k) = lo + k - 1
  <2>1. Nth(I, k) \in I /\ Rank(I, Nth(I, k)) = k
    BY <1>1, <1>2, NthIsIndex
  <2>2. {j \in I : j <= Nth(I, k)} = lo..Nth(I, k)
    BY <2>1
  <2>3. Nth(I, k) \in Int /\ lo <= Nth(I, k) + 1
    BY <2>1
  <2>4. Cardinality(lo..Nth(I, k)) = Nth(I, k) - lo + 1
    BY <2>3, IntervalSize, Zenon
  <2>5. Rank(I, Nth(I, k)) = Nth(I, k) - lo + 1
    BY <2>2, <2>4, Zenon DEF Rank
  <2>6. QED  BY <2>1, <2>3, <2>5
<1>4. /\ Keep(s, I) \in Seq(T) /\ Len(Keep(s, I)) = hi - lo + 1
      /\ \A k \in 1..hi - lo + 1 : Keep(s, I)[k] = s[lo + k - 1]
  <2> HIDE DEF I
  <2>1. /\ Keep(s, I) \in Seq(T) /\ Len(Keep(s, I)) = Cardinality(I)
        /\ \A k \in 1..Cardinality(I) : Keep(s, I)[k] = s[Nth(I, k)]
    BY <1>1, KeepType
  <2>2. QED  BY <2>1, <1>2, <1>3
<1>5. /\ SubSeq(s, lo, hi) \in Seq(T) /\ Len(SubSeq(s, lo, hi)) = hi - lo + 1
      /\ \A k \in 1..hi - lo + 1 : SubSeq(s, lo, hi)[k] = s[lo + k - 1]
  <2>1. \A i \in lo..hi : s[i] \in T
    BY <1>1, ElementOfSeq
  <2>2. QED  BY <2>1, SubSeqProperties, Z3
<1>6. QED  BY <1>4, <1>5, SeqEqual

\* The index with rank k is the k-th.
LEMMA NthHasRank ==
    ASSUME NEW I \in SUBSET Int, IsFiniteSet(I), NEW i \in I
    PROVE  Rank(I, i) \in 1..Cardinality(I) /\ Nth(I, Rank(I, i)) = i
<1>1. Cardinality(I) \in Nat /\ Rank(I, i) \in 1..Cardinality(I)
  BY RankIncreases, FS_CardinalityType
<1> DEFINE j == Nth(I, Rank(I, i))
<1>2. j \in I /\ Rank(I, j) = Rank(I, i)
  BY <1>1, NthIsIndex
<1> HIDE DEF j
<1>3. /\ i < j => Rank(I, i) < Rank(I, j)
      /\ j < i => Rank(I, j) < Rank(I, i)
  BY <1>2, RankIncreases
<1>4. i = j
  BY <1>1, <1>2, <1>3
<1>5. QED  BY <1>1, <1>4 DEF j

\* Nothing is kept where there are no indexes.
LEMMA KeepNothing ==
    ASSUME NEW s
    PROVE  Keep(s, {}) = <<>>
<1>1. Cardinality({}) = 0 /\ 1..0 = {}
  BY FS_EmptySet
<1>2. QED  BY <1>1 DEF Keep

\* What is kept at indexes of which some lie below the others.
LEMMA KeepSplit ==
    ASSUME NEW T, NEW s \in Seq(T), NEW A \in SUBSET (1..Len(s)), NEW B \in SUBSET (1..Len(s)),
           \A a \in A, b \in B : a < b
    PROVE  /\ Keep(s, A \cup B) = Keep(s, A) \o Keep(s, B)
           /\ Cardinality(A \cup B) = Cardinality(A) + Cardinality(B)
<1> DEFINE I == A \cup B
           m == Cardinality(A)
           n == Cardinality(B)
<1>1. Len(s) \in Nat /\ I \in SUBSET (1..Len(s)) /\ A \in SUBSET Int /\ B \in SUBSET Int /\ I \in SUBSET Int
  BY LenProperties
<1>2. /\ IsFiniteSet(A) /\ m \in Nat /\ Keep(s, A) \in Seq(T) /\ Len(Keep(s, A)) = m
      /\ \A k \in 1..m : Nth(A, k) \in A /\ Keep(s, A)[k] = s[Nth(A, k)]
  BY KeepType
<1>3. /\ IsFiniteSet(B) /\ n \in Nat /\ Keep(s, B) \in Seq(T) /\ Len(Keep(s, B)) = n
      /\ \A k \in 1..n : Nth(B, k) \in B /\ Keep(s, B)[k] = s[Nth(B, k)]
  BY KeepType
<1>4. /\ IsFiniteSet(I) /\ Keep(s, I) \in Seq(T) /\ Len(Keep(s, I)) = Cardinality(I)
      /\ \A k \in 1..Cardinality(I) : Nth(I, k) \in I /\ Keep(s, I)[k] = s[Nth(I, k)]
  <2> HIDE DEF I
  <2> QED  BY <1>1, KeepType
<1>5. A \cap B = {}
  BY <1>1
<1>6. Cardinality(I) = m + n
  <2>1. Cardinality(I) = m + n - Cardinality(A \cap B)
    BY <1>2, <1>3, FS_Union
  <2>2. Cardinality(A \cap B) = 0
    BY <1>5, FS_EmptySet, Zenon
  <2> HIDE DEF m, n
  <2> QED  BY <1>2, <1>3, <2>1, <2>2
<1>7. ASSUME NEW k \in 1..m PROVE Nth(I, k) = Nth(A, k)
  <2> DEFINE i == Nth(A, k)
  <2>1. i \in A /\ Rank(A, i) = k
    BY <1>1, <1>2, NthIsIndex
  <2> HIDE DEF i
  <2>2. {j \in I : j <= i} = {j \in A : j <= i}
    <3>1. ASSUME NEW j \in B, j <= i PROVE FALSE
      <4>1. i < j /\ i \in Int /\ j \in Int
        BY <1>1, <2>1
      <4> QED  BY <3>1, <4>1
    <3> QED  BY <3>1
  <2>3. Rank(I, i) = k
    BY <2>1, <2>2 DEF Rank
  <2>4. i \in I
    BY <2>1
  <2>5. Nth(I, Rank(I, i)) = i
    BY <1>1, <1>4, <2>4, NthHasRank
  <2> QED  BY <2>3, <2>5 DEF i
<1>8. ASSUME NEW k \in 1..n PROVE Nth(I, m + k) = Nth(B, k)
  <2> DEFINE i == Nth(B, k)
             U == {j \in B : j <= i}
  <2>1. i \in B /\ Rank(B, i) = k
    BY <1>1, <1>3, NthIsIndex
  <2>2. IsFiniteSet(U) /\ Cardinality(U) = k
    BY <1>3, <2>1, FS_Subset DEF Rank
  <2> HIDE DEF i
  <2>3. {j \in I : j <= i} = A \cup U /\ A \cap U = {}
    <3>1. ASSUME NEW j \in A PROVE j <= i
      <4>1. j < i /\ i \in Int /\ j \in Int
        BY <1>1, <2>1
      <4> QED  BY <4>1
    <3> QED  BY <1>5, <3>1
  <2>4. Cardinality(A \cup U) = m + k - Cardinality(A \cap U)
    <3> HIDE DEF U
    <3> QED  BY <1>2, <2>2, FS_Union
  <2>5. Rank(I, i) = m + k
    <3>1. Cardinality(A \cap U) = 0
      BY <2>3, FS_EmptySet, Zenon
    <3>2. Cardinality(A \cup U) = m + k
      BY <1>2, <2>4, <3>1
    <3> QED  BY <2>3, <3>2, Zenon DEF Rank
  <2>6. i \in I
    BY <2>1
  <2>7. Nth(I, Rank(I, i)) = i
    BY <1>1, <1>4, <2>6, NthHasRank
  <2> QED  BY <2>5, <2>7 DEF i
<1>9. /\ Keep(s, A) \o Keep(s, B) \in Seq(T) /\ Len(Keep(s, A) \o Keep(s, B)) = m + n
      /\ \A k \in 1..(m + n) : (Keep(s, A) \o Keep(s, B))[k] =
                                   IF k <= m THEN Keep(s, A)[k] ELSE Keep(s, B)[k - m]
  <2> DEFINE ka == Keep(s, A)
             kb == Keep(s, B)
  <2>1. ka \in Seq(T) /\ kb \in Seq(T) /\ Len(ka) = m /\ Len(kb) = n
    BY <1>2, <1>3
  <2> HIDE DEF ka, kb, m, n
  <2>2. /\ ka \o kb \in Seq(T) /\ Len(ka \o kb) = m + n
        /\ \A k \in 1..(m + n) : (ka \o kb)[k] = IF k <= m THEN ka[k] ELSE kb[k - m]
    BY <2>1, ConcatProperties
  <2> QED  BY <2>2 DEF ka, kb
<1>10. ASSUME NEW k \in 1..(m + n) PROVE Keep(s, I)[k] = (Keep(s, A) \o Keep(s, B))[k]
  <2>1. CASE k <= m
    <3>1. k \in 1..m /\ k \in 1..Cardinality(I)
      BY <1>2, <1>3, <1>6, <2>1
    <3> QED  BY <1>2, <1>4, <1>7, <1>9, <2>1, <3>1
  <2>2. CASE ~(k <= m)
    <3> DEFINE l == k - m
    <3>1. l \in 1..n /\ m + l = k /\ k \in 1..Cardinality(I)
      BY <1>2, <1>3, <1>6, <2>2
    <3> HIDE DEF l
    <3>2. Keep(s, I)[k] = s[Nth(I, m + l)]
      BY <1>4, <3>1
    <3>3. Nth(I, m + l) = Nth(B, l)
      BY <1>8, <3>1
    <3>4. (Keep(s, A) \o Keep(s, B))[k] = Keep(s, B)[l]
      BY <1>9, <2>2 DEF l
    <3> QED  BY <1>3, <3>1, <3>2, <3>3, <3>4
  <2> QED  BY <2>1, <2>2
<1> HIDE DEF I, m, n
<1>11. Keep(s, I) = Keep(s, A) \o Keep(s, B)
  BY <1>4, <1>6, <1>9, <1>10, SeqEqual
<1>12. QED  BY <1>6, <1>11 DEF I, m, n

\* What is kept depends on what there is at the indexes.
LEMMA KeepSame ==
    ASSUME NEW T, NEW s \in Seq(T), NEW t \in Seq(T),
           NEW I \in SUBSET (1..Len(s)), I \in SUBSET (1..Len(t)), \A i \in I : s[i] = t[i]
    PROVE  Keep(s, I) = Keep(t, I)
<1>1. \A k \in 1..Cardinality(I) : Nth(I, k) \in I
  BY KeepType
<1>2. QED  BY <1>1 DEF Keep

LEMMA KeepOne ==
    ASSUME NEW T, NEW s \in Seq(T), NEW i \in 1..Len(s)
    PROVE  Keep(s, {i}) = <<s[i]>>
<1>1. Len(s) \in Nat /\ i \in Int /\ 1 <= i /\ i <= i + 1 /\ i <= Len(s) /\ s[i] \in T
  BY LenProperties, ElementOfSeq
<1>2. i..i = {i}
  BY <1>1
<1>3. Keep(s, i..i) = SubSeq(s, i, i)
  BY <1>1, KeepInterval
<1>4. SubSeq(s, i, i) = <<s[i]>>
  <2> DEFINE u == SubSeq(s, i, i)
             v == <<s[i]>>
  <2>1. \A j \in i..i : s[j] \in T
    BY <1>1
  <2>2. u \in Seq(T) /\ Len(u) = 1 /\ u[1] = s[i]
    BY <1>1, <2>1, SubSeqProperties, Z3
  <2>3. v \in Seq(T) /\ Len(v) = 1 /\ v[1] = s[i]
    BY <1>1
  <2> HIDE DEF u, v
  <2>4. \A k \in 1..Len(u) : u[k] = v[k]
    BY <2>2, <2>3
  <2>5. u = v
    BY <2>2, <2>3, <2>4, SeqEqual
  <2> QED  BY <2>5 DEF u, v
<1>5. QED  BY <1>2, <1>3, <1>4

\* What is kept with one index more, that lies below all others.
LEMMA KeepBelow ==
    ASSUME NEW T, NEW s \in Seq(T), NEW i \in 1..Len(s), NEW I \in SUBSET (1..Len(s)),
           \A j \in I : i < j
    PROVE  Keep(s, {i} \cup I) = <<s[i]>> \o Keep(s, I)
<1>1. {i} \in SUBSET (1..Len(s)) /\ \A a \in {i}, b \in I : a < b
  OBVIOUS
<1>2. Keep(s, {i} \cup I) = Keep(s, {i}) \o Keep(s, I)
  BY <1>1, KeepSplit
<1>3. QED  BY <1>2, KeepOne

\* Of an interval.
LEMMA KeepAll ==
    ASSUME NEW T, NEW s \in Seq(T)
    PROVE  Keep(s, 1..Len(s)) = s
<1>1. Len(s) \in Nat
  BY LenProperties
<1>2. 1 \in Int /\ Len(s) \in Int /\ 1 <= 1 /\ 1 <= Len(s) + 1 /\ Len(s) <= Len(s)
  BY <1>1
<1>3. QED  BY <1>2, KeepInterval, SubSeqFull
----------------------------------------------------------------------------
(* FlattenSeq                                                              *)

\* f[i] is the concatenation of the first i elements of s.
Flattens(f, s) == f = [i \in 1..Len(s) |-> IF i = 1 THEN s[i] ELSE f[i - 1] \o s[i]]

\* What such a function is, element by element.
LEMMA FlattensByElement ==
    ASSUME NEW s, NEW f
    PROVE  Flattens(f, s) <=>
             /\ f = [i \in 1..Len(s) |-> f[i]]
             /\ \A i \in 1..Len(s) : f[i] = IF i = 1 THEN s[i] ELSE f[i - 1] \o s[i]
BY DEF Flattens

LEMMA FlattensOnce ==
    ASSUME NEW s, Len(s) \in Nat, NEW f, NEW g, Flattens(f, s), Flattens(g, s)
    PROVE  f = g
<1> DEFINE D == {i \in 1..Len(s) : f[i] # g[i]}
<1>1. D = {}
  <2> SUFFICES ASSUME D # {} PROVE FALSE
    OBVIOUS
  <2>1. PICK m \in D : \A n \in D : m <= n
    <3>1. D \in SUBSET Nat
      OBVIOUS
    <3> QED  BY <3>1, LeastOfNaturals, Zenon
  <2>2. m \in 1..Len(s) /\ f[m] # g[m]
    BY <2>1
  <2>3. m # 1 => m - 1 \in 1..Len(s) /\ m - 1 \notin D
    BY <2>1, <2>2
  <2>4. m # 1 => f[m - 1] = g[m - 1]
    BY <2>3
  <2>5. /\ f[m] = IF m = 1 THEN s[m] ELSE f[m - 1] \o s[m]
        /\ g[m] = IF m = 1 THEN s[m] ELSE g[m - 1] \o s[m]
    BY <2>2, FlattensByElement
  <2> QED  BY <2>2, <2>4, <2>5
<1>2. \A i \in 1..Len(s) : f[i] = g[i]
  BY <1>1
<1>3. f = [i \in 1..Len(s) |-> f[i]] /\ g = [i \in 1..Len(s) |-> g[i]]
  BY FlattensByElement
<1>4. QED  BY <1>2, <1>3

LEMMA FlattensExists ==
    ASSUME NEW T, NEW s \in Seq(Seq(T))
    PROVE  \E f \in [1..Len(s) -> Seq(T)] : Flattens(f, s)
<1> DEFINE P(n) == \E f \in [1..n -> Seq(T)] :
                       \A i \in 1..n : f[i] = IF i = 1 THEN s[i] ELSE f[i - 1] \o s[i]
           D == {n \in 0..Len(s) : ~P(n)}
<1>0. Len(s) \in Nat /\ \A i \in 1..Len(s) : s[i] \in Seq(T)
  BY LenProperties, ElementOfSeq
<1>1. D = {}
  <2> SUFFICES ASSUME D # {} PROVE FALSE
    OBVIOUS
  <2>1. PICK m \in D : \A n \in D : m <= n
    <3>1. D \in SUBSET Nat
      BY <1>0
    <3> HIDE DEF D
    <3> QED  BY <3>1, LeastOfNaturals, Zenon
  <2>2. m \in 0..Len(s) /\ ~P(m)
    BY <2>1
  <2>3. m # 0
    <3>1. [i \in 1..0 |-> <<>>] \in [1..0 -> Seq(T)]
      OBVIOUS
    <3>2. 1..0 = {}
      OBVIOUS
    <3>3. P(0)
      BY <3>1, <3>2, Zenon
    <3> HIDE DEF P
    <3> QED  BY <2>2, <3>3
  <2>4. m - 1 \in 0..Len(s) /\ m - 1 \notin D
    <3> HIDE DEF P
    <3> QED  BY <1>0, <2>1, <2>2, <2>3
  <2>5. P(m - 1)
    <3> HIDE DEF P
    <3> QED  BY <2>4
  <2>6. PICK f \in [1..(m - 1) -> Seq(T)] :
                 \A i \in 1..(m - 1) : f[i] = IF i = 1 THEN s[i] ELSE f[i - 1] \o s[i]
    BY <2>5
  <2> DEFINE g == [i \in 1..m |-> IF i = 1 THEN s[i] ELSE f[i - 1] \o s[i]]
  <2>7. ASSUME NEW i \in 1..m PROVE g[i] \in Seq(T)
    <3>1. s[i] \in Seq(T)
      BY <1>0, <2>2
    <3>2. CASE i = 1
      BY <3>1, <3>2
    <3>3. CASE i # 1
      <4>1. i - 1 \in 1..(m - 1)
        BY <2>2, <3>3
      <4>2. f[i - 1] \in Seq(T)
        BY <4>1, <2>6
      <4>3. f[i - 1] \o s[i] \in Seq(T)
        BY <4>2, <3>1, ConcatProperties
      <4> QED  BY <3>3, <4>3
    <3> QED  BY <3>2, <3>3
  <2>8. ASSUME NEW i \in 1..(m - 1) PROVE g[i] = f[i]
    <3>1. i \in 1..m
      BY <2>2
    <3> QED  BY <2>6, <3>1, Zenon
  <2>9. ASSUME NEW i \in 1..m PROVE g[i] = IF i = 1 THEN s[i] ELSE g[i - 1] \o s[i]
    <3>1. CASE i = 1
      BY <3>1
    <3>2. CASE i # 1
      <4>1. i - 1 \in 1..(m - 1)
        BY <2>2, <3>2
      <4>2. g[i - 1] = f[i - 1]
        BY <4>1, <2>8
      <4>3. g[i] = f[i - 1] \o s[i]
        BY <3>2
      <4> QED  BY <3>2, <4>2, <4>3
    <3> QED  BY <3>1, <3>2
  <2>10. g \in [1..m -> Seq(T)]
    BY <2>7
  <2> HIDE DEF g
  <2>11. P(m)
    BY <2>9, <2>10
  <2> QED  BY <2>2, <2>11
<1>2. P(Len(s))
  <2> HIDE DEF P
  <2> QED  BY <1>0, <1>1
<1>3. PICK f \in [1..Len(s) -> Seq(T)] :
               \A i \in 1..Len(s) : f[i] = IF i = 1 THEN s[i] ELSE f[i - 1] \o s[i]
  BY <1>2
<1>4. Flattens(f, s)
  BY <1>3, FlattensByElement
<1>5. QED  BY <1>4

LEMMA FlattenSeqIs ==
    ASSUME NEW s, Len(s) \in Nat \ {0}, NEW f, Flattens(f, s)
    PROVE  FlattenSeq(s) = f[Len(s)]
<1>1. FlattenSeq(s) = (CHOOSE g : Flattens(g, s))[Len(s)]
  BY DEF FlattenSeq, Flattens
<1>2. Flattens(CHOOSE g : Flattens(g, s), s)
  BY Zenon
<1>3. (CHOOSE g : Flattens(g, s)) = f
  BY <1>2, FlattensOnce
<1>4. QED  BY <1>1, <1>3

\* FlattenSeq of the first element, and of one element more.
LEMMA FlattenFirst ==
    ASSUME NEW T, NEW s \in Seq(Seq(T)), NEW n \in 1..Len(s)
    PROVE  /\ FlattenSeq(SubSeq(s, 1, n)) \in Seq(T)
           /\ FlattenSeq(SubSeq(s, 1, n)) =
                 IF n = 1 THEN s[1] ELSE FlattenSeq(SubSeq(s, 1, n - 1)) \o s[n]
<1>0. Len(s) \in Nat /\ \A i \in 1..Len(s) : s[i] \in Seq(T)
  BY LenProperties, ElementOfSeq
<1>1. PICK f \in [1..Len(s) -> Seq(T)] : Flattens(f, s)
  BY FlattensExists
<1>2. \A i \in 1..Len(s) : f[i] = IF i = 1 THEN s[i] ELSE f[i - 1] \o s[i]
  BY <1>1, FlattensByElement
<1>3. ASSUME NEW k \in 1..Len(s) PROVE FlattenSeq(SubSeq(s, 1, k)) = f[k]
  <2> DEFINE t == SubSeq(s, 1, k)
             g == [i \in 1..k |-> f[i]]
  <2>1. \A i \in 1..k : s[i] \in Seq(T)
    BY <1>0
  <2>2. t \in Seq(Seq(T)) /\ Len(t) = k /\ \A i \in 1..k : t[i] = s[i]
    BY <2>1, SubSeqProperties, Z3
  <2> HIDE DEF t
  <2>3. \A i \in 1..k : g[i] = IF i = 1 THEN t[i] ELSE g[i - 1] \o t[i]
    <3> SUFFICES ASSUME NEW i \in 1..k PROVE g[i] = IF i = 1 THEN t[i] ELSE g[i - 1] \o t[i]
      OBVIOUS
    <3>1. i \in 1..Len(s) /\ t[i] = s[i] /\ (i # 1 => i - 1 \in 1..k)
      BY <1>0, <2>2
    <3>2. g[i] = f[i] /\ (i # 1 => g[i - 1] = f[i - 1])
      BY <3>1
    <3> HIDE DEF g
    <3> QED  BY <1>2, <3>1, <3>2
  <2>4. g = [i \in 1..Len(t) |-> g[i]]
    BY <2>2
  <2>5. g[k] = f[k]
    OBVIOUS
  <2> HIDE DEF g
  <2>6. Flattens(g, t)
    BY <2>2, <2>3, <2>4, FlattensByElement
  <2>7. FlattenSeq(t) = g[k]
    <3>1. Len(t) \in Nat \ {0}
      BY <1>0, <2>2
    <3>2. FlattenSeq(t) = g[Len(t)]
      BY ONLY <2>6, <3>1, FlattenSeqIs
    <3> QED  BY <2>2, <3>2
  <2> QED  BY <2>5, <2>7 DEF t
<1>4. f[n] \in Seq(T) /\ FlattenSeq(SubSeq(s, 1, n)) = f[n]
  BY <1>1, <1>3
<1>5. n # 1 => n - 1 \in 1..Len(s)
  BY <1>0
<1>6. n # 1 => FlattenSeq(SubSeq(s, 1, n - 1)) = f[n - 1]
  BY <1>3, <1>5
<1>7. QED  BY <1>2, <1>4, <1>6
----------------------------------------------------------------------------
(* Commits and their ancestors                                             *)

Patches == Seq(Changes)

\* The front of a sequence with something appended is the sequence.
LEMMA FrontOfAppend ==
    ASSUME NEW S, NEW s \in Seq(S), NEW e \in S
    PROVE  /\ Front(Append(s, e)) = s /\ Last(Append(s, e)) = e
           /\ SubSeq(Append(s, e), 1, Len(s) + 1) = Append(s, e)
           /\ \A k \in 1..Len(s) : SubSeq(Append(s, e), 1, k) = SubSeq(s, 1, k)
<1> DEFINE t == Append(s, e)
<1>1. /\ t \in Seq(S) /\ Len(t) = Len(s) + 1 /\ Len(s) \in Nat
      /\ \A i \in 1..Len(s) : t[i] = s[i]
      /\ t[Len(s) + 1] = e
  BY AppendProperties, LenProperties
<1> HIDE DEF t
<1>2. ASSUME NEW k \in 0..Len(s)
      PROVE  SubSeq(t, 1, k) = SubSeq(s, 1, k)
  <2>1. \A i \in 1..k : t[i] \in S /\ s[i] \in S /\ t[i] = s[i]
    BY <1>1, ElementOfSeq
  <2>2. /\ SubSeq(t, 1, k) \in Seq(S) /\ Len(SubSeq(t, 1, k)) = k
        /\ \A i \in 1..k : SubSeq(t, 1, k)[i] = t[i]
    BY <2>1, <1>1, SubSeqProperties, Z3
  <2>3. /\ SubSeq(s, 1, k) \in Seq(S) /\ Len(SubSeq(s, 1, k)) = k
        /\ \A i \in 1..k : SubSeq(s, 1, k)[i] = s[i]
    BY <2>1, <1>1, SubSeqProperties, Z3
  <2>4. QED  BY <2>1, <2>2, <2>3, SeqEqual
<1>3. SubSeq(s, 1, Len(s)) = s /\ SubSeq(t, 1, Len(t)) = t
  BY <1>1, SubSeqFull
<1>4. QED  BY <1>1, <1>2, <1>3 DEF Front, Last, t

\* A commit is its last patch on top of its parent.
LEMMA ParentIsFront ==
    ASSUME NEW x \in Commits \ {Null}
    PROVE  /\ Parent(x) \in Commits /\ Len(Parent(x)) = Len(x) - 1
           /\ Last(x) \in Patches
           /\ x = Append(Parent(x), Last(x))
           /\ Len(x) \in Nat \ {0}
<1>1. PICK s \in Seq(Patches), e \in Patches : x = Append(s, e)
  BY SequenceEmptyOrAppend DEF Commits, Null, Patches
<1>2. Parent(x) = s /\ Last(x) = e
  BY <1>1, FrontOfAppend DEF Parent
<1>3. Len(x) = Len(s) + 1 /\ Len(s) \in Nat
  BY <1>1, AppendProperties, LenProperties
<1>4. QED  BY <1>1, <1>2, <1>3 DEF Commits, Patches

\* A patch on top of a commit.
LEMMA AppendIsCommit ==
    ASSUME NEW h \in Commits, NEW p \in Patches
    PROVE  /\ Append(h, p) \in Commits \ {Null}
           /\ Ancestors(Append(h, p)) = Ancestors(h) \cup {Append(h, p)}
<1> DEFINE t == Append(h, p)
<1>1. t \in Commits \ {Null} /\ Len(t) = Len(h) + 1 /\ Len(h) \in Nat
  BY AppendProperties, LenProperties DEF Commits, Patches, Null
<1>2. /\ SubSeq(t, 1, Len(h) + 1) = t
      /\ \A k \in 1..Len(h) : SubSeq(t, 1, k) = SubSeq(h, 1, k)
  BY FrontOfAppend DEF Commits, Patches
<1> HIDE DEF t
<1>3. 1..Len(t) = 1..Len(h) \cup {Len(h) + 1}
  BY <1>1
<1>4. Ancestors(t) = Ancestors(h) \cup {t}
  BY <1>2, <1>3 DEF Ancestors
<1>5. QED  BY <1>1, <1>4 DEF t

\* A commit's ancestors are itself and its parent's.
LEMMA AncestorsOfParent ==
    ASSUME NEW x \in Commits \ {Null}
    PROVE  Ancestors(x) = Ancestors(Parent(x)) \cup {x}
<1>1. x = Append(Parent(x), Last(x)) /\ Parent(x) \in Commits /\ Last(x) \in Patches
  BY ParentIsFront
<1>2. Ancestors(Append(Parent(x), Last(x))) = Ancestors(Parent(x)) \cup {Append(Parent(x), Last(x))}
  BY <1>1, AppendIsCommit
<1>3. QED  BY <1>1, <1>2, Zenon

\* Ancestors are commits; the null commit has none.
LEMMA AncestorsAreCommits ==
    /\ \A x \in Commits : Ancestors(x) \subseteq Commits \ {Null}
    /\ \A x \in Commits \ {Null} : x \in Ancestors(x)
    /\ Ancestors(Null) = {} /\ Null \in Commits /\ Len(Null) = 0
<1>1. ASSUME NEW x \in Commits, NEW k \in 1..Len(x)
      PROVE  SubSeq(x, 1, k) \in Commits \ {Null}
  <2>1. Len(x) \in Nat /\ \A i \in 1..k : x[i] \in Patches
    BY LenProperties, ElementOfSeq DEF Commits, Patches
  <2>2. SubSeq(x, 1, k) \in Seq(Patches) /\ Len(SubSeq(x, 1, k)) = k
    BY <2>1, SubSeqProperties, Z3
  <2>3. k # 0 /\ Len(Null) = 0
    BY <2>1, EmptySeq DEF Null
  <2>4. QED  BY <2>2, <2>3 DEF Commits, Patches
<1>2. ASSUME NEW x \in Commits \ {Null}
      PROVE  x \in Ancestors(x)
  BY AncestorsOfParent
<1>3. Ancestors(Null) = {} /\ Null \in Commits /\ Len(Null) = 0
  BY EmptySeq DEF Ancestors, Null, Commits
<1>4. QED  BY <1>1, <1>2, <1>3 DEF Ancestors

\* An ancestor is determined by its length.
LEMMA AncestorByLength ==
    ASSUME NEW x \in Commits
    PROVE  /\ Len(x) \in Nat
           /\ \A k \in 1..Len(x) :
                 /\ SubSeq(x, 1, k) \in Ancestors(x) /\ Len(SubSeq(x, 1, k)) = k
                 /\ \A j \in 1..k : SubSeq(SubSeq(x, 1, k), 1, j) = SubSeq(x, 1, j)
           /\ \A y \in Ancestors(x) :
                 Len(y) \in 1..Len(x) /\ y = SubSeq(x, 1, Len(y)) /\ Ancestors(y) \subseteq Ancestors(x)
<1>1. Len(x) \in Nat /\ x \in Seq(Patches)
  BY LenProperties DEF Commits, Patches
<1>2. ASSUME NEW k \in 1..Len(x)
      PROVE  /\ SubSeq(x, 1, k) \in Seq(Patches) /\ Len(SubSeq(x, 1, k)) = k
             /\ \A i \in 1..k : SubSeq(x, 1, k)[i] = x[i] /\ x[i] \in Patches
  <2>1. \A i \in 1..k : x[i] \in Patches
    BY <1>1, ElementOfSeq
  <2>2. QED  BY <2>1, <1>1, SubSeqProperties, Z3
<1>3. ASSUME NEW k \in 1..Len(x), NEW j \in 1..k
      PROVE  SubSeq(SubSeq(x, 1, k), 1, j) = SubSeq(x, 1, j)
  <2> DEFINE t == SubSeq(x, 1, k)
  <2>1. /\ t \in Seq(Patches) /\ Len(t) = k
        /\ \A i \in 1..k : t[i] = x[i] /\ x[i] \in Patches
    BY <1>2
  <2> HIDE DEF t
  <2>2. /\ SubSeq(t, 1, j) \in Seq(Patches) /\ Len(SubSeq(t, 1, j)) = j
        /\ \A i \in 1..j : SubSeq(t, 1, j)[i] = t[i]
    <3>1. \A i \in 1..j : t[i] \in Patches
      BY <2>1
    <3>2. QED  BY <3>1, SubSeqProperties, Z3
  <2>3. /\ SubSeq(x, 1, j) \in Seq(Patches) /\ Len(SubSeq(x, 1, j)) = j
        /\ \A i \in 1..j : SubSeq(x, 1, j)[i] = x[i]
    BY <1>1, <1>2
  <2>4. SubSeq(t, 1, j) = SubSeq(x, 1, j)
    BY <2>1, <2>2, <2>3, SeqEqual
  <2>5. QED  BY <2>4 DEF t
<1>4. ASSUME NEW y \in Ancestors(x)
      PROVE  Len(y) \in 1..Len(x) /\ y = SubSeq(x, 1, Len(y)) /\ Ancestors(y) \subseteq Ancestors(x)
  <2>1. PICK k \in 1..Len(x) : y = SubSeq(x, 1, k)
    BY DEF Ancestors
  <2>2. Len(y) = k
    BY <2>1, <1>2
  <2>3. \A j \in 1..k : j \in 1..Len(x) /\ SubSeq(y, 1, j) = SubSeq(x, 1, j)
    BY <2>1, <1>1, <1>3
  <2>4. QED  BY <2>1, <2>2, <2>3 DEF Ancestors
<1>5. QED  BY <1>1, <1>2, <1>3, <1>4 DEF Ancestors

\* Some commits of a history have an earliest and a latest one.
LEMMA EarliestAndLatest ==
    ASSUME NEW x \in Commits, NEW S \in SUBSET Ancestors(x), S # {}
    PROVE  /\ Earliest(S) \in S /\ \A y \in S : Len(Earliest(S)) <= Len(y)
           /\ Latest(S) \in S /\ \A y \in S : Len(y) <= Len(Latest(S))
<1>1. Len(x) \in Nat /\ \A y \in S : Len(y) \in 1..Len(x)
  BY AncestorByLength
<1>2. \E y \in S : \A z \in S : Len(y) <= Len(z)
  <2> DEFINE T == {Len(y) : y \in S}
  <2>0. \A y \in S : Len(y) \in Nat
    BY <1>1
  <2>1. T \in SUBSET Nat /\ T # {}
    BY <2>0, Zenon
  <2>2. PICK m \in T : \A n \in T : m <= n
    BY <2>1, LeastOfNaturals, Zenon
  <2>3. QED  BY <2>2
<1>3. \E y \in S : \A z \in S : Len(z) <= Len(y)
  <2> DEFINE T == {Len(x) - Len(y) : y \in S}
  <2>1. T \in SUBSET Nat /\ T # {}
    BY <1>1
  <2>2. PICK m \in T : \A n \in T : m <= n
    BY <2>1, LeastOfNaturals, Zenon
  <2>3. PICK y \in S : m = Len(x) - Len(y)
    BY <2>2
  <2>4. \A z \in S : Len(x) - Len(y) <= Len(x) - Len(z)
    BY <2>2, <2>3
  <2>5. QED  BY <2>4, <1>1
<1>4. QED  BY <1>2, <1>3, Zenon DEF Earliest, Latest

\* A move that _MoveIsNop() refuses would put every patch back where it is.
LEMMA NopMoveKeeps ==
    ASSUME NEW s \in Commits, NEW S \in SUBSET Ancestors(s), S # {}, NEW r,
           NEW p \in Ancestors(s) \cup {Null}, MoveIsNop(r, S, r, p), NEW I, I = {Len(x) : x \in S}
    PROVE  Gathered(s, I, Len(p)) = s
<1> DEFINE a == Len(Earliest(S))
           b == Len(Latest(S))
           n == Len(s)
<1>1. /\ Earliest(S) \in S /\ \A y \in S : a <= Len(y)
      /\ Latest(S) \in S /\ \A y \in S : Len(y) <= b
  BY EarliestAndLatest, Zenon
<1>2. n \in Nat /\ \A y \in S : Len(y) \in 1..n /\ Ancestors(y) \subseteq Ancestors(s)
  BY AncestorByLength
<1>3. a \in 1..n /\ b \in a..n
  BY <1>1, <1>2
<1>4. I = a..b
  <2>1. \A k \in I : k \in a..b
    BY <1>1, <1>2, <1>3
  <2>2. ASSUME NEW k \in a + 1 .. b PROVE k \in I
    <3> DEFINE z == SubSeq(Latest(S), 1, k)
    <3>1. Latest(S) \in Commits
      BY <1>1, AncestorsAreCommits
    <3>2. k \in 1..Len(Latest(S))
      BY <1>3
    <3>3. z \in Ancestors(Latest(S)) /\ Len(z) = k
      BY <3>1, <3>2, AncestorByLength
    <3>4. ~HasGap(S)
      BY DEF MoveIsNop
    <3>5. a < Len(z)
      BY <3>3, <1>3
    <3>6. z \in S
      BY <1>1, <3>3, <3>4, <3>5, Zenon DEF HasGap
    <3>7. QED  BY <3>3, <3>6, Zenon
  <2>3. a \in I
    BY <1>1
  <2>4. QED  BY <2>1, <2>2, <2>3, <1>3
<1>5. Len(p) \in a - 1 .. b
  <2>1. p \in S \cup {Parent(Earliest(S))}
    BY DEF MoveIsNop
  <2>2. Earliest(S) \in Commits \ {Null}
    BY <1>1, AncestorsAreCommits
  <2>3. Len(Parent(Earliest(S))) = a - 1
    BY <2>2, ParentIsFront
  <2>4. QED  BY <2>1, <2>3, <1>1, <1>2, <1>3
<1> HIDE DEF a, b
<1>6. /\ (1..Len(p)) \ I = 1..a - 1
      /\ (Len(p) + 1 .. n) \ I = b + 1 .. n
  BY <1>2, <1>3, <1>4, <1>5
<1>7. s \in Seq(Patches)
  BY DEF Commits, Patches
<1>8. /\ Keep(s, 1..a - 1) = SubSeq(s, 1, a - 1)
      /\ Keep(s, a..b) = SubSeq(s, a, b)
      /\ Keep(s, b + 1 .. n) = SubSeq(s, b + 1, n)
  <2>1. /\ {1, a - 1, a, b, b + 1, n} \subseteq Int
        /\ 1 <= 1 /\ 1 <= a - 1 + 1 /\ a - 1 <= Len(s)
        /\ 1 <= a /\ a <= b + 1 /\ b <= Len(s)
        /\ 1 <= b + 1 /\ b + 1 <= n + 1 /\ n <= Len(s)
    BY <1>2, <1>3
  <2> HIDE DEF n
  <2>2. Keep(s, 1..a - 1) = SubSeq(s, 1, a - 1)
    BY <2>1, <1>7, KeepInterval, Zenon
  <2>3. Keep(s, a..b) = SubSeq(s, a, b)
    BY <2>1, <1>7, KeepInterval, Zenon
  <2>4. Keep(s, b + 1 .. n) = SubSeq(s, b + 1, n)
    BY <2>1, <1>7, KeepInterval, Zenon
  <2>5. QED  BY <2>2, <2>3, <2>4
<1>9. SubSeq(s, 1, a - 1) \o SubSeq(s, a, b) = SubSeq(s, 1, b)
  <2>1. SubSeq(s, 1, a - 1) \o SubSeq(s, (a - 1) + 1, b) = SubSeq(s, 1, b)
    BY <1>2, <1>3, <1>7, ConcatAdjacentSubSeq
  <2>2. (a - 1) + 1 = a
    BY <1>3
  <2>3. QED  BY <2>1, <2>2
<1>10. SubSeq(s, 1, b) \o SubSeq(s, b + 1, n) = SubSeq(s, 1, n)
  <2>1. 1 \in 1..Len(s) + 1 /\ b \in 1 - 1 .. Len(s) /\ n \in b..Len(s)
    BY <1>2, <1>3
  <2>2. QED  BY <2>1, <1>7, ConcatAdjacentSubSeq, Zenon
<1>11. SubSeq(s, 1, n) = s
  BY <1>7, SubSeqFull
<1>12. QED  BY <1>4, <1>6, <1>8, <1>9, <1>10, <1>11 DEF Gathered
----------------------------------------------------------------------------
(* What is asked for is a commit, with the selection in it                 *)

LEMMA GatheredFits ==
    ASSUME NEW T, NEW s \in Seq(T), NEW I \in SUBSET (1..Len(s)), NEW p \in 0..Len(s)
    PROVE  LET from == p - Cardinality({i \in I : i <= p})
           IN  /\ Gathered(s, I, p) \in Seq(T)
               /\ Cardinality(I) \in Nat /\ from \in Nat
               /\ from + Cardinality(I) <= Len(Gathered(s, I, p))
<1> DEFINE A == (1..p) \ I
           B == (p + 1 .. Len(s)) \ I
           W == {i \in I : i <= p}
           a == Keep(s, A)
           b == Keep(s, B)
           c == Keep(s, I)
<1>1. Len(s) \in Nat /\ A \in SUBSET (1..Len(s)) /\ B \in SUBSET (1..Len(s)) /\ p \in Int
  BY LenProperties
<1>2. a \in Seq(T) /\ Len(a) = Cardinality(A) /\ Cardinality(A) \in Nat
  <2> HIDE DEF A
  <2> QED  BY <1>1, KeepType
<1>3. b \in Seq(T) /\ Len(b) \in Nat
  <2> HIDE DEF B
  <2> QED  BY <1>1, KeepType
<1>4. c \in Seq(T) /\ Len(c) = Cardinality(I) /\ Cardinality(I) \in Nat
  BY KeepType
<1>5. Cardinality(A) = p - Cardinality(W)
  <2>1. IsFiniteSet(1..p) /\ Cardinality(1..p) = p
    <3>1. 1 \in Int /\ p \in Int /\ 1 <= p + 1 /\ p - 1 + 1 = p
      BY <1>1
    <3> QED  BY <3>1, IntervalSize
  <2>2. Cardinality(A) = Cardinality(1..p) - Cardinality((1..p) \cap I)
    BY <2>1, FS_Difference
  <2>3. (1..p) \cap I = W
    <3>1. \A i \in I : i \in 1..p <=> i <= p
      BY <1>1
    <3> QED  BY <3>1
  <2> QED  BY <2>1, <2>2, <2>3
<1>6. Gathered(s, I, p) = (a \o c) \o b
  <2>1. Gathered(s, I, p) = a \o c \o b
    BY Zenon DEF Gathered
  <2> QED  BY <2>1
<1> HIDE DEF a, b, c, A, W
<1>7. a \o c \in Seq(T) /\ Len(a \o c) = Len(a) + Len(c)
  BY <1>2, <1>4, ConcatProperties
<1> DEFINE d == a \o c
<1>8. d \in Seq(T) /\ Len(d) = Len(a) + Len(c)
  BY <1>7
<1> HIDE DEF d
<1>9. d \o b \in Seq(T) /\ Len(d \o b) = Len(d) + Len(b)
  BY <1>3, <1>8, ConcatProperties
<1>10. Gathered(s, I, p) \in Seq(T) /\ Len(Gathered(s, I, p)) = Len(a) + Len(c) + Len(b)
  BY <1>6, <1>8, <1>9 DEF d
<1> HIDE DEF Gathered
<1>11. /\ p - Cardinality(W) \in Nat
       /\ p - Cardinality(W) + Cardinality(I) <= Len(Gathered(s, I, p))
  BY <1>2, <1>3, <1>4, <1>5, <1>10
<1>12. QED  BY <1>4, <1>10, <1>11 DEF W

LEMMA IntoFits ==
    ASSUME NEW T, NEW s \in Seq(T), NEW t \in Seq(T), NEW p \in 0..Len(s)
    PROVE  /\ Into(s, t, p) \in Seq(T) /\ Len(Into(s, t, p)) = Len(s) + Len(t)
           /\ Len(s) \in Nat /\ Len(t) \in Nat
<1> DEFINE a == SubSeq(s, 1, p)
           b == SubSeq(s, p + 1, Len(s))
<1>1. Len(s) \in Nat /\ Len(t) \in Nat /\ p \in Int /\ 0 <= p /\ p <= Len(s)
  BY LenProperties
<1>2. a \in Seq(T) /\ Len(a) = p
  BY <1>1
<1>3. b \in Seq(T) /\ Len(b) = Len(s) - p
  BY <1>1
<1>4. Into(s, t, p) = (a \o t) \o b
  <2>1. Into(s, t, p) = a \o t \o b
    BY Zenon DEF Into
  <2> QED  BY <2>1
<1> HIDE DEF a, b
<1>5. a \o t \in Seq(T) /\ Len(a \o t) = Len(a) + Len(t)
  BY <1>2, ConcatProperties
<1> DEFINE d == a \o t
<1>6. d \in Seq(T) /\ Len(d) = Len(a) + Len(t)
  BY <1>5
<1> HIDE DEF d
<1>7. d \o b \in Seq(T) /\ Len(d \o b) = Len(d) + Len(b)
  BY <1>3, <1>6, ConcatProperties
<1>8. Into(s, t, p) = d \o b
  BY <1>4 DEF d
<1>9. Len(d \o b) = Len(s) + Len(t)
  BY <1>1, <1>2, <1>3, <1>6, <1>7
<1> HIDE DEF Into
<1>10. QED  BY <1>1, <1>7, <1>8, <1>9, Zenon

LEMMA WithoutFits ==
    ASSUME NEW T, NEW s \in Seq(T), NEW I \in SUBSET (1..Len(s))
    PROVE  Without(s, I) \in Seq(T) /\ Len(Without(s, I)) = Len(s) - Cardinality(I)
<1> DEFINE A == DOMAIN s \ I
<1>1. DOMAIN s = 1..Len(s) /\ A \in SUBSET (1..Len(s)) /\ Len(s) \in Nat
  BY LenProperties
<1>2. IsFiniteSet(1..Len(s)) /\ Cardinality(1..Len(s)) = Len(s)
  <2>1. 1 \in Int /\ Len(s) \in Int /\ 1 <= Len(s) + 1 /\ Len(s) - 1 + 1 = Len(s)
    BY <1>1
  <2> QED  BY <2>1, IntervalSize
<1>3. Cardinality(A) = Len(s) - Cardinality((1..Len(s)) \cap I)
  BY <1>1, <1>2, FS_Difference
<1>4. (1..Len(s)) \cap I = I
  OBVIOUS
<1> HIDE DEF A
<1>5. Keep(s, A) \in Seq(T) /\ Len(Keep(s, A)) = Cardinality(A)
  BY <1>1, KeepType
<1>6. QED  BY <1>3, <1>4, <1>5 DEF Without, A

LEMMA FlattenFits ==
    ASSUME NEW T, NEW s \in Seq(Seq(T)), Len(s) # 0
    PROVE  FlattenSeq(s) \in Seq(T)
<1>1. Len(s) \in 1..Len(s)
  BY LenProperties
<1>2. SubSeq(s, 1, Len(s)) = s
  BY SubSeqFull
<1>3. QED  BY <1>1, <1>2, FlattenFirst

\* The indexes of ancestors, and the first of them.
LEMMA IndexesFit ==
    ASSUME NEW s \in Commits, NEW S \in SUBSET Ancestors(s), NEW I, I = {Len(x) : x \in S}
    PROVE  /\ s \in Seq(Patches) /\ Len(s) \in Nat /\ I \in SUBSET (1..Len(s))
           /\ S # {} => /\ Len(Earliest(S)) \in I
                        /\ \A i \in I : Len(Earliest(S)) <= i
<1>1. /\ s \in Seq(Patches) /\ Len(s) \in Nat
      /\ \A x \in Ancestors(s) : Len(x) \in 1..Len(s)
  BY AncestorByLength DEF Commits, Patches
<1>2. S # {} => Earliest(S) \in S /\ \A y \in S : Len(Earliest(S)) <= Len(y)
  BY EarliestAndLatest
<1>3. QED  BY <1>1, <1>2

\* The commits that are combined make one patch, below which nothing is removed.
LEMMA CombinedIsCommit ==
    ASSUME NEW s \in Seq(Patches), NEW I \in SUBSET (1..Len(s)),
           NEW first \in I, \A i \in I : first <= i
    PROVE  LET t == Into(Without(s, I), <<FlattenSeq(Keep(s, I))>>, first - 1)
           IN  t \in Seq(Patches) /\ first \in 1..Len(t)
<1> DEFINE w == Without(s, I)
           c == Keep(s, I)
           F == FlattenSeq(c)
           u == <<F>>
<1>1. Len(s) \in Nat /\ first \in 1..Len(s)
  BY LenProperties
<1>2. /\ c \in Seq(Patches) /\ Len(c) = Cardinality(I) /\ Cardinality(I) \in Nat /\ IsFiniteSet(I)
  BY KeepType
<1>3. Cardinality(I) # 0
  BY <1>2, FS_EmptySet
<1>4. Cardinality(I) <= Len(s) - first + 1
  <2>1. first \in Int /\ Len(s) \in Int /\ first <= Len(s) + 1
    BY <1>1
  <2>2. IsFiniteSet(first..Len(s)) /\ Cardinality(first..Len(s)) = Len(s) - first + 1
    BY <2>1, IntervalSize
  <2>3. I \in SUBSET (first..Len(s))
    BY <1>1
  <2> QED  BY <2>2, <2>3, FS_Subset
<1>5. w \in Seq(Patches) /\ Len(w) = Len(s) - Cardinality(I)
  BY WithoutFits
<1> HIDE DEF w, c
<1>6. F \in Patches
  <2>1. c \in Seq(Seq(Changes))
    BY <1>2 DEF Patches
  <2> QED  BY <1>2, <1>3, <2>1, FlattenFits DEF Patches
<1> HIDE DEF F
<1>7. u \in Seq(Patches) /\ Len(u) = 1
  BY <1>6
<1>8. first - 1 \in 0..Len(w)
  BY <1>1, <1>2, <1>4, <1>5
<1> HIDE DEF u
<1>9. Into(w, u, first - 1) \in Seq(Patches) /\ Len(Into(w, u, first - 1)) = Len(w) + 1
  BY <1>5, <1>7, <1>8, IntoFits
<1> HIDE DEF Into
<1>10. first \in 1..Len(Into(w, u, first - 1))
  BY <1>1, <1>2, <1>4, <1>5, <1>9
<1>11. QED  BY <1>9, <1>10 DEF u, w, F, c

LEMMA EditedIsCommit ==
    ASSUME Edited \in Changes, NEW s \in Seq(Patches), NEW k \in 1..Len(s)
    PROVE  LET t == [s EXCEPT ![k] = Append(@, Edited)]
           IN  t \in Seq(Patches) /\ k \in 1..Len(t)
<1>1. s[k] \in Seq(Changes)
  BY ElementOfSeq DEF Patches
<1> DEFINE v == Append(s[k], Edited)
<1>2. v \in Patches
  BY <1>1, AppendProperties DEF Patches
<1> HIDE DEF v
<1>3. [s EXCEPT ![k] = v] \in Seq(Patches) /\ Len([s EXCEPT ![k] = v]) = Len(s)
  BY <1>2, ExceptSeq
<1>4. QED  BY <1>3 DEF v

\* What can be asked for of the refs r.
CanAsk(r, o) ==
    /\ o.type \in {"Move", "Copy", "Delete", "Combine", "Edit"}
    /\ o.src \in DOMAIN r /\ o.src # None /\ r[o.src] \in Commits
    /\ o.commits \in SUBSET Ancestors(r[o.src])
    /\ o.type \in {"Combine", "Edit"} => o.commits # {}
    /\ IF o.type \in {"Move", "Copy"}
       THEN /\ o.dst \in DOMAIN r /\ o.dst # None /\ r[o.dst] \in Commits
            /\ o.position \in Ancestors(r[o.dst]) \cup {Null}
       ELSE o.dst = None

\* SubSeq of a commit that there are enough patches for is its ancestor.
LEMMA SelectedInResult ==
    ASSUME NEW t \in Seq(Patches), NEW lo \in Nat, NEW n \in Nat, lo + n <= Len(t)
    PROVE  {SubSeq(t, 1, i) : i \in lo + 1 .. lo + n} \subseteq Ancestors(t)
<1>1. Len(t) \in Nat
  BY LenProperties
<1>2. \A i \in lo + 1 .. lo + n : i \in 1..Len(t)
  BY <1>1
<1>3. QED  BY <1>2 DEF Ancestors

\* Whatever is asked for gives commits, of which only those whose patches go away can be null,
\* and what is to be selected is in the ref that results.
LEMMA AskedFits ==
    ASSUME Edited \in Changes, NEW r, NEW o, CanAsk(r, o)
    PROVE  LET new == Asked(r, o)
               target == IF o.dst = None THEN o.src ELSE o.dst
           IN  /\ DOMAIN new = DOMAIN r
               /\ AskedSelection(r, o).commits \subseteq Ancestors(new[target])
               /\ new[o.src] \in Commits /\ new[target] \in Commits
               /\ (target # o.src \/ o.type = "Copy") /\ r[target] # Null => new[target] # Null
               /\ \A n \in DOMAIN r : n # o.src /\ n # o.dst => new[n] = r[n]
<1> DEFINE s == r[o.src]
           d == r[o.dst]
           S == o.commits
           I == {Len(x) : x \in S}
           p == Len(o.position)
           first == Len(Earliest(S))
           chosen == Keep(s, I)
           new == Asked(r, o)
           left == AskedSelection(r, o).commits
           target == IF o.dst = None THEN o.src ELSE o.dst
           from == p - Cardinality({i \in I : i <= p})
<1>1. /\ s \in Seq(Patches) /\ Len(s) \in Nat /\ I \in SUBSET (1..Len(s))
      /\ S # {} => first \in I /\ \A i \in I : first <= i
  <2>1. s \in Commits /\ S \in SUBSET Ancestors(s) /\ I = {Len(x) : x \in S}
    BY DEF CanAsk
  <2> HIDE DEF s, S, I
  <2>2. /\ s \in Seq(Patches) /\ Len(s) \in Nat /\ I \in SUBSET (1..Len(s))
        /\ S # {} => /\ Len(Earliest(S)) \in I
                     /\ \A i \in I : Len(Earliest(S)) <= i
    BY <2>1, IndexesFit
  <2> QED  BY <2>2
<1>2. /\ chosen \in Seq(Patches) /\ Len(chosen) = Cardinality(I) /\ Cardinality(I) \in Nat
  <2> HIDE DEF s, I
  <2> QED  BY <1>1, KeepType
<1>3. o.type \in {"Move", "Copy"} => d \in Seq(Patches) /\ p \in 0..Len(d) /\ Len(d) \in Nat
  <2>1. SUFFICES ASSUME o.type \in {"Move", "Copy"}
                 PROVE  d \in Seq(Patches) /\ p \in 0..Len(d) /\ Len(d) \in Nat
    OBVIOUS
  <2>2. d \in Commits /\ o.position \in Ancestors(d) \cup {Null}
    BY <2>1 DEF CanAsk
  <2> HIDE DEF d
  <2>3. Len(d) \in Nat /\ \A y \in Ancestors(d) : Len(y) \in 1..Len(d)
    BY <2>2, AncestorByLength
  <2>4. Len(Null) = 0
    BY AncestorsAreCommits
  <2> QED  BY <2>2, <2>3, <2>4 DEF Commits, Patches
<1>4. Commits = Seq(Patches)
  BY DEF Commits, Patches
<1>5. \A t : t \in Seq(Patches) /\ Len(t) # 0 => t # Null
  BY DEF Null
<1>6. o.src \in DOMAIN r /\ (o.type \in {"Move", "Copy"} => o.dst \in DOMAIN r /\ o.dst # None)
  BY DEF CanAsk
<1>7. Null = <<>> /\ \A t \in Seq(Patches) : t # Null => Len(t) # 0
  BY DEF Null
<1>8. CASE o.type = "Move" /\ o.dst = o.src
  <2> DEFINE g == Gathered(s, I, p)
  <2>1. new = [r EXCEPT ![o.src] = g] /\ target = o.src
    BY <1>6, <1>8 DEF Asked
  <2>2. left = {SubSeq(new[o.src], 1, i) : i \in from + 1 .. from + Cardinality(I)}
    BY <1>6, <1>8 DEF AskedSelection
  <2>3. /\ g \in Seq(Patches) /\ from \in Nat /\ from + Cardinality(I) <= Len(g)
    <3>1. p \in 0..Len(s)
      BY <1>3, <1>8
    <3> HIDE DEF s, I, p
    <3> QED  BY <1>1, <3>1, GatheredFits
  <2> HIDE DEF g, from, I
  <2>4. new[o.src] = g /\ DOMAIN new = DOMAIN r /\ \A n \in DOMAIN r : n # o.src => new[n] = r[n]
    BY <1>6, <2>1
  <2> HIDE DEF new
  <2>5. left \subseteq Ancestors(g)
    BY <1>2, <2>2, <2>3, <2>4, SelectedInResult
  <2> HIDE DEF left
  <2> QED  BY <1>4, <1>8, <2>1, <2>3, <2>4, <2>5 DEF new, left
<1>9. CASE (o.type = "Move" /\ o.dst # o.src) \/ o.type = "Copy"
  <2> DEFINE g == Into(d, chosen, p)
             w == Without(s, I)
  <2>1. /\ new = IF o.type = "Copy" THEN [r EXCEPT ![o.dst] = g]
                 ELSE [r EXCEPT ![o.src] = w, ![o.dst] = g]
        /\ target = o.dst
    BY <1>6, <1>9 DEF Asked
  <2>2. left = {SubSeq(new[o.dst], 1, i) : i \in p + 1 .. p + Cardinality(I)}
    <3>1. left = {SubSeq(new[target], 1, i) : i \in p + 1 .. p + Cardinality(I)}
      BY <1>9 DEF AskedSelection
    <3> QED  BY <2>1, <3>1
  <2>3. g \in Seq(Patches) /\ Len(g) = Len(d) + Cardinality(I)
    <3> HIDE DEF d, chosen, p
    <3> QED  BY <1>2, <1>3, <1>9, IntoFits
  <2>4. w \in Seq(Patches)
    <3> HIDE DEF s, I
    <3> QED  BY <1>1, WithoutFits
  <2> HIDE DEF g, w
  <2>5. /\ new[o.dst] = g /\ DOMAIN new = DOMAIN r
        /\ \A n \in DOMAIN r : n # o.src /\ n # o.dst => new[n] = r[n]
        /\ o.type = "Copy" /\ o.dst # o.src => new[o.src] = s
        /\ o.type # "Copy" /\ o.dst # o.src => new[o.src] = w
    BY <1>6, <1>9, <2>1
  <2> HIDE DEF new, I
  <2>6. left \subseteq Ancestors(g)
    <3>1. p \in Nat /\ p + Cardinality(I) <= Len(g)
      BY <1>2, <1>3, <1>9, <2>3
    <3> HIDE DEF p
    <3> QED  BY <1>2, <2>2, <2>3, <2>5, <3>1, SelectedInResult
  <2>7. new[o.src] \in Seq(Patches)
    BY <1>1, <1>9, <2>3, <2>4, <2>5
  <2>8. d # Null => g # Null
    <3>1. d # Null => Len(g) # 0
      BY <1>2, <1>3, <1>7, <1>9, <2>3
    <3> QED  BY <1>5, <2>3, <3>1
  <2> HIDE DEF left
  <2> QED  BY <1>4, <1>9, <2>1, <2>3, <2>5, <2>6, <2>7, <2>8 DEF new, left
<1>10. CASE o.type \in {"Delete", "Combine", "Edit"}
  <2> DEFINE g == IF o.type = "Delete" THEN Without(s, I)
                  ELSE IF o.type = "Combine"
                       THEN Into(Without(s, I), <<FlattenSeq(chosen)>>, first - 1)
                       ELSE [s EXCEPT ![first] = Append(@, Edited)]
             K == IF o.type = "Delete" THEN {} ELSE {first}
  <2>1. o.dst = None /\ target = o.src /\ (o.type # "Delete" => S # {})
    BY <1>10 DEF CanAsk
  <2>2. new = [r EXCEPT ![o.src] = g]
    BY <1>10 DEF Asked
  <2>3. left = {SubSeq(new[o.src], 1, i) : i \in K}
    BY <1>10, <2>1 DEF AskedSelection
  <2>4. g \in Seq(Patches) /\ \A i \in K : i \in 1..Len(g)
    <3>1. CASE o.type = "Delete"
      <4>1. Without(s, I) \in Seq(Patches)
        <5> HIDE DEF s, I
        <5> QED  BY <1>1, WithoutFits
      <4> QED  BY <3>1, <4>1
    <3>2. CASE o.type = "Combine"
      <4> DEFINE u == Into(Without(s, I), <<FlattenSeq(Keep(s, I))>>, first - 1)
      <4>1. u \in Seq(Patches) /\ first \in 1..Len(u)
        <5>1. first \in I /\ (\A i \in I : first <= i)
          BY <1>1, <2>1, <3>2
        <5> HIDE DEF s, I, first
        <5> QED  BY <1>1, <5>1, CombinedIsCommit
      <4>2. g = u /\ K = {first}
        BY <3>2
      <4> HIDE DEF u
      <4> QED  BY <4>1, <4>2
    <3>3. CASE o.type = "Edit"
      <4> DEFINE u == [s EXCEPT ![first] = Append(@, Edited)]
      <4>1. u \in Seq(Patches) /\ first \in 1..Len(u)
        <5>1. first \in 1..Len(s)
          BY <1>1, <2>1, <3>3
        <5> HIDE DEF s, I, first
        <5> QED  BY <1>1, <5>1, EditedIsCommit
      <4>2. g = u /\ K = {first}
        BY <3>3
      <4> HIDE DEF u
      <4> QED  BY <4>1, <4>2
    <3> QED  BY <1>10, <3>1, <3>2, <3>3
  <2> HIDE DEF g, K
  <2>5. new[o.src] = g /\ DOMAIN new = DOMAIN r /\ \A n \in DOMAIN r : n # o.src => new[n] = r[n]
    BY <1>6, <2>2
  <2>6. left \subseteq Ancestors(g)
    BY <2>3, <2>4, <2>5 DEF Ancestors
  <2> HIDE DEF new, left
  <2> QED  BY <1>4, <1>10, <2>1, <2>4, <2>5, <2>6 DEF new, left
<1>11. QED  BY <1>8, <1>9, <1>10 DEF CanAsk
=============================================================================
