-------------------------- MODULE ConflictsProofs --------------------------
(***************************************************************************)
(* What holds of Conflicts for any number of files, hunks and visits to    *)
(* the editor.                                                             *)
(***************************************************************************)
EXTENDS Conflicts, FiniteSetTheorems, SequenceTheorems, WellFoundedInduction, TLAPS
----------------------------------------------------------------------------
(* Counting                                                                *)

\* The hunks before the next one.
LEMMA NextHunk ==
    ASSUME NEW fc \in Conflict, NEW k \in Nat \ {0}, k <= Len(fc.hunks)
    PROVE  ConflictsBefore(fc, k + 1) =
               IF fc.hunks[k].type = "Conflict" THEN ConflictsBefore(fc, k) \cup {k}
               ELSE ConflictsBefore(fc, k)
BY DEF ConflictsBefore

\* The conflicts before a hunk are finitely many, and none before the first.
LEMMA CountIsFinite ==
    ASSUME NEW fc, NEW k \in Nat \ {0}
    PROVE  /\ IsFiniteSet(ConflictsBefore(fc, k)) /\ Cardinality(ConflictsBefore(fc, k)) \in Nat
           /\ k \notin ConflictsBefore(fc, k)
           /\ Cardinality(ConflictsBefore(fc, 1)) = 0
<1>1. IsFiniteSet(1..(k - 1)) /\ ConflictsBefore(fc, k) \in SUBSET (1..(k - 1))
  BY FS_Interval DEF ConflictsBefore
<1>2. IsFiniteSet(ConflictsBefore(fc, k)) /\ Cardinality(ConflictsBefore(fc, k)) \in Nat
  BY <1>1, FS_Subset, FS_CardinalityType
<1>3. ConflictsBefore(fc, 1) = {}
  BY DEF ConflictsBefore
<1>4. k \notin 1..(k - 1)
  OBVIOUS
<1>5. k \notin ConflictsBefore(fc, k)
  BY <1>1, <1>4
<1>6. QED  BY <1>2, <1>3, <1>5, FS_EmptySet, Zenon

\* Counting one more conflict of a file.
LEMMA CountNext ==
    ASSUME NEW fc \in Conflict, NEW k \in Nat \ {0}, k <= Len(fc.hunks)
    PROVE  Cardinality(ConflictsBefore(fc, k + 1)) =
               IF fc.hunks[k].type = "Conflict" THEN Cardinality(ConflictsBefore(fc, k)) + 1
               ELSE Cardinality(ConflictsBefore(fc, k))
<1> DEFINE s == ConflictsBefore(fc, k)
<1>1. IsFiniteSet(s) /\ k \notin s
  BY CountIsFinite
<1>2. Cardinality(s \cup {k}) = Cardinality(s) + 1
  BY <1>1, FS_AddElement
<1>3. QED  BY <1>2, NextHunk

\* The conflicts of one file, among those of all files, are as many.
LEMMA CountOfFile ==
    ASSUME NEW i, NEW k \in Nat \ {0}
    PROVE  /\ IsFiniteSet(ConflictsOf(i, k))
           /\ Cardinality(ConflictsOf(i, k)) = Cardinality(ConflictsBefore(conflicts[i], k))
<1>1. IsFiniteSet({i}) /\ Cardinality({i}) = 1
  BY FS_Singleton
<1>2. IsFiniteSet(ConflictsBefore(conflicts[i], k))
      /\ Cardinality(ConflictsBefore(conflicts[i], k)) \in Nat
  BY CountIsFinite
<1> DEFINE A == {i}
           B == ConflictsBefore(conflicts[i], k)
<1>3. ConflictsOf(i, k) = A \X B
  BY DEF ConflictsOf
<1>4. IsFiniteSet(A) /\ Cardinality(A) = 1 /\ IsFiniteSet(B) /\ Cardinality(B) \in Nat
  BY <1>1, <1>2
<1> HIDE DEF A, B
<1>5. IsFiniteSet(A \X B) /\ Cardinality(A \X B) = Cardinality(B)
  BY <1>4, FS_Product
<1>6. QED  BY <1>3, <1>5 DEF B
----------------------------------------------------------------------------
(* Recursion                                                               *)

\* What holds of 0 and of the next number holds up to n.
LEMMA UpTo ==
    ASSUME NEW n \in Nat, NEW T, 0 \in T, \A k \in 0..n : k < n /\ k \in T => k + 1 \in T
    PROVE  0..n \subseteq T
<1> DEFINE U == (0..n) \ T
<1>1. SUFFICES ASSUME U # {} PROVE FALSE
  OBVIOUS
<1>2. U \in SUBSET Nat
  OBVIOUS
<1>3. PICK k \in U : \A j \in U : ~(<<j, k>> \in OpToRel(<, Nat))
  BY <1>1, <1>2, NatLessThanWellFounded, WFMin, Zenon
<1>4. \A j \in U : ~(j < k)
  BY <1>2, <1>3, Zenon DEF OpToRel
<1>5. k \in 0..n /\ k \notin T /\ k # 0
  BY <1>3
<1>6. k - 1 \in 0..n /\ k - 1 < n /\ (k - 1) + 1 = k /\ k - 1 < k
  BY <1>5
<1>7. k - 1 \in T
  BY <1>4, <1>6
<1>8. QED  BY <1>5, <1>6, <1>7

\* n steps, each a function of what the one before it led to.
Runs(g, S, b, n, F) ==
    /\ g \in [0..n -> S] /\ g[0] = b
    /\ \A k \in 1..n : g[k] = F[k][g[k - 1]]

LEMMA Iterates ==
    ASSUME NEW S, NEW b \in S, NEW n \in Nat, NEW F \in [1..n -> [S -> S]]
    PROVE  \E g : Runs(g, S, b, n, F)
<1> DEFINE Upto(g, k) == /\ g \in [0..k -> S] /\ g[0] = b
                         /\ \A j \in 1..k : g[j] = F[j][g[j - 1]]
           T == {k \in 0..n : \E g : Upto(g, k)}
<1>1. 0 \in T
  <2>1. Upto([j \in 0..0 |-> b], 0)
    OBVIOUS
  <2> HIDE DEF Upto
  <2>2. QED  BY <2>1
<1>2. ASSUME NEW k \in 0..n, k < n, k \in T PROVE k + 1 \in T
  <2>1. PICK g : Upto(g, k)
    BY <1>2
  <2> DEFINE h == [j \in 0..(k + 1) |-> IF j = k + 1 THEN F[k + 1][g[k]] ELSE g[j]]
  <2>2. k + 1 \in 1..n /\ g[k] \in S
    BY <1>2, <2>1
  <2>3. F[k + 1][g[k]] \in S
    BY <2>2
  <2>4. h \in [0..(k + 1) -> S] /\ h[0] = b
    BY <2>1, <2>3
  <2>5. ASSUME NEW j \in 1..(k + 1) PROVE h[j] = F[j][h[j - 1]]
    <3>1. CASE j = k + 1
      <4>1. h[j] = F[k + 1][g[k]] /\ j - 1 = k /\ h[k] = g[k]
        BY <3>1
      <4>2. QED  BY <3>1, <4>1
    <3>2. CASE j # k + 1
      <4>1. j \in 1..k /\ h[j] = g[j] /\ h[j - 1] = g[j - 1]
        BY <3>2
      <4>2. QED  BY <2>1, <4>1
    <3>3. QED  BY <3>1, <3>2
  <2>6. Upto(h, k + 1)
    <3> HIDE DEF h
    <3>1. QED  BY <2>4, <2>5
  <2>7. k + 1 \in 0..n
    BY <1>2
  <2> HIDE DEF Upto
  <2>8. QED  BY <2>6, <2>7
<1>3. n \in T
  <2> HIDE DEF T
  <2>1. 0..n \subseteq T
    BY <1>1, <1>2, UpTo
  <2>2. QED  BY <2>1
<1>4. QED  BY <1>3, Zenon DEF Runs

\* MapThenFoldSet() from the greatest element down: the steps for the subsets of 1..n.
RunsOnSets(g, S, b, n, F) ==
    /\ g \in [SUBSET (1..n) -> S]
    /\ \A s \in SUBSET (1..n) : g[s] = IF s = {} THEN b ELSE F[Max(s)][g[s \ {Max(s)}]]

LEMMA IteratesOnSets ==
    ASSUME NEW S, NEW b \in S, NEW n \in Nat, NEW F \in [1..n -> [S -> S]]
    PROVE  \E g : RunsOnSets(g, S, b, n, F)
<1> DEFINE Upto(g, k) == /\ g \in [SUBSET (1..k) -> S]
                         /\ \A s \in SUBSET (1..k) :
                               g[s] = IF s = {} THEN b ELSE F[Max(s)][g[s \ {Max(s)}]]
           T == {k \in 0..n : \E g : Upto(g, k)}
<1>1. 0 \in T
  <2>1. Upto([s \in SUBSET (1..0) |-> b], 0)
    <3>1. \A s \in SUBSET (1..0) : s = {}
      OBVIOUS
    <3>2. QED  BY <3>1
  <2> HIDE DEF Upto
  <2>2. QED  BY <2>1
<1>2. ASSUME NEW k \in 0..n, k < n, k \in T PROVE k + 1 \in T
  <2>1. PICK g : Upto(g, k)
    BY <1>2
  <2> DEFINE x == k + 1
             h == [s \in SUBSET (1..x) |-> IF x \in s THEN F[x][g[s \ {x}]] ELSE g[s]]
  <2>2. x \in 1..n /\ x \in Nat /\ \A s \in SUBSET (1..x) : s \ {x} \in SUBSET (1..k)
    BY <1>2
  <2>3. \A s \in SUBSET (1..x) : x \notin s => s \in SUBSET (1..k)
    BY <1>2
  <2>4. \A s \in SUBSET (1..x) : x \in s => Max(s) = x
    <3>1. SUFFICES ASSUME NEW s \in SUBSET (1..x), x \in s PROVE Max(s) = x
      OBVIOUS
    <3>2. \A y \in s : x >= y /\ (y >= x => y = x)
      BY <2>2
    <3> HIDE DEF x
    <3>3. QED  BY <3>1, <3>2 DEF Max
  <2>5. \A s \in SUBSET (1..k) : s \in SUBSET (1..x) /\ x \notin s
    BY <1>2
  <2>6. h \in [SUBSET (1..x) -> S]
    <3>1. \A s \in SUBSET (1..x) : x \in s => F[x][g[s \ {x}]] \in S
      <4>1. SUFFICES ASSUME NEW s \in SUBSET (1..x) PROVE F[x][g[s \ {x}]] \in S
        OBVIOUS
      <4>2. g[s \ {x}] \in S
        BY <2>1, <2>2
      <4>3. F[x] \in [S -> S]
        BY <2>2
      <4>4. QED  BY <4>2, <4>3
    <3>2. \A s \in SUBSET (1..x) : x \notin s => g[s] \in S
      BY <2>1, <2>3
    <3> HIDE DEF x
    <3>3. QED  BY <3>1, <3>2
  <2>7. ASSUME NEW s \in SUBSET (1..x)
        PROVE  h[s] = IF s = {} THEN b ELSE F[Max(s)][h[s \ {Max(s)}]]
    <3>1. CASE x \in s
      <4>1. Max(s) = x /\ s # {} /\ s \ {x} \in SUBSET (1..k)
        BY <2>2, <2>4, <3>1
      <4>2. s \ {x} \in SUBSET (1..x) /\ x \notin s \ {x}
        BY <2>5, <4>1
      <4> HIDE DEF x
      <4>3. h[s] = F[x][g[s \ {x}]] /\ h[s \ {x}] = g[s \ {x}]
        BY <3>1, <4>2
      <4>4. QED  BY <4>1, <4>3
    <3>2. CASE x \notin s
      <4>1. s \in SUBSET (1..k)
        BY <2>3, <3>2
      <4>2. s \ {Max(s)} \in SUBSET (1..k)
        BY <4>1
      <4>3. s \ {Max(s)} \in SUBSET (1..x) /\ x \notin s \ {Max(s)}
        BY <2>5, <4>2
      <4> HIDE DEF x
      <4>4. h[s] = g[s] /\ h[s \ {Max(s)}] = g[s \ {Max(s)}]
        BY <3>2, <4>3
      <4>5. QED  BY <2>1, <4>1, <4>4
    <3>3. QED  BY <3>1, <3>2
  <2>8. Upto(h, k + 1)
    <3> HIDE DEF h
    <3>1. QED  BY <2>6, <2>7
  <2>9. k + 1 \in 0..n
    BY <1>2
  <2> HIDE DEF Upto
  <2>10. QED  BY <2>8, <2>9
<1>3. n \in T
  <2> HIDE DEF T
  <2>1. 0..n \subseteq T
    BY <1>1, <1>2, UpTo
  <2>2. QED  BY <2>1
<1>4. QED  BY <1>3, Zenon DEF RunsOnSets

----------------------------------------------------------------------------
(* Lines                                                                   *)

\* s \o t and Append(s, e), which the provers take apart where they see them.
Cat(s, t) == s \o t
Add(s, e) == Append(s, e)
First(s, k) == [i \in 1..k |-> s[i]]

\* The first k sequences of ss, one behind the other.
Flat(ss, k) == FlattenSeq(First(ss, k))

LEMMA CatLines ==
    ASSUME NEW T, NEW s \in Seq(T), NEW t \in Seq(T)
    PROVE  /\ Cat(s, t) \in Seq(T) /\ Len(Cat(s, t)) = Len(s) + Len(t)
           /\ Cat(s, <<>>) = s /\ Cat(<<>>, s) = s
           /\ Cat(s, t) = <<>> <=> s = <<>> /\ t = <<>>
           /\ \A i \in 1..(Len(s) + Len(t)) : Cat(s, t)[i] = IF i <= Len(s) THEN s[i] ELSE t[i - Len(s)]
<1>1. /\ s \o t \in Seq(T) /\ Len(s \o t) = Len(s) + Len(t)
      /\ \A i \in 1..(Len(s) + Len(t)) : (s \o t)[i] = IF i <= Len(s) THEN s[i] ELSE t[i - Len(s)]
  BY ConcatProperties, Zenon
<1>2. s \o <<>> = s /\ <<>> \o s = s
  BY ConcatEmptySeq, Zenon
<1>3. s \o t = <<>> <=> s = <<>> /\ t = <<>>
  <2>1. Len(s \o t) = 0 <=> Len(s) = 0 /\ Len(t) = 0
    <3> DEFINE u == s \o t
    <3>1. Len(u) = Len(s) + Len(t) /\ Len(s) \in Nat /\ Len(t) \in Nat
      BY <1>1, LenProperties
    <3> HIDE DEF u
    <3>2. Len(u) = 0 <=> Len(s) = 0 /\ Len(t) = 0
      BY <3>1
    <3>3. QED  BY <3>2 DEF u
  <2>2. \A x \in Seq(T) : x = <<>> <=> Len(x) = 0
    BY EmptySeq
  <2>3. QED  BY <1>1, <2>1, <2>2, Zenon
<1>4. QED  BY <1>1, <1>2, <1>3, Zenon DEF Cat

LEMMA CatTwice ==
    ASSUME NEW T, NEW s \in Seq(T), NEW t \in Seq(T), NEW u \in Seq(T)
    PROVE  Cat(Cat(s, t), u) = Cat(s, Cat(t, u))
<1>1. (s \o t) \o u = s \o (t \o u)
  BY ConcatAssociative, SMTT(20)
<1>2. QED  BY <1>1, Zenon DEF Cat

LEMMA AddLine ==
    ASSUME NEW T, NEW s \in Seq(T), NEW e \in T
    PROVE  /\ Add(s, e) \in Seq(T) /\ Len(Add(s, e)) = Len(s) + 1
           /\ Add(s, e)[Len(s) + 1] = e
           /\ \A i \in 1..Len(s) : Add(s, e)[i] = s[i]
BY DEF Add

LEMMA FirstLines ==
    ASSUME NEW T, NEW s \in Seq(T), NEW k \in 0..Len(s)
    PROVE  /\ First(s, k) \in Seq(T) /\ Len(First(s, k)) = k /\ DOMAIN First(s, k) = 1..k
           /\ First(s, 0) = <<>> /\ First(s, Len(s)) = s
           /\ \A i \in 1..k : First(s, k)[i] = s[i]
<1>1. s \in [1..Len(s) -> T] /\ Len(s) \in Nat
  BY LenProperties
<1>2. First(s, k) \in Seq(T) /\ Len(First(s, k)) = k /\ DOMAIN First(s, k) = 1..k
  BY <1>1 DEF First
<1>3. First(s, Len(s)) = s
  BY <1>1 DEF First
<1>4. First(s, 0) = <<>>
  <2>1. First(s, 0) \in Seq(T) /\ Len(First(s, 0)) = 0
    BY <1>1 DEF First
  <2>2. QED  BY <2>1, EmptySeq
<1>5. QED  BY <1>2, <1>3, <1>4 DEF First

LEMMA FlattenFirst ==
    ASSUME NEW T, NEW ss \in Seq(Seq(T))
    PROVE  /\ \A k \in 0..Len(ss) : Flat(ss, k) \in Seq(T)
           /\ Flat(ss, 0) = <<>>
           /\ \A k \in 1..Len(ss) : Flat(ss, k) = Cat(Flat(ss, k - 1), ss[k])
           /\ FlattenSeq(ss) = Flat(ss, Len(ss))
<1> DEFINE n == Len(ss)
           S == Seq(T)
           F == [i \in 1..n |-> [x \in S |-> Cat(x, ss[i])]]
<1>1. n \in Nat /\ \A i \in 1..n : ss[i] \in S
  BY LenProperties, ElementOfSeq
<1>2. <<>> \in S /\ \A x, y \in S : Cat(x, y) \in S
  BY CatLines, EmptySeq
<1>3. F \in [1..n -> [S -> S]]
  <2> HIDE DEF n, S
  <2>1. QED  BY <1>1, <1>2
<1>4. PICK g : g \in [0..n -> S] /\ g[0] = <<>> /\ \A k \in 1..n : g[k] = F[k][g[k - 1]]
  <2> DEFINE b == <<>>
  <2> HIDE DEF n, S, F, b
  <2>1. n \in Nat /\ b \in S
    BY <1>1, <1>2 DEF b
  <2>2. \E g : Runs(g, S, b, n, F)
    BY <1>3, <2>1, Iterates
  <2>3. QED  BY <2>2, Zenon DEF b, Runs
<1>5. \A k \in 1..n : k - 1 \in 0..n /\ g[k - 1] \in S /\ g[k] = Cat(g[k - 1], ss[k])
  <2> HIDE DEF S, n
  <2>1. ASSUME NEW k \in 1..n PROVE k - 1 \in 0..n
    BY <1>1
  <2>2. QED  BY <1>4, <2>1
<1>6. ASSUME NEW k \in 0..n PROVE Flat(ss, k) = g[k]
  <2> DEFINE s == First(ss, k)
  <2>1. s \in Seq(S) /\ Len(s) = k /\ \A i \in 1..k : s[i] = ss[i]
    BY FirstLines
  <2>2. CASE k = 0
    <3>1. s = <<>>
      BY <2>1, <2>2, EmptySeq
    <3>2. FlattenSeq(s) = s
      BY <2>1, <2>2 DEF FlattenSeq
    <3>3. QED  BY <1>4, <2>2, <3>1, <3>2 DEF Flat
  <2>3. CASE k # 0
    <3> DEFINE Eq(f) == f = [i \in 1..Len(s) |-> IF i = 1 THEN s[i] ELSE f[i - 1] \o s[i]]
               h == [i \in 1..k |-> g[i]]
               f == CHOOSE f : Eq(f)
    <3>1. Eq(h)
      <4>1. ASSUME NEW i \in 1..k PROVE h[i] = IF i = 1 THEN s[i] ELSE h[i - 1] \o s[i]
        <5>1. i \in 1..n /\ s[i] = ss[i] /\ g[i] = Cat(g[i - 1], s[i]) /\ s[i] \in S
          <6>1. i \in 1..n /\ s[i] = ss[i]
            BY <1>1, <2>1
          <6>2. g[i] = Cat(g[i - 1], ss[i])
            BY <1>5, <6>1
          <6>3. s[i] \in S
            <7> HIDE DEF S, s
            <7>1. QED  BY <2>1, ElementOfSeq
          <6>4. QED  BY <6>1, <6>2, <6>3
        <5>2. CASE i = 1
          <6>1. g[i - 1] = <<>>
            BY <1>4, <5>2
          <6>2. QED  BY <5>1, <5>2, <6>1, CatLines
        <5>3. CASE i # 1
          <6>1. i - 1 \in 1..k
            BY <5>3
          <6>2. h[i - 1] = g[i - 1]
            BY <6>1
          <6>3. QED  BY <5>1, <5>3, <6>2 DEF Cat
        <5>4. QED  BY <5>2, <5>3
      <4> HIDE DEF s
      <4>2. QED  BY <2>1, <4>1
    <3>2. Eq(f)
      <4> HIDE DEF Eq, h
      <4>1. QED  BY <3>1
    <3>3. FlattenSeq(s) = f[k]
      BY <2>1, <2>3, Zenon DEF FlattenSeq
    <3> HIDE DEF f, s
    <3>8. k \in Nat
      BY <1>1
    <3>4. \A i \in 1..k : f[i] = IF i = 1 THEN s[i] ELSE Cat(f[i - 1], s[i])
      BY <2>1, <3>2 DEF Cat
    <3>5. \A i \in 0..k : i = 0 \/ f[i] = g[i]
      <4> DEFINE U == {i \in 0..k : i = 0 \/ f[i] = g[i]}
      <4>1. 0 \in U
        OBVIOUS
      <4>2. ASSUME NEW i \in 0..k, i < k, i \in U PROVE i + 1 \in U
        <5> DEFINE j == i + 1
        <5>1. j \in 1..k /\ j \in 1..n /\ j - 1 = i /\ (j = 1 <=> i = 0) /\ j \in 0..k
          BY <1>1, <4>2
        <5> HIDE DEF j
        <5>2. s[j] = ss[j] /\ s[j] \in S /\ g[j] = Cat(g[i], s[j])
          BY <1>1, <1>5, <2>1, <5>1
        <5>3. CASE i = 0
          <6>1. f[j] = s[j]
            BY <3>4, <5>1, <5>3
          <6>2. g[j] = s[j]
            BY <1>4, <5>2, <5>3, CatLines
          <6>3. QED  BY <5>1, <6>1, <6>2 DEF j
        <5>4. CASE i # 0
          <6>1. f[j] = Cat(f[i], s[j]) /\ f[i] = g[i]
            BY <3>4, <4>2, <5>1, <5>4
          <6>2. QED  BY <5>1, <5>2, <6>1 DEF j
        <5>5. QED  BY <5>3, <5>4
      <4> HIDE DEF U
      <4>3. 0..k \subseteq U
        BY <3>8, <4>1, <4>2, UpTo
      <4>4. QED  BY <4>3 DEF U
    <3>6. k \in 0..k
      OBVIOUS
    <3>7. QED  BY <2>3, <3>3, <3>5, <3>6 DEF Flat, s
  <2>4. QED  BY <2>2, <2>3
<1>7. First(ss, n) = ss
  BY FirstLines, LenProperties
<1>8. 0 \in 0..n /\ n \in 0..n
  BY <1>1
<1> HIDE DEF S, n
<1>9. FlattenSeq(ss) = Flat(ss, n)
  BY <1>7 DEF Flat
<1>10. \A k \in 1..n : Flat(ss, k) = Cat(Flat(ss, k - 1), ss[k])
  <2>1. ASSUME NEW k \in 1..n PROVE Flat(ss, k) = Cat(Flat(ss, k - 1), ss[k])
    <3>1. k \in 0..n /\ k - 1 \in 0..n
      BY <1>1
    <3>2. QED  BY <1>5, <1>6, <3>1
  <2>2. QED  BY <2>1
<1>11. QED  BY <1>4, <1>6, <1>8, <1>9, <1>10 DEF S, n

----------------------------------------------------------------------------
(* The parser                                                              *)

Begin == [state |-> "Normal", hunk |-> EmptyHunk("Normal"), hunks |-> <<>>]

\* Parsing the lines t leads from p to q.
Parses(m, p, t, q) ==
    \E g : /\ g \in [0..Len(t) -> Parser] /\ g[0] = p /\ g[Len(t)] = q
           /\ \A k \in 1..Len(t) : g[k] = ParseLine(m, t[k])[g[k - 1]]

LEMMA EmptyHunkType ==
    ASSUME NEW type \in HunkTypes
    PROVE  EmptyHunk(type) \in Hunk
<1>1. <<>> \in Lines
  BY EmptySeq DEF Lines
<1>2. QED  BY <1>1 DEF EmptyHunk, Hunk

LEMMA BeginType == Begin \in Parser
<1>1. EmptyHunk("Normal") \in Hunk
  BY EmptyHunkType DEF HunkTypes
<1>2. <<>> \in Seq(Hunk)
  BY EmptySeq
<1>3. QED  BY <1>1, <1>2 DEF Begin, Parser

LEMMA TurnType ==
    ASSUME NEW p \in Parser, NEW state \in {"Normal", "Ours", "Theirs"}, NEW type \in HunkTypes
    PROVE  /\ Turn(p, state, type) \in Parser
           /\ Turn(p, state, type).state = state /\ Turn(p, state, type).hunk = EmptyHunk(type)
           /\ Turn(p, state, type).hunks = IF HunkIsEmpty(p.hunk) THEN p.hunks ELSE Add(p.hunks, p.hunk)
<1>1. p.hunk \in Hunk /\ p.hunks \in Seq(Hunk)
  BY DEF Parser
<1>2. Add(p.hunks, p.hunk) \in Seq(Hunk)
  BY <1>1 DEF Add
<1>3. EmptyHunk(type) \in Hunk
  BY EmptyHunkType
<1>4. Turn(p, state, type) = [state |-> state, hunk |-> EmptyHunk(type),
                              hunks |-> IF HunkIsEmpty(p.hunk) THEN p.hunks ELSE Add(p.hunks, p.hunk)]
  BY DEF Turn, Add
<1>5. QED  BY <1>1, <1>2, <1>3, <1>4 DEF Parser

\* What a line does, state by state.
LineParsed(m, line, p, q) ==
    /\ p.state = "Normal" /\ StartsWith(m.start, line) => q = Turn(p, "Ours", "Conflict")
    /\ p.state = "Ours" /\ StartsWith(m.separator, line) => q = [p EXCEPT !.state = "Theirs"]
    /\ p.state = "Theirs" /\ StartsWith(m.end, line) => q = Turn(p, "Normal", "Normal")
    /\ p.state = "Normal" /\ ~StartsWith(m.start, line) =>
          q = [p EXCEPT !.hunk.normal = Add(p.hunk.normal, line)]
    /\ p.state = "Ours" /\ ~StartsWith(m.separator, line) =>
          q = [p EXCEPT !.hunk.ours = Add(p.hunk.ours, line)]
    /\ p.state = "Theirs" /\ ~StartsWith(m.end, line) =>
          q = [p EXCEPT !.hunk.theirs = Add(p.hunk.theirs, line)]
    /\ p.state \in {"Normal", "Ours", "Theirs"}

LEMMA ParseLineIs ==
    ASSUME NEW m, NEW line \in STRING, NEW p \in Parser
    PROVE  LineParsed(m, line, p, ParseLine(m, line)[p])
<1> DEFINE Q(x) ==
        CASE x.state = "Normal" /\ StartsWith(m.start, line)    -> Turn(x, "Ours", "Conflict")
          [] x.state = "Ours" /\ StartsWith(m.separator, line)  -> [x EXCEPT !.state = "Theirs"]
          [] x.state = "Theirs" /\ StartsWith(m.end, line)      -> Turn(x, "Normal", "Normal")
          [] x.state = "Normal" /\ ~StartsWith(m.start, line)   ->
                [x EXCEPT !.hunk.normal = Append(@, line)]
          [] x.state = "Ours" /\ ~StartsWith(m.separator, line) ->
                [x EXCEPT !.hunk.ours = Append(@, line)]
          [] x.state = "Theirs" /\ ~StartsWith(m.end, line)     ->
                [x EXCEPT !.hunk.theirs = Append(@, line)]
<1>1. ParseLine(m, line) = [x \in Parser |-> Q(x)]
  BY DEF ParseLine
<1>2. ParseLine(m, line)[p] = Q(p)
  <2> HIDE DEF Q
  <2>1. QED  BY <1>1
<1>3. p.state \in {"Normal", "Ours", "Theirs"}
  BY DEF Parser
<1>4. QED  BY <1>2, <1>3 DEF Add, LineParsed

LEMMA ParseLineType ==
    ASSUME NEW m, NEW line \in STRING
    PROVE  ParseLine(m, line) \in [Parser -> Parser]
<1>1. ASSUME NEW p \in Parser PROVE ParseLine(m, line)[p] \in Parser
  <2> DEFINE q == ParseLine(m, line)[p]
  <2>1. /\ p.state \in {"Normal", "Ours", "Theirs"} /\ p.hunk \in Hunk /\ p.hunks \in Seq(Hunk)
        /\ p.hunk.normal \in Lines /\ p.hunk.ours \in Lines /\ p.hunk.theirs \in Lines
    BY DEF Parser, Hunk
  <2>2. \A s \in Lines : Add(s, line) \in Lines
    BY AddLine, Zenon DEF Lines
  <2>3. LineParsed(m, line, p, q)
    BY ParseLineIs
  <2>0. SUFFICES q \in Parser
    OBVIOUS
  <2> HIDE DEF q
  <2>4. CASE p.state = "Normal" /\ StartsWith(m.start, line)
    BY <2>3, <2>4, TurnType DEF HunkTypes, LineParsed
  <2>5. CASE p.state = "Ours" /\ StartsWith(m.separator, line)
    <3>1. q = [p EXCEPT !.state = "Theirs"]
      BY <2>3, <2>5 DEF LineParsed
    <3>2. QED  BY <3>1 DEF Parser
  <2>6. CASE p.state = "Theirs" /\ StartsWith(m.end, line)
    BY <2>3, <2>6, TurnType DEF HunkTypes, LineParsed
  <2>7. CASE p.state = "Normal" /\ ~StartsWith(m.start, line)
    <3>1. q = [p EXCEPT !.hunk.normal = Add(p.hunk.normal, line)]
      BY <2>3, <2>7 DEF LineParsed
    <3>2. QED  BY <2>1, <2>2, <3>1 DEF Parser, Hunk
  <2>8. CASE p.state = "Ours" /\ ~StartsWith(m.separator, line)
    <3>1. q = [p EXCEPT !.hunk.ours = Add(p.hunk.ours, line)]
      BY <2>3, <2>8 DEF LineParsed
    <3>2. QED  BY <2>1, <2>2, <3>1 DEF Parser, Hunk
  <2>9. CASE p.state = "Theirs" /\ ~StartsWith(m.end, line)
    <3>1. q = [p EXCEPT !.hunk.theirs = Add(p.hunk.theirs, line)]
      BY <2>3, <2>9 DEF LineParsed
    <3>2. QED  BY <2>1, <2>2, <3>1 DEF Parser, Hunk
  <2>10. QED  BY <2>1, <2>4, <2>5, <2>6, <2>7, <2>8, <2>9
<1>2. ParseLine(m, line) = [p \in Parser |-> ParseLine(m, line)[p]]
  <2> DEFINE Q(x) ==
          CASE x.state = "Normal" /\ StartsWith(m.start, line)    -> Turn(x, "Ours", "Conflict")
            [] x.state = "Ours" /\ StartsWith(m.separator, line)  -> [x EXCEPT !.state = "Theirs"]
            [] x.state = "Theirs" /\ StartsWith(m.end, line)      -> Turn(x, "Normal", "Normal")
            [] x.state = "Normal" /\ ~StartsWith(m.start, line)   ->
                  [x EXCEPT !.hunk.normal = Append(@, line)]
            [] x.state = "Ours" /\ ~StartsWith(m.separator, line) ->
                  [x EXCEPT !.hunk.ours = Append(@, line)]
            [] x.state = "Theirs" /\ ~StartsWith(m.end, line)     ->
                  [x EXCEPT !.hunk.theirs = Append(@, line)]
  <2>1. ParseLine(m, line) = [x \in Parser |-> Q(x)]
    BY DEF ParseLine
  <2> HIDE DEF Q
  <2>2. QED  BY <2>1
<1> DEFINE f == ParseLine(m, line)
<1> HIDE DEF f
<1>3. f \in [Parser -> Parser]
  BY <1>1, <1>2 DEF f
<1>4. QED  BY <1>3 DEF f

LEMMA MaxIn ==
    ASSUME NEW n \in Nat, NEW x \in SUBSET (1..n), x # {}
    PROVE  Max(x) \in x
<1> DEFINE U == {n - y : y \in x}
<1>1. U \in SUBSET Nat /\ U # {}
  <2>1. \A y \in x : n - y \in Nat
    OBVIOUS
  <2>2. QED  BY <2>1
<1>2. PICK u \in U : \A v \in U : ~(<<v, u>> \in OpToRel(<, Nat))
  BY <1>1, NatLessThanWellFounded, WFMin, Zenon
<1>3. \A v \in U : ~(v < u)
  BY <1>1, <1>2, Zenon DEF OpToRel
<1>4. PICK z \in x : u = n - z
  BY <1>2
<1>5. \A y \in x : ~(n - y < n - z)
  BY <1>3, <1>4
<1>6. \A y \in x : z >= y
  BY <1>5
<1>7. QED  BY <1>6 DEF Max

\* FoldLeft() over the lines of a text.
LEMMA Parsed ==
    ASSUME NEW m, NEW s \in Lines
    PROVE  \E q : /\ Parses(m, Begin, s, q)
                  /\ HunksFromConflictString(m, s) = Turn(q, "Normal", "Normal").hunks
<1> DEFINE n == Len(s)
           F == [i \in 1..n |-> ParseLine(m, s[i])]
           Eq(f) == f = [x \in SUBSET DOMAIN s |->
                            IF x = {} THEN Begin ELSE ParseLine(m, s[Max(x)])[f[x \ {Max(x)}]]]
           f == CHOOSE f : Eq(f)
<1>1. n \in Nat /\ DOMAIN s = 1..n /\ \A i \in 1..n : s[i] \in STRING
  BY LenProperties, ElementOfSeq DEF Lines
<1>2. F \in [1..n -> [Parser -> Parser]]
  BY <1>1, ParseLineType
<1>3. HunksFromConflictString(m, s) = Turn(f[DOMAIN s], "Normal", "Normal").hunks
  BY DEF HunksFromConflictString, FoldLeft, MapThenFoldSet, Begin
<1>4. \E f0 : Eq(f0)
  <2>1. PICK g : RunsOnSets(g, Parser, Begin, n, F)
    <3> HIDE DEF F, n
    <3>1. n \in Nat /\ Begin \in Parser
      BY <1>1, BeginType
    <3>2. QED  BY <1>2, <3>1, IteratesOnSets
  <2>2. \A x \in SUBSET (1..n) :
           g[x] = IF x = {} THEN Begin ELSE ParseLine(m, s[Max(x)])[g[x \ {Max(x)}]]
    <3>1. ASSUME NEW x \in SUBSET (1..n), x # {} PROVE F[Max(x)] = ParseLine(m, s[Max(x)])
      <4>1. Max(x) \in 1..n
        BY <1>1, <3>1, MaxIn
      <4>2. QED  BY <4>1
    <3> HIDE DEF F, n
    <3>2. QED  BY <2>1, <3>1 DEF RunsOnSets
  <2>3. g = [x \in SUBSET (1..n) |-> g[x]]
    <3> HIDE DEF n
    <3>1. QED  BY <2>1 DEF RunsOnSets
  <2>4. Eq(g)
    <3> HIDE DEF n
    <3>1. QED  BY <1>1, <2>2, <2>3
  <2>5. QED  BY <2>4
<1>5. Eq(f)
  <2> HIDE DEF Eq
  <2>1. QED  BY <1>4
<1> HIDE DEF f
<1>6. \A x \in SUBSET (1..n) :
         f[x] = IF x = {} THEN Begin ELSE ParseLine(m, s[Max(x)])[f[x \ {Max(x)}]]
  BY <1>1, <1>5
<1> DEFINE g == [k \in 0..n |-> f[1..k]]
<1>7. g[0] = Begin
  <2>1. 1..0 = {} /\ 0 \in 0..n
    BY <1>1
  <2>2. g[0] = f[1..0]
    BY <2>1
  <2>3. QED  BY <1>6, <2>1, <2>2
<1>8. ASSUME NEW k \in 1..n PROVE g[k] = ParseLine(m, s[k])[g[k - 1]]
  <2>1. 1..k \in SUBSET (1..n) /\ 1..k # {} /\ k \in 0..n /\ k - 1 \in 0..n /\ (1..k) \ {k} = 1..(k - 1)
    <3> HIDE DEF n
    <3>1. 1..k \in SUBSET (1..n)
      BY <1>1
    <3>2. k \in 1..k /\ k \in 0..n /\ k - 1 \in 0..n
      BY <1>1
    <3>3. (1..k) \ {k} = 1..(k - 1)
      BY <1>1
    <3>4. QED  BY <3>1, <3>2, <3>3
  <2>2. Max(1..k) = k
    <3>1. k \in 1..k /\ \A y \in 1..k : k >= y /\ (y >= k => y = k)
      BY <1>1
    <3>2. QED  BY <3>1 DEF Max
  <2>3. f[1..k] = ParseLine(m, s[Max(1..k)])[f[(1..k) \ {Max(1..k)}]]
    BY <1>6, <2>1
  <2>4. f[1..k] = ParseLine(m, s[k])[f[1..(k - 1)]]
    BY <2>1, <2>2, <2>3
  <2>5. QED  BY <2>1, <2>4
<1> HIDE DEF n
<1>9. \A k \in 0..n : g[k] \in Parser
  <2> HIDE DEF g
  <2> DEFINE T == {k \in 0..n : g[k] \in Parser}
  <2>1. 0 \in T
    BY <1>1, <1>7, BeginType
  <2>2. ASSUME NEW k \in 0..n, k < n, k \in T PROVE k + 1 \in T
    <3>1. k + 1 \in 1..n /\ (k + 1) - 1 = k /\ k + 1 \in 0..n
      BY <1>1, <2>2
    <3>2. g[k + 1] = ParseLine(m, s[k + 1])[g[k]] /\ ParseLine(m, s[k + 1]) \in [Parser -> Parser]
      BY <1>1, <1>8, <3>1, ParseLineType
    <3>3. QED  BY <2>2, <3>1, <3>2
  <2>3. 0..n \subseteq T
    <3> HIDE DEF T
    <3>1. n \in Nat
      BY <1>1
    <3>2. QED  BY <2>1, <2>2, <3>1, UpTo
  <2>4. QED  BY <2>3
<1>10. g[n] = f[DOMAIN s] /\ n \in 0..n
  BY <1>1
<1>11. g \in [0..n -> Parser]
  BY <1>9
<1> HIDE DEF g
<1>12. Parses(m, Begin, s, g[n])
  BY <1>7, <1>8, <1>11 DEF Parses, n
<1>13. QED  BY <1>3, <1>10, <1>12

\* The parser's states, by the lines x that its hunk gets now; o are ours, if theirs are next.
NormalOf(l) == [type |-> "Normal", normal |-> l, ours |-> <<>>, theirs |-> <<>>]
ConflictOfSides(o, t) == [type |-> "Conflict", normal |-> <<>>, ours |-> o, theirs |-> t]
At(state, h, hunks) == [state |-> state, hunk |-> h, hunks |-> hunks]
Reading(state, o, x, hunks) ==
    CASE state = "Normal" -> At("Normal", NormalOf(x), hunks)
      [] state = "Ours"   -> At("Ours", ConflictOfSides(x, <<>>), hunks)
      [] state = "Theirs" -> At("Theirs", ConflictOfSides(o, x), hunks)

\* The marker that a state is left at.
Awaits(m, state) ==
    CASE state = "Normal" -> m.start [] state = "Ours" -> m.separator [] state = "Theirs" -> m.end

ParserStates == {"Normal", "Ours", "Theirs"}

LEMMA HunkOfLines ==
    ASSUME NEW o \in Lines, NEW t \in Lines
    PROVE  /\ NormalOf(o) \in Hunk /\ ConflictOfSides(o, t) \in Hunk
           /\ HunkIsEmpty(NormalOf(o)) <=> o = <<>>
           /\ HunkIsEmpty(ConflictOfSides(o, t)) <=> o = <<>> /\ t = <<>>
           /\ EmptyHunk("Normal") = NormalOf(<<>>) /\ EmptyHunk("Conflict") = ConflictOfSides(<<>>, <<>>)
<1>1. <<>> \in Lines
  BY EmptySeq DEF Lines
<1>2. NormalOf(o) \in Hunk /\ ConflictOfSides(o, t) \in Hunk
  BY <1>1 DEF NormalOf, ConflictOfSides, Hunk, HunkTypes
<1>3. /\ HunkIsEmpty(NormalOf(o)) <=> o = <<>>
      /\ HunkIsEmpty(ConflictOfSides(o, t)) <=> o = <<>> /\ t = <<>>
  BY DEF HunkIsEmpty, NormalOf, ConflictOfSides
<1>4. EmptyHunk("Normal") = NormalOf(<<>>) /\ EmptyHunk("Conflict") = ConflictOfSides(<<>>, <<>>)
  BY DEF EmptyHunk, NormalOf, ConflictOfSides
<1>5. QED  BY <1>2, <1>3, <1>4

LEMMA ReadingType ==
    ASSUME NEW state \in ParserStates, NEW o \in Lines, NEW x \in Lines, NEW hunks \in Seq(Hunk)
    PROVE  /\ Reading(state, o, x, hunks) \in Parser
           /\ Reading(state, o, x, hunks).state = state
           /\ Reading(state, o, x, hunks).hunks = hunks
<1>1. <<>> \in Lines
  BY EmptySeq DEF Lines
<1>2. NormalOf(x) \in Hunk /\ ConflictOfSides(x, <<>>) \in Hunk /\ ConflictOfSides(o, x) \in Hunk
  BY <1>1, HunkOfLines
<1>3. QED  BY <1>2 DEF Reading, At, Parser, ParserStates

\* A line that is not the marker awaited.
LEMMA LineIsRead ==
    ASSUME NEW m, NEW state \in ParserStates, NEW o \in Lines, NEW x \in Lines, NEW hunks \in Seq(Hunk),
           NEW line \in STRING, ~StartsWith(Awaits(m, state), line)
    PROVE  ParseLine(m, line)[Reading(state, o, x, hunks)] = Reading(state, o, Add(x, line), hunks)
<1> DEFINE p == Reading(state, o, x, hunks)
           q == ParseLine(m, line)[p]
<1>1. p \in Parser /\ p.state = state
  BY ReadingType
<1>2. LineParsed(m, line, p, q)
  <2> HIDE DEF p
  <2>1. QED  BY <1>1, ParseLineIs
<1>0. SUFFICES q = Reading(state, o, Add(x, line), hunks)
  OBVIOUS
<1> HIDE DEF q
<1>3. CASE state = "Normal"
  <2>1. ~StartsWith(m.start, line)
    BY <1>3 DEF Awaits
  <2>2. q = [p EXCEPT !.hunk.normal = Add(p.hunk.normal, line)]
    <3> HIDE DEF p
    <3>1. QED  BY <1>1, <1>2, <1>3, <2>1 DEF LineParsed
  <2>3. p = [state |-> "Normal", hunk |-> NormalOf(x), hunks |-> hunks]
    BY <1>3 DEF Reading, At
  <2>4. QED  BY <1>3, <2>2, <2>3 DEF Reading, At, NormalOf
<1>4. CASE state = "Ours"
  <2>1. ~StartsWith(m.separator, line)
    BY <1>4 DEF Awaits
  <2>2. q = [p EXCEPT !.hunk.ours = Add(p.hunk.ours, line)]
    <3> HIDE DEF p
    <3>1. QED  BY <1>1, <1>2, <1>4, <2>1 DEF LineParsed
  <2>3. p = [state |-> "Ours", hunk |-> ConflictOfSides(x, <<>>), hunks |-> hunks]
    BY <1>4 DEF Reading, At
  <2>4. QED  BY <1>4, <2>2, <2>3 DEF Reading, At, ConflictOfSides
<1>5. CASE state = "Theirs"
  <2>1. ~StartsWith(m.end, line)
    BY <1>5 DEF Awaits
  <2>2. q = [p EXCEPT !.hunk.theirs = Add(p.hunk.theirs, line)]
    <3> HIDE DEF p
    <3>1. QED  BY <1>1, <1>2, <1>5, <2>1 DEF LineParsed
  <2>3. p = [state |-> "Theirs", hunk |-> ConflictOfSides(o, x), hunks |-> hunks]
    BY <1>5 DEF Reading, At
  <2>4. QED  BY <1>5, <2>2, <2>3 DEF Reading, At, ConflictOfSides
<1>6. QED  BY <1>3, <1>4, <1>5 DEF ParserStates

\* The hunks with the one that ends, unless it is empty.
With(hunks, l) == IF l = <<>> THEN hunks ELSE Add(hunks, NormalOf(l))

\* The markers, where they are awaited.
LEMMA StartIsRead ==
    ASSUME NEW m, NEW x \in Lines, NEW hunks \in Seq(Hunk), NEW line \in STRING,
           StartsWith(m.start, line), NEW p, p = Reading("Normal", <<>>, x, hunks)
    PROVE  ParseLine(m, line)[p] = Reading("Ours", <<>>, <<>>, With(hunks, x))
<1>0. <<>> \in Lines
  BY EmptySeq DEF Lines
<1>1. p \in Parser /\ p.state = "Normal" /\ p.hunks = hunks /\ p.hunk = NormalOf(x)
  BY <1>0, ReadingType DEF ParserStates, Reading, At
<1>2. ParseLine(m, line)[p] = Turn(p, "Ours", "Conflict")
  <2> DEFINE q == ParseLine(m, line)[p]
  <2>1. LineParsed(m, line, p, q)
    BY <1>1, ParseLineIs
  <2> HIDE DEF q
  <2>2. q = Turn(p, "Ours", "Conflict")
    BY <1>1, <2>1 DEF LineParsed
  <2>3. QED  BY <2>2 DEF q
<1>3. Turn(p, "Ours", "Conflict") = At("Ours", ConflictOfSides(<<>>, <<>>), With(hunks, x))
  BY <1>0, <1>1, HunkOfLines DEF Turn, At, Add, With
<1>4. QED  BY <1>2, <1>3 DEF Reading

LEMMA SeparatorIsRead ==
    ASSUME NEW m, NEW x \in Lines, NEW hunks \in Seq(Hunk), NEW line \in STRING,
           StartsWith(m.separator, line), NEW p, p = Reading("Ours", <<>>, x, hunks)
    PROVE  ParseLine(m, line)[p] = Reading("Theirs", x, <<>>, hunks)
<1>0. <<>> \in Lines
  BY EmptySeq DEF Lines
<1>1. p \in Parser /\ p.state = "Ours" /\ p = At("Ours", ConflictOfSides(x, <<>>), hunks)
  BY <1>0, ReadingType DEF ParserStates, Reading
<1>2. ParseLine(m, line)[p] = [p EXCEPT !.state = "Theirs"]
  <2> DEFINE q == ParseLine(m, line)[p]
  <2>1. LineParsed(m, line, p, q)
    BY <1>1, ParseLineIs
  <2> HIDE DEF q
  <2>2. q = [p EXCEPT !.state = "Theirs"]
    BY <1>1, <2>1 DEF LineParsed
  <2>3. QED  BY <2>2 DEF q
<1>3. QED  BY <1>1, <1>2 DEF Reading, At

LEMMA EndIsRead ==
    ASSUME NEW m, NEW o \in Lines, NEW x \in Lines, NEW hunks \in Seq(Hunk), NEW line \in STRING,
           StartsWith(m.end, line), o # <<>> \/ x # <<>>, NEW p, p = Reading("Theirs", o, x, hunks)
    PROVE  ParseLine(m, line)[p] = Reading("Normal", <<>>, <<>>, Add(hunks, ConflictOfSides(o, x)))
<1>0. <<>> \in Lines
  BY EmptySeq DEF Lines
<1>1. p \in Parser /\ p.state = "Theirs" /\ p.hunks = hunks /\ p.hunk = ConflictOfSides(o, x)
  BY ReadingType DEF ParserStates, Reading, At
<1>2. ParseLine(m, line)[p] = Turn(p, "Normal", "Normal")
  <2> DEFINE q == ParseLine(m, line)[p]
  <2>1. LineParsed(m, line, p, q)
    BY <1>1, ParseLineIs
  <2> HIDE DEF q
  <2>2. q = Turn(p, "Normal", "Normal")
    BY <1>1, <2>1 DEF LineParsed
  <2>3. QED  BY <2>2 DEF q
<1>3. Turn(p, "Normal", "Normal") = At("Normal", NormalOf(<<>>), Add(hunks, ConflictOfSides(o, x)))
  BY <1>0, <1>1, HunkOfLines DEF Turn, At, Add
<1>4. QED  BY <1>2, <1>3 DEF Reading

\* A text is parsed piece by piece.
LEMMA ParsesBoth ==
    ASSUME NEW m, NEW s \in Lines, NEW t \in Lines, NEW p, NEW q, Parses(m, p, Cat(s, t), q)
    PROVE  \E r : Parses(m, p, s, r) /\ Parses(m, r, t, q)
<1> DEFINE u == Cat(s, t)
           a == Len(s)
           b == Len(t)
<1>1. /\ a \in Nat /\ b \in Nat /\ Len(u) = a + b
      /\ \A i \in 1..(a + b) : u[i] = IF i <= a THEN s[i] ELSE t[i - a]
  BY CatLines, LenProperties DEF Lines
<1> HIDE DEF u, a, b
<1>2. PICK g : /\ g \in [0..(a + b) -> Parser] /\ g[0] = p /\ g[a + b] = q
               /\ \A k \in 1..(a + b) : g[k] = ParseLine(m, u[k])[g[k - 1]]
  BY <1>1 DEF Parses, u
<1>3. Parses(m, p, s, g[a])
  <2> DEFINE h == [k \in 0..a |-> g[k]]
  <2>1. h \in [0..a -> Parser] /\ h[0] = p /\ h[a] = g[a]
    BY <1>1, <1>2
  <2>2. ASSUME NEW k \in 1..a PROVE h[k] = ParseLine(m, s[k])[h[k - 1]]
    <3>1. k \in 1..(a + b) /\ k <= a /\ k \in 0..a /\ k - 1 \in 0..a
      BY <1>1
    <3>2. u[k] = s[k] /\ h[k] = g[k] /\ h[k - 1] = g[k - 1]
      BY <1>1, <3>1
    <3>3. QED  BY <1>2, <3>1, <3>2
  <2> HIDE DEF h
  <2>3. QED  BY <2>1, <2>2 DEF Parses, a
<1>4. Parses(m, g[a], t, q)
  <2> DEFINE h == [k \in 0..b |-> g[a + k]]
  <2>1. h \in [0..b -> Parser] /\ h[0] = g[a] /\ h[b] = q
    BY <1>1, <1>2
  <2>2. ASSUME NEW k \in 1..b PROVE h[k] = ParseLine(m, t[k])[h[k - 1]]
    <3> DEFINE j == a + k
    <3>1. j \in 1..(a + b) /\ ~(j <= a) /\ j - a = k /\ k \in 0..b /\ k - 1 \in 0..b /\ a + (k - 1) = j - 1
      BY <1>1
    <3>2. h[k] = g[j] /\ h[k - 1] = g[j - 1]
      BY <3>1
    <3> HIDE DEF j, h
    <3>3. u[j] = t[k]
      BY <1>1, <3>1
    <3>4. QED  BY <1>2, <3>1, <3>2, <3>3
  <2> HIDE DEF h
  <2>3. QED  BY <2>1, <2>2 DEF Parses, b
<1>5. QED  BY <1>3, <1>4

LEMMA ParsesNothing == ASSUME NEW m, NEW p, NEW q, Parses(m, p, <<>>, q) PROVE q = p
<1>1. Len(<<>>) = 0
  OBVIOUS
<1>2. QED  BY <1>1 DEF Parses

LEMMA ParsesOne ==
    ASSUME NEW m, NEW p, NEW q, NEW line, Parses(m, p, <<line>>, q)
    PROVE  q = ParseLine(m, line)[p]
<1> DEFINE s == <<line>>
<1>1. Len(s) = 1 /\ s[1] = line /\ 1 \in 1..1 /\ 1 - 1 = 0 /\ 0 \in 0..1
  OBVIOUS
<1>2. Parses(m, p, s, q)
  OBVIOUS
<1> HIDE DEF s
<1>3. PICK g : /\ g \in [0..1 -> Parser] /\ g[0] = p /\ g[1] = q
               /\ \A k \in 1..1 : g[k] = ParseLine(m, s[k])[g[k - 1]]
  BY <1>1, <1>2 DEF Parses
<1>4. g[1] = ParseLine(m, s[1])[g[1 - 1]]
  BY <1>1, <1>3
<1>5. QED  BY <1>1, <1>3, <1>4

LEMMA FirstNext ==
    ASSUME NEW T, NEW s \in Seq(T), NEW k \in 1..Len(s)
    PROVE  First(s, k) = Add(First(s, k - 1), s[k])
<1> DEFINE a == First(s, k)
           f == First(s, k - 1)
           e == s[k]
           b == Add(f, e)
<1>1. Len(s) \in Nat /\ k - 1 \in 0..Len(s) /\ k \in 0..Len(s) /\ s[k] \in T
  BY LenProperties, ElementOfSeq
<1>2. a \in Seq(T) /\ Len(a) = k /\ \A i \in 1..k : a[i] = s[i]
  BY <1>1, FirstLines
<1>3. f \in Seq(T) /\ Len(f) = k - 1 /\ \A i \in 1..(k - 1) : f[i] = s[i]
  BY <1>1, FirstLines
<1> HIDE DEF a, f
<1>4. b \in Seq(T) /\ Len(b) = k /\ b[k] = s[k] /\ \A i \in 1..(k - 1) : b[i] = f[i]
  <2>1. b \in Seq(T) /\ Len(b) = Len(f) + 1 /\ b[Len(f) + 1] = s[k] /\ \A i \in 1..Len(f) : b[i] = f[i]
    <3>1. f \in Seq(T) /\ e \in T
      BY <1>1, <1>3
    <3> HIDE DEF e
    <3>2. b \in Seq(T) /\ Len(b) = Len(f) + 1
      BY ONLY <3>1, AddLine
    <3>3. b[Len(f) + 1] = e
      BY ONLY <3>1, AddLine
    <3>4. \A i \in 1..Len(f) : b[i] = f[i]
      BY ONLY <3>1, AddLine
    <3>5. QED  BY <3>2, <3>3, <3>4 DEF e
  <2> HIDE DEF b
  <2>2. Len(f) + 1 = k
    BY <1>1, <1>3
  <2>3. QED  BY <1>3, <2>1, <2>2
<1> HIDE DEF b
<1>5. \A i \in 1..Len(a) : a[i] = b[i]
  BY <1>1, <1>2, <1>3, <1>4
<1>6. a = b
  BY <1>2, <1>4, <1>5, SeqEqual, Zenon
<1>7. QED  BY <1>6 DEF a, b, f

LEMMA CatAdd ==
    ASSUME NEW T, NEW s \in Seq(T), NEW t \in Seq(T), NEW e \in T
    PROVE  Cat(s, Add(t, e)) = Add(Cat(s, t), e)
<1> DEFINE u == Add(t, e)
           v == Cat(s, t)
           a == Cat(s, u)
           b == Add(v, e)
<1>1. Len(s) \in Nat /\ Len(t) \in Nat
  BY LenProperties
<1>2. /\ u \in Seq(T) /\ Len(u) = Len(t) + 1 /\ u[Len(t) + 1] = e
      /\ \A i \in 1..Len(t) : u[i] = t[i]
  BY AddLine
<1>3. /\ v \in Seq(T) /\ Len(v) = Len(s) + Len(t)
      /\ \A i \in 1..(Len(s) + Len(t)) : v[i] = IF i <= Len(s) THEN s[i] ELSE t[i - Len(s)]
  BY CatLines
<1> HIDE DEF u, v
<1>4. /\ a \in Seq(T) /\ Len(a) = Len(s) + Len(u)
      /\ \A i \in 1..(Len(s) + Len(u)) : a[i] = IF i <= Len(s) THEN s[i] ELSE u[i - Len(s)]
  <2>1. u \in Seq(T)
    BY <1>2
  <2>2. QED  BY ONLY <2>1, s \in Seq(T), CatLines
<1>5. /\ b \in Seq(T) /\ Len(b) = Len(v) + 1 /\ b[Len(v) + 1] = e
      /\ \A i \in 1..Len(v) : b[i] = v[i]
  <2>1. v \in Seq(T)
    BY <1>3
  <2>2. QED  BY ONLY <2>1, e \in T, AddLine
<1> HIDE DEF a, b
<1>6. ASSUME NEW i \in 1..Len(a) PROVE a[i] = b[i]
  <2>1. i \in 1..(Len(s) + Len(u)) /\ i \in Nat
    BY <1>4
  <2>2. CASE i <= Len(s)
    <3>1. i \in 1..Len(v) /\ i \in 1..(Len(s) + Len(t))
      BY <1>1, <1>3, <2>1, <2>2
    <3>2. QED  BY <1>3, <1>4, <1>5, <2>1, <2>2, <3>1
  <2>3. CASE ~(i <= Len(s)) /\ i <= Len(s) + Len(t)
    <3> DEFINE j == i - Len(s)
    <3>1. i \in 1..Len(v) /\ i \in 1..(Len(s) + Len(t)) /\ j \in 1..Len(t)
      BY <1>1, <1>3, <2>1, <2>3
    <3>2. a[i] = u[j] /\ v[i] = t[j] /\ b[i] = v[i]
      BY <1>3, <1>4, <1>5, <2>1, <2>3, <3>1
    <3> HIDE DEF j
    <3>3. QED  BY <1>2, <3>1, <3>2
  <2>4. CASE i > Len(s) + Len(t)
    <3>1. i = Len(v) + 1 /\ i - Len(s) = Len(t) + 1 /\ ~(i <= Len(s))
      BY <1>1, <1>2, <1>3, <2>1, <2>4
    <3>2. a[i] = u[Len(t) + 1]
      BY <1>4, <2>1, <3>1
    <3>3. QED  BY <1>2, <1>5, <3>1, <3>2
  <2>5. QED  BY <1>1, <2>1, <2>2, <2>3, <2>4
<1>7. Len(a) = Len(b)
  BY <1>1, <1>2, <1>3, <1>4, <1>5
<1>8. a = b
  BY <1>4, <1>5, <1>6, <1>7, SeqEqual, Zenon
<1>9. QED  BY <1>8 DEF a, b, u, v

\* Lines among which the marker that is awaited is not.
LEMMA LinesAreRead ==
    ASSUME NEW m, NEW state \in ParserStates, NEW o \in Lines, NEW x \in Lines, NEW hunks \in Seq(Hunk),
           NEW t \in Lines, NoLine(t, Awaits(m, state)), NEW q,
           Parses(m, Reading(state, o, x, hunks), t, q)
    PROVE  q = Reading(state, o, Cat(x, t), hunks)
<1> DEFINE n == Len(t)
           R(k) == Reading(state, o, Cat(x, First(t, k)), hunks)
<1>1. n \in Nat /\ DOMAIN t = 1..n /\ \A i \in 1..n : t[i] \in STRING
  BY LenProperties, ElementOfSeq DEF Lines
<1>2. PICK g : /\ g[0] = Reading(state, o, x, hunks) /\ g[n] = q
               /\ \A k \in 1..n : g[k] = ParseLine(m, t[k])[g[k - 1]]
  BY DEF Parses
<1>3. First(t, 0) = <<>> /\ First(t, n) = t /\ \A k \in 0..n : First(t, k) \in Lines
  BY <1>1, FirstLines DEF Lines
<1>4. Cat(x, <<>>) = x /\ \A k \in 0..n : Cat(x, First(t, k)) \in Lines
  BY <1>3, CatLines DEF Lines
<1> DEFINE T == {k \in 0..n : g[k] = R(k)}
<1>5. 0 \in T
  BY <1>1, <1>2, <1>3, <1>4
<1>6. ASSUME NEW k \in 0..n, k < n, k \in T PROVE k + 1 \in T
  <2> DEFINE j == k + 1
             y == Cat(x, First(t, k))
  <2>1. j \in 1..n /\ j - 1 = k /\ j \in 0..n
    BY <1>1, <1>6
  <2>2. g[k] = Reading(state, o, y, hunks) /\ y \in Lines
    BY <1>4, <1>6
  <2> HIDE DEF j, n
  <2>3. ~StartsWith(Awaits(m, state), t[j]) /\ t[j] \in STRING
    BY <1>1, <2>1 DEF NoLine
  <2>4. Cat(x, First(t, j)) = Add(y, t[j])
    <3>1. First(t, j) = Add(First(t, k), t[j])
      BY <2>1, FirstNext DEF Lines, n
    <3>2. QED  BY <1>1, <1>3, <2>1, <3>1, CatAdd DEF Lines
  <2> HIDE DEF y
  <2>5. ParseLine(m, t[j])[Reading(state, o, y, hunks)] = Reading(state, o, Add(y, t[j]), hunks)
    BY <2>2, <2>3, LineIsRead
  <2>6. g[j] = R(j)
    BY <1>2, <2>1, <2>2, <2>4, <2>5
  <2>7. QED  BY <2>1, <2>6 DEF j
<1>7. 0..n \subseteq T
  <2> HIDE DEF T, n
  <2>1. n \in Nat
    BY <1>1
  <2>2. QED  BY <1>5, <1>6, <2>1, UpTo
<1>8. g[n] = R(n)
  BY <1>1, <1>7
<1>9. QED  BY <1>2, <1>3, <1>8

\* The text of a conflict.
Marked(m, o, t) == Cat(Cat(Cat(Cat(<<m.start>>, o), <<m.separator>>), t), <<m.end>>)

LEMMA MarkersAreLines ==
    ASSUME NEW m \in {Bare, Tagged}
    PROVE  /\ m.start \in STRING /\ m.separator \in STRING /\ m.end \in STRING
           /\ StartsWith(m.start, m.start) /\ StartsWith(m.separator, m.separator)
           /\ StartsWith(m.end, m.end)
<1>1. \A x : StartsWith(x, x)
  BY DEF StartsWith
<1>2. CASE m = Bare
  <2>1. m.start \in STRING /\ m.separator \in STRING /\ m.end \in STRING
    BY <1>2, MarkersAreStrings
  <2>2. QED  BY <1>1, <2>1
<1>3. CASE m = Tagged
  <2>1. m.start \in STRING /\ m.separator \in STRING /\ m.end \in STRING
    BY <1>3, MarkersAreStrings
  <2>2. QED  BY <1>1, <2>1
<1>4. QED  BY <1>2, <1>3

LEMMA OneLine == ASSUME NEW T, NEW e \in T PROVE <<e>> \in Seq(T)
OBVIOUS

LEMMA MarkedLines ==
    ASSUME NEW m \in {Bare, Tagged}, NEW o \in Lines, NEW t \in Lines
    PROVE  /\ <<m.start>> \in Lines /\ <<m.separator>> \in Lines /\ <<m.end>> \in Lines
           /\ Cat(<<m.start>>, o) \in Lines
           /\ Cat(Cat(<<m.start>>, o), <<m.separator>>) \in Lines
           /\ Cat(Cat(Cat(<<m.start>>, o), <<m.separator>>), t) \in Lines
           /\ Marked(m, o, t) \in Lines
<1>1. \A x, y \in Lines : Cat(x, y) \in Lines
  BY CatLines, Zenon DEF Lines
<1>2. <<m.start>> \in Lines /\ <<m.separator>> \in Lines /\ <<m.end>> \in Lines
  BY MarkersAreLines, OneLine, Zenon DEF Lines
<1>3. QED  BY <1>1, <1>2, Zenon DEF Marked

LEMMA MarkedIsRead ==
    ASSUME NEW m \in {Bare, Tagged}, NEW l \in Lines, NEW o \in Lines, NEW t \in Lines,
           NEW hunks \in Seq(Hunk), NoLine(o, m.separator), NoLine(t, m.end), o # <<>> \/ t # <<>>,
           NEW q, Parses(m, Reading("Normal", <<>>, l, hunks), Marked(m, o, t), q)
    PROVE  q = Reading("Normal", <<>>, <<>>, Add(With(hunks, l), ConflictOfSides(o, t)))
<1> DEFINE s1 == Cat(<<m.start>>, o)
           s2 == Cat(s1, <<m.separator>>)
           s3 == Cat(s2, t)
           p == Reading("Normal", <<>>, l, hunks)
           H == With(hunks, l)
           H2 == Add(H, ConflictOfSides(o, t))
           r1 == Reading("Ours", <<>>, <<>>, H)
           r2 == Reading("Ours", <<>>, o, H)
           r3 == Reading("Theirs", o, <<>>, H)
           r4 == Reading("Theirs", o, t, H)
           r5 == Reading("Normal", <<>>, <<>>, H2)
<1>1. /\ <<m.start>> \in Lines /\ <<m.separator>> \in Lines /\ <<m.end>> \in Lines
      /\ s1 \in Lines /\ s2 \in Lines /\ s3 \in Lines
  BY MarkedLines
<1>2. <<>> \in Lines /\ Cat(<<>>, o) = o /\ Cat(<<>>, t) = t
  BY EmptySeq, CatLines DEF Lines
<1>3. H \in Seq(Hunk)
  BY AddLine, HunkOfLines, Zenon DEF With
<1>4. Parses(m, p, Cat(s3, <<m.end>>), q)
  BY DEF Marked
<1>5. /\ m.start \in STRING /\ m.separator \in STRING /\ m.end \in STRING
      /\ StartsWith(m.start, m.start) /\ StartsWith(m.separator, m.separator)
      /\ StartsWith(m.end, m.end)
  BY MarkersAreLines
<1>7. /\ Awaits(m, "Ours") = m.separator /\ Awaits(m, "Theirs") = m.end
      /\ "Ours" \in ParserStates /\ "Theirs" \in ParserStates
  BY DEF Awaits, ParserStates
<1> HIDE DEF s1, s2, s3, p, H, H2, r3, r4, r5
<1>8. PICK q4 : Parses(m, p, s3, q4) /\ Parses(m, q4, <<m.end>>, q)
  BY <1>1, <1>4, ParsesBoth
<1>9. PICK q3 : Parses(m, p, s2, q3) /\ Parses(m, q3, t, q4)
  BY <1>1, <1>8, ParsesBoth DEF s3
<1>10. PICK q2 : Parses(m, p, s1, q2) /\ Parses(m, q2, <<m.separator>>, q3)
  BY <1>1, <1>9, ParsesBoth DEF s2
<1>11. PICK q1 : Parses(m, p, <<m.start>>, q1) /\ Parses(m, q1, o, q2)
  BY <1>1, <1>10, ParsesBoth DEF s1
<1>12. q1 = r1
  <2>1. q1 = ParseLine(m, m.start)[p]
    BY <1>11, ParsesOne
  <2>2. p = Reading("Normal", <<>>, l, hunks)
    BY DEF p
  <2>3. ParseLine(m, m.start)[p] = Reading("Ours", <<>>, <<>>, With(hunks, l))
    <3>1. \A line \in STRING : StartsWith(m.start, line) =>
              ParseLine(m, line)[p] = Reading("Ours", <<>>, <<>>, With(hunks, l))
      BY ONLY l \in Lines, hunks \in Seq(Hunk), <2>2, StartIsRead
    <3>2. QED  BY ONLY <3>1, <1>5
  <2>4. QED  BY <2>1, <2>3 DEF H
<1>13. q2 = r2
  <2>1. q2 = Reading("Ours", <<>>, Cat(<<>>, o), H)
    BY <1>2, <1>3, <1>7, <1>11, <1>12, LinesAreRead
  <2>2. QED  BY <1>2, <2>1
<1>14. q3 = r3
  <2>1. q3 = ParseLine(m, m.separator)[q2]
    BY <1>10, ParsesOne
  <2>2. ParseLine(m, m.separator)[q2] = Reading("Theirs", o, <<>>, H)
    <3>1. \A line \in STRING : StartsWith(m.separator, line) =>
              ParseLine(m, line)[q2] = Reading("Theirs", o, <<>>, H)
      BY ONLY o \in Lines, <1>3, <1>13, SeparatorIsRead
    <3>2. QED  BY ONLY <3>1, <1>5
  <2>3. QED  BY <2>1, <2>2 DEF r3
<1>15. q4 = r4
  <2>1. q4 = Reading("Theirs", o, Cat(<<>>, t), H)
    BY <1>2, <1>3, <1>7, <1>9, <1>14, LinesAreRead DEF r3
  <2>2. QED  BY <1>2, <2>1 DEF r4
<1>16. q = r5
  <2>1. q = ParseLine(m, m.end)[q4]
    BY <1>8, ParsesOne
  <2>2. q4 = Reading("Theirs", o, t, H)
    BY <1>15 DEF r4
  <2>3. ParseLine(m, m.end)[q4] = Reading("Normal", <<>>, <<>>, Add(H, ConflictOfSides(o, t)))
    <3>1. \A line \in STRING : StartsWith(m.end, line) =>
              ParseLine(m, line)[q4] = Reading("Normal", <<>>, <<>>, Add(H, ConflictOfSides(o, t)))
      BY ONLY o \in Lines, t \in Lines, o # <<>> \/ t # <<>>, <1>3, <2>2, EndIsRead
    <3>2. QED  BY ONLY <3>1, <1>5
  <2>4. QED  BY <2>1, <2>3 DEF r5, H2
<1>17. QED  BY <1>16 DEF r5, H2, H

----------------------------------------------------------------------------
(* What is taken of hunks and of segments                                  *)

\* The conflicts among the first k hunks; the lines of these, of each conflict the side taken.
CountTo(hs, k) == Cardinality({i \in 1..k : hs[i].type = "Conflict"})
LinesTaken(hs, sides) == [i \in DOMAIN hs |-> HunkLines(hs[i], sides[CountTo(hs, i)])]
Taken(hs, sides, k) == Flat(LinesTaken(hs, sides), k)

\* Sides for n conflicts.
SidesFor(sides, n) == \A i \in 1..n : sides[i] \in Sides

LEMMA CountHunk ==
    ASSUME NEW hs \in Seq(Hunk), NEW k \in 1..Len(hs)
    PROVE  /\ CountTo(hs, k) \in Nat /\ CountTo(hs, k - 1) \in Nat /\ CountTo(hs, 0) = 0
           /\ CountTo(hs, k) = IF hs[k].type = "Conflict" THEN CountTo(hs, k - 1) + 1
                               ELSE CountTo(hs, k - 1)
<1> DEFINE C(j) == {i \in 1..j : hs[i].type = "Conflict"}
<1>1. k \in Nat /\ k - 1 \in Nat /\ k \notin 1..(k - 1)
  BY LenProperties
<1>2. IsFiniteSet(C(k - 1)) /\ IsFiniteSet(C(k))
  <2>1. IsFiniteSet(1..(k - 1)) /\ IsFiniteSet(1..k)
    BY <1>1, FS_Interval
  <2>2. C(k - 1) \subseteq 1..(k - 1) /\ C(k) \subseteq 1..k
    OBVIOUS
  <2> HIDE DEF C
  <2>3. QED  BY <2>1, <2>2, FS_Subset
<1>3. C(k) = IF hs[k].type = "Conflict" THEN C(k - 1) \cup {k} ELSE C(k - 1)
  <2>1. 1..k = 1..(k - 1) \cup {k}
    BY <1>1
  <2>2. QED  BY <2>1
<1>4. k \notin C(k - 1) /\ C(0) = {}
  BY <1>1
<1>5. Cardinality(C(k - 1)) \in Nat /\ Cardinality(C(k)) \in Nat /\ Cardinality(C(0)) = 0
  <2> HIDE DEF C
  <2>1. QED  BY <1>2, <1>4, FS_CardinalityType, FS_EmptySet
<1>6. Cardinality(C(k - 1) \cup {k}) = Cardinality(C(k - 1)) + 1
  <2> HIDE DEF C
  <2>1. QED  BY <1>2, <1>4, FS_AddElement
<1> HIDE DEF C
<1>7. Cardinality(C(k)) = IF hs[k].type = "Conflict" THEN Cardinality(C(k - 1)) + 1
                          ELSE Cardinality(C(k - 1))
  BY <1>3, <1>6
<1>8. QED  BY <1>5, <1>7 DEF CountTo, C

\* The count never falls.
LEMMA CountGrows ==
    ASSUME NEW hs \in Seq(Hunk)
    PROVE  /\ \A k \in 0..Len(hs) : CountTo(hs, k) \in 0..CountTo(hs, Len(hs))
           /\ CountTo(hs, Len(hs)) \in Nat
<1> DEFINE n == Len(hs)
           c(k) == CountTo(hs, n - k)
           T == {k \in 0..n : c(0) \in Nat /\ c(k) \in 0..c(0)}
<1>0. n \in Nat
  BY LenProperties
<1>1. c(0) \in Nat /\ 0 \in T
  <2>1. CASE n = 0
    <3>1. CountTo(hs, 0) = 0
      <4>1. {i \in 1..0 : hs[i].type = "Conflict"} = {}
        OBVIOUS
      <4>2. QED  BY <4>1, FS_EmptySet DEF CountTo
    <3>2. c(0) = 0
      BY <2>1, <3>1
    <3> HIDE DEF c, n
    <3>3. QED  BY <1>0, <3>2
  <2>2. CASE n # 0
    <3>1. n \in 1..n /\ n - 0 = n
      BY <1>0, <2>2
    <3>2. c(0) \in Nat
      BY <3>1, CountHunk
    <3> HIDE DEF c, n
    <3>3. QED  BY <1>0, <3>2
  <2>3. QED  BY <2>1, <2>2
<1>2. ASSUME NEW k \in 0..n, k < n, k \in T PROVE k + 1 \in T
  <2> DEFINE j == n - k
  <2>1. j \in 1..n /\ j - 1 = n - (k + 1) /\ k + 1 \in 0..n
    BY <1>0, <1>2
  <2>2. /\ CountTo(hs, j - 1) \in Nat
        /\ CountTo(hs, j) = IF hs[j].type = "Conflict" THEN CountTo(hs, j - 1) + 1 ELSE CountTo(hs, j - 1)
    <3> HIDE DEF j
    <3>1. QED  BY <2>1, CountHunk
  <2>3. c(k + 1) \in Nat /\ (c(k) = c(k + 1) \/ c(k) = c(k + 1) + 1)
    BY <2>1, <2>2
  <2> HIDE DEF c, n, j
  <2>4. QED  BY <1>2, <2>1, <2>3
<1>3. 0..n \subseteq T
  <2> HIDE DEF T, n
  <2>1. QED  BY <1>0, <1>1, <1>2, UpTo
<1>4. ASSUME NEW k \in 0..n PROVE CountTo(hs, k) \in 0..CountTo(hs, n)
  <2>1. n - k \in 0..n /\ n - (n - k) = k /\ n - 0 = n
    BY <1>0
  <2>2. n - k \in T
    BY <1>3, <2>1
  <2>3. QED  BY <2>1, <2>2
<1>5. CountTo(hs, n) \in Nat
  <2>1. n - 0 = n
    BY <1>0
  <2>2. QED  BY <1>1, <2>1
<1>6. QED  BY <1>4, <1>5

LEMMA HunkHasLines ==
    ASSUME NEW h \in Hunk, NEW side, h.type = "Conflict" => side \in Sides
    PROVE  HunkLines(h, side) \in Lines
<1>1. h.type \in HunkTypes /\ h.normal \in Lines /\ h.ours \in Lines /\ h.theirs \in Lines
  BY DEF Hunk
<1>2. CASE h.type = "Normal"
  BY <1>1, <1>2 DEF HunkLines
<1>3. CASE h.type = "Conflict"
  <2>1. HunkLines(h, side) = h[side]
    BY <1>3 DEF HunkLines
  <2>2. CASE side = "ours"
    BY <1>1, <2>1, <2>2
  <2>3. CASE side = "theirs"
    BY <1>1, <2>1, <2>3
  <2>4. QED  BY <1>3, <2>2, <2>3 DEF Sides
<1>4. QED  BY <1>1, <1>2, <1>3 DEF HunkTypes

LEMMA SideTaken ==
    ASSUME NEW hs \in Seq(Hunk), NEW sides, SidesFor(sides, CountTo(hs, Len(hs))), NEW k \in 1..Len(hs)
    PROVE  hs[k].type = "Conflict" => sides[CountTo(hs, k)] \in Sides
<1> DEFINE n == Len(hs)
<1>1. hs[k].type = "Conflict" => CountTo(hs, k) \in 1..CountTo(hs, n)
  <2>1. /\ CountTo(hs, k) \in Nat /\ CountTo(hs, k - 1) \in Nat
        /\ hs[k].type = "Conflict" => CountTo(hs, k) = CountTo(hs, k - 1) + 1
    BY CountHunk
  <2>2. CountTo(hs, k) \in 0..CountTo(hs, n)
    <3>1. k \in 0..n
      BY LenProperties
    <3>2. QED  BY <3>1, CountGrows
  <2> HIDE DEF n
  <2>3. QED  BY <2>1, <2>2
<1>2. QED  BY <1>1 DEF SidesFor

LEMMA TakenLines ==
    ASSUME NEW hs \in Seq(Hunk), NEW sides, SidesFor(sides, CountTo(hs, Len(hs)))
    PROVE  /\ \A k \in 0..Len(hs) : Taken(hs, sides, k) \in Lines
           /\ Taken(hs, sides, 0) = <<>>
           /\ \A k \in 1..Len(hs) :
                 /\ HunkLines(hs[k], sides[CountTo(hs, k)]) \in Lines
                 /\ Taken(hs, sides, k) = Cat(Taken(hs, sides, k - 1), HunkLines(hs[k], sides[CountTo(hs, k)]))
<1> DEFINE n == Len(hs)
           ss == LinesTaken(hs, sides)
           L(k) == HunkLines(hs[k], sides[CountTo(hs, k)])
<1>1. n \in Nat /\ DOMAIN hs = 1..n /\ \A k \in 1..n : hs[k] \in Hunk
  BY LenProperties, ElementOfSeq
<1>2. ASSUME NEW k \in 1..n PROVE L(k) \in Lines
  BY <1>1, SideTaken, HunkHasLines
<1>3. ss = [k \in 1..n |-> L(k)]
  BY <1>1 DEF LinesTaken
<1>4. ss \in Seq(Lines) /\ Len(ss) = n /\ \A k \in 1..n : ss[k] = L(k)
  <2> HIDE DEF L, n, ss
  <2>1. QED  BY <1>1, <1>2, <1>3
<1>5. /\ \A k \in 0..n : Flat(ss, k) \in Lines
      /\ Flat(ss, 0) = <<>>
      /\ \A k \in 1..n : Flat(ss, k) = Cat(Flat(ss, k - 1), ss[k])
  <2> HIDE DEF ss, n
  <2>1. ss \in Seq(Seq(STRING)) /\ Len(ss) = n
    BY <1>4 DEF Lines
  <2>2. QED  BY <2>1, FlattenFirst DEF Lines
<1>6. QED
  <2> HIDE DEF L, n, ss
  <2>1. /\ \A k \in 0..n : Flat(ss, k) \in Lines
        /\ Flat(ss, 0) = <<>>
        /\ \A k \in 1..n : L(k) \in Lines /\ Flat(ss, k) = Cat(Flat(ss, k - 1), L(k))
    BY <1>2, <1>4, <1>5
  <2>2. QED  BY <2>1 DEF Taken, L, n, ss

\* The hunk h behind the n hunks hs makes g of them.
Behind(hs, n, h, g) ==
    /\ g \in Seq(Hunk) /\ Len(g) = n + 1 /\ n \in Nat
    /\ CountTo(g, n + 1) = IF h.type = "Conflict" THEN CountTo(hs, n) + 1 ELSE CountTo(hs, n)
    /\ \A sides : SidesFor(sides, CountTo(g, n + 1)) =>
          Taken(g, sides, n + 1) = Cat(Taken(hs, sides, n), HunkLines(h, sides[CountTo(g, n + 1)]))

LEMMA AddHunk ==
    ASSUME NEW hs \in Seq(Hunk), NEW h \in Hunk, NEW g, g = Add(hs, h), NEW n, n = Len(hs)
    PROVE  Behind(hs, n, h, g)
<1>1. /\ g \in Seq(Hunk) /\ Len(g) = n + 1 /\ n \in Nat /\ g[n + 1] = h
      /\ \A i \in 1..n : g[i] = hs[i]
  <2>1. PICK T : T = Hunk
    OBVIOUS
  <2>2. /\ Add(hs, h) \in Seq(T) /\ Len(Add(hs, h)) = Len(hs) + 1 /\ Add(hs, h)[Len(hs) + 1] = h
        /\ \A i \in 1..Len(hs) : Add(hs, h)[i] = hs[i]
    <3>1. hs \in Seq(T) /\ h \in T
      BY <2>1
    <3>2. QED  BY ONLY <3>1, AddLine
  <2>3. Len(hs) \in Nat
    BY LenProperties
  <2>4. QED  BY <2>1, <2>2, <2>3
<1>2. DOMAIN g = 1..(n + 1) /\ DOMAIN hs = 1..n
  BY <1>1, LenProperties
<1>3. ASSUME NEW k \in 0..n PROVE CountTo(g, k) = CountTo(hs, k)
  <2>1. \A i \in 1..k : g[i] = hs[i]
    BY <1>1
  <2>2. {i \in 1..k : g[i].type = "Conflict"} = {i \in 1..k : hs[i].type = "Conflict"}
    BY <2>1
  <2>3. QED  BY <2>2 DEF CountTo
<1>5. CountTo(g, n + 1) = IF h.type = "Conflict" THEN CountTo(hs, n) + 1 ELSE CountTo(hs, n)
  <2> DEFINE k == n + 1
  <2>1. k \in 1..Len(g) /\ k - 1 = n /\ n \in 0..n /\ g[k] = h
    BY <1>1
  <2>2. CountTo(g, k) = IF g[k].type = "Conflict" THEN CountTo(g, k - 1) + 1 ELSE CountTo(g, k - 1)
    <3> HIDE DEF k
    <3>1. QED  BY <1>1, <2>1, CountHunk
  <2> HIDE DEF k
  <2>3. QED  BY <1>3, <2>1, <2>2 DEF k
<1>6. ASSUME NEW sides, SidesFor(sides, CountTo(g, n + 1))
      PROVE  Taken(g, sides, n + 1) = Cat(Taken(hs, sides, n), HunkLines(h, sides[CountTo(g, n + 1)]))
  <2>1. First(LinesTaken(g, sides), n) = First(LinesTaken(hs, sides), n)
    <3>1. \A i \in 1..n : i \in DOMAIN g /\ i \in DOMAIN hs /\ i \in 0..n /\ g[i] = hs[i]
      BY <1>1, <1>2
    <3>2. \A i \in 1..n : LinesTaken(g, sides)[i] = LinesTaken(hs, sides)[i]
      BY <1>3, <3>1 DEF LinesTaken
    <3>3. QED  BY <3>2 DEF First
  <2>2. Taken(g, sides, n) = Taken(hs, sides, n)
    BY <2>1 DEF Taken, Flat
  <2> DEFINE k == n + 1
  <2>3. k \in 1..Len(g) /\ k - 1 = n /\ g[k] = h
    BY <1>1
  <2>4. Taken(g, sides, k) = Cat(Taken(g, sides, k - 1), HunkLines(g[k], sides[CountTo(g, k)]))
    <3>1. SidesFor(sides, CountTo(g, Len(g)))
      BY <1>1, <1>6
    <3> HIDE DEF k
    <3>2. QED  BY <1>1, <2>3, <3>1, TakenLines
  <2> HIDE DEF k
  <2>5. QED  BY <2>2, <2>3, <2>4 DEF k
<1>7. QED  BY <1>1, <1>5, <1>6 DEF Behind

\* Of the hunks a, the first k came into the hunks hs and the lines l behind them.
Joined(a, k, hs, l) ==
    /\ CountTo(hs, Len(hs)) = CountTo(a, k)
    /\ \A sides : SidesFor(sides, CountTo(a, Len(a))) =>
          Cat(Taken(hs, sides, Len(hs)), l) = Taken(a, sides, k)

LEMMA SidesForFewer ==
    ASSUME NEW a \in Seq(Hunk), NEW k \in 0..Len(a), NEW sides, SidesFor(sides, CountTo(a, Len(a)))
    PROVE  SidesFor(sides, CountTo(a, k))
<1>1. CountTo(a, k) \in 0..CountTo(a, Len(a)) /\ CountTo(a, Len(a)) \in Nat
  BY CountGrows
<1>2. \A i \in 1..CountTo(a, k) : i \in 1..CountTo(a, Len(a))
  BY <1>1
<1>3. QED  BY <1>2 DEF SidesFor

LEMMA JoinNothing ==
    ASSUME NEW a \in Seq(Hunk)
    PROVE  Joined(a, 0, <<>>, <<>>)
<1>1. \A hs : CountTo(hs, 0) = 0
  <2>1. \A hs : {i \in 1..0 : hs[i].type = "Conflict"} = {}
    OBVIOUS
  <2>2. QED  BY <2>1, FS_EmptySet DEF CountTo
<1>2. <<>> \in Seq(Hunk) /\ Len(<<>>) = 0 /\ <<>> \in Lines
  BY EmptySeq DEF Lines
<1>3. ASSUME NEW sides, SidesFor(sides, CountTo(a, Len(a)))
      PROVE  Cat(Taken(<<>>, sides, Len(<<>>)), <<>>) = Taken(a, sides, 0)
  <2>1. Taken(a, sides, 0) = <<>>
    BY <1>3, TakenLines
  <2>2. Taken(<<>>, sides, 0) = <<>>
    <3>1. SidesFor(sides, CountTo(<<>>, Len(<<>>)))
      BY <1>1, <1>2 DEF SidesFor
    <3>2. QED  BY <1>2, <3>1, TakenLines
  <2>3. Cat(<<>>, <<>>) = <<>>
    BY <1>2, CatLines DEF Lines
  <2>4. QED  BY <1>2, <2>1, <2>2, <2>3
<1>4. QED  BY <1>1, <1>2, <1>3 DEF Joined

LEMMA JoinNormal ==
    ASSUME NEW a \in Seq(Hunk), NEW k \in 1..Len(a), NEW x \in Lines, a[k] = NormalOf(x),
           NEW hs \in Seq(Hunk), NEW l \in Lines, Joined(a, k - 1, hs, l)
    PROVE  Joined(a, k, hs, Cat(l, x))
<1>1. a[k].type = "Normal" /\ a[k].type # "Conflict" /\ \A side : HunkLines(a[k], side) = x
  BY DEF NormalOf, HunkLines
<1>2. CountTo(a, k) = CountTo(a, k - 1)
  BY <1>1, CountHunk
<1>3. k - 1 \in 0..Len(a)
  BY LenProperties
<1>4. ASSUME NEW sides, SidesFor(sides, CountTo(a, Len(a)))
      PROVE  Cat(Taken(hs, sides, Len(hs)), Cat(l, x)) = Taken(a, sides, k)
  <2> DEFINE u == Taken(hs, sides, Len(hs))
             v == Taken(a, sides, k - 1)
  <2>1. Cat(u, l) = v
    BY <1>4 DEF Joined
  <2>2. Taken(a, sides, k) = Cat(v, x)
    BY <1>1, <1>4, TakenLines
  <2>3. u \in Lines
    <3>1. SidesFor(sides, CountTo(hs, Len(hs)))
      BY <1>3, <1>4, SidesForFewer DEF Joined
    <3>2. Len(hs) \in 0..Len(hs)
      BY LenProperties
    <3>3. QED  BY <3>1, <3>2, TakenLines
  <2> HIDE DEF u, v
  <2>4. Cat(u, Cat(l, x)) = Cat(Cat(u, l), x)
    BY <2>3, CatTwice DEF Lines
  <2>5. QED  BY <2>1, <2>2, <2>4 DEF u
<1>5. QED  BY <1>2, <1>4 DEF Joined

LEMMA JoinHunk ==
    ASSUME NEW a \in Seq(Hunk), NEW k \in 0..Len(a), NEW j \in 0..Len(a),
           NEW hs \in Seq(Hunk), NEW h \in Hunk, NEW g, g = Add(hs, h),
           CountTo(hs, Len(hs)) = CountTo(a, k),
           CountTo(a, j) = IF h.type = "Conflict" THEN CountTo(a, k) + 1 ELSE CountTo(a, k),
           \A sides : SidesFor(sides, CountTo(a, Len(a))) =>
              Cat(Taken(hs, sides, Len(hs)), HunkLines(h, sides[CountTo(a, j)])) = Taken(a, sides, j)
    PROVE  g \in Seq(Hunk) /\ Joined(a, j, g, <<>>)
<1> DEFINE n == Len(hs)
<1>0. n = Len(hs) /\ g = Add(hs, h) /\ hs \in Seq(Hunk) /\ h \in Hunk
  OBVIOUS
<1> HIDE DEF n
<1>1. /\ g \in Seq(Hunk) /\ Len(g) = n + 1 /\ n \in Nat
      /\ CountTo(g, n + 1) = IF h.type = "Conflict" THEN CountTo(hs, n) + 1 ELSE CountTo(hs, n)
      /\ \A sides : SidesFor(sides, CountTo(g, n + 1)) =>
            Taken(g, sides, n + 1) = Cat(Taken(hs, sides, n), HunkLines(h, sides[CountTo(g, n + 1)]))
  <2>1. Behind(hs, n, h, g)
    BY ONLY <1>0, AddHunk
  <2>2. QED  BY <2>1 DEF Behind
<1>2. CountTo(g, n + 1) = CountTo(a, j)
  BY <1>0, <1>1
<1>3. ASSUME NEW sides, SidesFor(sides, CountTo(a, Len(a)))
      PROVE  Cat(Taken(g, sides, n + 1), <<>>) = Taken(a, sides, j)
  <2>1. SidesFor(sides, CountTo(g, n + 1))
    BY <1>2, <1>3, SidesForFewer
  <2>2. Taken(g, sides, n + 1) = Taken(a, sides, j)
    BY <1>0, <1>1, <1>2, <1>3, <2>1
  <2>3. Taken(a, sides, j) \in Lines
    BY <1>3, TakenLines
  <2>4. QED  BY <2>2, <2>3, CatLines DEF Lines
<1>4. QED  BY <1>1, <1>2, <1>3 DEF Joined

LEMMA JoinWith ==
    ASSUME NEW a \in Seq(Hunk), NEW k \in 0..Len(a), NEW hs \in Seq(Hunk), NEW l \in Lines,
           Joined(a, k, hs, l)
    PROVE  With(hs, l) \in Seq(Hunk) /\ Joined(a, k, With(hs, l), <<>>)
<1>1. CASE l = <<>>
  BY <1>1 DEF With
<1>2. CASE l # <<>>
  <2> DEFINE h == NormalOf(l)
             g == Add(hs, h)
  <2>1. h \in Hunk /\ h.type # "Conflict" /\ \A side : HunkLines(h, side) = l
    BY HunkOfLines DEF NormalOf, HunkLines
  <2> HIDE DEF h
  <2>2. g \in Seq(Hunk) /\ Joined(a, k, g, <<>>)
    <3>1. \A sides : SidesFor(sides, CountTo(a, Len(a))) =>
              Cat(Taken(hs, sides, Len(hs)), HunkLines(h, sides[CountTo(a, k)])) = Taken(a, sides, k)
      BY <2>1 DEF Joined
    <3>2. CountTo(hs, Len(hs)) = CountTo(a, k)
      BY DEF Joined
    <3> HIDE DEF g
    <3>3. g = Add(hs, h)
      BY DEF g
    <3>4. QED  BY <2>1, <3>1, <3>2, <3>3, JoinHunk
  <2>3. With(hs, l) = g
    BY <1>2 DEF With, h
  <2>4. QED  BY <2>2, <2>3
<1>3. QED  BY <1>1, <1>2

LEMMA JoinConflict ==
    ASSUME NEW a \in Seq(Hunk), NEW k \in 1..Len(a), a[k].type = "Conflict",
           NEW hs \in Seq(Hunk), Joined(a, k - 1, hs, <<>>), NEW g, g = Add(hs, a[k])
    PROVE  g \in Seq(Hunk) /\ Joined(a, k, g, <<>>)
<1> DEFINE h == a[k]
           j == k - 1
<1>1. h \in Hunk /\ j \in 0..Len(a) /\ k \in 0..Len(a)
  BY LenProperties, ElementOfSeq
<1>2. CountTo(a, k) = CountTo(a, j) + 1
  BY CountHunk
<1>3. CountTo(hs, Len(hs)) = CountTo(a, j)
  BY DEF Joined
<1>4. ASSUME NEW sides, SidesFor(sides, CountTo(a, Len(a)))
      PROVE  Cat(Taken(hs, sides, Len(hs)), HunkLines(h, sides[CountTo(a, k)])) = Taken(a, sides, k)
  <2>1. Taken(a, sides, k) = Cat(Taken(a, sides, j), HunkLines(h, sides[CountTo(a, k)]))
    BY <1>4, TakenLines
  <2>2. Cat(Taken(hs, sides, Len(hs)), <<>>) = Taken(a, sides, j)
    BY <1>4 DEF Joined
  <2>3. Taken(hs, sides, Len(hs)) \in Lines
    <3>1. SidesFor(sides, CountTo(hs, Len(hs)))
      BY <1>1, <1>3, <1>4, SidesForFewer
    <3>2. Len(hs) \in 0..Len(hs)
      BY LenProperties
    <3>3. QED  BY <3>1, <3>2, TakenLines
  <2>4. Cat(Taken(hs, sides, Len(hs)), <<>>) = Taken(hs, sides, Len(hs))
    BY <2>3, CatLines DEF Lines
  <2>5. QED  BY <2>1, <2>2, <2>4
<1>5. h.type = "Conflict" /\ g = Add(hs, h)
  OBVIOUS
<1> HIDE DEF h, j
<1>6. QED  BY <1>1, <1>2, <1>3, <1>4, <1>5, JoinHunk

----------------------------------------------------------------------------
(* The form of the hunks that the parser makes                             *)

\* Hunks have lines, and of two hunks next to each other one is a conflict.
HunkOK(h) ==
    \/ h = NormalOf(h.normal) /\ h.normal # <<>>
    \/ h = ConflictOfSides(h.ours, h.theirs) /\ (h.ours # <<>> \/ h.theirs # <<>>)
Canonical(hs) ==
    /\ \A k \in 1..Len(hs) : HunkOK(hs[k])
    /\ \A k \in 2..Len(hs) : hs[k].type = "Normal" => hs[k - 1].type = "Conflict"

\* Lines that are not in a conflict may follow.
Closed(hs) == Canonical(hs) /\ (Len(hs) # 0 => hs[Len(hs)].type = "Conflict")

LEMMA HunkIsOK ==
    ASSUME NEW o \in Lines, NEW t \in Lines
    PROVE  /\ o # <<>> => HunkOK(NormalOf(o))
           /\ o # <<>> \/ t # <<>> => HunkOK(ConflictOfSides(o, t))
           /\ NormalOf(o).type = "Normal" /\ ConflictOfSides(o, t).type = "Conflict"
           /\ NormalOf(o) \in Hunk /\ ConflictOfSides(o, t) \in Hunk
<1>1. NormalOf(o) \in Hunk /\ ConflictOfSides(o, t) \in Hunk
  BY HunkOfLines
<1>2. NormalOf(o).normal = o /\ NormalOf(o).type = "Normal"
  BY DEF NormalOf
<1>3. /\ ConflictOfSides(o, t).ours = o /\ ConflictOfSides(o, t).theirs = t
      /\ ConflictOfSides(o, t).type = "Conflict"
  BY DEF ConflictOfSides
<1>4. QED  BY <1>1, <1>2, <1>3 DEF HunkOK

\* One more hunk.
LEMMA OneMore ==
    ASSUME NEW hs \in Seq(Hunk), NEW h \in Hunk, NEW n, n = Len(hs), NEW g, g = Add(hs, h)
    PROVE  /\ g \in Seq(Hunk) /\ Len(g) = n + 1 /\ n \in Nat /\ g[n + 1] = h
           /\ \A i \in 1..n : g[i] = hs[i]
<1>1. PICK T : T = Hunk
  OBVIOUS
<1>2. hs \in Seq(T) /\ h \in T
  BY <1>1
<1>3. /\ Add(hs, h) \in Seq(T) /\ Len(Add(hs, h)) = Len(hs) + 1 /\ Add(hs, h)[Len(hs) + 1] = h
      /\ \A i \in 1..Len(hs) : Add(hs, h)[i] = hs[i]
  BY ONLY <1>2, AddLine
<1>4. Len(hs) \in Nat
  BY LenProperties
<1>5. QED  BY <1>1, <1>3, <1>4

LEMMA CanonicalNext ==
    ASSUME NEW hs \in Seq(Hunk), Canonical(hs), NEW h \in Hunk, HunkOK(h),
           h.type = "Normal" => Closed(hs), NEW g, g = Add(hs, h)
    PROVE  g \in Seq(Hunk) /\ Canonical(g) /\ (h.type = "Conflict" => Closed(g))
<1> DEFINE n == Len(hs)
<1>1. /\ g \in Seq(Hunk) /\ Len(g) = n + 1 /\ n \in Nat /\ g[n + 1] = h
      /\ \A i \in 1..n : g[i] = hs[i]
  BY OneMore
<1>2. ASSUME NEW k \in 1..(n + 1) PROVE HunkOK(g[k])
  <2>1. CASE k = n + 1
    BY <1>1, <2>1
  <2>2. CASE k # n + 1
    <3>1. k \in 1..n
      BY <1>1, <2>2
    <3>2. QED  BY <1>1, <3>1 DEF Canonical
  <2>3. QED  BY <2>1, <2>2
<1>3. ASSUME NEW k \in 2..(n + 1), g[k].type = "Normal" PROVE g[k - 1].type = "Conflict"
  <2>1. CASE k = n + 1
    <3>1. k - 1 = n /\ n \in 1..n /\ n # 0
      BY <1>1, <2>1
    <3>2. Closed(hs)
      BY <1>1, <1>3, <2>1
    <3>3. QED  BY <1>1, <3>1, <3>2 DEF Closed
  <2>2. CASE k # n + 1
    <3>1. k \in 2..n /\ k \in 1..n /\ k - 1 \in 1..n
      BY <1>1, <2>2
    <3>2. QED  BY <1>1, <1>3, <3>1 DEF Canonical
  <2>3. QED  BY <2>1, <2>2
<1>4. Canonical(g)
  BY <1>1, <1>2, <1>3 DEF Canonical
<1>5. QED  BY <1>1, <1>4 DEF Closed

LEMMA CanonicalWith ==
    ASSUME NEW hs \in Seq(Hunk), Closed(hs), NEW l \in Lines
    PROVE  With(hs, l) \in Seq(Hunk) /\ Canonical(With(hs, l))
<1>1. CASE l = <<>>
  BY <1>1 DEF With, Closed
<1>2. CASE l # <<>>
  <2> DEFINE g == Add(hs, NormalOf(l))
  <2>1. g = Add(hs, NormalOf(l)) /\ With(hs, l) = g
    BY <1>2 DEF With
  <2>2. HunkOK(NormalOf(l)) /\ NormalOf(l) \in Hunk
    BY <1>2, HunkIsOK
  <2>3. Canonical(hs)
    BY DEF Closed
  <2> HIDE DEF g
  <2>4. g \in Seq(Hunk) /\ Canonical(g)
    BY <2>1, <2>2, <2>3, CanonicalNext
  <2>5. QED  BY <2>1, <2>4
<1>3. QED  BY <1>1, <1>2

LEMMA CanonicalConflict ==
    ASSUME NEW hs \in Seq(Hunk), Canonical(hs), NEW o \in Lines, NEW t \in Lines,
           o # <<>> \/ t # <<>>, NEW g, g = Add(hs, ConflictOfSides(o, t))
    PROVE  Closed(g)
<1> DEFINE h == ConflictOfSides(o, t)
<1>1. h \in Hunk /\ HunkOK(h) /\ h.type = "Conflict" /\ g = Add(hs, h)
  BY HunkIsOK
<1> HIDE DEF h
<1>2. QED  BY <1>1, CanonicalNext

----------------------------------------------------------------------------
(* A merged text                                                           *)

\* The segments of a merge, as the hunks that show them.
AsHunk(x) == IF x.ours = x.theirs THEN NormalOf(x.ours) ELSE ConflictOfSides(x.ours, x.theirs)
AsHunks(s) == [i \in DOMAIN s |-> AsHunk(s[i])]

\* The segment has no line that is taken for a marker.
PlainSegment(x) ==
    IF x.ours = x.theirs THEN NoLine(x.ours, Tagged.start)
    ELSE NoLine(x.ours, Tagged.separator) /\ NoLine(x.theirs, Tagged.end)

\* The parser p is behind the first k of the hunks a.
After(a, k, p) ==
    \E l \in Lines, hs \in Seq(Hunk) :
        p = Reading("Normal", <<>>, l, hs) /\ Joined(a, k, hs, l) /\ Closed(hs)

LEMMA AsHunksAre ==
    ASSUME NEW s \in Seq(Segment), NEW a, a = AsHunks(s), NEW n, n = Len(s)
    PROVE  /\ a \in Seq(Hunk) /\ Len(a) = n /\ n \in Nat /\ DOMAIN s = 1..n
           /\ \A k \in 1..n : s[k] \in Segment /\ a[k] = AsHunk(s[k])
           /\ \A k \in 0..n : Differing(s, k) = CountTo(a, k)
<1>1. n \in Nat /\ DOMAIN s = 1..n /\ \A k \in 1..n : s[k] \in Segment
  BY LenProperties, ElementOfSeq
<1>2. ASSUME NEW x \in Segment PROVE AsHunk(x) \in Hunk /\ (AsHunk(x).type = "Conflict" <=> x.ours # x.theirs)
  <2>1. x.ours \in Lines /\ x.theirs \in Lines
    BY DEF Segment
  <2>2. NormalOf(x.ours) \in Hunk /\ ConflictOfSides(x.ours, x.theirs) \in Hunk
    BY <2>1, HunkOfLines
  <2>3. NormalOf(x.ours).type = "Normal" /\ ConflictOfSides(x.ours, x.theirs).type = "Conflict"
    BY DEF NormalOf, ConflictOfSides
  <2>4. QED  BY <2>2, <2>3 DEF AsHunk
<1>3. a = [k \in 1..n |-> AsHunk(s[k])]
  BY <1>1 DEF AsHunks
<1>4. a \in Seq(Hunk) /\ Len(a) = n /\ \A k \in 1..n : a[k] = AsHunk(s[k])
  BY <1>1, <1>2, <1>3
<1>5. ASSUME NEW k \in 0..n PROVE Differing(s, k) = CountTo(a, k)
  <2>1. \A i \in 1..k : i \in 1..n
    BY <1>1
  <2>2. {i \in 1..k : s[i].ours # s[i].theirs} = {i \in 1..k : a[i].type = "Conflict"}
    BY <1>1, <1>2, <1>4, <2>1
  <2>3. QED  BY <2>2 DEF Differing, CountTo
<1>6. QED  BY <1>1, <1>4, <1>5

LEMMA SegmentIsRead ==
    ASSUME NEW a \in Seq(Hunk), NEW k \in 1..Len(a), NEW x \in Segment, PlainSegment(x),
           a[k] = AsHunk(x), NEW p, After(a, k - 1, p), NEW q, Parses(Tagged, p, SegmentText(x), q)
    PROVE  After(a, k, q)
<1> DEFINE o == x.ours
           t == x.theirs
<1>1. o \in Lines /\ t \in Lines /\ <<>> \in Lines
  BY EmptySeq DEF Segment, Lines
<1>2. PICK l \in Lines, hs \in Seq(Hunk) :
          p = Reading("Normal", <<>>, l, hs) /\ Joined(a, k - 1, hs, l) /\ Closed(hs)
  BY DEF After
<1>3. k - 1 \in 0..Len(a) /\ k \in 0..Len(a)
  BY LenProperties
<1>4. CASE o = t
  <2>1. NoLine(o, Awaits(Tagged, "Normal")) /\ "Normal" \in ParserStates
    BY <1>4 DEF PlainSegment, Awaits, ParserStates
  <2>2. Parses(Tagged, Reading("Normal", <<>>, l, hs), o, q)
    BY <1>2, <1>4 DEF SegmentText
  <2> HIDE DEF o
  <2>3. q = Reading("Normal", <<>>, Cat(l, o), hs)
    BY <1>1, <2>1, <2>2, LinesAreRead
  <2>4. a[k] = NormalOf(o)
    BY <1>4 DEF AsHunk, o
  <2>5. Joined(a, k, hs, Cat(l, o))
    BY <1>1, <1>2, <2>4, JoinNormal
  <2>6. Cat(l, o) \in Lines
    BY <1>1, CatLines DEF Lines
  <2>7. QED  BY <1>2, <2>3, <2>5, <2>6 DEF After
<1>5. CASE o # t
  <2> DEFINE H == With(hs, l)
             h == ConflictOfSides(o, t)
             G == Add(H, h)
  <2>1. NoLine(o, Tagged.separator) /\ NoLine(t, Tagged.end) /\ (o # <<>> \/ t # <<>>)
    BY <1>5 DEF PlainSegment
  <2>2. Parses(Tagged, Reading("Normal", <<>>, l, hs), Marked(Tagged, o, t), q)
    <3>1. SegmentText(x) = Marked(Tagged, o, t)
      BY <1>5 DEF SegmentText, Marked, Cat
    <3>2. QED  BY <1>2, <3>1
  <2>3. q = Reading("Normal", <<>>, <<>>, Add(With(hs, l), ConflictOfSides(o, t)))
    <3> HIDE DEF o, t
    <3>1. \A m \in {Bare, Tagged} : m = Tagged =>
              q = Reading("Normal", <<>>, <<>>, Add(With(hs, l), ConflictOfSides(o, t)))
      BY <1>1, <2>1, <2>2, MarkedIsRead
    <3>2. QED  BY <3>1
  <2>4. H \in Seq(Hunk) /\ Joined(a, k - 1, H, <<>>)
    BY <1>2, <1>3, JoinWith
  <2>5. a[k] = h
    BY <1>5 DEF AsHunk
  <2>6. a[k].type = "Conflict"
    BY <2>5 DEF ConflictOfSides
  <2>7. Closed(G)
    <3>1. Canonical(H) /\ G = Add(H, ConflictOfSides(o, t))
      BY <1>2, CanonicalWith
    <3> HIDE DEF H, G, o, t
    <3>2. QED  BY <1>1, <2>1, <2>4, <3>1, CanonicalConflict
  <2> HIDE DEF H, h, G
  <2>8. G = Add(H, a[k])
    BY <2>5 DEF G
  <2>9. G \in Seq(Hunk) /\ Joined(a, k, G, <<>>)
    BY <2>4, <2>6, <2>8, JoinConflict
  <2>10. q = Reading("Normal", <<>>, <<>>, G)
    BY <2>3 DEF G, H, h
  <2>11. QED  BY <1>1, <2>9, <2>10, <2>7 DEF After
<1>6. QED  BY <1>4, <1>5

LEMMA SegmentLines ==
    ASSUME NEW x \in Segment
    PROVE  SegmentText(x) \in Lines
<1>1. x.ours \in Lines /\ x.theirs \in Lines
  BY DEF Segment
<1>2. CASE x.ours = x.theirs
  BY <1>1, <1>2 DEF SegmentText
<1>3. CASE x.ours # x.theirs
  <2>1. SegmentText(x) = Marked(Tagged, x.ours, x.theirs)
    BY <1>3 DEF SegmentText, Marked, Cat
  <2>2. \A o, t \in Lines : Marked(Tagged, o, t) \in Lines
    <3>1. \A m \in {Bare, Tagged} : \A o, t \in Lines : Marked(m, o, t) \in Lines
      BY MarkedLines
    <3>2. QED  BY <3>1
  <2>3. QED  BY <1>1, <2>1, <2>2
<1>4. QED  BY <1>2, <1>3

LEMMA MergeTextIs ==
    ASSUME NEW s \in Seq(Segment), NEW n, n = Len(s), NEW tt, tt = [i \in DOMAIN s |-> SegmentText(s[i])]
    PROVE  /\ MergeText(s) = Flat(tt, n) /\ Flat(tt, 0) = <<>>
           /\ \A k \in 0..n : Flat(tt, k) \in Lines
           /\ \A k \in 1..n : /\ SegmentText(s[k]) \in Lines
                              /\ Flat(tt, k) = Cat(Flat(tt, k - 1), SegmentText(s[k]))
<1>1. n \in Nat /\ DOMAIN s = 1..n /\ \A k \in 1..n : s[k] \in Segment
  BY LenProperties, ElementOfSeq
<1>2. \A k \in 1..n : SegmentText(s[k]) \in Lines /\ tt[k] = SegmentText(s[k])
  BY <1>1, SegmentLines
<1>3. tt \in Seq(Lines) /\ Len(tt) = n
  <2>1. tt = [i \in 1..n |-> tt[i]]
    BY <1>1
  <2>2. QED  BY ONLY <1>1, <1>2, <2>1
<1>4. MergeText(s) = FlattenSeq(tt)
  BY DEF MergeText
<1>5. /\ FlattenSeq(tt) = Flat(tt, n) /\ Flat(tt, 0) = <<>>
      /\ \A k \in 0..n : Flat(tt, k) \in Lines
      /\ \A k \in 1..n : Flat(tt, k) = Cat(Flat(tt, k - 1), tt[k])
  <2>1. tt \in Seq(Seq(STRING)) /\ Len(tt) = n
    BY <1>3 DEF Lines
  <2>2. QED  BY ONLY <2>1, FlattenFirst DEF Lines
<1>6. QED  BY ONLY <1>2, <1>4, <1>5

\* A merged text leaves the parser behind all segments.
LEMMA MergeIsRead ==
    ASSUME NEW s \in Seq(Segment), \A i \in DOMAIN s : PlainSegment(s[i]), NEW a, a = AsHunks(s),
           NEW q, Parses(Tagged, Begin, MergeText(s), q)
    PROVE  After(a, Len(a), q)
<1> DEFINE n == Len(s)
           tt == [i \in DOMAIN s |-> SegmentText(s[i])]
           T == {k \in 0..n : \A p : Parses(Tagged, Begin, Flat(tt, k), p) => After(a, k, p)}
<1>1. /\ a \in Seq(Hunk) /\ Len(a) = n /\ n \in Nat /\ DOMAIN s = 1..n
      /\ \A k \in 1..n : s[k] \in Segment /\ a[k] = AsHunk(s[k])
  BY AsHunksAre
<1>2. /\ MergeText(s) = Flat(tt, n) /\ Flat(tt, 0) = <<>>
      /\ \A k \in 0..n : Flat(tt, k) \in Lines
      /\ \A k \in 1..n : /\ SegmentText(s[k]) \in Lines
                         /\ Flat(tt, k) = Cat(Flat(tt, k - 1), SegmentText(s[k]))
  BY MergeTextIs
<1> HIDE DEF tt
<1>3. 0 \in T
  <2>1. ASSUME NEW p, Parses(Tagged, Begin, Flat(tt, 0), p) PROVE After(a, 0, p)
    <3>1. p = Begin
      BY <1>2, <2>1, ParsesNothing
    <3>2. <<>> \in Lines /\ <<>> \in Seq(Hunk)
      BY EmptySeq DEF Lines
    <3>3. Begin = Reading("Normal", <<>>, <<>>, <<>>)
      BY <3>2, HunkOfLines DEF Begin, Reading, At
    <3>4. Joined(a, 0, <<>>, <<>>)
      BY <1>1, JoinNothing
    <3>5. Closed(<<>>)
      <4>1. \A x : Len(x) = 0 => Closed(x)
        BY DEF Closed, Canonical
      <4>2. QED  BY <4>1
    <3>6. QED  BY <3>1, <3>2, <3>3, <3>4, <3>5 DEF After
  <2>2. QED  BY <1>1, <2>1
<1>4. ASSUME NEW k \in 0..n, k < n, k \in T PROVE k + 1 \in T
  <2> DEFINE j == k + 1
  <2>1. j \in 1..n /\ j - 1 = k /\ j \in 0..n
    BY <1>1, <1>4
  <2> HIDE DEF j, n
  <2>2. ASSUME NEW p, Parses(Tagged, Begin, Flat(tt, j), p) PROVE After(a, j, p)
    <3> DEFINE t == SegmentText(s[j])
    <3>1. Flat(tt, j) = Cat(Flat(tt, k), t) /\ t \in Lines /\ Flat(tt, k) \in Lines
      BY <1>2, <2>1
    <3>2. PICK r : Parses(Tagged, Begin, Flat(tt, k), r) /\ Parses(Tagged, r, t, p)
      <4> HIDE DEF t
      <4>1. QED  BY <2>2, <3>1, ParsesBoth
    <3>3. After(a, j - 1, r)
      BY <1>4, <2>1, <3>2
    <3>4. s[j] \in Segment /\ PlainSegment(s[j]) /\ a[j] = AsHunk(s[j]) /\ j \in 1..Len(a)
      BY <1>1, <2>1
    <3>5. QED  BY <1>1, <3>2, <3>3, <3>4, SegmentIsRead
  <2>3. QED  BY <2>1, <2>2 DEF j
<1>5. 0..n \subseteq T
  <2> HIDE DEF T, n
  <2>1. QED  BY <1>1, <1>3, <1>4, UpTo
<1>6. n \in T
  BY <1>1, <1>5
<1>7. QED  BY <1>1, <1>2, <1>6

\* The hunks of any text; and of a merged text: what is taken of them is taken of the segments.
LEMMA HunksType ==
    ASSUME NEW m, NEW t \in Lines
    PROVE  HunksFromConflictString(m, t) \in Seq(Hunk)
<1>1. PICK q : /\ Parses(m, Begin, t, q)
               /\ HunksFromConflictString(m, t) = Turn(q, "Normal", "Normal").hunks
  BY Parsed
<1>2. q \in Parser
  <2>1. Len(t) \in 0..Len(t)
    BY LenProperties DEF Lines
  <2>2. QED  BY <1>1, <2>1 DEF Parses
<1>3. Turn(q, "Normal", "Normal") \in Parser
  BY <1>2, TurnType DEF HunkTypes
<1>4. QED  BY <1>1, <1>3 DEF Parser

LEMMA MergedHunks ==
    ASSUME NEW s \in Seq(Segment), \A i \in DOMAIN s : PlainSegment(s[i]), NEW a, a = AsHunks(s),
           NEW hunks, hunks = HunksFromConflictString(Tagged, MergeText(s))
    PROVE  hunks \in Seq(Hunk) /\ Joined(a, Len(a), hunks, <<>>) /\ Canonical(hunks)
<1> DEFINE t == MergeText(s)
<1>1. t \in Lines
  <2> DEFINE tt == [i \in DOMAIN s |-> SegmentText(s[i])]
             n == Len(s)
  <2>1. t = Flat(tt, n) /\ \A k \in 0..n : Flat(tt, k) \in Lines
    BY MergeTextIs
  <2>2. n \in 0..n
    BY LenProperties
  <2> HIDE DEF tt, n
  <2>3. QED  BY <2>1, <2>2
<1>2. PICK q : Parses(Tagged, Begin, t, q) /\ hunks = Turn(q, "Normal", "Normal").hunks
  <2> HIDE DEF t
  <2>1. hunks = HunksFromConflictString(Tagged, t)
    BY DEF t
  <2>2. QED  BY <1>1, <2>1, Parsed
<1>3. After(a, Len(a), q)
  BY <1>2, MergeIsRead
<1>4. PICK l \in Lines, hs \in Seq(Hunk) :
          q = Reading("Normal", <<>>, l, hs) /\ Joined(a, Len(a), hs, l) /\ Closed(hs)
  BY <1>3 DEF After
<1>5. hunks = With(hs, l)
  <2>1. q = At("Normal", NormalOf(l), hs)
    BY <1>4 DEF Reading
  <2>2. HunkIsEmpty(NormalOf(l)) <=> l = <<>>
    BY HunkOfLines, EmptySeq DEF Lines
  <2>3. QED  BY <1>2, <2>1, <2>2 DEF Turn, At, With, Add
<1>6. a \in Seq(Hunk) /\ Len(a) \in 0..Len(a)
  BY AsHunksAre
<1>7. With(hs, l) \in Seq(Hunk) /\ Joined(a, Len(a), With(hs, l), <<>>)
  BY <1>4, <1>6, JoinWith
<1>8. Canonical(With(hs, l))
  BY <1>4, CanonicalWith
<1>9. QED  BY <1>5, <1>7, <1>8

----------------------------------------------------------------------------
(* The conflicts of a merge                                                *)

LEMMA MergeType ==
    ASSUME TypeOK, NEW i \in DOMAIN merges
    PROVE  /\ merges[i] \in Merge /\ merges[i].segments \in Seq(Segment)
           /\ Supported(merges[i]) => Merged(merges[i])
<1>1. merges \in Merges /\ merges \in Seq(Merge)
  BY ConflictsAssumption DEF TypeOK
<1>2. merges[i] \in Merge
  BY <1>1, LenProperties, ElementOfSeq
<1>3. QED  BY <1>1, <1>2, ConflictsAssumption DEF Merge

LEMMA AsConflictIs ==
    ASSUME NEW x \in Segment
    PROVE  AsConflict(x) = ConflictOfSides(x.ours, x.theirs) /\ AsConflict(x) \in Hunk
<1>1. AsConflict(x) = ConflictOfSides(x.ours, x.theirs)
  <2> DEFINE h == [EmptyHunk("Conflict") EXCEPT !.ours = x.ours]
  <2>1. h = [type |-> "Conflict", normal |-> <<>>, ours |-> x.ours, theirs |-> <<>>]
    BY DEF EmptyHunk
  <2>2. AsConflict(x) = [h EXCEPT !.theirs = x.theirs]
    BY DEF AsConflict
  <2> HIDE DEF h
  <2>3. QED  BY <2>1, <2>2 DEF ConflictOfSides
<1>2. x.ours \in Lines /\ x.theirs \in Lines
  BY DEF Segment
<1>3. QED  BY <1>1, <1>2, HunkOfLines

LEMMA ConflictOfType ==
    ASSUME TypeOK, NEW i \in DOMAIN merges, Supported(merges[i])
    PROVE  ConflictOf(merges[i]) \in Conflict
<1> DEFINE s == merges[i].segments
<1>1. s \in Seq(Segment) /\ Merged(merges[i])
  BY MergeType
<1>2. CASE merges[i].ours = "file" /\ merges[i].theirs = "file"
  <2>1. MergeText(s) \in Lines
    <3> DEFINE tt == [k \in DOMAIN s |-> SegmentText(s[k])]
               n == Len(s)
    <3>1. MergeText(s) = Flat(tt, n) /\ \A k \in 0..n : Flat(tt, k) \in Lines
      BY <1>1, MergeTextIs
    <3>2. n \in 0..n
      BY <1>1, LenProperties
    <3> HIDE DEF tt, n
    <3>3. QED  BY <3>1, <3>2
  <2>2. HunksFromConflictString(Tagged, MergeText(s)) \in Seq(Hunk)
    BY <2>1, HunksType
  <2>3. QED  BY <1>2, <2>2 DEF ConflictOf, Conflict
<1>3. CASE ~(merges[i].ours = "file" /\ merges[i].theirs = "file")
  <2>1. Len(s) = 1
    BY <1>1, <1>3 DEF Merged
  <2>2. s[1] \in Segment
    BY <1>1, <2>1, LenProperties, ElementOfSeq
  <2>3. <<AsConflict(s[1])>> \in Seq(Hunk)
    BY <2>2, AsConflictIs, OneLine, Zenon
  <2>4. QED  BY <1>3, <2>3 DEF ConflictOf, Conflict
<1>4. QED  BY <1>2, <1>3

----------------------------------------------------------------------------
(* Initial states and steps                                                *)

\* What the loops are at, when they are inside.
LEMMA CurrentIsConflict ==
    ASSUME TypeOK, file \in DOMAIN conflicts
    PROVE  /\ Current \in Conflict /\ Len(Current.hunks) \in Nat
           /\ DOMAIN conflicts = 1..Len(conflicts) /\ Len(conflicts) \in Nat
<1>1. DOMAIN conflicts = 1..Len(conflicts) /\ Len(conflicts) \in Nat /\ Current \in Conflict
  BY LenProperties, ElementOfSeq DEF TypeOK, Current
<1>2. QED  BY <1>1, LenProperties DEF Conflict

\* The conflict that the loops are at, in the next state.
LEMMA CurrentNext ==
    ASSUME TypeOK', LoopsInside', phase' = "next"
    PROVE  Current' \in Conflict
<1>1. conflicts' \in Seq(Conflict) /\ file' \in DOMAIN conflicts'
  BY DEF TypeOK, LoopsInside
<1>2. conflicts'[file'] \in Conflict
  <2>1. \A s \in Seq(Conflict) : \A i \in DOMAIN s : s[i] \in Conflict
    BY LenProperties, ElementOfSeq
  <2>2. QED  BY <1>1, <2>1
<1>3. QED  BY <1>2 DEF Current

LEMMA InitOK == ASSUME Init PROVE ConflictsInv
<1> USE DEF Init
<1>1. TypeOK
  <2>1. <<>> \in Seq(Conflict)
    BY EmptySeq
  <2>2. QED  BY <2>1 DEF TypeOK
<1>2. QED
  BY <1>1 DEF ConflictsInv, LoopsInside, ResolvedInOrder, AllResolved, TitleCounts, Waiting

LEMMA GetOK == ASSUME ConflictsInv, Get PROVE ConflictsInv'
<1> USE DEF ConflictsInv
<1>1. merges \in Seq(Merge) \ {<<>>}
  BY ConflictsAssumption DEF TypeOK
<1>2. Len(merges) \in Nat \ {0} /\ DOMAIN merges = 1..Len(merges)
  BY <1>1, LenProperties, EmptySeq
<1>3. UNCHANGED <<input, index, file, hunk, counted, asked>> /\ phase = "get"
      /\ file = 1 /\ hunk = 1 /\ counted = 0 /\ asked = 0
  BY DEF Get, LoopsInside
<1>4. CASE phase' = "next"
  <2>1. conflicts' = [i \in DOMAIN merges |-> ConflictOf(merges[i])]
        /\ \A i \in DOMAIN merges : ConflictOf(merges[i]) \in Conflict
    <3>1. /\ conflicts' = [i \in DOMAIN merges |-> ConflictOf(merges[i])]
          /\ \A i \in DOMAIN merges : Supported(merges[i])
      BY <1>4 DEF Get
    <3>2. QED  BY <3>1, ConflictOfType
  <2>2. conflicts' \in Seq(Conflict) /\ Len(conflicts') = Len(merges)
        /\ DOMAIN conflicts' = DOMAIN merges
    BY <2>1, <1>2
  <2>3. TypeOK'
    BY <2>2, <1>3, <1>4 DEF TypeOK, input
  <2>4. Current' \in Conflict /\ Len(Current'.hunks) \in Nat
    <3>1. Current' \in Conflict
      BY <2>1, <2>2, <1>2, <1>3 DEF Current
    <3>2. QED  BY <3>1, LenProperties DEF Conflict
  <2>5. LoopsInside'
    BY <2>2, <2>4, <1>2, <1>3, <1>4 DEF LoopsInside, Waiting, input
  <2>6. ResolvedInOrder'
    <3>1. \A i \in DOMAIN merges : index[i].state = "conflict" /\ i >= 1
      BY <1>2, <1>3 DEF LoopsInside, TypeOK
    <3>2. QED  BY <3>1, <2>2, <1>3, <1>4 DEF ResolvedInOrder
  <2>7. TitleCounts'
    <3>1. FilesBefore' = {}
      BY <1>3 DEF FilesBefore
    <3>2. Cardinality(ConflictsBefore(Current', 1)) = 0
      BY CountIsFinite
    <3>3. QED  BY <3>1, <3>2, <1>3, FS_EmptySet DEF TitleCounts
  <2>8. QED  BY <2>3, <2>5, <2>6, <2>7, <1>4 DEF AllResolved
<1>5. CASE phase' = "failed"
  <2>1. conflicts' = conflicts
    BY <1>5 DEF Get
  <2>2. QED
    BY <2>1, <1>3, <1>5 DEF TypeOK, LoopsInside, ResolvedInOrder, AllResolved, TitleCounts, Waiting,
       Ended, input
<1>6. QED  BY <1>4, <1>5 DEF Get

LEMMA TakeTheirsOK == ASSUME ConflictsInv, TakeTheirs PROVE ConflictsInv'
<1> USE DEF ConflictsInv
<1>1. /\ phase = "next" /\ phase' = "done" /\ favor = "THEIRS"
      /\ index' = [i \in DOMAIN conflicts |-> Resolved(i, Content(conflicts[i], "theirs"))]
      /\ UNCHANGED <<input, conflicts, file, hunk, counted, asked>>
  BY DEF TakeTheirs
<1>2. DOMAIN conflicts = DOMAIN merges
  BY <1>1 DEF LoopsInside
<1>3. \A i, content : Resolved(i, content).state # "conflict"
  BY DEF Resolved
<1>4. QED
  BY <1>1, <1>2, <1>3 DEF TypeOK, LoopsInside, ResolvedInOrder, AllResolved, TitleCounts, Waiting,
     Ended, input

\* A file that is resolved: the only step that goes on to the next.
LEMMA FileResolvedOK ==
    ASSUME ConflictsInv, NEW content, NEW answer, FileResolved(content, answer),
           favor = "NORMAL", file \in DOMAIN conflicts, phase \in {"next"} \cup Waiting
    PROVE  ConflictsInv'
<1> USE DEF ConflictsInv
<1>1. /\ Current \in Conflict /\ Len(Current.hunks) \in Nat
      /\ DOMAIN conflicts = 1..Len(conflicts) /\ Len(conflicts) \in Nat
      /\ file \in 1..Len(conflicts) /\ DOMAIN conflicts = DOMAIN merges /\ DOMAIN index = DOMAIN merges
  BY CurrentIsConflict DEF LoopsInside, Waiting, TypeOK
<1>2. /\ UNCHANGED <<input, conflicts>>
      /\ file' = file + 1 /\ hunk' = 1
      /\ counted' = counted + ConflictCount(Current) /\ asked' = counted'
      /\ phase' \in {"next", "done"} /\ (phase' = "next" <=> file < Len(conflicts))
      /\ index' = [index EXCEPT ![file] = Resolved(file, content)]
  BY DEF FileResolved, MoreFiles
<1>3. ConflictCount(Current) \in Nat
  BY <1>1, CountIsFinite DEF ConflictCount
<1>4. TypeOK'
  BY <1>1, <1>2, <1>3 DEF TypeOK, input, Ended
<1>5. LoopsInside'
  <2>1. phase' = "next" => file' \in DOMAIN conflicts'
    BY <1>1, <1>2
  <2>2. phase' = "next" => Len(Current'.hunks) \in Nat
    BY <1>2, <1>4, <2>1, CurrentIsConflict, LenProperties, ElementOfSeq DEF TypeOK, Current, Conflict
  <2>3. QED  BY <1>1, <1>2, <2>1, <2>2 DEF LoopsInside, Waiting, input
<1>6. ResolvedInOrder' /\ AllResolved'
  <2>1. \A i \in DOMAIN conflicts : index[i].state = "conflict" <=> i >= file
    BY DEF ResolvedInOrder, Waiting
  <2>2. index'[file].state # "conflict"
    BY <1>1, <1>2 DEF Resolved
  <2>3. \A i \in DOMAIN conflicts : index'[i].state = "conflict" <=> i >= file + 1
    BY <1>1, <1>2, <2>1, <2>2
  <2>4. QED  BY <1>1, <1>2, <2>3 DEF ResolvedInOrder, AllResolved
<1>7. TitleCounts'
  <2> DEFINE k == Len(Current.hunks) + 1
  <2>1. /\ IsFiniteSet(FilesBefore) /\ counted = Cardinality(FilesBefore) /\ counted \in Nat
    BY DEF TitleCounts, TypeOK
  <2>2. FilesBefore' = FilesBefore \cup ConflictsOf(file, k)
    <3>1. 1..(file' - 1) = 1..(file - 1) \cup {file}
      BY <1>1, <1>2
    <3>2. FilesBefore' = UNION {ConflictsOf(i, Len(conflicts[i].hunks) + 1) : i \in 1..(file' - 1)}
      BY <1>2 DEF FilesBefore, ConflictsOf
    <3>3. QED  BY <3>1, <3>2 DEF FilesBefore, Current
  <2>3. /\ IsFiniteSet(ConflictsOf(file, k))
        /\ Cardinality(ConflictsOf(file, k)) = ConflictCount(Current)
    BY <1>1, CountOfFile DEF ConflictCount, Current
  <2>4. FilesBefore \cap ConflictsOf(file, k) = {}
    BY <1>1 DEF FilesBefore, ConflictsOf
  <2>5. IsFiniteSet(FilesBefore') /\ Cardinality(FilesBefore') = counted + ConflictCount(Current)
    <3>1. Cardinality(FilesBefore \cap ConflictsOf(file, k)) = 0
      BY <2>4, FS_EmptySet
    <3>2. /\ IsFiniteSet(FilesBefore \cup ConflictsOf(file, k))
          /\ Cardinality(FilesBefore \cup ConflictsOf(file, k))
                = Cardinality(FilesBefore) + Cardinality(ConflictsOf(file, k)) - 0
      BY <2>1, <2>3, <3>1, FS_Union
    <3>3. QED  BY <2>1, <2>2, <2>3, <3>2, <1>3
  <2>6. Cardinality(ConflictsBefore(Current', 1)) = 0
    BY CountIsFinite
  <2>7. QED  BY <1>2, <1>3, <2>1, <2>5, <2>6 DEF TitleCounts
<1>8. QED  BY <1>4, <1>5, <1>6, <1>7

\* The loop over the hunks moves on by one, having shown a panel if the hunk is a conflict.
LEMMA NextHunkOK ==
    ASSUME ConflictsInv, file \in DOMAIN conflicts, hunk \in 1..Len(Current.hunks),
           phase \in {"next", "panel"}, phase' = "next", hunk' = hunk + 1,
           asked' = IF CurrentHunk.type = "Conflict" THEN asked + 1 ELSE asked,
           UNCHANGED <<input, conflicts, index, file, counted>>
    PROVE  ConflictsInv'
<1> USE DEF ConflictsInv
<1>1. Current \in Conflict /\ Len(Current.hunks) \in Nat
  BY CurrentIsConflict
<1>2. TypeOK'
  BY <1>1 DEF TypeOK, input
<1>3. Current' = Current
  BY DEF Current
<1>4. LoopsInside' /\ ResolvedInOrder' /\ AllResolved'
  BY <1>1, <1>3 DEF LoopsInside, ResolvedInOrder, AllResolved, Waiting, input
<1>5. TitleCounts'
  <2>1. FilesBefore' = FilesBefore
    BY DEF FilesBefore, ConflictsOf
  <2>2. Cardinality(ConflictsBefore(Current, hunk + 1)) =
            IF CurrentHunk.type = "Conflict" THEN Cardinality(ConflictsBefore(Current, hunk)) + 1
            ELSE Cardinality(ConflictsBefore(Current, hunk))
    BY <1>1, CountNext DEF CurrentHunk
  <2>3. /\ counted \in Nat /\ Cardinality(ConflictsBefore(Current, hunk)) \in Nat
    BY CountIsFinite DEF TypeOK
  <2>4. /\ IsFiniteSet(FilesBefore) /\ counted = Cardinality(FilesBefore)
        /\ asked = counted + Cardinality(ConflictsBefore(Current, hunk))
    BY DEF TitleCounts, Waiting
  <2>5. IsFiniteSet(FilesBefore') /\ counted' = Cardinality(FilesBefore')
    BY <2>1, <2>4
  <2>6. asked' = counted' + Cardinality(ConflictsBefore(Current', hunk'))
    BY <2>2, <2>3, <2>4, <1>3
  <2>7. QED  BY <2>5, <2>6 DEF TitleCounts
<1>6. QED  BY <1>2, <1>4, <1>5

\* The steps that only change who waits for whom.
LEMMA WaitingOK ==
    ASSUME ConflictsInv, phase \in {"next"} \cup Waiting, file \in DOMAIN conflicts,
           UNCHANGED <<input, conflicts, index, file, hunk, counted, asked>>,
           phase' \in Waiting \cup {"canceled", "failed"},
           phase' \in Waiting => /\ hunk \in DOMAIN Current.hunks
                                 /\ CurrentHunk.type = "Conflict" /\ favor = "NORMAL"
    PROVE  ConflictsInv'
<1> USE DEF ConflictsInv
<1>1. Current' = Current /\ CurrentHunk' = CurrentHunk /\ FilesBefore' = FilesBefore
  BY DEF Current, CurrentHunk, FilesBefore, ConflictsOf
<1>2. TypeOK'
  BY DEF TypeOK, Waiting, Ended, input
<1>3. QED
  BY <1>1, <1>2 DEF LoopsInside, ResolvedInOrder, AllResolved, TitleCounts, Waiting, input

LEMMA StutterOK == ASSUME ConflictsInv, UNCHANGED vars PROVE ConflictsInv'
<1>1. Current' = Current /\ CurrentHunk' = CurrentHunk /\ FilesBefore' = FilesBefore
  BY DEF Current, CurrentHunk, FilesBefore, ConflictsOf, vars
<1>2. QED
  BY <1>1 DEF ConflictsInv, TypeOK, LoopsInside, ResolvedInOrder, AllResolved, TitleCounts, vars
----------------------------------------------------------------------------
(* Every step                                                              *)

\* In the loops, and while the user is asked.
LEMMA Inside ==
    ASSUME ConflictsInv
    PROVE  /\ phase = "next" => file \in DOMAIN conflicts
           /\ phase \in Waiting => /\ file \in DOMAIN conflicts /\ hunk \in DOMAIN Current.hunks
                                   /\ CurrentHunk.type = "Conflict" /\ favor = "NORMAL"
                                   /\ hunk \in 1..Len(Current.hunks)
<1>1. phase \in Waiting => file \in DOMAIN conflicts /\ hunk \in DOMAIN Current.hunks
  BY DEF ConflictsInv, LoopsInside
<1>2. file \in DOMAIN conflicts => Current.hunks \in Seq(Hunk)
  BY CurrentIsConflict DEF ConflictsInv, Conflict
<1>3. QED  BY <1>1, <1>2, LenProperties DEF ConflictsInv, LoopsInside

LEMMA StepOK == ASSUME ConflictsInv, [Next]_vars PROVE ConflictsInv'
<1> USE Inside
<1>1. CASE Get
  BY <1>1, GetOK
<1>2. CASE TakeTheirs
  BY <1>2, TakeTheirsOK
<1>3. CASE NormalHunk
  <2>1. /\ phase = "next" /\ phase' = "next" /\ hunk' = hunk + 1 /\ CurrentHunk.type = "Normal"
        /\ hunk <= Len(Current.hunks) /\ asked' = asked
        /\ UNCHANGED <<input, conflicts, index, file, counted>>
    BY <1>3 DEF NormalHunk, Running, MoreHunks
  <2>2. file \in DOMAIN conflicts
    BY <2>1
  <2>3. hunk \in 1..Len(Current.hunks)
    BY <2>1, <2>2, CurrentIsConflict DEF ConflictsInv, TypeOK
  <2>4. QED  BY <2>1, <2>2, <2>3, NextHunkOK
<1>4. CASE Present
  <2>1. /\ phase = "next" /\ phase' = "panel" /\ CurrentHunk.type = "Conflict"
        /\ hunk <= Len(Current.hunks) /\ favor = "NORMAL"
        /\ UNCHANGED <<input, conflicts, index, file, hunk, counted, asked>>
    BY <1>4 DEF Present, Running, MoreHunks
  <2>2. hunk \in DOMAIN Current.hunks
    <3>1. Current.hunks \in Seq(Hunk) /\ Len(Current.hunks) \in Nat
      BY <2>1, CurrentIsConflict DEF ConflictsInv, Conflict
    <3>2. hunk \in 1..Len(Current.hunks)
      BY <2>1, <3>1 DEF ConflictsInv, TypeOK
    <3>3. QED  BY <3>1, <3>2, LenProperties
  <2>3. QED  BY <2>1, <2>2, WaitingOK DEF Waiting
<1>5. CASE FileEnds
  BY <1>5, FileResolvedOK DEF FileEnds, Running
<1>6. ASSUME NEW button \in Buttons, Choose(button)
      PROVE  ConflictsInv'
  <2>1. /\ phase = "panel" /\ phase' = "next" /\ hunk' = hunk + 1 /\ asked' = asked + 1
        /\ UNCHANGED <<input, conflicts, index, file, counted>>
    BY <1>6 DEF Choose, AskedAfterPanel
  <2>2. QED  BY <2>1, NextHunkOK DEF Waiting
<1>7. CASE Cancel \/ OpenEditor \/ EditorFails \/ EditAgain \/ Dismiss
  BY <1>7, WaitingOK DEF Cancel, OpenEditor, EditorFails, EditAgain, Dismiss, Waiting
<1>8. CASE EditorReturns
  <2>1. PICK t : LeaveMarkers(t) \/ LeaveBadHash(t) \/ LeaveHash(t) \/ LeaveFile(t)
    BY <1>8 DEF EditorReturns
  <2>2. phase = "editor"
    BY <1>8 DEF EditorReturns
  <2>3. CASE LeaveMarkers(t) \/ LeaveBadHash(t)
    BY <2>2, <2>3, WaitingOK DEF LeaveMarkers, LeaveBadHash, Alert, Waiting
  <2>4. CASE LeaveHash(t) \/ LeaveFile(t)
    <3>1. favor = "NORMAL"
      BY <2>2 DEF ConflictsInv, LoopsInside, Waiting
    <3>2. QED  BY <2>2, <2>4, <3>1, FileResolvedOK DEF LeaveHash, LeaveFile, Waiting
  <2>5. QED  BY <2>1, <2>3, <2>4
<1>9. CASE UNCHANGED vars
  BY <1>9, StutterOK
<1>10. QED  BY <1>1, <1>2, <1>3, <1>4, <1>5, <1>6, <1>7, <1>8, <1>9 DEF Next, User, Program

----------------------------------------------------------------------------
(* What is picked                                                          *)

LEMMA FirstHunks ==
    ASSUME NEW hs \in Seq(Hunk), NEW k \in 0..Len(hs), NEW g, g = First(hs, k)
    PROVE  /\ g \in Seq(Hunk) /\ Len(g) = k /\ k \in Nat
           /\ \A i \in 1..k : g[i] = hs[i]
           /\ \A i \in 0..k : CountTo(g, i) = CountTo(hs, i)
           /\ \A i \in 0..k : \A sides : Taken(g, sides, i) = Taken(hs, sides, i)
<1>1. g \in Seq(Hunk) /\ Len(g) = k /\ k \in Nat /\ DOMAIN g = 1..k /\ \A i \in 1..k : g[i] = hs[i]
  BY FirstLines, LenProperties
<1>2. ASSUME NEW i \in 0..k PROVE CountTo(g, i) = CountTo(hs, i)
  <2>1. \A j \in 1..i : g[j] = hs[j]
    BY <1>1
  <2>2. {j \in 1..i : g[j].type = "Conflict"} = {j \in 1..i : hs[j].type = "Conflict"}
    BY <2>1
  <2>3. QED  BY <2>2 DEF CountTo
<1>3. ASSUME NEW i \in 0..k, NEW sides PROVE Taken(g, sides, i) = Taken(hs, sides, i)
  <2>1. \A j \in 1..i : j \in DOMAIN g /\ j \in DOMAIN hs /\ j \in 0..k /\ g[j] = hs[j]
    BY <1>1, LenProperties
  <2>2. \A j \in 1..i : LinesTaken(g, sides)[j] = LinesTaken(hs, sides)[j]
    BY <1>2, <2>1 DEF LinesTaken
  <2>3. First(LinesTaken(g, sides), i) = First(LinesTaken(hs, sides), i)
    BY <2>2 DEF First
  <2>4. QED  BY <2>3 DEF Taken, Flat
<1>4. QED  BY <1>1, <1>2, <1>3

LEMMA TakenNext ==
    ASSUME NEW hs \in Seq(Hunk), NEW k \in 1..Len(hs), NEW sides, SidesFor(sides, CountTo(hs, k))
    PROVE  /\ Taken(hs, sides, k - 1) \in Lines /\ Taken(hs, sides, k) \in Lines
           /\ HunkLines(hs[k], sides[CountTo(hs, k)]) \in Lines
           /\ Taken(hs, sides, k) = Cat(Taken(hs, sides, k - 1), HunkLines(hs[k], sides[CountTo(hs, k)]))
<1> DEFINE g == First(hs, k)
<1>0. k \in 0..Len(hs) /\ k \in Nat /\ k - 1 \in 0..k /\ k \in 0..k /\ k \in 1..k
  BY LenProperties
<1>1. /\ g \in Seq(Hunk) /\ Len(g) = k /\ k \in Nat /\ g[k] = hs[k]
      /\ CountTo(g, k) = CountTo(hs, k)
      /\ Taken(g, sides, k) = Taken(hs, sides, k) /\ Taken(g, sides, k - 1) = Taken(hs, sides, k - 1)
  BY <1>0, FirstHunks
<1> HIDE DEF g
<1>2. /\ Taken(g, sides, k - 1) \in Lines /\ Taken(g, sides, k) \in Lines
      /\ HunkLines(g[k], sides[CountTo(g, k)]) \in Lines
      /\ Taken(g, sides, k) = Cat(Taken(g, sides, k - 1), HunkLines(g[k], sides[CountTo(g, k)]))
  BY <1>0, <1>1, TakenLines
<1>3. QED  BY <1>1, <1>2

\* Only the sides taken for these hunks matter.
LEMMA TakenAgrees ==
    ASSUME NEW hs \in Seq(Hunk), NEW k \in 0..Len(hs), NEW s, NEW t,
           \A i \in 1..CountTo(hs, k) : s[i] = t[i]
    PROVE  Taken(hs, s, k) = Taken(hs, t, k)
<1> DEFINE g == First(hs, k)
<1>1. /\ g \in Seq(Hunk) /\ Len(g) = k /\ k \in Nat /\ CountTo(g, k) = CountTo(hs, k)
      /\ Taken(g, s, k) = Taken(hs, s, k) /\ Taken(g, t, k) = Taken(hs, t, k)
  <2>1. k \in 0..k
    OBVIOUS
  <2>2. QED  BY <2>1, FirstHunks
<1> HIDE DEF g
<1>2. ASSUME NEW i \in 1..k PROVE HunkLines(g[i], s[CountTo(g, i)]) = HunkLines(g[i], t[CountTo(g, i)])
  <2>1. CASE g[i].type = "Normal"
    BY <2>1 DEF HunkLines
  <2>2. CASE g[i].type # "Normal"
    <3>1. g[i].type = "Conflict"
      <4>1. g[i] \in Hunk
        BY <1>1, ElementOfSeq
      <4>2. g[i].type \in HunkTypes
        BY <4>1 DEF Hunk
      <4>3. QED  BY <2>2, <4>2 DEF HunkTypes
    <3>2. CountTo(g, i) \in Nat /\ CountTo(g, i - 1) \in Nat /\ CountTo(g, i) = CountTo(g, i - 1) + 1
      BY <1>1, <3>1, CountHunk
    <3>3. CountTo(g, i) \in 0..CountTo(g, k)
      <4>1. i \in 0..k
        BY <1>1
      <4>2. QED  BY <1>1, <4>1, CountGrows
    <3>4. CountTo(g, i) \in 1..CountTo(hs, k)
      BY <1>1, <3>2, <3>3
    <3>5. QED  BY <3>4
  <2>3. QED  BY <2>1, <2>2
<1>3. \A i \in 1..k : LinesTaken(g, s)[i] = LinesTaken(g, t)[i]
  <2>1. DOMAIN g = 1..k
    BY <1>1, LenProperties
  <2>2. QED  BY <1>2, <2>1 DEF LinesTaken
<1>4. First(LinesTaken(g, s), k) = First(LinesTaken(g, t), k)
  BY <1>3 DEF First
<1>5. QED  BY <1>1, <1>4 DEF Taken, Flat

LEMMA LinesBeforeIs ==
    ASSUME NEW fc, fc.hunks \in Seq(Hunk), NEW k \in 1..(Len(fc.hunks) + 1), NEW sides
    PROVE  /\ LinesBefore(fc, sides, k) = Taken(fc.hunks, sides, k - 1)
           /\ Cardinality(ConflictsBefore(fc, k)) = CountTo(fc.hunks, k - 1)
           /\ k - 1 \in 0..Len(fc.hunks)
<1> DEFINE hs == fc.hunks
           j == k - 1
<1>1. Len(hs) \in Nat /\ DOMAIN hs = 1..Len(hs)
  BY LenProperties
<1>2. j \in 0..Len(hs)
  BY <1>1
<1>3. \A i \in 1..j : i \in DOMAIN hs /\ i + 1 - 1 = i
  BY <1>1, <1>2
<1>4. \A i \in 1..j : Cardinality(ConflictsBefore(fc, i + 1)) = CountTo(hs, i)
  BY <1>3 DEF ConflictsBefore, CountTo
<1>5. Cardinality(ConflictsBefore(fc, k)) = CountTo(hs, j)
  BY DEF ConflictsBefore, CountTo
<1>6. \A i \in 1..j : LinesTaken(hs, sides)[i] =
                          HunkLines(fc.hunks[i], sides[Cardinality(ConflictsBefore(fc, i + 1))])
  BY <1>3, <1>4 DEF LinesTaken
<1>7. First(LinesTaken(hs, sides), j) =
          [i \in 1..j |-> HunkLines(fc.hunks[i], sides[Cardinality(ConflictsBefore(fc, i + 1))])]
  BY <1>6 DEF First
<1>8. QED  BY <1>2, <1>5, <1>7 DEF LinesBefore, Taken, Flat

\* What Picked() puts together.
LEMMA PickedIs ==
    ASSUME NEW s \in Seq(Segment), NEW a, a = AsHunks(s), NEW sides, SidesFor(sides, CountTo(a, Len(a)))
    PROVE  FlattenSeq([k \in DOMAIN s |->
                          s[k][IF s[k].ours = s[k].theirs THEN "ours" ELSE sides[Differing(s, k)]]])
               = Taken(a, sides, Len(a))
<1> DEFINE n == Len(s)
           f == [k \in DOMAIN s |->
                    s[k][IF s[k].ours = s[k].theirs THEN "ours" ELSE sides[Differing(s, k)]]]
           ss == LinesTaken(a, sides)
<1>1. /\ a \in Seq(Hunk) /\ Len(a) = n /\ n \in Nat /\ DOMAIN s = 1..n
      /\ \A k \in 1..n : s[k] \in Segment /\ a[k] = AsHunk(s[k])
      /\ \A k \in 0..n : Differing(s, k) = CountTo(a, k)
  BY AsHunksAre
<1>2. DOMAIN a = 1..n
  BY <1>1, LenProperties
<1>3. ASSUME NEW k \in 1..n PROVE f[k] = ss[k] /\ ss[k] \in Lines
  <2>1. ss[k] = HunkLines(a[k], sides[CountTo(a, k)]) /\ Differing(s, k) = CountTo(a, k)
    BY <1>1, <1>2 DEF LinesTaken
  <2>2. HunkLines(a[k], sides[CountTo(a, k)]) \in Lines
    BY <1>1, TakenLines
  <2>3. CASE s[k].ours = s[k].theirs
    <3>1. f[k] = s[k].ours
      BY <1>1, <2>3
    <3>2. HunkLines(a[k], sides[CountTo(a, k)]) = s[k].ours
      <4>1. a[k] = NormalOf(s[k].ours)
        BY <1>1, <2>3 DEF AsHunk
      <4>2. \A x, side : HunkLines(NormalOf(x), side) = x
        BY DEF NormalOf, HunkLines
      <4>3. QED  BY ONLY <4>1, <4>2
    <3>3. QED  BY <2>1, <2>2, <3>1, <3>2
  <2>4. CASE s[k].ours # s[k].theirs
    <3> DEFINE side == sides[CountTo(a, k)]
    <3>1. a[k] = ConflictOfSides(s[k].ours, s[k].theirs) /\ a[k].type = "Conflict"
      BY <1>1, <2>4 DEF AsHunk, ConflictOfSides
    <3>2. side \in Sides
      <4>1. CountTo(a, k) \in Nat /\ CountTo(a, k - 1) \in Nat /\ CountTo(a, k) = CountTo(a, k - 1) + 1
        BY <1>1, <3>1, CountHunk
      <4>2. CountTo(a, k) \in 0..CountTo(a, n)
        <5>1. k \in 0..n
          BY <1>1
        <5>2. QED  BY <1>1, <5>1, CountGrows
      <4>3. CountTo(a, k) \in 1..CountTo(a, Len(a))
        BY <1>1, <4>1, <4>2
      <4>4. QED  BY <4>3 DEF SidesFor
    <3>3. f[k] = s[k][side]
      BY <1>1, <2>1, <2>4
    <3> HIDE DEF side
    <3>4. HunkLines(a[k], side) = a[k][side]
      BY <3>1 DEF HunkLines
    <3>5. CASE side = "ours"
      BY <2>1, <2>2, <3>1, <3>3, <3>4, <3>5 DEF side, ConflictOfSides
    <3>6. CASE side = "theirs"
      BY <2>1, <2>2, <3>1, <3>3, <3>4, <3>6 DEF side, ConflictOfSides
    <3>7. QED  BY <3>2, <3>5, <3>6 DEF Sides
  <2>5. QED  BY <2>3, <2>4
<1>4. f = ss
  <2>1. f = [k \in 1..n |-> f[k]] /\ ss = [k \in 1..n |-> ss[k]]
    BY <1>1, <1>2 DEF LinesTaken
  <2> HIDE DEF f, ss
  <2>2. QED  BY <1>3, <2>1
<1>5. ss \in Seq(Lines) /\ Len(ss) = n
  <2>1. ss = [k \in 1..n |-> ss[k]]
    BY <1>1, <1>2 DEF LinesTaken
  <2> HIDE DEF f, ss
  <2>2. QED  BY <1>1, <1>3, <2>1
<1>6. FlattenSeq(ss) = Flat(ss, n)
  <2> HIDE DEF ss, n
  <2>1. ss \in Seq(Seq(STRING)) /\ Len(ss) = n
    BY <1>5 DEF Lines
  <2>2. QED  BY ONLY <2>1, FlattenFirst
<1>7. QED  BY <1>1, <1>4, <1>6 DEF Taken

LEMMA TakenNone ==
    ASSUME NEW hs \in Seq(Hunk), NEW sides
    PROVE  Taken(hs, sides, 0) = <<>> /\ CountTo(hs, 0) = 0
<1> DEFINE g == First(hs, 0)
<1>1. 0 \in 0..Len(hs) /\ 0 \in 0..0
  BY LenProperties
<1>2. g \in Seq(Hunk) /\ Len(g) = 0 /\ Taken(g, sides, 0) = Taken(hs, sides, 0)
  BY <1>1, FirstHunks
<1>3. \A x : CountTo(x, 0) = 0
  <2>1. \A x : {i \in 1..0 : x[i].type = "Conflict"} = {}
    OBVIOUS
  <2>2. QED  BY <2>1, FS_EmptySet DEF CountTo
<1> HIDE DEF g
<1>4. SidesFor(sides, CountTo(g, Len(g)))
  BY <1>2, <1>3 DEF SidesFor
<1>5. QED  BY <1>2, <1>3, <1>4, TakenLines

\* The hunks of a conflict, and the segments of its merge.
LEMMA HunksOfMerge ==
    ASSUME NEW merge, NEW s, s = merge.segments, s \in Seq(Segment), Merged(merge), Plain(merge),
           NEW a, a = AsHunks(s), NEW hs, hs = ConflictOf(merge).hunks
    PROVE  hs \in Seq(Hunk) /\ Joined(a, Len(a), hs, <<>>)
<1>1. CASE merge.ours = "file" /\ merge.theirs = "file"
  <2>1. hs = HunksFromConflictString(Tagged, MergeText(s))
    BY <1>1 DEF ConflictOf
  <2>2. \A i \in DOMAIN s : PlainSegment(s[i])
    BY DEF Plain, PlainSegment
  <2>3. QED  BY <2>1, <2>2, MergedHunks
<1>2. CASE ~(merge.ours = "file" /\ merge.theirs = "file")
  <2>1. Len(s) = 1 /\ s[1].ours # s[1].theirs
    BY <1>2 DEF Merged
  <2>2. hs = <<AsConflict(s[1])>>
    BY <1>2 DEF ConflictOf
  <2>3. /\ a \in Seq(Hunk) /\ Len(a) = 1 /\ s[1] \in Segment /\ a[1] = AsHunk(s[1])
    <3>1. 1 \in 1..1
      OBVIOUS
    <3>2. QED  BY <2>1, <3>1, AsHunksAre
  <2>4. a[1] = AsConflict(s[1])
    BY <2>1, <2>3, AsConflictIs DEF AsHunk
  <2>5. hs = a
    <3> DEFINE e == AsConflict(s[1])
    <3>1. hs = <<e>> /\ a[1] = e
      BY <2>2, <2>4
    <3> HIDE DEF e
    <3>2. QED  BY <2>3, <3>1
  <2>6. ASSUME NEW sides, SidesFor(sides, CountTo(a, Len(a)))
        PROVE  Cat(Taken(a, sides, Len(a)), <<>>) = Taken(a, sides, Len(a))
    <3>1. Len(a) \in 0..Len(a)
      BY <2>3
    <3>2. Taken(a, sides, Len(a)) \in Lines
      BY <2>3, <2>6, <3>1, TakenLines
    <3>3. QED  BY <3>2, CatLines DEF Lines
  <2>7. QED  BY <2>3, <2>5, <2>6 DEF Joined
<1>3. QED  BY <1>1, <1>2

\* A file whose conflicts were picked has what was picked.
LEMMA PicksGiveResult ==
    ASSUME NEW merge, NEW s, s = merge.segments, s \in Seq(Segment), Supported(merge), Merged(merge),
           Plain(merge), NEW hs, hs = ConflictOf(merge).hunks, NEW sides \in Seq(Sides),
           Len(sides) = CountTo(hs, Len(hs)), NEW l, l = Taken(hs, sides, Len(hs))
    PROVE  /\ (IF l = <<>> THEN None ELSE Join(l)) = Picked(merge, sides)
           /\ l = <<>> => \E side \in Sides : merge[side] = "none"
<1> DEFINE a == AsHunks(s)
           n == Len(a)
<1>1. hs \in Seq(Hunk) /\ Joined(a, n, hs, <<>>)
  BY HunksOfMerge
<1>2. /\ a \in Seq(Hunk) /\ n = Len(s) /\ n \in Nat /\ DOMAIN s = 1..n
      /\ \A k \in 1..n : s[k] \in Segment /\ a[k] = AsHunk(s[k])
  BY AsHunksAre
<1>3. a = AsHunks(s) /\ n = Len(a)
  OBVIOUS
<1> HIDE DEF a, n
<1>4. Len(sides) = CountTo(a, n) /\ Len(sides) \in Nat /\ DOMAIN sides = 1..Len(sides)
  BY <1>1, LenProperties DEF Joined
<1>5. SidesFor(sides, CountTo(a, n)) /\ SidesFor(sides, CountTo(hs, Len(hs)))
  BY <1>4, ElementOfSeq DEF SidesFor
<1>6. l = Taken(a, sides, n) /\ l \in Lines
  <2>1. Cat(l, <<>>) = Taken(a, sides, n)
    BY <1>1, <1>3, <1>5 DEF Joined
  <2>2. l \in Lines
    <3>1. Len(hs) \in 0..Len(hs)
      BY <1>1, LenProperties
    <3>2. QED  BY <1>1, <1>5, <3>1, TakenLines
  <2>3. QED  BY <2>1, <2>2, CatLines DEF Lines
<1>7. Picked(merge, sides) = IF \E i \in DOMAIN sides : merge[sides[i]] = "none" THEN None ELSE l
  <2> DEFINE f == [k \in DOMAIN s |->
                      s[k][IF s[k].ours = s[k].theirs THEN "ours" ELSE sides[Differing(s, k)]]]
  <2>1. Picked(merge, sides) =
            IF \E i \in DOMAIN sides : merge[sides[i]] = "none" THEN None ELSE FlattenSeq(f)
    BY DEF Picked
  <2>2. FlattenSeq(f) = l
    BY <1>3, <1>5, <1>6, PickedIs
  <2>3. QED  BY <2>1, <2>2
<1>8. ASSUME NEW u \in Lines, NEW v \in Lines, v # <<>>, l = Cat(u, v) PROVE l # <<>>
  BY <1>8, CatLines DEF Lines
<1>9. SUFFICES (IF l = <<>> THEN None ELSE Join(l)) = Picked(merge, sides)
  <2>1. <<>> # None
    BY ConflictsAssumption, EmptySeq DEF Lines
  <2>2. \A i \in DOMAIN sides : sides[i] \in Sides
    BY <1>4, ElementOfSeq
  <2>3. QED  BY <1>7, <2>1, <2>2
<1>10. CASE merge.ours = "file" /\ merge.theirs = "file"
  <2>1. ~\E i \in DOMAIN sides : merge[sides[i]] = "none"
    <3>1. \A i \in DOMAIN sides : sides[i] \in Sides
      BY <1>4, ElementOfSeq
    <3>2. merge["ours"] = "file" /\ merge["theirs"] = "file"
      BY <1>10
    <3>3. QED  BY <3>1, <3>2 DEF Sides
  <2>2. n \in 1..n /\ s[n].ours = s[n].theirs /\ s[n].ours # <<>> /\ s[n].ours \in Lines
    <3>1. s # <<>> /\ s[n].ours = s[n].theirs /\ s[n].ours # <<>>
      BY <1>2, <1>10 DEF Merged
    <3>2. n # 0
      BY <1>2, <3>1, EmptySeq
    <3>3. QED  BY <1>2, <3>1, <3>2 DEF Segment
  <2>3. a[n] = NormalOf(s[n].ours)
    BY <1>2, <2>2 DEF AsHunk
  <2>4. \A side : HunkLines(a[n], side) = s[n].ours
    <3>1. \A x, side : HunkLines(NormalOf(x), side) = x
      BY DEF NormalOf, HunkLines
    <3>2. QED  BY ONLY <2>3, <3>1
  <2>5. /\ Taken(a, sides, n - 1) \in Lines
        /\ Taken(a, sides, n) = Cat(Taken(a, sides, n - 1), HunkLines(a[n], sides[CountTo(a, n)]))
    <3>1. a \in Seq(Hunk) /\ n \in 1..Len(a) /\ SidesFor(sides, CountTo(a, n))
      BY <1>2, <1>3, <1>5, <2>2
    <3>2. QED  BY ONLY <3>1, TakenNext
  <2>6. l # <<>>
    BY <1>6, <1>8, <2>2, <2>4, <2>5
  <2>7. QED  BY <1>7, <2>1, <2>6 DEF Join
<1>11. CASE ~(merge.ours = "file" /\ merge.theirs = "file")
  <2>1. /\ n = 1 /\ s[1].ours # s[1].theirs
        /\ \A side \in Sides : s[1][side] = <<>> <=> merge[side] = "none"
    BY <1>2, <1>11 DEF Merged
  <2>2. s[1] \in Segment /\ a[1] = ConflictOfSides(s[1].ours, s[1].theirs) /\ a[1].type = "Conflict"
    <3>1. 1 \in 1..n
      BY <2>1
    <3>2. s[1] \in Segment /\ a[1] = ConflictOfSides(s[1].ours, s[1].theirs)
      BY <1>2, <2>1, <3>1 DEF AsHunk
    <3>3. QED  BY <3>2 DEF ConflictOfSides
  <2>3. CountTo(a, 1) = 1 /\ CountTo(a, 0) = 0 /\ Len(sides) = 1
    <3>1. 1 \in 1..Len(a) /\ 1 - 1 = 0
      BY <1>3, <2>1
    <3>2. CountTo(a, 0) = 0 /\ CountTo(a, 1) = CountTo(a, 1 - 1) + 1
      BY <1>2, <2>2, <3>1, CountHunk
    <3>3. QED  BY <1>4, <2>1, <3>1, <3>2
  <2>4. sides[1] \in Sides /\ DOMAIN sides = {1}
    BY <1>4, <2>3, ElementOfSeq
  <2>5. l = s[1][sides[1]]
    <3>1. HunkLines(a[1], sides[1]) = s[1][sides[1]]
      <4>1. HunkLines(a[1], sides[1]) = a[1][sides[1]]
        BY <2>2 DEF HunkLines
      <4>2. CASE sides[1] = "ours"
        BY <2>2, <4>1, <4>2 DEF ConflictOfSides
      <4>3. CASE sides[1] = "theirs"
        BY <2>2, <4>1, <4>3 DEF ConflictOfSides
      <4>4. QED  BY <2>4, <4>2, <4>3 DEF Sides
    <3>2. 1 \in 1..Len(a) /\ 1 - 1 = 0
      BY <1>3, <2>1
    <3>3. SidesFor(sides, CountTo(a, 1))
      BY <1>5, <2>1
    <3>4. /\ HunkLines(a[1], sides[CountTo(a, 1)]) \in Lines
          /\ Taken(a, sides, 1) = Cat(Taken(a, sides, 1 - 1), HunkLines(a[1], sides[CountTo(a, 1)]))
      BY <1>2, <3>2, <3>3, TakenNext
    <3>5. Taken(a, sides, 0) = <<>>
      BY <1>2, TakenNone
    <3> DEFINE x == s[1][sides[1]]
    <3>6. x \in Lines /\ Taken(a, sides, 1) = Cat(<<>>, x)
      BY <2>3, <3>1, <3>2, <3>4, <3>5
    <3> HIDE DEF x
    <3>7. Cat(<<>>, x) = x
      BY <3>6, CatLines DEF Lines
    <3>8. QED  BY <1>6, <2>1, <3>6, <3>7 DEF x
  <2>6. l = <<>> <=> merge[sides[1]] = "none"
    BY <2>1, <2>4, <2>5
  <2>7. QED  BY <1>7, <2>4, <2>6 DEF Join
<1>12. QED  BY <1>10, <1>11

----------------------------------------------------------------------------
(* Texts                                                                   *)

LEMMA TwoLines == ASSUME NEW T, NEW e \in T, NEW f \in T PROVE <<e, f>> \in Seq(T)
OBVIOUS

LEMMA EmptyTextIs == EmptyText \in Lines /\ \A s \in Lines : Join(s) \in Lines /\ Join(s) # <<>>
<1>1. "" \in STRING
  BY MarkersAreStrings
<1>2. EmptyText \in Lines
  BY <1>1, OneLine, Zenon DEF EmptyText, Lines
<1>3. EmptyText # <<>>
  <2> DEFINE e == ""
  <2>1. EmptyText = <<e>>
    BY DEF EmptyText
  <2> HIDE DEF e
  <2>2. QED  BY <2>1
<1>4. QED  BY <1>2, <1>3 DEF Join


LEMMA SideLinesType ==
    ASSUME NEW fc, fc.hunks \in Seq(Hunk), NEW side \in Sides
    PROVE  SideLines(fc, side) \in Lines
<1> DEFINE n == Len(fc.hunks)
           ss == [k \in DOMAIN fc.hunks |-> HunkLines(fc.hunks[k], side)]
<1>1. n \in Nat /\ DOMAIN fc.hunks = 1..n /\ \A k \in 1..n : fc.hunks[k] \in Hunk
  BY LenProperties, ElementOfSeq
<1>2. \A k \in 1..n : ss[k] \in Lines
  BY <1>1, HunkHasLines
<1>3. ss = [k \in 1..n |-> ss[k]]
  BY <1>1
<1> HIDE DEF n, ss
<1>4. ss \in Seq(Lines) /\ Len(ss) = n
  BY ONLY <1>1, <1>2, <1>3
<1>5. ss \in Seq(Seq(STRING)) /\ n \in 0..Len(ss) /\ n = Len(ss)
  BY <1>1, <1>4 DEF Lines
<1>6. FlattenSeq(ss) = Flat(ss, n) /\ Flat(ss, n) \in Seq(STRING)
  BY <1>5, FlattenFirst
<1>7. QED  BY <1>6 DEF SideLines, ss, Lines

LEMMA HunkTextType ==
    ASSUME NEW m \in {Bare, Tagged}, NEW h \in Hunk
    PROVE  HunkText(m, h) \in Lines
<1>1. h.type \in HunkTypes /\ h.normal \in Lines /\ h.ours \in Lines /\ h.theirs \in Lines
  BY DEF Hunk
<1>2. CASE h.type = "Normal"
  BY <1>1, <1>2 DEF HunkText
<1>3. CASE h.type # "Normal"
  <2>1. HunkText(m, h) = Marked(m, h.ours, h.theirs)
    BY <1>3 DEF HunkText, Marked, Cat
  <2>2. \A o, t \in Lines : Marked(m, o, t) \in Lines
    BY MarkedLines
  <2>3. QED  BY <1>1, <2>1, <2>2
<1>4. QED  BY <1>2, <1>3

LEMMA RenderedType ==
    ASSUME NEW m \in {Bare, Tagged}, NEW hs \in Seq(Hunk)
    PROVE  ConflictStringFromHunks(m, hs) \in Lines
<1> DEFINE n == Len(hs)
           ss == [k \in DOMAIN hs |-> HunkText(m, hs[k])]
<1>1. n \in Nat /\ DOMAIN hs = 1..n /\ \A k \in 1..n : hs[k] \in Hunk
  BY LenProperties, ElementOfSeq
<1>2. \A k \in 1..n : ss[k] \in Lines
  BY <1>1, HunkTextType
<1>3. ss = [k \in 1..n |-> ss[k]]
  BY <1>1
<1> HIDE DEF n, ss
<1>4. ss \in Seq(Lines) /\ Len(ss) = n
  BY ONLY <1>1, <1>2, <1>3
<1>5. ss \in Seq(Seq(STRING)) /\ n \in 0..Len(ss) /\ n = Len(ss)
  BY <1>1, <1>4 DEF Lines
<1>6. FlattenSeq(ss) = Flat(ss, n) /\ Flat(ss, n) \in Lines
  BY <1>5, FlattenFirst DEF Lines
<1>7. QED  BY <1>6, EmptyTextIs DEF ConflictStringFromHunks, ss

LEMMA MinIn ==
    ASSUME NEW n \in Nat, NEW x \in SUBSET (1..n), x # {}
    PROVE  Min(x) \in x
<1>1. x \in SUBSET Nat
  OBVIOUS
<1>2. PICK z \in x : \A y \in x : ~(<<y, z>> \in OpToRel(<, Nat))
  BY <1>1, NatLessThanWellFounded, WFMin, Zenon
<1>3. \A y \in x : ~(y < z)
  BY <1>1, <1>2, Zenon DEF OpToRel
<1>4. \A y \in x : z <= y
  BY <1>1, <1>3
<1>5. QED  BY <1>4 DEF Min

LEMMA PieceOf ==
    ASSUME NEW T, NEW t \in Seq(T), NEW n \in Nat, n = Len(t), NEW i \in 1..n, NEW j \in 1..n
    PROVE  SubSeq(t, i, j) \in Seq(T)
<1>1. i \in Int /\ j \in Int /\ 1 <= i /\ j <= n
  OBVIOUS
<1>2. \A k \in 1..n : t[k] \in T
  BY ElementOfSeq
<1>3. ASSUME NEW k \in i..j PROVE k \in 1..n
  BY <1>1
<1>4. \A k \in i..j : t[k] \in T
  BY <1>2, <1>3
<1>5. QED  BY <1>1, <1>4, SubSeqProperties

LEMMA TrimIn == ASSUME NEW T, "" \in T, NEW t \in Seq(T) PROVE Trim(t) \in Seq(T)
<1> DEFINE n == Len(t)
           kept == {i \in DOMAIN t : t[i] # ""}
<1>1. n \in Nat /\ DOMAIN t = 1..n /\ kept \in SUBSET (1..n)
  BY LenProperties
<1>2. CASE kept = {}
  <2>1. <<"">> \in Seq(T)
    BY OneLine, Zenon
  <2>2. QED  BY <1>2, <2>1 DEF Trim, EmptyText
<1>3. CASE kept # {}
  <2>1. Trim(t) = SubSeq(t, Min(kept), Max(kept))
    BY <1>3 DEF Trim
  <2> HIDE DEF kept
  <2>2. Min(kept) \in 1..n /\ Max(kept) \in 1..n
    BY <1>1, <1>3, MinIn, MaxIn
  <2>3. \A i, j \in 1..n : SubSeq(t, i, j) \in Seq(T)
    BY <1>1, PieceOf
  <2>4. QED  BY <2>1, <2>2, <2>3
<1>4. QED  BY <1>2, <1>3

LEMMA TrimType == ASSUME NEW t \in Lines PROVE Trim(t) \in Lines
BY MarkersAreStrings, TrimIn DEF Lines

\* Whatever the user leaves in the editor is a text.
LEMMA EditsType ==
    ASSUME Current.hunks \in Seq(Hunk), text \in Lines, NEW t \in Edits
    PROVE  t \in Lines
<1>1. \A side \in Sides : Join(SideLines(Current, side)) \in Lines
  BY SideLinesType, EmptyTextIs
<1>2. \A h \in Hashes : <<h, "">> \in Lines
  BY MarkersAreStrings, ConflictsAssumption, TwoLines, Zenon DEF Lines
<1>3. Texts \subseteq Lines
  BY ConflictsAssumption
<1>4. QED  BY <1>1, <1>2, <1>3, EmptyTextIs DEF Edits

----------------------------------------------------------------------------
(* What the loops have of the merges                                       *)

\* One more answer.
LEMMA NextAnswer ==
    ASSUME NEW n \in Nat, NEW f, f = [i \in 1..n |-> f[i]], NEW e, NEW g, g = Append(f, e)
    PROVE  /\ g = [i \in 1..(n + 1) |-> g[i]] /\ g[n + 1] = e /\ DOMAIN g = 1..(n + 1)
           /\ \A i \in 1..n : g[i] = f[i]
           /\ DOMAIN f = 1..n
<1>1. PICK R : e \in R /\ \A i \in 1..n : f[i] \in R
  <2> DEFINE R == {f[i] : i \in 1..n} \cup {e}
  <2>1. e \in R /\ \A i \in 1..n : f[i] \in R
    OBVIOUS
  <2> HIDE DEF R
  <2>2. QED  BY <2>1
<1>2. f \in Seq(R) /\ Len(f) = n
  BY <1>1
<1>3. /\ Add(f, e) \in Seq(R) /\ Len(Add(f, e)) = Len(f) + 1 /\ Add(f, e)[Len(f) + 1] = e
      /\ \A i \in 1..Len(f) : Add(f, e)[i] = f[i]
  <2>1. e \in R /\ f \in Seq(R)
    BY <1>1, <1>2
  <2>2. QED  BY ONLY <2>1, AddLine
<1>4. g \in Seq(R) /\ Len(g) = n + 1 /\ g[n + 1] = e /\ \A i \in 1..n : g[i] = f[i]
  BY <1>2, <1>3 DEF Add
<1>5. DOMAIN g = 1..(n + 1) /\ DOMAIN f = 1..n
  BY <1>2, <1>4, LenProperties
<1>6. g = [i \in DOMAIN g |-> g[i]]
  BY <1>4
<1>7. QED  BY <1>4, <1>5, <1>6

\* The loop over the hunks, before the first.
LEMMA NothingBefore ==
    ASSUME NEW fc \in Conflict
    PROVE  LinesBefore(fc, <<>>, 1) = <<>>
<1>1. fc.hunks \in Seq(Hunk)
  BY DEF Conflict
<1>2. 1 \in 1..(Len(fc.hunks) + 1) /\ 1 - 1 = 0
  BY <1>1, LenProperties
<1>3. QED  BY <1>1, <1>2, LinesBeforeIs, TakenNone

LEMMA HaveInit == ASSUME Init PROVE LoopsHave
<1>1. answers = [i \in 1..(file - 1) |-> answers[i]]
  BY DEF Init
<1>2. <<>> \in Seq(Sides)
  BY EmptySeq
<1>3. QED  BY <1>1, <1>2 DEF Init, LoopsHave, Waiting

LEMMA HaveGet == ASSUME InductiveInv, ConflictsInv', Get PROVE LoopsHave'
<1> USE DEF InductiveInv
<1>1. /\ UNCHANGED <<merges, file, hunk, counted, asked, lines, picks, answers>>
      /\ phase = "get" /\ file = 1 /\ hunk = 1 /\ counted = 0 /\ asked = 0
      /\ lines = <<>> /\ picks = <<>>
      /\ phase' \in {"next", "failed"}
      /\ phase' = "next" => /\ \A i \in DOMAIN merges : Supported(merges[i])
                            /\ conflicts' = [i \in DOMAIN merges |-> ConflictOf(merges[i])]
  BY DEF Get, input, ConflictsInv, LoopsInside, LoopsHave
<1>2. answers' = [i \in 1..(file' - 1) |-> answers'[i]] /\ picks' \in Seq(Sides)
  BY <1>1 DEF LoopsHave
<1>3. CASE phase' = "next"
  <2>1. Current' \in Conflict
    BY <1>3, CurrentNext DEF ConflictsInv
  <2>2. LinesBefore(Current', <<>>, 1) = <<>> /\ Len(<<>>) = 0
    BY <2>1, NothingBefore
  <2>3. Len(picks') = asked' - counted' /\ lines' = LinesBefore(Current', picks', hunk')
    BY <1>1, <2>2
  <2>4. QED  BY <1>1, <1>2, <1>3, <2>3 DEF LoopsHave, Waiting
<1>4. CASE phase' = "failed"
  BY <1>1, <1>2, <1>4 DEF LoopsHave, Waiting
<1>5. QED  BY <1>1, <1>3, <1>4

\* The loops are left.
LEMMA HaveEnd ==
    ASSUME InductiveInv, UNCHANGED <<merges, conflicts, file, picks, answers>>,
           phase \in {"next"} \cup Waiting, phase' \in Ended
    PROVE  LoopsHave'
BY DEF InductiveInv, LoopsHave, Waiting, Ended

\* The user is asked, or asked again.
LEMMA HaveWait ==
    ASSUME InductiveInv, phase \in {"next"} \cup Waiting, phase' \in Waiting,
           UNCHANGED <<merges, conflicts, file, hunk, lines, counted, asked, picks, answers>>,
           phase' # "panel" => text' \in Lines
    PROVE  LoopsHave'
<1>1. Current' = Current
  BY DEF Current
<1>2. Len(picks') = asked' - counted' /\ lines' = LinesBefore(Current', picks', hunk')
  BY <1>1 DEF InductiveInv, LoopsHave
<1>3. QED  BY <1>2 DEF InductiveInv, LoopsHave, Waiting

\* What a hunk adds, at which the loop is.
LEMMA HunkAdds ==
    ASSUME InductiveInv, phase \in {"next"} \cup Waiting, file \in DOMAIN conflicts,
           hunk \in 1..Len(Current.hunks), NEW sides, NEW n, n = CountTo(Current.hunks, hunk),
           SidesFor(sides, n), \A i \in 1..Len(picks) : sides[i] = picks[i]
    PROVE  /\ LinesBefore(Current, sides, hunk + 1) = Cat(lines, HunkLines(CurrentHunk, sides[n]))
           /\ lines \in Lines /\ HunkLines(CurrentHunk, sides[n]) \in Lines
           /\ asked - counted \in Nat /\ Len(picks) = asked - counted
           /\ n = IF CurrentHunk.type = "Conflict" THEN asked - counted + 1 ELSE asked - counted
<1> DEFINE hs == Current.hunks
           j == hunk - 1
<1>1. Current \in Conflict /\ hs \in Seq(Hunk) /\ Len(hs) \in Nat
  BY CurrentIsConflict DEF InductiveInv, ConflictsInv, Conflict
<1>2. /\ hunk \in 1..(Len(hs) + 1) /\ hunk + 1 \in 1..(Len(hs) + 1) /\ (hunk + 1) - 1 = hunk
      /\ j \in 0..Len(hs)
  BY <1>1
<1> HIDE DEF hs, j
<1>3. LinesBefore(Current, picks, hunk) = Taken(hs, picks, j)
      /\ Cardinality(ConflictsBefore(Current, hunk)) = CountTo(hs, j)
  BY <1>1, <1>2, LinesBeforeIs DEF hs, j
<1>4. LinesBefore(Current, sides, hunk + 1) = Taken(hs, sides, hunk)
  <2> DEFINE k == hunk + 1
  <2>1. k \in 1..(Len(hs) + 1) /\ k - 1 = hunk
    BY <1>2
  <2> HIDE DEF k
  <2>2. LinesBefore(Current, sides, k) = Taken(hs, sides, k - 1)
    BY <1>1, <2>1, LinesBeforeIs DEF hs
  <2>3. QED  BY <2>1, <2>2 DEF k
<1>5. /\ asked = counted + CountTo(hs, j) /\ counted \in Nat /\ asked \in Nat
      /\ Len(picks) = asked - counted /\ lines = LinesBefore(Current, picks, hunk)
  BY <1>3 DEF InductiveInv, ConflictsInv, TitleCounts, TypeOK, LoopsHave
<1>6. /\ CountTo(hs, j) \in Nat
      /\ n = IF CurrentHunk.type = "Conflict" THEN CountTo(hs, j) + 1 ELSE CountTo(hs, j)
  BY <1>1, CountHunk DEF hs, j, CurrentHunk
<1>7. Taken(hs, sides, j) = Taken(hs, picks, j)
  <2>1. Len(picks) = CountTo(hs, j)
    BY <1>5, <1>6
  <2>2. \A i \in 1..CountTo(hs, j) : sides[i] = picks[i]
    BY <2>1
  <2>3. QED  BY <1>1, <1>2, <2>2, TakenAgrees
<1>8. /\ Taken(hs, sides, j) \in Lines /\ HunkLines(CurrentHunk, sides[n]) \in Lines
      /\ Taken(hs, sides, hunk) = Cat(Taken(hs, sides, j), HunkLines(CurrentHunk, sides[n]))
  <2>1. hunk \in 1..Len(hs) /\ SidesFor(sides, CountTo(hs, hunk)) /\ n = CountTo(hs, hunk)
        /\ CurrentHunk = hs[hunk] /\ j = hunk - 1
    BY DEF hs, j, CurrentHunk
  <2>2. QED  BY <1>1, <2>1, TakenNext
<1>9. asked - counted \in Nat /\ asked - counted = CountTo(hs, j)
  BY <1>5, <1>6
<1>10. QED  BY <1>3, <1>4, <1>5, <1>6, <1>7, <1>8, <1>9

LEMMA HaveNormal == ASSUME InductiveInv, NormalHunk PROVE LoopsHave'
<1>1. /\ phase = "next" /\ phase' = "next" /\ hunk' = hunk + 1 /\ CurrentHunk.type = "Normal"
      /\ hunk <= Len(Current.hunks) /\ lines' = lines \o CurrentHunk.normal
      /\ UNCHANGED <<merges, conflicts, file, counted, asked, text, picks, answers>>
  BY DEF NormalHunk, Running, MoreHunks, input
<1>2. file \in DOMAIN conflicts /\ hunk \in 1..Len(Current.hunks) /\ Current \in Conflict
  BY <1>1, Inside, CurrentIsConflict DEF InductiveInv, ConflictsInv, TypeOK
<1> DEFINE n == CountTo(Current.hunks, hunk)
<1>3. n = asked - counted /\ Len(picks) = asked - counted /\ asked - counted \in Nat
  <2>1. /\ CountTo(Current.hunks, hunk) = CountTo(Current.hunks, hunk - 1)
    BY <1>1, <1>2, CountHunk DEF Conflict, CurrentHunk
  <2>2. Cardinality(ConflictsBefore(Current, hunk)) = CountTo(Current.hunks, hunk - 1)
    BY DEF ConflictsBefore, CountTo
  <2>3. /\ asked = counted + Cardinality(ConflictsBefore(Current, hunk))
        /\ counted \in Nat /\ Len(picks) = asked - counted
    BY <1>1 DEF InductiveInv, ConflictsInv, TitleCounts, TypeOK, LoopsHave
  <2>4. Len(picks) \in Nat
    BY LenProperties DEF InductiveInv, LoopsHave
  <2>5. CountTo(Current.hunks, hunk - 1) \in Nat
    BY <1>2, CountHunk DEF Conflict
  <2>6. QED  BY <2>1, <2>2, <2>3, <2>4, <2>5
<1>4. SidesFor(picks, n)
  <2>1. picks \in Seq(Sides)
    BY DEF InductiveInv, LoopsHave
  <2> HIDE DEF n
  <2>2. QED  BY <1>3, <2>1, ElementOfSeq DEF SidesFor
<1>5. LinesBefore(Current, picks, hunk + 1) = Cat(lines, HunkLines(CurrentHunk, picks[n]))
  BY <1>1, <1>2, <1>4, HunkAdds
<1>6. lines' = Cat(lines, HunkLines(CurrentHunk, picks[n]))
  BY <1>1 DEF Cat, HunkLines
<1>7. Current' = Current
  BY <1>1 DEF Current
<1>8. lines' = LinesBefore(Current', picks', hunk')
  BY <1>1, <1>5, <1>6, <1>7
<1>9. QED  BY <1>1, <1>8 DEF InductiveInv, LoopsHave, Waiting

LEMMA HaveChoose == ASSUME InductiveInv, NEW button \in Buttons, Choose(button) PROVE LoopsHave'
<1> DEFINE side == Chosen(button)
           n == CountTo(Current.hunks, hunk)
<1>1. /\ phase = "panel" /\ phase' = "next" /\ hunk' = hunk + 1 /\ asked' = asked + 1
      /\ lines' = lines \o CurrentHunk[side] /\ picks' = Append(picks, side)
      /\ UNCHANGED <<merges, conflicts, file, counted, text, answers>>
  BY DEF Choose, AskedAfterPanel, LinesWith, input
<1>2. /\ file \in DOMAIN conflicts /\ hunk \in 1..Len(Current.hunks) /\ CurrentHunk.type = "Conflict"
  BY <1>1, Inside DEF InductiveInv, Waiting
<1>3. side \in Sides
  BY DEF Chosen, Buttons, Sides
<1> HIDE DEF side
<1>4. picks \in Seq(Sides) /\ Len(picks) \in Nat /\ Len(picks) = asked - counted
      /\ asked \in Nat /\ counted \in Nat
  BY <1>1, LenProperties DEF InductiveInv, LoopsHave, ConflictsInv, TypeOK, Waiting
<1>5. /\ picks' \in Seq(Sides) /\ Len(picks') = Len(picks) + 1 /\ picks'[Len(picks) + 1] = side
      /\ \A i \in 1..Len(picks) : picks'[i] = picks[i]
  BY <1>1, <1>3, <1>4
<1>6. n = Len(picks) + 1
  <2>1. /\ CountTo(Current.hunks, hunk) = CountTo(Current.hunks, hunk - 1) + 1
    BY <1>2, CurrentIsConflict, CountHunk DEF Conflict, CurrentHunk, InductiveInv, ConflictsInv
  <2>2. Cardinality(ConflictsBefore(Current, hunk)) = CountTo(Current.hunks, hunk - 1)
    BY DEF ConflictsBefore, CountTo
  <2>3. /\ asked = counted + Cardinality(ConflictsBefore(Current, hunk))
    BY <1>1 DEF InductiveInv, ConflictsInv, TitleCounts, Waiting
  <2>4. CountTo(Current.hunks, hunk - 1) \in Nat
    BY <1>2, CurrentIsConflict, CountHunk DEF Conflict, InductiveInv, ConflictsInv
  <2>5. QED  BY <1>4, <2>1, <2>2, <2>3, <2>4
<1>7. n = CountTo(Current.hunks, hunk)
  OBVIOUS
<1> HIDE DEF n
<1>8. SidesFor(picks', n)
  BY <1>4, <1>5, <1>6, ElementOfSeq DEF SidesFor
<1>9. LinesBefore(Current, picks', hunk + 1) = Cat(lines, HunkLines(CurrentHunk, picks'[n]))
  <2>1. PICK sides : sides = picks'
    OBVIOUS
  <2>2. SidesFor(sides, n) /\ \A i \in 1..Len(picks) : sides[i] = picks[i]
    BY <1>5, <1>8, <2>1
  <2>3. phase \in {"next"} \cup Waiting
    BY <1>1 DEF Waiting
  <2>4. LinesBefore(Current, sides, hunk + 1) = Cat(lines, HunkLines(CurrentHunk, sides[n]))
    BY <1>2, <1>7, <2>2, <2>3, HunkAdds
  <2>5. QED  BY <2>1, <2>4
<1>10. lines' = Cat(lines, HunkLines(CurrentHunk, picks'[n]))
  BY <1>1, <1>2, <1>5, <1>6 DEF Cat, HunkLines
<1>11. Current' = Current
  BY <1>1 DEF Current
<1>12. lines' = LinesBefore(Current', picks', hunk')
  BY <1>1, <1>9, <1>10, <1>11
<1>13. Len(picks') = asked' - counted'
  BY <1>1, <1>4, <1>5
<1>14. QED  BY <1>1, <1>5, <1>12, <1>13 DEF InductiveInv, LoopsHave, Waiting

LEMMA HaveResolved ==
    ASSUME InductiveInv, ConflictsInv', NEW content, NEW answer, FileResolved(content, answer),
           phase \in {"next"} \cup Waiting
    PROVE  LoopsHave'
<1>1. /\ UNCHANGED <<merges, conflicts>> /\ file' = file + 1 /\ hunk' = 1 /\ lines' = <<>>
      /\ picks' = <<>> /\ asked' = counted' /\ phase' \in {"next", "done"}
      /\ answers' = Append(answers, answer)
  BY DEF FileResolved, input
<1>2. answers' = [i \in 1..(file' - 1) |-> answers'[i]]
  <2>1. file - 1 \in Nat /\ file' - 1 = (file - 1) + 1
    <3>1. file \in Nat \ {0}
      BY DEF InductiveInv, ConflictsInv, TypeOK
    <3>2. QED  BY <1>1, <3>1
  <2>2. answers = [i \in 1..(file - 1) |-> answers[i]]
    BY DEF InductiveInv, LoopsHave
  <2> DEFINE m == file - 1
  <2> HIDE DEF m
  <2>3. m \in Nat /\ answers = [i \in 1..m |-> answers[i]] /\ file' - 1 = m + 1
    BY <2>1, <2>2 DEF m
  <2>4. answers' = [i \in 1..(m + 1) |-> answers'[i]]
    BY <1>1, <2>3, NextAnswer
  <2>5. QED  BY <2>3, <2>4
<1>3. picks' \in Seq(Sides)
  BY <1>1, EmptySeq
<1>4. phase' = "next" => Len(picks') = asked' - counted' /\ lines' = LinesBefore(Current', picks', hunk')
  <2>1. SUFFICES ASSUME phase' = "next"
                 PROVE  Len(picks') = asked' - counted' /\ lines' = LinesBefore(Current', picks', hunk')
    OBVIOUS
  <2>2. Current' \in Conflict
    BY <2>1, CurrentNext DEF ConflictsInv
  <2>3. LinesBefore(Current', <<>>, 1) = <<>> /\ Len(<<>>) = 0
    BY <2>2, NothingBefore
  <2>4. counted' \in Nat
    BY DEF ConflictsInv, TypeOK
  <2>5. asked' - counted' = 0
    <3>1. asked' = counted'
      BY <1>1
    <3>2. \A n \in Nat : n - n = 0
      OBVIOUS
    <3>3. counted' - counted' = 0
      BY <2>4, <3>2
    <3>4. QED  BY <3>1, <3>3
  <2>6. QED  BY <1>1, <2>3, <2>5
<1>5. QED  BY <1>1, <1>2, <1>3, <1>4 DEF InductiveInv, LoopsHave, Waiting

LEMMA HaveStutter == ASSUME InductiveInv, UNCHANGED vars PROVE LoopsHave'
<1>1. Current' = Current
  BY DEF Current, vars
<1>2. LinesBefore(Current', picks', hunk') = LinesBefore(Current, picks, hunk)
  BY <1>1 DEF vars
<1>3. QED  BY <1>1, <1>2 DEF InductiveInv, LoopsHave, vars

LEMMA EditorTexts ==
    ASSUME InductiveInv, phase = "editor", NEW t \in Edits
    PROVE  t \in Lines /\ Current.hunks \in Seq(Hunk)
<1>1. Current.hunks \in Seq(Hunk)
  BY Inside, CurrentIsConflict DEF Waiting, InductiveInv, ConflictsInv, Conflict
<1>2. text \in Lines
  BY DEF InductiveInv, LoopsHave, Waiting
<1>3. QED  BY <1>1, <1>2, EditsType

LEMMA HaveStep == ASSUME InductiveInv, [Next]_vars PROVE LoopsHave'
<1>0. ConflictsInv /\ ConflictsInv'
  BY StepOK DEF InductiveInv
<1>1. CASE Get
  BY <1>0, <1>1, HaveGet
<1>2. CASE TakeTheirs
  BY <1>2, HaveEnd DEF TakeTheirs, input, Ended
<1>3. CASE NormalHunk
  BY <1>3, HaveNormal
<1>4. CASE Present
  <2>1. /\ phase = "next" /\ phase' = "panel"
        /\ UNCHANGED <<merges, conflicts, file, hunk, lines, counted, asked, picks, answers>>
    BY <1>4 DEF Present, Running, input
  <2>2. QED  BY <2>1, HaveWait DEF Waiting
<1>5. CASE FileEnds
  BY <1>0, <1>5, HaveResolved DEF FileEnds, Running
<1>6. ASSUME NEW button \in Buttons, Choose(button)
      PROVE  LoopsHave'
  BY <1>6, HaveChoose
<1>7. CASE Cancel \/ EditorFails
  BY <1>7, HaveEnd DEF Cancel, EditorFails, input, Ended, Waiting
<1>8. CASE OpenEditor
  <2>1. text' \in Lines
    <3>1. Current.hunks \in Seq(Hunk)
      BY <1>0, <1>8, Inside, CurrentIsConflict DEF OpenEditor, Waiting, ConflictsInv, Conflict
    <3>2. \A hs \in Seq(Hunk) : ConflictStringFromHunks(Bare, hs) \in Lines
      BY RenderedType
    <3>3. QED  BY <1>8, <3>1, <3>2 DEF OpenEditor
  <2>2. QED  BY <1>8, <2>1, HaveWait DEF OpenEditor, input, Waiting
<1>9. CASE EditAgain \/ Dismiss
  <2>1. phase' # "panel" => text' \in Lines
    BY <1>9 DEF EditAgain, Dismiss, InductiveInv, LoopsHave, Waiting
  <2>2. QED  BY <1>9, <2>1, HaveWait DEF EditAgain, Dismiss, input, Waiting
<1>10. CASE EditorReturns
  <2>1. PICK t \in Edits : LeaveMarkers(t) \/ LeaveBadHash(t) \/ LeaveHash(t) \/ LeaveFile(t)
    BY <1>10 DEF EditorReturns
  <2>2. phase = "editor"
    BY <1>10 DEF EditorReturns
  <2>3. t \in Lines /\ Trim(t) \in Lines
    BY <2>2, EditorTexts, TrimType
  <2>4. CASE LeaveMarkers(t) \/ LeaveBadHash(t)
    BY <2>2, <2>3, <2>4, HaveWait DEF LeaveMarkers, LeaveBadHash, Alert, input, Waiting
  <2>5. CASE LeaveHash(t) \/ LeaveFile(t)
    BY <1>0, <2>2, <2>5, HaveResolved DEF LeaveHash, LeaveFile, Waiting
  <2>6. QED  BY <2>1, <2>4, <2>5
<1>11. CASE UNCHANGED vars
  BY <1>11, HaveStutter
<1>12. QED
  BY <1>1, <1>2, <1>3, <1>4, <1>5, <1>6, <1>7, <1>8, <1>9, <1>10, <1>11 DEF Next, User, Program

LEMMA InductiveInit == Init => InductiveInv
BY InitOK, HaveInit DEF InductiveInv

LEMMA InductiveStep == InductiveInv /\ [Next]_vars => InductiveInv'
BY StepOK, HaveStep DEF InductiveInv

----------------------------------------------------------------------------
(* What may look like a marker                                             *)

\* The parser in one of the states C, all its lines in A.
HunkIn(A) == [type : HunkTypes, normal : Seq(A), ours : Seq(A), theirs : Seq(A)]
ParserIn(C, A) == [state : C, hunk : HunkIn(A), hunks : Seq(HunkIn(A))]

NextState(state) ==
    CASE state = "Normal" -> "Ours" [] state = "Ours" -> "Theirs" [] state = "Theirs" -> "Normal"

\* In the states C, the line leads to one of D, and is in A unless it is the marker awaited.
Keeps(C, line, D, A) ==
    \A state \in C : IF StartsWith(Awaits(Tagged, state), line) THEN NextState(state) \in D
                     ELSE state \in D /\ line \in A

LEMMA EmptyHunkIn ==
    ASSUME NEW A, NEW type \in HunkTypes
    PROVE  EmptyHunk(type) \in HunkIn(A)
<1>1. <<>> \in Seq(A)
  BY EmptySeq
<1>2. QED  BY <1>1 DEF EmptyHunk, HunkIn

LEMMA HunkInIsHunk ==
    ASSUME NEW A \in SUBSET STRING
    PROVE  HunkIn(A) \subseteq Hunk /\ Seq(HunkIn(A)) \subseteq Seq(Hunk) /\ Seq(A) \subseteq Lines
<1>1. \A T : \A U \in SUBSET T : Seq(U) \subseteq Seq(T)
  <2>1. SUFFICES ASSUME NEW T, NEW U \in SUBSET T, NEW s \in Seq(U) PROVE s \in Seq(T)
    OBVIOUS
  <2>2. s \in [1..Len(s) -> U] /\ Len(s) \in Nat
    BY LenProperties
  <2>3. QED  BY <2>2
<1>2. Seq(A) \subseteq Lines
  BY <1>1 DEF Lines
<1>3. HunkIn(A) \subseteq Hunk
  BY <1>2 DEF HunkIn, Hunk
<1>4. QED  BY <1>1, <1>2, <1>3

LEMMA TurnKeeps ==
    ASSUME NEW A, NEW C, NEW D, NEW p \in ParserIn(C, A), NEW state \in D, NEW type \in HunkTypes
    PROVE  Turn(p, state, type) \in ParserIn(D, A)
<1>1. p.hunk \in HunkIn(A) /\ p.hunks \in Seq(HunkIn(A))
  BY DEF ParserIn
<1>2. Add(p.hunks, p.hunk) \in Seq(HunkIn(A))
  <2>1. PICK T : T = HunkIn(A)
    OBVIOUS
  <2>2. p.hunk \in T /\ p.hunks \in Seq(T)
    BY <1>1, <2>1
  <2>3. Add(p.hunks, p.hunk) \in Seq(T)
    BY ONLY <2>2, AddLine
  <2>4. QED  BY <2>1, <2>3
<1>3. EmptyHunk(type) \in HunkIn(A)
  BY EmptyHunkIn
<1>4. Turn(p, state, type) = [state |-> state, hunk |-> EmptyHunk(type),
                              hunks |-> IF HunkIsEmpty(p.hunk) THEN p.hunks ELSE Add(p.hunks, p.hunk)]
  BY DEF Turn, Add
<1>5. QED  BY <1>1, <1>2, <1>3, <1>4 DEF ParserIn

LEMMA LineKept ==
    ASSUME NEW A \in SUBSET STRING, NEW C \in SUBSET ParserStates, NEW D \in SUBSET ParserStates,
           NEW line \in STRING, Keeps(C, line, D, A), NEW p \in ParserIn(C, A)
    PROVE  ParseLine(Tagged, line)[p] \in ParserIn(D, A)
<1> DEFINE q == ParseLine(Tagged, line)[p]
<1>1. p.state \in C /\ p.hunk \in HunkIn(A) /\ p.hunks \in Seq(HunkIn(A))
  BY DEF ParserIn
<1>2. p \in Parser
  BY HunkInIsHunk DEF ParserIn, Parser, ParserStates
<1>3. LineParsed(Tagged, line, p, q)
  BY <1>2, ParseLineIs
<1>4. SUFFICES q \in ParserIn(D, A)
  OBVIOUS
<1> HIDE DEF q
<1>5. IF StartsWith(Awaits(Tagged, p.state), line) THEN NextState(p.state) \in D
      ELSE p.state \in D /\ line \in A
  BY <1>1 DEF Keeps
<1>6. /\ p.hunk.normal \in Seq(A) /\ p.hunk.ours \in Seq(A) /\ p.hunk.theirs \in Seq(A)
      /\ line \in A => \A x \in Seq(A) : Add(x, line) \in Seq(A)
  BY <1>1, AddLine, Zenon DEF HunkIn
<1>7. CASE p.state = "Normal" /\ StartsWith(Tagged.start, line)
  <2>1. q = Turn(p, "Ours", "Conflict") /\ "Ours" \in D
    BY <1>3, <1>5, <1>7 DEF LineParsed, Awaits, NextState
  <2>2. QED  BY <2>1, TurnKeeps DEF HunkTypes
<1>8. CASE p.state = "Ours" /\ StartsWith(Tagged.separator, line)
  <2>1. q = [p EXCEPT !.state = "Theirs"] /\ "Theirs" \in D
    BY <1>3, <1>5, <1>8 DEF LineParsed, Awaits, NextState
  <2>2. QED  BY <2>1 DEF ParserIn
<1>9. CASE p.state = "Theirs" /\ StartsWith(Tagged.end, line)
  <2>1. q = Turn(p, "Normal", "Normal") /\ "Normal" \in D
    BY <1>3, <1>5, <1>9 DEF LineParsed, Awaits, NextState
  <2>2. QED  BY <2>1, TurnKeeps DEF HunkTypes
<1>10. CASE p.state = "Normal" /\ ~StartsWith(Tagged.start, line)
  <2>1. q = [p EXCEPT !.hunk.normal = Add(p.hunk.normal, line)] /\ p.state \in D /\ line \in A
    BY <1>3, <1>5, <1>10 DEF LineParsed, Awaits
  <2>2. QED  BY <1>1, <1>6, <2>1 DEF ParserIn, HunkIn
<1>11. CASE p.state = "Ours" /\ ~StartsWith(Tagged.separator, line)
  <2>1. q = [p EXCEPT !.hunk.ours = Add(p.hunk.ours, line)] /\ p.state \in D /\ line \in A
    BY <1>3, <1>5, <1>11 DEF LineParsed, Awaits
  <2>2. QED  BY <1>1, <1>6, <2>1 DEF ParserIn, HunkIn
<1>12. CASE p.state = "Theirs" /\ ~StartsWith(Tagged.end, line)
  <2>1. q = [p EXCEPT !.hunk.theirs = Add(p.hunk.theirs, line)] /\ p.state \in D /\ line \in A
    BY <1>3, <1>5, <1>12 DEF LineParsed, Awaits
  <2>2. QED  BY <1>1, <1>6, <2>1 DEF ParserIn, HunkIn
<1>13. QED  BY <1>3, <1>7, <1>8, <1>9, <1>10, <1>11, <1>12 DEF LineParsed

\* Lines none of which leads out of C.
LEMMA LinesKept ==
    ASSUME NEW A \in SUBSET STRING, NEW C \in SUBSET ParserStates, NEW t \in Lines,
           \A i \in DOMAIN t : Keeps(C, t[i], C, A), NEW p \in ParserIn(C, A), NEW q,
           Parses(Tagged, p, t, q)
    PROVE  q \in ParserIn(C, A)
<1> DEFINE n == Len(t)
<1>1. n \in Nat /\ DOMAIN t = 1..n /\ \A i \in 1..n : t[i] \in STRING
  BY LenProperties, ElementOfSeq DEF Lines
<1>2. PICK g : /\ g[0] = p /\ g[n] = q
               /\ \A k \in 1..n : g[k] = ParseLine(Tagged, t[k])[g[k - 1]]
  BY DEF Parses
<1> DEFINE T == {k \in 0..n : g[k] \in ParserIn(C, A)}
<1> HIDE DEF n
<1>3. 0 \in T
  BY <1>1, <1>2
<1>4. ASSUME NEW k \in 0..n, k < n, k \in T PROVE k + 1 \in T
  <2> DEFINE j == k + 1
  <2>1. j \in 1..n /\ j - 1 = k /\ j \in 0..n
    BY <1>1, <1>4
  <2> HIDE DEF j
  <2>2. g[j] = ParseLine(Tagged, t[j])[g[k]] /\ t[j] \in STRING /\ Keeps(C, t[j], C, A)
        /\ g[k] \in ParserIn(C, A)
    BY <1>1, <1>2, <1>4, <2>1
  <2>3. g[j] \in ParserIn(C, A)
    BY <2>2, LineKept
  <2>4. QED  BY <2>1, <2>3 DEF j
<1>5. 0..n \subseteq T
  <2> HIDE DEF T
  <2>1. QED  BY <1>1, <1>3, <1>4, UpTo
<1>6. QED  BY <1>1, <1>2, <1>5

\* One line.
LEMMA MarkerKept ==
    ASSUME NEW A \in SUBSET STRING, NEW C \in SUBSET ParserStates, NEW D \in SUBSET ParserStates,
           NEW line \in STRING, Keeps(C, line, D, A), NEW p \in ParserIn(C, A), NEW q,
           Parses(Tagged, p, <<line>>, q)
    PROVE  q \in ParserIn(D, A)
<1>1. q = ParseLine(Tagged, line)[p]
  BY ParsesOne
<1>2. ParseLine(Tagged, line)[p] \in ParserIn(D, A)
  BY LineKept
<1>3. QED  BY <1>1, <1>2

\* The states in which the parser may be between two segments, in the first side of a conflict and
\* in the second, if the lines of the sides are in A: a marker that git wrote is not taken for one
\* only behind a line of a side that looks like it.
Between(A) ==
    {state \in ParserStates : /\ state = "Ours" => Tagged.start \in A
                              /\ state = "Theirs" => Tagged.start \in A /\ Tagged.separator \in A}
InOurs(A) ==
    {state \in ParserStates : /\ state = "Theirs" => Tagged.separator \in A
                              /\ state = "Normal" => Tagged.separator \in A /\ Tagged.end \in A}
InTheirs(A) ==
    {state \in ParserStates : /\ state = "Normal" => Tagged.end \in A
                              /\ state = "Ours" => Tagged.end \in A /\ Tagged.start \in A}

LEMMA TaggedMarkers ==
    /\ \A line : StartsWith(Tagged.start, line) <=> line = Tagged.start
    /\ \A line : StartsWith(Tagged.separator, line) <=> line = Tagged.separator
    /\ \A line : StartsWith(Tagged.end, line) <=> line = Tagged.end
    /\ Tagged.start # Tagged.separator /\ Tagged.start # Tagged.end /\ Tagged.separator # Tagged.end
    /\ Tagged.start \in STRING /\ Tagged.separator \in STRING /\ Tagged.end \in STRING
<1>1. /\ Tagged.start # Tagged.separator /\ Tagged.start # Tagged.end /\ Tagged.separator # Tagged.end
      /\ Tagged.start # Bare.start /\ Tagged.start # Bare.end
      /\ Tagged.separator # Bare.start /\ Tagged.separator # Bare.end
      /\ Tagged.end # Bare.start /\ Tagged.end # Bare.end
  BY DEF Tagged, Bare
<1>2. QED  BY <1>1, MarkersAreStrings DEF StartsWith

LEMMA SidesKeep ==
    ASSUME NEW A, NEW line
    PROVE  /\ line \in A => /\ Keeps(Between(A), line, Between(A), A)
                            /\ Keeps(InOurs(A), line, InOurs(A), A)
                            /\ Keeps(InTheirs(A), line, InTheirs(A), A)
           /\ Keeps(Between(A), Tagged.start, InOurs(A), A)
           /\ Keeps(InOurs(A), Tagged.separator, InTheirs(A), A)
           /\ Keeps(InTheirs(A), Tagged.end, Between(A), A)
<1>1. PICK start, separator, end :
          start = Tagged.start /\ separator = Tagged.separator /\ end = Tagged.end
  OBVIOUS
<1>2. /\ \A x : StartsWith(start, x) <=> x = start
      /\ \A x : StartsWith(separator, x) <=> x = separator
      /\ \A x : StartsWith(end, x) <=> x = end
      /\ start # separator /\ start # end /\ separator # end
  BY <1>1, TaggedMarkers
<1>3. /\ Awaits(Tagged, "Normal") = start /\ Awaits(Tagged, "Ours") = separator
      /\ Awaits(Tagged, "Theirs") = end
  BY <1>1 DEF Awaits
<1>4. /\ NextState("Normal") = "Ours" /\ NextState("Ours") = "Theirs" /\ NextState("Theirs") = "Normal"
  BY DEF NextState
<1>5. /\ "Normal" \in Between(A) /\ "Ours" \in InOurs(A) /\ "Theirs" \in InTheirs(A)
      /\ "Ours" \in Between(A) <=> start \in A
      /\ "Theirs" \in Between(A) <=> start \in A /\ separator \in A
      /\ "Theirs" \in InOurs(A) <=> separator \in A
      /\ "Normal" \in InOurs(A) <=> separator \in A /\ end \in A
      /\ "Normal" \in InTheirs(A) <=> end \in A
      /\ "Ours" \in InTheirs(A) <=> end \in A /\ start \in A
  BY <1>1 DEF Between, InOurs, InTheirs, ParserStates
<1>6. \A state : state \in Between(A) \/ state \in InOurs(A) \/ state \in InTheirs(A) =>
          state = "Normal" \/ state = "Ours" \/ state = "Theirs"
  BY DEF Between, InOurs, InTheirs, ParserStates
<1> DEFINE K(C, x, D) == \A state \in C : IF StartsWith(Awaits(Tagged, state), x)
                                          THEN NextState(state) \in D ELSE state \in D /\ x \in A
<1>7. /\ line \in A => K(Between(A), line, Between(A)) /\ K(InOurs(A), line, InOurs(A))
                       /\ K(InTheirs(A), line, InTheirs(A))
  BY <1>2, <1>3, <1>4, <1>5, <1>6
<1>8. K(Between(A), start, InOurs(A))
  BY <1>2, <1>3, <1>4, <1>5, <1>6
<1>9. K(InOurs(A), separator, InTheirs(A))
  BY <1>2, <1>3, <1>4, <1>5, <1>6
<1>10. K(InTheirs(A), end, Between(A))
  BY <1>2, <1>3, <1>4, <1>5, <1>6
<1>11. QED  BY <1>1, <1>7, <1>8, <1>9, <1>10 DEF Keeps

LEMMA SegmentKept ==
    ASSUME NEW A \in SUBSET STRING, NEW x \in Segment, x.ours \in Seq(A), x.theirs \in Seq(A),
           NEW p \in ParserIn(Between(A), A), NEW q, Parses(Tagged, p, SegmentText(x), q)
    PROVE  q \in ParserIn(Between(A), A)
<1> DEFINE o == x.ours
           t == x.theirs
           s1 == Cat(<<Tagged.start>>, o)
           s2 == Cat(s1, <<Tagged.separator>>)
           s3 == Cat(s2, t)
<1>1. o \in Lines /\ t \in Lines
  BY DEF Segment
<1>2. /\ Between(A) \in SUBSET ParserStates /\ InOurs(A) \in SUBSET ParserStates
      /\ InTheirs(A) \in SUBSET ParserStates
  BY DEF Between, InOurs, InTheirs
<1>3. (\A i \in DOMAIN o : o[i] \in A) /\ (\A i \in DOMAIN t : t[i] \in A)
  BY LenProperties, ElementOfSeq
<1>4. CASE o = t
  <2>1. SegmentText(x) = o
    BY <1>4 DEF SegmentText
  <2> HIDE DEF o
  <2>2. \A i \in DOMAIN o : Keeps(Between(A), o[i], Between(A), A)
    BY <1>3, SidesKeep
  <2>3. QED  BY <1>1, <1>2, <2>1, <2>2, LinesKept
<1>5. CASE o # t
  <2>1. SegmentText(x) = Cat(s3, <<Tagged.end>>)
    BY <1>5 DEF SegmentText, Cat
  <2> HIDE DEF o, t, s1, s2, s3
  <2>2. /\ <<Tagged.start>> \in Lines /\ <<Tagged.separator>> \in Lines /\ <<Tagged.end>> \in Lines
        /\ s1 \in Lines /\ s2 \in Lines /\ s3 \in Lines
    <3>1. /\ <<Tagged.start>> \in Lines /\ <<Tagged.separator>> \in Lines /\ <<Tagged.end>> \in Lines
      BY TaggedMarkers, OneLine DEF Lines
    <3>2. \A y, z \in Lines : Cat(y, z) \in Lines
      BY CatLines, Zenon DEF Lines
    <3>3. QED  BY <1>1, <3>1, <3>2 DEF s1, s2, s3
  <2>3. PICK q4 : Parses(Tagged, p, s3, q4) /\ Parses(Tagged, q4, <<Tagged.end>>, q)
    BY <2>1, <2>2, ParsesBoth
  <2>4. PICK q3 : Parses(Tagged, p, s2, q3) /\ Parses(Tagged, q3, t, q4)
    BY <1>1, <2>2, <2>3, ParsesBoth DEF s3
  <2>5. PICK q2 : Parses(Tagged, p, s1, q2) /\ Parses(Tagged, q2, <<Tagged.separator>>, q3)
    BY <2>2, <2>4, ParsesBoth DEF s2
  <2>6. PICK q1 : Parses(Tagged, p, <<Tagged.start>>, q1) /\ Parses(Tagged, q1, o, q2)
    BY <1>1, <2>2, <2>5, ParsesBoth DEF s1
  <2>7. q1 \in ParserIn(InOurs(A), A)
    <3>1. Keeps(Between(A), Tagged.start, InOurs(A), A)
      BY SidesKeep
    <3>2. QED  BY <1>2, <2>6, <3>1, TaggedMarkers, MarkerKept
  <2>8. q2 \in ParserIn(InOurs(A), A)
    <3>1. \A i \in DOMAIN o : Keeps(InOurs(A), o[i], InOurs(A), A)
      BY <1>3, SidesKeep
    <3>2. QED  BY <1>1, <1>2, <2>6, <2>7, <3>1, LinesKept
  <2>9. q3 \in ParserIn(InTheirs(A), A)
    <3>1. Keeps(InOurs(A), Tagged.separator, InTheirs(A), A)
      BY SidesKeep
    <3>2. QED  BY <1>2, <2>5, <2>8, <3>1, TaggedMarkers, MarkerKept
  <2>10. q4 \in ParserIn(InTheirs(A), A)
    <3>1. \A i \in DOMAIN t : Keeps(InTheirs(A), t[i], InTheirs(A), A)
      BY <1>3, SidesKeep
    <3>2. QED  BY <1>1, <1>2, <2>4, <2>9, <3>1, LinesKept
  <2>11. QED
    <3>1. Keeps(InTheirs(A), Tagged.end, Between(A), A)
      BY SidesKeep
    <3>2. QED  BY <1>2, <2>3, <2>10, <3>1, TaggedMarkers, MarkerKept
<1>6. QED  BY <1>4, <1>5

\* A merged text whose sides have lines of A only has hunks of such lines only.
LEMMA MergeKept ==
    ASSUME NEW A \in SUBSET STRING, NEW s \in Seq(Segment),
           \A i \in DOMAIN s : s[i].ours \in Seq(A) /\ s[i].theirs \in Seq(A)
    PROVE  HunksFromConflictString(Tagged, MergeText(s)) \in Seq(HunkIn(A))
<1> DEFINE n == Len(s)
           tt == [i \in DOMAIN s |-> SegmentText(s[i])]
           P == ParserIn(Between(A), A)
           T == {k \in 0..n : \A p : Parses(Tagged, Begin, Flat(tt, k), p) => p \in P}
<1>1. n \in Nat /\ DOMAIN s = 1..n /\ \A k \in 1..n : s[k] \in Segment
  BY LenProperties, ElementOfSeq
<1>2. /\ MergeText(s) = Flat(tt, n) /\ Flat(tt, 0) = <<>>
      /\ \A k \in 0..n : Flat(tt, k) \in Lines
      /\ \A k \in 1..n : /\ SegmentText(s[k]) \in Lines
                         /\ Flat(tt, k) = Cat(Flat(tt, k - 1), SegmentText(s[k]))
  BY MergeTextIs
<1> HIDE DEF tt
<1>3. 0 \in T
  <2>1. Begin \in P
    <3>1. EmptyHunk("Normal") \in HunkIn(A)
      BY EmptyHunkIn DEF HunkTypes
    <3>2. <<>> \in Seq(HunkIn(A)) /\ "Normal" \in Between(A)
      BY EmptySeq DEF Between, ParserStates
    <3>3. QED  BY <3>1, <3>2 DEF Begin, ParserIn
  <2> HIDE DEF P
  <2>2. ASSUME NEW p, Parses(Tagged, Begin, Flat(tt, 0), p) PROVE p \in P
    BY <1>2, <2>1, <2>2, ParsesNothing
  <2>3. QED  BY <1>1, <2>2
<1>4. ASSUME NEW k \in 0..n, k < n, k \in T PROVE k + 1 \in T
  <2> DEFINE j == k + 1
  <2>1. j \in 1..n /\ j - 1 = k /\ j \in 0..n
    BY <1>1, <1>4
  <2> HIDE DEF j, n
  <2>2. ASSUME NEW p, Parses(Tagged, Begin, Flat(tt, j), p) PROVE p \in P
    <3> DEFINE t == SegmentText(s[j])
    <3>1. Flat(tt, j) = Cat(Flat(tt, k), t) /\ t \in Lines /\ Flat(tt, k) \in Lines
      BY <1>2, <2>1
    <3>2. PICK r : Parses(Tagged, Begin, Flat(tt, k), r) /\ Parses(Tagged, r, t, p)
      <4> HIDE DEF t
      <4>1. QED  BY <2>2, <3>1, ParsesBoth
    <3>3. r \in P
      BY <1>4, <3>2
    <3>4. s[j] \in Segment /\ s[j].ours \in Seq(A) /\ s[j].theirs \in Seq(A)
      BY <1>1, <2>1
    <3>5. QED  BY <3>2, <3>3, <3>4, SegmentKept
  <2>3. QED  BY <2>1, <2>2 DEF j
<1>5. 0..n \subseteq T
  <2> HIDE DEF T, n
  <2>1. QED  BY <1>1, <1>3, <1>4, UpTo
<1>6. n \in T /\ n \in 0..n
  BY <1>1, <1>5
<1>7. PICK q : /\ Parses(Tagged, Begin, MergeText(s), q)
               /\ HunksFromConflictString(Tagged, MergeText(s)) = Turn(q, "Normal", "Normal").hunks
  BY <1>2, <1>6, Parsed
<1>8. q \in P
  BY <1>2, <1>6, <1>7
<1>9. Turn(q, "Normal", "Normal") \in P
  <2>1. "Normal" \in Between(A) /\ "Normal" \in HunkTypes
    BY DEF Between, ParserStates, HunkTypes
  <2>2. QED  BY <1>8, <2>1, TurnKeeps
<1>10. QED  BY <1>7, <1>9 DEF ParserIn

\* The lines that a file may have: what looks like a marker is a line of a side.
Allowed(merge) == {line \in STRING : IsMarker(Bare, line) => SideHas(merge, line)}

\* The hunks of a conflict have no other.
LEMMA HunksKept ==
    ASSUME NEW merge \in Merge, NEW s, s = merge.segments, s \in Seq(Segment), Merged(merge)
    PROVE  ConflictOf(merge).hunks \in Seq(HunkIn(Allowed(merge)))
<1> DEFINE A == Allowed(merge)
<1>1. A \in SUBSET STRING
  BY DEF Allowed
<1>2. ASSUME NEW i \in DOMAIN s, NEW side \in Sides PROVE s[i][side] \in Seq(A)
  <2> DEFINE t == s[i][side]
  <2>1. s[i] \in Segment
    BY LenProperties, ElementOfSeq
  <2>2. t \in Lines
    BY <2>1 DEF Segment, Sides
  <2>3. \A k \in DOMAIN t : t[k] \in Range(s[i][side])
    BY DEF Range
  <2>4. \A line \in Range(s[i][side]) : SideHas(merge, line)
    BY DEF SideHas
  <2> HIDE DEF t
  <2>5. Len(t) \in Nat /\ DOMAIN t = 1..Len(t) /\ \A k \in 1..Len(t) : t[k] \in STRING
    BY <2>2, LenProperties, ElementOfSeq DEF Lines
  <2>6. \A k \in 1..Len(t) : t[k] \in A
    BY <2>3, <2>4, <2>5 DEF Allowed
  <2> HIDE DEF A
  <2>7. t = [k \in 1..Len(t) |-> t[k]]
    BY <2>2, <2>5 DEF Lines
  <2>8. t \in Seq(A)
    BY <2>5, <2>6, <2>7
  <2>9. QED  BY <2>8 DEF t
<1>3. \A i \in DOMAIN s : s[i].ours \in Seq(A) /\ s[i].theirs \in Seq(A)
  <2> HIDE DEF A
  <2>1. QED  BY <1>2 DEF Sides
<1>4. CASE merge.ours = "file" /\ merge.theirs = "file"
  <2>1. ConflictOf(merge).hunks = HunksFromConflictString(Tagged, MergeText(s))
    BY <1>4 DEF ConflictOf
  <2> HIDE DEF A
  <2>2. QED  BY <1>1, <1>3, <2>1, MergeKept DEF A
<1>5. CASE ~(merge.ours = "file" /\ merge.theirs = "file")
  <2>1. Len(s) = 1
    BY <1>5 DEF Merged
  <2>2. 1 \in DOMAIN s /\ s[1] \in Segment
    BY <2>1, LenProperties, ElementOfSeq
  <2>3. ConflictOf(merge).hunks = <<AsConflict(s[1])>>
    BY <1>5 DEF ConflictOf
  <2> HIDE DEF A
  <2>4. AsConflict(s[1]) = ConflictOfSides(s[1].ours, s[1].theirs)
    BY <2>2, AsConflictIs
  <2>5. s[1].ours \in Seq(A) /\ s[1].theirs \in Seq(A) /\ <<>> \in Seq(A)
    BY <1>3, <2>2, EmptySeq
  <2>6. AsConflict(s[1]) \in HunkIn(A)
    BY <2>4, <2>5 DEF ConflictOfSides, HunkIn, HunkTypes
  <2>7. <<AsConflict(s[1])>> \in Seq(HunkIn(A))
    BY <2>6, OneLine, Zenon
  <2>8. QED  BY <2>3, <2>7 DEF A
<1>6. QED  BY <1>4, <1>5

\* Nor has what is taken of them.
LEMMA TakenKept ==
    ASSUME NEW A \in SUBSET STRING, NEW hs \in Seq(HunkIn(A)), NEW sides,
           SidesFor(sides, CountTo(hs, Len(hs)))
    PROVE  Taken(hs, sides, Len(hs)) \in Seq(A)
<1> DEFINE n == Len(hs)
           T == {k \in 0..n : Taken(hs, sides, k) \in Seq(A)}
<1>1. n \in Nat /\ \A k \in 1..n : hs[k] \in HunkIn(A)
  BY LenProperties, ElementOfSeq
<1>2. hs \in Seq(Hunk)
  BY HunkInIsHunk
<1>3. /\ Taken(hs, sides, 0) = <<>>
      /\ \A k \in 1..n : Taken(hs, sides, k)
                             = Cat(Taken(hs, sides, k - 1), HunkLines(hs[k], sides[CountTo(hs, k)]))
  BY <1>2, TakenLines
<1>4. ASSUME NEW k \in 1..n PROVE HunkLines(hs[k], sides[CountTo(hs, k)]) \in Seq(A)
  <2>1. hs[k].type = "Conflict" => sides[CountTo(hs, k)] \in Sides
    BY <1>2, SideTaken
  <2>2. /\ hs[k].type \in HunkTypes /\ hs[k].normal \in Seq(A) /\ hs[k].ours \in Seq(A)
        /\ hs[k].theirs \in Seq(A)
    BY <1>1 DEF HunkIn
  <2> HIDE DEF n
  <2>3. QED  BY <2>1, <2>2 DEF HunkLines, HunkTypes, Sides
<1> HIDE DEF n
<1>5. 0 \in T
  <2>1. <<>> \in Seq(A) /\ 0 \in 0..n
    BY <1>1, EmptySeq
  <2>2. QED  BY <1>3, <2>1
<1>6. ASSUME NEW k \in 0..n, k < n, k \in T PROVE k + 1 \in T
  <2> DEFINE j == k + 1
  <2>1. j \in 1..n /\ j - 1 = k /\ j \in 0..n
    BY <1>1, <1>6
  <2> HIDE DEF j
  <2>2. Taken(hs, sides, j) = Cat(Taken(hs, sides, k), HunkLines(hs[j], sides[CountTo(hs, j)]))
    BY <1>3, <2>1
  <2>3. Taken(hs, sides, k) \in Seq(A) /\ HunkLines(hs[j], sides[CountTo(hs, j)]) \in Seq(A)
    BY <1>4, <1>6, <2>1
  <2>4. Taken(hs, sides, j) \in Seq(A)
    BY <2>2, <2>3, CatLines
  <2>5. QED  BY <2>1, <2>4 DEF j
<1>7. 0..n \subseteq T
  <2> HIDE DEF T
  <2>1. QED  BY <1>1, <1>5, <1>6, UpTo
<1>8. n \in T
  BY <1>1, <1>7
<1>9. QED  BY <1>8 DEF n

\* Texts in which nothing looks like a marker.
LEMMA UnmarkedAllowed ==
    ASSUME NEW merge
    PROVE  /\ EmptyText \in Seq(Allowed(merge))
           /\ \A t \in Lines : ~LeftMarkers(t) =>
                 t \in Seq(Allowed(merge)) /\ Trim(t) \in Seq(Allowed(merge))
<1> DEFINE A == Allowed(merge)
<1>1. "" \in A
  <2>1. "" # Bare.start /\ "" # Bare.separator /\ "" # Bare.end /\ "" # Tagged.start /\ "" # Tagged.end
    BY DEF Bare, Tagged
  <2>2. ~IsMarker(Bare, "")
    BY <2>1 DEF IsMarker, StartsWith
  <2>3. QED  BY <2>2, MarkersAreStrings DEF Allowed
<1>2. EmptyText \in Seq(A)
  <2> HIDE DEF A
  <2>1. QED  BY <1>1, OneLine, Zenon DEF EmptyText
<1>3. ASSUME NEW t \in Lines, ~LeftMarkers(t) PROVE t \in Seq(A) /\ Trim(t) \in Seq(A)
  <2>1. Len(t) \in Nat /\ DOMAIN t = 1..Len(t) /\ \A k \in 1..Len(t) : t[k] \in STRING
    BY LenProperties, ElementOfSeq DEF Lines
  <2>2. \A k \in 1..Len(t) : t[k] \in A
    BY <1>3, <2>1 DEF LeftMarkers, ConflictStringContainsConflictMarkers, Allowed
  <2>3. t = [k \in 1..Len(t) |-> t[k]]
    BY <2>1 DEF Lines
  <2> HIDE DEF A
  <2>4. t \in Seq(A)
    BY <2>1, <2>2, <2>3
  <2>5. QED  BY <1>1, <2>4, TrimIn
<1>4. QED  BY <1>2, <1>3

----------------------------------------------------------------------------
(* Hunks that are written and read back                                    *)

\* The parser is behind the text of the first k hunks.
ReadTo(hs, k, p) ==
    \E l \in Lines, H \in Seq(Hunk) :
        /\ p = Reading("Normal", <<>>, l, H) /\ First(hs, k) = With(H, l)
        /\ l # <<>> => k # 0 /\ hs[k].type = "Normal"

NoMarkers(h) == \A side \in Sides : ~ConflictStringContainsConflictMarkers(Bare, HunkLines(h, side))

\* Lines without markers.
LEMMA NoMarkerLines ==
    ASSUME NEW t, ~ConflictStringContainsConflictMarkers(Bare, t)
    PROVE  NoLine(t, Bare.start) /\ NoLine(t, Bare.separator) /\ NoLine(t, Bare.end)
BY DEF ConflictStringContainsConflictMarkers, IsMarker, NoLine

LEMMA FirstHunk ==
    ASSUME NEW hs \in Seq(Hunk), NEW k \in 1..Len(hs)
    PROVE  /\ First(hs, k) = Add(First(hs, k - 1), hs[k]) /\ hs[k] \in Hunk
           /\ First(hs, k) \in Seq(Hunk) /\ First(hs, k - 1) \in Seq(Hunk)
<1>1. PICK T : T = Hunk
  OBVIOUS
<1>2. hs \in Seq(T)
  BY <1>1
<1>3. First(hs, k) = Add(First(hs, k - 1), hs[k])
  BY <1>2, FirstNext
<1>4. k \in 0..Len(hs) /\ k - 1 \in 0..Len(hs)
  BY LenProperties
<1>5. First(hs, k) \in Seq(Hunk) /\ First(hs, k - 1) \in Seq(Hunk)
  BY <1>4, FirstHunks
<1>6. QED  BY <1>3, <1>5, LenProperties, ElementOfSeq

LEMMA HunkIsReadBack ==
    ASSUME NEW hs \in Seq(Hunk), Canonical(hs), NEW k \in 1..Len(hs), NoMarkers(hs[k]),
           NEW p, ReadTo(hs, k - 1, p), NEW q, Parses(Bare, p, HunkText(Bare, hs[k]), q)
    PROVE  ReadTo(hs, k, q)
<1> DEFINE h == hs[k]
<1>1. /\ First(hs, k) = Add(First(hs, k - 1), h) /\ h \in Hunk
      /\ First(hs, k) \in Seq(Hunk) /\ First(hs, k - 1) \in Seq(Hunk)
  BY FirstHunk
<1>2. PICK l \in Lines, H \in Seq(Hunk) :
          /\ p = Reading("Normal", <<>>, l, H) /\ First(hs, k - 1) = With(H, l)
          /\ l # <<>> => k - 1 # 0 /\ hs[k - 1].type = "Normal"
  BY DEF ReadTo
<1>3. HunkOK(h) /\ (h.type = "Normal" /\ k # 1 => hs[k - 1].type = "Conflict")
  <2>1. k # 1 => k \in 2..Len(hs)
    BY LenProperties
  <2>2. QED  BY <2>1 DEF Canonical
<1>4. <<>> \in Lines /\ k # 0 /\ h.normal \in Lines /\ h.ours \in Lines /\ h.theirs \in Lines
  <2>1. <<>> \in Lines
    BY EmptySeq DEF Lines
  <2>2. k # 0
    BY LenProperties
  <2>3. \A x \in Hunk : x.normal \in Lines /\ x.ours \in Lines /\ x.theirs \in Lines
    BY DEF Hunk
  <2> HIDE DEF h
  <2>4. QED  BY <1>1, <2>1, <2>2, <2>3
<1>5. \A side \in Sides : LET t == HunkLines(h, side)
                          IN  NoLine(t, Bare.start) /\ NoLine(t, Bare.separator) /\ NoLine(t, Bare.end)
  BY NoMarkerLines DEF NoMarkers
<1>6. CASE h = NormalOf(h.normal) /\ h.normal # <<>>
  <2> DEFINE x == h.normal
  <2>1. h.type = "Normal"
    BY <1>6 DEF NormalOf
  <2>2. l = <<>>
    BY <1>2, <1>3, <2>1
  <2>3. H = First(hs, k - 1)
    BY <1>2, <2>2 DEF With
  <2>4. HunkText(Bare, h) = x /\ NoLine(x, Bare.start)
    BY <1>5, <2>1 DEF HunkText, HunkLines, Sides
  <2>5. NoLine(x, Awaits(Bare, "Normal")) /\ "Normal" \in ParserStates
    BY <2>4 DEF Awaits, ParserStates
  <2>6. Parses(Bare, Reading("Normal", <<>>, <<>>, H), x, q)
    BY <1>2, <2>2, <2>4
  <2>7. x \in Lines /\ x # <<>> /\ h = NormalOf(x)
    BY <1>4, <1>6
  <2> HIDE DEF x, h
  <2>8. q = Reading("Normal", <<>>, Cat(<<>>, x), H)
    BY <1>4, <2>5, <2>6, <2>7, LinesAreRead
  <2>9. Cat(<<>>, x) = x
    BY <2>7, CatLines DEF Lines
  <2>10. First(hs, k) = With(H, x)
    BY <1>1, <2>3, <2>7 DEF With
  <2>11. hs[k].type = "Normal"
    BY <2>1 DEF h
  <2>12. QED  BY <1>4, <2>7, <2>8, <2>9, <2>10, <2>11 DEF ReadTo
<1>7. CASE h = ConflictOfSides(h.ours, h.theirs) /\ (h.ours # <<>> \/ h.theirs # <<>>)
  <2> DEFINE o == h.ours
             t == h.theirs
             G == First(hs, k)
  <2>1. h.type = "Conflict"
    BY <1>7 DEF ConflictOfSides
  <2>2. HunkText(Bare, h) = Marked(Bare, o, t)
    BY <2>1 DEF HunkText, Marked, Cat
  <2>3. HunkLines(h, "ours") = o /\ HunkLines(h, "theirs") = t
    BY <2>1 DEF HunkLines
  <2>4. NoLine(o, Bare.separator) /\ NoLine(t, Bare.end)
    BY <1>5, <2>3 DEF Sides
  <2>5. o \in Lines /\ t \in Lines /\ (o # <<>> \/ t # <<>>) /\ h = ConflictOfSides(o, t)
    BY <1>4, <1>7
  <2>6. Parses(Bare, Reading("Normal", <<>>, l, H), Marked(Bare, o, t), q)
    BY <1>2, <2>2
  <2> HIDE DEF o, t, h
  <2>7. \A m \in {Bare, Tagged} : m = Bare =>
            q = Reading("Normal", <<>>, <<>>, Add(With(H, l), ConflictOfSides(o, t)))
    BY <2>4, <2>5, <2>6, MarkedIsRead
  <2>8. q = Reading("Normal", <<>>, <<>>, Add(With(H, l), ConflictOfSides(o, t)))
    BY <2>7
  <2>9. G = Add(With(H, l), ConflictOfSides(o, t)) /\ G \in Seq(Hunk)
    BY <1>1, <1>2, <2>5
  <2>10. First(hs, k) = With(G, <<>>)
    BY DEF With
  <2> HIDE DEF G
  <2>11. QED  BY <1>4, <2>8, <2>9, <2>10 DEF ReadTo
<1>8. QED  BY <1>3, <1>6, <1>7 DEF HunkOK

\* The text of a hunk is not empty.
LEMMA HunkTextIs ==
    ASSUME NEW h \in Hunk, HunkOK(h)
    PROVE  HunkText(Bare, h) \in Lines /\ HunkText(Bare, h) # <<>>
<1>1. \A m \in {Bare, Tagged} : HunkText(m, h) \in Lines
  BY HunkTextType
<1>2. CASE h = NormalOf(h.normal) /\ h.normal # <<>>
  <2>1. h.type = "Normal"
    BY <1>2 DEF NormalOf
  <2>2. QED  BY <1>1, <1>2, <2>1 DEF HunkText
<1>3. CASE h = ConflictOfSides(h.ours, h.theirs)
  <2>1. h.type = "Conflict" /\ h.ours \in Lines /\ h.theirs \in Lines
    BY <1>3 DEF ConflictOfSides, Hunk
  <2> DEFINE u == Cat(Cat(Cat(<<Bare.start>>, h.ours), <<Bare.separator>>), h.theirs)
             e == <<Bare.end>>
  <2>2. HunkText(Bare, h) = Cat(u, e)
    BY <2>1 DEF HunkText, Cat
  <2>3. u \in Lines /\ e \in Lines /\ e # <<>>
    <3>1. \A m \in {Bare, Tagged} : \A o, t \in Lines :
             /\ Cat(Cat(Cat(<<m.start>>, o), <<m.separator>>), t) \in Lines /\ <<m.end>> \in Lines
      BY MarkedLines
    <3>2. \A x : <<x>> # <<>>
      OBVIOUS
    <3>3. QED  BY <2>1, <3>1, <3>2
  <2> HIDE DEF u, e
  <2>4. Cat(u, e) # <<>>
    BY <2>3, CatLines DEF Lines
  <2>5. QED  BY <1>1, <2>2, <2>4
<1>4. QED  BY <1>2, <1>3 DEF HunkOK

LEMMA ReadBack ==
    ASSUME NEW hs \in Seq(Hunk), Canonical(hs), hs # <<>>, \A k \in 1..Len(hs) : NoMarkers(hs[k])
    PROVE  HunksFromConflictString(Bare, ConflictStringFromHunks(Bare, hs)) = hs
<1> DEFINE n == Len(hs)
           ss == [k \in DOMAIN hs |-> HunkText(Bare, hs[k])]
           T == {k \in 0..n : \A p : Parses(Bare, Begin, Flat(ss, k), p) => ReadTo(hs, k, p)}
<1>1. /\ n \in Nat /\ n # 0 /\ DOMAIN hs = 1..n
      /\ \A k \in 1..n : hs[k] \in Hunk /\ HunkOK(hs[k]) /\ NoMarkers(hs[k])
  BY LenProperties, ElementOfSeq, EmptySeq DEF Canonical
<1>2. \A k \in 1..n : ss[k] \in Lines /\ ss[k] # <<>> /\ ss[k] = HunkText(Bare, hs[k])
  BY <1>1, HunkTextIs
<1>3. ss = [k \in 1..n |-> ss[k]]
  BY <1>1
<1>4. ConflictStringFromHunks(Bare, hs) = Join(FlattenSeq(ss))
  BY DEF ConflictStringFromHunks
<1> HIDE DEF n, ss
<1>5. ss \in Seq(Lines) /\ Len(ss) = n
  BY ONLY <1>1, <1>2, <1>3
<1>6. /\ FlattenSeq(ss) = Flat(ss, n) /\ Flat(ss, 0) = <<>>
      /\ \A k \in 0..n : Flat(ss, k) \in Lines
      /\ \A k \in 1..n : Flat(ss, k) = Cat(Flat(ss, k - 1), ss[k])
  <2>1. ss \in Seq(Seq(STRING)) /\ Len(ss) = n
    BY <1>5 DEF Lines
  <2>2. QED  BY ONLY <2>1, FlattenFirst DEF Lines
<1>7. 0 \in T
  <2>1. ASSUME NEW p, Parses(Bare, Begin, Flat(ss, 0), p) PROVE ReadTo(hs, 0, p)
    <3>1. p = Begin
      BY <1>6, <2>1, ParsesNothing
    <3>2. <<>> \in Lines /\ <<>> \in Seq(Hunk)
      BY EmptySeq DEF Lines
    <3>3. Begin = Reading("Normal", <<>>, <<>>, <<>>)
      BY <3>2, HunkOfLines DEF Begin, Reading, At
    <3>4. First(hs, 0) = <<>>
      <4>1. 0 \in 0..Len(hs)
        BY LenProperties
      <4>2. First(hs, 0) \in Seq(Hunk) /\ Len(First(hs, 0)) = 0
        BY <4>1, FirstHunks
      <4>3. QED  BY <4>2, EmptySeq
    <3>5. QED  BY <3>1, <3>2, <3>3, <3>4 DEF ReadTo, With
  <2>2. QED  BY <1>1, <2>1
<1>8. ASSUME NEW k \in 0..n, k < n, k \in T PROVE k + 1 \in T
  <2> DEFINE j == k + 1
  <2>1. j \in 1..n /\ j - 1 = k /\ j \in 0..n /\ k \in 0..n
    BY <1>1, <1>8
  <2> HIDE DEF j
  <2>2. ASSUME NEW p, Parses(Bare, Begin, Flat(ss, j), p) PROVE ReadTo(hs, j, p)
    <3>1. Flat(ss, j) = Cat(Flat(ss, k), ss[j]) /\ ss[j] \in Lines /\ Flat(ss, k) \in Lines
      BY <1>2, <1>6, <2>1
    <3>2. PICK r : Parses(Bare, Begin, Flat(ss, k), r) /\ Parses(Bare, r, ss[j], p)
      BY <2>2, <3>1, ParsesBoth
    <3>3. ReadTo(hs, j - 1, r)
      BY <1>8, <2>1, <3>2
    <3>4. ss[j] = HunkText(Bare, hs[j]) /\ NoMarkers(hs[j]) /\ j \in 1..Len(hs)
      BY <1>1, <1>2, <2>1 DEF n
    <3>5. QED  BY <3>2, <3>3, <3>4, HunkIsReadBack
  <2>3. QED  BY <2>1, <2>2 DEF j
<1>9. 0..n \subseteq T
  <2> HIDE DEF T
  <2>1. QED  BY <1>1, <1>7, <1>8, UpTo
<1>10. n \in T /\ n \in 1..n /\ n \in 0..n /\ n - 1 \in 0..n
  BY <1>1, <1>9
<1>11. Join(Flat(ss, n)) = Flat(ss, n)
  <2>1. /\ Flat(ss, n) = Cat(Flat(ss, n - 1), ss[n])
        /\ Flat(ss, n - 1) \in Lines /\ ss[n] \in Lines /\ ss[n] # <<>>
    BY <1>2, <1>6, <1>10
  <2>2. ASSUME NEW u \in Lines, NEW v \in Lines, v # <<>> PROVE Cat(u, v) # <<>>
    BY <2>2, CatLines DEF Lines
  <2>3. Cat(Flat(ss, n - 1), ss[n]) # <<>>
    BY <2>1, <2>2
  <2>4. QED  BY <2>1, <2>3 DEF Join
<1> DEFINE t == ConflictStringFromHunks(Bare, hs)
<1>12. t = Flat(ss, n) /\ t \in Lines
  BY <1>4, <1>6, <1>10, <1>11
<1> HIDE DEF t
<1>13. PICK q : /\ Parses(Bare, Begin, t, q)
                /\ HunksFromConflictString(Bare, t) = Turn(q, "Normal", "Normal").hunks
  BY <1>12, Parsed
<1>14. ReadTo(hs, n, q)
  BY <1>10, <1>12, <1>13
<1>15. PICK l \in Lines, H \in Seq(Hunk) :
           q = Reading("Normal", <<>>, l, H) /\ First(hs, n) = With(H, l)
  BY <1>14 DEF ReadTo
<1>16. HunksFromConflictString(Bare, t) = With(H, l)
  <2>1. q = At("Normal", NormalOf(l), H)
    BY <1>15 DEF Reading
  <2>2. HunkIsEmpty(NormalOf(l)) <=> l = <<>>
    BY HunkOfLines, EmptySeq DEF Lines
  <2>3. QED  BY <1>13, <2>1, <2>2 DEF Turn, At, With, Add
<1>17. First(hs, n) = hs
  <2>1. hs \in [1..n -> Hunk]
    BY LenProperties DEF n
  <2>2. QED  BY <2>1 DEF First
<1>18. QED  BY <1>15, <1>16, <1>17 DEF t

----------------------------------------------------------------------------
(* How files are resolved                                                  *)

\* What is resolved is the file the loop is at, and no other.
LEMMA ResolvedIs ==
    ASSUME InductiveInv, phase \in {"next"} \cup Waiting, NEW content, NEW answer,
           FileResolved(content, answer)
    PROVE  /\ DOMAIN answers' = DOMAIN answers \cup {file} /\ answers'[file] = answer
           /\ \A i \in DOMAIN answers : i # file /\ answers'[i] = answers[i]
           /\ DOMAIN index' = DOMAIN index /\ file \in DOMAIN index
           /\ index'[file] = Resolved(file, content)
           /\ \A i \in DOMAIN index : i # file => index'[i] = index[i]
           /\ UNCHANGED <<merges, favor>>
           /\ merges[file] \in Merge /\ merges[file].segments \in Seq(Segment)
           /\ Supported(merges[file]) /\ Merged(merges[file])
           /\ Current = ConflictOf(merges[file]) /\ Current.hunks \in Seq(Hunk)
<1>1. /\ index' = [index EXCEPT ![file] = Resolved(file, content)]
      /\ answers' = Append(answers, answer) /\ UNCHANGED <<merges, favor>>
  BY DEF FileResolved, input
<1>2. /\ file \in DOMAIN conflicts /\ DOMAIN conflicts = DOMAIN merges
      /\ DOMAIN index = DOMAIN merges /\ file - 1 \in Nat /\ file \in Nat
      /\ conflicts = [i \in DOMAIN merges |-> ConflictOf(merges[i])]
      /\ \A i \in DOMAIN merges : Supported(merges[i])
  <2>1. phase \notin {"get", "failed"}
    BY DEF Waiting
  <2>2. file \in DOMAIN conflicts
    BY Inside DEF InductiveInv
  <2>3. DOMAIN conflicts = DOMAIN merges
    BY <2>1 DEF InductiveInv, ConflictsInv, LoopsInside
  <2>4. DOMAIN index = DOMAIN merges /\ file - 1 \in Nat /\ file \in Nat
    BY DEF InductiveInv, ConflictsInv, TypeOK
  <2>5. /\ conflicts = [i \in DOMAIN merges |-> ConflictOf(merges[i])]
        /\ \A i \in DOMAIN merges : Supported(merges[i])
    BY <2>1 DEF InductiveInv, LoopsHave
  <2>6. QED  BY <2>2, <2>3, <2>4, <2>5
<1>3. Current = ConflictOf(merges[file]) /\ Current.hunks \in Seq(Hunk)
  BY <1>2, CurrentIsConflict DEF Current, InductiveInv, ConflictsInv, Conflict
<1>4. /\ DOMAIN answers = 1..(file - 1) /\ DOMAIN answers' = 1..((file - 1) + 1)
      /\ answers'[(file - 1) + 1] = answer /\ \A i \in 1..(file - 1) : answers'[i] = answers[i]
  <2> DEFINE m == file - 1
  <2>1. answers = [i \in 1..m |-> answers[i]] /\ m \in Nat
    BY <1>2 DEF InductiveInv, LoopsHave
  <2> HIDE DEF m
  <2>2. QED  BY <1>1, <2>1, NextAnswer DEF m
<1>5. /\ DOMAIN answers' = DOMAIN answers \cup {file} /\ answers'[file] = answer
      /\ \A i \in DOMAIN answers : i # file /\ answers'[i] = answers[i]
  <2>1. (file - 1) + 1 = file /\ 1..file = 1..(file - 1) \cup {file} /\ file \notin 1..(file - 1)
    BY <1>2
  <2>2. QED  BY <1>4, <2>1
<1>6. /\ merges[file] \in Merge /\ merges[file].segments \in Seq(Segment)
      /\ Supported(merges[file]) /\ Merged(merges[file])
  BY <1>2, MergeType DEF InductiveInv, ConflictsInv
<1>7. /\ DOMAIN index' = DOMAIN index /\ file \in DOMAIN index
      /\ index'[file] = Resolved(file, content)
      /\ \A i \in DOMAIN index : i # file => index'[i] = index[i]
  BY <1>1, <1>2
<1>8. QED  BY <1>1, <1>3, <1>5, <1>6, <1>7

\* What noFile() says of the conflict of a merge.
LEMMA NoFileIs ==
    ASSUME NEW merge \in Merge, Supported(merge), Merged(merge), merge.segments \in Seq(Segment),
           NEW fc, fc = ConflictOf(merge), fc.hunks \in Seq(Hunk)
    PROVE  /\ \A side \in Sides : NoFile(fc, side) /\ Plain(merge) =>
                  "none" \in {merge.ours, merge.theirs}
           /\ "none" \in {merge.ours, merge.theirs} => \E side \in Sides : NoFile(fc, side)
<1> DEFINE s == merge.segments
           hs == fc.hunks
<1>1. \A side \in Sides : merge[side] = "none" => "none" \in {merge.ours, merge.theirs}
  BY DEF Sides
<1>2. ASSUME NEW side \in Sides, NoFile(fc, side), Plain(merge)
      PROVE  "none" \in {merge.ours, merge.theirs}
  <2> DEFINE sides == <<side>>
  <2>1. sides \in Seq(Sides) /\ Len(sides) = 1 /\ sides[1] = side
    OBVIOUS
  <2>2. hs \in Seq(Hunk) /\ Len(hs) = 1 /\ hs[1].type = "Conflict" /\ HunkLines(hs[1], side) = <<>>
    BY <1>2 DEF NoFile
  <2>3. s = merge.segments /\ hs = ConflictOf(merge).hunks
    OBVIOUS
  <2> HIDE DEF sides, hs, s
  <2>4. CountTo(hs, 1) = 1 /\ Taken(hs, sides, 1) = <<>>
    <3>1. 1 \in 1..Len(hs) /\ 1 - 1 = 0
      BY <2>2
    <3>2. CountTo(hs, 0) = 0 /\ CountTo(hs, 1) = CountTo(hs, 1 - 1) + 1
      BY <2>2, <3>1, CountHunk
    <3>3. CountTo(hs, 1) = 1
      BY <3>1, <3>2
    <3>4. SidesFor(sides, CountTo(hs, 1))
      BY <2>1, <3>3 DEF SidesFor
    <3>5. Taken(hs, sides, 1) = Cat(Taken(hs, sides, 1 - 1), HunkLines(hs[1], sides[CountTo(hs, 1)]))
      BY <2>2, <3>1, <3>4, TakenNext
    <3>6. Taken(hs, sides, 0) = <<>>
      BY <2>2, TakenNone
    <3>7. <<>> \in Seq(STRING)
      BY EmptySeq
    <3>8. Cat(<<>>, <<>>) = <<>>
      BY <3>7, CatLines
    <3>9. QED  BY <2>1, <2>2, <3>1, <3>3, <3>5, <3>6, <3>8
  <2>5. s \in Seq(Segment) /\ Len(sides) = CountTo(hs, Len(hs)) /\ Taken(hs, sides, Len(hs)) = <<>>
    BY <2>1, <2>2, <2>4 DEF s
  <2>6. \E x \in Sides : merge[x] = "none"
    BY <1>2, <2>1, <2>3, <2>5, PicksGiveResult
  <2>7. QED  BY <1>1, <2>6
<1>3. ASSUME "none" \in {merge.ours, merge.theirs}
      PROVE  \E side \in Sides : NoFile(fc, side)
  <2>1. PICK side \in Sides : merge[side] = "none"
    BY <1>3 DEF Sides
  <2>2. ~(merge.ours = "file" /\ merge.theirs = "file") /\ merge.ours # "gitlink"
    BY <1>3 DEF Supported
  <2>3. Len(s) = 1 /\ s[1][side] = <<>>
    BY <2>1, <2>2 DEF Merged
  <2>4. fc.type = "File" /\ hs = <<AsConflict(s[1])>>
    BY <2>2 DEF ConflictOf
  <2>5. s[1] \in Segment
    BY <2>3, LenProperties, ElementOfSeq
  <2>6. Len(hs) = 1 /\ hs[1] = ConflictOfSides(s[1].ours, s[1].theirs)
    BY <2>4, <2>5, AsConflictIs
  <2>7. hs[1].type = "Conflict" /\ HunkLines(hs[1], side) = s[1][side]
    BY <2>1, <2>6 DEF HunkLines, ConflictOfSides, Sides
  <2>8. QED  BY <2>3, <2>4, <2>6, <2>7 DEF NoFile
<1>4. QED  BY <1>2, <1>3

\* The files that have an answer are behind the loop.
LEMMA AnswersResolved ==
    ASSUME InductiveInv, phase \in {"next"} \cup Waiting
    PROVE  DOMAIN answers \subseteq DOMAIN index
<1>1. file \in DOMAIN conflicts /\ DOMAIN conflicts = 1..Len(conflicts) /\ Len(conflicts) \in Nat
  BY Inside, CurrentIsConflict DEF InductiveInv, ConflictsInv
<1>2. DOMAIN conflicts = DOMAIN merges /\ DOMAIN index = DOMAIN merges /\ file \in Nat \ {0}
  BY DEF InductiveInv, ConflictsInv, LoopsInside, TypeOK, Waiting
<1>3. DOMAIN answers = 1..(file - 1)
  BY DEF InductiveInv, LoopsHave
<1>4. 1..(file - 1) \subseteq 1..Len(conflicts)
  BY <1>1, <1>2
<1>5. QED  BY <1>1, <1>2, <1>3, <1>4

\* What the files that are resolved hold of the merges, and what is true where nobody is asked.
AnswersInv ==
    /\ favor = "THEIRS" => file = 1
    /\ ResultIsWhatWasPicked
    /\ RemovedIffOneSideLacksIt
    /\ NoMarkerIsStored

\* A file is resolved as its answer says, and the others stay.
LEMMA AnswerFits ==
    ASSUME InductiveInv, AnswersInv, phase \in {"next"} \cup Waiting, favor = "NORMAL",
           NEW content, NEW answer, FileResolved(content, answer),
           answer.text = None /\ Plain(merges[file]) => content = Picked(merges[file], answer.picks),
           content = None /\ Plain(merges[file]) => "none" \in {merges[file].ours, merges[file].theirs},
           answer.text = EmptyText /\ "none" \in {merges[file].ours, merges[file].theirs} =>
               content = None,
           content # None => content \in Seq(Allowed(merges[file]))
    PROVE  AnswersInv'
<1>1. /\ DOMAIN answers' = DOMAIN answers \cup {file} /\ answers'[file] = answer
      /\ \A i \in DOMAIN answers : i # file /\ answers'[i] = answers[i]
      /\ DOMAIN index' = DOMAIN index /\ file \in DOMAIN index
      /\ index'[file] = Resolved(file, content)
      /\ \A i \in DOMAIN index : i # file => index'[i] = index[i]
      /\ UNCHANGED <<merges, favor>>
  BY ResolvedIs
<1>2. \A i \in DOMAIN answers : i \in DOMAIN index
  <2>1. DOMAIN answers \subseteq DOMAIN index
    BY AnswersResolved
  <2>2. QED  BY <2>1
<1>3. index'[file] = IF content = None THEN [state |-> "nothing"]
                     ELSE [state |-> "entry", mode |-> Mode(merges[file]), content |-> content]
  BY <1>1 DEF Resolved
<1>4. ResultIsWhatWasPicked'
  <2>1. SUFFICES ASSUME NEW i \in DOMAIN answers', answers'[i].text = None, Plain(merges[i])
                 PROVE  (IF index'[i].state = "entry" THEN index'[i].content ELSE None)
                            = Picked(merges[i], answers'[i].picks)
    BY <1>1 DEF ResultIsWhatWasPicked, Stored
  <2>2. CASE i = file
    <3>1. content = Picked(merges[file], answer.picks)
      BY <1>1, <2>1, <2>2
    <3>2. (IF index'[i].state = "entry" THEN index'[i].content ELSE None) = content
      BY <1>3, <2>2
    <3>3. QED  BY <1>1, <2>2, <3>1, <3>2
  <2>3. CASE i # file
    <3>1. i \in DOMAIN answers /\ answers'[i] = answers[i] /\ index'[i] = index[i]
      BY <1>1, <1>2, <2>3
    <3>2. QED  BY <2>1, <3>1 DEF AnswersInv, ResultIsWhatWasPicked, Stored
  <2>4. QED  BY <2>2, <2>3
<1>5. RemovedIffOneSideLacksIt'
  <2>1. ASSUME NEW i \in DOMAIN index', index'[i].state = "nothing", Plain(merges[i])
        PROVE  "none" \in {merges[i].ours, merges[i].theirs}
    <3>1. CASE i = file
      BY <1>3, <2>1, <3>1
    <3>2. CASE i # file
      BY <1>1, <2>1, <3>2 DEF AnswersInv, RemovedIffOneSideLacksIt
    <3>3. QED  BY <3>1, <3>2
  <2>2. ASSUME NEW i \in DOMAIN answers', answers'[i].text = EmptyText,
               "none" \in {merges[i].ours, merges[i].theirs}
        PROVE  index'[i].state = "nothing"
    <3>1. CASE i = file
      <4>1. content = None
        BY <1>1, <2>2, <3>1
      <4>2. QED  BY <1>3, <3>1, <4>1
    <3>2. CASE i # file
      <4>1. i \in DOMAIN answers /\ answers'[i] = answers[i] /\ index'[i] = index[i]
        BY <1>1, <1>2, <3>2
      <4>2. QED  BY <2>2, <4>1 DEF AnswersInv, RemovedIffOneSideLacksIt
    <3>3. QED  BY <3>1, <3>2
  <2>3. QED  BY <1>1, <2>1, <2>2 DEF RemovedIffOneSideLacksIt
<1>6. NoMarkerIsStored'
  <2> DEFINE stored(i) == IF index'[i].state = "entry" THEN index'[i].content ELSE None
  <2>1. SUFFICES ASSUME NEW i \in DOMAIN answers', stored(i) # None,
                        NEW line \in Range(stored(i)), IsMarker(Bare, line)
                 PROVE  SideHas(merges[i], line)
    BY <1>1 DEF NoMarkerIsStored, Stored
  <2>2. CASE i = file
    <3>1. stored(i) = content
      BY <1>3, <2>2
    <3>2. content \in Seq(Allowed(merges[file])) /\ line \in Range(content)
      BY <2>1, <3>1
    <3>3. \A k \in DOMAIN content : content[k] \in Allowed(merges[file])
      BY <3>2, LenProperties, ElementOfSeq
    <3>4. line \in Allowed(merges[file])
      BY <3>2, <3>3 DEF Range
    <3>5. QED  BY <2>1, <2>2, <3>4 DEF Allowed
  <2>3. CASE i # file
    <3>1. i \in DOMAIN answers /\ index'[i] = index[i]
      BY <1>1, <1>2, <2>3
    <3>2. stored(i) = Stored(i)
      BY <3>1 DEF Stored
    <3>3. QED  BY <2>1, <3>1, <3>2 DEF AnswersInv, NoMarkerIsStored
  <2>4. QED  BY <2>2, <2>3
<1>7. QED  BY <1>1, <1>4, <1>5, <1>6 DEF AnswersInv

LEMMA AnswersStay ==
    ASSUME AnswersInv, UNCHANGED <<merges, favor, file, index, answers>>
    PROVE  AnswersInv'
BY DEF AnswersInv, ResultIsWhatWasPicked, RemovedIffOneSideLacksIt, NoMarkerIsStored, Stored

\* A file of which every conflict was picked.
LEMMA FileEndsFits == ASSUME InductiveInv, AnswersInv, FileEnds PROVE AnswersInv'
<1> DEFINE merge == merges[file]
           hs == Current.hunks
           content == IF lines = <<>> THEN None ELSE Join(lines)
           answer == [picks |-> picks, text |-> None]
<1>1. /\ phase = "next" /\ favor = "NORMAL" /\ ~(hunk <= Len(hs))
      /\ FileResolved(content, answer) /\ answer.picks = picks /\ answer.text = None
  BY DEF FileEnds, Running, MoreHunks
<1>2. /\ merge \in Merge /\ merge.segments \in Seq(Segment) /\ Supported(merge) /\ Merged(merge)
      /\ Current = ConflictOf(merge) /\ hs \in Seq(Hunk)
  <2> HIDE DEF content, answer
  <2>1. QED  BY <1>1, ResolvedIs
<1>3. hunk = Len(hs) + 1 /\ Len(hs) \in Nat
  BY <1>1, <1>2, LenProperties DEF InductiveInv, ConflictsInv, LoopsInside, TypeOK
<1>4. /\ picks \in Seq(Sides) /\ Len(picks) = asked - counted
      /\ lines = LinesBefore(Current, picks, hunk)
      /\ asked = counted + Cardinality(ConflictsBefore(Current, hunk)) /\ counted \in Nat
  BY <1>1 DEF InductiveInv, LoopsHave, ConflictsInv, TitleCounts, TypeOK
<1>5. /\ LinesBefore(Current, picks, hunk) = Taken(hs, picks, Len(hs))
      /\ Cardinality(ConflictsBefore(Current, hunk)) = CountTo(hs, Len(hs))
  <2>1. hunk \in 1..(Len(hs) + 1) /\ hunk - 1 = Len(hs)
    BY <1>3
  <2>2. QED  BY <1>2, <2>1, LinesBeforeIs
<1>6. CountTo(hs, Len(hs)) \in Nat
  BY <1>2, CountGrows
<1>7. Len(picks) = CountTo(hs, Len(hs)) /\ lines = Taken(hs, picks, Len(hs))
  BY <1>4, <1>5, <1>6
<1>8. hs = ConflictOf(merge).hunks
  BY <1>2
<1>9. Plain(merge) => content = Picked(merge, picks)
                      /\ (lines = <<>> => \E side \in Sides : merge[side] = "none")
  <2> HIDE DEF hs, merge
  <2>1. QED  BY <1>2, <1>4, <1>7, <1>8, PicksGiveResult
<1>10. lines \in Lines /\ lines \in Seq(Allowed(merge))
  <2>1. SidesFor(picks, CountTo(hs, Len(hs)))
    BY <1>4, <1>7, ElementOfSeq DEF SidesFor
  <2>2. Allowed(merge) \in SUBSET STRING
    BY DEF Allowed
  <2>3. hs \in Seq(HunkIn(Allowed(merge)))
    <3> HIDE DEF hs, merge
    <3>1. QED  BY <1>2, <1>8, HunksKept
  <2> HIDE DEF hs, merge
  <2>4. lines \in Seq(Allowed(merge))
    BY <1>7, <2>1, <2>2, <2>3, TakenKept
  <2>5. QED  BY <2>2, <2>4, HunkInIsHunk
<1>11. content = None => lines = <<>>
  BY <1>10, EmptyTextIs, ConflictsAssumption
<1>12. content = None /\ Plain(merge) => "none" \in {merge.ours, merge.theirs}
  BY <1>9, <1>11 DEF Sides
<1>13. answer.text # EmptyText
  BY <1>1, EmptyTextIs, ConflictsAssumption
<1>14. content # None => content \in Seq(Allowed(merge))
  BY <1>10, UnmarkedAllowed DEF Join
<1> HIDE DEF content, answer
<1>15. QED  BY <1>1, <1>9, <1>12, <1>13, <1>14, AnswerFits

\* A file that was edited.
LEMMA EditedFits ==
    ASSUME InductiveInv, AnswersInv, phase = "editor", NEW t \in Lines, NEW answer,
           answer.text = t, t \in Seq(Allowed(merges[file])), FileResolved(Edited(t), answer)
    PROVE  AnswersInv'
<1>1. phase \in {"next"} \cup Waiting /\ favor = "NORMAL"
  BY Inside DEF Waiting, InductiveInv
<1>2. /\ merges[file] \in Merge /\ merges[file].segments \in Seq(Segment)
      /\ Supported(merges[file]) /\ Merged(merges[file])
      /\ Current = ConflictOf(merges[file]) /\ Current.hunks \in Seq(Hunk)
  BY <1>1, ResolvedIs
<1>3. /\ \A side \in Sides : NoFile(Current, side) /\ Plain(merges[file]) =>
                "none" \in {merges[file].ours, merges[file].theirs}
      /\ "none" \in {merges[file].ours, merges[file].theirs} =>
                \E side \in Sides : NoFile(Current, side)
  BY <1>2, NoFileIs
<1>4. t # None
  BY ConflictsAssumption
<1>5. Edited(t) = None <=> t = EmptyText /\ \E side \in Sides : NoFile(Current, side)
  BY <1>4 DEF Edited, Sides
<1>6. Edited(t) # None => Edited(t) \in Seq(Allowed(merges[file]))
  BY DEF Edited
<1>7. QED  BY <1>1, <1>3, <1>4, <1>5, <1>6, AnswerFits

\* Nobody is asked, so there are no answers.
LEMMA TakeTheirsFits == ASSUME InductiveInv, AnswersInv, TakeTheirs PROVE AnswersInv'
<1>1. /\ phase = "next" /\ favor = "THEIRS"
      /\ index' = [i \in DOMAIN conflicts |-> Resolved(i, Content(conflicts[i], "theirs"))]
      /\ UNCHANGED <<merges, favor, file, answers>>
  BY DEF TakeTheirs, input
<1>2. answers' = <<>>
  <2>1. file = 1 /\ answers = [i \in 1..(file - 1) |-> answers[i]]
    BY <1>1 DEF AnswersInv, InductiveInv, LoopsHave
  <2>2. 1..(file - 1) = {}
    BY <2>1
  <2>3. DOMAIN answers = {}
    BY <2>1, <2>2
  <2>4. QED  BY <1>1, <2>3
<1>3. ASSUME NEW i \in DOMAIN index', index'[i].state = "nothing", Plain(merges[i])
      PROVE  "none" \in {merges[i].ours, merges[i].theirs}
  <2>1. /\ DOMAIN conflicts = DOMAIN merges /\ conflicts[i] = ConflictOf(merges[i])
        /\ i \in DOMAIN merges /\ Supported(merges[i]) /\ conflicts \in Seq(Conflict)
    BY <1>1, <1>3 DEF InductiveInv, ConflictsInv, LoopsInside, LoopsHave, TypeOK
  <2>2. /\ merges[i] \in Merge /\ merges[i].segments \in Seq(Segment) /\ Merged(merges[i])
    BY <2>1, MergeType DEF InductiveInv, ConflictsInv
  <2>3. conflicts[i].hunks \in Seq(Hunk)
    <3>1. conflicts[i] \in Conflict
      BY <2>1, ConflictOfType DEF InductiveInv, ConflictsInv
    <3>2. QED  BY <3>1 DEF Conflict
  <2>4. Content(conflicts[i], "theirs") = None
    BY <1>1, <1>3 DEF Resolved
  <2>5. NoFile(conflicts[i], "theirs")
    <3>1. "theirs" \in Sides
      BY DEF Sides
    <3>2. Join(SideLines(conflicts[i], "theirs")) \in Lines
      BY <2>3, <3>1, SideLinesType, EmptyTextIs
    <3>3. QED  BY <2>4, <3>2, ConflictsAssumption DEF Content
  <2>6. QED  BY <1>3, <2>1, <2>2, <2>3, <2>5, NoFileIs DEF Sides
<1>4. QED
  BY <1>1, <1>2, <1>3
     DEF AnswersInv, ResultIsWhatWasPicked, RemovedIffOneSideLacksIt, NoMarkerIsStored

LEMMA AnswersInit == Init => AnswersInv
<1>1. SUFFICES ASSUME Init PROVE AnswersInv
  OBVIOUS
<1>2. DOMAIN answers = {} /\ file = 1 /\ \A i \in DOMAIN index : index[i].state = "conflict"
  BY <1>1 DEF Init
<1>3. QED
  BY <1>2 DEF AnswersInv, ResultIsWhatWasPicked, RemovedIffOneSideLacksIt, NoMarkerIsStored

LEMMA AnswersStep == InductiveInv /\ AnswersInv /\ [Next]_vars => AnswersInv'
<1>1. SUFFICES ASSUME InductiveInv, AnswersInv, [Next]_vars PROVE AnswersInv'
  OBVIOUS
<1>2. CASE \/ Get \/ NormalHunk \/ Present \/ Cancel \/ EditorFails \/ OpenEditor \/ EditAgain
           \/ Dismiss
  BY <1>1, <1>2, AnswersStay
     DEF Get, NormalHunk, Present, Cancel, EditorFails, OpenEditor, EditAgain, Dismiss, input
<1>3. ASSUME NEW button \in Buttons, Choose(button)
      PROVE  AnswersInv'
  BY <1>1, <1>3, AnswersStay DEF Choose, input
<1>4. CASE TakeTheirs
  BY <1>1, <1>4, TakeTheirsFits
<1>5. CASE FileEnds
  BY <1>1, <1>5, FileEndsFits
<1>6. CASE EditorReturns
  <2>1. phase = "editor"
    BY <1>6 DEF EditorReturns
  <2>2. PICK t \in Edits : LeaveMarkers(t) \/ LeaveBadHash(t) \/ LeaveHash(t) \/ LeaveFile(t)
    BY <1>6 DEF EditorReturns
  <2>3. t \in Lines /\ Trim(t) \in Lines
    BY <1>1, <2>1, EditorTexts, TrimType
  <2>4. CASE LeaveMarkers(t) \/ LeaveBadHash(t)
    BY <1>1, <2>4, AnswersStay DEF LeaveMarkers, LeaveBadHash, Alert, input
  <2>5. \A a, x : [picks |-> a, text |-> x].text = x
    OBVIOUS
  <2>6. CASE LeaveHash(t)
    <3>1. Trim(t) \in Seq(Allowed(merges[file]))
      BY <2>3, <2>6, UnmarkedAllowed DEF LeaveHash
    <3>2. QED  BY <1>1, <2>1, <2>3, <2>5, <2>6, <3>1, EditedFits DEF LeaveHash
  <2>7. CASE LeaveFile(t)
    <3>1. t \in Seq(Allowed(merges[file]))
      BY <2>3, <2>7, UnmarkedAllowed DEF LeaveFile
    <3>2. QED  BY <1>1, <2>1, <2>3, <2>5, <2>7, <3>1, EditedFits DEF LeaveFile
  <2>8. QED  BY <2>2, <2>4, <2>6, <2>7
<1>7. CASE UNCHANGED vars
  BY <1>1, <1>7, AnswersStay DEF vars
<1>8. QED  BY <1>1, <1>2, <1>3, <1>4, <1>5, <1>6, <1>7 DEF Next, User, Program

\* The button chooses the side that is shown above it.
LEMMA ShownIsChosen ==
    ConflictsInv /\ [Next]_vars =>
        [\A button \in Buttons : Choose(button) => lines' = lines \o ShownAbove(button)]_vars
<1>1. SUFFICES ASSUME ConflictsInv, NEW button \in Buttons, Choose(button)
               PROVE  lines' = lines \o ShownAbove(button)
  OBVIOUS
<1>2. layout \in Layouts
  BY <1>1 DEF ConflictsInv, TypeOK
<1>3. CurrentHunk[Chosen(button)] = ShownAbove(button)
  <2>1. CASE button = "left"
    BY <1>2, <2>1 DEF Chosen, ShownAbove, Layouts
  <2>2. CASE button = "right"
    BY <1>2, <2>2 DEF Chosen, ShownAbove, Layouts
  <2>3. QED  BY <1>1, <2>1, <2>2 DEF Buttons
<1>4. lines' = lines \o CurrentHunk[Chosen(button)]
  BY <1>1 DEF Choose, LinesWith
<1>5. QED  BY <1>3, <1>4

----------------------------------------------------------------------------
(* Conflicts that are written and read back                                *)

\* The hunks of a conflict are those that a parser makes, and there is one at least.
LEMMA ConflictHasHunks ==
    ASSUME NEW merge, NEW s, s = merge.segments, s \in Seq(Segment), Supported(merge), Merged(merge),
           Plain(merge), NEW hs, hs = ConflictOf(merge).hunks
    PROVE  hs \in Seq(Hunk) /\ Canonical(hs) /\ hs # <<>>
<1> DEFINE a == AsHunks(s)
<1>1. hs \in Seq(Hunk)
  <2> HIDE DEF a
  <2>1. \A x : x = AsHunks(s) => hs \in Seq(Hunk)
    BY HunksOfMerge
  <2>2. QED  BY <2>1
<1>2. CASE merge.ours = "file" /\ merge.theirs = "file"
  <2>1. hs = HunksFromConflictString(Tagged, MergeText(s))
    BY <1>2 DEF ConflictOf
  <2>2. \A i \in DOMAIN s : PlainSegment(s[i])
    BY DEF Plain, PlainSegment
  <2>3. Canonical(hs)
    BY <2>1, <2>2, MergedHunks
  <2>4. hs # <<>>
    <3>1. SUFFICES ASSUME hs = <<>> PROVE FALSE
      OBVIOUS
    <3> DEFINE sides == <<>>
               l == Taken(hs, sides, Len(hs))
    <3>2. Len(hs) = 0 /\ sides \in Seq(Sides) /\ Len(sides) = 0
      BY <3>1, EmptySeq
    <3>3. l = <<>> /\ CountTo(hs, Len(hs)) = 0
      BY <1>1, <3>2, TakenNone
    <3> HIDE DEF sides, l
    <3>4. l = Taken(hs, sides, Len(hs)) /\ Len(sides) = CountTo(hs, Len(hs))
      BY <3>2, <3>3 DEF l
    <3>5. l = <<>> => \E side \in Sides : merge[side] = "none"
      BY <3>2, <3>4, PicksGiveResult
    <3>6. \A side \in Sides : merge[side] = "file"
      BY <1>2 DEF Sides
    <3>7. QED  BY <3>3, <3>5, <3>6
  <2>5. QED  BY <1>1, <2>3, <2>4
<1>3. CASE ~(merge.ours = "file" /\ merge.theirs = "file")
  <2>1. Len(s) = 1 /\ s[1].ours # s[1].theirs
    BY <1>3 DEF Merged
  <2>2. s[1] \in Segment
    <3>1. 1 \in 1..Len(s)
      BY <2>1
    <3>2. QED  BY <3>1, ElementOfSeq
  <2> DEFINE e == AsConflict(s[1])
  <2>3. e = ConflictOfSides(s[1].ours, s[1].theirs) /\ s[1].ours \in Lines /\ s[1].theirs \in Lines
    BY <2>2, AsConflictIs DEF Segment
  <2>4. HunkOK(e)
    BY <2>1, <2>3, HunkIsOK
  <2>5. hs = <<e>>
    BY <1>3 DEF ConflictOf
  <2> HIDE DEF e
  <2>6. Len(hs) = 1 /\ hs[1] = e /\ hs # <<>>
    BY <2>5
  <2>7. 1..Len(hs) = {1} /\ 2..Len(hs) = {}
    BY <2>6
  <2>8. QED  BY <1>1, <2>4, <2>6, <2>7 DEF Canonical
<1>4. QED  BY <1>2, <1>3

\* What the loops have of a merge is its conflict; also when they were left.
ConflictsFit ==
    \A i \in DOMAIN conflicts :
        i \in DOMAIN merges /\ Supported(merges[i]) /\ conflicts[i] = ConflictOf(merges[i])

LEMMA FitInit == Init => ConflictsFit
BY DEF Init, ConflictsFit

LEMMA FitStep == ConflictsFit /\ [Next]_vars => ConflictsFit'
<1>1. SUFFICES ASSUME ConflictsFit, [Next]_vars PROVE ConflictsFit'
  OBVIOUS
<1>2. CASE UNCHANGED <<merges, conflicts>>
  BY <1>1, <1>2 DEF ConflictsFit
<1>3. CASE Get
  <2>1. UNCHANGED merges
    BY <1>3 DEF Get, input
  <2>2. CASE \A i \in DOMAIN merges : Supported(merges[i])
    <3>1. conflicts' = [i \in DOMAIN merges |-> ConflictOf(merges[i])]
      BY <1>3, <2>2 DEF Get
    <3>2. QED  BY <2>1, <2>2, <3>1 DEF ConflictsFit
  <2>3. CASE ~\A i \in DOMAIN merges : Supported(merges[i])
    BY <1>2, <1>3, <2>1, <2>3 DEF Get
  <2>4. QED  BY <2>2, <2>3
<1>4. CASE TakeTheirs \/ NormalHunk \/ Present \/ FileEnds
  BY <1>2, <1>4 DEF TakeTheirs, NormalHunk, Present, FileEnds, FileResolved, input
<1>5. ASSUME NEW button \in Buttons, Choose(button) PROVE ConflictsFit'
  BY <1>2, <1>5 DEF Choose, input
<1>6. CASE Cancel \/ OpenEditor \/ EditorFails \/ EditAgain \/ Dismiss
  BY <1>2, <1>6 DEF Cancel, OpenEditor, EditorFails, EditAgain, Dismiss, input
<1>7. CASE EditorReturns
  BY <1>2, <1>7
     DEF EditorReturns, LeaveMarkers, LeaveBadHash, LeaveHash, LeaveFile, Alert, FileResolved, input
<1>8. CASE UNCHANGED vars
  BY <1>2, <1>8 DEF vars
<1>9. QED  BY <1>1, <1>3, <1>4, <1>5, <1>6, <1>7, <1>8 DEF Next, User, Program

LEMMA FitParsesBack == TypeOK /\ ConflictsFit => RenderedParsesBack
<1>1. SUFFICES ASSUME TypeOK, ConflictsFit, NEW i \in DOMAIN conflicts, Plain(merges[i]),
                      NEW hs, hs = conflicts[i].hunks,
                      \A k \in DOMAIN hs, side \in Sides :
                          ~ConflictStringContainsConflictMarkers(Bare, HunkLines(hs[k], side))
               PROVE  HunksFromConflictString(Bare, ConflictStringFromHunks(Bare, hs)) = hs
  BY DEF RenderedParsesBack
<1>2. i \in DOMAIN merges /\ Supported(merges[i]) /\ hs = ConflictOf(merges[i]).hunks
  BY <1>1 DEF ConflictsFit
<1>3. merges[i].segments \in Seq(Segment) /\ Merged(merges[i])
  BY <1>1, <1>2, MergeType
<1>4. hs \in Seq(Hunk) /\ Canonical(hs) /\ hs # <<>>
  <2> DEFINE merge == merges[i]
  <2>1. Plain(merge) /\ Supported(merge) /\ Merged(merge) /\ merge.segments \in Seq(Segment)
    BY <1>1, <1>2, <1>3
  <2>2. hs = ConflictOf(merge).hunks
    BY <1>2
  <2> HIDE DEF merge
  <2>3. QED  BY <2>1, <2>2, ConflictHasHunks
<1>5. \A k \in 1..Len(hs) : NoMarkers(hs[k])
  BY <1>1, <1>4, LenProperties DEF NoMarkers
<1>6. QED  BY <1>4, <1>5, ReadBack

----------------------------------------------------------------------------
(* Theorems                                                                *)

\* What the loops of _gitConflictsResolve and _gitRunConflictPanel keep true, and what they have of
\* the merges: behind k hunks, the common lines and the sides picked of the first k.
THEOREM Inductive == Spec => []InductiveInv
BY InductiveInit, InductiveStep, PTL DEF Spec

\* What the loops of _gitConflictsResolve and _gitRunConflictPanel keep true.
THEOREM ConflictsInvariant == Spec => []ConflictsInv
BY Inductive, PTL DEF InductiveInv

\* An index that is made a tree of has no conflict left.
THEOREM ConflictsAreResolved == Spec => []AllResolved
BY ConflictsInvariant, PTL DEF ConflictsInv

\* The title of every panel counts the conflicts before it.
THEOREM TitlesCount == Spec => []TitleCounts
BY ConflictsInvariant, PTL DEF ConflictsInv

\* A file whose conflicts were picked has, hunk for hunk, the side that was chosen, and does not
\* exist if the side on which it does not was chosen.
THEOREM ResultsAreWhatWasPicked == Spec => []ResultIsWhatWasPicked
<1>1. Spec => []AnswersInv
  BY Inductive, AnswersInit, AnswersStep, PTL DEF Spec
<1>2. AnswersInv => ResultIsWhatWasPicked
  BY DEF AnswersInv
<1>3. QED  BY <1>1, <1>2, PTL

\* A file is removed only if a side lacks it, and then an empty text removes it.
THEOREM RemovedIffASideLacksIt == Spec => []RemovedIffOneSideLacksIt
<1>1. Spec => []AnswersInv
  BY Inductive, AnswersInit, AnswersStep, PTL DEF Spec
<1>2. AnswersInv => RemovedIffOneSideLacksIt
  BY DEF AnswersInv
<1>3. QED  BY <1>1, <1>2, PTL

\* A button of the panel adds the text that is shown above it, in both layouts.
THEOREM ButtonsGiveWhatTheyShow == Spec => ButtonGivesWhatItShows
BY ConflictsInvariant, ShownIsChosen, PTL DEF Spec, ButtonGivesWhatItShows

\* Whatever the user leaves in the editor, a line of the result that looks like a marker is a line
\* of one of the sides; also where the lines of the sides look like markers.
THEOREM NoMarkersAreStored == Spec => []NoMarkerIsStored
<1>1. Spec => []AnswersInv
  BY Inductive, AnswersInit, AnswersStep, PTL DEF Spec
<1>2. AnswersInv => NoMarkerIsStored
  BY DEF AnswersInv
<1>3. QED  BY <1>1, <1>2, PTL

\* The text that _gitConflictResolveInEditor writes for a conflict is parsed to the same hunks,
\* where no line of them is a marker.
THEOREM RenderedTextsParseBack == Spec => []RenderedParsesBack
<1>1. Spec => []ConflictsFit
  BY FitInit, FitStep, PTL DEF Spec
<1>2. ConflictsInv => TypeOK
  BY DEF ConflictsInv
<1>3. QED  BY <1>1, <1>2, ConflictsInvariant, FitParsesBack, PTL
=============================================================================
