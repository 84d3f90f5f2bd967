---------------------------- MODULE SqlSimProofs ----------------------------
(***************************************************************************)
(* Proofs about SqlSim and SqlSimX: what sqlsim reports is a bug, and what *)
(* sqlsimx writes has the result of what it was given.                     *)
(***************************************************************************)
EXTENDS SqlSim, SqlSimX, FiniteSetTheorems, SequenceTheorems, WellFoundedInduction, TLAPS

-----------------------------------------------------------------------------
(* Rows that occur in a result at least as often as in another: each of    *)
(* the other's positions has one of its own in it, with the same row.      *)

IsRows(l) == \E S : l \in Seq(S)

Embedding(g, l, r) ==
    /\ g \in [DOMAIN l -> DOMAIN r]
    /\ \A i, j \in DOMAIN l : g[i] = g[j] => i = j
    /\ \A i \in DOMAIN l : r[g[i]] = l[i]

Within(l, r) == \E g : Embedding(g, l, r)

\* What is known of such a sequence.
LEMMA RowsFacts ==
    ASSUME NEW l, IsRows(l)
    PROVE  /\ Len(l) \in Nat /\ DOMAIN l = 1 .. Len(l) /\ IsFiniteSet(DOMAIN l)
           /\ ToSet(l) = {l[i] : i \in DOMAIN l} /\ IsFiniteSet(ToSet(l))
           /\ l \in Seq(ToSet(l))
<1>1. PICK S : l \in Seq(S)
  BY DEF IsRows
<1>2. Len(l) \in Nat /\ DOMAIN l = 1 .. Len(l) /\ l \in [1 .. Len(l) -> S]
  BY <1>1
<1>3. IsFiniteSet(DOMAIN l)
  BY <1>2, FS_Interval
<1>4. ToSet(l) = {l[i] : i \in DOMAIN l}
  BY DEF ToSet
<1>5. l \in Surjection(DOMAIN l, ToSet(l))
  BY <1>2, <1>4 DEF Surjection
<1>6. IsFiniteSet(ToSet(l))
  BY <1>3, <1>5, FS_Surjection
<1>7. l \in Seq(ToSet(l))
  BY <1>2, <1>4
<1> QED
  BY <1>2, <1>3, <1>4, <1>6, <1>7

\* What a function from 1 .. n is.
LEMMA RowsIntro ==
    ASSUME NEW n \in Nat, NEW l, l = [i \in 1 .. n |-> l[i]]
    PROVE  IsRows(l) /\ Len(l) = n /\ DOMAIN l = 1 .. n
<1> DEFINE S == {l[i] : i \in 1 .. n}
<1>1. l \in [1 .. n -> S]
  OBVIOUS
<1>2. l \in Seq(S) /\ DOMAIN l = 1 .. n
  BY <1>1
<1> HIDE DEF S
<1>3. Len(l) = n
  BY <1>2
<1> QED
  BY <1>2, <1>3 DEF IsRows

\* Nothing is within anything.
LEMMA EmptyWithin ==
    ASSUME NEW r
    PROVE  IsRows(<<>>) /\ Within(<<>>, r)
<1>1. <<>> \in Seq({})
  OBVIOUS
<1>2. Embedding(<<>>, <<>>, r)
  BY DEF Embedding
<1> QED
  BY <1>1, <1>2 DEF IsRows, Within

\* A result is within itself.
LEMMA WithinItself ==
    ASSUME NEW l
    PROVE  Within(l, l)
<1>1. Embedding([i \in DOMAIN l |-> i], l, l)
  BY DEF Embedding
<1> QED
  BY <1>1 DEF Within

\* The rows of one occur in the other.
LEMMA WithinToSet ==
    ASSUME NEW l, IsRows(l), NEW r, IsRows(r), Within(l, r)
    PROVE  ToSet(l) \subseteq ToSet(r)
<1>1. PICK g : Embedding(g, l, r)
  BY DEF Within
<1> QED
  BY <1>1, RowsFacts DEF Embedding

\* Results one after the other.
LEMMA ConcatWithin ==
    ASSUME NEW l1, IsRows(l1), NEW l2, IsRows(l2), NEW r1, IsRows(r1), NEW r2, IsRows(r2),
           Within(l1, l2), Within(r1, r2)
    PROVE  Within(l1 \o r1, l2 \o r2)
<1>1. PICK g : Embedding(g, l1, l2)
  BY DEF Within
<1>2. PICK h : Embedding(h, r1, r2)
  BY DEF Within
<1> DEFINE m1 == Len(l1)  m2 == Len(l2)  n1 == Len(r1)  n2 == Len(r2)
<1>3. /\ m1 \in Nat /\ DOMAIN l1 = 1 .. m1 /\ m2 \in Nat /\ DOMAIN l2 = 1 .. m2
      /\ n1 \in Nat /\ DOMAIN r1 = 1 .. n1 /\ n2 \in Nat /\ DOMAIN r2 = 1 .. n2
  BY RowsFacts
<1>4. /\ DOMAIN (l1 \o r1) = 1 .. m1 + n1
      /\ \A i \in 1 .. m1 + n1 : (l1 \o r1)[i] = IF i <= m1 THEN l1[i] ELSE r1[i - m1]
  <2>1. l1 \in Seq(ToSet(l1) \cup ToSet(r1)) /\ r1 \in Seq(ToSet(l1) \cup ToSet(r1))
    BY RowsFacts
  <2> QED
    BY <2>1, ConcatProperties
<1>5. /\ DOMAIN (l2 \o r2) = 1 .. m2 + n2
      /\ \A i \in 1 .. m2 + n2 : (l2 \o r2)[i] = IF i <= m2 THEN l2[i] ELSE r2[i - m2]
  <2>1. l2 \in Seq(ToSet(l2) \cup ToSet(r2)) /\ r2 \in Seq(ToSet(l2) \cup ToSet(r2))
    BY RowsFacts
  <2> QED
    BY <2>1, ConcatProperties
<1> DEFINE l == l1 \o r1  r == l2 \o r2
           e == [i \in 1 .. m1 + n1 |-> IF i <= m1 THEN g[i] ELSE m2 + h[i - m1]]
<1>6. /\ \A i \in 1 .. m1 : g[i] \in 1 .. m2 /\ l2[g[i]] = l1[i]
      /\ \A i \in 1 .. n1 : h[i] \in 1 .. n2 /\ r2[h[i]] = r1[i]
      /\ \A i, j \in 1 .. m1 : g[i] = g[j] => i = j
      /\ \A i, j \in 1 .. n1 : h[i] = h[j] => i = j
  BY <1>1, <1>2, <1>3 DEF Embedding
<1> HIDE DEF m1, m2, n1, n2, l, r
<1>7. \A i \in 1 .. m1 + n1 : e[i] \in 1 .. m2 + n2 /\ r[e[i]] = l[i]
  <2> TAKE i \in 1 .. m1 + n1
  <2>1. CASE i <= m1
    <3>1. i \in 1 .. m1 /\ e[i] = g[i] /\ l[i] = l1[i]
      BY <1>3, <1>4, <2>1 DEF l
    <3>2. g[i] \in 1 .. m2 + n2 /\ g[i] <= m2 /\ r[g[i]] = l2[g[i]]
      BY <1>3, <1>5, <1>6, <3>1 DEF r
    <3> QED
      BY <1>6, <3>1, <3>2
  <2>2. CASE ~(i <= m1)
    <3>1. i - m1 \in 1 .. n1 /\ e[i] = m2 + h[i - m1] /\ l[i] = r1[i - m1]
      BY <1>3, <1>4, <2>2 DEF l
    <3>2. PICK k \in 1 .. n2 : k = h[i - m1]
      BY <1>6, <3>1
    <3>3. m2 + k \in 1 .. m2 + n2 /\ ~(m2 + k <= m2) /\ m2 + k - m2 = k
      BY <1>3, <3>2
    <3>4. r[m2 + k] = r2[k]
      <4> DEFINE j == m2 + k
      <4>1. j \in 1 .. m2 + n2 /\ ~(j <= m2) /\ j - m2 = k
        BY <1>3, <3>2
      <4> HIDE DEF j
      <4>2. r[j] = r2[j - m2]
        BY <1>5, <4>1 DEF r
      <4> QED
        BY <4>1, <4>2 DEF j
    <3> QED
      BY <1>6, <3>1, <3>2, <3>3, <3>4
  <2> QED
    BY <2>1, <2>2
<1>8. \A i, j \in 1 .. m1 + n1 : e[i] = e[j] => i = j
  <2> SUFFICES ASSUME NEW i \in 1 .. m1 + n1, NEW j \in 1 .. m1 + n1, e[i] = e[j]
               PROVE  i = j
    OBVIOUS
  <2>1. \A k \in 1 .. m1 + n1 : k <= m1 => k \in 1 .. m1 /\ e[k] = g[k] /\ g[k] \in 1 .. m2
    BY <1>3, <1>6
  <2>2. \A k \in 1 .. m1 + n1 : ~(k <= m1) =>
            k - m1 \in 1 .. n1 /\ e[k] = m2 + h[k - m1] /\ h[k - m1] \in 1 .. n2
    BY <1>3, <1>6
  <2> HIDE DEF e
  <2>3. CASE i <= m1 /\ j <= m1
    BY <1>6, <2>1, <2>3
  <2>4. CASE ~(i <= m1) /\ ~(j <= m1)
    <3>1. h[i - m1] = h[j - m1]
      BY <1>3, <2>2, <2>4
    <3>2. i - m1 = j - m1
      BY <1>6, <2>2, <2>4, <3>1
    <3> QED
      BY <1>3, <3>2
  <2>5. CASE i <= m1 /\ ~(j <= m1)
    BY <1>3, <2>1, <2>2, <2>5
  <2>6. CASE ~(i <= m1) /\ j <= m1
    BY <1>3, <2>1, <2>2, <2>6
  <2> QED
    BY <2>3, <2>4, <2>5, <2>6
<1>9. Embedding(e, l, r)
  <2>1. DOMAIN l = 1 .. m1 + n1 /\ DOMAIN r = 1 .. m2 + n2
    BY <1>4, <1>5 DEF l, r
  <2>2. e \in [1 .. m1 + n1 -> 1 .. m2 + n2]
    BY <1>7
  <2> HIDE DEF e
  <2> QED
    BY <1>7, <1>8, <2>1, <2>2 DEF Embedding
<1> QED
  BY <1>9 DEF Within, l, r

\* The sequence that stands for a set has each element once.
LEMMA SetSequence ==
    ASSUME NEW S, IsFiniteSet(S)
    PROVE  /\ SetToSeq(S) \in [1 .. Cardinality(S) -> S]
           /\ \A i, j \in 1 .. Cardinality(S) : SetToSeq(S)[i] = SetToSeq(S)[j] => i = j
           /\ IsRows(SetToSeq(S)) /\ ToSet(SetToSeq(S)) = S
<1> DEFINE n == Cardinality(S)  f == SetToSeq(S)
<1>1. n \in Nat /\ IsFiniteSet(1 .. n) /\ Cardinality(1 .. n) = n
  BY FS_CardinalityType, FS_Interval
<1>2. PICK b : b \in Bijection(1 .. n, S)
  BY FS_CardinalityType DEF ExistsBijection
<1>3. b \in [1 .. n -> S] /\ IsInjective(b)
  BY <1>2 DEF Bijection, Injection
<1>4. f \in [1 .. n -> S] /\ IsInjective(f)
  BY <1>3 DEF SetToSeq
<1>5. f \in Injection(1 .. n, S)
  BY <1>4 DEF Injection
<1>6. f \in Surjection(1 .. n, S)
  BY <1>1, <1>5, FS_Injection
<1>7. \A s \in S : \E i \in 1 .. n : f[i] = s
  BY <1>6 DEF Surjection
<1> HIDE DEF f
<1>8. f = [i \in 1 .. n |-> f[i]] /\ DOMAIN f = 1 .. n
  BY <1>4
<1>9. IsRows(f) /\ ToSet(f) = {f[i] : i \in DOMAIN f}
  BY <1>1, <1>8, RowsIntro, RowsFacts
<1>10. ToSet(f) = S
  BY <1>4, <1>7, <1>8, <1>9
<1> QED
  BY <1>4, <1>8, <1>9, <1>10 DEF f, IsInjective

\* Different rows that all occur in a result.
LEMMA SetWithin ==
    ASSUME NEW S, IsFiniteSet(S), NEW r, IsRows(r), S \subseteq ToSet(r)
    PROVE  Within(SetToSeq(S), r)
<1> DEFINE f == SetToSeq(S)  n == Cardinality(S)
           g == [i \in 1 .. n |-> CHOOSE k \in DOMAIN r : r[k] = f[i]]
<1>1. f \in [1 .. n -> S] /\ \A i, j \in 1 .. n : f[i] = f[j] => i = j
  BY SetSequence
<1> HIDE DEF f, n
<1>2. \A i \in 1 .. n : \E k \in DOMAIN r : r[k] = f[i]
  BY <1>1, RowsFacts
<1>3. \A i \in 1 .. n : g[i] \in DOMAIN r /\ r[g[i]] = f[i]
  BY <1>2
<1>4. g \in [1 .. n -> DOMAIN r] /\ DOMAIN f = 1 .. n
  BY <1>1, <1>3
<1> HIDE DEF g
<1>5. \A i, j \in 1 .. n : g[i] = g[j] => i = j
  BY <1>1, <1>3
<1>6. Embedding(g, f, r)
  BY <1>3, <1>4, <1>5 DEF Embedding
<1> QED
  BY <1>6 DEF Within, f

\* The elements of a finite set of numbers, ascending.
LEMMA AscendingOnto ==
    ASSUME NEW S \in SUBSET Int, IsFiniteSet(S)
    PROVE  /\ Ascending(S) \in [1 .. Cardinality(S) -> S]
           /\ \A i, j \in 1 .. Cardinality(S) : Ascending(S)[i] = Ascending(S)[j] => i = j
           /\ \A s \in S : \E i \in 1 .. Cardinality(S) : Ascending(S)[i] = s
<1> DEFINE n == Cardinality(S)
           UpTo(j) == {h \in S : h <= j}
           rank == [j \in S |-> Cardinality(UpTo(j))]
           a == Ascending(S)
<1>1. n \in Nat /\ IsFiniteSet(1 .. n) /\ Cardinality(1 .. n) = n
  BY FS_CardinalityType, FS_Interval
<1>2. \A j \in S : rank[j] \in 1 .. n
  <2> TAKE j \in S
  <2>1. UpTo(j) \in SUBSET S /\ j \in UpTo(j)
    OBVIOUS
  <2>2. IsFiniteSet(UpTo(j)) /\ Cardinality(UpTo(j)) <= n
    BY <2>1, FS_Subset
  <2>3. Cardinality(UpTo(j)) \in Nat /\ Cardinality(UpTo(j)) # 0
    BY <2>1, <2>2, FS_CardinalityType, FS_EmptySet
  <2> QED
    BY <1>1, <2>2, <2>3
<1>3. \A i, j \in S : rank[i] = rank[j] => i = j
  <2>1. ASSUME NEW i \in S, NEW j \in S, i < j, rank[i] = rank[j]
        PROVE  FALSE
    <3>1. UpTo(i) \in SUBSET UpTo(j) /\ j \in UpTo(j) /\ j \notin UpTo(i)
      <4>1. \A h \in S : h <= i => h <= j
        BY <2>1
      <4>2. j <= j /\ ~(j <= i)
        BY <2>1
      <4> QED
        BY <4>1, <4>2
    <3>2. IsFiniteSet(UpTo(j))
      BY FS_Subset
    <3>3. UpTo(j) = UpTo(i)
      BY <2>1, <3>1, <3>2, FS_Subset
    <3> QED
      BY <3>1, <3>3
  <2>2. ASSUME NEW i \in S, NEW j \in S, rank[i] = rank[j], i # j
        PROVE  FALSE
    <3>1. i < j \/ j < i
      BY <2>2
    <3> QED
      BY <2>1, <2>2, <3>1
  <2> QED
    BY <2>2
<1>4. rank \in Injection(S, 1 .. n)
  <2>1. rank \in [S -> 1 .. n]
    BY <1>2
  <2> HIDE DEF rank
  <2> QED
    BY <1>3, <2>1 DEF Injection, IsInjective
<1>5. rank \in Surjection(S, 1 .. n)
  BY <1>1, <1>4, FS_Injection
<1>6. \A k \in 1 .. n : \E j \in S : Cardinality(UpTo(j)) = k
  BY <1>5 DEF Surjection
<1>7. \A k \in 1 .. n : a[k] \in S /\ rank[a[k]] = k
  <2> TAKE k \in 1 .. n
  <2>1. a[k] = CHOOSE j \in S : Cardinality(UpTo(j)) = k
    BY DEF Ascending
  <2>2. a[k] \in S /\ Cardinality(UpTo(a[k])) = k
    BY <1>6, <2>1
  <2> QED
    BY <2>2
<1>8. a \in [1 .. n -> S]
  <2> DEFINE pick(k) == CHOOSE j \in S : Cardinality(UpTo(j)) = k
  <2>1. a = [k \in 1 .. n |-> pick(k)]
    BY DEF Ascending
  <2> HIDE DEF a, n, pick
  <2> QED
    BY <1>7, <2>1
<1> HIDE DEF rank, a, n
<1>9. \A i, j \in 1 .. n : a[i] = a[j] => i = j
  BY <1>7
<1>10. \A s \in S : \E i \in 1 .. n : a[i] = s
  <2> TAKE s \in S
  <2>1. rank[s] \in 1 .. n
    BY <1>2
  <2>2. a[rank[s]] \in S /\ rank[a[rank[s]]] = rank[s]
    BY <1>7, <2>1
  <2>3. a[rank[s]] = s
    BY <1>3, <2>2
  <2> QED
    BY <2>1, <2>3
<1> QED
  BY <1>8, <1>9, <1>10 DEF a, n

-----------------------------------------------------------------------------
(* Selecting from rows that are within others.                             *)

\* The positions a WHERE keeps of a source, ascending, and the rows it keeps,
\* as SelectRows writes them.
KeptAt(source, where) == Ascending({j \in DOMAIN source : source[j] \in where})
KeptRows(source, where, image) ==
    [k \in DOMAIN KeptAt(source, where) |-> image[source[KeptAt(source, where)[k]]]]

\* There are n of them, at different positions.
KeptAre(source, where, image, n) ==
    /\ DOMAIN KeptAt(source, where) = 1 .. n
    /\ DOMAIN KeptRows(source, where, image) = 1 .. n
    /\ \A i \in 1 .. n :
          /\ KeptAt(source, where)[i] \in DOMAIN source
          /\ source[KeptAt(source, where)[i]] \in where
          /\ KeptRows(source, where, image)[i] = image[source[KeptAt(source, where)[i]]]
    /\ \A i, j \in 1 .. n : KeptAt(source, where)[i] = KeptAt(source, where)[j] => i = j
    /\ \A s \in DOMAIN source :
          source[s] \in where => \E i \in 1 .. n : KeptAt(source, where)[i] = s

\* They are a sequence.
LEMMA KeptRowsFacts ==
    ASSUME NEW source, IsRows(source), NEW where, NEW image
    PROVE  /\ IsRows(KeptRows(source, where, image))
           /\ \E n \in Nat : KeptAre(source, where, image, n)
<1> DEFINE S == {j \in DOMAIN source : source[j] \in where}
           n == Cardinality(S)
           kept == KeptAt(source, where)
           rows == KeptRows(source, where, image)
<1>1. S \in SUBSET Int /\ IsFiniteSet(S)
  <2>1. IsFiniteSet(DOMAIN source) /\ DOMAIN source = 1 .. Len(source)
    BY RowsFacts
  <2>2. S \in SUBSET DOMAIN source
    OBVIOUS
  <2> HIDE DEF S
  <2>3. IsFiniteSet(S)
    BY <2>1, <2>2, FS_Subset
  <2> QED
    BY <2>1, <2>2, <2>3
<1>2. n \in Nat
  BY <1>1, FS_CardinalityType
<1>3. kept = Ascending(S)
  BY DEF KeptAt
<1>4. \A s \in S : s \in DOMAIN source /\ source[s] \in where
  OBVIOUS
<1>5. \A s \in DOMAIN source : source[s] \in where => s \in S
  OBVIOUS
<1> HIDE DEF S, kept
<1>6. /\ kept \in [1 .. n -> S]
      /\ \A i, j \in 1 .. n : kept[i] = kept[j] => i = j
      /\ \A s \in S : \E i \in 1 .. n : kept[i] = s
  BY <1>1, <1>3, AscendingOnto
<1>7. rows = [k \in 1 .. n |-> image[source[kept[k]]]]
  BY <1>6 DEF KeptRows, kept
<1> HIDE DEF rows, n
<1>8. rows = [k \in 1 .. n |-> rows[k]]
  BY <1>7
<1>9. IsRows(rows)
  BY <1>2, <1>8, RowsIntro
<1>10. DOMAIN rows = 1 .. n /\ DOMAIN kept = 1 .. n
  BY <1>6, <1>7
<1>11. \A k \in 1 .. n : rows[k] = image[source[kept[k]]]
  BY <1>7
<1>12. \A k \in 1 .. n : kept[k] \in DOMAIN source /\ source[kept[k]] \in where
  BY <1>4, <1>6
<1>13. \A s \in DOMAIN source : source[s] \in where => \E i \in 1 .. n : kept[i] = s
  BY <1>5, <1>6
<1> QED
  BY <1>2, <1>6, <1>9, <1>10, <1>11, <1>12, <1>13 DEF kept, rows, KeptAre

\* A WHERE that keeps more, of a source that has more.
LEMMA KeptWithin ==
    ASSUME NEW c1, IsRows(c1), NEW c2, IsRows(c2), Within(c1, c2),
           NEW w1, NEW w2, w1 \subseteq w2, NEW image
    PROVE  Within(KeptRows(c1, w1, image), KeptRows(c2, w2, image))
<1>1. PICK g : Embedding(g, c1, c2)
  BY DEF Within
<1> DEFINE a1 == KeptAt(c1, w1)
           a2 == KeptAt(c2, w2)
           l == KeptRows(c1, w1, image)
           r == KeptRows(c2, w2, image)
<1>11. PICK n1 \in Nat : KeptAre(c1, w1, image, n1)
  BY KeptRowsFacts
<1>12. PICK n2 \in Nat : KeptAre(c2, w2, image, n2)
  BY KeptRowsFacts
<1>2. /\ DOMAIN l = 1 .. n1
      /\ \A i \in 1 .. n1 : /\ a1[i] \in DOMAIN c1 /\ c1[a1[i]] \in w1
                            /\ l[i] = image[c1[a1[i]]]
      /\ \A i, j \in 1 .. n1 : a1[i] = a1[j] => i = j
  BY <1>11 DEF KeptAre
<1>3. /\ DOMAIN r = 1 .. n2
      /\ \A i \in 1 .. n2 : r[i] = image[c2[a2[i]]]
      /\ \A s \in DOMAIN c2 : c2[s] \in w2 => \E i \in 1 .. n2 : a2[i] = s
  BY <1>12 DEF KeptAre
<1> DEFINE h == [k \in 1 .. n1 |-> CHOOSE m \in 1 .. n2 : a2[m] = g[a1[k]]]
<1>4. \A j \in DOMAIN c1 : g[j] \in DOMAIN c2 /\ c2[g[j]] = c1[j]
  BY <1>1 DEF Embedding
<1>5. \A i, j \in DOMAIN c1 : g[i] = g[j] => i = j
  BY <1>1 DEF Embedding
<1> HIDE DEF a1, a2, l, r
<1>6. \A k \in 1 .. n1 : h[k] \in 1 .. n2 /\ a2[h[k]] = g[a1[k]]
  <2> TAKE k \in 1 .. n1
  <2>1. g[a1[k]] \in DOMAIN c2 /\ c2[g[a1[k]]] \in w2
    BY <1>2, <1>4
  <2>2. \E m \in 1 .. n2 : a2[m] = g[a1[k]]
    BY <1>3, <2>1
  <2> QED
    BY <2>2
<1>7. h \in [1 .. n1 -> 1 .. n2]
  BY <1>6
<1> HIDE DEF h
<1>8. \A i, j \in 1 .. n1 : h[i] = h[j] => i = j
  <2> TAKE i, j \in 1 .. n1
  <2> HAVE h[i] = h[j]
  <2>1. g[a1[i]] = g[a1[j]]
    BY <1>6
  <2>2. a1[i] = a1[j]
    BY <1>2, <1>5, <2>1
  <2> QED
    BY <1>2, <2>2
<1>9. \A k \in 1 .. n1 : r[h[k]] = l[k]
  <2> TAKE k \in 1 .. n1
  <2>1. r[h[k]] = image[c2[g[a1[k]]]]
    BY <1>3, <1>6
  <2>2. c2[g[a1[k]]] = c1[a1[k]]
    BY <1>2, <1>4
  <2> QED
    BY <1>2, <2>1, <2>2
<1>10. Embedding(h, l, r)
  BY <1>2, <1>3, <1>7, <1>8, <1>9 DEF Embedding
<1> QED
  BY <1>10 DEF Within, l, r

-----------------------------------------------------------------------------
(* Set operations.                                                         *)

Ops == {"UNION", "UNION ALL", "INTERSECT", "EXCEPT"}

\* A set operation of sequences is one.
LEMMA SetOperationRows ==
    ASSUME NEW op \in Ops, NEW l, IsRows(l), NEW r, IsRows(r)
    PROVE  /\ IsRows(l \o r) /\ ToSet(l \o r) = ToSet(l) \cup ToSet(r)
           /\ IsRows(SetOperation2(op, l, r))
<1> DEFINE S == ToSet(l) \cup ToSet(r)
<1>1. l \in Seq(S) /\ r \in Seq(S)
  BY RowsFacts
<1>2. l \o r \in Seq(S)
  BY <1>1, ConcatProperties
<1>3. IsRows(l \o r)
  BY <1>2 DEF IsRows
<1>4. ToSet(l \o r) = ToSet(l) \cup ToSet(r)
  <2> DEFINE m == Len(l)  n == Len(r)  b == l \o r
  <2>1. /\ m \in Nat /\ n \in Nat /\ DOMAIN l = 1 .. m /\ DOMAIN r = 1 .. n
        /\ ToSet(l) = {l[i] : i \in DOMAIN l} /\ ToSet(r) = {r[i] : i \in DOMAIN r}
        /\ ToSet(b) = {b[i] : i \in DOMAIN b}
    BY <1>3, RowsFacts
  <2>2. /\ DOMAIN b = 1 .. m + n
        /\ \A i \in 1 .. m + n : b[i] = IF i <= m THEN l[i] ELSE r[i - m]
    BY <1>1, ConcatProperties
  <2> HIDE DEF m, n, b
  <2>3. \A k \in 1 .. m : k \in 1 .. m + n /\ b[k] = l[k]
    BY <2>1, <2>2
  <2>4. \A k \in 1 .. n : \E i \in 1 .. m + n : b[i] = r[k]
    <3> TAKE k \in 1 .. n
    <3>1. PICK i : i = m + k
      OBVIOUS
    <3>2. i \in 1 .. m + n /\ ~(i <= m) /\ i - m = k
      BY <2>1, <3>1
    <3>3. b[i] = r[i - m]
      BY <2>2, <3>2
    <3> QED
      BY <3>2, <3>3
  <2>5. \A i \in 1 .. m + n : (i \in 1 .. m /\ b[i] = l[i]) \/ (i - m \in 1 .. n /\ b[i] = r[i - m])
    BY <2>1, <2>2
  <2>6. ToSet(b) = ToSet(l) \cup ToSet(r)
    BY <2>1, <2>2, <2>3, <2>4, <2>5
  <2> QED
    BY <2>6 DEF b
<1>5. /\ IsFiniteSet(ToSet(l \o r)) /\ IsFiniteSet(ToSet(l) \cap ToSet(r))
      /\ IsFiniteSet(ToSet(l) \ ToSet(r))
  BY <1>3, RowsFacts, FS_Intersection, FS_Difference
<1>6. /\ IsRows(SetToSeq(ToSet(l \o r))) /\ IsRows(SetToSeq(ToSet(l) \cap ToSet(r)))
      /\ IsRows(SetToSeq(ToSet(l) \ ToSet(r)))
  BY <1>5, SetSequence
<1> QED
  BY <1>3, <1>4, <1>6 DEF SetOperation2, Ops

\* What a set operation of less makes is within what it makes of more; for
\* EXCEPT the right side stays.
LEMMA SetOperationWithin ==
    ASSUME NEW op1 \in Ops, NEW op2 \in Ops,
           op1 = op2 \/ (op1 = "UNION" /\ op2 = "UNION ALL"),
           NEW l1, IsRows(l1), NEW l2, IsRows(l2), Within(l1, l2),
           NEW r1, IsRows(r1), NEW r2, IsRows(r2), Within(r1, r2),
           op1 = "EXCEPT" => ToSet(r1) = ToSet(r2)
    PROVE  Within(SetOperation2(op1, l1, r1), SetOperation2(op2, l2, r2))
<1>1. /\ IsRows(l2 \o r2) /\ IsRows(l1 \o r1)
      /\ ToSet(l1 \o r1) = ToSet(l1) \cup ToSet(r1) /\ ToSet(l2 \o r2) = ToSet(l2) \cup ToSet(r2)
  BY SetOperationRows
<1>2. ToSet(l1) \subseteq ToSet(l2) /\ ToSet(r1) \subseteq ToSet(r2)
  BY WithinToSet
<1>3. /\ IsFiniteSet(ToSet(l1)) /\ IsFiniteSet(ToSet(l2))
      /\ IsFiniteSet(ToSet(l1 \o r1)) /\ IsFiniteSet(ToSet(l2 \o r2))
  BY <1>1, RowsFacts
<1>4. ASSUME NEW S, IsFiniteSet(S), NEW U, IsFiniteSet(U), S \subseteq U
      PROVE  Within(SetToSeq(S), SetToSeq(U))
  <2>1. IsRows(SetToSeq(U)) /\ ToSet(SetToSeq(U)) = U
    BY <1>4, SetSequence
  <2> QED
    BY <1>4, <2>1, SetWithin
<1>5. CASE op1 = "UNION ALL"
  <2>1. op2 = "UNION ALL"
    BY <1>5
  <2> QED
    BY <1>5, <2>1, ConcatWithin DEF SetOperation2
<1>6. CASE op1 = "UNION" /\ op2 = "UNION ALL"
  <2>1. Within(SetToSeq(ToSet(l1 \o r1)), l2 \o r2)
    BY <1>1, <1>2, <1>3, SetWithin
  <2> QED
    BY <1>6, <2>1 DEF SetOperation2
<1>7. CASE op1 = "UNION" /\ op2 = "UNION"
  <2>1. Within(SetToSeq(ToSet(l1 \o r1)), SetToSeq(ToSet(l2 \o r2)))
    BY <1>1, <1>2, <1>3, <1>4
  <2> QED
    BY <1>7, <2>1 DEF SetOperation2
<1>8. CASE op1 = "INTERSECT"
  <2>1. /\ ToSet(l1) \cap ToSet(r1) \subseteq ToSet(l2) \cap ToSet(r2)
        /\ IsFiniteSet(ToSet(l1) \cap ToSet(r1)) /\ IsFiniteSet(ToSet(l2) \cap ToSet(r2))
    BY <1>2, <1>3, FS_Intersection
  <2>2. Within(SetToSeq(ToSet(l1) \cap ToSet(r1)), SetToSeq(ToSet(l2) \cap ToSet(r2)))
    BY <1>4, <2>1
  <2>3. op2 = "INTERSECT"
    BY <1>8
  <2> QED
    BY <1>8, <2>2, <2>3 DEF SetOperation2
<1>9. CASE op1 = "EXCEPT"
  <2>1. /\ ToSet(l1) \ ToSet(r1) \subseteq ToSet(l2) \ ToSet(r2)
        /\ IsFiniteSet(ToSet(l1) \ ToSet(r1)) /\ IsFiniteSet(ToSet(l2) \ ToSet(r2))
    BY <1>2, <1>3, <1>9, FS_Difference
  <2>2. Within(SetToSeq(ToSet(l1) \ ToSet(r1)), SetToSeq(ToSet(l2) \ ToSet(r2)))
    BY <1>4, <2>1
  <2>3. op2 = "EXCEPT"
    BY <1>9
  <2> QED
    BY <1>9, <2>2, <2>3 DEF SetOperation2
<1> QED
  BY <1>5, <1>6, <1>7, <1>8, <1>9 DEF Ops

-----------------------------------------------------------------------------
(* Induction, for a set in place of a predicate.                           *)

\* A set of numbers has a least one.
LEMMA LeastNumber ==
    ASSUME NEW T \in SUBSET Nat, T # {}
    PROVE  \E x \in T : \A y \in T : x <= y
<1>1. IsWellFoundedOn(OpToRel(<, Nat), Nat)
  BY NatLessThanWellFounded
<1>2. PICK x \in T : \A y \in T : <<y, x>> \notin OpToRel(<, Nat)
  BY <1>1, WFMin
<1>3. ASSUME NEW y \in T
      PROVE  x <= y
  <2>1. x \in Nat /\ y \in Nat
    OBVIOUS
  <2>2. y < x => <<y, x>> \in OpToRel(<, Nat)
    BY <2>1 DEF OpToRel
  <2>3. ~(y < x)
    BY <1>2, <2>2
  <2> QED
    BY <2>1, <2>3
<1> QED
  BY <1>3

\* What holds for 0 and for the next number holds for all.
LEMMA Induction ==
    ASSUME NEW S, 0 \in S, \A n \in Nat : n \in S => n + 1 \in S
    PROVE  Nat \subseteq S
<1> SUFFICES ASSUME Nat \ S # {}
             PROVE  FALSE
  OBVIOUS
<1>1. PICK x \in Nat \ S : \A y \in Nat \ S : x <= y
  BY LeastNumber
<1>2. x \in Nat /\ x # 0
  BY <1>1
<1>3. x - 1 \in Nat /\ (x - 1) + 1 = x /\ x - 1 \in S
  BY <1>1, <1>2
<1> QED
  BY <1>1, <1>3

-----------------------------------------------------------------------------
(* The rows of a query, arm by arm.                                        *)

\* rows[n] is what the first n arms make.
Accumulates(rows, m, op, arms) ==
    rows = [n \in 1 .. m |-> IF n = 1 THEN arms[n] ELSE SetOperation2(op, rows[n - 1], arms[n])]

\* The recursion of QueryRows has a solution.
LEMMA AccumulationExists ==
    ASSUME NEW op, NEW arms
    PROVE  \A m \in Nat : \E rows : Accumulates(rows, m, op, arms)
<1> DEFINE S == {n \in Nat : \E rows : Accumulates(rows, n, op, arms)}
<1>1. 0 \in S
  <2>1. Accumulates([n \in 1 .. 0 |-> 0], 0, op, arms)
    BY DEF Accumulates
  <2> QED
    BY <2>1
<1>2. ASSUME NEW m \in Nat, m \in S
      PROVE  m + 1 \in S
  <2>1. PICK g : Accumulates(g, m, op, arms)
    BY <1>2
  <2> DEFINE last == IF m + 1 = 1 THEN arms[m + 1] ELSE SetOperation2(op, g[m], arms[m + 1])
             h == [n \in 1 .. m + 1 |-> IF n = m + 1 THEN last ELSE g[n]]
  <2>2. \A n \in 1 .. m : g[n] = IF n = 1 THEN arms[n] ELSE SetOperation2(op, g[n - 1], arms[n])
    BY <2>1 DEF Accumulates
  <2>3. \A n \in 1 .. m : n # m + 1 /\ n \in 1 .. m + 1
    OBVIOUS
  <2>4. \A n \in 1 .. m : h[n] = g[n]
    <3> HIDE DEF last
    <3> QED
      BY <2>3
  <2>5. h[m + 1] = last /\ h = [n \in 1 .. m + 1 |-> h[n]]
    <3>1. m + 1 \in 1 .. m + 1
      OBVIOUS
    <3> HIDE DEF last
    <3> QED
      BY <3>1
  <2> HIDE DEF h
  <2>6. \A n \in 1 .. m + 1 :
            h[n] = IF n = 1 THEN arms[n] ELSE SetOperation2(op, h[n - 1], arms[n])
    <3> TAKE n \in 1 .. m + 1
    <3>1. CASE n = m + 1
      <4>1. CASE m = 0
        BY <2>5, <3>1, <4>1
      <4>2. CASE m # 0
        <5>1. m \in 1 .. m /\ n - 1 = m /\ n # 1 /\ m + 1 # 1
          BY <3>1, <4>2
        <5> QED
          BY <2>4, <2>5, <3>1, <5>1
      <4> QED
        BY <4>1, <4>2
    <3>2. CASE n # m + 1
      <4>1. n \in 1 .. m
        BY <3>2
      <4>2. CASE n = 1
        BY <2>2, <2>4, <4>1, <4>2
      <4>3. CASE n # 1
        <5>1. n - 1 \in 1 .. m
          BY <4>1, <4>3
        <5> QED
          BY <2>2, <2>4, <4>1, <4>3, <5>1
      <4> QED
        BY <4>2, <4>3
    <3> QED
      BY <3>1, <3>2
  <2>7. Accumulates(h, m + 1, op, arms)
    BY <2>5, <2>6 DEF Accumulates
  <2> QED
    BY <2>7
<1> HIDE DEF S
<1>3. Nat \subseteq S
  BY <1>1, <1>2, Induction
<1> QED
  BY <1>3 DEF S

\* The rows of each arm on its own.
ArmRows(q, c, d, features) ==
    [n \in DOMAIN Arms(q) |-> SelectRows(Arms(q)[n], c, d, features)]

\* What QueryRows computes.
LEMMA QueryRowsUnfold ==
    ASSUME NEW q, NEW c, NEW d, NEW features, NEW m \in Nat, DOMAIN Arms(q) = 1 .. m,
           Len(Arms(q)) = m
    PROVE  \E rows : /\ Accumulates(rows, m, q.op, ArmRows(q, c, d, features))
                     /\ QueryRows(q, c, d, features) = rows[m]
<1> DEFINE arms == ArmRows(q, c, d, features)
           Solves(rows) == rows = [n \in DOMAIN Arms(q) |->
                                      LET arm == SelectRows(Arms(q)[n], c, d, features)
                                      IN  IF n = 1 THEN arm
                                          ELSE SetOperation2(q.op, rows[n - 1], arm)]
           R == CHOOSE rows : Solves(rows)
<1>1. \A rows : Solves(rows) <=> Accumulates(rows, m, q.op, arms)
  BY DEF Accumulates, ArmRows
<1>2. QueryRows(q, c, d, features) = R[Len(Arms(q))]
  BY DEF QueryRows
<1> HIDE DEF arms, Solves
<1>3. \E rows : Solves(rows)
  BY <1>1, AccumulationExists
<1>4. Solves(R)
  BY <1>3
<1> QED
  BY <1>1, <1>2, <1>4 DEF arms

-----------------------------------------------------------------------------
(* Statements, and the rows a DBMS without the bug selects for them.       *)

\* What a query consists of.
LEMMA QueryFacts ==
    ASSUME NEW q, IsQuery(q)
    PROVE  \E m \in Nat \ {0} :
               /\ Len(Arms(q)) = m /\ DOMAIN Arms(q) = 1 .. m
               /\ \A i \in 1 .. m : IsSelect(Arms(q)[i])
               /\ q.kind = "select" => m = 1 /\ Arms(q)[1] = q
               /\ q.kind # "select" =>
                    /\ q.kind = "setop" /\ q.op \in Ops /\ Arms(q) = q.sels
                    /\ \A i \in 1 .. m : q.sels[i].with = <<>>
<1>1. CASE q.kind = "select"
  <2>1. Arms(q) = <<q>> /\ IsSelect(q)
    BY <1>1 DEF Arms, IsQuery
  <2>2. Len(<<q>>) = 1 /\ DOMAIN <<q>> = 1 .. 1 /\ <<q>>[1] = q
    OBVIOUS
  <2>3. \A i \in 1 .. 1 : i = 1
    OBVIOUS
  <2> QED
    BY <1>1, <2>1, <2>2, <2>3
<1>2. CASE q.kind # "select"
  <2>1. IsSetOp(q) /\ Arms(q) = q.sels
    BY <1>2 DEF Arms, IsQuery
  <2>2. PICK s : s = q.sels
    OBVIOUS
  <2>3. s \in Seq(ToSet(s)) /\ s # <<>>
    BY <2>1, <2>2 DEF IsSetOp
  <2>4. Len(s) \in Nat \ {0} /\ DOMAIN s = 1 .. Len(s)
    BY <2>3
  <2>5. q.kind = "setop" /\ q.op \in Ops
    <3>1. q = [kind |-> "setop", with |-> q.with, op |-> q.op, sels |-> q.sels]
      BY <2>1 DEF IsSetOp
    <3>2. q.op \in Ops
      BY <2>1 DEF IsSetOp, Ops
    <3>3. [kind |-> "setop", with |-> q.with, op |-> q.op, sels |-> q.sels].kind = "setop"
      OBVIOUS
    <3> QED
      BY <3>1, <3>2, <3>3
  <2>6. \A i \in DOMAIN s : IsSelect(s[i]) /\ s[i].with = <<>>
    BY <2>1, <2>2 DEF IsSetOp
  <2> QED
    BY <1>2, <2>1, <2>2, <2>4, <2>5, <2>6
<1> QED
  BY <1>1, <1>2

\* The rows that a select reads.
Source(s, c) == IF s.from = "c" THEN c ELSE Table

\* A DBMS without the bug selects what the WHERE keeps.
LEMMA SelectRowsCorrect ==
    ASSUME NEW s, NEW c, NEW d, NEW features, d.instead = d.where
    PROVE  SelectRows(s, c, d, features) = KeptRows(Source(s, c), s.where, Image[s.field])
<1>1. Kept(s, d, features) = s.where
  BY DEF Kept
<1> QED
  BY <1>1 DEF SelectRows, KeptRows, KeptAt, Source

\* An arm that keeps more, of a table expression that has more.
LEMMA SelectRowsNarrower ==
    ASSUME NEW s, NEW t, Narrower(s, t),
           NEW c1, IsRows(c1), NEW c2, IsRows(c2), Within(c1, c2),
           NEW d, d.instead = d.where, NEW F1, NEW F2
    PROVE  /\ IsRows(SelectRows(s, c1, d, F1)) /\ IsRows(SelectRows(t, c2, d, F2))
           /\ Within(SelectRows(s, c1, d, F1), SelectRows(t, c2, d, F2))
           /\ s.where = t.where /\ (s.from # "c" \/ c1 = c2) =>
                SelectRows(s, c1, d, F1) = SelectRows(t, c2, d, F2)
<1>1. /\ SelectRows(s, c1, d, F1) = KeptRows(Source(s, c1), s.where, Image[s.field])
      /\ SelectRows(t, c2, d, F2) = KeptRows(Source(t, c2), t.where, Image[t.field])
  BY SelectRowsCorrect
<1>2. s.from = t.from /\ s.field = t.field /\ s.where \subseteq t.where
  BY DEF Narrower
<1>3. /\ IsRows(Source(s, c1)) /\ IsRows(Source(t, c2))
      /\ Within(Source(s, c1), Source(t, c2))
  BY <1>2, TableAssumption, WithinItself DEF Source, IsRows
<1>4. (s.from # "c" \/ c1 = c2) => Source(s, c1) = Source(t, c2)
  BY <1>2 DEF Source
<1>5. IsRows(SelectRows(s, c1, d, F1)) /\ IsRows(SelectRows(t, c2, d, F2))
  BY <1>1, <1>3, KeptRowsFacts
<1>6. Within(SelectRows(s, c1, d, F1), SelectRows(t, c2, d, F2))
  <2>1. Within(KeptRows(Source(s, c1), s.where, Image[s.field]),
               KeptRows(Source(t, c2), t.where, Image[s.field]))
    BY <1>2, <1>3, KeptWithin
  <2> QED
    BY <1>1, <1>2, <2>1
<1> QED
  BY <1>1, <1>2, <1>4, <1>5, <1>6

\* The arms that are taken away from are the same in both.
Fixed(p, c1, c2) ==
    p.kind = "setop" /\ p.op = "EXCEPT" =>
        \A i \in 2 .. Len(Arms(p)) : Arms(p)[i].from # "c" \/ c1 = c2

\* Arm by arm, the query below selects rows that are within the other's.
LEMMA QueryRowsBelow ==
    ASSUME NEW p, IsQuery(p), NEW q, IsQuery(q), Below(p, q),
           NEW c1, IsRows(c1), NEW c2, IsRows(c2), Within(c1, c2), Fixed(p, c1, c2),
           NEW d, d.instead = d.where, NEW F1, NEW F2
    PROVE  /\ IsRows(QueryRows(p, c1, d, F1)) /\ IsRows(QueryRows(q, c2, d, F2))
           /\ Within(QueryRows(p, c1, d, F1), QueryRows(q, c2, d, F2))
<1>1. PICK m \in Nat \ {0} :
        /\ Len(Arms(p)) = m /\ DOMAIN Arms(p) = 1 .. m
        /\ p.kind = "select" => m = 1 /\ Arms(p)[1] = p
        /\ p.kind # "select" => p.kind = "setop" /\ p.op \in Ops
  BY QueryFacts
<1>2. PICK n \in Nat \ {0} :
        /\ Len(Arms(q)) = n /\ DOMAIN Arms(q) = 1 .. n
        /\ q.kind = "select" => n = 1
        /\ q.kind # "select" => q.kind = "setop" /\ q.op \in Ops /\ Arms(q) = q.sels
  BY QueryFacts
<1> DEFINE A1 == ArmRows(p, c1, d, F1)
           A2 == ArmRows(q, c2, d, F2)
<1>3. PICK R1 : Accumulates(R1, m, p.op, A1) /\ QueryRows(p, c1, d, F1) = R1[m]
  BY <1>1, QueryRowsUnfold
<1>4. PICK R2 : Accumulates(R2, n, q.op, A2) /\ QueryRows(q, c2, d, F2) = R2[n]
  BY <1>2, QueryRowsUnfold
<1>5. /\ \A i \in 1 .. m : A1[i] = SelectRows(Arms(p)[i], c1, d, F1)
      /\ \A i \in 1 .. n : A2[i] = SelectRows(Arms(q)[i], c2, d, F2)
  BY <1>1, <1>2 DEF ArmRows
<1> HIDE DEF A1, A2
<1>6. \A i \in 1 .. m : R1[i] = IF i = 1 THEN A1[i] ELSE SetOperation2(p.op, R1[i - 1], A1[i])
  BY <1>3 DEF Accumulates
<1>7. \A i \in 1 .. n : R2[i] = IF i = 1 THEN A2[i] ELSE SetOperation2(q.op, R2[i - 1], A2[i])
  BY <1>4 DEF Accumulates
<1>8. CASE p.kind = q.kind
  <2>1. /\ m = n
        /\ \A i \in 1 .. m : Narrower(Arms(p)[i], Arms(q)[i])
        /\ p.kind = "setop" => p.op = q.op \/ (p.op = "UNION" /\ q.op = "UNION ALL")
        /\ p.kind = "setop" /\ p.op = "EXCEPT" =>
               \A i \in 2 .. m : Arms(p)[i].where = Arms(q)[i].where
    BY <1>1, <1>2, <1>8 DEF Below
  <2>2. \A i \in 1 .. m : IsRows(A1[i]) /\ IsRows(A2[i]) /\ Within(A1[i], A2[i])
    <3> TAKE i \in 1 .. m
    <3>1. Narrower(Arms(p)[i], Arms(q)[i]) /\ i \in 1 .. n
      BY <2>1
    <3>2. A1[i] = SelectRows(Arms(p)[i], c1, d, F1) /\ A2[i] = SelectRows(Arms(q)[i], c2, d, F2)
      BY <1>5, <3>1
    <3> QED
      BY <3>1, <3>2, SelectRowsNarrower
  <2>3. p.kind = "setop" /\ p.op = "EXCEPT" => \A i \in 2 .. m : A1[i] = A2[i]
    <3> HAVE p.kind = "setop" /\ p.op = "EXCEPT"
    <3> TAKE i \in 2 .. m
    <3>1. i \in 1 .. m /\ (Arms(p)[i].from # "c" \/ c1 = c2)
      BY <1>1 DEF Fixed
    <3> QED
      BY <1>5, <2>1, <3>1, SelectRowsNarrower
  <2> DEFINE S == {i \in Nat : i \in 1 .. m => /\ IsRows(R1[i]) /\ IsRows(R2[i])
                                               /\ Within(R1[i], R2[i])}
  <2>4. 0 \in S
    OBVIOUS
  <2>5. ASSUME NEW i \in Nat, i \in S
        PROVE  i + 1 \in S
    <3> SUFFICES ASSUME i + 1 \in 1 .. m
                 PROVE  IsRows(R1[i + 1]) /\ IsRows(R2[i + 1]) /\ Within(R1[i + 1], R2[i + 1])
      OBVIOUS
    <3> DEFINE j == i + 1
    <3>1. j \in 1 .. m /\ j \in 1 .. n
      BY <2>1
    <3>2. CASE i = 0
      <4>1. j = 1
        BY <3>2
      <4> HIDE DEF j
      <4>2. R1[j] = A1[j] /\ R2[j] = A2[j]
        BY <1>6, <1>7, <3>1, <4>1
      <4>3. IsRows(R1[j]) /\ IsRows(R2[j]) /\ Within(R1[j], R2[j])
        BY <2>2, <3>1, <4>2
      <4> QED
        BY <4>3 DEF j
    <3>3. CASE i # 0
      <4>1. j # 1 /\ j - 1 = i /\ i \in 1 .. m /\ j \in 2 .. m
        BY <3>1, <3>3
      <4>2. IsRows(R1[i]) /\ IsRows(R2[i]) /\ Within(R1[i], R2[i])
        BY <2>5, <4>1
      <4>3. p.kind = "setop" /\ q.kind = "setop" /\ p.op \in Ops /\ q.op \in Ops
        BY <1>1, <1>2, <1>8, <4>1
      <4> HIDE DEF j, S
      <4>4. R1[j] = SetOperation2(p.op, R1[i], A1[j]) /\ R2[j] = SetOperation2(q.op, R2[i], A2[j])
        BY <1>6, <1>7, <3>1, <4>1
      <4>5. p.op = "EXCEPT" => ToSet(A1[j]) = ToSet(A2[j])
        BY <2>3, <4>1, <4>3
      <4>6. IsRows(A1[j]) /\ IsRows(A2[j]) /\ Within(A1[j], A2[j])
        BY <2>2, <3>1
      <4>7. IsRows(R1[j]) /\ IsRows(R2[j])
        BY <4>2, <4>3, <4>4, <4>6, SetOperationRows
      <4>8. Within(SetOperation2(p.op, R1[i], A1[j]), SetOperation2(q.op, R2[i], A2[j]))
        BY <2>1, <4>2, <4>3, <4>5, <4>6, SetOperationWithin
      <4>9. IsRows(R1[j]) /\ IsRows(R2[j]) /\ Within(R1[j], R2[j])
        BY <4>4, <4>7, <4>8
      <4> QED
        BY <4>9 DEF j
    <3> QED
      BY <3>2, <3>3
  <2> HIDE DEF S
  <2>6. Nat \subseteq S
    BY <2>4, <2>5, Induction
  <2>7. m \in S /\ m \in 1 .. m
    BY <2>6
  <2> QED
    BY <1>3, <1>4, <2>1, <2>7 DEF S
<1>9. CASE p.kind # q.kind
  <2>1. /\ q.kind = "setop" /\ q.op = "UNION ALL" /\ n = 2
        /\ Narrower(p, Arms(q)[1]) /\ p.kind = "select" /\ m = 1 /\ Arms(p)[1] = p
    BY <1>1, <1>2, <1>9 DEF Below
  <2>11. 1 \in 1 .. m /\ 1 \in 1 .. n /\ 2 \in 1 .. n
    <3>1. m = 1 /\ n = 2
      BY <2>1
    <3> QED
      BY <3>1
  <2>2. /\ A1[1] = SelectRows(p, c1, d, F1) /\ A2[1] = SelectRows(Arms(q)[1], c2, d, F2)
        /\ A2[2] = SelectRows(Arms(q)[2], c2, d, F2)
    BY <1>5, <2>1, <2>11
  <2>3. IsRows(A1[1]) /\ IsRows(A2[1]) /\ Within(A1[1], A2[1])
    <3>1. Narrower(p, Arms(q)[1])
      BY <2>1
    <3>2. /\ IsRows(SelectRows(p, c1, d, F1)) /\ IsRows(SelectRows(Arms(q)[1], c2, d, F2))
          /\ Within(SelectRows(p, c1, d, F1), SelectRows(Arms(q)[1], c2, d, F2))
      BY <3>1, SelectRowsNarrower
    <3> QED
      BY <2>2, <3>2
  <2>4. IsRows(A2[2])
    <3>1. IsRows(Source(Arms(q)[2], c2))
      BY TableAssumption DEF Source, IsRows
    <3> QED
      BY <2>2, <3>1, SelectRowsCorrect, KeptRowsFacts
  <2>5. R1[1] = A1[1] /\ R2[1] = A2[1]
    BY <1>6, <1>7, <2>11
  <2>6. R2[2] = SetOperation2("UNION ALL", R2[1], A2[2])
    <3>1. 2 # 1 /\ 2 - 1 = 1
      OBVIOUS
    <3>2. R2[2] = SetOperation2(q.op, R2[1], A2[2])
      BY <1>7, <2>11, <3>1
    <3> QED
      BY <2>1, <3>2
  <2>7. R2[2] = A2[1] \o A2[2]
    BY <2>5, <2>6 DEF SetOperation2
  <2>8. Within(A1[1] \o <<>>, A2[1] \o A2[2])
    BY <2>3, <2>4, EmptyWithin, ConcatWithin
  <2>9. A1[1] \o <<>> = A1[1]
    <3>1. PICK T : A1[1] \in Seq(T)
      BY <2>3 DEF IsRows
    <3> QED
      BY <3>1, ConcatEmptySeq
  <2>10. IsRows(A2[1] \o A2[2])
    BY <2>3, <2>4, SetOperationRows DEF Ops
  <2> QED
    BY <1>3, <1>4, <2>1, <2>3, <2>5, <2>7, <2>8, <2>9, <2>10
<1> QED
  BY <1>8, <1>9

-----------------------------------------------------------------------------
(* A DBMS without the bug answers a pair of a report as the oracle expects. *)

\* Rows within others are contained in them as the comparison sees it.
LEMMA WithinContained ==
    ASSUME NEW r1, IsRows(r1.rows), NEW r2, IsRows(r2.rows), Within(r1.rows, r2.rows)
    PROVE  Contained(FlatRows(r1), FlatRows(r2))
<1>1. PICK g : Embedding(g, r1.rows, r2.rows)
  BY DEF Within
<1> DEFINE l == r1.rows  r == r2.rows  m == Len(l)  n == Len(r)
           s == FlatRows(r1)  t == FlatRows(r2)
<1>2. m \in Nat /\ DOMAIN l = 1 .. m /\ n \in Nat /\ DOMAIN r = 1 .. n
  BY RowsFacts
<1>3. /\ s = [j \in 1 .. m |-> FlatOf[l[j]]]
      /\ t = [j \in 1 .. n |-> FlatOf[r[j]]]
  BY DEF FlatRows
<1>4. /\ \A i \in 1 .. m : g[i] \in 1 .. n /\ r[g[i]] = l[i]
      /\ \A i, j \in 1 .. m : g[i] = g[j] => i = j
  BY <1>1, <1>2 DEF Embedding
<1> HIDE DEF l, r, m, n, s, t
<1>5. Len(s) = m /\ Len(t) = n
  <2>1. s = [j \in 1 .. m |-> s[j]] /\ t = [j \in 1 .. n |-> t[j]]
    BY <1>3
  <2> QED
    BY <1>2, <2>1, RowsIntro
<1>6. ASSUME NEW x
      PROVE  Occ(s, m, x) <= Occ(t, n, x)
  <2> DEFINE S == {j \in 1 .. m : s[j] = x}
             T == {j \in 1 .. n : t[j] = x}
             f == [j \in S |-> g[j]]
  <2>1. \A j \in S : g[j] \in T
    <3> TAKE j \in S
    <3>1. j \in 1 .. m /\ FlatOf[l[j]] = x
      BY <1>3
    <3> QED
      BY <1>3, <1>4, <3>1
  <2>2. IsFiniteSet(T)
    <3>1. IsFiniteSet(1 .. n) /\ T \in SUBSET (1 .. n)
      BY <1>2, FS_Interval
    <3> HIDE DEF T
    <3> QED
      BY <3>1, FS_Subset
  <2>3. \A i, j \in S : f[i] = f[j] => i = j
    BY <1>4
  <2>4. f \in [S -> T]
    BY <2>1
  <2> HIDE DEF f
  <2>5. f \in Injection(S, T)
    BY <2>3, <2>4 DEF Injection, IsInjective
  <2> HIDE DEF S, T
  <2>6. Cardinality(S) <= Cardinality(T)
    BY <2>2, <2>5, FS_Injection
  <2> QED
    BY <2>6 DEF Occ, S, T
<1> QED
  BY <1>5, <1>6 DEF Contained, Occurrences, s, t

\* A statement that does not fail returns its rows.
LEMMA Executed ==
    ASSUME NEW q, NEW d, ~Fails(q, d)
    PROVE  LET c == IF q.with = <<>> THEN <<>>
                    ELSE QueryRows(q.with[1].query, <<>>, d, Features(q))
           IN  /\ ExecSQL(q, d).rows = QueryRows(q, c, d, Features(q))
               /\ ExecSQL(q, d).err = FALSE
               /\ ExecSQL(q, d).cols \in {0, 1}
<1> DEFINE c == IF q.with = <<>> THEN <<>> ELSE QueryRows(q.with[1].query, <<>>, d, Features(q))
           rows == QueryRows(q, c, d, Features(q))
<1>1. ExecSQL(q, d) = [err |-> FALSE, cols |-> IF rows = <<>> THEN 0 ELSE 1, rows |-> rows]
  BY DEF ExecSQL
<1> HIDE DEF rows
<1>2. /\ ExecSQL(q, d).rows = rows /\ ExecSQL(q, d).err = FALSE
      /\ ExecSQL(q, d).cols \in {0, 1}
  BY <1>1
<1> QED
  BY <1>2 DEF rows

\* The two statements of an implication.
LEMMA ImpliedContained ==
    ASSUME NEW p, IsStatement(p), NEW q, IsStatement(q), Implies(p, q),
           NEW d, d.instead = d.where, ~Fails(p, d), ~Fails(q, d)
    PROVE  /\ Contained(FlatRows(ExecSQL(p, d)), FlatRows(ExecSQL(q, d)))
           /\ ExecSQL(p, d).err = FALSE /\ ExecSQL(q, d).err = FALSE
           /\ ExecSQL(p, d).cols \in {0, 1} /\ ExecSQL(q, d).cols \in {0, 1}
<1> DEFINE c1 == IF p.with = <<>> THEN <<>>
                 ELSE QueryRows(p.with[1].query, <<>>, d, Features(p))
           c2 == IF q.with = <<>> THEN <<>>
                 ELSE QueryRows(q.with[1].query, <<>>, d, Features(q))
<1>1. IsRows(c1) /\ IsRows(c2) /\ Within(c1, c2)
  <2>1. Len(p.with) = Len(q.with)
    BY DEF Implies
  <2>2. CASE p.with = <<>>
    <3>1. q.with = <<>>
      <4>1. Len(q.with) = 0
        BY <2>1, <2>2
      <4>2. q.with = <<>> \/ q.with = <<[query |-> q.with[1].query, simple |-> q.with[1].simple]>>
        BY DEF IsStatement
      <4> QED
        BY <4>1, <4>2
    <3> QED
      BY <2>2, <3>1, EmptyWithin
  <2>3. CASE p.with # <<>>
    <3>1. /\ p.with = <<[query |-> p.with[1].query, simple |-> p.with[1].simple]>>
          /\ IsQuery(p.with[1].query)
      BY <2>3 DEF IsStatement
    <3>2. Len(p.with) = 1 /\ 1 \in DOMAIN p.with
      BY <3>1
    <3>3. q.with # <<>>
      <4>1. Len(q.with) = 1 /\ Len(<<>>) = 0
        BY <2>1, <3>2
      <4>2. q.with = <<>> => Len(q.with) = Len(<<>>)
        OBVIOUS
      <4>3. 1 # 0
        OBVIOUS
      <4> QED
        BY <4>1, <4>2, <4>3, ZenonT(20)
    <3>4. IsQuery(q.with[1].query)
      BY <3>3 DEF IsStatement
    <3>5. Below(p.with[1].query, q.with[1].query)
      BY <3>2 DEF Implies
    <3>6. Fixed(p.with[1].query, <<>>, <<>>)
      BY DEF Fixed
    <3>7. IsRows(<<>>) /\ Within(<<>>, <<>>)
      BY EmptyWithin
    <3> QED
      BY <2>3, <3>1, <3>3, <3>4, <3>5, <3>6, <3>7, QueryRowsBelow
  <2> QED
    BY <2>2, <2>3
<1>2. /\ ExecSQL(p, d).rows = QueryRows(p, c1, d, Features(p))
      /\ ExecSQL(q, d).rows = QueryRows(q, c2, d, Features(q))
      /\ ExecSQL(p, d).err = FALSE /\ ExecSQL(q, d).err = FALSE
      /\ ExecSQL(p, d).cols \in {0, 1} /\ ExecSQL(q, d).cols \in {0, 1}
  BY Executed
<1> HIDE DEF c1, c2
<1>3. Fixed(p, c1, c2)
  BY DEF Fixed, Implies
<1>4. IsQuery(p) /\ IsQuery(q) /\ Below(p, q)
  BY DEF IsStatement, Implies
<1>5. /\ IsRows(QueryRows(p, c1, d, Features(p))) /\ IsRows(QueryRows(q, c2, d, Features(q)))
      /\ Within(QueryRows(p, c1, d, Features(p)), QueryRows(q, c2, d, Features(q)))
  BY <1>1, <1>3, <1>4, QueryRowsBelow
<1> QED
  BY <1>2, <1>5, WithinContained

\* The oracle is content with them.
LEMMA ImpliedCheck ==
    ASSUME NEW p, IsStatement(p), NEW q, IsStatement(q), Implies(p, q),
           NEW d, d.instead = d.where, ~Fails(p, d), ~Fails(q, d)
    PROVE  /\ Check(ExecSQL(p, d), ExecSQL(q, d), TRUE)
           /\ Check(ExecSQL(q, d), ExecSQL(p, d), FALSE)
<1> DEFINE r1 == ExecSQL(p, d)  r2 == ExecSQL(q, d)
<1>1. /\ Contained(FlatRows(r1), FlatRows(r2)) /\ r1.err = FALSE /\ r2.err = FALSE
      /\ r1.cols \in {0, 1} /\ r2.cols \in {0, 1}
  BY ImpliedContained
<1> HIDE DEF r1, r2
<1>2. ~(~IsEmpty(r1) /\ ~IsEmpty(r2) /\ r1.cols # r2.cols)
  BY <1>1 DEF IsEmpty
<1>3. /\ CMP(r1, r2) = BagOrder(FlatRows(r1), FlatRows(r2))
      /\ CMP(r2, r1) = BagOrder(FlatRows(r2), FlatRows(r1))
  BY <1>1, <1>2 DEF CMP
<1>4. /\ BagOrder(FlatRows(r1), FlatRows(r2)) \in {0, -1}
      /\ BagOrder(FlatRows(r2), FlatRows(r1)) \in {0, 1}
  BY <1>1 DEF BagOrder
<1> QED
  BY <1>3, <1>4 DEF Check, r1, r2

-----------------------------------------------------------------------------
(* What the functions of sqlsim do to a statement.                         *)

\* f leaves what a select reads and keeps alone.
Keeps(f, S) ==
    \A s \in S : IsSelect(s) => /\ IsSelect(f[s]) /\ f[s].with = s.with
                                /\ f[s].from = s.from /\ f[s].where = s.where

\* f and g make the same of the rest of two selects.
SameChange(f, S, g, T) ==
    \A s \in S, t \in T :
        s.field = t.field /\ s.has = t.has => f[s].field = g[t].field /\ f[s].has = g[t].has

\* A query after each of its selects was changed.
LEMMA InArmsFacts ==
    ASSUME NEW q, IsQuery(q), NEW f, Keeps(f, ToSet(Arms(q)))
    PROVE  /\ IsQuery(InArms(q, f))
           /\ InArms(q, f).kind = q.kind /\ InArms(q, f).with = q.with
           /\ q.kind = "setop" => InArms(q, f).op = q.op
           /\ Len(Arms(InArms(q, f))) = Len(Arms(q))
           /\ DOMAIN Arms(InArms(q, f)) = DOMAIN Arms(q)
           /\ \A i \in DOMAIN Arms(q) : /\ Arms(InArms(q, f))[i] = f[Arms(q)[i]]
                                        /\ IsSelect(Arms(q)[i]) /\ Arms(q)[i] \in ToSet(Arms(q))
<1> DEFINE v == InArms(q, f)
<1>1. PICK m \in Nat \ {0} :
        /\ Len(Arms(q)) = m /\ DOMAIN Arms(q) = 1 .. m
        /\ \A i \in 1 .. m : IsSelect(Arms(q)[i])
        /\ q.kind = "select" => m = 1 /\ Arms(q)[1] = q
        /\ q.kind # "select" =>
             /\ q.kind = "setop" /\ q.op \in Ops /\ Arms(q) = q.sels
             /\ \A i \in 1 .. m : q.sels[i].with = <<>>
  BY QueryFacts
<1>2. \A i \in 1 .. m : Arms(q)[i] \in ToSet(Arms(q))
  BY <1>1 DEF ToSet
<1>3. CASE q.kind = "select"
  <2>1. v = f[q] /\ IsSelect(q) /\ q \in ToSet(Arms(q))
    BY <1>1, <1>2, <1>3 DEF InArms
  <2>2. IsSelect(v) /\ v.with = q.with
    BY <2>1 DEF Keeps
  <2> HIDE DEF v
  <2>3. v.kind = "select"
    <3>1. v = [kind |-> "select", with |-> v.with, from |-> v.from,
               where |-> v.where, field |-> v.field, has |-> v.has]
      BY <2>2 DEF IsSelect
    <3>2. [kind |-> "select", with |-> v.with, from |-> v.from,
           where |-> v.where, field |-> v.field, has |-> v.has].kind = "select"
      OBVIOUS
    <3> QED
      BY <3>1, <3>2
  <2>4. IsQuery(v) /\ Arms(v) = <<v>>
    BY <2>2, <2>3 DEF IsQuery, Arms
  <2>5. Arms(q) = <<q>>
    BY <1>3 DEF Arms
  <2>6. Len(<<v>>) = 1 /\ DOMAIN <<v>> = 1 .. 1 /\ <<v>>[1] = v /\ \A i \in 1 .. 1 : i = 1
    OBVIOUS
  <2>7. Len(<<q>>) = 1 /\ DOMAIN <<q>> = 1 .. 1 /\ <<q>>[1] = q
    OBVIOUS
  <2>8. \A i \in 1 .. 1 : <<v>>[i] = f[<<q>>[i]]
    BY <2>1, <2>6, <2>7
  <2> QED
    BY <1>1, <1>2, <1>3, <2>2, <2>3, <2>4, <2>5, <2>6, <2>7, <2>8 DEF v
<1>4. CASE q.kind # "select"
  <2> DEFINE sels == [i \in 1 .. m |-> f[Arms(q)[i]]]
             w == [kind |-> "setop", with |-> q.with, op |-> q.op, sels |-> sels]
  <2>1. q = [kind |-> "setop", with |-> q.with, op |-> q.op, sels |-> q.sels]
    BY <1>4 DEF IsQuery, IsSetOp
  <2>2. v = [q EXCEPT !.sels = sels]
    BY <1>1, <1>4 DEF InArms
  <2>3. \A i \in 1 .. m : sels[i] = f[Arms(q)[i]]
    OBVIOUS
  <2>4. sels = [i \in 1 .. m |-> sels[i]]
    OBVIOUS
  <2> HIDE DEF v, sels
  <2>5. v = w
    BY <2>1, <2>2
  <2>6. v.kind = "setop" /\ v.with = q.with /\ v.op = q.op /\ v.sels = sels
    BY <2>5
  <2>7. IsRows(sels) /\ Len(sels) = m /\ DOMAIN sels = 1 .. m
    BY <2>4, RowsIntro
  <2>8. sels \in Seq(ToSet(sels)) /\ sels # <<>>
    <3>1. Len(sels) # Len(<<>>)
      BY <2>7
    <3> QED
      BY <2>7, <3>1, RowsFacts
  <2>9. \A i \in 1 .. m : IsSelect(sels[i]) /\ sels[i].with = <<>>
    <3> TAKE i \in 1 .. m
    <3>1. IsSelect(Arms(q)[i]) /\ Arms(q)[i].with = <<>>
      BY <1>1, <1>4
    <3> QED
      BY <1>2, <2>3, <3>1 DEF Keeps
  <2>10. q.op \in Ops
    BY <1>1, <1>4
  <2>11. IsSetOp(v)
    BY <2>5, <2>6, <2>7, <2>8, <2>9, <2>10 DEF IsSetOp, Ops
  <2>12. IsQuery(v) /\ Arms(v) = sels
    BY <2>6, <2>11 DEF IsQuery, Arms
  <2>13. q.kind = "setop"
    BY <1>1, <1>4
  <2> QED
    BY <1>1, <1>2, <2>3, <2>6, <2>7, <2>12, <2>13 DEF v
<1> QED
  BY <1>3, <1>4

\* Changed in the same way, one query stays below the other.
LEMMA InArmsBelow ==
    ASSUME NEW p, IsQuery(p), NEW q, IsQuery(q), Below(p, q),
           NEW f, Keeps(f, ToSet(Arms(p))), NEW g, Keeps(g, ToSet(Arms(q))),
           SameChange(f, ToSet(Arms(p)), g, ToSet(Arms(q)))
    PROVE  Below(InArms(p, f), InArms(q, g))
<1> DEFINE v == InArms(p, f)  w == InArms(q, g)
<1>1. /\ v.kind = p.kind /\ Len(Arms(v)) = Len(Arms(p)) /\ DOMAIN Arms(v) = DOMAIN Arms(p)
      /\ p.kind = "setop" => v.op = p.op
      /\ \A i \in DOMAIN Arms(p) : /\ Arms(v)[i] = f[Arms(p)[i]]
                                   /\ IsSelect(Arms(p)[i]) /\ Arms(p)[i] \in ToSet(Arms(p))
  BY InArmsFacts
<1>2. /\ w.kind = q.kind /\ Len(Arms(w)) = Len(Arms(q)) /\ DOMAIN Arms(w) = DOMAIN Arms(q)
      /\ q.kind = "setop" => w.op = q.op
      /\ \A i \in DOMAIN Arms(q) : /\ Arms(w)[i] = g[Arms(q)[i]]
                                   /\ IsSelect(Arms(q)[i]) /\ Arms(q)[i] \in ToSet(Arms(q))
  BY InArmsFacts
<1>3. ASSUME NEW i \in DOMAIN Arms(p), NEW j \in DOMAIN Arms(q),
             Narrower(Arms(p)[i], Arms(q)[j])
      PROVE  /\ Narrower(Arms(v)[i], Arms(w)[j])
             /\ Arms(p)[i].where = Arms(q)[j].where => Arms(v)[i].where = Arms(w)[j].where
  <2> DEFINE s == Arms(p)[i]  t == Arms(q)[j]
  <2>1. /\ s \in ToSet(Arms(p)) /\ IsSelect(s) /\ t \in ToSet(Arms(q)) /\ IsSelect(t)
        /\ Arms(v)[i] = f[s] /\ Arms(w)[j] = g[t]
    BY <1>1, <1>2
  <2>2. Narrower(s, t)
    BY <1>3
  <2> HIDE DEF s, t, v, w
  <2>3. f[s].from = s.from /\ f[s].where = s.where /\ g[t].from = t.from /\ g[t].where = t.where
    BY <2>1 DEF Keeps
  <2>4. f[s].field = g[t].field /\ f[s].has = g[t].has
    BY <2>1, <2>2 DEF SameChange, Narrower
  <2>5. Narrower(f[s], g[t]) /\ (s.where = t.where => f[s].where = g[t].where)
    BY <2>2, <2>3, <2>4 DEF Narrower
  <2> QED
    BY <2>1, <2>5 DEF s, t
<1>4. PICK m \in Nat \ {0} : Len(Arms(p)) = m /\ DOMAIN Arms(p) = 1 .. m
  BY QueryFacts
<1>5. PICK n \in Nat \ {0} :
        /\ Len(Arms(q)) = n /\ DOMAIN Arms(q) = 1 .. n
        /\ q.kind # "select" => Arms(q) = q.sels
  BY QueryFacts
<1>6. CASE p.kind = q.kind
  <2>1. /\ m = n
        /\ \A i \in 1 .. m : Narrower(Arms(p)[i], Arms(q)[i])
        /\ p.kind = "setop" => p.op = q.op \/ (p.op = "UNION" /\ q.op = "UNION ALL")
        /\ p.kind = "setop" /\ p.op = "EXCEPT" =>
               \A i \in 2 .. m : Arms(p)[i].where = Arms(q)[i].where
    BY <1>4, <1>5, <1>6 DEF Below
  <2>2. \A i \in 1 .. m : /\ Narrower(Arms(v)[i], Arms(w)[i])
                          /\ Arms(p)[i].where = Arms(q)[i].where =>
                                Arms(v)[i].where = Arms(w)[i].where
    BY <1>3, <1>4, <1>5, <2>1
  <2>3. \A i \in 2 .. m : i \in 1 .. m
    OBVIOUS
  <2> HIDE DEF v, w
  <2>4. v.kind = w.kind /\ Len(Arms(v)) = Len(Arms(w)) /\ Len(Arms(v)) = m
    BY <1>1, <1>2, <1>4, <1>5, <1>6, <2>1
  <2>5. \A i \in DOMAIN Arms(v) : Narrower(Arms(v)[i], Arms(w)[i])
    BY <1>1, <1>4, <2>2
  <2>6. v.kind = "setop" => v.op = w.op \/ (v.op = "UNION" /\ w.op = "UNION ALL")
    BY <1>1, <1>2, <1>6, <2>1
  <2>7. v.kind = "setop" /\ v.op = "EXCEPT" =>
            \A i \in 2 .. Len(Arms(v)) : Arms(v)[i].where = Arms(w)[i].where
    BY <1>1, <2>1, <2>2, <2>3, <2>4
  <2>8. Below(v, w)
    BY <2>4, <2>5, <2>6, <2>7 DEF Below
  <2> QED
    BY <2>8 DEF v, w
<1>7. CASE p.kind # q.kind
  <2>1. /\ q.kind = "setop" /\ q.op = "UNION ALL" /\ Len(q.sels) = 2
        /\ Narrower(p, q.sels[1])
    BY <1>7 DEF Below
  <2>2. p.kind = "select" /\ Arms(p)[1] = p /\ m = 1
    BY <1>4, <1>7, <2>1, QueryFacts
  <2>3. Arms(q) = q.sels /\ n = 2
    BY <1>5, <2>1
  <2>4. 1 \in DOMAIN Arms(p) /\ 1 \in DOMAIN Arms(q)
    BY <1>4, <1>5
  <2>5. Narrower(Arms(v)[1], Arms(w)[1])
    BY <1>3, <2>1, <2>2, <2>3, <2>4
  <2> HIDE DEF v, w
  <2>6. v.kind = "select" /\ w.kind = "setop" /\ w.op = "UNION ALL"
    BY <1>1, <1>2, <2>1, <2>2
  <2>7. Arms(v) = <<v>> /\ Arms(w) = w.sels
    BY <2>6 DEF Arms
  <2>8. Len(w.sels) = 2 /\ Narrower(v, w.sels[1])
    BY <1>2, <1>5, <2>3, <2>5, <2>7
  <2>9. Below(v, w)
    BY <2>6, <2>8 DEF Below
  <2> QED
    BY <2>9 DEF v, w
<1> QED
  BY <1>6, <1>7

\* A statement declares no table expression, or one.
LEMMA WithFacts ==
    ASSUME NEW q, IsStatement(q)
    PROVE  \/ q.with = <<>> /\ Len(q.with) = 0 /\ DOMAIN q.with = {}
           \/ /\ q.with # <<>> /\ Len(q.with) = 1 /\ DOMAIN q.with = {1}
              /\ q.with = <<[query |-> q.with[1].query, simple |-> q.with[1].simple]>>
              /\ IsQuery(q.with[1].query) /\ q.with[1].query.with = <<>>
<1>1. CASE q.with = <<>>
  <2>1. Len(<<>>) = 0 /\ DOMAIN <<>> = {}
    OBVIOUS
  <2> QED
    BY <1>1, <2>1
<1>2. CASE q.with # <<>>
  <2>1. /\ q.with = <<[query |-> q.with[1].query, simple |-> q.with[1].simple]>>
        /\ IsQuery(q.with[1].query) /\ q.with[1].query.with = <<>>
    BY <1>2 DEF IsStatement
  <2>2. PICK e : e = [query |-> q.with[1].query, simple |-> q.with[1].simple]
    OBVIOUS
  <2>3. Len(<<e>>) = 1 /\ DOMAIN <<e>> = {1}
    OBVIOUS
  <2> QED
    BY <1>2, <2>1, <2>2, <2>3
<1> QED
  BY <1>1, <1>2

\* What does not depend on WITH.
SameQuery(q, w) ==
    /\ IsQuery(w) /\ w.kind = q.kind
    /\ q.kind = "setop" => w.op = q.op /\ w.sels = q.sels
    /\ Len(Arms(w)) = Len(Arms(q)) /\ DOMAIN Arms(w) = DOMAIN Arms(q)
    /\ \A i \in DOMAIN Arms(q) :
          /\ Arms(w)[i].from = Arms(q)[i].from /\ Arms(w)[i].where = Arms(q)[i].where
          /\ Arms(w)[i].field = Arms(q)[i].field /\ Arms(w)[i].has = Arms(q)[i].has
    /\ q.kind = "select" => /\ w.from = q.from /\ w.where = q.where
                            /\ w.field = q.field /\ w.has = q.has

\* Another WITH makes another statement of a query, not another query.
LEMMA Redeclared ==
    ASSUME NEW q, IsQuery(q), NEW x, NEW w, w = [q EXCEPT !.with = x]
    PROVE  SameQuery(q, w) /\ w.with = x
<1>1. CASE q.kind = "select"
  <2>1. q = [kind |-> "select", with |-> q.with, from |-> q.from,
             where |-> q.where, field |-> q.field, has |-> q.has]
    BY <1>1 DEF IsQuery, IsSelect
  <2>2. w = [kind |-> "select", with |-> x, from |-> q.from,
             where |-> q.where, field |-> q.field, has |-> q.has]
    BY <2>1
  <2>3. /\ w.kind = "select" /\ w.with = x /\ w.from = q.from /\ w.where = q.where
        /\ w.field = q.field /\ w.has = q.has
    BY <2>2
  <2>4. IsQuery(w)
    BY <2>2, <2>3 DEF IsQuery, IsSelect
  <2>5. Arms(w) = <<w>> /\ Arms(q) = <<q>>
    BY <1>1, <2>3 DEF Arms
  <2>6. /\ Len(<<w>>) = 1 /\ DOMAIN <<w>> = {1} /\ <<w>>[1] = w
        /\ Len(<<q>>) = 1 /\ DOMAIN <<q>> = {1} /\ <<q>>[1] = q
    OBVIOUS
  <2> QED
    BY <1>1, <2>3, <2>4, <2>5, <2>6 DEF SameQuery
<1>2. CASE q.kind # "select"
  <2>1. IsSetOp(q)
    BY <1>2 DEF IsQuery
  <2>2. q = [kind |-> "setop", with |-> q.with, op |-> q.op, sels |-> q.sels]
    BY <2>1 DEF IsSetOp
  <2>3. w = [kind |-> "setop", with |-> x, op |-> q.op, sels |-> q.sels]
    BY <2>2
  <2>4. w.kind = "setop" /\ w.with = x /\ w.op = q.op /\ w.sels = q.sels
    BY <2>3
  <2>5. IsSetOp(w)
    BY <2>1, <2>3, <2>4 DEF IsSetOp
  <2>6. IsQuery(w)
    BY <2>4, <2>5 DEF IsQuery
  <2>7. Arms(w) = q.sels /\ Arms(q) = q.sels
    BY <1>2, <2>4 DEF Arms
  <2>8. q.kind = "setop"
    <3>1. [kind |-> "setop", with |-> q.with, op |-> q.op, sels |-> q.sels].kind = "setop"
      OBVIOUS
    <3> QED
      BY <2>2, <3>1
  <2> QED
    BY <1>2, <2>4, <2>6, <2>7, <2>8 DEF SameQuery
<1> QED
  BY <1>1, <1>2

\* That one query is below another does not depend on their WITH.
LEMMA RedeclaredBelow ==
    ASSUME NEW p, IsQuery(p), NEW q, IsQuery(q), Below(p, q),
           NEW x, NEW v, v = [p EXCEPT !.with = x], NEW y, NEW w, w = [q EXCEPT !.with = y]
    PROVE  Below(v, w)
<1>1. SameQuery(p, v)
  BY Redeclared
<1>2. SameQuery(q, w)
  BY Redeclared
<1>3. PICK m \in Nat \ {0} : Len(Arms(p)) = m /\ DOMAIN Arms(p) = 1 .. m
  BY QueryFacts
<1>4. PICK n \in Nat \ {0} : Len(Arms(q)) = n /\ DOMAIN Arms(q) = 1 .. n
  BY QueryFacts
<1>5. CASE p.kind = q.kind
  <2>1. /\ m = n
        /\ \A i \in 1 .. m : Narrower(Arms(p)[i], Arms(q)[i])
        /\ p.kind = "setop" => p.op = q.op \/ (p.op = "UNION" /\ q.op = "UNION ALL")
        /\ p.kind = "setop" /\ p.op = "EXCEPT" =>
               \A i \in 2 .. m : Arms(p)[i].where = Arms(q)[i].where
    BY <1>3, <1>4, <1>5 DEF Below
  <2>2. \A i \in 1 .. m : Narrower(Arms(v)[i], Arms(w)[i])
    <3> TAKE i \in 1 .. m
    <3>1. Narrower(Arms(p)[i], Arms(q)[i])
      BY <2>1
    <3>2. i \in DOMAIN Arms(p) /\ i \in DOMAIN Arms(q)
      BY <1>3, <1>4, <2>1
    <3>3. /\ Arms(v)[i].from = Arms(p)[i].from /\ Arms(v)[i].where = Arms(p)[i].where
          /\ Arms(v)[i].field = Arms(p)[i].field /\ Arms(v)[i].has = Arms(p)[i].has
      BY <1>1, <3>2 DEF SameQuery
    <3>4. /\ Arms(w)[i].from = Arms(q)[i].from /\ Arms(w)[i].where = Arms(q)[i].where
          /\ Arms(w)[i].field = Arms(q)[i].field /\ Arms(w)[i].has = Arms(q)[i].has
      BY <1>2, <3>2 DEF SameQuery
    <3> QED
      BY <3>1, <3>3, <3>4 DEF Narrower
  <2>3. \A i \in 2 .. m : i \in DOMAIN Arms(p) /\ i \in DOMAIN Arms(q)
    <3>1. \A i \in 2 .. m : i \in 1 .. m
      OBVIOUS
    <3> QED
      BY <1>3, <1>4, <2>1, <3>1
  <2>4. v.kind = w.kind /\ Len(Arms(v)) = Len(Arms(w)) /\ Len(Arms(v)) = m
    BY <1>1, <1>2, <1>3, <1>4, <1>5, <2>1 DEF SameQuery
  <2>5. \A i \in DOMAIN Arms(v) : Narrower(Arms(v)[i], Arms(w)[i])
    BY <1>1, <1>3, <2>2 DEF SameQuery
  <2>6. v.kind = "setop" => v.op = w.op \/ (v.op = "UNION" /\ w.op = "UNION ALL")
    BY <1>1, <1>2, <1>5, <2>1 DEF SameQuery
  <2>7. v.kind = "setop" /\ v.op = "EXCEPT" =>
            \A i \in 2 .. Len(Arms(v)) : Arms(v)[i].where = Arms(w)[i].where
    <3>1. v.kind = "setop" /\ v.op = "EXCEPT" => p.kind = "setop" /\ p.op = "EXCEPT"
      BY <1>1 DEF SameQuery
    <3>2. \A i \in 2 .. m : /\ Arms(v)[i].where = Arms(p)[i].where
                            /\ Arms(w)[i].where = Arms(q)[i].where
      BY <1>1, <1>2, <2>3 DEF SameQuery
    <3> QED
      BY <2>1, <2>4, <3>1, <3>2
  <2> QED
    BY <2>4, <2>5, <2>6, <2>7 DEF Below
<1>6. CASE p.kind # q.kind
  <2>1. /\ q.kind = "setop" /\ q.op = "UNION ALL" /\ Len(q.sels) = 2
        /\ Narrower(p, q.sels[1])
    BY <1>6 DEF Below
  <2>2. p.kind = "select"
    BY <1>6, <2>1, QueryFacts
  <2>3. v.kind = "select" /\ w.kind = "setop" /\ w.op = "UNION ALL" /\ w.sels = q.sels
    BY <1>1, <1>2, <2>1, <2>2 DEF SameQuery
  <2>4. Narrower(v, w.sels[1])
    BY <1>1, <2>1, <2>2, <2>3 DEF Narrower, SameQuery
  <2>5. Below(v, w)
    BY <2>1, <2>3, <2>4 DEF Below
  <2> QED
    BY <2>5
<1> QED
  BY <1>5, <1>6

\* What a visitor leaves of a statement.
LEMMA VisitedFacts ==
    ASSUME NEW q, IsStatement(q), NEW f, Keeps(f, Selects(q))
    PROVE  LET w == Visited(q, f)
           IN  /\ IsStatement(w) /\ w.kind = q.kind
               /\ q.kind = "setop" => w.op = q.op
               /\ Len(Arms(w)) = Len(Arms(q)) /\ DOMAIN Arms(w) = DOMAIN Arms(q)
               /\ \A i \in DOMAIN Arms(q) : Arms(w)[i].from = Arms(q)[i].from
               /\ q.with = <<>> <=> w.with = <<>>
               /\ Len(w.with) = Len(q.with)
               /\ q.with # <<>> => /\ w.with[1].simple = q.with[1].simple
                                   /\ w.with[1].query = InArms(q.with[1].query, f)
                                   /\ Keeps(f, ToSet(Arms(q.with[1].query)))
               /\ Keeps(f, ToSet(Arms(q)))
               /\ w = [InArms(q, f) EXCEPT !.with = w.with]
<1> DEFINE v == InArms(q, f)  x == [i \in DOMAIN q.with |-> InTable(q.with[i], f)]
           w == Visited(q, f)
<1>1. IsQuery(q)
  BY DEF IsStatement
<1>2. Keeps(f, ToSet(Arms(q)))
  BY DEF Keeps, Selects
<1>3. /\ IsQuery(v) /\ v.kind = q.kind /\ v.with = q.with
      /\ q.kind = "setop" => v.op = q.op
      /\ Len(Arms(v)) = Len(Arms(q)) /\ DOMAIN Arms(v) = DOMAIN Arms(q)
      /\ \A i \in DOMAIN Arms(q) : /\ Arms(v)[i] = f[Arms(q)[i]]
                                   /\ IsSelect(Arms(q)[i]) /\ Arms(q)[i] \in ToSet(Arms(q))
  BY <1>1, <1>2, InArmsFacts
<1>4. w = [v EXCEPT !.with = x]
  <2>1. IsQuery(v) => v = [v EXCEPT !.with = v.with]
    BY DEF IsQuery, IsSelect, IsSetOp
  <2> QED
    BY <1>3, <2>1 DEF Visited
<1> HIDE DEF v, w, x
<1>5. /\ IsQuery(w) /\ w.kind = v.kind /\ w.with = x
      /\ v.kind = "setop" => w.op = v.op
      /\ Len(Arms(w)) = Len(Arms(v)) /\ DOMAIN Arms(w) = DOMAIN Arms(v)
      /\ \A i \in DOMAIN Arms(v) : Arms(w)[i].from = Arms(v)[i].from
  <2>1. SameQuery(v, w) /\ w.with = x
    <3>1. IsQuery(v)
      BY <1>3
    <3> QED
      BY <1>4, <3>1, Redeclared
  <2> QED
    BY <2>1 DEF SameQuery
<1>6. \A i \in DOMAIN Arms(q) : Arms(w)[i].from = Arms(q)[i].from
  BY <1>2, <1>3, <1>5 DEF Keeps
<1>7. w = [v EXCEPT !.with = w.with]
  BY <1>4, <1>5
<1>8. CASE q.with = <<>>
  <2>1. x = <<>>
    <3>1. DOMAIN q.with = {}
      BY <1>8
    <3> QED
      BY <3>1 DEF x
  <2>2. IsStatement(w) /\ w.with = <<>>
    BY <1>5, <2>1 DEF IsStatement
  <2> QED
    BY <1>2, <1>3, <1>5, <1>6, <1>7, <1>8, <2>2 DEF v, w
<1>9. CASE q.with # <<>>
  <2> DEFINE query == q.with[1].query  e == q.with[1]
             new == [query |-> InArms(query, f), simple |-> q.with[1].simple]
  <2>1. /\ q.with = <<[query |-> query, simple |-> q.with[1].simple]>> /\ DOMAIN q.with = {1}
        /\ Len(q.with) = 1 /\ IsQuery(query) /\ query.with = <<>>
    BY <1>9, WithFacts
  <2>2. Keeps(f, ToSet(Arms(query)))
    <3>1. ToSet(Arms(query)) \subseteq Selects(q)
      BY <2>1 DEF Selects
    <3> QED
      BY <3>1 DEF Keeps
  <2>3. IsQuery(InArms(query, f)) /\ InArms(query, f).with = <<>>
    BY <2>1, <2>2, InArmsFacts
  <2>4. x = <<new>>
    <3>1. e = [query |-> query, simple |-> q.with[1].simple]
      BY <2>1
    <3>2. InTable(e, f) = new
      BY <3>1 DEF InTable
    <3>3. x = [i \in {1} |-> InTable(q.with[i], f)]
      BY <2>1 DEF x
    <3> HIDE DEF new
    <3>4. x = [i \in {1} |-> new]
      BY <3>2, <3>3
    <3> QED
      BY <3>4
  <2>5. new.query = InArms(query, f) /\ new.simple = q.with[1].simple
    OBVIOUS
  <2>6. <<new>>[1] = new /\ Len(<<new>>) = 1 /\ <<new>> # <<>>
    OBVIOUS
  <2>7. w.with = <<new>> /\ w.with[1] = new
    BY <1>5, <2>4, <2>6
  <2>8. new = [query |-> new.query, simple |-> new.simple]
    OBVIOUS
  <2> HIDE DEF new
  <2>9. IsStatement(w)
    BY <1>5, <2>3, <2>5, <2>7, <2>8 DEF IsStatement
  <2> QED
    BY <1>2, <1>3, <1>5, <1>6, <1>7, <1>9, <2>1, <2>2, <2>5, <2>6, <2>7, <2>9 DEF v, w
<1> QED
  BY <1>8, <1>9

\* Two statements after the same visitor.
LEMMA VisitedImplies ==
    ASSUME NEW p, IsStatement(p), NEW q, IsStatement(q), Implies(p, q),
           NEW f, Keeps(f, Selects(p)), NEW g, Keeps(g, Selects(q)),
           SameChange(f, Selects(p), g, Selects(q))
    PROVE  Implies(Visited(p, f), Visited(q, g))
<1> DEFINE v == Visited(p, f)  w == Visited(q, g)
<1>1. /\ v.kind = p.kind
      /\ p.kind = "setop" => v.op = p.op
      /\ Len(Arms(v)) = Len(Arms(p)) /\ DOMAIN Arms(v) = DOMAIN Arms(p)
      /\ \A i \in DOMAIN Arms(p) : Arms(v)[i].from = Arms(p)[i].from
      /\ p.with = <<>> <=> v.with = <<>>
      /\ Len(v.with) = Len(p.with)
      /\ p.with # <<>> => /\ v.with[1].simple = p.with[1].simple
                          /\ v.with[1].query = InArms(p.with[1].query, f)
                          /\ Keeps(f, ToSet(Arms(p.with[1].query)))
      /\ Keeps(f, ToSet(Arms(p)))
      /\ v = [InArms(p, f) EXCEPT !.with = v.with]
  BY VisitedFacts
<1>2. /\ Len(w.with) = Len(q.with)
      /\ q.with # <<>> => /\ w.with[1].simple = q.with[1].simple
                          /\ w.with[1].query = InArms(q.with[1].query, g)
                          /\ Keeps(g, ToSet(Arms(q.with[1].query)))
      /\ Keeps(g, ToSet(Arms(q)))
      /\ w = [InArms(q, g) EXCEPT !.with = w.with]
  BY VisitedFacts
<1>3. IsStatement(v)
  BY VisitedFacts
<1> HIDE DEF v, w
<1>4. IsQuery(p) /\ IsQuery(q) /\ Below(p, q) /\ Len(p.with) = Len(q.with)
  BY DEF IsStatement, Implies
<1>5. SameChange(f, ToSet(Arms(p)), g, ToSet(Arms(q)))
  BY DEF SameChange, Selects
<1>6. Below(v, w)
  <2>1. Below(InArms(p, f), InArms(q, g)) /\ IsQuery(InArms(p, f)) /\ IsQuery(InArms(q, g))
    BY <1>1, <1>2, <1>4, <1>5, InArmsBelow, InArmsFacts
  <2>2. Below([InArms(p, f) EXCEPT !.with = v.with], [InArms(q, g) EXCEPT !.with = w.with])
    BY <2>1, RedeclaredBelow
  <2> QED
    BY <1>1, <1>2, <2>2
<1>7. \A i \in DOMAIN v.with : /\ v.with[i].simple = w.with[i].simple
                               /\ Below(v.with[i].query, w.with[i].query)
  <2>1. CASE p.with = <<>>
    <3>1. DOMAIN v.with = {}
      BY <1>1, <2>1
    <3> QED
      BY <3>1
  <2>2. CASE p.with # <<>>
    <3>1. /\ DOMAIN p.with = {1} /\ Len(p.with) = 1 /\ p.with[1].query = p.with[1].query
          /\ IsQuery(p.with[1].query)
      BY <2>2, WithFacts
    <3>2. q.with # <<>> /\ DOMAIN q.with = {1} /\ IsQuery(q.with[1].query)
      <4>1. Len(q.with) = 1
        BY <1>4, <3>1
      <4>2. 1 # 0
        OBVIOUS
      <4> QED
        BY <4>1, <4>2, WithFacts
    <3>3. DOMAIN v.with = {1}
      BY <1>1, <1>3, <2>2, WithFacts
    <3>4. p.with[1].simple = q.with[1].simple /\ Below(p.with[1].query, q.with[1].query)
      BY <3>1 DEF Implies
    <3>5. SameChange(f, ToSet(Arms(p.with[1].query)), g, ToSet(Arms(q.with[1].query)))
      <4>1. /\ ToSet(Arms(p.with[1].query)) \subseteq Selects(p)
            /\ ToSet(Arms(q.with[1].query)) \subseteq Selects(q)
        BY <3>1, <3>2 DEF Selects
      <4> QED
        BY <4>1 DEF SameChange
    <3>6. Below(InArms(p.with[1].query, f), InArms(q.with[1].query, g))
      BY <1>1, <1>2, <2>2, <3>1, <3>2, <3>4, <3>5, InArmsBelow
    <3> QED
      BY <1>1, <1>2, <2>2, <3>2, <3>3, <3>4, <3>6
  <2> QED
    BY <2>1, <2>2
<1>8. v.kind = "setop" /\ v.op = "EXCEPT" => \A i \in 2 .. Len(Arms(v)) : Arms(v)[i].from # "c"
  <2> HAVE v.kind = "setop" /\ v.op = "EXCEPT"
  <2>1. PICK m \in Nat \ {0} : Len(Arms(p)) = m /\ DOMAIN Arms(p) = 1 .. m
    BY <1>4, QueryFacts
  <2>2. \A i \in 2 .. m : i \in DOMAIN Arms(p)
    BY <2>1
  <2>3. \A i \in 2 .. m : Arms(p)[i].from # "c"
    BY <1>1, <2>1 DEF Implies
  <2> QED
    BY <1>1, <2>1, <2>2, <2>3
<1> QED
  BY <1>1, <1>2, <1>4, <1>6, <1>7, <1>8 DEF Implies, v, w

-----------------------------------------------------------------------------
(* The two statements of a report stay in step.                            *)

\* p implies q, and if only one of them is a select they declare nothing.
Sync(p, q) ==
    /\ IsStatement(p) /\ IsStatement(q) /\ Implies(p, q)
    /\ p.kind # q.kind => p.with = <<>>

\* What a query is called.
LEMMA Kinds ==
    ASSUME NEW q, IsQuery(q)
    PROVE  /\ IsSelect(q) => q.kind = "select"
           /\ q.kind # "select" => q.kind = "setop"
<1>1. ASSUME IsSelect(q)
      PROVE  q.kind = "select"
  <2>1. q = [kind |-> "select", with |-> q.with, from |-> q.from,
             where |-> q.where, field |-> q.field, has |-> q.has]
    BY <1>1 DEF IsSelect
  <2>2. [kind |-> "select", with |-> q.with, from |-> q.from,
         where |-> q.where, field |-> q.field, has |-> q.has].kind = "select"
    OBVIOUS
  <2> QED
    BY <2>1, <2>2
<1> QED
  BY <1>1, QueryFacts

\* The selects of a statement are selects.
LEMMA SelectsAre ==
    ASSUME NEW q, IsStatement(q)
    PROVE  \A s \in Selects(q) : IsSelect(s)
<1>1. \A r : IsQuery(r) => \A s \in ToSet(Arms(r)) : IsSelect(s)
  <2> TAKE r
  <2> HAVE IsQuery(r)
  <2>1. PICK m \in Nat \ {0} : /\ DOMAIN Arms(r) = 1 .. m
                               /\ \A i \in 1 .. m : IsSelect(Arms(r)[i])
    BY QueryFacts
  <2> QED
    BY <2>1 DEF ToSet
<1>2. \A i \in DOMAIN q.with : IsQuery(q.with[i].query)
  BY WithFacts
<1>3. IsQuery(q)
  BY DEF IsStatement
<1> QED
  BY <1>1, <1>2, <1>3 DEF Selects

\* frmWith puts the queries of two table expressions in their statements' place.
LEMMA FrmWithSync ==
    ASSUME NEW p, NEW q, Sync(p, q), NEW d, ~Fails(frmWithUnit(p), d)
    PROVE  Sync(frmWithUnit(p), frmWithUnit(q))
<1>1. /\ IsStatement(p) /\ IsStatement(q) /\ Implies(p, q) /\ Len(p.with) = Len(q.with)
      /\ p.kind # q.kind => p.with = <<>>
  BY DEF Sync, Implies
<1>2. CASE p.with = <<>>
  <2>1. q.with = <<>>
    <3>1. Len(q.with) = 0
      BY <1>1, <1>2, WithFacts
    <3>2. 1 # 0
      OBVIOUS
    <3> QED
      BY <1>1, <3>1, <3>2, WithFacts
  <2>2. frmWithUnit(p) = p /\ frmWithUnit(q) = q
    BY <1>2, <2>1 DEF frmWithUnit
  <2> QED
    BY <2>2
<1>3. CASE p.with # <<>>
  <2> DEFINE u == p.with[1].query  w == q.with[1].query
  <2>1. DOMAIN p.with = {1} /\ Len(p.with) = 1 /\ IsQuery(u) /\ u.with = <<>>
    BY <1>1, <1>3, WithFacts
  <2>2. q.with # <<>> /\ IsQuery(w) /\ w.with = <<>>
    <3>1. Len(q.with) = 1
      BY <1>1, <2>1
    <3>2. 1 # 0
      OBVIOUS
    <3> QED
      BY <1>1, <3>1, <3>2, WithFacts
  <2>3. p.kind = q.kind /\ p.with[1].simple = q.with[1].simple /\ Below(u, w)
    BY <1>1, <1>3, <2>1 DEF Implies
  <2>4. CASE p.kind = "select" /\ p.with[1].simple
    <3>1. frmWithUnit(p) = u /\ frmWithUnit(q) = w
      BY <1>3, <2>2, <2>3, <2>4 DEF frmWithUnit
    <3> HIDE DEF u, w
    <3>2. IsStatement(u) /\ IsStatement(w)
      BY <2>1, <2>2 DEF IsStatement
    <3>3. Len(u.with) = Len(w.with) /\ DOMAIN u.with = {}
      BY <2>1, <2>2
    <3>4. \A i \in 2 .. Len(Arms(u)) : Arms(u)[i].from # "c"
      <4>1. PICK m \in Nat \ {0} : Len(Arms(u)) = m /\ DOMAIN Arms(u) = 1 .. m
        BY <2>1, QueryFacts
      <4>2. \A s \in Selects(u) : s.from # "c"
        BY <2>1, <3>1 DEF Fails
      <4>3. \A i \in 1 .. m : Arms(u)[i] \in Selects(u)
        BY <4>1 DEF Selects, ToSet
      <4>4. \A i \in 2 .. m : i \in 1 .. m
        OBVIOUS
      <4> QED
        BY <4>1, <4>2, <4>3, <4>4
    <3>5. Implies(u, w)
      BY <2>3, <3>3, <3>4 DEF Implies
    <3> QED
      BY <2>1, <3>1, <3>2, <3>5 DEF Sync
  <2>5. CASE ~(p.kind = "select" /\ p.with[1].simple)
    <3>1. frmWithUnit(p) = p /\ frmWithUnit(q) = q
      BY <2>3, <2>5 DEF frmWithUnit
    <3> QED
      BY <3>1
  <2> QED
    BY <2>4, <2>5
<1> QED
  BY <1>2, <1>3

\* rmUnion takes the same arm of both.
LEMMA ArmSync ==
    ASSUME NEW p, NEW q, Sync(p, q), Len(Arms(p)) = 2, Len(Arms(q)) = 2, NEW i \in 1 .. 2
    PROVE  Sync(p.sels[i], q.sels[i])
<1>1. IsQuery(p) /\ IsQuery(q) /\ Below(p, q)
  BY DEF Sync, IsStatement, Implies
<1>2. PICK m \in Nat \ {0} :
        /\ Len(Arms(p)) = m /\ DOMAIN Arms(p) = 1 .. m
        /\ \A k \in 1 .. m : IsSelect(Arms(p)[k])
        /\ p.kind = "select" => m = 1
        /\ p.kind # "select" => /\ p.kind = "setop" /\ Arms(p) = p.sels
                                /\ \A k \in 1 .. m : p.sels[k].with = <<>>
  BY <1>1, QueryFacts
<1>3. PICK n \in Nat \ {0} :
        /\ Len(Arms(q)) = n /\ DOMAIN Arms(q) = 1 .. n
        /\ \A k \in 1 .. n : IsSelect(Arms(q)[k])
        /\ q.kind = "select" => n = 1
        /\ q.kind # "select" => /\ q.kind = "setop" /\ Arms(q) = q.sels
                                /\ \A k \in 1 .. n : q.sels[k].with = <<>>
  BY <1>1, QueryFacts
<1>4. m = 2 /\ n = 2 /\ 2 # 1
  BY <1>2, <1>3
<1>5. p.kind = "setop" /\ q.kind = "setop" /\ Arms(p) = p.sels /\ Arms(q) = q.sels
  BY <1>2, <1>3, <1>4
<1> DEFINE s == p.sels[i]  t == q.sels[i]
<1>6. IsSelect(s) /\ s.with = <<>> /\ IsSelect(t) /\ t.with = <<>>
  BY <1>2, <1>3, <1>4, <1>5
<1>7. Narrower(s, t)
  BY <1>1, <1>2, <1>4, <1>5 DEF Below
<1> HIDE DEF s, t
<1>8. s.kind = "select" /\ t.kind = "select"
  <2>1. /\ s = [kind |-> "select", with |-> s.with, from |-> s.from,
                where |-> s.where, field |-> s.field, has |-> s.has]
        /\ t = [kind |-> "select", with |-> t.with, from |-> t.from,
                where |-> t.where, field |-> t.field, has |-> t.has]
    BY <1>6 DEF IsSelect
  <2>2. \A a, b, c, e, f : [kind |-> "select", with |-> a, from |-> b,
                            where |-> c, field |-> e, has |-> f].kind = "select"
    OBVIOUS
  <2> QED
    BY <2>1, <2>2
<1>9. IsStatement(s) /\ IsStatement(t)
  BY <1>6, <1>8 DEF IsStatement, IsQuery
<1>10. Below(s, t)
  <2>1. Arms(s) = <<s>> /\ Arms(t) = <<t>>
    BY <1>8 DEF Arms
  <2>2. /\ Len(<<s>>) = 1 /\ DOMAIN <<s>> = {1} /\ <<s>>[1] = s
        /\ Len(<<t>>) = 1 /\ DOMAIN <<t>> = {1} /\ <<t>>[1] = t
    OBVIOUS
  <2> QED
    BY <1>7, <1>8, <2>1, <2>2 DEF Below
<1>11. Len(s.with) = Len(t.with) /\ DOMAIN s.with = {}
  BY <1>6
<1>12. Implies(s, t)
  BY <1>8, <1>10, <1>11 DEF Implies
<1> QED
  BY <1>6, <1>9, <1>12 DEF Sync, s, t

\* A visitor changes both in the same way.
LEMMA VisitedSync ==
    ASSUME NEW p, NEW q, Sync(p, q),
           NEW f, Keeps(f, Selects(p)), NEW g, Keeps(g, Selects(q)),
           SameChange(f, Selects(p), g, Selects(q))
    PROVE  Sync(Visited(p, f), Visited(q, g))
<1>1. IsStatement(p) /\ IsStatement(q) /\ Implies(p, q) /\ (p.kind # q.kind => p.with = <<>>)
  BY DEF Sync
<1>2. Implies(Visited(p, f), Visited(q, g))
  BY <1>1, VisitedImplies
<1>3. /\ IsStatement(Visited(p, f)) /\ Visited(p, f).kind = p.kind
      /\ p.with = <<>> <=> Visited(p, f).with = <<>>
  BY <1>1, VisitedFacts
<1>4. IsStatement(Visited(q, g)) /\ Visited(q, g).kind = q.kind
  BY <1>1, VisitedFacts
<1> QED
  BY <1>1, <1>2, <1>3, <1>4 DEF Sync

\* Removing a feature.
LEMMA WithoutSync ==
    ASSUME NEW p, NEW q, Sync(p, q), NEW feature
    PROVE  Sync(Without(feature, p), Without(feature, q))
<1> DEFINE F(S) == [s \in S |-> [s EXCEPT !.has = @ \ {feature}]]
<1>1. \A S : Keeps(F(S), S)
  BY DEF Keeps, IsSelect
<1>2. ASSUME NEW S, NEW T, \A s \in S \cup T : IsSelect(s)
      PROVE  SameChange(F(S), S, F(T), T)
  <2> DEFINE E(s) == [s EXCEPT !.has = @ \ {feature}]
  <2>1. ASSUME NEW s, IsSelect(s)
        PROVE  E(s).field = s.field /\ E(s).has = s.has \ {feature}
    BY <2>1 DEF IsSelect
  <2>2. \A s \in S : F(S)[s] = E(s)
    OBVIOUS
  <2>3. \A t \in T : F(T)[t] = E(t)
    OBVIOUS
  <2> HIDE DEF E, F
  <2>4. ASSUME NEW s \in S, NEW t \in T, s.field = t.field, s.has = t.has
        PROVE  F(S)[s].field = F(T)[t].field /\ F(S)[s].has = F(T)[t].has
    <3>1. IsSelect(s) /\ IsSelect(t)
      BY <1>2
    <3>2. F(S)[s] = E(s) /\ F(T)[t] = E(t)
      BY <2>2, <2>3
    <3> QED
      BY <2>1, <2>4, <3>1, <3>2
  <2> QED
    BY <2>4 DEF SameChange
<1>3. (\A s \in Selects(p) : IsSelect(s)) /\ (\A s \in Selects(q) : IsSelect(s))
  BY SelectsAre DEF Sync
<1>4. SameChange(F(Selects(p)), Selects(p), F(Selects(q)), Selects(q))
  BY <1>2, <1>3
<1>5. Sync(Visited(p, F(Selects(p))), Visited(q, F(Selects(q))))
  <2> HIDE DEF F
  <2> QED
    BY <1>1, <1>4, VisitedSync
<1> QED
  BY <1>5 DEF Without

\* Putting one function in another's place.
LEMMA RenamedSync ==
    ASSUME NEW p, NEW q, Sync(p, q), NEW old, NEW new
    PROVE  Sync(Renamed(old, new, p), Renamed(old, new, q))
<1> DEFINE F(S) == [s \in S |-> [s EXCEPT !.field = IF @ = old THEN new ELSE @]]
<1>1. \A S : Keeps(F(S), S)
  BY DEF Keeps, IsSelect
<1>2. ASSUME NEW S, NEW T, \A s \in S \cup T : IsSelect(s)
      PROVE  SameChange(F(S), S, F(T), T)
  <2> DEFINE E(s) == [s EXCEPT !.field = IF @ = old THEN new ELSE @]
  <2>1. ASSUME NEW s, IsSelect(s)
        PROVE  E(s).field = (IF s.field = old THEN new ELSE s.field) /\ E(s).has = s.has
    BY <2>1 DEF IsSelect
  <2>2. \A s \in S : F(S)[s] = E(s)
    OBVIOUS
  <2>3. \A t \in T : F(T)[t] = E(t)
    OBVIOUS
  <2> HIDE DEF E, F
  <2>4. ASSUME NEW s \in S, NEW t \in T, s.field = t.field, s.has = t.has
        PROVE  F(S)[s].field = F(T)[t].field /\ F(S)[s].has = F(T)[t].has
    <3>1. IsSelect(s) /\ IsSelect(t)
      BY <1>2
    <3>2. F(S)[s] = E(s) /\ F(T)[t] = E(t)
      BY <2>2, <2>3
    <3> QED
      BY <2>1, <2>4, <3>1, <3>2
  <2> QED
    BY <2>4 DEF SameChange
<1>3. (\A s \in Selects(p) : IsSelect(s)) /\ (\A s \in Selects(q) : IsSelect(s))
  BY SelectsAre DEF Sync
<1>4. SameChange(F(Selects(p)), Selects(p), F(Selects(q)), Selects(q))
  BY <1>2, <1>3
<1>5. Sync(Visited(p, F(Selects(p))), Visited(q, F(Selects(q))))
  <2> HIDE DEF F
  <2> QED
    BY <1>1, <1>4, VisitedSync
<1> QED
  BY <1>5 DEF Renamed

-----------------------------------------------------------------------------
(* The invariant: the pair shows the bug to this DBMS, its results are what *)
(* the DBMS answers, and one statement implies the other.                  *)

\* The statements change alike, whichever is the mutated one.
InSync(p, q, up) == IF up THEN Sync(p, q) ELSE Sync(q, p)

\* What is known of the two statements while the bug is still seen.
Shows(p, q) == StillSeen(p, q) /\ (OutOfStep \/ InSync(p, q, bug.isUpper))

\* A report with two statements and their results.
IsBug(b) ==
    b = [OriginalSql |-> b.OriginalSql, OriginalResult |-> b.OriginalResult,
         MutatedSql |-> b.MutatedSql, MutatedResult |-> b.MutatedResult,
         isUpper |-> b.isUpper]

\* The two statements of the report are related until the embedding is lost.
SimInvariant ==
    /\ dbms \in DBMSs /\ report \in Reports
    /\ IsBug(bug) /\ bug.isUpper = report.isUpper
    /\ Shows(bug.OriginalSql, bug.MutatedSql)
    /\ sqlsim \in {"running", "saved"} =>
            /\ bug.OriginalResult = ExecSQL(bug.OriginalSql, dbms)
            /\ bug.MutatedResult = ExecSQL(bug.MutatedSql, dbms)

\* What a function writes back.
LEMMA WithFields ==
    ASSUME NEW p, NEW q, IsBug(bug)
    PROVE  /\ IsBug(With(p, q)) /\ With(p, q).isUpper = bug.isUpper
           /\ With(p, q).OriginalSql = p /\ With(p, q).OriginalResult = ExecSQL(p, dbms)
           /\ With(p, q).MutatedSql = q /\ With(p, q).MutatedResult = ExecSQL(q, dbms)
<1> DEFINE w == With(p, q)
<1>1. w = [OriginalSql |-> p, OriginalResult |-> ExecSQL(p, dbms),
           MutatedSql |-> q, MutatedResult |-> ExecSQL(q, dbms), isUpper |-> bug.isUpper]
  <2>1. bug = [OriginalSql |-> bug.OriginalSql, OriginalResult |-> bug.OriginalResult,
               MutatedSql |-> bug.MutatedSql, MutatedResult |-> bug.MutatedResult,
               isUpper |-> bug.isUpper]
    BY DEF IsBug
  <2> DEFINE r1 == ExecSQL(p, dbms)  r2 == ExecSQL(q, dbms)
  <2>2. w = [bug EXCEPT !.OriginalSql = p, !.OriginalResult = r1,
                        !.MutatedSql = q, !.MutatedResult = r2]
    BY DEF With
  <2> HIDE DEF w, r1, r2
  <2>3. w = [OriginalSql |-> p, OriginalResult |-> r1, MutatedSql |-> q, MutatedResult |-> r2,
             isUpper |-> bug.isUpper]
    BY <2>1, <2>2
  <2> QED
    BY <2>3 DEF r1, r2
<1> HIDE DEF w
<1>2. /\ w.isUpper = bug.isUpper
      /\ w.OriginalSql = p /\ w.OriginalResult = ExecSQL(p, dbms)
      /\ w.MutatedSql = q /\ w.MutatedResult = ExecSQL(q, dbms)
  BY <1>1
<1>3. IsBug(w)
  BY <1>1, <1>2 DEF IsBug
<1> QED
  BY <1>2, <1>3 DEF w

\* A pair that shows the bug may take the other's place.
LEMMA KeepsInvariant ==
    ASSUME SimInvariant, UNCHANGED <<dbms, report>>,
           \/ bug' = bug /\ (sqlsim = "running" \/ sqlsim' = "left out" \/ UNCHANGED sqlsim)
           \/ \E p, q : bug' = With(p, q) /\ Shows(p, q)
    PROVE  SimInvariant'
<1>1. CASE bug' = bug /\ (sqlsim = "running" \/ sqlsim' = "left out" \/ UNCHANGED sqlsim)
  <2>1. sqlsim' \in {"running", "saved"} => sqlsim \in {"running", "saved"}
    BY <1>1
  <2> QED
    BY <1>1, <2>1 DEF SimInvariant, Shows, IsBug, StillSeen, OutOfStep
<1>2. ASSUME NEW p, NEW q, bug' = With(p, q), Shows(p, q)
      PROVE  SimInvariant'
  <2>1. IsBug(bug) /\ dbms' = dbms /\ report' = report
    BY DEF SimInvariant
  <2>2. /\ IsBug(bug') /\ bug'.isUpper = bug.isUpper
        /\ bug'.OriginalSql = p /\ bug'.OriginalResult = ExecSQL(p, dbms)
        /\ bug'.MutatedSql = q /\ bug'.MutatedResult = ExecSQL(q, dbms)
    <3> DEFINE w == With(p, q)
    <3>1. /\ IsBug(w) /\ w.isUpper = bug.isUpper
          /\ w.OriginalSql = p /\ w.OriginalResult = ExecSQL(p, dbms)
          /\ w.MutatedSql = q /\ w.MutatedResult = ExecSQL(q, dbms)
      BY <2>1, WithFields
    <3>2. bug' = w
      BY <1>2
    <3> HIDE DEF w
    <3>3. IsBug(bug')
      BY <3>1, <3>2
    <3> QED
      BY <3>1, <3>2, <3>3
  <2>3. StillSeen(p, q)' <=> StillSeen(p, q)
    BY <2>1, <2>2 DEF StillSeen
  <2>4. OutOfStep' <=> OutOfStep
    BY <2>1 DEF OutOfStep
  <2>5. Shows(bug.OriginalSql, bug.MutatedSql)'
    BY <1>2, <2>1, <2>2, <2>4 DEF Shows, StillSeen
  <2> QED
    BY <2>1, <2>2, <2>5 DEF SimInvariant, IsBug
<1> QED
  BY <1>1, <1>2

\* What is still seen of a pair in step shows the bug.
LEMMA StillShows ==
    ASSUME SimInvariant, NEW p, NEW q, StillSeen(p, q),
           bug.isUpper /\ Sync(bug.OriginalSql, bug.MutatedSql) => Sync(p, q),
           ~bug.isUpper /\ Sync(bug.MutatedSql, bug.OriginalSql) => Sync(q, p)
    PROVE  Shows(p, q)
BY DEF SimInvariant, Shows, InSync

\* Nothing fails that is still seen.
LEMMA SeenRan ==
    ASSUME NEW p, NEW q, StillSeen(p, q)
    PROVE  ~Fails(p, dbms) /\ ~Fails(q, dbms)
<1>1. ExecSQL(p, dbms).err # TRUE /\ ExecSQL(q, dbms).err # TRUE
  BY DEF StillSeen, Contradict
<1>2. [err |-> TRUE, cols |-> 0, rows |-> <<>>].err = TRUE
  OBVIOUS
<1> QED
  BY <1>1, <1>2 DEF ExecSQL

\* A report starts with statements that imply one another.
LEMMA InitInvariant ==
    ASSUME SimInit
    PROVE  SimInvariant
<1> DEFINE p == report.original  q == report.mutated
<1>1. /\ bug = [OriginalSql |-> p, OriginalResult |-> NoResult,
                MutatedSql |-> q, MutatedResult |-> NoResult, isUpper |-> report.isUpper]
      /\ dbms \in DBMSs /\ report \in Reports /\ sqlsim = "start"
      /\ Contradict(ExecSQL(p, dbms), ExecSQL(q, dbms), report.isUpper)
  BY DEF SimInit
<1>2. /\ IsStatement(p) /\ IsStatement(q)
      /\ IF report.isUpper THEN Implies(p, q) ELSE Implies(q, p)
  BY <1>1, ReportsAssumption
<1>3. p.kind # q.kind /\ ~OutOfStep => p.with = <<>> /\ q.with = <<>>
  <2> HAVE p.kind # q.kind /\ ~OutOfStep
  <2>1. p.with = <<>>
    BY DEF OutOfStep
  <2>2. Len(p.with) = 0 /\ Len(q.with) = Len(p.with) /\ 1 # 0
    BY <1>2, <2>1, WithFacts DEF Implies
  <2> QED
    BY <1>2, <2>1, <2>2, WithFacts
<1>4. OutOfStep \/ InSync(p, q, report.isUpper)
  BY <1>2, <1>3 DEF InSync, Sync
<1> HIDE DEF p, q
<1>5. bug.OriginalSql = p /\ bug.MutatedSql = q /\ bug.isUpper = report.isUpper /\ IsBug(bug)
  BY <1>1 DEF IsBug
<1> QED
  BY <1>1, <1>4, <1>5 DEF SimInvariant, Shows, StillSeen

-----------------------------------------------------------------------------
(* One function after the other.                                           *)

\* Every function keeps the pair in step.
LEMMA FunctionShows ==
    ASSUME SimInvariant, SimNext
    PROVE  /\ UNCHANGED <<dbms, report>>
           /\ \/ bug' = bug /\ (sqlsim = "running" \/ sqlsim' = "left out")
              \/ \E p, q : bug' = With(p, q) /\ Shows(p, q)
<1> DEFINE a == bug.OriginalSql  b == bug.MutatedSql
           Goal == \/ bug' = bug /\ (sqlsim = "running" \/ sqlsim' = "left out")
                   \/ \E p, q : bug' = With(p, q) /\ Shows(p, q)
<1>1. CASE SqlSim
  <2>1. Shows(a, b)
    BY DEF SimInvariant
  <2>2. Goal
    BY <1>1, <2>1 DEF SqlSim
  <2> QED
    BY <1>1, <2>2 DEF SqlSim
<1>2. ASSUME NEW name, Func(name)
      PROVE  sqlsim = "running" /\ UNCHANGED <<dbms, report>>
  BY <1>2 DEF Func
<1>3. ASSUME NEW p, NEW q, Synchronized(p, q), sqlsim = "running",
             StillSeen(p, q) => /\ bug.isUpper /\ Sync(a, b) => Sync(p, q)
                                /\ ~bug.isUpper /\ Sync(b, a) => Sync(q, p)
      PROVE  Goal
  <2>1. CASE StillSeen(p, q)
    <3>1. Shows(p, q)
      BY <1>3, <2>1, StillShows
    <3>2. bug' = With(p, q)
      BY <1>3, <2>1 DEF Synchronized
    <3> QED
      BY <3>1, <3>2
  <2>2. CASE ~StillSeen(p, q)
    BY <1>3, <2>2 DEF Synchronized
  <2> QED
    BY <2>1, <2>2
<1> HIDE DEF Goal
<1>4. CASE frmWith
  <2>1. Func("frmWith") /\ Synchronized(frmWithUnit(a), frmWithUnit(b))
    BY <1>4 DEF frmWith
  <2>2. StillSeen(frmWithUnit(a), frmWithUnit(b)) =>
            /\ Sync(a, b) => Sync(frmWithUnit(a), frmWithUnit(b))
            /\ Sync(b, a) => Sync(frmWithUnit(b), frmWithUnit(a))
    BY SeenRan, FrmWithSync
  <2>3. Goal
    BY <1>2, <1>3, <2>1, <2>2
  <2> QED
    BY <1>2, <2>1, <2>3 DEF Goal
<1>5. CASE rmUnion
  <2>1. Func("rmUnion")
    BY <1>5 DEF rmUnion
  <2>2. \/ bug' = bug
        \/ /\ Len(Arms(a)) = 2 /\ Len(Arms(b)) = 2
           /\ \E i \in 1 .. 2 : StillSeen(a.sels[i], b.sels[i]) /\ bug' = With(a.sels[i], b.sels[i])
    <3>1. CASE Len(Arms(a)) = 2 /\ Len(Arms(b)) = 2
      <4> DEFINE seen == {i \in 1 .. 2 : StillSeen(a.sels[i], b.sels[i])}
      <4>1. bug' = IF 1 \in seen THEN With(a.sels[1], b.sels[1])
                   ELSE IF 2 \in seen THEN With(a.sels[2], b.sels[2]) ELSE bug
        BY <1>5, <3>1 DEF rmUnion
      <4>2. \A i \in seen : i \in 1 .. 2 /\ StillSeen(a.sels[i], b.sels[i])
        OBVIOUS
      <4> HIDE DEF seen
      <4>3. bug' = bug \/ \E i \in seen : bug' = With(a.sels[i], b.sels[i])
        BY <4>1
      <4> QED
        BY <3>1, <4>2, <4>3
    <3>2. CASE ~(Len(Arms(a)) = 2 /\ Len(Arms(b)) = 2)
      BY <1>5, <3>2 DEF rmUnion
    <3> QED
      BY <3>1, <3>2
  <2>3. CASE bug' = bug
    BY <1>2, <2>1, <2>3 DEF Goal
  <2>4. CASE bug' # bug
    <3>1. Len(Arms(a)) = 2 /\ Len(Arms(b)) = 2
      BY <2>2, <2>4
    <3>2. PICK i \in 1 .. 2 : StillSeen(a.sels[i], b.sels[i]) /\ bug' = With(a.sels[i], b.sels[i])
      BY <2>2, <2>4
    <3>3. /\ Sync(a, b) => Sync(a.sels[i], b.sels[i])
          /\ Sync(b, a) => Sync(b.sels[i], a.sels[i])
      BY <3>1, ArmSync
    <3>4. Shows(a.sels[i], b.sels[i])
      BY <3>2, <3>3, StillShows
    <3>5. Goal
      BY <3>2, <3>4 DEF Goal
    <3> QED
      BY <1>2, <2>1, <3>5 DEF Goal
  <2> QED
    BY <2>3, <2>4
<1>6. ASSUME NEW name, NEW feature, Func(name), Removes(feature)
      PROVE  Goal
  <2>1. Synchronized(Without(feature, a), Without(feature, b))
    BY <1>6 DEF Removes
  <2>2. /\ Sync(a, b) => Sync(Without(feature, a), Without(feature, b))
        /\ Sync(b, a) => Sync(Without(feature, b), Without(feature, a))
    BY WithoutSync
  <2> QED
    BY <1>2, <1>3, <1>6, <2>1, <2>2
<1>7. ASSUME NEW name, NEW old, NEW new, Func(name), Renames(old, new)
      PROVE  Goal
  <2>1. Synchronized(Renamed(old, new, a), Renamed(old, new, b))
    BY <1>7 DEF Renames
  <2>2. /\ Sync(a, b) => Sync(Renamed(old, new, a), Renamed(old, new, b))
        /\ Sync(b, a) => Sync(Renamed(old, new, b), Renamed(old, new, a))
    BY RenamedSync
  <2> QED
    BY <1>2, <1>3, <1>7, <2>1, <2>2
<1>8. CASE frmHint
  BY <1>2, <1>6, <1>8 DEF frmHint, Goal
<1>9. CASE rmOrderBy
  BY <1>2, <1>6, <1>9 DEF rmOrderBy, Goal
<1>10. CASE frmCharset
  BY <1>2, <1>6, <1>10 DEF frmCharset, Goal
<1>11. CASE frmTimeFunc
  BY <1>2, <1>7, <1>11 DEF frmTimeFunc, Goal
<1>12. CASE frmStrFunc
  BY <1>2, <1>7, <1>12 DEF frmStrFunc, Goal
<1>13. CASE frmInfoFunc
  BY <1>2, <1>7, <1>13 DEF frmInfoFunc, Goal
<1> QED
  BY <1>1, <1>4, <1>5, <1>8, <1>9, <1>10, <1>11, <1>12, <1>13 DEF SimNext

\* The invariant holds.
LEMMA SimInvariantHolds == SimSpec => []SimInvariant
<1>1. SimInit => SimInvariant
  BY InitInvariant
<1>2. SimInvariant /\ [SimNext]_simVars => SimInvariant'
  <2> SUFFICES ASSUME SimInvariant, [SimNext]_simVars
               PROVE  SimInvariant'
    OBVIOUS
  <2>1. CASE SimNext
    BY <2>1, FunctionShows, KeepsInvariant
  <2>2. CASE UNCHANGED simVars
    <3>1. UNCHANGED <<dbms, report>> /\ bug' = bug /\ UNCHANGED sqlsim
      BY <2>2 DEF simVars
    <3> QED
      BY <3>1, KeepsInvariant
  <2> QED
    BY <2>1, <2>2
<1> QED
  BY <1>1, <1>2, PTL DEF SimSpec

\* A DBMS without the bug has the rest of this one.
LEMMA CorrectFields ==
    ASSUME NEW d \in DBMSs
    PROVE  Correct(d).instead = Correct(d).where /\ Correct(d).fails = d.fails
BY DBMSsAssumption DEF Correct

\* What is saved shows the bug of the DBMS, and nothing else is wrong with
\* it: a DBMS without the bug is consistent (sqlsim.go:88-128).  Whatever the
\* statements, the tables, and the bug.
THEOREM SimplifiedReportsAreBugs == SimSpec => []SimplifiedBug
<1>1. SimInvariant => SimplifiedBug
  <2> SUFFICES ASSUME SimInvariant, sqlsim = "saved"
               PROVE  /\ bug.OriginalResult = ExecSQL(bug.OriginalSql, dbms)
                      /\ bug.MutatedResult = ExecSQL(bug.MutatedSql, dbms)
                      /\ Contradict(bug.OriginalResult, bug.MutatedResult, bug.isUpper)
                      /\ OutOfStep \/ Check(ExecSQL(bug.OriginalSql, Correct(dbms)),
                                            ExecSQL(bug.MutatedSql, Correct(dbms)), bug.isUpper)
    BY DEF SimplifiedBug
  <2> DEFINE p == bug.OriginalSql  q == bug.MutatedSql  d == Correct(dbms)
  <2>1. /\ bug.OriginalResult = ExecSQL(p, dbms) /\ bug.MutatedResult = ExecSQL(q, dbms)
        /\ StillSeen(p, q) /\ (OutOfStep \/ InSync(p, q, bug.isUpper))
        /\ bug.isUpper = report.isUpper /\ report \in Reports /\ dbms \in DBMSs
    BY DEF SimInvariant, Shows
  <2>2. Contradict(bug.OriginalResult, bug.MutatedResult, bug.isUpper)
    BY <2>1 DEF StillSeen
  <2>3. ASSUME ~OutOfStep
        PROVE  Check(ExecSQL(p, d), ExecSQL(q, d), bug.isUpper)
    <3>1. d.instead = d.where /\ ~Fails(p, d) /\ ~Fails(q, d)
      <4>1. ~Fails(p, dbms) /\ ~Fails(q, dbms)
        BY <2>1, SeenRan
      <4>2. d.instead = d.where /\ d.fails = dbms.fails
        BY <2>1, CorrectFields
      <4> HIDE DEF d
      <4> QED
        BY <4>1, <4>2 DEF Fails
    <3>2. bug.isUpper \in BOOLEAN
      BY <2>1, ReportsAssumption
    <3> HIDE DEF d, p, q
    <3>3. CASE bug.isUpper = TRUE
      <4>1. IsStatement(p) /\ IsStatement(q) /\ Implies(p, q)
        BY <2>1, <2>3, <3>3 DEF InSync, Sync
      <4>2. Check(ExecSQL(p, d), ExecSQL(q, d), TRUE)
        BY <3>1, <4>1, ImpliedCheck
      <4> QED
        BY <3>3, <4>2
    <3>4. CASE bug.isUpper = FALSE
      <4>1. IsStatement(p) /\ IsStatement(q) /\ Implies(q, p)
        BY <2>1, <2>3, <3>4 DEF InSync, Sync
      <4>2. Check(ExecSQL(p, d), ExecSQL(q, d), FALSE)
        BY <3>1, <4>1, ImpliedCheck
      <4> QED
        BY <3>4, <4>2
    <3> QED
      BY <3>2, <3>3, <3>4
  <2> QED
    BY <2>1, <2>2, <2>3
<1> QED
  BY <1>1, SimInvariantHolds, PTL

-----------------------------------------------------------------------------
(* The database that a script builds.                                      *)

\* A table with the rows numbered from 1, and a database of such tables.
IsTable(table) ==
    /\ table = [cols |-> table.cols, keys |-> table.keys, rows |-> table.rows]
    /\ IsRows(table.cols) /\ IsRows(table.rows)

\* The database after a script that may have failed.
IsDb(db) ==
    /\ db = [failed |-> db.failed, tables |-> db.tables]
    /\ db.failed \in BOOLEAN
    /\ db.tables = [t \in DOMAIN db.tables |-> db.tables[t]]
    /\ \A t \in DOMAIN db.tables : IsTable(db.tables[t])

\* A statement of a script, of one of the shapes that the scripts have.
IsDdl(d) ==
    /\ d.kind \in {"create", "insert", "drop", "rename", "other"}
    /\ d.kind = "create" => IsCreate(d) /\ IsRows(d.cols)
    /\ d.kind = "insert" => IsInsert(d) /\ IsRows(d.rows)

\* after[n] is the database after the first n statements.
Builds(after, ddls, m) ==
    after = [n \in 0 .. m |-> IF n = 0 THEN NoTables ELSE AfterDdl(after[n - 1], ddls[n])]

\* The recursion of InitDBWithDDL has a solution.
LEMMA BuildExists ==
    ASSUME NEW ddls
    PROVE  \A m \in Nat : \E after : Builds(after, ddls, m)
<1> DEFINE S == {n \in Nat : \E after : Builds(after, ddls, n)}
<1>1. 0 \in S
  <2> DEFINE h == [n \in 0 .. 0 |-> NoTables]
  <2>1. h = [n \in 0 .. 0 |-> IF n = 0 THEN NoTables ELSE AfterDdl(h[n - 1], ddls[n])]
    OBVIOUS
  <2>2. Builds(h, ddls, 0)
    BY <2>1 DEF Builds
  <2> QED
    BY <2>2
<1>2. ASSUME NEW m \in Nat, m \in S
      PROVE  m + 1 \in S
  <2>1. PICK g : Builds(g, ddls, m)
    BY <1>2
  <2> DEFINE last == AfterDdl(g[m], ddls[m + 1])
             h == [n \in 0 .. m + 1 |-> IF n = m + 1 THEN last ELSE g[n]]
  <2>2. \A n \in 0 .. m : g[n] = IF n = 0 THEN NoTables ELSE AfterDdl(g[n - 1], ddls[n])
    BY <2>1 DEF Builds
  <2>3. \A n \in 0 .. m : n # m + 1 /\ n \in 0 .. m + 1
    OBVIOUS
  <2>4. \A n \in 0 .. m : h[n] = g[n]
    <3> HIDE DEF last
    <3> QED
      BY <2>3
  <2>5. h[m + 1] = last /\ h = [n \in 0 .. m + 1 |-> h[n]]
    <3>1. m + 1 \in 0 .. m + 1
      OBVIOUS
    <3> HIDE DEF last
    <3> QED
      BY <3>1
  <2> HIDE DEF h
  <2>6. \A n \in 0 .. m + 1 : h[n] = IF n = 0 THEN NoTables ELSE AfterDdl(h[n - 1], ddls[n])
    <3> TAKE n \in 0 .. m + 1
    <3>1. CASE n = m + 1
      <4>1. m \in 0 .. m /\ n - 1 = m /\ n # 0
        BY <3>1
      <4> QED
        BY <2>4, <2>5, <3>1, <4>1
    <3>2. CASE n # m + 1
      <4>1. n \in 0 .. m
        BY <3>2
      <4>2. n # 0 => n - 1 \in 0 .. m
        BY <4>1
      <4> QED
        BY <2>2, <2>4, <4>1, <4>2
    <3> QED
      BY <3>1, <3>2
  <2>7. Builds(h, ddls, m + 1)
    BY <2>5, <2>6 DEF Builds
  <2> QED
    BY <2>7
<1> HIDE DEF S
<1>3. Nat \subseteq S
  BY <1>1, <1>2, Induction
<1> QED
  BY <1>3 DEF S

\* What InitDBWithDDL computes.
LEMMA BuildUnfold ==
    ASSUME NEW ddls, Len(ddls) \in Nat
    PROVE  \E after : /\ Builds(after, ddls, Len(ddls))
                      /\ InitDBWithDDL(ddls) = after[Len(ddls)]
<1> DEFINE m == Len(ddls)
           R == CHOOSE after : Builds(after, ddls, m)
<1>1. \E after : Builds(after, ddls, m)
  BY BuildExists
<1>2. Builds(R, ddls, m)
  BY <1>1
<1>3. InitDBWithDDL(ddls) = R[m]
  BY DEF InitDBWithDDL, Builds
<1> QED
  BY <1>2, <1>3

\* Step by step.
LEMMA BuildSteps ==
    ASSUME NEW after, NEW ddls, NEW m \in Nat, Builds(after, ddls, m)
    PROVE  /\ after[0] = NoTables
           /\ \A n \in 0 .. m - 1 : after[n + 1] = AfterDdl(after[n], ddls[n + 1])
<1>1. \A n \in 0 .. m : after[n] = IF n = 0 THEN NoTables ELSE AfterDdl(after[n - 1], ddls[n])
  BY DEF Builds
<1>2. 0 \in 0 .. m
  OBVIOUS
<1>3. \A n \in 0 .. m - 1 : n + 1 \in 0 .. m /\ n + 1 # 0 /\ (n + 1) - 1 = n
  OBVIOUS
<1> QED
  BY <1>1, <1>2, <1>3

\* Scripts that begin alike build alike.
LEMMA BuildAlike ==
    ASSUME NEW a, NEW b, NEW c, NEW d, NEW m \in Nat, NEW k \in Nat, m <= k,
           Builds(a, c, m), Builds(b, d, k), \A n \in 1 .. m : c[n] = d[n]
    PROVE  \A n \in 0 .. m : a[n] = b[n]
<1> DEFINE S == {n \in Nat : n <= m => a[n] = b[n]}
<1>1. /\ a[0] = NoTables /\ b[0] = NoTables
      /\ \A n \in 0 .. m - 1 : a[n + 1] = AfterDdl(a[n], c[n + 1])
      /\ \A n \in 0 .. k - 1 : b[n + 1] = AfterDdl(b[n], d[n + 1])
  BY BuildSteps
<1>2. 0 \in S
  BY <1>1
<1>3. ASSUME NEW n \in Nat, n \in S
      PROVE  n + 1 \in S
  <2> SUFFICES ASSUME n + 1 <= m
               PROVE  a[n + 1] = b[n + 1]
    OBVIOUS
  <2>1. n \in 0 .. m - 1 /\ n \in 0 .. k - 1 /\ n + 1 \in 1 .. m /\ n <= m
    OBVIOUS
  <2>2. a[n] = b[n]
    BY <1>3, <2>1
  <2>3. c[n + 1] = d[n + 1]
    BY <2>1
  <2> QED
    BY <1>1, <2>1, <2>2, <2>3
<1> HIDE DEF S
<1>4. Nat \subseteq S
  BY <1>2, <1>3, Induction
<1> QED
  BY <1>4 DEF S

\* One statement more.
LEMMA BuildAppend ==
    ASSUME NEW ddls, IsRows(ddls), NEW d
    PROVE  InitDBWithDDL(ddls \o <<d>>) = AfterDdl(InitDBWithDDL(ddls), d)
<1> DEFINE m == Len(ddls)  more == ddls \o <<d>>
<1>1. m \in Nat /\ DOMAIN ddls = 1 .. m /\ \E S : ddls \in Seq(S)
  BY RowsFacts DEF IsRows
<1>2. Len(more) = m + 1 /\ more[m + 1] = d /\ \A n \in 1 .. m : more[n] = ddls[n]
  <2>1. PICK S : ddls \in Seq(S)
    BY <1>1
  <2>2. ddls \in Seq(S \cup {d}) /\ <<d>> \in Seq(S \cup {d})
    BY <2>1
  <2> QED
    BY <2>2
<1> HIDE DEF more
<1>3. PICK a : Builds(a, ddls, m) /\ InitDBWithDDL(ddls) = a[m]
  BY <1>1, BuildUnfold
<1>4. PICK b : Builds(b, more, m + 1) /\ InitDBWithDDL(more) = b[m + 1]
  BY <1>1, <1>2, BuildUnfold
<1> HIDE DEF m
<1>5. m \in 0 .. m /\ m \in 0 .. (m + 1) - 1 /\ m + 1 \in Nat /\ m <= m + 1
  BY <1>1
<1>6. a[m] = b[m]
  BY <1>1, <1>2, <1>3, <1>4, <1>5, BuildAlike
<1>7. b[m + 1] = AfterDdl(b[m], more[m + 1])
  BY <1>4, <1>5, BuildSteps
<1> QED
  BY <1>2, <1>3, <1>4, <1>6, <1>7 DEF more

\* No statement at all.
LEMMA BuildNone == InitDBWithDDL(<<>>) = NoTables
<1>1. Len(<<>>) = 0 /\ 0 \in Nat
  OBVIOUS
<1>2. PICK a : Builds(a, <<>>, 0) /\ InitDBWithDDL(<<>>) = a[0]
  BY <1>1, BuildUnfold
<1> QED
  BY <1>1, <1>2, BuildSteps

\* Two sequences of rows, one after the other.
LEMMA RowsConcat ==
    ASSUME NEW l, NEW r, IsRows(l), IsRows(r)
    PROVE  /\ IsRows(l \o r) /\ Len(l \o r) = Len(l) + Len(r)
           /\ \A i \in 1 .. Len(l) : (l \o r)[i] = l[i]
           /\ \A i \in 1 .. Len(r) : (l \o r)[Len(l) + i] = r[i]
<1>1. PICK S, T : l \in Seq(S) /\ r \in Seq(T)
  BY DEF IsRows
<1> DEFINE U == S \cup T
<1>2. l \in Seq(U) /\ r \in Seq(U)
  BY <1>1
<1> HIDE DEF U
<1>3. l \o r \in Seq(U) /\ Len(l \o r) = Len(l) + Len(r)
  BY <1>2
<1>4. \A i \in 1 .. Len(l) : (l \o r)[i] = l[i]
  BY <1>2
<1>5. \A i \in 1 .. Len(r) : (l \o r)[Len(l) + i] = r[i]
  BY <1>2
<1> QED
  BY <1>3, <1>4, <1>5 DEF IsRows

\* A failure leaves the tables.
LEMMA FailFacts ==
    ASSUME NEW db, IsDb(db)
    PROVE  IsDb(Fail(db)) /\ Fail(db).failed = TRUE /\ Fail(db).tables = db.tables
<1> DEFINE f == Fail(db)
<1>1. f = [failed |-> TRUE, tables |-> db.tables]
  BY DEF Fail
<1> HIDE DEF f
<1>2. f.failed = TRUE /\ f.tables = db.tables
  BY <1>1
<1>3. f = [failed |-> f.failed, tables |-> f.tables]
  BY <1>1, <1>2
<1> QED
  BY <1>2, <1>3 DEF IsDb, f

\* One table more, or another one of its name.
LEMMA WithTableFacts ==
    ASSUME NEW db, IsDb(db), NEW name, NEW table, IsTable(table)
    PROVE  /\ IsDb(WithTable(db, name, table))
           /\ WithTable(db, name, table).failed = db.failed
           /\ DOMAIN WithTable(db, name, table).tables = DOMAIN db.tables \cup {name}
           /\ WithTable(db, name, table).tables[name] = table
           /\ \A t \in DOMAIN db.tables :
                 t # name => WithTable(db, name, table).tables[t] = db.tables[t]
<1> DEFINE w == WithTable(db, name, table)
           tabs == [t \in DOMAIN db.tables \cup {name} |-> IF t = name THEN table ELSE db.tables[t]]
<1>1. w = [failed |-> db.failed, tables |-> tabs]
  BY DEF WithTable, IsDb
<1>2. /\ DOMAIN tabs = DOMAIN db.tables \cup {name} /\ tabs[name] = table
      /\ \A t \in DOMAIN db.tables : t # name => tabs[t] = db.tables[t]
      /\ tabs = [t \in DOMAIN tabs |-> tabs[t]]
  OBVIOUS
<1> HIDE DEF tabs, w
<1>3. w.failed = db.failed /\ w.tables = tabs
  BY <1>1
<1>4. \A t \in DOMAIN tabs : IsTable(tabs[t])
  BY <1>2 DEF IsDb
<1>5. IsDb(w)
  BY <1>1, <1>2, <1>3, <1>4 DEF IsDb
<1> QED
  BY <1>2, <1>3, <1>5 DEF w

\* The tables without one.
DbWithout(db, old) == [db EXCEPT !.tables = WithoutTable(@, old)]

\* They stay as they are.
LEMMA WithoutTableFacts ==
    ASSUME NEW db, IsDb(db), NEW old
    PROVE  /\ IsDb(DbWithout(db, old)) /\ DbWithout(db, old).failed = db.failed
           /\ DOMAIN DbWithout(db, old).tables = DOMAIN db.tables \ {old}
           /\ \A t \in DOMAIN DbWithout(db, old).tables : DbWithout(db, old).tables[t] = db.tables[t]
<1> DEFINE w == DbWithout(db, old)
           tabs == [t \in DOMAIN db.tables \ {old} |-> db.tables[t]]
<1>1. w = [failed |-> db.failed, tables |-> tabs]
  BY DEF DbWithout, IsDb, WithoutTable
<1>2. /\ tabs = [t \in DOMAIN tabs |-> tabs[t]] /\ DOMAIN tabs = DOMAIN db.tables \ {old}
      /\ \A t \in DOMAIN tabs : t \in DOMAIN db.tables /\ tabs[t] = db.tables[t]
  OBVIOUS
<1> HIDE DEF tabs, w
<1>3. w.failed = db.failed /\ w.tables = tabs
  BY <1>1
<1>4. IsDb(w)
  BY <1>1, <1>2, <1>3 DEF IsDb
<1> QED
  BY <1>2, <1>3, <1>4 DEF w

\* A table with the inserted rows after the others.
InsertRows(table, d) == [table EXCEPT !.rows = @ \o Inserted(table, d)]

\* They go after the others.
LEMMA InsertRowsFacts ==
    ASSUME NEW table, IsTable(table), NEW d, IsRows(d.rows)
    PROVE  /\ IsTable(InsertRows(table, d)) /\ InsertRows(table, d).cols = table.cols
           /\ InsertRows(table, d).keys = table.keys
           /\ InsertRows(table, d).rows = table.rows \o Inserted(table, d)
           /\ IsRows(Inserted(table, d)) /\ Len(Inserted(table, d)) = Len(d.rows)
<1> DEFINE ins == Inserted(table, d)  w == InsertRows(table, d)
           rows == table.rows \o ins
<1>1. Len(d.rows) \in Nat /\ DOMAIN d.rows = 1 .. Len(d.rows)
  BY RowsFacts
<1>2. ins = [i \in 1 .. Len(d.rows) |-> ins[i]]
  BY <1>1 DEF Inserted
<1>3. w = [table EXCEPT !.rows = @ \o ins]
  BY DEF InsertRows
<1> HIDE DEF ins, w
<1>4. IsRows(ins) /\ Len(ins) = Len(d.rows)
  BY <1>1, <1>2, RowsIntro
<1>5. IsRows(rows)
  BY <1>4, RowsConcat DEF IsTable
<1> HIDE DEF rows
<1>6. w = [cols |-> table.cols, keys |-> table.keys, rows |-> rows]
  BY <1>3 DEF IsTable, rows
<1>7. w.cols = table.cols /\ w.keys = table.keys /\ w.rows = rows
  BY <1>6
<1>8. IsTable(w)
  BY <1>5, <1>6, <1>7 DEF IsTable
<1> QED
  BY <1>4, <1>7, <1>8 DEF ins, w, rows

\* A new table.
LEMMA NewTable ==
    ASSUME NEW cols, IsRows(cols), NEW keys
    PROVE  IsTable([cols |-> cols, keys |-> keys, rows |-> <<>>])
<1> DEFINE w == [cols |-> cols, keys |-> keys, rows |-> <<>>]
<1>1. w.cols = cols /\ w.rows = <<>> /\ w = [cols |-> w.cols, keys |-> w.keys, rows |-> w.rows]
  OBVIOUS
<1>2. IsRows(<<>>)
  <2>1. <<>> \in Seq({})
    OBVIOUS
  <2> QED
    BY <2>1 DEF IsRows
<1> HIDE DEF w
<1>3. IsTable(w)
  BY <1>1, <1>2 DEF IsTable
<1> QED
  BY <1>3 DEF w

\* The table that a CREATE TABLE makes.
LEMMA NewTableOfType ==
    ASSUME NEW db, IsDb(db), NEW d, IsRows(d.cols),
           {d.refer, d.select} \subseteq DOMAIN db.tables \cup {NoTable}
    PROVE  IsTable(NewTableOf(db, d))
<1>1. CASE d.refer # NoTable
  <2> DEFINE t == db.tables[d.refer]
  <2>1. IsTable(t)
    BY <1>1 DEF IsDb
  <2>2. NewTableOf(db, d) = [t EXCEPT !.rows = <<>>]
    BY <1>1 DEF NewTableOf
  <2> HIDE DEF t
  <2>3. [t EXCEPT !.rows = <<>>] = [cols |-> t.cols, keys |-> t.keys, rows |-> <<>>]
    BY <2>1 DEF IsTable
  <2> QED
    BY <2>1, <2>2, <2>3, NewTable DEF IsTable
<1>2. CASE d.refer = NoTable /\ d.select # NoTable
  <2> DEFINE t == db.tables[d.select]
             w == [cols |-> t.cols, keys |-> {}, rows |-> t.rows]
  <2>1. IsTable(t)
    BY <1>2 DEF IsDb
  <2>2. NewTableOf(db, d) = [t EXCEPT !.keys = {}]
    BY <1>2 DEF NewTableOf
  <2> HIDE DEF t
  <2>3. [t EXCEPT !.keys = {}] = w
    BY <2>1 DEF IsTable
  <2>4. w.cols = t.cols /\ w.rows = t.rows /\ w = [cols |-> w.cols, keys |-> w.keys, rows |-> w.rows]
    OBVIOUS
  <2> HIDE DEF w
  <2> QED
    BY <2>1, <2>2, <2>3, <2>4 DEF IsTable
<1>3. CASE d.refer = NoTable /\ d.select = NoTable
  BY <1>3, NewTable DEF NewTableOf
<1> QED
  BY <1>1, <1>2, <1>3

\* What is left of the rows with one key.
LEMMA OnePerKeyRows ==
    ASSUME NEW table, NEW rows, IsRows(rows), NEW how
    PROVE  IsRows(OnePerKey(table, rows, how))
<1> DEFINE S == {i \in DOMAIN rows :
                    \A j \in DOMAIN rows : Duplicates(table, rows[i], rows[j]) =>
                        IF how = "ignore" THEN i <= j ELSE i >= j}
           kept == Ascending(S)
           one == OnePerKey(table, rows, how)
<1>1. S \in SUBSET Int /\ IsFiniteSet(S)
  <2>1. DOMAIN rows \subseteq Int /\ IsFiniteSet(DOMAIN rows)
    BY RowsFacts
  <2>2. S \in SUBSET (DOMAIN rows)
    OBVIOUS
  <2> HIDE DEF S
  <2> QED
    BY <2>1, <2>2, FS_Subset
<1>2. one = [k \in DOMAIN kept |-> rows[kept[k]]]
  BY DEF OnePerKey
<1> HIDE DEF S, one
<1>3. Cardinality(S) \in Nat /\ DOMAIN kept = 1 .. Cardinality(S)
  BY <1>1, FS_CardinalityType, AscendingOnto
<1> HIDE DEF kept
<1>4. one = [k \in 1 .. Cardinality(S) |-> one[k]]
  BY <1>2, <1>3
<1> QED
  BY <1>3, <1>4, RowsIntro DEF one

\* What each statement makes of a database, if it does not fail.
LEMMA AfterDdlCases ==
    ASSUME NEW db, IsDb(db), NEW d, IsDdl(d)
    PROVE  /\ db.failed => AfterDdl(db, d) = db
           /\ d.kind = "other" => AfterDdl(db, d) = db
           /\ ~db.failed /\ d.kind = "create" => AfterDdl(db, d) = CreateTable(db, d)
           /\ ~db.failed /\ d.kind = "drop" => AfterDdl(db, d) = DropTable(db, d)
           /\ ~db.failed /\ d.kind = "rename" => AfterDdl(db, d) = RenameTable(db, d)
           /\ ~db.failed /\ d.kind = "insert" => AfterDdl(db, d) = InsertInto(db, d)
<1>1. /\ (db.failed \/ d.kind = "other") => AfterDdl(db, d) = db
  BY DEF AfterDdl
<1>2. ~db.failed /\ d.kind = "create" => AfterDdl(db, d) = CreateTable(db, d)
  BY DEF AfterDdl
<1>3. ~db.failed /\ d.kind = "rename" => AfterDdl(db, d) = RenameTable(db, d)
  BY DEF AfterDdl
<1>4. ~db.failed /\ d.kind = "insert" => AfterDdl(db, d) = InsertInto(db, d)
  BY DEF AfterDdl
<1>5. ~db.failed /\ d.kind = "drop" => AfterDdl(db, d) = DropTable(db, d)
  BY DEF AfterDdl
<1> QED
  BY <1>1, <1>2, <1>3, <1>4, <1>5

\* The cases of a CREATE TABLE.
LEMMA CreateCases ==
    ASSUME NEW db, IsDb(db), NEW d, IsRows(d.cols)
    PROVE  \/ CreateTable(db, d) = Fail(db)
           \/ CreateTable(db, d) = db /\ d.table \in DOMAIN db.tables /\ d.ifNotExists
           \/ /\ CreateTable(db, d) = WithTable(db, d.table, NewTableOf(db, d))
              /\ IsTable(NewTableOf(db, d)) /\ d.table \notin DOMAIN db.tables
              /\ IsInjective(NewTableOf(db, d).cols)
<1> DEFINE new == NewTableOf(db, d)
           refs == {d.refer, d.select} \subseteq DOMAIN db.tables \cup {NoTable}
           bad == \/ ~refs
                  \/ new.cols = <<>> \/ ~IsInjective(new.cols)
                  \/ ~(d.auto \subseteq UNION {key.of : key \in d.keys})
<1>1. CreateTable(db, d) = IF d.table \in DOMAIN db.tables
                           THEN IF d.ifNotExists THEN db ELSE Fail(db)
                           ELSE IF bad THEN Fail(db) ELSE WithTable(db, d.table, new)
  BY DEF CreateTable
<1>2. ~bad => refs /\ IsInjective(new.cols)
  OBVIOUS
<1>3. refs => IsTable(new)
  BY NewTableOfType
<1> HIDE DEF bad, refs, new
<1> QED
  BY <1>1, <1>2, <1>3 DEF new

\* The cases of an INSERT.
LEMMA InsertCases ==
    ASSUME NEW db, IsDb(db), NEW d, IsRows(d.rows)
    PROVE  \/ InsertInto(db, d) = Fail(db)
           \/ /\ d.table \in DOMAIN db.tables
              /\ \E table : IsTable(table) /\ InsertInto(db, d) = WithTable(db, d.table, table)
<1> DEFINE table == db.tables[d.table]
           all == table.rows \o Inserted(table, d)
           clash == \E i, j \in DOMAIN all : i # j /\ Duplicates(table, all[i], all[j])
           rows == IF clash THEN OnePerKey(table, all, d.onDuplicate) ELSE all
           w == [table EXCEPT !.rows = rows]
<1>1. \/ InsertInto(db, d) = Fail(db)
      \/ d.table \in DOMAIN db.tables /\ InsertInto(db, d) = WithTable(db, d.table, w)
  BY DEF InsertInto
<1>2. ASSUME d.table \in DOMAIN db.tables
      PROVE  IsTable(w)
  <2>1. IsTable(table)
    BY <1>2 DEF IsDb
  <2>2. IsRows(all)
    BY <2>1, InsertRowsFacts, RowsConcat DEF IsTable
  <2>3. IsRows(rows)
    BY <2>2, OnePerKeyRows
  <2> HIDE DEF rows, table
  <2>4. w = [cols |-> table.cols, keys |-> table.keys, rows |-> rows]
    BY <2>1 DEF IsTable
  <2>5. w.cols = table.cols /\ w.keys = table.keys /\ w.rows = rows
    BY <2>4
  <2> HIDE DEF w
  <2> QED
    BY <2>1, <2>3, <2>4, <2>5 DEF IsTable
<1> QED
  BY <1>1, <1>2

\* A statement makes a database of a database.
LEMMA AfterDdlType ==
    ASSUME NEW db, IsDb(db), NEW d, IsDdl(d)
    PROVE  IsDb(AfterDdl(db, d))
<1>1. CASE db.failed \/ d.kind = "other"
  BY <1>1, AfterDdlCases
<1>2. CASE ~db.failed /\ d.kind = "create"
  <2>1. AfterDdl(db, d) = CreateTable(db, d) /\ IsRows(d.cols)
    BY <1>2, AfterDdlCases DEF IsDdl
  <2>2. \/ CreateTable(db, d) = Fail(db) \/ CreateTable(db, d) = db
        \/ \E table : IsTable(table) /\ CreateTable(db, d) = WithTable(db, d.table, table)
    BY <2>1, CreateCases
  <2>3. CASE CreateTable(db, d) = Fail(db)
    BY <2>1, <2>3, FailFacts
  <2>4. CASE CreateTable(db, d) = db
    BY <2>1, <2>4
  <2>5. CASE \E table : IsTable(table) /\ CreateTable(db, d) = WithTable(db, d.table, table)
    <3>1. PICK table : IsTable(table) /\ CreateTable(db, d) = WithTable(db, d.table, table)
      BY <2>5
    <3>2. IsDb(WithTable(db, d.table, table))
      BY <3>1, WithTableFacts
    <3> QED
      BY <2>1, <3>1, <3>2
  <2> QED
    BY <2>2, <2>3, <2>4, <2>5
<1>3. CASE ~db.failed /\ d.kind = "rename"
  <2> DEFINE w == DbWithout(db, d.old)
  <2>1. AfterDdl(db, d) = RenameTable(db, d)
    BY <1>3, AfterDdlCases
  <2>2. IsDb(Fail(db)) /\ IsDb(w)
    BY FailFacts, WithoutTableFacts
  <2>3. RenameTable(db, d) = IF d.old \notin DOMAIN db.tables \/ d.table \in DOMAIN db.tables
                             THEN Fail(db)
                             ELSE WithTable(w, d.table, db.tables[d.old])
    BY DEF RenameTable, DbWithout
  <2> HIDE DEF w
  <2>4. d.old \in DOMAIN db.tables => IsDb(WithTable(w, d.table, db.tables[d.old]))
    <3> SUFFICES ASSUME d.old \in DOMAIN db.tables
                 PROVE  IsDb(WithTable(w, d.table, db.tables[d.old]))
      OBVIOUS
    <3>1. IsTable(db.tables[d.old])
      BY DEF IsDb
    <3> QED
      BY <2>2, <3>1, WithTableFacts
  <2> QED
    BY <2>1, <2>2, <2>3, <2>4
<1>4. CASE ~db.failed /\ d.kind = "insert"
  <2>1. AfterDdl(db, d) = InsertInto(db, d) /\ IsRows(d.rows)
    BY <1>4, AfterDdlCases DEF IsDdl
  <2>2. CASE InsertInto(db, d) = Fail(db)
    BY <2>1, <2>2, FailFacts
  <2>3. CASE InsertInto(db, d) # Fail(db)
    <3>1. PICK table : IsTable(table) /\ InsertInto(db, d) = WithTable(db, d.table, table)
      BY <2>1, <2>3, InsertCases
    <3>2. IsDb(WithTable(db, d.table, table))
      BY <3>1, WithTableFacts
    <3> QED
      BY <2>1, <3>1, <3>2
  <2> QED
    BY <2>2, <2>3
<1>5. CASE ~db.failed /\ d.kind = "drop"
  <2> DEFINE w == DbWithout(db, d.table)
  <2>1. AfterDdl(db, d) = DropTable(db, d)
    BY <1>5, AfterDdlCases
  <2>2. IsDb(Fail(db)) /\ IsDb(w)
    BY FailFacts, WithoutTableFacts
  <2>3. DropTable(db, d) = Fail(db) \/ DropTable(db, d) = w
    BY DEF DropTable, DbWithout
  <2> HIDE DEF w
  <2> QED
    BY <2>1, <2>2, <2>3
<1> QED
  BY <1>1, <1>2, <1>3, <1>4, <1>5 DEF IsDdl

\* A database without tables.
LEMMA NoTablesFacts == IsDb(NoTables) /\ ~NoTables.failed /\ DOMAIN NoTables.tables = {}
<1>1. NoTables.failed = FALSE /\ NoTables.tables = [t \in {} |-> <<>>]
  BY DEF NoTables
<1>2. NoTables = [failed |-> NoTables.failed, tables |-> NoTables.tables]
  BY DEF NoTables
<1>3. DOMAIN NoTables.tables = {}
  BY <1>1
<1>4. NoTables.tables = [t \in DOMAIN NoTables.tables |-> NoTables.tables[t]]
  BY <1>1
<1> QED
  BY <1>1, <1>2, <1>3, <1>4 DEF IsDb

\* The databases that a script goes through; once it has failed, it has failed.
LEMMA BuildType ==
    ASSUME NEW after, NEW ddls, NEW m \in Nat, Builds(after, ddls, m),
           \A n \in 1 .. m : IsDdl(ddls[n])
    PROVE  /\ \A n \in 0 .. m : IsDb(after[n])
           /\ \A n \in 0 .. m : after[n].failed => after[m].failed
<1>1. /\ after[0] = NoTables
      /\ \A n \in 0 .. m - 1 : after[n + 1] = AfterDdl(after[n], ddls[n + 1])
  BY BuildSteps
<1>2. IsDb(NoTables)
  BY NoTablesFacts
<1> DEFINE S == {n \in Nat : n <= m => IsDb(after[n])}
<1>3. 0 \in S
  BY <1>1, <1>2
<1>4. ASSUME NEW n \in Nat, n \in S
      PROVE  n + 1 \in S
  <2> SUFFICES ASSUME n + 1 <= m
               PROVE  IsDb(after[n + 1])
    OBVIOUS
  <2>1. n \in 0 .. m - 1 /\ n + 1 \in 1 .. m /\ n <= m
    OBVIOUS
  <2>2. IsDb(after[n]) /\ IsDdl(ddls[n + 1]) /\ after[n + 1] = AfterDdl(after[n], ddls[n + 1])
    BY <1>1, <1>4, <2>1
  <2> QED
    BY <2>2, AfterDdlType
<1> HIDE DEF S
<1>5. Nat \subseteq S
  BY <1>3, <1>4, Induction
<1>6. \A n \in 0 .. m : IsDb(after[n])
  BY <1>5 DEF S
<1>7. ASSUME NEW n \in 0 .. m, after[n].failed
      PROVE  after[m].failed
  <2> DEFINE T == {k \in Nat : n + k <= m => after[n + k].failed}
  <2>1. 0 \in T
    <3>1. n + 0 = n
      OBVIOUS
    <3> QED
      BY <1>7, <3>1
  <2>2. ASSUME NEW k \in Nat, k \in T
        PROVE  k + 1 \in T
    <3> SUFFICES ASSUME n + (k + 1) <= m
                 PROVE  after[n + (k + 1)].failed
      OBVIOUS
    <3> DEFINE p == n + k
    <3>1. p \in 0 .. m - 1 /\ p + 1 \in 1 .. m /\ p <= m /\ n + (k + 1) = p + 1 /\ p \in 0 .. m
      OBVIOUS
    <3>2. after[p].failed
      BY <2>2, <3>1
    <3> HIDE DEF p
    <3>3. IsDb(after[p]) /\ IsDdl(ddls[p + 1]) /\ after[p + 1] = AfterDdl(after[p], ddls[p + 1])
      BY <1>1, <1>6, <3>1
    <3>4. after[p + 1] = after[p]
      BY <3>2, <3>3, AfterDdlCases
    <3> QED
      BY <3>1, <3>2, <3>4
  <2> HIDE DEF T
  <2>3. Nat \subseteq T
    BY <2>1, <2>2, Induction
  <2>4. m - n \in Nat /\ n + (m - n) = m
    OBVIOUS
  <2>5. m - n \in T
    BY <2>3, <2>4
  <2> QED
    BY <2>4, <2>5 DEF T
<1> QED
  BY <1>6, <1>7

-----------------------------------------------------------------------------
(* The script that is cut down to a statement.                             *)

\* What is known of a script, and of one that rmtbcol can cut.
LEMMA ScriptFacts ==
    ASSUME script \in Scripts
    PROVE  /\ Len(script) \in Nat /\ DOMAIN script = 1 .. Len(script)
           /\ \A n \in 1 .. Len(script) : IsDdl(script[n])
           /\ ~Database.failed
<1>1. /\ script \in Seq(ToSet(script)) /\ ~Database.failed
      /\ \A n \in DOMAIN script :
            /\ script[n].kind \in {"create", "insert", "drop", "rename", "other"}
            /\ script[n].kind = "create" =>
                  IsCreate(script[n]) /\ script[n].cols \in Seq(ToSet(script[n].cols))
            /\ script[n].kind = "insert" =>
                  IsInsert(script[n]) /\ script[n].rows \in Seq(ToSet(script[n].rows))
  BY XAssumption DEF Database
<1>2. Len(script) \in Nat /\ DOMAIN script = 1 .. Len(script)
  BY <1>1
<1>3. \A n \in 1 .. Len(script) : IsDdl(script[n])
  BY <1>1, <1>2 DEF IsDdl, IsRows
<1> QED
  BY <1>1, <1>2, <1>3

\* The CREATE TABLE of t that was met last.
LEMMA LastCreateFacts ==
    ASSUME NEW n \in Nat, NEW t, Creates(n, t) # {}
    PROVE  \E i \in Creates(n, t) :
              LastCreate(n, t) = script[i] /\ \A j \in Creates(n, t) : j <= i
<1> DEFINE C == Creates(n, t)
           T == {n - i : i \in C}
<1>1. C \subseteq 1 .. n - 1 /\ C # {}
  BY DEF Creates
<1> HIDE DEF C
<1>2. T \in SUBSET Nat /\ T # {}
  BY <1>1
<1>3. PICK x \in T : \A y \in T : x <= y
  BY <1>2, LeastNumber
<1>4. PICK i \in C : x = n - i
  BY <1>3
<1>5. ASSUME NEW j \in C
      PROVE  j <= i
  <2>1. n - j \in T /\ j \in Int /\ i \in Int
    BY <1>1, <1>4
  <2>2. n - i <= n - j
    BY <1>3, <1>4, <2>1
  <2> QED
    BY <2>1, <2>2
<1>6. \E k \in C : \A j \in C : j <= k
  BY <1>4, <1>5
<1>7. PICK k : k = CHOOSE h \in C : \A j \in C : j <= h
  OBVIOUS
<1>8. k \in C /\ \A j \in C : j <= k
  BY <1>6, <1>7
<1>9. LastCreate(n, t) = script[k]
  BY <1>7 DEF LastCreate, C
<1> QED
  BY <1>8, <1>9 DEF C

\* After one more statement.
LEMMA LastCreateNext ==
    ASSUME NEW n \in Nat, n >= 1, NEW t
    PROVE  /\ script[n].kind = "create" /\ script[n].table = t =>
                  Creates(n + 1, t) # {} /\ LastCreate(n + 1, t) = script[n]
           /\ ~(script[n].kind = "create" /\ script[n].table = t) =>
                  Creates(n + 1, t) = Creates(n, t) /\ LastCreate(n + 1, t) = LastCreate(n, t)
<1>1. ASSUME script[n].kind = "create", script[n].table = t
      PROVE  Creates(n + 1, t) # {} /\ LastCreate(n + 1, t) = script[n]
  <2>1. n \in 1 .. (n + 1) - 1
    OBVIOUS
  <2>2. n \in Creates(n + 1, t) /\ Creates(n + 1, t) \subseteq 1 .. (n + 1) - 1
    BY <1>1, <2>1 DEF Creates
  <2>3. PICK i \in Creates(n + 1, t) :
            LastCreate(n + 1, t) = script[i] /\ \A j \in Creates(n + 1, t) : j <= i
    BY <2>2, LastCreateFacts
  <2>4. n <= i /\ i \in 1 .. (n + 1) - 1
    BY <2>2, <2>3
  <2>5. i = n
    BY <2>4
  <2> QED
    BY <2>2, <2>3, <2>5
<1>2. ASSUME ~(script[n].kind = "create" /\ script[n].table = t)
      PROVE  Creates(n + 1, t) = Creates(n, t) /\ LastCreate(n + 1, t) = LastCreate(n, t)
  <2>1. \A i \in 1 .. (n + 1) - 1 : i = n \/ i \in 1 .. n - 1
    OBVIOUS
  <2>2. \A i \in 1 .. n - 1 : i \in 1 .. (n + 1) - 1
    OBVIOUS
  <2>3. Creates(n + 1, t) = Creates(n, t)
    BY <1>2, <2>1, <2>2 DEF Creates
  <2> QED
    BY <2>3 DEF LastCreate
<1> QED
  BY <1>1, <1>2

\* The columns of the CREATE TABLE that is written.
SavedNames(create) ==
    [i \in DOMAIN SavedColumns(create) |-> create.cols[SavedColumns(create)[i]]]

\* The columns that stay: those the statement names, each once.
Saves(create, m) ==
    /\ m \in Nat /\ DOMAIN SavedColumns(create) = 1 .. m
    /\ \A i \in 1 .. m : SavedColumns(create)[i] \in DOMAIN create.cols
    /\ \A i, j \in 1 .. m : SavedColumns(create)[i] = SavedColumns(create)[j] => i = j
    /\ \A c \in DOMAIN create.cols :
          create.cols[c] \in ColumnNames(input) => \E i \in 1 .. m : SavedColumns(create)[i] = c
    /\ DOMAIN SavedNames(create) = 1 .. m /\ IsRows(SavedNames(create))
    /\ \A i \in 1 .. m : SavedNames(create)[i] = create.cols[SavedColumns(create)[i]]

\* How many there are.
LEMMA SavedFacts ==
    ASSUME NEW create, IsRows(create.cols)
    PROVE  \E m : Saves(create, m)
<1> DEFINE S == {i \in DOMAIN create.cols : create.cols[i] \in ColumnNames(input)}
           saved == SavedColumns(create)
           m == Cardinality(S)
           names == SavedNames(create)
<1>1. Len(create.cols) \in Nat /\ DOMAIN create.cols = 1 .. Len(create.cols)
      /\ IsFiniteSet(DOMAIN create.cols)
  BY RowsFacts
<1>2. S \in SUBSET Int /\ IsFiniteSet(S) /\ saved = Ascending(S)
  BY <1>1, FS_Subset DEF SavedColumns
<1>3. m \in Nat
  BY <1>2, FS_CardinalityType
<1>4. /\ saved \in [1 .. m -> S]
      /\ \A i, j \in 1 .. m : saved[i] = saved[j] => i = j
      /\ \A s \in S : \E i \in 1 .. m : saved[i] = s
  <2> HIDE DEF S, saved
  <2>1. /\ Ascending(S) \in [1 .. Cardinality(S) -> S]
        /\ \A i, j \in 1 .. Cardinality(S) : Ascending(S)[i] = Ascending(S)[j] => i = j
        /\ \A s \in S : \E i \in 1 .. Cardinality(S) : Ascending(S)[i] = s
    BY <1>2, AscendingOnto
  <2> HIDE DEF m
  <2>2. m = Cardinality(S)
    BY DEF m
  <2> QED
    BY <1>2, <2>1, <2>2, Zenon
<1>5. /\ names = [i \in DOMAIN saved |-> create.cols[saved[i]]]
  BY DEF SavedNames
<1>6. /\ \A i \in 1 .. m : saved[i] \in DOMAIN create.cols
      /\ \A c \in DOMAIN create.cols :
            create.cols[c] \in ColumnNames(input) => \E i \in 1 .. m : saved[i] = c
  BY <1>4
<1> HIDE DEF saved, m, names, S
<1>7. DOMAIN saved = 1 .. m
  BY <1>4
<1>8. names = [i \in 1 .. m |-> names[i]] /\ \A i \in 1 .. m : names[i] = create.cols[saved[i]]
  BY <1>5, <1>7
<1>9. IsRows(names) /\ DOMAIN names = 1 .. m
  BY <1>3, <1>8, RowsIntro
<1>10. Saves(create, m)
  BY <1>3, <1>4, <1>6, <1>7, <1>8, <1>9 DEF Saves, saved, names
<1> QED
  BY <1>10

\* All columns stay if the statement names them all.
LEMMA AllSaved ==
    ASSUME NEW create, IsRows(create.cols), ToSet(create.cols) \subseteq ColumnNames(input)
    PROVE  SavedNames(create) = create.cols
<1> DEFINE n == Len(create.cols)  names == SavedNames(create)  saved == SavedColumns(create)
<1>1. /\ n \in Nat /\ DOMAIN create.cols = 1 .. n
      /\ \A i \in 1 .. n : create.cols[i] \in ToSet(create.cols)
  BY RowsFacts DEF ToSet
<1>2. {i \in DOMAIN create.cols : create.cols[i] \in ColumnNames(input)} = 1 .. n
  BY <1>1
<1>3. saved = Ascending(1 .. n)
  BY <1>2 DEF SavedColumns
<1>4. saved = [k \in 1 .. n |-> CHOOSE j \in 1 .. n : Cardinality({h \in 1 .. n : h <= j}) = k]
  <2>1. Cardinality(1 .. n) = n
    BY <1>1, FS_Interval
  <2> QED
    BY <1>3, <2>1 DEF Ascending
<1>5. \A j \in 1 .. n : Cardinality({h \in 1 .. n : h <= j}) = j
  <2> TAKE j \in 1 .. n
  <2>1. {h \in 1 .. n : h <= j} = 1 .. j
    BY <1>1
  <2>2. Cardinality(1 .. j) = j
    BY <1>1, FS_Interval
  <2> QED
    BY <2>1, <2>2
<1>6. \A k \in 1 .. n : (CHOOSE j \in 1 .. n : Cardinality({h \in 1 .. n : h <= j}) = k) = k
  BY <1>5
<1>7. saved = [k \in 1 .. n |-> k]
  BY <1>4, <1>6
<1> HIDE DEF n, saved
<1>8. names = [i \in 1 .. n |-> create.cols[i]]
  <2>1. DOMAIN saved = 1 .. n /\ \A i \in 1 .. n : saved[i] = i
    BY <1>7
  <2>2. names = [i \in DOMAIN saved |-> create.cols[saved[i]]]
    BY DEF SavedNames, saved
  <2> QED
    BY <2>1, <2>2
<1>9. create.cols = [i \in 1 .. n |-> create.cols[i]]
  <2>1. PICK S : create.cols \in Seq(S)
    BY DEF IsRows
  <2> QED
    BY <1>1, <2>1
<1> QED
  BY <1>8, <1>9

\* A row with the columns that stay.
Projected(row, create) ==
    [i \in DOMAIN SavedColumns(create) |-> row[SavedColumns(create)[i]]]

\* Table full without the columns that the statement does not name.
TableCut(full, cut, create) ==
    /\ IsCreate(create) /\ IsRows(create.cols) /\ IsInjective(create.cols)
    /\ full.cols = create.cols /\ cut.cols = SavedNames(create)
    /\ full.keys = create.keys /\ cut.keys = CutCreate(create).keys
    /\ Len(full.rows) = Len(cut.rows)
    /\ \A r \in 1 .. Len(full.rows) : cut.rows[r] = Projected(full.rows[r], create)

\* The databases that the scripts up to statement n build.
Related(db, cutDb, n) ==
    /\ IsDb(db) /\ IsDb(cutDb) /\ ~db.failed /\ ~cutDb.failed
    /\ \A t \in TableNames(input) \cap DOMAIN db.tables :
          /\ t \in DOMAIN cutDb.tables /\ Creates(n, t) # {}
          /\ TableCut(db.tables[t], cutDb.tables[t], LastCreate(n, t))

\* What the statements that are left of another one do.
AfterCut(db, n) ==
    IF rmTable(n) = <<>> THEN db
    ELSE IF Len(rmTable(n)) = 1 THEN AfterDdl(db, rmTable(n)[1])
    ELSE AfterDdl(AfterDdl(db, rmTable(n)[1]), rmTable(n)[2])

\* One statement, or two.
LEMMA AfterCutOne ==
    ASSUME NEW n, NEW x, rmTable(n) = <<x>>, NEW db
    PROVE  AfterCut(db, n) = AfterDdl(db, x)
<1>1. <<x>> # <<>> /\ Len(<<x>>) = 1 /\ <<x>>[1] = x
  OBVIOUS
<1> QED
  BY <1>1 DEF AfterCut
LEMMA AfterCutTwo ==
    ASSUME NEW n, NEW x, NEW y, rmTable(n) = <<x, y>>, NEW db
    PROVE  AfterCut(db, n) = AfterDdl(AfterDdl(db, x), y)
<1>1. <<x, y>> # <<>> /\ Len(<<x, y>>) = 2 /\ <<x, y>>[1] = x /\ <<x, y>>[2] = y
  OBVIOUS
<1> QED
  BY <1>1 DEF AfterCut

\* Databases are related whatever the other tables are.
LEMMA OthersRelated ==
    ASSUME NEW n \in Nat, n >= 1, NEW db, NEW cutDb, Related(db, cutDb, n), NEW after, NEW cutAfter,
           IsDb(after), IsDb(cutAfter), ~after.failed, ~cutAfter.failed,
           \A t \in TableNames(input) \cap DOMAIN after.tables :
              \/ /\ t \in DOMAIN db.tables /\ after.tables[t] = db.tables[t]
                 /\ ~(script[n].kind = "create" /\ script[n].table = t)
                 /\ t \in DOMAIN cutDb.tables => t \in DOMAIN cutAfter.tables
                 /\ t \in DOMAIN cutDb.tables => cutAfter.tables[t] = cutDb.tables[t]
              \/ /\ t \in DOMAIN cutAfter.tables /\ Creates(n + 1, t) # {}
                 /\ TableCut(after.tables[t], cutAfter.tables[t], LastCreate(n + 1, t))
    PROVE  Related(after, cutAfter, n + 1)
<1>1. ASSUME NEW t \in TableNames(input) \cap DOMAIN after.tables
      PROVE  /\ t \in DOMAIN cutAfter.tables /\ Creates(n + 1, t) # {}
             /\ TableCut(after.tables[t], cutAfter.tables[t], LastCreate(n + 1, t))
  <2>1. CASE /\ t \in DOMAIN db.tables /\ after.tables[t] = db.tables[t]
             /\ ~(script[n].kind = "create" /\ script[n].table = t)
             /\ t \in DOMAIN cutDb.tables => t \in DOMAIN cutAfter.tables
             /\ t \in DOMAIN cutDb.tables => cutAfter.tables[t] = cutDb.tables[t]
    <3>1. /\ t \in DOMAIN cutDb.tables /\ Creates(n, t) # {}
          /\ TableCut(db.tables[t], cutDb.tables[t], LastCreate(n, t))
      BY <2>1 DEF Related
    <3>2. Creates(n + 1, t) = Creates(n, t) /\ LastCreate(n + 1, t) = LastCreate(n, t)
      BY <2>1, LastCreateNext
    <3> QED
      BY <2>1, <3>1, <3>2
  <2> QED
    BY <2>1
<1> QED
  BY <1>1 DEF Related

\* A statement of another kind does nothing.
LEMMA OtherRelated ==
    ASSUME NEW n \in DOMAIN script, script \in Scripts, script[n].kind = "other",
           NEW db, NEW cutDb, Related(db, cutDb, n)
    PROVE  Related(AfterDdl(db, script[n]), AfterCut(cutDb, n), n + 1)
<1>1. n \in Nat /\ n >= 1 /\ IsDdl(script[n])
  BY ScriptFacts
<1>2. rmTable(n) = <<script[n]>>
  BY DEF rmTable
<1>3. AfterCut(cutDb, n) = AfterDdl(cutDb, script[n])
  BY <1>2, AfterCutOne
<1>4. IsDb(db) /\ IsDb(cutDb) /\ ~db.failed /\ ~cutDb.failed
  BY DEF Related
<1>5. AfterDdl(db, script[n]) = db /\ AfterCut(cutDb, n) = cutDb
  BY <1>1, <1>3, <1>4, AfterDdlCases
<1>6. \A t \in TableNames(input) \cap DOMAIN db.tables : ~(script[n].kind = "create" /\ script[n].table = t)
  OBVIOUS
<1>7. Related(db, cutDb, n + 1)
  BY <1>1, <1>4, <1>6, OthersRelated
<1> QED
  BY <1>5, <1>7

\* What a CREATE TABLE and an INSERT do when they do not fail.
LEMMA CreatesTable ==
    ASSUME NEW db, IsDb(db), ~db.failed, NEW d, IsDdl(d), d.kind = "create",
           ~AfterDdl(db, d).failed
    PROVE  \/ AfterDdl(db, d) = db /\ d.table \in DOMAIN db.tables /\ d.ifNotExists
           \/ /\ AfterDdl(db, d) = WithTable(db, d.table, NewTableOf(db, d))
              /\ IsTable(NewTableOf(db, d)) /\ d.table \notin DOMAIN db.tables
              /\ IsInjective(NewTableOf(db, d).cols)
<1>1. AfterDdl(db, d) = CreateTable(db, d) /\ IsRows(d.cols)
  BY AfterDdlCases DEF IsDdl
<1>2. CreateTable(db, d) # Fail(db)
  BY <1>1, FailFacts
<1> QED
  BY <1>1, <1>2, CreateCases

\* No two rows of a table have the same key.
NoClash(table, rows) ==
    \A i, j \in DOMAIN rows : i # j => ~Duplicates(table, rows[i], rows[j])

\* An INSERT adds its rows to a table that is there.
LEMMA InsertsRows ==
    ASSUME NEW db, IsDb(db), ~db.failed, NEW d, IsDdl(d), d.kind = "insert",
           d.columns = NoColumns, ~AfterDdl(db, d).failed
    PROVE  LET table == db.tables[d.table]
               all == InsertRows(table, d).rows
           IN  /\ d.table \in DOMAIN db.tables /\ (d.values => d.rows # <<>>)
               /\ \A i \in DOMAIN d.rows : Len(d.rows[i]) = Len(table.cols)
               /\ d.onDuplicate = "fail" => NoClash(table, all)
               /\ NoClash(table, all) => AfterDdl(db, d) = WithTable(db, d.table, InsertRows(table, d))
               /\ IsTable(InsertRows(table, d))
<1> DEFINE table == db.tables[d.table]
           sum == table.rows \o Inserted(table, d)
           clash == \E i, j \in DOMAIN sum : i # j /\ Duplicates(table, sum[i], sum[j])
           after == WithTable(db, d.table,
                       [table EXCEPT !.rows = IF clash THEN OnePerKey(table, sum, d.onDuplicate) ELSE sum])
<1>1. AfterDdl(db, d) = InsertInto(db, d)
  BY AfterDdlCases
<1>2. InsertInto(db, d) # Fail(db)
  BY <1>1, FailFacts
<1>3. NamesIn(table, d) = table.cols
  BY DEF NamesIn
<1>4. /\ d.table \in DOMAIN db.tables /\ (d.values => d.rows # <<>>)
      /\ \A i \in DOMAIN d.rows : Len(d.rows[i]) = Len(table.cols)
      /\ ~(clash /\ d.onDuplicate = "fail")
      /\ InsertInto(db, d) = after
  <2> HIDE DEF clash
  <2>1. InsertInto(db, d) =
           IF \/ d.table \notin DOMAIN db.tables
              \/ d.values /\ d.rows = <<>>
              \/ ~(ToSet(table.cols) \subseteq ToSet(table.cols))
              \/ \E i \in DOMAIN d.rows : Len(d.rows[i]) # Len(table.cols)
              \/ clash /\ d.onDuplicate = "fail"
           THEN Fail(db) ELSE after
    BY <1>3 DEF InsertInto, clash
  <2> HIDE DEF after, table
  <2> QED
    BY <1>2, <2>1
<1>5. IsTable(table) /\ IsRows(d.rows)
  BY <1>4 DEF IsDb, IsDdl
<1>6. IsTable(InsertRows(table, d)) /\ InsertRows(table, d).rows = sum
  BY <1>5, InsertRowsFacts
<1>7. clash <=> ~NoClash(table, sum)
  BY DEF NoClash
<1>8. ~clash => after = WithTable(db, d.table, InsertRows(table, d))
  <2> HIDE DEF clash
  <2> QED
    BY DEF InsertRows
<1> HIDE DEF clash, after, sum, table
<1>9. /\ d.table \in DOMAIN db.tables /\ (d.values => d.rows # <<>>)
      /\ \A i \in DOMAIN d.rows : Len(d.rows[i]) = Len(table.cols)
      /\ d.onDuplicate = "fail" => NoClash(table, InsertRows(table, d).rows)
      /\ NoClash(table, InsertRows(table, d).rows) =>
            AfterDdl(db, d) = WithTable(db, d.table, InsertRows(table, d))
      /\ IsTable(InsertRows(table, d))
  BY <1>1, <1>4, <1>6, <1>7, <1>8
<1> QED
  BY <1>9 DEF table

\* A DROP TABLE drops the table of both.
LEMMA DropRelated ==
    ASSUME NEW n \in DOMAIN script, script \in Scripts, Reducible, script[n].kind = "drop",
           NEW db, NEW cutDb, Related(db, cutDb, n), ~AfterDdl(db, script[n]).failed
    PROVE  Related(AfterDdl(db, script[n]), AfterCut(cutDb, n), n + 1)
<1> DEFINE d == script[n]
           after == DbWithout(db, d.table)
           cutAfter == DbWithout(cutDb, d.table)
<1>1. n \in Nat /\ n >= 1 /\ IsDdl(d)
  BY ScriptFacts
<1>2. rmTable(n) = <<d>>
  BY DEF rmTable
<1>3. IsDb(db) /\ IsDb(cutDb) /\ ~db.failed /\ ~cutDb.failed
  BY DEF Related
<1>4. AfterDdl(db, d) = DropTable(db, d) /\ AfterCut(cutDb, n) = DropTable(cutDb, d)
  BY <1>1, <1>2, <1>3, AfterDdlCases, AfterCutOne
<1>5. DropTable(db, d) # Fail(db)
  BY <1>3, <1>4, FailFacts
<1>6. ~(d.table \notin DOMAIN db.tables /\ ~d.ifExists) /\ DropTable(db, d) = after
  BY <1>5 DEF DropTable, DbWithout
<1>7. d.table \in TableNames(input) \/ d.ifExists
  BY DEF Reducible
<1>8. DropTable(cutDb, d) = cutAfter
  BY <1>6, <1>7 DEF DropTable, Related, DbWithout
<1>9. /\ IsDb(after) /\ after.failed = db.failed /\ DOMAIN after.tables = DOMAIN db.tables \ {d.table}
      /\ \A t \in DOMAIN after.tables : after.tables[t] = db.tables[t]
  BY <1>3, WithoutTableFacts
<1>10. /\ IsDb(cutAfter) /\ cutAfter.failed = cutDb.failed
       /\ DOMAIN cutAfter.tables = DOMAIN cutDb.tables \ {d.table}
       /\ \A t \in DOMAIN cutAfter.tables : cutAfter.tables[t] = cutDb.tables[t]
  BY <1>3, WithoutTableFacts
<1> HIDE DEF after, cutAfter
<1>11. \A t \in TableNames(input) \cap DOMAIN after.tables :
         /\ t \in DOMAIN db.tables /\ after.tables[t] = db.tables[t]
         /\ ~(script[n].kind = "create" /\ script[n].table = t)
         /\ t \in DOMAIN cutDb.tables => t \in DOMAIN cutAfter.tables
         /\ t \in DOMAIN cutDb.tables => cutAfter.tables[t] = cutDb.tables[t]
  BY <1>9, <1>10
<1>12. Related(after, cutAfter, n + 1)
  BY <1>1, <1>3, <1>9, <1>10, <1>11, OthersRelated
<1> QED
  BY <1>4, <1>6, <1>8, <1>12

\* A statement about another table is dropped.
LEMMA DroppedRelated ==
    ASSUME NEW n \in DOMAIN script, script \in Scripts, Reducible,
           script[n].kind \in {"create", "insert"}, script[n].table \notin TableNames(input),
           NEW db, NEW cutDb, Related(db, cutDb, n), ~AfterDdl(db, script[n]).failed
    PROVE  Related(AfterDdl(db, script[n]), AfterCut(cutDb, n), n + 1)
<1> DEFINE d == script[n]
           after == AfterDdl(db, d)
<1>1. n \in Nat /\ n >= 1 /\ IsDdl(d)
  BY ScriptFacts
<1>2. rmTable(n) = <<>>
  BY DEF rmTable
<1>3. AfterCut(cutDb, n) = cutDb
  BY <1>2 DEF AfterCut
<1>4. IsDb(db) /\ IsDb(cutDb) /\ ~db.failed /\ ~cutDb.failed
  BY DEF Related
<1>5. after = db \/ \E table : IsTable(table) /\ after = WithTable(db, d.table, table)
  <2>1. CASE d.kind = "create"
    BY <1>1, <1>4, <2>1, CreatesTable
  <2>2. CASE d.kind = "insert"
    <3>1. after = InsertInto(db, d) /\ IsRows(d.rows)
      BY <1>1, <1>4, <2>2, AfterDdlCases DEF IsDdl
    <3>2. InsertInto(db, d) # Fail(db)
      BY <1>4, <3>1, FailFacts
    <3> QED
      BY <1>4, <3>1, <3>2, InsertCases
  <2> QED
    BY <2>1, <2>2
<1>6. /\ IsDb(after) /\ after.failed = db.failed
      /\ DOMAIN after.tables \subseteq DOMAIN db.tables \cup {d.table}
      /\ \A t \in DOMAIN db.tables : t # d.table => after.tables[t] = db.tables[t]
  <2> HIDE DEF after
  <2>1. CASE after = db
    BY <1>4, <2>1
  <2>2. CASE \E table : IsTable(table) /\ after = WithTable(db, d.table, table)
    BY <1>4, <2>2, WithTableFacts
  <2> QED
    BY <1>5, <2>1, <2>2
<1> HIDE DEF after
<1>7. \A t \in TableNames(input) \cap DOMAIN after.tables :
         /\ t \in DOMAIN db.tables /\ after.tables[t] = db.tables[t]
         /\ ~(d.kind = "create" /\ d.table = t)
  BY <1>6
<1>8. Related(after, cutDb, n + 1)
  BY <1>1, <1>4, <1>6, <1>7, OthersRelated
<1> QED
  BY <1>3, <1>8 DEF after

\* The table is dropped, and created with the columns that stay.
LEMMA CreateRelated ==
    ASSUME NEW n \in DOMAIN script, script \in Scripts, Reducible,
           script[n].kind = "create", script[n].table \in TableNames(input),
           NEW db, NEW cutDb, Related(db, cutDb, n), ~AfterDdl(db, script[n]).failed
    PROVE  Related(AfterDdl(db, script[n]), AfterCut(cutDb, n), n + 1)
<1> DEFINE d == script[n]
           after == AfterDdl(db, d)
           names == SavedNames(d)
           cutD == CutCreate(d)
           dropD == [kind |-> "drop", table |-> d.table, ifExists |-> TRUE]
           full == [cols |-> d.cols, keys |-> d.keys, rows |-> <<>>]
           cut == [cols |-> names, keys |-> cutD.keys, rows |-> <<>>]
           dropped == DbWithout(cutDb, d.table)
<1>1. n \in Nat /\ n >= 1 /\ IsDdl(d) /\ IsRows(d.cols) /\ IsCreate(d)
  BY ScriptFacts DEF IsDdl
<1>2. rmTable(n) = <<dropD, cutD>>
  <2>1. d.kind \in {"create", "insert"} /\ d.kind = "create" /\ d.table \in TableNames(input)
    OBVIOUS
  <2> HIDE DEF cutD
  <2> QED
    BY <2>1 DEF rmTable, cutD
<1>3. /\ ToSet(d.cols) \cap ColumnNames(input) # {}
      /\ \A column \in d.auto \cap ColumnNames(input) : [of |-> {column}, inColumn |-> TRUE] \in d.keys
      /\ d.ifNotExists => Creates(n, d.table) = {}
  BY DEF Reducible
<1>4. IsDb(db) /\ IsDb(cutDb) /\ ~db.failed /\ ~cutDb.failed
  BY DEF Related
<1>5. /\ after = WithTable(db, d.table, full) /\ IsTable(full) /\ IsInjective(d.cols)
  <2>1. ~(d.table \in DOMAIN db.tables /\ d.ifNotExists)
    BY <1>3 DEF Related
  <2>2. /\ after = WithTable(db, d.table, NewTableOf(db, d)) /\ IsTable(NewTableOf(db, d))
        /\ IsInjective(NewTableOf(db, d).cols)
    BY <1>1, <1>4, <2>1, CreatesTable
  <2>3. d.cols # <<>>
    BY <1>1, <1>3 DEF ToSet
  <2>4. NewTableOf(db, d) = full
    BY <1>1, <2>3 DEF NewTableOf, IsCreate
  <2>5. full.cols = d.cols
    OBVIOUS
  <2> HIDE DEF full, after, d
  <2> QED
    BY <2>2, <2>4, <2>5
<1>6. PICK m : Saves(d, m)
  BY <1>1, SavedFacts
<1>7. /\ cutD.kind = "create" /\ cutD.table = d.table /\ cutD.cols = names /\ IsRows(names)
      /\ cutD.keys = {key \in d.keys : key.inColumn /\ key.of \subseteq ColumnNames(input)}
      /\ cutD.auto = d.auto \cap ColumnNames(input)
      /\ cutD.refer = NoTable /\ cutD.select = NoTable /\ IsDdl(cutD)
  <2>1. /\ cutD.kind = "create" /\ cutD.table = d.table /\ cutD.cols = names
        /\ cutD.ifNotExists = d.ifNotExists
        /\ cutD.keys = {key \in d.keys : key.inColumn /\ key.of \subseteq ColumnNames(input)}
        /\ cutD.auto = d.auto \cap ColumnNames(input)
        /\ cutD.refer = NoTable /\ cutD.select = NoTable
    BY DEF CutCreate, SavedNames
  <2>2. IsRows(names)
    BY <1>6 DEF Saves
  <2>3. cutD = [kind |-> cutD.kind, table |-> cutD.table, ifNotExists |-> cutD.ifNotExists,
                cols |-> cutD.cols, keys |-> cutD.keys, auto |-> cutD.auto,
                refer |-> cutD.refer, select |-> cutD.select]
    BY DEF CutCreate
  <2>4. \A key \in cutD.keys : key = [of |-> key.of, inColumn |-> key.inColumn]
    <3>1. cutD.keys \subseteq d.keys
      BY <2>1
    <3> QED
      BY <1>1, <3>1 DEF IsCreate
  <2> HIDE DEF cutD, names
  <2>5. IsCreate(cutD)
    BY <2>1, <2>3, <2>4 DEF IsCreate
  <2> QED
    BY <2>1, <2>2, <2>5 DEF IsDdl
<1>8. names # <<>> /\ IsInjective(names)
  <2>1. ToSet(d.cols) \cap ColumnNames(input) # {}
    BY <1>3
  <2>2. PICK c \in DOMAIN d.cols : d.cols[c] \in ColumnNames(input)
    BY <1>1, <2>1, RowsFacts
  <2>3. \E i \in 1 .. m : SavedColumns(d)[i] = c
    BY <1>6, <2>2 DEF Saves
  <2>4. DOMAIN names # {}
    BY <1>6, <2>3 DEF Saves
  <2>5. \A i, j \in 1 .. m : names[i] = names[j] => i = j
    <3> TAKE i, j \in 1 .. m
    <3>1. /\ SavedColumns(d)[i] \in DOMAIN d.cols /\ SavedColumns(d)[j] \in DOMAIN d.cols
          /\ names[i] = d.cols[SavedColumns(d)[i]] /\ names[j] = d.cols[SavedColumns(d)[j]]
      BY <1>6 DEF Saves
    <3>2. names[i] = names[j] => SavedColumns(d)[i] = SavedColumns(d)[j]
      BY <1>5, <3>1 DEF IsInjective
    <3> QED
      BY <1>6, <3>2 DEF Saves
  <2>6. DOMAIN names = 1 .. m
    BY <1>6 DEF Saves
  <2> HIDE DEF names
  <2>7. IsInjective(names)
    BY <2>5, <2>6 DEF IsInjective
  <2>8. names # <<>>
    BY <2>4
  <2> QED
    BY <2>7, <2>8
<1>9. AfterCut(cutDb, n) = AfterDdl(AfterDdl(cutDb, dropD), cutD)
  <2> HIDE DEF cutD, dropD
  <2> QED
    BY <1>2, AfterCutTwo
<1>10. AfterDdl(cutDb, dropD) = dropped
  <2>1. dropD.kind = "drop" /\ dropD.table = d.table /\ dropD.ifExists = TRUE
    OBVIOUS
  <2> HIDE DEF dropD
  <2>2. IsDdl(dropD)
    BY <2>1 DEF IsDdl
  <2>3. AfterDdl(cutDb, dropD) = DropTable(cutDb, dropD)
    BY <1>4, <2>1, <2>2, AfterDdlCases
  <2> QED
    BY <2>1, <2>3 DEF DropTable, DbWithout
<1>11. /\ IsDb(dropped) /\ dropped.failed = cutDb.failed
       /\ DOMAIN dropped.tables = DOMAIN cutDb.tables \ {d.table}
       /\ \A t \in DOMAIN dropped.tables : dropped.tables[t] = cutDb.tables[t]
  BY <1>4, WithoutTableFacts
<1> HIDE DEF cutD, dropD, dropped
<1>12. AfterDdl(dropped, cutD) = CreateTable(dropped, cutD)
  BY <1>4, <1>7, <1>11, AfterDdlCases
<1>13. IsTable(cut) /\ NewTableOf(dropped, cutD) = cut
  BY <1>7, NewTable DEF NewTableOf
<1>14. cutD.auto \subseteq UNION {key.of : key \in cutD.keys}
  <2> SUFFICES ASSUME NEW column \in cutD.auto
               PROVE  \E key \in cutD.keys : column \in key.of
    OBVIOUS
  <2> DEFINE key == [of |-> {column}, inColumn |-> TRUE]
  <2>1. column \in d.auto \cap ColumnNames(input)
    BY <1>7
  <2>2. key \in d.keys
    BY <1>3, <2>1
  <2>3. key.of = {column} /\ key.inColumn = TRUE
    OBVIOUS
  <2> HIDE DEF key
  <2>4. key \in cutD.keys
    BY <1>7, <2>1, <2>2, <2>3
  <2> QED
    BY <2>3, <2>4
<1>15. CreateTable(dropped, cutD) = WithTable(dropped, d.table, cut)
  <2>1. cut.cols = names
    OBVIOUS
  <2> HIDE DEF cut, names
  <2>2. cutD.table \notin DOMAIN dropped.tables
    BY <1>7, <1>11
  <2>3. {cutD.refer, cutD.select} \subseteq DOMAIN dropped.tables \cup {NoTable}
    BY <1>7
  <2> QED
    BY <1>7, <1>8, <1>13, <1>14, <2>1, <2>2, <2>3 DEF CreateTable
<1> DEFINE cutAfter == WithTable(dropped, d.table, cut)
<1>16. /\ IsDb(after) /\ after.failed = db.failed
       /\ DOMAIN after.tables = DOMAIN db.tables \cup {d.table}
       /\ after.tables[d.table] = full
       /\ \A t \in DOMAIN db.tables : t # d.table => after.tables[t] = db.tables[t]
  BY <1>4, <1>5, WithTableFacts
<1>17. /\ IsDb(cutAfter) /\ cutAfter.failed = dropped.failed
       /\ DOMAIN cutAfter.tables = DOMAIN dropped.tables \cup {d.table}
       /\ cutAfter.tables[d.table] = cut
       /\ \A t \in DOMAIN dropped.tables : t # d.table => cutAfter.tables[t] = dropped.tables[t]
  BY <1>11, <1>13, WithTableFacts
<1>18. TableCut(full, cut, d)
  <2>1. /\ full.cols = d.cols /\ full.keys = d.keys /\ full.rows = <<>>
        /\ cut.cols = names /\ cut.keys = cutD.keys /\ cut.rows = <<>>
        /\ Len(<<>>) = 0
    OBVIOUS
  <2> HIDE DEF full, cut
  <2>2. Len(full.rows) = Len(cut.rows) /\ 1 .. Len(full.rows) = {}
    BY <2>1
  <2> QED
    BY <1>1, <1>5, <2>1, <2>2 DEF TableCut, cutD
<1>19. Creates(n + 1, d.table) # {} /\ LastCreate(n + 1, d.table) = d
  BY <1>1, LastCreateNext
<1> HIDE DEF after, cutAfter, full, cut, d
<1>20. \A t \in TableNames(input) \cap DOMAIN after.tables :
              \/ /\ t \in DOMAIN db.tables /\ after.tables[t] = db.tables[t]
                 /\ ~(script[n].kind = "create" /\ script[n].table = t)
                 /\ t \in DOMAIN cutDb.tables => t \in DOMAIN cutAfter.tables
                 /\ t \in DOMAIN cutDb.tables => cutAfter.tables[t] = cutDb.tables[t]
              \/ /\ t \in DOMAIN cutAfter.tables /\ Creates(n + 1, t) # {}
                 /\ TableCut(after.tables[t], cutAfter.tables[t], LastCreate(n + 1, t))
  <2> TAKE t \in TableNames(input) \cap DOMAIN after.tables
  <2>1. CASE t = d.table
    BY <1>16, <1>17, <1>18, <1>19, <2>1
  <2>2. CASE t # d.table
    BY <1>11, <1>16, <1>17, <2>2 DEF d
  <2> QED
    BY <2>1, <2>2
<1>21. Related(after, cutAfter, n + 1)
  <2>1. IsDb(after) /\ IsDb(cutAfter) /\ ~after.failed /\ ~cutAfter.failed
    BY <1>4, <1>11, <1>16, <1>17
  <2>2. n \in Nat /\ n >= 1
    BY <1>1
  <2> QED
    BY <1>20, <2>1, <2>2, OthersRelated
<1> QED
  BY <1>9, <1>10, <1>12, <1>15, <1>21 DEF after, cutAfter, d

\* The values of row i in their order.
RowOf(d, i, cols) == [c \in DOMAIN cols |-> d.rows[i][c]]

\* That is how they are inserted without a list of columns.
LEMMA InsertedInOrder ==
    ASSUME NEW table, IsInjective(table.cols), NEW d, d.columns = NoColumns, NEW i \in DOMAIN d.rows
    PROVE  Inserted(table, d)[i] = RowOf(d, i, table.cols)
<1> DEFINE pos(c) == CHOOSE j \in DOMAIN table.cols : table.cols[j] = table.cols[c]
<1>1. \A c \in DOMAIN table.cols : pos(c) = c
  <2> TAKE c \in DOMAIN table.cols
  <2>1. \E j \in DOMAIN table.cols : table.cols[j] = table.cols[c]
    OBVIOUS
  <2>2. pos(c) \in DOMAIN table.cols /\ table.cols[pos(c)] = table.cols[c]
    BY <2>1
  <2> QED
    BY <2>2 DEF IsInjective
<1>2. Inserted(table, d)[i] = [c \in DOMAIN table.cols |-> d.rows[i][pos(c)]]
  <2>1. \A c \in DOMAIN table.cols : table.cols[c] \in ToSet(table.cols)
    BY DEF ToSet
  <2>2. NamesIn(table, d) = table.cols
    BY DEF NamesIn
  <2>3. Inserted(table, d)[i] = [c \in DOMAIN table.cols |->
            IF table.cols[c] \in ToSet(table.cols) THEN d.rows[i][pos(c)] ELSE 0]
    BY <2>2 DEF Inserted
  <2> HIDE DEF pos
  <2> QED
    BY <2>1, <2>3
<1> HIDE DEF pos
<1> QED
  BY <1>1, <1>2 DEF RowOf

\* The rows are inserted with the columns that stay.
LEMMA RowsCut ==
    ASSUME NEW create, NEW full, NEW cut, IsTable(full), IsTable(cut), TableCut(full, cut, create),
           NEW d, IsRows(d.rows), d.columns = NoColumns,
           NEW cutD, cutD.columns = NoColumns,
           cutD.rows = [r \in DOMAIN d.rows |-> Projected(d.rows[r], create)]
    PROVE  /\ IsRows(cutD.rows) /\ DOMAIN cutD.rows = DOMAIN d.rows
           /\ \A r \in DOMAIN cutD.rows : Len(cutD.rows[r]) = Len(cut.cols)
           /\ TableCut(InsertRows(full, d), InsertRows(cut, cutD), create)
<1> DEFINE saved == SavedColumns(create)  names == SavedNames(create)
           insF == Inserted(full, d)  insC == Inserted(cut, cutD)
           newF == InsertRows(full, d)  newC == InsertRows(cut, cutD)
           L == Len(full.rows)  K == Len(d.rows)
<1>1. K \in Nat /\ DOMAIN d.rows = 1 .. K
  BY RowsFacts
<1>2. IsRows(cutD.rows) /\ DOMAIN cutD.rows = 1 .. K /\ Len(cutD.rows) = K
  <2>1. cutD.rows = [r \in 1 .. K |-> cutD.rows[r]]
    BY <1>1
  <2> QED
    BY <1>1, <2>1, RowsIntro
<1>3. /\ IsCreate(create) /\ IsRows(create.cols) /\ IsInjective(create.cols)
      /\ full.cols = create.cols /\ cut.cols = names /\ L = Len(cut.rows)
      /\ full.keys = create.keys /\ cut.keys = CutCreate(create).keys
      /\ \A r \in 1 .. L : cut.rows[r] = Projected(full.rows[r], create)
  BY DEF TableCut
<1>4. PICK m : Saves(create, m)
  BY <1>3, SavedFacts
<1>5. /\ m \in Nat /\ DOMAIN saved = 1 .. m /\ DOMAIN names = 1 .. m /\ IsRows(names)
      /\ \A i \in 1 .. m : saved[i] \in DOMAIN create.cols /\ names[i] = create.cols[saved[i]]
      /\ \A i, j \in 1 .. m : saved[i] = saved[j] => i = j
  BY <1>4 DEF Saves
<1>6. \A row : /\ Projected(row, create) = [i \in 1 .. m |-> row[saved[i]]]
               /\ Len(Projected(row, create)) = m
  <2> TAKE row
  <2>1. Projected(row, create) = [i \in 1 .. m |-> row[saved[i]]]
    BY <1>5 DEF Projected
  <2>2. \E p : p = Projected(row, create)
    OBVIOUS
  <2>3. PICK p : p = Projected(row, create)
    BY <2>2
  <2>4. p = [i \in 1 .. m |-> p[i]]
    BY <2>1, <2>3
  <2>5. Len(p) = m
    BY <1>5, <2>4, RowsIntro
  <2> QED
    BY <2>1, <2>3, <2>5
<1>7. Len(names) = m
  BY <1>5, RowsFacts
<1>8. \A r \in 1 .. K : cutD.rows[r] = Projected(d.rows[r], create)
  BY <1>1
<1>9. \A r \in DOMAIN cutD.rows : Len(cutD.rows[r]) = Len(cut.cols)
  BY <1>2, <1>3, <1>6, <1>7, <1>8
<1>10. IsInjective(names)
  <2> HIDE DEF names, saved
  <2>1. \A i, j \in 1 .. m : names[i] = names[j] => saved[i] = saved[j]
    BY <1>3, <1>5 DEF IsInjective
  <2> QED
    BY <1>5, <2>1 DEF IsInjective
<1>11. \A i \in 1 .. K : insF[i] = [c \in DOMAIN create.cols |-> d.rows[i][c]]
  <2> TAKE i \in 1 .. K
  <2>1. IsInjective(full.cols) /\ i \in DOMAIN d.rows
    BY <1>1, <1>3
  <2>2. Inserted(full, d)[i] = RowOf(d, i, full.cols)
    BY <2>1, InsertedInOrder
  <2> QED
    BY <1>3, <2>2 DEF RowOf
<1>12. \A i \in 1 .. K : insC[i] = [c \in 1 .. m |-> cutD.rows[i][c]]
  <2>1. IsInjective(cut.cols) /\ DOMAIN cut.cols = 1 .. m /\ DOMAIN cutD.rows = 1 .. K
    BY <1>2, <1>3, <1>5, <1>10
  <2> TAKE i \in 1 .. K
  <2>2. i \in DOMAIN cutD.rows
    BY <2>1
  <2>3. Inserted(cut, cutD)[i] = RowOf(cutD, i, cut.cols)
    BY <2>1, <2>2, InsertedInOrder
  <2> QED
    BY <2>1, <2>3 DEF RowOf
<1>13. \A i \in 1 .. K : insC[i] = Projected(insF[i], create)
  <2> TAKE i \in 1 .. K
  <2>1. cutD.rows[i] = [k \in 1 .. m |-> d.rows[i][saved[k]]]
    BY <1>6, <1>8
  <2>2. Projected(insF[i], create) = [k \in 1 .. m |-> insF[i][saved[k]]]
    BY <1>6
  <2>3. \A k \in 1 .. m : insF[i][saved[k]] = d.rows[i][saved[k]]
    <3>1. insF[i] = [c \in DOMAIN create.cols |-> d.rows[i][c]]
      BY <1>11
    <3>2. \A k \in 1 .. m : saved[k] \in DOMAIN create.cols
      BY <1>5
    <3> HIDE DEF insF, saved
    <3> QED
      BY <3>1, <3>2
  <2>4. insC[i] = [k \in 1 .. m |-> cutD.rows[i][k]]
    BY <1>12
  <2> HIDE DEF insF, insC, saved
  <2> QED
    BY <2>1, <2>2, <2>3, <2>4
<1>14. /\ newF.cols = full.cols /\ newF.keys = full.keys /\ newF.rows = full.rows \o insF
       /\ IsRows(insF) /\ Len(insF) = K
  BY InsertRowsFacts
<1>15. /\ newC.cols = cut.cols /\ newC.keys = cut.keys /\ newC.rows = cut.rows \o insC
       /\ IsRows(insC) /\ Len(insC) = K
  BY <1>2, InsertRowsFacts
<1> HIDE DEF insF, insC, newF, newC, saved, names
<1>16. IsRows(full.rows) /\ IsRows(cut.rows) /\ L \in Nat
  BY RowsFacts DEF IsTable
<1>17. /\ Len(newF.rows) = L + K
       /\ \A r \in 1 .. L : newF.rows[r] = full.rows[r]
       /\ \A i \in 1 .. K : newF.rows[L + i] = insF[i]
  <2>1. /\ Len(full.rows \o insF) = Len(full.rows) + Len(insF)
        /\ \A i \in 1 .. Len(full.rows) : (full.rows \o insF)[i] = full.rows[i]
        /\ \A i \in 1 .. Len(insF) : (full.rows \o insF)[Len(full.rows) + i] = insF[i]
    <3>1. IsRows(full.rows) /\ IsRows(insF)
      BY <1>14, <1>16
    <3> QED
      BY <3>1, RowsConcat
  <2> HIDE DEF K
  <2> QED
    BY <1>14, <2>1
<1>18. /\ Len(newC.rows) = L + K
       /\ \A r \in 1 .. L : newC.rows[r] = cut.rows[r]
       /\ \A i \in 1 .. K : newC.rows[L + i] = insC[i]
  <2>1. /\ Len(cut.rows \o insC) = Len(cut.rows) + Len(insC)
        /\ \A i \in 1 .. Len(cut.rows) : (cut.rows \o insC)[i] = cut.rows[i]
        /\ \A i \in 1 .. Len(insC) : (cut.rows \o insC)[Len(cut.rows) + i] = insC[i]
    <3>1. IsRows(cut.rows) /\ IsRows(insC)
      BY <1>15, <1>16
    <3> QED
      BY <3>1, RowsConcat
  <2> HIDE DEF L, K
  <2> QED
    BY <1>3, <1>15, <2>1
<1>19. \A r \in 1 .. L + K : newC.rows[r] = Projected(newF.rows[r], create)
  <2> HIDE DEF L, K
  <2> TAKE r \in 1 .. L + K
  <2>1. r \in 1 .. L \/ (r - L \in 1 .. K /\ L + (r - L) = r)
    <3>1. L \in Nat /\ K \in Nat
      BY <1>1, <1>16
    <3> QED
      BY <3>1
  <2>2. CASE r \in 1 .. L
    BY <1>3, <1>17, <1>18, <2>2
  <2>3. CASE r - L \in 1 .. K /\ L + (r - L) = r
    <3>1. newF.rows[L + (r - L)] = insF[r - L] /\ newC.rows[L + (r - L)] = insC[r - L]
      BY <1>17, <1>18, <2>3
    <3>2. insC[r - L] = Projected(insF[r - L], create)
      BY <1>13, <2>3
    <3> QED
      BY <2>3, <3>1, <3>2
  <2> QED
    BY <2>1, <2>2, <2>3
<1>20. TableCut(newF, newC, create)
  <2> HIDE DEF L, K
  <2> QED
    BY <1>3, <1>14, <1>15, <1>17, <1>18, <1>19 DEF TableCut, names
<1> QED
  BY <1>1, <1>2, <1>9, <1>20 DEF newF, newC

\* Rows that differ in the key of a column that stays still do.
LEMMA CutNoClash ==
    ASSUME NEW full, NEW cut, NEW create, TableCut(full, cut, create),
           DOMAIN full.rows = 1 .. Len(full.rows), DOMAIN cut.rows = 1 .. Len(cut.rows),
           NoClash(full, full.rows)
    PROVE  NoClash(cut, cut.rows)
<1>1. /\ IsRows(create.cols) /\ full.cols = create.cols /\ cut.cols = SavedNames(create)
      /\ full.keys = create.keys
      /\ cut.keys = {key \in create.keys : key.inColumn /\ key.of \subseteq ColumnNames(input)}
      /\ DOMAIN cut.rows = DOMAIN full.rows
      /\ \A r \in DOMAIN full.rows : cut.rows[r] = Projected(full.rows[r], create)
  BY DEF TableCut, CutCreate
<1>2. PICK m : Saves(create, m)
  BY <1>1, SavedFacts
<1>3. ASSUME NEW x, NEW y, Duplicates(cut, Projected(x, create), Projected(y, create))
      PROVE  Duplicates(full, x, y)
  <2>1. PICK key \in cut.keys : \A c \in DOMAIN cut.cols :
            cut.cols[c] \in key.of => Projected(x, create)[c] = Projected(y, create)[c]
    BY <1>3 DEF Duplicates
  <2>2. key \in full.keys /\ key.of \subseteq ColumnNames(input)
    BY <1>1, <2>1
  <2>3. ASSUME NEW c \in DOMAIN full.cols, full.cols[c] \in key.of
        PROVE  x[c] = y[c]
    <3>1. create.cols[c] \in ColumnNames(input) /\ c \in DOMAIN create.cols
      BY <1>1, <2>2, <2>3
    <3>2. PICK i \in 1 .. m : SavedColumns(create)[i] = c
      BY <1>2, <3>1 DEF Saves
    <3>3. i \in DOMAIN cut.cols /\ cut.cols[i] = full.cols[c] /\ i \in DOMAIN SavedColumns(create)
      BY <1>1, <1>2, <3>2 DEF Saves
    <3>4. Projected(x, create)[i] = Projected(y, create)[i]
      BY <2>1, <2>3, <3>3
    <3> QED
      BY <3>2, <3>3, <3>4 DEF Projected
  <2> QED
    BY <2>2, <2>3 DEF Duplicates
<1>4. ASSUME NEW i \in DOMAIN cut.rows, NEW j \in DOMAIN cut.rows, i # j
      PROVE  ~Duplicates(cut, cut.rows[i], cut.rows[j])
  <2>1. ~Duplicates(full, full.rows[i], full.rows[j])
    BY <1>1, <1>4 DEF NoClash
  <2> QED
    BY <1>1, <1>3, <2>1
<1> QED
  BY <1>4 DEF NoClash

\* The values of the columns that stay are inserted.
LEMMA InsertRelated ==
    ASSUME NEW n \in DOMAIN script, script \in Scripts, Reducible,
           script[n].kind = "insert", script[n].table \in TableNames(input),
           NEW db, NEW cutDb, Related(db, cutDb, n), ~AfterDdl(db, script[n]).failed
    PROVE  Related(AfterDdl(db, script[n]), AfterCut(cutDb, n), n + 1)
<1> DEFINE d == script[n]
           t == d.table
           after == AfterDdl(db, d)
           create == LastCreate(n, t)
           cutD == CutInsert(d, SavedColumns(create))
           full == db.tables[t]
           cut == cutDb.tables[t]
<1>1. n \in Nat /\ n >= 1 /\ IsDdl(d) /\ IsRows(d.rows) /\ IsInsert(d)
  BY ScriptFacts DEF IsDdl
<1>2. d.columns = NoColumns /\ d.values /\ (d.onDuplicate = "fail" \/ KeysOf(t) = {})
  BY DEF Reducible
<1>3. rmTable(n) = <<cutD>>
  <2>1. d.kind \in {"create", "insert"} /\ d.kind # "create" /\ d.table \in TableNames(input)
    OBVIOUS
  <2> HIDE DEF cutD
  <2> QED
    BY <2>1 DEF rmTable, cutD
<1>4. IsDb(db) /\ IsDb(cutDb) /\ ~db.failed /\ ~cutDb.failed
  BY DEF Related
<1>5. /\ t \in DOMAIN db.tables /\ d.rows # <<>>
      /\ d.onDuplicate = "fail" => NoClash(full, InsertRows(full, d).rows)
      /\ NoClash(full, InsertRows(full, d).rows) => after = WithTable(db, t, InsertRows(full, d))
      /\ IsTable(InsertRows(full, d))
  BY <1>1, <1>2, <1>4, InsertsRows
<1>6. t \in DOMAIN cutDb.tables /\ Creates(n, t) # {} /\ TableCut(full, cut, create)
  BY <1>5 DEF Related
<1>7. IsTable(full) /\ IsTable(cut)
  BY <1>4, <1>5, <1>6 DEF IsDb
<1>8. NoClash(full, InsertRows(full, d).rows)
  <2>1. CASE KeysOf(t) = {}
    <3>1. PICK i \in Creates(n, t) : create = script[i]
      BY <1>1, <1>6, LastCreateFacts
    <3>2. i \in DOMAIN script /\ script[i].kind = "create" /\ script[i].table = t
      <4>1. n \in 1 .. Len(script) /\ DOMAIN script = 1 .. Len(script) /\ Len(script) \in Nat
        BY ScriptFacts
      <4> QED
        BY <3>1, <4>1 DEF Creates
    <3>3. create.keys \subseteq KeysOf(t)
      BY <3>1, <3>2 DEF KeysOf
    <3>4. full.keys = {}
      BY <1>6, <2>1, <3>3 DEF TableCut
    <3> HIDE DEF full
    <3> QED
      BY <3>4 DEF NoClash, Duplicates
  <2> QED
    BY <1>2, <1>5, <2>1
<1>9. /\ cutD.kind = "insert" /\ cutD.table = t /\ cutD.columns = NoColumns /\ cutD.values = TRUE
      /\ cutD.rows = [r \in DOMAIN d.rows |-> Projected(d.rows[r], create)]
      /\ cutD.onDuplicate = IF d.onDuplicate = "update" THEN "fail" ELSE d.onDuplicate
      /\ cutD = [kind |-> cutD.kind, table |-> cutD.table, columns |-> cutD.columns,
                 values |-> cutD.values, rows |-> cutD.rows, onDuplicate |-> cutD.onDuplicate]
  <2> HIDE DEF create
  <2>1. /\ cutD.kind = "insert" /\ cutD.table = t /\ cutD.columns = NoColumns /\ cutD.values = TRUE
        /\ cutD.rows = [r \in (IF d.values THEN DOMAIN d.rows ELSE {}) |->
                           [i \in DOMAIN SavedColumns(create) |-> d.rows[r][SavedColumns(create)[i]]]]
        /\ cutD.onDuplicate = IF d.onDuplicate = "update" THEN "fail" ELSE d.onDuplicate
    BY DEF CutInsert
  <2>2. cutD = [kind |-> cutD.kind, table |-> cutD.table, columns |-> cutD.columns,
                values |-> cutD.values, rows |-> cutD.rows, onDuplicate |-> cutD.onDuplicate]
    BY DEF CutInsert
  <2> HIDE DEF cutD
  <2> QED
    BY <1>2, <2>1, <2>2 DEF Projected
<1> HIDE DEF cutD, full, cut, create
<1>10. /\ IsRows(cutD.rows) /\ DOMAIN cutD.rows = DOMAIN d.rows
       /\ \A r \in DOMAIN cutD.rows : Len(cutD.rows[r]) = Len(cut.cols)
       /\ TableCut(InsertRows(full, d), InsertRows(cut, cutD), create)
  BY <1>1, <1>2, <1>6, <1>7, <1>9, RowsCut
<1>11. IsDdl(cutD)
  <2>1. IsInsert(cutD)
    BY <1>1, <1>9 DEF IsInsert
  <2> QED
    BY <1>9, <1>10, <2>1 DEF IsDdl
<1>12. AfterCut(cutDb, n) = AfterDdl(cutDb, cutD)
  BY <1>3, AfterCutOne
<1>13. AfterDdl(cutDb, cutD) = InsertInto(cutDb, cutD)
  BY <1>4, <1>9, <1>11, AfterDdlCases
<1> DEFINE sum == cut.rows \o Inserted(cut, cutD)
           newC == InsertRows(cut, cutD)
<1>14. IsTable(newC) /\ newC.rows = sum /\ newC.keys = cut.keys /\ newC.cols = cut.cols
  BY <1>7, <1>10, InsertRowsFacts
<1>15. NoClash(cut, sum)
  <2>1. NoClash(InsertRows(full, d), InsertRows(full, d).rows)
    <3>1. InsertRows(full, d).keys = full.keys /\ InsertRows(full, d).cols = full.cols
      BY <1>1, <1>7, InsertRowsFacts
    <3> QED
      BY <1>8, <3>1 DEF NoClash, Duplicates
  <2>2. /\ DOMAIN InsertRows(full, d).rows = 1 .. Len(InsertRows(full, d).rows)
        /\ DOMAIN newC.rows = 1 .. Len(newC.rows)
    BY <1>5, <1>14, RowsFacts DEF IsTable
  <2>3. NoClash(newC, newC.rows)
    BY <1>10, <2>1, <2>2, CutNoClash
  <2> HIDE DEF sum, newC
  <2> QED
    BY <1>14, <2>3 DEF NoClash, Duplicates
<1> DEFINE cutAfter == WithTable(cutDb, t, newC)
<1>16. InsertInto(cutDb, cutD) = cutAfter
  <2> DEFINE clash == \E i, j \in DOMAIN sum : i # j /\ Duplicates(cut, sum[i], sum[j])
  <2>1. ~clash
    BY <1>15 DEF NoClash
  <2>2. cutDb.tables[cutD.table] = cut /\ NamesIn(cut, cutD) = cut.cols
    BY <1>9 DEF cut, NamesIn
  <2>3. cutD.rows # <<>>
    <3>1. Len(d.rows) \in Nat /\ DOMAIN d.rows = 1 .. Len(d.rows) /\ d.rows = [i \in DOMAIN d.rows |-> d.rows[i]]
      <4>1. PICK S : d.rows \in Seq(S)
        BY <1>1 DEF IsRows
      <4> QED
        BY <4>1
    <3>2. DOMAIN d.rows # {}
      <4>1. CASE DOMAIN d.rows = {}
        <5>1. Len(d.rows) = 0
          BY <3>1, <4>1
        <5>2. PICK S : d.rows \in Seq(S)
          BY <1>1 DEF IsRows
        <5>3. d.rows = <<>>
          BY <5>1, <5>2
        <5> QED
          BY <1>5, <5>3
      <4> QED
        BY <4>1
    <3> QED
      BY <1>10, <3>2
  <2>4. InsertInto(cutDb, cutD) =
           IF \/ cutD.table \notin DOMAIN cutDb.tables
              \/ cutD.values /\ cutD.rows = <<>>
              \/ ~(ToSet(cut.cols) \subseteq ToSet(cut.cols))
              \/ \E i \in DOMAIN cutD.rows : Len(cutD.rows[i]) # Len(cut.cols)
              \/ clash /\ cutD.onDuplicate = "fail"
           THEN Fail(cutDb)
           ELSE WithTable(cutDb, cutD.table,
                   [cut EXCEPT !.rows = IF clash THEN OnePerKey(cut, sum, cutD.onDuplicate) ELSE sum])
    <3> HIDE DEF clash
    <3> QED
      BY <2>2 DEF InsertInto, clash
  <2>5. newC = [cut EXCEPT !.rows = sum]
    BY DEF InsertRows
  <2> HIDE DEF clash, sum, newC
  <2> QED
    BY <1>6, <1>9, <1>10, <2>1, <2>3, <2>4, <2>5
<1>17. /\ IsDb(after) /\ after.failed = db.failed
       /\ DOMAIN after.tables = DOMAIN db.tables \cup {t}
       /\ after.tables[t] = InsertRows(full, d)
       /\ \A u \in DOMAIN db.tables : u # t => after.tables[u] = db.tables[u]
  BY <1>4, <1>5, <1>8, WithTableFacts
<1>18. /\ IsDb(cutAfter) /\ cutAfter.failed = cutDb.failed
       /\ DOMAIN cutAfter.tables = DOMAIN cutDb.tables \cup {t}
       /\ cutAfter.tables[t] = newC
       /\ \A u \in DOMAIN cutDb.tables : u # t => cutAfter.tables[u] = cutDb.tables[u]
  BY <1>4, <1>14, WithTableFacts
<1>19. Creates(n + 1, t) # {} /\ LastCreate(n + 1, t) = create
  BY <1>1, <1>6, LastCreateNext DEF create
<1> HIDE DEF after, cutAfter
<1>20. \A u \in TableNames(input) \cap DOMAIN after.tables :
              \/ /\ u \in DOMAIN db.tables /\ after.tables[u] = db.tables[u]
                 /\ ~(script[n].kind = "create" /\ script[n].table = u)
                 /\ u \in DOMAIN cutDb.tables => u \in DOMAIN cutAfter.tables
                 /\ u \in DOMAIN cutDb.tables => cutAfter.tables[u] = cutDb.tables[u]
              \/ /\ u \in DOMAIN cutAfter.tables /\ Creates(n + 1, u) # {}
                 /\ TableCut(after.tables[u], cutAfter.tables[u], LastCreate(n + 1, u))
  <2> TAKE u \in TableNames(input) \cap DOMAIN after.tables
  <2>1. CASE u = t
    BY <1>10, <1>17, <1>18, <1>19, <2>1
  <2>2. CASE u # t
    BY <1>17, <1>18, <2>2
  <2> QED
    BY <2>1, <2>2
<1>21. Related(after, cutAfter, n + 1)
  BY <1>1, <1>4, <1>17, <1>18, <1>20, OthersRelated
<1> QED
  BY <1>12, <1>13, <1>16, <1>21 DEF after

\* cut[n] is what is left of the first n statements.
Cuts(cut, m) == cut = [n \in 0 .. m |-> IF n = 0 THEN <<>> ELSE cut[n - 1] \o rmTable(n)]

\* The recursion of rmtbcol has a solution.
LEMMA CutExists == \A m \in Nat : \E cut : Cuts(cut, m)
<1> DEFINE S == {n \in Nat : \E cut : Cuts(cut, n)}
<1>1. 0 \in S
  <2> DEFINE h == [n \in 0 .. 0 |-> <<>>]
  <2>1. h = [n \in 0 .. 0 |-> IF n = 0 THEN <<>> ELSE h[n - 1] \o rmTable(n)]
    OBVIOUS
  <2>2. Cuts(h, 0)
    BY <2>1 DEF Cuts
  <2> QED
    BY <2>2
<1>2. ASSUME NEW m \in Nat, m \in S
      PROVE  m + 1 \in S
  <2>1. PICK g : Cuts(g, m)
    BY <1>2
  <2> DEFINE last == g[m] \o rmTable(m + 1)
             h == [n \in 0 .. m + 1 |-> IF n = m + 1 THEN last ELSE g[n]]
  <2>2. \A n \in 0 .. m : g[n] = IF n = 0 THEN <<>> ELSE g[n - 1] \o rmTable(n)
    BY <2>1 DEF Cuts
  <2>3. \A n \in 0 .. m : n # m + 1 /\ n \in 0 .. m + 1
    OBVIOUS
  <2>4. \A n \in 0 .. m : h[n] = g[n]
    <3> HIDE DEF last
    <3> QED
      BY <2>3
  <2>5. h[m + 1] = last /\ h = [n \in 0 .. m + 1 |-> h[n]]
    <3>1. m + 1 \in 0 .. m + 1
      OBVIOUS
    <3> HIDE DEF last
    <3> QED
      BY <3>1
  <2> HIDE DEF h
  <2>6. \A n \in 0 .. m + 1 : h[n] = IF n = 0 THEN <<>> ELSE h[n - 1] \o rmTable(n)
    <3> TAKE n \in 0 .. m + 1
    <3>1. CASE n = m + 1
      <4>1. m \in 0 .. m /\ n - 1 = m /\ n # 0
        BY <3>1
      <4> QED
        BY <2>4, <2>5, <3>1, <4>1
    <3>2. CASE n # m + 1
      <4>1. n \in 0 .. m
        BY <3>2
      <4>2. n # 0 => n - 1 \in 0 .. m
        BY <4>1
      <4> QED
        BY <2>2, <2>4, <4>1, <4>2
    <3> QED
      BY <3>1, <3>2
  <2>7. Cuts(h, m + 1)
    BY <2>5, <2>6 DEF Cuts
  <2> QED
    BY <2>7
<1> HIDE DEF S
<1>3. Nat \subseteq S
  BY <1>1, <1>2, Induction
<1> QED
  BY <1>3 DEF S

\* The databases are related as long as the script does not fail.
LEMMA StepRelated ==
    ASSUME NEW n \in DOMAIN script, script \in Scripts, Reducible,
           NEW db, NEW cutDb, Related(db, cutDb, n), ~AfterDdl(db, script[n]).failed
    PROVE  Related(AfterDdl(db, script[n]), AfterCut(cutDb, n), n + 1)
<1>1. IsDdl(script[n]) /\ script[n].kind # "rename"
  BY ScriptFacts DEF Reducible
<1>2. \/ script[n].kind = "other" \/ script[n].kind = "drop"
      \/ script[n].kind \in {"create", "insert"} /\ script[n].table \notin TableNames(input)
      \/ script[n].kind = "create" /\ script[n].table \in TableNames(input)
      \/ script[n].kind = "insert" /\ script[n].table \in TableNames(input)
  BY <1>1 DEF IsDdl
<1> QED
  BY <1>2, OtherRelated, DropRelated, DroppedRelated, CreateRelated, InsertRelated

\* What the script without a statement, or with what is left of it, builds.
LEMMA CutStep ==
    ASSUME NEW n \in DOMAIN script, script \in Scripts, NEW ddls, IsRows(ddls)
    PROVE  /\ IsRows(ddls \o rmTable(n))
           /\ InitDBWithDDL(ddls \o rmTable(n)) = AfterCut(InitDBWithDDL(ddls), n)
<1>1. rmTable(n) = <<>> \/ (\E x : rmTable(n) = <<x>>) \/ (\E x, y : rmTable(n) = <<x, y>>)
  BY DEF rmTable
<1>2. CASE rmTable(n) = <<>>
  <2>1. ddls \o <<>> = ddls
    BY RowsFacts
  <2> QED
    BY <1>2, <2>1 DEF AfterCut
<1>3. ASSUME NEW x, NEW before, IsRows(before)
      PROVE  /\ IsRows(before \o <<x>>)
             /\ InitDBWithDDL(before \o <<x>>) = AfterDdl(InitDBWithDDL(before), x)
  <2>1. <<x>> \in Seq({x})
    OBVIOUS
  <2>2. IsRows(<<x>>)
    BY <2>1 DEF IsRows
  <2>3. IsRows(before \o <<x>>)
    BY <1>3, <2>2, RowsConcat
  <2> QED
    BY <1>3, <2>3, BuildAppend
<1>4. ASSUME NEW x, rmTable(n) = <<x>>
      PROVE  /\ IsRows(ddls \o rmTable(n))
             /\ InitDBWithDDL(ddls \o rmTable(n)) = AfterCut(InitDBWithDDL(ddls), n)
  BY <1>3, <1>4, AfterCutOne
<1>5. ASSUME NEW x, NEW y, rmTable(n) = <<x, y>>
      PROVE  /\ IsRows(ddls \o rmTable(n))
             /\ InitDBWithDDL(ddls \o rmTable(n)) = AfterCut(InitDBWithDDL(ddls), n)
  <2> DEFINE first == ddls \o <<x>>
  <2>1. ddls \o <<x, y>> = first \o <<y>>
    <3>1. PICK S : ddls \in Seq(S)
      BY DEF IsRows
    <3> DEFINE T == S \cup {x, y}
    <3>2. ddls \in Seq(T) /\ x \in T /\ y \in T
      BY <3>1
    <3> HIDE DEF T
    <3>3. <<x>> \in Seq(T) /\ <<y>> \in Seq(T)
      BY <3>2
    <3>4. <<x, y>> = Append(<<x>>, y)
      OBVIOUS
    <3>5. Append(<<x>>, y) = <<x>> \o <<y>>
      BY <3>2, <3>3, AppendIsConcat
    <3> QED
      BY <3>2, <3>3, <3>4, <3>5, ConcatAssociative
  <2>2. IsRows(first) /\ InitDBWithDDL(first) = AfterDdl(InitDBWithDDL(ddls), x)
    BY <1>3
  <2> HIDE DEF first
  <2>3. IsRows(first \o <<y>>) /\ InitDBWithDDL(first \o <<y>>) = AfterDdl(InitDBWithDDL(first), y)
    BY <1>3, <2>2
  <2>4. AfterCut(InitDBWithDDL(ddls), n) = AfterDdl(AfterDdl(InitDBWithDDL(ddls), x), y)
    BY <1>5, AfterCutTwo
  <2> QED
    BY <1>5, <2>1, <2>2, <2>3, <2>4
<1> QED
  BY <1>1, <1>2, <1>4, <1>5

\* The two scripts build related databases.
LEMMA ScriptsRelated ==
    ASSUME script \in Scripts, Reducible, NEW cut, Cuts(cut, Len(script))
    PROVE  Related(Database, InitDBWithDDL(cut[Len(script)]), Len(script) + 1)
<1> DEFINE N == Len(script)
<1>1. /\ N \in Nat /\ DOMAIN script = 1 .. N /\ ~Database.failed
      /\ \A n \in 1 .. N : IsDdl(script[n])
  BY ScriptFacts
<1>2. PICK after : Builds(after, script, N) /\ Database = after[N]
  BY <1>1, BuildUnfold DEF Database
<1> HIDE DEF N
<1>3. /\ after[0] = NoTables
      /\ \A n \in 0 .. N - 1 : after[n + 1] = AfterDdl(after[n], script[n + 1])
  BY <1>1, <1>2, BuildSteps
<1>4. \A n \in 0 .. N : ~after[n].failed
  BY <1>1, <1>2, BuildType
<1>5. cut = [n \in 0 .. N |-> IF n = 0 THEN <<>> ELSE cut[n - 1] \o rmTable(n)]
  BY DEF Cuts, N
<1>6. /\ cut[0] = <<>>
      /\ \A n \in 0 .. N - 1 : cut[n + 1] = cut[n] \o rmTable(n + 1)
  <2>1. \A n \in 0 .. N : cut[n] = IF n = 0 THEN <<>> ELSE cut[n - 1] \o rmTable(n)
    BY <1>5
  <2>2. 0 \in 0 .. N
    BY <1>1
  <2>3. \A n \in 0 .. N - 1 : n + 1 \in 0 .. N /\ n + 1 # 0 /\ (n + 1) - 1 = n
    BY <1>1
  <2> QED
    BY <2>1, <2>2, <2>3
<1> DEFINE S == {n \in Nat : n <= N =>
                    IsRows(cut[n]) /\ Related(after[n], InitDBWithDDL(cut[n]), n + 1)}
<1>7. 0 \in S
  <2>1. IsRows(<<>>)
    <3>1. <<>> \in Seq({})
      OBVIOUS
    <3> QED
      BY <3>1 DEF IsRows
  <2>2. Related(NoTables, NoTables, 0 + 1)
    BY NoTablesFacts DEF Related
  <2>3. InitDBWithDDL(cut[0]) = NoTables
    BY <1>6, BuildNone
  <2> QED
    BY <1>3, <1>6, <2>1, <2>2, <2>3
<1>8. ASSUME NEW n \in Nat, n \in S
      PROVE  n + 1 \in S
  <2> SUFFICES ASSUME n + 1 <= N
               PROVE  /\ IsRows(cut[n + 1])
                      /\ Related(after[n + 1], InitDBWithDDL(cut[n + 1]), (n + 1) + 1)
    OBVIOUS
  <2> DEFINE k == n + 1
  <2>1. n \in 0 .. N - 1 /\ k \in DOMAIN script /\ n <= N /\ k \in 0 .. N
    BY <1>1
  <2>2. IsRows(cut[n]) /\ Related(after[n], InitDBWithDDL(cut[n]), k)
    BY <1>8, <2>1
  <2>3. after[k] = AfterDdl(after[n], script[k]) /\ cut[k] = cut[n] \o rmTable(k)
    BY <1>3, <1>6, <2>1
  <2>4. ~after[k].failed
    BY <1>4, <2>1
  <2> HIDE DEF k
  <2>5. /\ IsRows(cut[k])
        /\ InitDBWithDDL(cut[k]) = AfterCut(InitDBWithDDL(cut[n]), k)
    BY <2>1, <2>2, <2>3, CutStep
  <2>6. Related(after[k], InitDBWithDDL(cut[k]), k + 1)
    BY <2>1, <2>2, <2>3, <2>4, <2>5, StepRelated
  <2> QED
    BY <2>5, <2>6 DEF k
<1> HIDE DEF S
<1>9. Nat \subseteq S
  BY <1>7, <1>8, Induction
<1>10. N \in S /\ N <= N
  BY <1>1, <1>9
<1> QED
  BY <1>2, <1>10 DEF S, N

-----------------------------------------------------------------------------
(* What the DBMS answers.                                                  *)

\* The functions from one finite set into another are finitely many.
LEMMA FiniteFunctions ==
    ASSUME NEW S, IsFiniteSet(S), NEW T, IsFiniteSet(T)
    PROVE  IsFiniteSet([S -> T])
<1> DEFINE graph == [f \in [S -> T] |-> {<<s, f[s]>> : s \in S}]
           P == SUBSET (S \X T)
<1>1. IsFiniteSet(P)
  BY FS_Product, FS_SUBSET
<1>2. graph \in [[S -> T] -> P]
  <2> SUFFICES ASSUME NEW f \in [S -> T]
               PROVE  {<<s, f[s]>> : s \in S} \subseteq S \X T
    OBVIOUS
  <2> QED
    OBVIOUS
<1>3. ASSUME NEW f \in [S -> T], NEW g \in [S -> T], graph[f] = graph[g]
      PROVE  f = g
  <2>1. \A s \in S : <<s, f[s]>> \in graph[g]
    BY <1>3
  <2>2. ASSUME NEW s \in S
        PROVE  f[s] = g[s]
    <3>1. PICK u \in S : <<s, f[s]>> = <<u, g[u]>>
      BY <2>1
    <3> QED
      BY <3>1
  <2> QED
    BY <2>2
<1>4. graph \in Injection([S -> T], P)
  BY <1>2, <1>3 DEF Injection, IsInjective
<1> QED
  BY <1>1, <1>4, FS_Injection

\* The statement reads tables of the database.
Reads(sql, db) ==
    /\ IsRows(sql.from)
    /\ \A t \in TableNames(sql) : IsRows(db.tables[t].rows)

\* The product is finite.
LEMMA ProductFinite ==
    ASSUME NEW sql, NEW db, Reads(sql, db)
    PROVE  IsFiniteSet(Product(sql, db))
<1> DEFINE T == TableNames(sql)
           f == [t \in T |-> DOMAIN db.tables[t].rows]
           D == {DOMAIN db.tables[t].rows : t \in T}
<1>1. IsFiniteSet(T)
  BY RowsFacts DEF Reads, TableNames
<1>2. f \in Surjection(T, D)
  BY DEF Surjection
<1>3. IsFiniteSet(D)
  BY <1>1, <1>2, FS_Surjection
<1>4. \A d \in D : IsFiniteSet(d)
  BY RowsFacts DEF Reads
<1>5. IsFiniteSet(UNION D)
  BY <1>3, <1>4, FS_UNION
<1>6. IsFiniteSet([T -> UNION D])
  BY <1>1, <1>5, FiniteFunctions
<1>7. Product(sql, db) \in SUBSET [T -> UNION D]
  BY DEF Product
<1> QED
  BY <1>6, <1>7, FS_Subset

\* Names for the parts of ExecX.
KeptChoices(sql, db) == SetToSeq(Selected(sql, db))
\* The selected rows, with repetitions.
AllRows(sql, db) ==
    [i \in DOMAIN KeptChoices(sql, db) |->
        RowOfFields(sql, db, KeptChoices(sql, db)[i])]
\* The rows of the answer.
RowsOfX(sql, db) == IF sql.distinct THEN SetToSeq(ToSet(AllRows(sql, db))) ELSE AllRows(sql, db)

\* ExecX in these names.
LEMMA ExecXParts ==
    ASSUME NEW sql, NEW db
    PROVE  ExecX(sql, db) =
              IF sql.count THEN [err |-> FALSE, cols |-> 1, rows |-> <<<<Len(RowsOfX(sql, db))>>>>]
              ELSE [err |-> FALSE, cols |-> IF RowsOfX(sql, db) = <<>> THEN 0 ELSE Len(RowsOfX(sql, db)[1]),
                    rows |-> RowsOfX(sql, db)]
  BY DEF ExecX, RowsOfX, AllRows, KeptChoices

\* The rows of an answer are numbered from 1.
LEMMA AnswerRows ==
    ASSUME NEW sql, NEW db, Reads(sql, db)
    PROVE  ExecX(sql, db).err = FALSE /\ IsRows(ExecX(sql, db).rows)
<1>1. Selected(sql, db) \in SUBSET Product(sql, db)
  BY DEF Selected
<1>2. IsFiniteSet(Selected(sql, db))
  BY <1>1, ProductFinite, FS_Subset
<1>3. IsRows(KeptChoices(sql, db))
  BY <1>2, SetSequence DEF KeptChoices
<1> DEFINE n == Len(KeptChoices(sql, db))
           all == AllRows(sql, db)
           rows == RowsOfX(sql, db)
<1>4. n \in Nat /\ DOMAIN KeptChoices(sql, db) = 1 .. n
  BY <1>3, RowsFacts
<1>5. all = [i \in 1 .. n |-> all[i]]
  BY <1>4 DEF AllRows
<1> HIDE DEF all, n
<1>6. IsRows(all)
  BY <1>4, <1>5, RowsIntro
<1>7. IsFiniteSet(ToSet(all))
  BY <1>6, RowsFacts
<1>8. IsRows(rows)
  BY <1>6, <1>7, SetSequence DEF RowsOfX, all
<1> HIDE DEF rows
<1>9. IsRows(<<<<Len(rows)>>>>)
  <2> DEFINE x == << Len(rows) >>
  <2> HIDE DEF x
  <2>1. <<x>> \in Seq({x})
    OBVIOUS
  <2>2. IsRows(<<x>>)
    BY <2>1 DEF IsRows
  <2> QED
    BY <2>2 DEF x
<1>10. ExecX(sql, db) =
          IF sql.count THEN [err |-> FALSE, cols |-> 1, rows |-> <<<<Len(rows)>>>>]
          ELSE [err |-> FALSE, cols |-> IF rows = <<>> THEN 0 ELSE Len(rows[1]), rows |-> rows]
  BY ExecXParts DEF rows
<1> QED
  BY <1>8, <1>9, <1>10

\* A result is the same as itself.
LEMMA SameAsItself ==
    ASSUME NEW r, r.err = FALSE, IsRows(r.rows)
    PROVE  CMP(r, r) = 0
<1> DEFINE s == FlatRows(r)  n == Len(r.rows)
<1>1. n \in Nat
  BY RowsFacts
<1>2. s = [j \in 1 .. n |-> s[j]]
  BY DEF FlatRows
<1> HIDE DEF s, n
<1>3. Len(s) = n
  BY <1>1, <1>2, RowsIntro
<1>4. ASSUME NEW x \in Texts
      PROVE  Occurrences(s, x) <= Occurrences(s, x)
  <2>1. IsFiniteSet(1 .. n) /\ {j \in 1 .. n : s[j] = x} \in SUBSET (1 .. n)
    BY <1>1, FS_Interval
  <2>2. Occurrences(s, x) \in Nat
    BY <1>3, <2>1, FS_Subset, FS_CardinalityType DEF Occurrences, Occ
  <2> QED
    BY <2>2
<1>5. Contained(s, s)
  BY <1>4 DEF Contained
<1>6. BagOrder(s, s) = 0
  BY <1>5 DEF BagOrder
<1> QED
  BY <1>6 DEF CMP, s

\* The databases have the same rows, as far as the statement reads them.
AnswersAlike(sql, db1, db2) ==
    /\ \A k \in DOMAIN sql.fields : sql.fields[k] = <<>> \/ Len(sql.fields[k]) \in {1, 2}
    /\ Product(sql, db1) = Product(sql, db2)
    /\ \A choice \in Product(sql, db1) : \A column \in ColumnsNamed(sql) :
          At(db1, choice, column) = At(db2, choice, column)
    /\ <<>> \in ToSet(sql.fields) =>
          \A choice \in Product(sql, db1) : \A t \in TableNames(sql) :
              TableValues(t, db1, choice) = TableValues(t, db2, choice)

\* An answer is made of nothing else.
LEMMA AlikeAnswered ==
    ASSUME NEW sql, NEW db1, NEW db2, Reads(sql, db1), AnswersAlike(sql, db1, db2)
    PROVE  ExecX(sql, db1) = ExecX(sql, db2)
<1> DEFINE C == Columns(sql.where)
           P == Product(sql, db1)
<1>1. ASSUME NEW choice \in P
      PROVE  Value(sql.where, [p \in C |-> At(db1, choice, sql.where[p].v)])
             = Value(sql.where, [p \in C |-> At(db2, choice, sql.where[p].v)])
  <2>1. ASSUME NEW p \in C
        PROVE  At(db1, choice, sql.where[p].v) = At(db2, choice, sql.where[p].v)
    <3>1. sql.where[p].v \in ColumnsNamed(sql)
      BY DEF ColumnsNamed
    <3> QED
      BY <3>1 DEF AnswersAlike
  <2>2. [p \in C |-> At(db1, choice, sql.where[p].v)] = [p \in C |-> At(db2, choice, sql.where[p].v)]
    BY <2>1
  <2> QED
    BY <2>2
<1> DEFINE V1(choice) == Value(sql.where, [p \in C |-> At(db1, choice, sql.where[p].v)])
           V2(choice) == Value(sql.where, [p \in C |-> At(db2, choice, sql.where[p].v)])
<1>2. /\ Selected(sql, db1) = {choice \in P : V1(choice) # 0}
      /\ Selected(sql, db2) = {choice \in P : V2(choice) # 0}
  BY DEF Selected, AnswersAlike
<1>3. \A choice \in P : V1(choice) = V2(choice)
  BY <1>1
<1> HIDE DEF V1, V2, C, P
<1>4. Selected(sql, db1) = Selected(sql, db2)
  BY <1>2, <1>3
<1>5. Selected(sql, db1) \in SUBSET P
  BY <1>2
<1>6. IsFiniteSet(Selected(sql, db1))
  BY <1>5, ProductFinite, FS_Subset DEF P
<1>7. KeptChoices(sql, db1) = KeptChoices(sql, db2)
  BY <1>4 DEF KeptChoices
<1>8. \A i \in DOMAIN KeptChoices(sql, db1) : KeptChoices(sql, db1)[i] \in P
  <2>1. IsRows(KeptChoices(sql, db1)) /\ ToSet(KeptChoices(sql, db1)) = Selected(sql, db1)
    BY <1>6, SetSequence DEF KeptChoices
  <2> QED
    BY <1>5, <2>1, RowsFacts
<1>9. ASSUME NEW choice \in P, NEW k \in DOMAIN sql.fields
      PROVE  FieldValues(sql.fields[k], sql, db1, choice) = FieldValues(sql.fields[k], sql, db2, choice)
  <2> DEFINE field == sql.fields[k]
  <2>1. field \in ToSet(sql.fields)
    BY DEF ToSet
  <2>2. field = <<>> \/ Len(field) \in {1, 2}
    BY DEF AnswersAlike
  <2> HIDE DEF field
  <2>3. CASE field = <<>>
    <3>1. \A i \in DOMAIN sql.from :
              TableValues(sql.from[i], db1, choice) = TableValues(sql.from[i], db2, choice)
      <4>1. \A i \in DOMAIN sql.from : sql.from[i] \in TableNames(sql)
        BY DEF TableNames, ToSet
      <4> QED
        BY <2>1, <2>3, <4>1 DEF AnswersAlike, P
    <3>2. [i \in DOMAIN sql.from |-> TableValues(sql.from[i], db1, choice)]
          = [i \in DOMAIN sql.from |-> TableValues(sql.from[i], db2, choice)]
      BY <3>1
    <3>3. FieldValues(field, sql, db1, choice) = FieldValues(field, sql, db2, choice)
      BY <2>3, <3>2 DEF FieldValues
    <3> QED
      BY <3>3 DEF field
  <2>4. CASE field # <<>> /\ Len(field) = 1
    BY <2>4 DEF FieldValues, field
  <2>5. CASE field # <<>> /\ Len(field) = 2
    <3>1. field \in ColumnsNamed(sql) /\ Len(field) # 1
      BY <2>1, <2>5 DEF ColumnsNamed
    <3>2. At(db1, choice, field) = At(db2, choice, field)
      BY <3>1 DEF AnswersAlike, P
    <3>3. FieldValues(field, sql, db1, choice) = FieldValues(field, sql, db2, choice)
      BY <2>5, <3>1, <3>2 DEF FieldValues
    <3> QED
      BY <3>3 DEF field
  <2> QED
    BY <2>2, <2>3, <2>4, <2>5
<1>10. AllRows(sql, db1) = AllRows(sql, db2)
  <2>1. ASSUME NEW choice \in P
        PROVE  RowOfFields(sql, db1, choice) = RowOfFields(sql, db2, choice)
    <3>1. [k \in DOMAIN sql.fields |-> FieldValues(sql.fields[k], sql, db1, choice)]
          = [k \in DOMAIN sql.fields |-> FieldValues(sql.fields[k], sql, db2, choice)]
      BY <1>9
    <3> QED
      BY <3>1 DEF RowOfFields
  <2>2. \A i \in DOMAIN KeptChoices(sql, db1) :
            RowOfFields(sql, db1, KeptChoices(sql, db1)[i]) = RowOfFields(sql, db2, KeptChoices(sql, db2)[i])
    BY <1>7, <1>8, <2>1
  <2> QED
    BY <1>7, <2>2 DEF AllRows
<1>11. RowsOfX(sql, db1) = RowsOfX(sql, db2)
  BY <1>10 DEF RowsOfX
<1> QED
  BY <1>11, ExecXParts

\* The two databases answer the statement alike.
LEMMA RelatedAlike ==
    ASSUME script \in Scripts, input \in Statements, Reducible, NEW cutDb,
           NEW n, n = Len(script) + 1, Related(Database, cutDb, n)
    PROVE  Reads(input, Database) /\ AnswersAlike(input, Database, cutDb)
<1> DEFINE T == TableNames(input)
           db == Database
<1>1. /\ IsRows(input.from) /\ T \subseteq DOMAIN db.tables
      /\ \A k \in DOMAIN input.fields : input.fields[k] = <<>> \/ Len(input.fields[k]) \in {1, 2}
      /\ \A column \in ColumnsNamed(input) :
            column[1] \in T /\ column[2] \in ToSet(db.tables[column[1]].cols)
  BY XAssumption DEF Database, IsRows
<1>2. ASSUME NEW t \in T
      PROVE  /\ IsRows(db.tables[t].rows) /\ IsRows(db.tables[t].cols) /\ IsRows(cutDb.tables[t].rows)
             /\ DOMAIN db.tables[t].rows = DOMAIN cutDb.tables[t].rows
             /\ TableCut(db.tables[t], cutDb.tables[t], LastCreate(n, t))
  <2>1. t \in DOMAIN db.tables /\ t \in DOMAIN cutDb.tables
        /\ TableCut(db.tables[t], cutDb.tables[t], LastCreate(n, t))
    BY <1>1 DEF Related
  <2>2. IsTable(db.tables[t]) /\ IsTable(cutDb.tables[t])
    BY <2>1 DEF Related, IsDb
  <2> QED
    BY <2>1, <2>2, RowsFacts DEF IsTable, TableCut
<1>3. Reads(input, db)
  BY <1>1, <1>2 DEF Reads
<1>4. Product(input, db) = Product(input, cutDb)
  <2>1. \A t \in T : DOMAIN db.tables[t].rows = DOMAIN cutDb.tables[t].rows
    BY <1>2
  <2>2. {DOMAIN db.tables[t].rows : t \in T} = {DOMAIN cutDb.tables[t].rows : t \in T}
    BY <2>1
  <2> HIDE DEF T, db
  <2>3. Product(input, db) =
           {choice \in [T -> UNION {DOMAIN db.tables[t].rows : t \in T}] :
               \A t \in T : choice[t] \in DOMAIN db.tables[t].rows}
    BY DEF Product, T
  <2>4. Product(input, cutDb) =
           {choice \in [T -> UNION {DOMAIN cutDb.tables[t].rows : t \in T}] :
               \A t \in T : choice[t] \in DOMAIN cutDb.tables[t].rows}
    BY DEF Product, T
  <2> QED
    BY <2>1, <2>2, <2>3, <2>4
<1>5. ASSUME NEW choice \in Product(input, db), NEW column, column[1] \in T,
             column[2] \in ToSet(db.tables[column[1]].cols), column[2] \in ColumnNames(input)
      PROVE  At(db, choice, column) = At(cutDb, choice, column)
  <2> DEFINE t == column[1]  name == column[2]
             full == db.tables[t]  cut == cutDb.tables[t]
             create == LastCreate(n, t)
             r == choice[t]
             here == CHOOSE i \in DOMAIN full.cols : full.cols[i] = name
             there == CHOOSE i \in DOMAIN cut.cols : cut.cols[i] = name
  <2>1. t \in T /\ name \in ToSet(full.cols) /\ name \in ColumnNames(input)
    BY <1>5
  <2>2. /\ IsRows(create.cols) /\ IsInjective(create.cols)
        /\ full.cols = create.cols /\ cut.cols = SavedNames(create)
        /\ \A j \in 1 .. Len(full.rows) : cut.rows[j] = Projected(full.rows[j], create)
    BY <1>2, <2>1 DEF TableCut
  <2>3. r \in 1 .. Len(full.rows)
    <3>1. choice[t] \in DOMAIN db.tables[t].rows
      BY <2>1 DEF Product
    <3> QED
      BY <1>2, <2>1, <3>1, RowsFacts
  <2>4. At(db, choice, column) = full.rows[r][here] /\ At(cutDb, choice, column) = cut.rows[r][there]
    BY DEF At
  <2> HIDE DEF t, name, full, cut, create, r
  <2>5. here \in DOMAIN create.cols /\ create.cols[here] = name
    BY <2>1, <2>2 DEF ToSet
  <2>6. PICK m : Saves(create, m)
    BY <2>2, SavedFacts
  <2>7. PICK k \in 1 .. m : SavedColumns(create)[k] = here
    BY <2>1, <2>5, <2>6 DEF Saves
  <2>8. k \in DOMAIN cut.cols /\ cut.cols[k] = name
    BY <2>2, <2>5, <2>6, <2>7 DEF Saves
  <2>9. there \in 1 .. m /\ SavedNames(create)[there] = name
    BY <2>2, <2>6, <2>8 DEF Saves
  <2> HIDE DEF here, there
  <2>10. SavedColumns(create)[there] \in DOMAIN create.cols
         /\ create.cols[SavedColumns(create)[there]] = name
    BY <2>6, <2>9 DEF Saves
  <2>11. SavedColumns(create)[there] = here
    BY <2>2, <2>5, <2>10 DEF IsInjective
  <2>12. cut.rows[r] = Projected(full.rows[r], create)
    BY <2>2, <2>3
  <2>13. DOMAIN SavedColumns(create) = 1 .. m
    BY <2>6 DEF Saves
  <2>14. cut.rows[r][there] = full.rows[r][here]
    BY <2>9, <2>11, <2>12, <2>13 DEF Projected
  <2> QED
    BY <2>4, <2>14 DEF here, there
<1>6. ASSUME NEW choice \in Product(input, db), NEW column \in ColumnsNamed(input)
      PROVE  At(db, choice, column) = At(cutDb, choice, column)
  <2>1. column[1] \in T /\ column[2] \in ToSet(db.tables[column[1]].cols)
        /\ column[2] \in ColumnNames(input)
    BY <1>1 DEF ColumnNames
  <2> HIDE DEF T, db
  <2> QED
    BY <1>5, <2>1
<1>7. ASSUME <<>> \in ToSet(input.fields), NEW choice \in Product(input, db), NEW t \in T
      PROVE  TableValues(t, db, choice) = TableValues(t, cutDb, choice)
  <2> DEFINE create == LastCreate(n, t)
             cols == db.tables[t].cols
             cutCols == cutDb.tables[t].cols
  <2>1. Len(script) \in Nat /\ DOMAIN script = 1 .. Len(script)
    BY ScriptFacts
  <2>2. n \in Nat /\ n - 1 = Len(script)
    BY <2>1
  <2>3. Creates(n, t) # {}
    BY <1>1 DEF Related
  <2>4. PICK i \in Creates(n, t) : create = script[i]
    BY <2>2, <2>3, LastCreateFacts
  <2>5. i \in DOMAIN script /\ script[i].kind = "create" /\ script[i].table = t
    BY <2>1, <2>2, <2>4 DEF Creates
  <2>6. ToSet(create.cols) \subseteq ColumnNames(input)
    BY <1>7, <2>4, <2>5 DEF Reducible
  <2>7. IsRows(create.cols) /\ cols = create.cols /\ cutCols = SavedNames(create)
    BY <1>2 DEF TableCut
  <2>8. cutCols = cols
    BY <2>6, <2>7, AllSaved
  <2>9. \A c \in DOMAIN cols : cols[c] \in ToSet(cols) /\ cols[c] \in ColumnNames(input)
    BY <2>6, <2>7 DEF ToSet
  <2> HIDE DEF T, create
  <2>10. \A c \in DOMAIN cols : At(db, choice, <<t, cols[c]>>) = At(cutDb, choice, <<t, cols[c]>>)
    <3> TAKE c \in DOMAIN cols
    <3> DEFINE column == <<t, cols[c]>>
    <3>1. column[1] = t /\ column[2] = cols[c]
      OBVIOUS
    <3>2. cols[c] \in ToSet(db.tables[t].cols) /\ cols[c] \in ColumnNames(input)
      BY <2>9
    <3> HIDE DEF cols, column, db
    <3> QED
      BY <1>5, <3>1, <3>2 DEF column
  <2>11. /\ TableValues(t, db, choice) = [c \in DOMAIN cols |-> At(db, choice, <<t, cols[c]>>)]
         /\ TableValues(t, cutDb, choice) = [c \in DOMAIN cutCols |-> At(cutDb, choice, <<t, cutCols[c]>>)]
    BY DEF TableValues
  <2> HIDE DEF cols, cutCols, db
  <2> QED
    BY <2>8, <2>10, <2>11
<1> QED
  BY <1>1, <1>3, <1>4, <1>6, <1>7 DEF AnswersAlike

-----------------------------------------------------------------------------
(* The invariant.                                                          *)

\* The statement that option dml has reached always has the result.
XInvariant ==
    /\ script \in Scripts /\ input \in Statements
    /\ ResultKept(dml)
    /\ SameResult

\* The database that a script builds answers the statement.
LEMMA OwnResult ==
    ASSUME script \in Scripts, input \in Statements
    PROVE  CMP(Result, Result) = 0
<1>1. /\ Len(script) \in Nat /\ \A n \in 1 .. Len(script) : IsDdl(script[n])
  BY ScriptFacts
<1>2. PICK after : Builds(after, script, Len(script)) /\ Database = after[Len(script)]
  BY <1>1, BuildUnfold DEF Database
<1>3. IsDb(Database)
  <2>1. \A n \in 0 .. Len(script) : IsDb(after[n])
    BY <1>1, <1>2, BuildType
  <2> QED
    BY <1>1, <1>2, <2>1
<1>4. IsRows(input.from) /\ TableNames(input) \subseteq DOMAIN Database.tables
  BY XAssumption DEF Database, IsRows
<1>5. Reads(input, Database)
  BY <1>3, <1>4 DEF Reads, IsDb, IsTable
<1>6. Result.err = FALSE /\ IsRows(Result.rows)
  BY <1>5, AnswerRows DEF Result
<1> QED
  BY <1>6, SameAsItself

\* What rmtbcol writes.
LEMMA CutResult ==
    ASSUME script \in Scripts, input \in Statements, Reducible, NEW cut, Cuts(cut, Len(script))
    PROVE  /\ ~InitDBWithDDL(cut[Len(script)]).failed
           /\ CMP(ExecX(input, InitDBWithDDL(cut[Len(script)])), Result) = 0
<1> DEFINE cutDb == InitDBWithDDL(cut[Len(script)])
<1>1. Related(Database, cutDb, Len(script) + 1)
  BY ScriptsRelated
<1> HIDE DEF cutDb
<1>2. Reads(input, Database) /\ AnswersAlike(input, Database, cutDb)
  <2>1. \E n : n = Len(script) + 1
    OBVIOUS
  <2> QED
    BY <1>1, <2>1, RelatedAlike
<1>3. ExecX(input, cutDb) = Result
  BY <1>2, AlikeAnswered DEF Result
<1>4. ~cutDb.failed
  BY <1>1 DEF Related
<1> QED
  BY <1>3, <1>4, OwnResult DEF cutDb

\* It starts with the statement itself.
LEMMA XInitial == xInit => XInvariant
<1> SUFFICES ASSUME xInit
             PROVE  XInvariant
  OBVIOUS
<1>1. script \in Scripts /\ input \in Statements /\ dml = input /\ tree = input /\ sqlsimx = "running"
  BY DEF xInit
<1>2. ResultKept(dml) /\ ResultKept(tree)
  <2>1. ExecX(input, Database) = Result
    BY DEF Result
  <2>2. ResultKept(input)
    BY <1>1, <2>1, OwnResult DEF ResultKept
  <2> QED
    BY <1>1, <2>2
<1> QED
  BY <1>1, <1>2 DEF XInvariant, SameResult

\* An operand is replaced only if the result allows it.
LEMMA TriedKept ==
    ASSUME NEW sql, ResultKept(sql), NEW p, NEW k
    PROVE  ResultKept(TryOperand(sql, p, k))
<1> DEFINE with(i) == [sql EXCEPT !.where = Put(@, p \o <<k>>, i)]
<1>1. \/ TryOperand(sql, p, k) = sql
      \/ \E i \in {0, 1} : TryOperand(sql, p, k) = with(i) /\ ResultKept(with(i))
  BY DEF TryOperand
<1> QED
  BY <1>1

\* And stays.
LEMMA XStep == XInvariant /\ [xNext]_xVars => XInvariant'
<1> SUFFICES ASSUME XInvariant, [xNext]_xVars
             PROVE  XInvariant'
  OBVIOUS
<1> USE DEF XInvariant
<1>1. ASSUME UNCHANGED <<script, input, opt, sqlsimx, dml, newDDLs>>,
             Current("rmBinOp01")' => ResultKept(tree)'
      PROVE  XInvariant'
  <2>1. Result' = Result /\ Reducible' = Reducible
    BY <1>1 DEF Result, Database, Reducible, KeysOf, Creates, TableNames, ColumnNames, ColumnsNamed
  <2>2. ResultKept(dml)' = ResultKept(dml)
    BY <1>1, <2>1 DEF ResultKept, Database
  <2>3. SameResult'
    BY <1>1, <2>1, <2>2 DEF SameResult
  <2> QED
    BY <1>1, <2>2, <2>3
<1>2. CASE EnterBinaryOperation
  <2>1. UNCHANGED <<script, input, opt, sqlsimx, funcs, dml, newDDLs>> /\ Current("rmBinOp01")
    BY <1>2 DEF EnterBinaryOperation
  <2>2. ResultKept(tree)
    BY <2>1 DEF SameResult
  <2>3. \/ tree' = tree
        \/ \E p : tree' = TryOperand(TryOperand(tree, p, 1), p, 2)
    BY <1>2 DEF EnterBinaryOperation
  <2>4. ResultKept(tree')
    BY <2>2, <2>3, TriedKept
  <2>5. ResultKept(tree)'
    BY <2>1, <2>4 DEF ResultKept, Result, Database
  <2> QED
    BY <1>1, <2>1, <2>5
<1>3. CASE EnterFieldList
  <2>1. UNCHANGED <<script, input, opt, sqlsimx, funcs, dml, newDDLs>> /\ Current("rmFields")
    BY <1>3 DEF EnterFieldList
  <2>2. ~Current("rmBinOp01")'
    BY <2>1 DEF Current
  <2> QED
    BY <1>1, <2>1, <2>2
<1>4. CASE EndFunction
  <2>1. /\ UNCHANGED <<script, input, opt, sqlsimx, newDDLs>>
        /\ dml' = (IF ResultKept(tree) THEN tree ELSE dml) /\ tree' = dml'
    BY <1>4 DEF EndFunction
  <2>2. ResultKept(dml') /\ ResultKept(tree')
    BY <2>1
  <2>3. ResultKept(dml)' /\ ResultKept(tree)'
    BY <2>1, <2>2 DEF ResultKept, Result, Database
  <2>4. Result' = Result /\ Reducible' = Reducible
    BY <2>1 DEF Result, Database, Reducible, KeysOf, Creates, TableNames, ColumnNames, ColumnsNamed
  <2>5. SameResult'
    BY <2>1, <2>3, <2>4 DEF SameResult
  <2> QED
    BY <2>1, <2>3, <2>5
<1>5. CASE WriteDml
  <2>1. UNCHANGED <<script, input, dml>> /\ opt' = "dml" /\ funcs' = <<>>
    BY <1>5 DEF WriteDml
  <2>2. ResultKept(dml)'
    BY <2>1 DEF ResultKept, Result, Database
  <2> QED
    BY <2>1, <2>2 DEF SameResult, Current
<1>6. CASE rmtbcol
  <2>1. UNCHANGED <<script, input, opt, dml, funcs, tree>> /\ opt = "ddl"
    BY <1>6 DEF rmtbcol
  <2>2. ResultKept(dml)' /\ (Current("rmBinOp01")' => ResultKept(tree)')
    BY <2>1 DEF ResultKept, Result, Database, SameResult, Current
  <2>3. CASE sqlsimx' = "panic"
    BY <2>1, <2>2, <2>3 DEF SameResult
  <2>4. CASE sqlsimx' # "panic"
    <3> DEFINE N == Len(script)
               R == CHOOSE cut : Cuts(cut, N)
    <3>1. newDDLs' = R[N]
      BY <1>6, <2>4 DEF rmtbcol, Cuts
    <3>2. N \in Nat
      BY ScriptFacts
    <3>3. Cuts(R, N)
      BY <3>2, CutExists
    <3> HIDE DEF R
    <3>4. Reducible => /\ ~InitDBWithDDL(R[N]).failed
                       /\ CMP(ExecX(input, InitDBWithDDL(R[N])), Result) = 0
      BY <3>3, CutResult
    <3> HIDE DEF N
    <3>5. Reducible => /\ ~InitDBWithDDL(newDDLs').failed
                       /\ CMP(ExecX(input, InitDBWithDDL(newDDLs')), Result) = 0
      BY <3>1, <3>4
    <3>6. Reducible' = Reducible /\ Result' = Result
      BY <2>1 DEF Result, Database, Reducible, KeysOf, Creates, TableNames, ColumnNames, ColumnsNamed
    <3>7. SameResult'
      BY <2>1, <2>2, <3>5, <3>6 DEF SameResult
    <3> QED
      BY <2>1, <2>2, <3>7
  <2> QED
    BY <2>3, <2>4
<1>7. CASE UNCHANGED xVars
  <2>1. Current("rmBinOp01")' => ResultKept(tree)'
    BY <1>7 DEF xVars, SameResult, Current, ResultKept, Result, Database
  <2> QED
    BY <1>1, <1>7, <2>1 DEF xVars
<1> QED
  BY <1>2, <1>3, <1>4, <1>5, <1>6, <1>7 DEF xNext

(* For every script, statement and list of functions: the operands that    *)
(* rmBinOp01 replaces one after the other keep the result together         *)
(* (rmbinop01.go:66-102), and what sqlsimx writes has the result of what   *)
(* it was given (sqlsimx.go:17-18): the simplified statement on the same   *)
(* database, and the same statement on the database of the script that     *)
(* rmtbcol cuts down, whatever tables, columns, keys and statements go, as *)
(* far as the script is one that can be cut (Reducible).                   *)
THEOREM SimplifiedSameResult == xSpec => []SameResult
<1>1. XInvariant => SameResult
  BY DEF XInvariant
<1> QED
  BY XInitial, XStep, <1>1, PTL DEF xSpec
=============================================================================
