-------------------------- MODULE ResultCMPProofs --------------------------
(***************************************************************************)
(* Result.CMP compares any two results as bags of rows, and of numbers     *)
(* however they are spelled; a file is cut into its statements; the        *)
(* detector of false positives, which uses CMP, counts the rounds whose    *)
(* results contradict the mutation.                                        *)
(***************************************************************************)
EXTENDS Numerals, ExtractSQL, FalsePositive, FiniteSetTheorems, SequenceTheorems, TLAPS

-----------------------------------------------------------------------------
(* Counting.                                                               *)

\* A count is a natural number.
LEMMA OccNat ==
    ASSUME NEW s, NEW n \in Nat, NEW x
    PROVE  Occ(s, n, x) \in Nat
<1>1. IsFiniteSet(1 .. n)
  BY FS_Interval
<1>2. IsFiniteSet({j \in 1 .. n : s[j] = x})
  BY <1>1, FS_Subset
<1> QED
  BY <1>2, FS_CardinalityType DEF Occ

\* Nothing occurs among no elements.
LEMMA OccZero ==
    ASSUME NEW s, NEW x
    PROVE  Occ(s, 0, x) = 0
<1>1. {j \in 1 .. 0 : s[j] = x} = {}
  OBVIOUS
<1> QED
  BY <1>1, FS_EmptySet DEF Occ

\* The next element adds one to its own count and nothing to the others.
LEMMA OccNext ==
    ASSUME NEW s, NEW n \in Nat, NEW x
    PROVE  Occ(s, n + 1, x) = Occ(s, n, x) + (IF s[n + 1] = x THEN 1 ELSE 0)
<1> DEFINE Upto(m) == {j \in 1 .. m : s[j] = x}
<1>1. IsFiniteSet(Upto(n))
  <2>1. IsFiniteSet(1 .. n)
    BY FS_Interval
  <2> QED
    BY <2>1, FS_Subset
<1>2. n + 1 \notin Upto(n)
  OBVIOUS
<1>3. CASE s[n + 1] = x
  <2>1. Upto(n + 1) = Upto(n) \cup {n + 1}
    BY <1>3
  <2>2. Cardinality(Upto(n + 1)) = Cardinality(Upto(n)) + 1
    BY <1>1, <1>2, <2>1, FS_AddElement
  <2> QED
    BY <1>3, <2>2 DEF Occ
<1>4. CASE s[n + 1] # x
  <2>1. Upto(n + 1) = Upto(n)
    BY <1>4
  <2>2. Cardinality(Upto(n)) \in Nat
    BY <1>1, FS_CardinalityType
  <2> QED
    BY <1>4, <2>1, <2>2 DEF Occ
<1> QED
  BY <1>3, <1>4

\* What is among the elements has been counted.
LEMMA OccPositive ==
    ASSUME NEW s, NEW n \in Nat, NEW j \in 1 .. n
    PROVE  Occ(s, n, s[j]) > 0
<1> DEFINE Here == {k \in 1 .. n : s[k] = s[j]}
<1>1. IsFiniteSet(Here)
  <2>1. IsFiniteSet(1 .. n)
    BY FS_Interval
  <2> QED
    BY <2>1, FS_Subset
<1>2. Here # {}
  OBVIOUS
<1>3. Cardinality(Here) \in Nat /\ Cardinality(Here) # 0
  BY <1>1, <1>2, FS_CardinalityType, FS_EmptySet
<1> QED
  BY <1>3 DEF Occ

\* The texts of a result are a sequence of texts, one for every row.
LEMMA FlatRowsType ==
    ASSUME NEW results \in Connectors, NEW r \in results
    PROVE  /\ FlatRows(r) \in Seq(Texts)
           /\ Len(FlatRows(r)) = Len(r.rows)
           /\ Len(FlatRows(r)) \in Nat
           /\ \A j \in 1 .. Len(FlatRows(r)) : FlatRows(r)[j] \in Texts
<1>1. r.rows \in Seq(Rows)
  BY ConnectorsAssumption DEF ResultSet
<1>2. \A j \in 1 .. Len(r.rows) : FlatOf[r.rows[j]] \in Texts
  BY <1>1 DEF Texts
<1>3. Len(r.rows) \in Nat
  BY <1>1
<1>4. FlatRows(r) \in [1 .. Len(r.rows) -> Texts]
  BY <1>2 DEF FlatRows
<1> QED
  BY <1>3, <1>4

\* An empty side compares as the bag without elements.
LEMMA EmptySides ==
    ASSUME NEW s \in Seq(Texts), NEW t \in Seq(Texts)
    PROVE  /\ Len(s) = 0 => Contained(s, t)
           /\ Len(s) = 0 /\ Len(t) # 0 => ~Contained(t, s)
<1>1. Len(t) \in Nat
  OBVIOUS
<1>2. ASSUME NEW x, Len(s) = 0
      PROVE  Occurrences(s, x) = 0
  BY <1>2, OccZero DEF Occurrences
<1>3. ASSUME NEW x
      PROVE  Occurrences(t, x) \in Nat
  BY <1>1, OccNat DEF Occurrences
<1>4. ASSUME Len(s) = 0
      PROVE  Contained(s, t)
  <2>1. ASSUME NEW x \in Texts
        PROVE  Occurrences(s, x) <= Occurrences(t, x)
    BY <1>2, <1>3, <1>4
  <2> QED
    BY <2>1 DEF Contained
<1>5. ASSUME Len(s) = 0, Len(t) # 0
      PROVE  ~Contained(t, s)
  <2>1. 1 \in 1 .. Len(t)
    BY <1>1, <1>5
  <2>2. t[1] \in Texts
    BY <1>5
  <2>3. Occurrences(t, t[1]) > 0
    BY <1>1, <2>1, OccPositive DEF Occurrences
  <2>4. Occurrences(s, t[1]) = 0
    BY <1>2, <1>5
  <2>5. ~(Occurrences(t, t[1]) <= Occurrences(s, t[1]))
    BY <1>3, <2>3, <2>4
  <2> QED
    BY <2>2, <2>5 DEF Contained
<1> QED
  BY <1>4, <1>5

-----------------------------------------------------------------------------
(* The invariant.                                                          *)

CMPInv == MapIsRemainder /\ CMPIsContainment

\* Nothing is counted in the initial states.
LEMMA InitCMPInv == Init => CMPInv
<1> SUFFICES ASSUME Init PROVE CMPInv
  OBVIOUS
<1>1. TypeOK
  BY DEF Init, TypeOK
<1>2. Starting
  BY DEF Init, Starting
<1>3. Counting /\ Consuming /\ CMPIsContainment
  BY DEF Init, Counting, Consuming, CMPIsContainment
<1> QED
  BY <1>1, <1>2, <1>3 DEF CMPInv, MapIsRemainder

\* The iterations of both loops keep the map.
LEMMA NextCMPInv == CMPInv /\ [Next]_vars => CMPInv'
<1> SUFFICES ASSUME CMPInv, [Next]_vars
             PROVE  CMPInv'
  OBVIOUS
<1> USE DEF CMPInv, MapIsRemainder
<1>t. TypeOK /\ Starting /\ Counting /\ Consuming /\ CMPIsContainment
  OBVIOUS
<1>r. PICK results \in Connectors : this \in results /\ another \in results
  BY <1>t DEF TypeOK
<1>s. /\ res1 \in Seq(Texts) /\ Len(res1) \in Nat /\ Len(res1) = Len(this.rows)
      /\ res2 \in Seq(Texts) /\ Len(res2) \in Nat /\ Len(res2) = Len(another.rows)
      /\ \A j \in 1 .. Len(res1) : res1[j] \in Texts
      /\ \A j \in 1 .. Len(res2) : res2[j] \in Texts
  BY <1>r, FlatRowsType DEF res1, res2
<1>q. /\ this.rows \in Seq(Rows) /\ another.rows \in Seq(Rows)
      /\ this.err \in BOOLEAN /\ another.err \in BOOLEAN
  BY <1>r, ConnectorsAssumption DEF ResultSet
<1>1. ASSUME NEW v \in {-2, -1, 0, 1, 2}, Return(v), v = CMP(this, another)
      PROVE  CMPInv'
  <2>1. TypeOK'
    BY <1>1, <1>t DEF Return, TypeOK, NotYet
  <2>2. (Starting /\ Counting /\ Consuming)'
    BY <1>1 DEF Return, Starting, Counting, Consuming
  <2>3. CMPIsContainment'
    BY <1>1 DEF Return, CMPIsContainment
  <2> QED
    BY <2>1, <2>2, <2>3
<1>2. CASE ReturnError
  <2>1. CMP(this, another) = -2
    BY <1>2 DEF ReturnError, CMP
  <2> QED
    BY <1>1, <1>2, <2>1 DEF ReturnError
<1>3. CASE ReturnEmpty
  <2>1. CMP(this, another) = BagOrder(res1, res2)
    BY <1>3 DEF ReturnEmpty, CMP, res1, res2
  <2>2. ASSUME IsEmpty(this), IsEmpty(another)
        PROVE  CMP(this, another) = 0
    <3>1. Len(res1) = 0 /\ Len(res2) = 0
      BY <1>3, <1>r, <1>s, <2>2, ConnectorsAssumption DEF ReturnEmpty
    <3> QED
      BY <1>s, <2>1, <3>1, EmptySides DEF BagOrder
  <2>3. ASSUME IsEmpty(this), ~IsEmpty(another)
        PROVE  CMP(this, another) = -1
    <3>1. this.rows = <<>> /\ another.rows # <<>>
      BY <1>3, <1>r, <2>3, ConnectorsAssumption DEF ReturnEmpty
    <3>2. Len(res1) = 0 /\ Len(res2) # 0
      BY <1>q, <1>s, <3>1
    <3>3. Contained(res1, res2) /\ ~Contained(res2, res1)
      BY <1>s, <3>2, EmptySides
    <3> QED
      BY <2>1, <3>3 DEF BagOrder
  <2>4. ASSUME ~IsEmpty(this), IsEmpty(another)
        PROVE  CMP(this, another) = 1
    <3>1. another.rows = <<>> /\ this.rows # <<>>
      BY <1>3, <1>r, <2>4, ConnectorsAssumption DEF ReturnEmpty
    <3>2. Len(res2) = 0 /\ Len(res1) # 0
      BY <1>q, <1>s, <3>1
    <3>3. Contained(res2, res1) /\ ~Contained(res1, res2)
      BY <1>s, <3>2, EmptySides
    <3> QED
      BY <2>1, <3>3 DEF BagOrder
  <2> QED
    BY <1>1, <1>3, <2>2, <2>3, <2>4 DEF ReturnEmpty
<1>4. CASE ReturnColumns
  <2>1. CMP(this, another) = 2
    BY <1>4 DEF ReturnColumns, Comparable, CMP
  <2> QED
    BY <1>1, <1>4, <2>1 DEF ReturnColumns
<1>5. CASE StartCount
  <2>1. TypeOK'
    BY <1>5, <1>t DEF StartCount, TypeOK
  <2>2. Starting' /\ Consuming' /\ CMPIsContainment'
    BY <1>5 DEF StartCount, Starting, Consuming, CMPIsContainment
  <2>3. Counting'
    <3>1. i = 0 /\ DOMAIN mp = {} /\ allInAnother
      BY <1>5, <1>t DEF StartCount, Starting
    <3>2. {x \in Texts : Occ(res2, 0, x) > 0} = {}
      BY OccZero
    <3> QED
      BY <1>5, <1>s, <3>1, <3>2 DEF StartCount, Counting, Comparable, res1, res2
  <2> QED
    BY <2>1, <2>2, <2>3
<1>6. CASE CountRow
  <2> DEFINE y == res2[i + 1]
  <2>1. TypeOK'
    BY <1>6, <1>t DEF CountRow, TypeOK
  <2>2. Starting' /\ Consuming' /\ CMPIsContainment'
    BY <1>6 DEF CountRow, Starting, Consuming, CMPIsContainment
  <2>3. /\ i \in Nat /\ i + 1 \in 0 .. Len(res2) /\ y \in Texts
        /\ DOMAIN mp = {x \in Texts : Occ(res2, i, x) > 0}
        /\ \A x \in DOMAIN mp : mp[x] = Occ(res2, i, x)
        /\ Comparable /\ this.cols = another.cols /\ allInAnother
    BY <1>6, <1>t, <1>s DEF CountRow, Counting
  <2>4. \A x : Occ(res2, i, x) \in Nat
    BY <2>3, OccNat
  <2>5. \A x : Occ(res2, i + 1, x) = Occ(res2, i, x) + (IF y = x THEN 1 ELSE 0)
    BY <2>3, OccNext
  <2>6. mp' = Put(mp, y, IF y \in DOMAIN mp THEN mp[y] + 1 ELSE 1)
    BY <1>6 DEF CountRow
  <2> HIDE DEF y
  <2>7. DOMAIN mp' = {x \in Texts : Occ(res2, i + 1, x) > 0}
    <3>1. DOMAIN mp' = DOMAIN mp \cup {y}
      BY <2>6 DEF Put
    <3> QED
      BY <2>3, <2>4, <2>5, <3>1
  <2>8. \A x \in DOMAIN mp' : mp'[x] = Occ(res2, i + 1, x)
    <3> SUFFICES ASSUME NEW x \in DOMAIN mp' PROVE mp'[x] = Occ(res2, i + 1, x)
      OBVIOUS
    <3>1. CASE x = y
      <4>1. mp'[x] = IF y \in DOMAIN mp THEN mp[y] + 1 ELSE 1
        BY <2>6, <3>1 DEF Put
      <4>2. y \notin DOMAIN mp => Occ(res2, i, y) = 0
        BY <2>3, <2>4
      <4> QED
        BY <2>3, <2>4, <2>5, <3>1, <4>1, <4>2
    <3>2. CASE x # y
      <4>1. x \in DOMAIN mp /\ mp'[x] = mp[x]
        BY <2>6, <3>2 DEF Put
      <4> QED
        BY <2>3, <2>4, <2>5, <3>2, <4>1
    <3> QED
      BY <3>1, <3>2
  <2>9. Counting'
    <3>1. i' = i + 1 /\ res2' = res2 /\ this' = this /\ another' = another /\ allInAnother' = allInAnother
      BY <1>6 DEF CountRow, res2
    <3> QED
      BY <2>3, <2>7, <2>8, <3>1 DEF Counting, Comparable
  <2> QED
    BY <2>1, <2>2, <2>9
<1>7. CASE StartConsume
  <2>1. TypeOK'
    BY <1>7, <1>t DEF StartConsume, TypeOK
  <2>2. Starting' /\ Counting' /\ CMPIsContainment'
    BY <1>7 DEF StartConsume, Starting, Counting, CMPIsContainment
  <2>3. Consuming'
    <3>1. /\ DOMAIN mp = {x \in Texts : Occurrences(res2, x) > 0}
          /\ \A x \in DOMAIN mp : mp[x] = Occurrences(res2, x)
          /\ Comparable /\ this.cols = another.cols /\ allInAnother
      BY <1>7, <1>t DEF StartConsume, Counting, Occurrences
    <3>2. \A x : Occ(res1, 0, x) = 0
      BY OccZero
    <3>3. \A x : Occurrences(res2, x) \in Nat
      BY <1>s, OccNat DEF Occurrences
    <3>4. /\ i' = 0 /\ res1' = res1 /\ res2' = res2 /\ mp' = mp
          /\ this' = this /\ another' = another /\ allInAnother' = allInAnother
      BY <1>7 DEF StartConsume, res1, res2
    <3>5. /\ DOMAIN mp = {x \in Texts : Occurrences(res2, x) > Occ(res1, 0, x)}
          /\ \A x \in DOMAIN mp : mp[x] = Occurrences(res2, x) - Occ(res1, 0, x)
          /\ \A x \in Texts : Occ(res1, 0, x) <= Occurrences(res2, x)
      BY <3>1, <3>2, <3>3
    <3>6. 0 \in 0 .. Len(res1)
      BY <1>s
    <3>7. (DOMAIN mp = {x \in Texts : Occurrences(res2, x) > Occ(res1, i, x)})'
      BY <3>4, <3>5 DEF Occurrences
    <3>8. (\A x \in DOMAIN mp : mp[x] = Occurrences(res2, x) - Occ(res1, i, x))'
      BY <3>4, <3>5 DEF Occurrences
    <3>9. (\A x \in Texts : Occ(res1, i, x) <= Occurrences(res2, x))'
      BY <3>4, <3>5 DEF Occurrences
    <3> QED
      BY <3>1, <3>4, <3>6, <3>7, <3>8, <3>9 DEF Consuming, Comparable
  <2> QED
    BY <2>1, <2>2, <2>3
<1>8. CASE ConsumeRow
  <2> DEFINE y == res1[i + 1]
             c1(x) == Occ(res1, i, x)
             c2(x) == Occurrences(res2, x)
             d1(x) == Occ(res1, i + 1, x)
  <2>1. TypeOK'
    BY <1>8, <1>t DEF ConsumeRow, TypeOK
  <2>2. Starting' /\ Counting' /\ CMPIsContainment'
    BY <1>8 DEF ConsumeRow, Starting, Counting, CMPIsContainment
  <2>3. /\ i \in Nat /\ i + 1 \in 0 .. Len(res1) /\ y \in Texts
        /\ DOMAIN mp = {x \in Texts : c2(x) > c1(x)}
        /\ \A x \in DOMAIN mp : mp[x] = c2(x) - c1(x)
        /\ allInAnother <=> \A x \in Texts : c1(x) <= c2(x)
        /\ Comparable /\ this.cols = another.cols
    BY <1>8, <1>t, <1>s DEF ConsumeRow, Consuming
  <2>4. \A x : c1(x) \in Nat /\ c2(x) \in Nat
    BY <1>s, <2>3, OccNat DEF Occurrences
  <2>5. \A x : d1(x) = c1(x) + (IF y = x THEN 1 ELSE 0)
    BY <2>3, OccNext
  <2>6. IF y \in DOMAIN mp
          THEN /\ mp' = IF mp[y] <= 1 THEN Delete(mp, y) ELSE Put(mp, y, mp[y] - 1)
               /\ allInAnother' = allInAnother
          ELSE /\ allInAnother' = FALSE
               /\ mp' = mp
    BY <1>8 DEF ConsumeRow
  <2>7. /\ i' = i + 1 /\ res1' = res1 /\ res2' = res2
        /\ this' = this /\ another' = another
    BY <1>8 DEF ConsumeRow, res1, res2
  <2> HIDE DEF y, c1, c2, d1
  <2>8. /\ DOMAIN mp' = {x \in Texts : c2(x) > d1(x)}
        /\ \A x \in DOMAIN mp' : mp'[x] = c2(x) - d1(x)
    <3>1. CASE y \in DOMAIN mp /\ mp[y] <= 1
      <4>1. mp' = Delete(mp, y)
        BY <2>6, <3>1
      <4>2. DOMAIN mp' = DOMAIN mp \ {y} /\ \A x \in DOMAIN mp' : mp'[x] = mp[x]
        BY <4>1 DEF Delete
      <4>3. c2(y) = c1(y) + 1
        BY <2>3, <2>4, <3>1
      <4> QED
        BY <2>3, <2>4, <2>5, <4>2, <4>3
    <3>2. CASE y \in DOMAIN mp /\ ~(mp[y] <= 1)
      <4>1. mp' = Put(mp, y, mp[y] - 1)
        BY <2>6, <3>2
      <4>2. /\ DOMAIN mp' = DOMAIN mp
            /\ \A x \in DOMAIN mp' : mp'[x] = IF x = y THEN mp[y] - 1 ELSE mp[x]
        BY <3>2, <4>1 DEF Put
      <4>3. c2(y) > c1(y) + 1 /\ mp[y] = c2(y) - c1(y)
        BY <2>3, <2>4, <3>2
      <4> QED
        <5>1. \A x \in Texts : c2(x) > c1(x) <=> c2(x) > d1(x)
          BY <2>4, <2>5, <4>3
        <5>2. \A x \in DOMAIN mp : mp'[x] = c2(x) - d1(x)
          BY <2>3, <2>4, <2>5, <4>2, <4>3
        <5> QED
          BY <2>3, <4>2, <5>1, <5>2
    <3>3. CASE y \notin DOMAIN mp
      <4>1. mp' = mp
        BY <2>6, <3>3
      <4>2. ~(c2(y) > c1(y))
        BY <2>3, <3>3
      <4> QED
        <5>1. \A x \in Texts : c2(x) > c1(x) <=> c2(x) > d1(x)
          BY <2>4, <2>5, <4>2
        <5>2. \A x \in DOMAIN mp : d1(x) = c1(x)
          BY <2>3, <2>4, <2>5, <3>3
        <5> QED
          BY <2>3, <4>1, <5>1, <5>2
    <3> QED
      BY <3>1, <3>2, <3>3
  <2>9. allInAnother' <=> \A x \in Texts : d1(x) <= c2(x)
    <3>1. CASE y \in DOMAIN mp
      <4>1. allInAnother' = allInAnother
        BY <2>6, <3>1
      <4>2. c2(y) > c1(y)
        BY <2>3, <3>1
      <4>3. \A x \in Texts : d1(x) <= c2(x) <=> c1(x) <= c2(x)
        BY <2>4, <2>5, <4>2
      <4> QED
        BY <2>3, <4>1, <4>3
    <3>2. CASE y \notin DOMAIN mp
      <4>1. allInAnother' = FALSE
        BY <2>6, <3>2
      <4>2. ~(c2(y) > c1(y))
        BY <2>3, <3>2
      <4>3. ~(d1(y) <= c2(y))
        BY <2>4, <2>5, <4>2
      <4> QED
        BY <2>3, <4>1, <4>3
    <3> QED
      BY <3>1, <3>2
  <2>10. Consuming'
    <3> USE DEF c1, c2, d1
    <3>1. (DOMAIN mp = {x \in Texts : Occurrences(res2, x) > Occ(res1, i, x)})'
      BY <2>7, <2>8 DEF Occurrences
    <3>2. (\A x \in DOMAIN mp : mp[x] = Occurrences(res2, x) - Occ(res1, i, x))'
      BY <2>7, <2>8 DEF Occurrences
    <3>3. (allInAnother <=> \A x \in Texts : Occ(res1, i, x) <= Occurrences(res2, x))'
      BY <2>7, <2>9 DEF Occurrences
    <3>4. (i \in 0 .. Len(res1))'
      BY <2>3, <2>7
    <3>5. (Comparable /\ this.cols = another.cols)'
      BY <2>3, <2>7 DEF Comparable
    <3> QED
      BY <3>1, <3>2, <3>3, <3>4, <3>5 DEF Consuming
  <2> QED
    BY <2>1, <2>2, <2>10
<1>9. CASE ReturnOrder
  <2>1. /\ Comparable /\ this.cols = another.cols
        /\ DOMAIN mp = {x \in Texts : Occurrences(res2, x) > Occurrences(res1, x)}
        /\ allInAnother <=> \A x \in Texts : Occurrences(res1, x) <= Occurrences(res2, x)
    BY <1>9, <1>t DEF ReturnOrder, Consuming, Occurrences
  <2>2. CMP(this, another) = BagOrder(res1, res2)
    BY <2>1 DEF Comparable, CMP, res1, res2
  <2>3. \A x : Occurrences(res1, x) \in Nat /\ Occurrences(res2, x) \in Nat
    BY <1>s, OccNat DEF Occurrences
  <2>4. allInAnother <=> Contained(res1, res2)
    BY <2>1 DEF Contained
  <2>5. DOMAIN mp = {} <=> Contained(res2, res1)
    <3>1. \A x \in Texts : ~(Occurrences(res2, x) > Occurrences(res1, x))
                              <=> Occurrences(res2, x) <= Occurrences(res1, x)
      BY <2>3
    <3> QED
      BY <2>1, <3>1 DEF Contained
  <2>6. CMP(this, another) = IF allInAnother
                               THEN IF DOMAIN mp = {} THEN 0 ELSE -1
                               ELSE IF DOMAIN mp = {} THEN 1 ELSE 2
    BY <2>2, <2>4, <2>5 DEF BagOrder
  <2> QED
    BY <1>1, <1>9, <2>6 DEF ReturnOrder
<1>10. CASE UNCHANGED vars
  <2>1. TypeOK'
    BY <1>10, <1>t DEF vars, TypeOK
  <2>2. Starting'
    BY <1>10, <1>t DEF vars, Starting
  <2>3. Counting'
    BY <1>10, <1>t DEF vars, Counting, Comparable, res2, Occurrences
  <2>4. Consuming'
    BY <1>10, <1>t DEF vars, Consuming, Comparable, res1, res2, Occurrences
  <2>5. CMPIsContainment'
    BY <1>10, <1>t DEF vars, CMPIsContainment
  <2> QED
    BY <2>1, <2>2, <2>3, <2>4, <2>5
<1> QED
  BY <1>2, <1>3, <1>4, <1>5, <1>6, <1>7, <1>8, <1>9, <1>10 DEF Next

(* Between the iterations of CMP's two loops (result.go:232-253), the map  *)
(* holds what the rows of the first result looked at so far leave of the   *)
(* second, for results of any size.                                        *)
THEOREM CMPLoops == Spec => []MapIsRemainder
<1>1. CMPInv => MapIsRemainder
  BY DEF CMPInv
<1> QED
  BY <1>1, InitCMPInv, NextCMPInv, PTL DEF Spec

(* CMP returns how any two results compare as bags of row texts            *)
(* (result.go:194-264).                                                    *)
THEOREM CMPCorrect == Spec => []CMPIsContainment
<1>1. CMPInv => CMPIsContainment
  BY DEF CMPInv
<1> QED
  BY <1>1, InitCMPInv, NextCMPInv, PTL DEF Spec

-----------------------------------------------------------------------------
(* The texts of numbers.                                                   *)

(* Every set of natural numbers that is not empty has a least element. *)
LEMMA LeastNumber ==
    ASSUME NEW T \in SUBSET Nat, T # {}
    PROVE  \E x \in T : \A y \in T : x <= y
<1>1. IsWellFoundedOn(OpToRel(<, Nat), Nat)
  BY NatLessThanWellFounded
<1>2. PICK x \in T : \A y \in T : <<y, x>> \notin OpToRel(<, Nat)
  BY <1>1, WFMin
<1>3. ASSUME NEW y \in T PROVE x <= y
  <2>1. x \in Nat /\ y \in Nat
    OBVIOUS
  <2>2. y < x => <<y, x>> \in OpToRel(<, Nat)
    BY <2>1 DEF OpToRel
  <2>3. ~(y < x)
    BY <1>2, <2>2
  <2>4. QED BY <2>1, <2>3
<1>4. QED BY <1>3

(* Induction, for a set in place of a predicate. *)
LEMMA Induction ==
    ASSUME NEW S, 0 \in S, \A n \in Nat : n \in S => n + 1 \in S
    PROVE  Nat \subseteq S
<1>1. SUFFICES ASSUME Nat \ S # {} PROVE FALSE
  OBVIOUS
<1>2. PICK x \in Nat \ S : \A y \in Nat \ S : x <= y
  BY <1>1, LeastNumber
<1>3. x \in Nat /\ x # 0
  BY <1>2
<1>4. x - 1 \in Nat /\ (x - 1) + 1 = x /\ x - 1 \in S
  BY <1>2, <1>3
<1>5. QED BY <1>2, <1>4

(* The last nonzero digit. *)
LEMMA LastNonzeroType ==
    ASSUME NEW ds \in Seq(Digits)
    PROVE  /\ LastNonzero(ds) \in 0 .. Len(ds)
           /\ LastNonzero(ds) # 0 => ds[LastNonzero(ds)] # 0
           /\ \A j \in LastNonzero(ds) + 1 .. Len(ds) : ds[j] = 0
<1> DEFINE S == {0} \cup {j \in DOMAIN ds : ds[j] # 0}
           T == {Len(ds) - j : j \in S}
<1>1. Len(ds) \in Nat /\ DOMAIN ds = 1 .. Len(ds)
  OBVIOUS
<1>2. S \subseteq 0 .. Len(ds) /\ 0 \in S
  BY <1>1
<1>3. T \subseteq Nat /\ T # {}
  BY <1>1, <1>2
<1>4. PICK x \in T : \A y \in T : x <= y
  BY <1>3, LeastNumber
<1>5. PICK m \in S : x = Len(ds) - m
  OBVIOUS
<1>6. \A j \in S : m >= j
  <2> TAKE j \in S
  <2>1. Len(ds) - m <= Len(ds) - j
    BY <1>4, <1>5
  <2>2. QED BY <1>1, <1>2, <1>5, <2>1
<1>7. LastNonzero(ds) \in S /\ \A j \in S : LastNonzero(ds) >= j
  BY <1>5, <1>6 DEF LastNonzero, Max
<1>8. QED BY <1>1, <1>2, <1>7

(* The first nonzero digit, or the last digit. *)
LEMMA FirstNonzeroType ==
    ASSUME NEW ds \in Seq(Digits), Len(ds) >= 1
    PROVE  /\ FirstNonzero(ds) \in 1 .. Len(ds)
           /\ FirstNonzero(ds) # Len(ds) => ds[FirstNonzero(ds)] # 0
           /\ \A j \in 1 .. FirstNonzero(ds) - 1 : ds[j] = 0
<1> DEFINE S == {Len(ds)} \cup {j \in DOMAIN ds : ds[j] # 0}
<1>1. Len(ds) \in Nat /\ DOMAIN ds = 1 .. Len(ds)
  OBVIOUS
<1>2. S \subseteq 1 .. Len(ds) /\ Len(ds) \in S
  BY <1>1
<1>3. \E x \in S : \A y \in S : x <= y
  <2>1. S \in SUBSET Nat /\ S # {}
    BY <1>1, <1>2
  <2>2. QED BY <2>1, LeastNumber
<1>4. FirstNonzero(ds) \in S /\ \A j \in S : FirstNonzero(ds) <= j
  BY <1>3 DEF FirstNonzero, Min
<1>5. QED BY <1>1, <1>2, <1>4

-----------------------------------------------------------------------------
(* The magnitude of a number determines its digits. *)

(* The recursion of Magnitude has a solution. *)
LEMMA SumsExist ==
    ASSUME NEW ds
    PROVE  \E m : m = [k \in Nat |-> IF k = 0 THEN 0 ELSE 10 * m[k - 1] + ds[k]]
<1> DEFINE Upto(n, g) == g = [k \in 0 .. n |-> IF k = 0 THEN 0 ELSE 10 * g[k - 1] + ds[k]]
           S == {n \in Nat : \E g : Upto(n, g)}
           G(n) == CHOOSE g : Upto(n, g)
           M == [k \in Nat |-> G(k)[k]]
<1>1. 0 \in S
  <2>1. Upto(0, [k \in 0 .. 0 |-> 0])
    OBVIOUS
  <2>2. QED BY <2>1
<1>2. ASSUME NEW n \in Nat, n \in S PROVE n + 1 \in S
  <2>1. PICK g : Upto(n, g)
    BY <1>2
  <2> DEFINE h == [k \in 0 .. n + 1 |-> IF k = n + 1 THEN 10 * g[n] + ds[n + 1] ELSE g[k]]
  <2> HIDE DEF h
  <2>2. DOMAIN h = 0 .. n + 1 /\ h = [k \in 0 .. n + 1 |-> h[k]]
    BY DEF h
  <2>3. \A k \in 0 .. n : h[k] = g[k]
    BY DEF h
  <2>4. \A k \in 0 .. n : g[k] = IF k = 0 THEN 0 ELSE 10 * g[k - 1] + ds[k]
    BY <2>1
  <2>5. \A k \in 0 .. n + 1 : h[k] = IF k = 0 THEN 0 ELSE 10 * h[k - 1] + ds[k]
    <3> TAKE k \in 0 .. n + 1
    <3>1. CASE k = n + 1
      <4>1. h[k] = 10 * g[n] + ds[n + 1] /\ k - 1 = n /\ n \in 0 .. n
        BY <3>1 DEF h
      <4>2. h[n] = g[n]
        BY <2>3, <4>1
      <4>3. QED BY <3>1, <4>1, <4>2
    <3>2. CASE k # n + 1
      <4>1. k \in 0 .. n
        BY <3>2
      <4>2. k # 0 => k - 1 \in 0 .. n
        BY <4>1
      <4>3. QED BY <2>3, <2>4, <4>1, <4>2
    <3>3. QED BY <3>1, <3>2
  <2>6. Upto(n + 1, h)
    BY <2>2, <2>5
  <2>7. QED BY <2>6
<1>3. Nat \subseteq S
  <2> HIDE DEF S
  <2>1. QED BY <1>1, <1>2, Induction
<1>4. \A n \in Nat : Upto(n, G(n))
  <2> TAKE n \in Nat
  <2>1. \E g : Upto(n, g)
    BY <1>3
  <2> HIDE DEF Upto
  <2>2. QED BY <2>1
<1>5. \A n \in Nat : G(n + 1)[n] = G(n)[n]
  <2> DEFINE R == {n \in Nat : \A p \in Nat : n <= p => G(p)[n] = G(n)[n]}
  <2> HIDE DEF G
  <2>1. 0 \in R
    BY <1>4
  <2>2. ASSUME NEW n \in Nat, n \in R PROVE n + 1 \in R
    <3> SUFFICES ASSUME NEW p \in Nat, n + 1 <= p PROVE G(p)[n + 1] = G(n + 1)[n + 1]
      OBVIOUS
    <3>1. G(p)[n + 1] = 10 * G(p)[n] + ds[n + 1]
      <4>1. n + 1 \in 0 .. p /\ n + 1 # 0 /\ (n + 1) - 1 = n
        OBVIOUS
      <4>2. Upto(p, G(p))
        BY <1>4
      <4>3. QED BY <4>1, <4>2
    <3>2. G(n + 1)[n + 1] = 10 * G(n + 1)[n] + ds[n + 1]
      <4>1. n + 1 \in Nat /\ n + 1 \in 0 .. n + 1 /\ n + 1 # 0 /\ (n + 1) - 1 = n
        OBVIOUS
      <4>2. Upto(n + 1, G(n + 1))
        BY <1>4, <4>1
      <4>3. QED BY <4>1, <4>2
    <3>3. G(p)[n] = G(n)[n] /\ G(n + 1)[n] = G(n)[n]
      <4>1. n <= p /\ n <= n + 1 /\ n + 1 \in Nat
        OBVIOUS
      <4>2. QED BY <2>2, <4>1
    <3>4. QED BY <3>1, <3>2, <3>3
  <2>3. Nat \subseteq R
    <3> HIDE DEF R
    <3>1. QED BY <2>1, <2>2, Induction
  <2>4. QED BY <2>3
<1>6. \A k \in Nat : M[k] = IF k = 0 THEN 0 ELSE 10 * M[k - 1] + ds[k]
  <2> TAKE k \in Nat
  <2>1. k \in 0 .. k /\ M[k] = G(k)[k]
    OBVIOUS
  <2>2. G(k)[k] = IF k = 0 THEN 0 ELSE 10 * G(k)[k - 1] + ds[k]
    <3> HIDE DEF G
    <3>1. QED BY <1>4, <2>1
  <2>3. CASE k = 0
    BY <2>1, <2>2, <2>3
  <2>4. CASE k # 0
    <3> HIDE DEF G
    <3>1. k - 1 \in Nat /\ (k - 1) + 1 = k
      BY <2>4
    <3>2. G(k)[k - 1] = G(k - 1)[k - 1]
      BY <1>5, <3>1
    <3>3. QED BY <2>1, <2>2, <2>4, <3>1, <3>2
  <2>5. QED BY <2>3, <2>4
<1>7. M = [k \in Nat |-> IF k = 0 THEN 0 ELSE 10 * M[k - 1] + ds[k]]
  <2>1. M = [k \in Nat |-> M[k]]
    OBVIOUS
  <2> HIDE DEF M
  <2>2. QED BY <1>6, <2>1
<1>8. QED BY <1>7

Sums(ds) == CHOOSE m : m = [k \in Nat |-> IF k = 0 THEN 0 ELSE 10 * m[k - 1] + ds[k]]

(* Magnitude is the last of these sums. *)
LEMMA MagnitudeIsSum ==
    ASSUME NEW ds
    PROVE  /\ Magnitude(ds) = Sums(ds)[Len(ds)]
           /\ \A k \in Nat : Sums(ds)[k] = IF k = 0 THEN 0 ELSE 10 * Sums(ds)[k - 1] + ds[k]
<1>1. Magnitude(ds) = Sums(ds)[Len(ds)]
  BY DEF Magnitude, Sums
<1>2. Sums(ds) = [k \in Nat |-> IF k = 0 THEN 0 ELSE 10 * Sums(ds)[k - 1] + ds[k]]
  <2> DEFINE Solves(m) == m = [k \in Nat |-> IF k = 0 THEN 0 ELSE 10 * m[k - 1] + ds[k]]
  <2>1. \E m : Solves(m)
    BY SumsExist
  <2>2. Sums(ds) = CHOOSE m : Solves(m)
    BY DEF Sums
  <2>3. Solves(CHOOSE m : Solves(m))
    <3> HIDE DEF Solves
    <3>1. QED BY <2>1
  <2>4. Solves(Sums(ds))
    <3> HIDE DEF Solves
    <3>1. QED BY <2>2, <2>3
  <2>5. QED BY <2>4
<1>3. QED BY <1>1, <1>2

(* A magnitude is a natural number, and zero when all digits are. *)
LEMMA MagnitudeZero ==
    ASSUME NEW ds \in Seq(Digits)
    PROVE  /\ Magnitude(ds) \in Nat
           /\ Magnitude(ds) = 0 <=> \A j \in 1 .. Len(ds) : ds[j] = 0
<1> DEFINE m == Sums(ds)
           S == {k \in Nat : k <= Len(ds) =>
                    /\ m[k] \in Nat
                    /\ m[k] = 0 <=> \A j \in 1 .. k : ds[j] = 0}
<1> HIDE DEF m
<1>1. Magnitude(ds) = m[Len(ds)] /\ \A k \in Nat : m[k] = IF k = 0 THEN 0 ELSE 10 * m[k - 1] + ds[k]
  BY MagnitudeIsSum DEF m
<1>2. Len(ds) \in Nat /\ \A j \in 1 .. Len(ds) : ds[j] \in 0 .. 9
  BY DEF Digits
<1>3. 0 \in S
  BY <1>1
<1>4. ASSUME NEW n \in Nat, n \in S PROVE n + 1 \in S
  <2> SUFFICES ASSUME n + 1 <= Len(ds)
               PROVE  m[n + 1] \in Nat /\ (m[n + 1] = 0 <=> \A j \in 1 .. n + 1 : ds[j] = 0)
    OBVIOUS
  <2>1. m[n] \in Nat /\ (m[n] = 0 <=> \A j \in 1 .. n : ds[j] = 0)
    BY <1>2, <1>4
  <2>2. m[n + 1] = 10 * m[n] + ds[n + 1] /\ ds[n + 1] \in 0 .. 9
    <3>1. n + 1 \in Nat /\ n + 1 # 0 /\ (n + 1) - 1 = n /\ n + 1 \in 1 .. Len(ds)
      BY <1>2
    <3>2. QED BY <1>1, <1>2, <3>1
  <2>3. m[n + 1] \in Nat /\ (m[n + 1] = 0 <=> m[n] = 0 /\ ds[n + 1] = 0)
    <3> DEFINE a == m[n]
               d == ds[n + 1]
               x == m[n + 1]
    <3>1. a \in Nat /\ d \in 0 .. 9 /\ x = 10 * a + d
      BY <2>1, <2>2
    <3> HIDE DEF a, d, x
    <3>2. x \in Nat /\ (x = 0 <=> a = 0 /\ d = 0)
      BY <3>1
    <3>3. QED BY <3>2 DEF a, d, x
  <2>4. (\A j \in 1 .. n + 1 : ds[j] = 0) <=> (\A j \in 1 .. n : ds[j] = 0) /\ ds[n + 1] = 0
    <3>1. 1 .. n + 1 = (1 .. n) \cup {n + 1}
      OBVIOUS
    <3>2. QED BY <3>1
  <2>5. QED BY <2>1, <2>3, <2>4
<1>5. Nat \subseteq S
  <2> HIDE DEF S
  <2>1. QED BY <1>3, <1>4, Induction
<1>6. QED BY <1>1, <1>2, <1>5

(* Two numbers of as many digits are the same when their digits are. *)
LEMMA MagnitudeSame ==
    ASSUME NEW ds \in Seq(Digits), NEW es \in Seq(Digits), Len(ds) = Len(es)
    PROVE  Magnitude(ds) = Magnitude(es) <=> ds = es
<1> DEFINE m == Sums(ds)
           q == Sums(es)
           S == {k \in Nat : k <= Len(ds) =>
                    /\ m[k] \in Nat /\ q[k] \in Nat
                    /\ m[k] = q[k] => \A j \in 1 .. k : ds[j] = es[j]}
<1> HIDE DEF m, q
<1>1. /\ Magnitude(ds) = m[Len(ds)] /\ \A k \in Nat : m[k] = IF k = 0 THEN 0 ELSE 10 * m[k - 1] + ds[k]
      /\ Magnitude(es) = q[Len(es)] /\ \A k \in Nat : q[k] = IF k = 0 THEN 0 ELSE 10 * q[k - 1] + es[k]
  BY MagnitudeIsSum DEF m, q
<1>2. /\ Len(ds) \in Nat
      /\ \A j \in 1 .. Len(ds) : ds[j] \in 0 .. 9 /\ es[j] \in 0 .. 9
  BY DEF Digits
<1>3. 0 \in S
  BY <1>1
<1>4. ASSUME NEW n \in Nat, n \in S PROVE n + 1 \in S
  <2> SUFFICES ASSUME n + 1 <= Len(ds)
               PROVE  /\ m[n + 1] \in Nat /\ q[n + 1] \in Nat
                      /\ m[n + 1] = q[n + 1] => \A j \in 1 .. n + 1 : ds[j] = es[j]
    OBVIOUS
  <2>1. m[n] \in Nat /\ q[n] \in Nat /\ (m[n] = q[n] => \A j \in 1 .. n : ds[j] = es[j])
    BY <1>2, <1>4
  <2>2. /\ m[n + 1] = 10 * m[n] + ds[n + 1] /\ ds[n + 1] \in 0 .. 9
        /\ q[n + 1] = 10 * q[n] + es[n + 1] /\ es[n + 1] \in 0 .. 9
    <3>1. n + 1 \in Nat /\ n + 1 # 0 /\ (n + 1) - 1 = n /\ n + 1 \in 1 .. Len(ds)
      BY <1>2
    <3>2. QED BY <1>1, <1>2, <3>1
  <2>3. /\ m[n + 1] \in Nat /\ q[n + 1] \in Nat
        /\ m[n + 1] = q[n + 1] => m[n] = q[n] /\ ds[n + 1] = es[n + 1]
    <3> DEFINE a == m[n]
               d == ds[n + 1]
               x == m[n + 1]
               b == q[n]
               e == es[n + 1]
               y == q[n + 1]
    <3>1. /\ a \in Nat /\ d \in 0 .. 9 /\ x = 10 * a + d
          /\ b \in Nat /\ e \in 0 .. 9 /\ y = 10 * b + e
      BY <2>1, <2>2
    <3> HIDE DEF a, d, x, b, e, y
    <3>2. x \in Nat /\ y \in Nat /\ (x = y => a = b /\ d = e)
      BY <3>1
    <3>3. QED BY <3>2 DEF a, d, x, b, e, y
  <2>4. 1 .. n + 1 = (1 .. n) \cup {n + 1}
    OBVIOUS
  <2>5. QED BY <2>1, <2>3, <2>4
<1>5. Nat \subseteq S
  <2> HIDE DEF S
  <2>1. QED BY <1>3, <1>4, Induction
<1>6. m[Len(ds)] = q[Len(ds)] => \A j \in 1 .. Len(ds) : ds[j] = es[j]
  BY <1>2, <1>5
<1>7. (\A j \in 1 .. Len(ds) : ds[j] = es[j]) => ds = es
  OBVIOUS
<1>8. QED BY <1>1, <1>6, <1>7

-----------------------------------------------------------------------------
(* A numeral and its normal form.                                          *)

\* n as normalizeNumeric leaves it.
Canonical(n) ==
    /\ n \in Numeral /\ n.exp = Plain
    /\ Len(n.int) >= 1 /\ (n.int[1] = 0 => Len(n.int) = 1)
    /\ n.frac # <<>> => n.frac[Len(n.frac)] # 0

(* The j-th of the digits before and after the point. *)
LEMMA DigitsJoined ==
    ASSUME NEW D, NEW a \in Seq(D), NEW b \in Seq(D), NEW j \in Int
    PROVE  /\ j \in DOMAIN (a \o b) <=> j \in 1 .. Len(a) + Len(b)
           /\ j \in 1 .. Len(a) => (a \o b)[j] = a[j]
           /\ j \in Len(a) + 1 .. Len(a) + Len(b) => (a \o b)[j] = b[j - Len(a)]
           /\ j \in 1 .. Len(a) + Len(b) => (a \o b)[j] \in D
<1> DEFINE ds == a \o b
<1>1. /\ ds \in Seq(D) /\ Len(ds) = Len(a) + Len(b)
      /\ \A k \in 1 .. Len(a) + Len(b) : ds[k] = IF k <= Len(a) THEN a[k] ELSE b[k - Len(a)]
  BY ConcatProperties
<1>2. Len(a) \in Nat /\ Len(b) \in Nat
  OBVIOUS
<1> HIDE DEF ds
<1>3. DOMAIN ds = 1 .. Len(a) + Len(b) /\ \A k \in 1 .. Len(ds) : ds[k] \in D
  BY <1>1
<1>4. ASSUME j \in 1 .. Len(a) PROVE ds[j] = a[j]
  <2>1. j \in 1 .. Len(a) + Len(b) /\ j <= Len(a)
    BY <1>2, <1>4
  <2>2. QED BY <1>1, <2>1
<1>5. ASSUME j \in Len(a) + 1 .. Len(a) + Len(b) PROVE ds[j] = b[j - Len(a)]
  <2>1. j \in 1 .. Len(a) + Len(b) /\ ~(j <= Len(a))
    BY <1>2, <1>5
  <2>2. QED BY <1>1, <2>1
<1>6. QED BY <1>1, <1>3, <1>4, <1>5 DEF ds

(* The digits of a numeral, place by place. *)
LEMMA DigitOf ==
    ASSUME NEW n \in Numeral, NEW p \in Int
    PROVE  LET j == Len(n.int) + Exponent(n) - p
           IN  /\ Exponent(n) \in Int /\ j \in Int
               /\ Len(n.int) \in Nat /\ Len(n.frac) \in Nat
               /\ j \in 1 .. Len(n.int) => Digit(n, p) = n.int[j]
               /\ \A k \in 1 .. Len(n.frac) : j = Len(n.int) + k => Digit(n, p) = n.frac[k]
               /\ j \notin 1 .. Len(n.int) + Len(n.frac) => Digit(n, p) = 0
               /\ Digit(n, p) \in Digits
<1> DEFINE ds == n.int \o n.frac
           j == Len(n.int) + Exponent(n) - p
<1>1. n.int \in Seq(Digits) /\ n.frac \in Seq(Digits) /\ n.exp \in Int \cup {Plain}
  BY DEF Numeral
<1>2. Exponent(n) \in Int /\ Len(n.int) \in Nat /\ Len(n.frac) \in Nat
  BY <1>1, NumeralsAssumption DEF Exponent
<1>3. j \in Int
  BY <1>2
<1>4. Digit(n, p) = IF j \in DOMAIN ds THEN ds[j] ELSE 0
  BY DEF Digit
<1>5. 0 \in Digits
  BY DEF Digits
<1> HIDE DEF j
<1>6. /\ j \in DOMAIN ds <=> j \in 1 .. Len(n.int) + Len(n.frac)
      /\ j \in 1 .. Len(n.int) => ds[j] = n.int[j]
      /\ j \in Len(n.int) + 1 .. Len(n.int) + Len(n.frac) => ds[j] = n.frac[j - Len(n.int)]
      /\ j \in 1 .. Len(n.int) + Len(n.frac) => ds[j] \in Digits
  BY <1>1, <1>3, DigitsJoined
<1> HIDE DEF ds, Digits
<1>7. /\ j \in 1 .. Len(n.int) => j \in 1 .. Len(n.int) + Len(n.frac)
      /\ j \in Len(n.int) + 1 .. Len(n.int) + Len(n.frac) => j \in 1 .. Len(n.int) + Len(n.frac)
  <2> DEFINE a == Len(n.int)
             b == Len(n.frac)
  <2>1. a \in Nat /\ b \in Nat
    BY <1>2
  <2> HIDE DEF a, b
  <2>2. (j \in 1 .. a => j \in 1 .. a + b) /\ (j \in a + 1 .. a + b => j \in 1 .. a + b)
    BY <1>3, <2>1
  <2>3. QED BY <2>2 DEF a, b
<1>9. /\ j \in 1 .. Len(n.int) => Digit(n, p) = n.int[j]
      /\ j \in Len(n.int) + 1 .. Len(n.int) + Len(n.frac) => Digit(n, p) = n.frac[j - Len(n.int)]
      /\ j \notin 1 .. Len(n.int) + Len(n.frac) => Digit(n, p) = 0
      /\ Digit(n, p) \in Digits
  BY <1>4, <1>5, <1>6, <1>7
<1>10. \A k \in 1 .. Len(n.frac) : j = Len(n.int) + k => Digit(n, p) = n.frac[k]
  <2> DEFINE a == Len(n.int)
             b == Len(n.frac)
  <2>1. a \in Nat /\ b \in Nat
    BY <1>2
  <2>2. j \in a + 1 .. a + b => Digit(n, p) = n.frac[j - a]
    BY <1>9
  <2> HIDE DEF a, b
  <2>3. \A k \in 1 .. b : j = a + k => Digit(n, p) = n.frac[k]
    <3> SUFFICES ASSUME NEW k \in 1 .. b, j = a + k PROVE Digit(n, p) = n.frac[k]
      OBVIOUS
    <3>1. j \in a + 1 .. a + b /\ j - a = k
      BY <2>1
    <3>2. QED BY <2>2, <3>1
  <2>4. QED BY <2>3 DEF a, b
<1>11. QED BY <1>2, <1>3, <1>9, <1>10 DEF j

\* n has no digits beyond the columns.
Fits(n) ==
    /\ n \in Numeral
    /\ Len(n.int) + Exponent(n) <= Places /\ Len(n.frac) - Exponent(n) <= Places

(* Its other digits are zeros. *)
LEMMA DigitOutside ==
    ASSUME NEW n, Fits(n), NEW p \in Int, p \notin -Places .. Places - 1
    PROVE  Digit(n, p) = 0
<1> DEFINE a == Len(n.int)
           b == Len(n.frac)
           e == Exponent(n)
<1>1. n \in Numeral
  BY DEF Fits
<1>2. a \in Nat /\ b \in Nat /\ e \in Int /\ a + e <= Places /\ b - e <= Places /\ Places \in Nat
  BY <1>1, DigitOf, NumeralsAssumption DEF Fits
<1>3. a + e - p \notin 1 .. a + b => Digit(n, p) = 0
  BY <1>1, DigitOf
<1> HIDE DEF a, b, e
<1>4. a + e - p \notin 1 .. a + b
  BY <1>2
<1>5. QED BY <1>3, <1>4

(* The columns are digits. *)
LEMMA ColumnsType ==
    ASSUME NEW n \in Numeral
    PROVE  /\ Columns(n) \in Seq(Digits) /\ Len(Columns(n)) = 2 * Places
           /\ \A k \in 1 .. 2 * Places : Columns(n)[k] = Digit(n, Places - k)
<1>1. Places \in Nat
  BY NumeralsAssumption
<1>2. \A k \in 1 .. 2 * Places : Digit(n, Places - k) \in Digits
  <2> TAKE k \in 1 .. 2 * Places
  <2>1. Places - k \in Int
    BY <1>1
  <2>2. QED BY <2>1, DigitOf
<1> DEFINE L == 2 * Places
           D(k) == Digit(n, Places - k)
<1>3. L \in Nat /\ \A k \in 1 .. L : D(k) \in Digits
  BY <1>1, <1>2
<1>4. Columns(n) = [k \in 1 .. L |-> D(k)]
  BY DEF Columns
<1> HIDE DEF L, D
<1>5. Columns(n) \in Seq(Digits) /\ Len(Columns(n)) = L /\ \A k \in 1 .. L : Columns(n)[k] = D(k)
  BY <1>3, <1>4
<1>6. QED BY <1>5 DEF L, D

(* Two numerals have the same columns when they have the same digits. *)
LEMMA ColumnsSame ==
    ASSUME NEW n, NEW m, Fits(n), Fits(m)
    PROVE  Columns(n) = Columns(m) <=> \A p \in Int : Digit(n, p) = Digit(m, p)
<1>1. n \in Numeral /\ m \in Numeral /\ Places \in Nat
  BY NumeralsAssumption DEF Fits
<1>2. ASSUME Columns(n) = Columns(m), NEW p \in Int PROVE Digit(n, p) = Digit(m, p)
  <2>1. CASE p \in -Places .. Places - 1
    <3>1. Places - p \in 1 .. 2 * Places /\ Places - (Places - p) = p
      BY <1>1, <2>1
    <3>2. Columns(n)[Places - p] = Digit(n, p) /\ Columns(m)[Places - p] = Digit(m, p)
      BY <1>1, <3>1, ColumnsType
    <3>3. QED BY <1>2, <3>2
  <2>2. CASE p \notin -Places .. Places - 1
    BY <2>2, DigitOutside
  <2>3. QED BY <2>1, <2>2
<1>3. ASSUME \A p \in Int : Digit(n, p) = Digit(m, p) PROVE Columns(n) = Columns(m)
  <2>1. \A k \in 1 .. 2 * Places : Places - k \in Int
    BY <1>1
  <2>2. QED BY <1>3, <2>1 DEF Columns
<1>4. QED BY <1>2, <1>3

(* A number is zero when its digits are. *)
LEMMA ValueZero ==
    ASSUME NEW n, Fits(n)
    PROVE  Value(n) = 0 <=> \A p \in Int : Digit(n, p) = 0
<1>1. n \in Numeral /\ Places \in Nat
  BY NumeralsAssumption DEF Fits
<1>2. Columns(n) \in Seq(Digits) /\ Len(Columns(n)) = 2 * Places
  BY <1>1, ColumnsType
<1>3. Magnitude(Columns(n)) \in Nat /\ (Magnitude(Columns(n)) = 0 <=> \A k \in 1 .. 2 * Places : Columns(n)[k] = 0)
  BY <1>2, MagnitudeZero
<1>4. Value(n) = 0 <=> Magnitude(Columns(n)) = 0
  BY <1>3 DEF Value
<1>5. ASSUME \A k \in 1 .. 2 * Places : Columns(n)[k] = 0, NEW p \in Int PROVE Digit(n, p) = 0
  <2>1. CASE p \in -Places .. Places - 1
    <3>1. Places - p \in 1 .. 2 * Places /\ Places - (Places - p) = p
      BY <1>1, <2>1
    <3>2. Columns(n)[Places - p] = Digit(n, p)
      BY <1>1, <3>1, ColumnsType
    <3>3. QED BY <1>5, <3>1, <3>2
  <2>2. CASE p \notin -Places .. Places - 1
    BY <2>2, DigitOutside
  <2>3. QED BY <2>1, <2>2
<1>6. ASSUME \A p \in Int : Digit(n, p) = 0, NEW k \in 1 .. 2 * Places PROVE Columns(n)[k] = 0
  <2>1. Places - k \in Int
    BY <1>1
  <2>2. QED BY <1>1, <1>6, <2>1, ColumnsType
<1>7. QED BY <1>3, <1>4, <1>5, <1>6

(* Two numbers are the same when their digits are, and their signs unless  *)
(* they are zero.                                                          *)
LEMMA ValueSame ==
    ASSUME NEW n, NEW m, Fits(n), Fits(m)
    PROVE  Value(n) = Value(m) <=>
              /\ \A p \in Int : Digit(n, p) = Digit(m, p)
              /\ n.neg = m.neg \/ Value(n) = 0
<1>1. n \in Numeral /\ m \in Numeral /\ Places \in Nat
  BY NumeralsAssumption DEF Fits
<1> DEFINE a == Magnitude(Columns(n))
           b == Magnitude(Columns(m))
<1>2. a \in Nat /\ b \in Nat
  BY <1>1, ColumnsType, MagnitudeZero
<1>3. a = b <=> Columns(n) = Columns(m)
  BY <1>1, ColumnsType, MagnitudeSame
<1>4. Value(n) = (IF n.neg THEN -a ELSE a) /\ Value(m) = (IF m.neg THEN -b ELSE b)
  BY DEF Value
<1>5. n.neg \in BOOLEAN /\ m.neg \in BOOLEAN
  BY <1>1 DEF Numeral
<1> HIDE DEF a, b
<1>6. Value(n) = Value(m) <=> a = b /\ (n.neg = m.neg \/ a = 0)
  BY <1>2, <1>4, <1>5
<1>7. Value(n) = 0 <=> a = 0
  BY <1>2, <1>4
<1>8. QED BY <1>3, <1>6, <1>7, ColumnsSame

(* The digits of a numeral in fixed-point notation. *)
LEMMA FixedDigits ==
    ASSUME NEW n \in Numeral, n.exp = Plain
    PROVE  /\ Len(n.int) \in Nat /\ Len(n.frac) \in Nat
           /\ \A k \in 1 .. Len(n.int) : Digit(n, Len(n.int) - k) = n.int[k]
           /\ \A k \in 1 .. Len(n.frac) : Digit(n, -k) = n.frac[k]
           /\ \A p \in Int : p >= Len(n.int) \/ p < -Len(n.frac) => Digit(n, p) = 0
<1> DEFINE a == Len(n.int)
           b == Len(n.frac)
<1>1. Exponent(n) = 0
  BY DEF Exponent
<1>2. a \in Nat /\ b \in Nat
  <2>1. 0 \in Int
    OBVIOUS
  <2>2. QED BY <2>1, DigitOf
<1>3. \A p \in Int :
         /\ a + 0 - p \in 1 .. a => Digit(n, p) = n.int[a + 0 - p]
         /\ \A k \in 1 .. b : a + 0 - p = a + k => Digit(n, p) = n.frac[k]
         /\ a + 0 - p \notin 1 .. a + b => Digit(n, p) = 0
  <2> TAKE p \in Int
  <2>1. a + Exponent(n) - p \in 1 .. a => Digit(n, p) = n.int[a + Exponent(n) - p]
    BY DigitOf
  <2>2. \A k \in 1 .. b : a + Exponent(n) - p = a + k => Digit(n, p) = n.frac[k]
    BY DigitOf
  <2>3. a + Exponent(n) - p \notin 1 .. a + b => Digit(n, p) = 0
    BY DigitOf
  <2>4. QED BY <1>1, <2>1, <2>2, <2>3
<1> HIDE DEF a, b
<1>4. ASSUME NEW k \in 1 .. a PROVE Digit(n, a - k) = n.int[k]
  <2>1. a - k \in Int /\ a + 0 - (a - k) \in 1 .. a /\ a + 0 - (a - k) = k
    BY <1>2
  <2>2. QED BY <1>3, <2>1
<1>5. ASSUME NEW k \in 1 .. b PROVE Digit(n, -k) = n.frac[k]
  <2>1. -k \in Int /\ a + 0 - (-k) = a + k
    BY <1>2
  <2>2. QED BY <1>3, <2>1
<1>6. ASSUME NEW p \in Int, p >= a \/ p < -b PROVE Digit(n, p) = 0
  <2>1. a + 0 - p \notin 1 .. a + b
    BY <1>2, <1>6
  <2>2. QED BY <1>3, <2>1
<1>7. QED BY <1>2, <1>4, <1>5, <1>6 DEF a, b

(* Of two normal forms of the same digits, none is the longer one. *)
LEMMA CanonicalLength ==
    ASSUME NEW n, NEW m, Canonical(n), Canonical(m), \A p \in Int : Digit(n, p) = Digit(m, p)
    PROVE  Len(n.int) <= Len(m.int) /\ Len(n.frac) <= Len(m.frac)
<1> DEFINE a == Len(n.int)
           b == Len(n.frac)
           c == Len(m.int)
           d == Len(m.frac)
<1>1. n \in Numeral /\ m \in Numeral /\ n.exp = Plain /\ m.exp = Plain
  BY DEF Canonical
<1>2. a \in Nat /\ b \in Nat /\ c \in Nat /\ d \in Nat /\ a >= 1 /\ c >= 1
  BY <1>1, FixedDigits DEF Canonical
<1>3. /\ \A k \in 1 .. a : Digit(n, a - k) = n.int[k]
      /\ \A k \in 1 .. b : Digit(n, -k) = n.frac[k]
      /\ \A p \in Int : p >= c \/ p < -d => Digit(m, p) = 0
  BY <1>1, FixedDigits DEF Canonical
<1>4. ASSUME a > c PROVE FALSE
  <2> DEFINE p == a - 1
  <2>1. p \in Int /\ 1 \in 1 .. a /\ p >= c
    <3> HIDE DEF a, c, d
    <3>1. QED BY <1>2, <1>4
  <2>2. n.int[1] = 0
    BY <1>3, <2>1
  <2>3. a = 1
    BY <2>2 DEF Canonical
  <2> HIDE DEF a, c
  <2>4. QED BY <1>2, <1>4, <2>3
<1>5. ASSUME b > d PROVE FALSE
  <2> DEFINE p == -b
  <2>1. p \in Int /\ b \in 1 .. b /\ p < -d
    <3> HIDE DEF a, b, c, d
    <3>1. QED BY <1>2, <1>5
  <2>2. n.frac[b] = 0
    BY <1>3, <2>1
  <2>3. n.frac = <<>>
    BY <2>2 DEF Canonical
  <2>4. b = 0
    BY <2>3
  <2> HIDE DEF b, d
  <2>5. QED BY <1>2, <1>5, <2>4
<1> HIDE DEF a, b, c, d
<1>6. a <= c /\ b <= d
  BY <1>2, <1>4, <1>5
<1>7. QED BY <1>6 DEF a, b, c, d

(* A normal form is known by its digits and its sign. *)
LEMMA CanonicalSame ==
    ASSUME NEW n, NEW m, Canonical(n), Canonical(m), n.neg = m.neg,
           \A p \in Int : Digit(n, p) = Digit(m, p)
    PROVE  n = m
<1>1. n \in Numeral /\ m \in Numeral /\ n.exp = Plain /\ m.exp = Plain
  BY DEF Canonical
<1>2. /\ Len(n.int) \in Nat /\ Len(n.frac) \in Nat /\ Len(m.int) \in Nat /\ Len(m.frac) \in Nat
      /\ \A k \in 1 .. Len(n.int) : Digit(n, Len(n.int) - k) = n.int[k]
      /\ \A k \in 1 .. Len(m.int) : Digit(m, Len(m.int) - k) = m.int[k]
      /\ \A k \in 1 .. Len(n.frac) : Digit(n, -k) = n.frac[k]
      /\ \A k \in 1 .. Len(m.frac) : Digit(m, -k) = m.frac[k]
  BY <1>1, FixedDigits
<1>3. Len(n.int) = Len(m.int) /\ Len(n.frac) = Len(m.frac)
  BY <1>2, CanonicalLength
<1>4. \A k \in 1 .. Len(n.int) : n.int[k] = m.int[k]
  <2> TAKE k \in 1 .. Len(n.int)
  <2>1. Len(n.int) - k \in Int
    BY <1>2
  <2>2. QED BY <1>2, <1>3, <2>1
<1>5. \A k \in 1 .. Len(n.frac) : n.frac[k] = m.frac[k]
  <2> TAKE k \in 1 .. Len(n.frac)
  <2>1. -k \in Int
    BY <1>2
  <2>2. QED BY <1>2, <1>3, <2>1
<1>6. n.int \in Seq(Digits) /\ m.int \in Seq(Digits) /\ n.frac \in Seq(Digits) /\ m.frac \in Seq(Digits)
  BY <1>1 DEF Numeral
<1>7. n.int = m.int /\ n.frac = m.frac
  <2>1. \A S : \A s, t \in Seq(S) : Len(s) = Len(t) /\ (\A k \in 1 .. Len(s) : s[k] = t[k]) => s = t
    OBVIOUS
  <2>2. QED BY <1>3, <1>4, <1>5, <1>6, <2>1
<1>8. /\ n = [neg |-> n.neg, int |-> n.int, frac |-> n.frac, exp |-> n.exp]
      /\ m = [neg |-> m.neg, int |-> m.int, frac |-> m.frac, exp |-> m.exp]
  BY <1>1 DEF Numeral
<1>9. QED BY <1>1, <1>7, <1>8

(* A normal form of zero. *)
LEMMA CanonicalZero ==
    ASSUME NEW n, Canonical(n)
    PROVE  (n.frac = <<>> /\ n.int = << 0 >>) <=> \A p \in Int : Digit(n, p) = 0
<1>1. n \in Numeral /\ n.exp = Plain
  BY DEF Canonical
<1>2. /\ Len(n.int) \in Nat /\ Len(n.frac) \in Nat
      /\ \A k \in 1 .. Len(n.int) : Digit(n, Len(n.int) - k) = n.int[k]
      /\ \A k \in 1 .. Len(n.frac) : Digit(n, -k) = n.frac[k]
      /\ \A p \in Int : p >= Len(n.int) \/ p < -Len(n.frac) => Digit(n, p) = 0
  BY <1>1, FixedDigits
<1>3. n.int \in Seq(Digits) /\ n.frac \in Seq(Digits)
  BY <1>1 DEF Numeral
<1>4. ASSUME n.frac = <<>>, n.int = << 0 >>, NEW p \in Int PROVE Digit(n, p) = 0
  <2>1. Len(n.frac) = 0 /\ Len(n.int) = 1 /\ n.int[1] = 0
    BY <1>4
  <2>2. p >= 1 \/ p < 0 \/ p = 1 - 1
    OBVIOUS
  <2>3. Digit(n, 1 - 1) = 0
    <3>1. 1 \in 1 .. Len(n.int)
      BY <2>1
    <3>2. QED BY <1>2, <2>1, <3>1
  <2>4. p < 0 => p < -Len(n.frac)
    BY <2>1
  <2>5. QED BY <1>2, <2>1, <2>2, <2>3, <2>4
<1>5. ASSUME \A p \in Int : Digit(n, p) = 0 PROVE n.frac = <<>> /\ n.int = << 0 >>
  <2>1. n.int[1] = 0
    <3>1. 1 \in 1 .. Len(n.int) /\ Len(n.int) - 1 \in Int
      BY <1>2 DEF Canonical
    <3>2. QED BY <1>2, <1>5, <3>1
  <2>2. n.int = << 0 >>
    <3>1. Len(n.int) = 1
      BY <2>1 DEF Canonical
    <3>2. QED BY <1>3, <2>1, <3>1
  <2>3. n.frac = <<>>
    <3>1. SUFFICES ASSUME n.frac # <<>> PROVE FALSE
      OBVIOUS
    <3>2. Len(n.frac) \in 1 .. Len(n.frac) /\ -Len(n.frac) \in Int
      BY <1>2, <1>3, <3>1
    <3>3. n.frac[Len(n.frac)] = 0
      BY <1>2, <1>5, <3>2
    <3>4. QED BY <3>1, <3>3 DEF Canonical
  <2>4. QED BY <2>2, <2>3
<1>6. QED BY <1>4, <1>5

(* What is left of fixed-point digits without the zeros at their end. *)
LEMMA StripZerosType ==
    ASSUME NEW ds \in Seq(Digits)
    PROVE  /\ StripZeros(ds) \in Seq(Digits) /\ Len(StripZeros(ds)) \in 0 .. Len(ds)
           /\ \A k \in 1 .. Len(StripZeros(ds)) : StripZeros(ds)[k] = ds[k]
           /\ \A k \in Len(StripZeros(ds)) + 1 .. Len(ds) : ds[k] = 0
           /\ StripZeros(ds) # <<>> => StripZeros(ds)[Len(StripZeros(ds))] # 0
<1> DEFINE l == LastNonzero(ds)
           st == StripZeros(ds)
<1> HIDE DEF Digits, l, st
<1>1. /\ l \in 0 .. Len(ds) /\ (l # 0 => ds[l] # 0)
      /\ \A j \in l + 1 .. Len(ds) : ds[j] = 0
  BY LastNonzeroType DEF l
<1>2. st = SubSeq(ds, 1, l)
  BY DEF StripZeros, st, l
<1>3. /\ st \in Seq(Digits) /\ Len(st) = l
      /\ \A k \in 1 .. l : st[k] = ds[k]
  BY <1>1, <1>2
<1>4. st # <<>> => st[Len(st)] # 0
  BY <1>1, <1>3
<1>5. QED BY <1>1, <1>3, <1>4 DEF st

(* Scientific notation, spelled out. *)
LEMMA FormatFloatNormal ==
    ASSUME NEW n, Fits(n)
    PROVE  /\ Canonical(FormatFloat(n)) /\ FormatFloat(n).neg = n.neg
           /\ \A p \in Int : Digit(FormatFloat(n), p) = Digit(n, p)
<1> DEFINE cols == Columns(n)
           int == SubSeq(cols, 1, Places)
           frac == SubSeq(cols, Places + 1, 2 * Places)
           f == FirstNonzero(int)
           r == FormatFloat(n)
<1> HIDE DEF r, f, cols, int, frac, Digits
<1>1. n \in Numeral /\ Places \in Nat /\ Places >= 1
  BY NumeralsAssumption DEF Fits
<1>2. /\ cols \in Seq(Digits) /\ Len(cols) = 2 * Places
      /\ \A k \in 1 .. 2 * Places : cols[k] = Digit(n, Places - k)
  BY <1>1, ColumnsType DEF cols
<1>3. /\ int \in Seq(Digits) /\ Len(int) = Places
      /\ \A k \in 1 .. Places : int[k] = Digit(n, Places - k)
  <2>1. \A k \in 1 .. Places : k \in 1 .. 2 * Places
    BY <1>1
  <2>2. Places <= 2 * Places /\ 2 * Places \in Nat
    BY <1>1
  <2>3. /\ int \in Seq(Digits) /\ Len(int) = Places
        /\ \A k \in 1 .. Places : int[k] = cols[k]
    BY <1>1, <1>2, <2>2 DEF int
  <2>4. QED BY <1>2, <2>1, <2>3
<1>4. /\ frac \in Seq(Digits) /\ Len(frac) = Places
      /\ \A k \in 1 .. Places : frac[k] = Digit(n, -k)
  <2>1. \A k \in 1 .. Places : Places + k \in 1 .. 2 * Places /\ Places - (Places + k) = -k
    BY <1>1
  <2>2. /\ frac \in Seq(Digits) /\ Len(frac) = Places
        /\ \A k \in 1 .. Places : frac[k] = cols[Places + k]
    <3> DEFINE from == Places + 1
               to == 2 * Places
    <3>1. from \in 1 .. to + 1 /\ to \in Nat /\ to - from + 1 = Places /\ from <= to
      BY <1>1
    <3>2. \A k \in 1 .. Places : from + k - 1 = Places + k
      BY <1>1
    <3>3. frac = SubSeq(cols, from, to) /\ Len(cols) = to
      BY <1>2 DEF frac
    <3> HIDE DEF from, to
    <3>4. /\ frac \in Seq(Digits) /\ Len(frac) = Places
          /\ \A k \in 1 .. Places : frac[k] = cols[from + k - 1]
      BY <1>2, <3>1, <3>3
    <3>5. QED BY <3>2, <3>4
  <2>3. \A k \in 1 .. Places : cols[Places + k] = Digit(n, Places - (Places + k))
    BY <1>2, <2>1
  <2>4. QED BY <2>1, <2>2, <2>3
<1>5. /\ f \in 1 .. Places /\ (f # Places => int[f] # 0)
      /\ \A j \in 1 .. f - 1 : int[j] = 0
  BY <1>1, <1>3, FirstNonzeroType DEF f
<1>6. r = [neg |-> n.neg, int |-> SubSeq(int, f, Places), frac |-> StripZeros(frac), exp |-> Plain]
  BY DEF FormatFloat, r, f, cols, int, frac
<1> DEFINE a == Len(r.int)
           b == Len(r.frac)
<1>7. /\ r.int \in Seq(Digits) /\ a = Places - f + 1
      /\ \A k \in 1 .. a : r.int[k] = int[f + k - 1]
  <2>1. r.int = SubSeq(int, f, Places)
    BY <1>6
  <2>2. QED BY <1>1, <1>3, <1>5, <2>1
<1>8. /\ r.frac \in Seq(Digits) /\ b \in 0 .. Places
      /\ \A k \in 1 .. b : r.frac[k] = frac[k]
      /\ \A k \in b + 1 .. Places : frac[k] = 0
      /\ r.frac # <<>> => r.frac[b] # 0
  BY <1>4, <1>6, StripZerosType
<1>9. r \in Numeral /\ r.neg = n.neg /\ r.exp = Plain
  <2>1. n.neg \in BOOLEAN
    BY <1>1 DEF Numeral
  <2>2. QED BY <1>6, <1>7, <1>8, <2>1 DEF Numeral
<1>10. a >= 1 /\ (r.int[1] = 0 => a = 1)
  <2> HIDE DEF a
  <2>1. a \in Nat /\ a >= 1 /\ 1 \in 1 .. a /\ f + 1 - 1 = f
    BY <1>1, <1>5, <1>7
  <2>2. r.int[1] = int[f]
    BY <1>7, <2>1
  <2>3. f = Places => a = 1
    BY <1>1, <1>5, <1>7
  <2>4. QED BY <1>5, <2>1, <2>2, <2>3
<1>11. Canonical(r)
  BY <1>8, <1>9, <1>10 DEF Canonical
<1>12. /\ \A k \in 1 .. a : Digit(r, a - k) = r.int[k]
       /\ \A k \in 1 .. b : Digit(r, -k) = r.frac[k]
       /\ \A p \in Int : p >= a \/ p < -b => Digit(r, p) = 0
  BY <1>9, FixedDigits
<1> HIDE DEF a, b
<1>13. ASSUME NEW p \in Int PROVE Digit(r, p) = Digit(n, p)
  <2>1. CASE p \notin -Places .. Places - 1
    <3>1. Digit(n, p) = 0
      BY <2>1, DigitOutside
    <3>2. p >= a \/ p < -b
      BY <1>1, <1>5, <1>7, <1>8, <2>1
    <3>3. QED BY <1>12, <3>1, <3>2
  <2>2. CASE p \in 0 .. Places - 1
    <3> DEFINE k == Places - p
    <3> HIDE DEF k
    <3>1. k \in 1 .. Places /\ Places - k = p
      BY <1>1, <2>2 DEF k
    <3>2. int[k] = Digit(n, p)
      BY <1>3, <3>1
    <3>3. CASE k < f
      <4>1. k \in 1 .. f - 1 /\ p >= a
        BY <1>1, <1>5, <1>7, <3>1, <3>3
      <4>2. QED BY <1>5, <1>12, <3>2, <4>1
    <3>4. CASE k >= f
      <4> DEFINE j == k - f + 1
      <4> HIDE DEF j
      <4>1. j \in 1 .. a /\ f + j - 1 = k /\ a - j = p
        BY <1>1, <1>5, <1>7, <3>1, <3>4 DEF j
      <4>2. QED BY <1>7, <1>12, <3>2, <4>1
    <3>5. QED BY <1>5, <3>1, <3>3, <3>4
  <2>3. CASE p \in -Places .. -1
    <3> DEFINE k == -p
    <3> HIDE DEF k
    <3>1. k \in 1 .. Places /\ -k = p
      BY <1>1, <2>3 DEF k
    <3>2. frac[k] = Digit(n, p)
      BY <1>4, <3>1
    <3>3. CASE k <= b
      <4>1. k \in 1 .. b
        BY <1>8, <3>1, <3>3
      <4>2. QED BY <1>8, <1>12, <3>1, <3>2, <4>1
    <3>4. CASE k > b
      <4>1. k \in b + 1 .. Places /\ p < -b
        BY <1>8, <3>1, <3>4
      <4>2. QED BY <1>8, <1>12, <3>2, <4>1
    <3>5. QED BY <1>8, <3>1, <3>3, <3>4
  <2>4. QED BY <1>1, <2>1, <2>2, <2>3
<1>14. QED BY <1>9, <1>11, <1>13 DEF r

(* Zeros stripped from the end of a fixed-point number. *)
LEMMA StripZerosNormal ==
    ASSUME NEW n \in Numeral, n.exp = Plain, Len(n.int) >= 1, n.int[1] = 0 => Len(n.int) = 1
    PROVE  LET r == [n EXCEPT !.frac = StripZeros(n.frac)]
           IN  /\ Canonical(r) /\ r.neg = n.neg
               /\ \A p \in Int : Digit(r, p) = Digit(n, p)
<1> DEFINE r == [n EXCEPT !.frac = StripZeros(n.frac)]
<1>1. /\ n.int \in Seq(Digits) /\ n.frac \in Seq(Digits) /\ n.neg \in BOOLEAN
      /\ n = [neg |-> n.neg, int |-> n.int, frac |-> n.frac, exp |-> n.exp]
  BY DEF Numeral
<1>2. r = [neg |-> n.neg, int |-> n.int, frac |-> StripZeros(n.frac), exp |-> n.exp]
  BY <1>1
<1> HIDE DEF r, Digits
<1> DEFINE a == Len(n.int)
           b == Len(n.frac)
           l == Len(r.frac)
<1>3. /\ r.frac \in Seq(Digits) /\ l \in 0 .. b
      /\ \A k \in 1 .. l : r.frac[k] = n.frac[k]
      /\ \A k \in l + 1 .. b : n.frac[k] = 0
      /\ r.frac # <<>> => r.frac[l] # 0
  BY <1>1, <1>2, StripZerosType
<1>4. r \in Numeral /\ r.neg = n.neg /\ r.exp = Plain /\ r.int = n.int
  BY <1>1, <1>2, <1>3 DEF Numeral
<1>5. Canonical(r)
  BY <1>3, <1>4 DEF Canonical
<1>6. /\ a \in Nat /\ b \in Nat
      /\ \A k \in 1 .. a : Digit(n, a - k) = n.int[k]
      /\ \A k \in 1 .. b : Digit(n, -k) = n.frac[k]
      /\ \A p \in Int : p >= a \/ p < -b => Digit(n, p) = 0
  BY FixedDigits
<1>7. /\ \A k \in 1 .. a : Digit(r, a - k) = n.int[k]
      /\ \A k \in 1 .. l : Digit(r, -k) = r.frac[k]
      /\ \A p \in Int : p >= a \/ p < -l => Digit(r, p) = 0
  BY <1>4, FixedDigits
<1> HIDE DEF a, b, l
<1>8. ASSUME NEW p \in Int PROVE Digit(r, p) = Digit(n, p)
  <2>1. CASE p >= a
    BY <1>6, <1>7, <2>1
  <2>2. CASE p \in 0 .. a - 1
    <3>1. a - p \in 1 .. a /\ a - (a - p) = p
      BY <1>6, <2>2
    <3>2. QED BY <1>6, <1>7, <3>1
  <2>3. CASE p \in -l .. -1
    <3> DEFINE k == -p
    <3> HIDE DEF k
    <3>1. k \in 1 .. l /\ k \in 1 .. b /\ -k = p
      BY <1>3, <1>6, <2>3 DEF k
    <3>2. Digit(r, -k) = r.frac[k]
      BY <1>7, <3>1
    <3>3. Digit(n, -k) = n.frac[k]
      BY <1>6, <3>1
    <3>4. Digit(r, -k) = Digit(n, -k)
      BY <1>3, <3>1, <3>2, <3>3
    <3>5. QED BY <3>1, <3>4
  <2>4. CASE p < -l
    <3>1. Digit(r, p) = 0
      BY <1>7, <2>4
    <3>2. CASE p < -b
      BY <1>6, <3>1, <3>2
    <3>3. CASE p >= -b
      <4> DEFINE k == -p
      <4> HIDE DEF k
      <4>1. k \in l + 1 .. b /\ k \in 1 .. b /\ -k = p
        BY <1>3, <1>6, <2>4, <3>3 DEF k
      <4>2. Digit(n, -k) = 0
        BY <1>3, <1>6, <4>1
      <4>3. QED BY <3>1, <4>1, <4>2
    <3>4. QED BY <1>6, <3>2, <3>3
  <2>5. QED BY <1>3, <1>6, <2>1, <2>2, <2>3, <2>4
<1>9. QED BY <1>4, <1>5, <1>8 DEF r

(* normalizeNumeric keeps the number and loses the spelling. *)
LEMMA NormalForm ==
    ASSUME NEW n \in Printable
    PROVE  /\ Fits(n) /\ Canonical(normalizeNumeric(n))
           /\ normalizeNumeric(n).neg <=> n.neg /\ Value(n) # 0
           /\ \A p \in Int : Digit(normalizeNumeric(n), p) = Digit(n, p)
<1>1. /\ n \in Numeral /\ Fits(n) /\ Len(n.int) >= 1
      /\ n.exp = Plain /\ n.int[1] = 0 => Len(n.int) = 1
      /\ n.neg /\ Value(n) = 0 => n.exp = Plain /\ n.frac # <<>>
  BY DEF Printable, Fits
<1>2. n.neg \in BOOLEAN
  BY <1>1 DEF Numeral
<1>3. CASE n.exp # Plain
  <2>1. normalizeNumeric(n) = FormatFloat(n)
    BY <1>3 DEF normalizeNumeric
  <2>2. n.neg <=> n.neg /\ Value(n) # 0
    BY <1>1, <1>2, <1>3
  <2>3. QED BY <1>1, <2>1, <2>2, FormatFloatNormal
<1>4. CASE n.exp = Plain /\ n.frac = <<>>
  <2>1. normalizeNumeric(n) = n
    BY <1>4 DEF normalizeNumeric
  <2>2. n.neg <=> n.neg /\ Value(n) # 0
    BY <1>1, <1>2, <1>4
  <2>3. Canonical(n)
    BY <1>1, <1>4 DEF Canonical
  <2>4. QED BY <1>1, <2>1, <2>2, <2>3
<1>5. CASE n.exp = Plain /\ n.frac # <<>>
  <2> DEFINE r == [n EXCEPT !.frac = StripZeros(n.frac)]
             z == [r EXCEPT !.neg = FALSE]
  <2>1. normalizeNumeric(n) = IF r.frac = <<>> /\ r.int = <<0>> THEN z ELSE r
    BY <1>5 DEF normalizeNumeric
  <2>2. Canonical(r) /\ r.neg = n.neg /\ \A p \in Int : Digit(r, p) = Digit(n, p)
    BY <1>1, <1>5, StripZerosNormal
  <2> HIDE DEF r
  <2>3. (r.frac = <<>> /\ r.int = <<0>>) <=> \A p \in Int : Digit(r, p) = 0
    BY <2>2, CanonicalZero
  <2>4. (r.frac = <<>> /\ r.int = <<0>>) <=> Value(n) = 0
    BY <1>1, <2>2, <2>3, ValueZero
  <2>5. z.int = r.int /\ z.frac = r.frac /\ z.exp = r.exp /\ z.neg = FALSE /\ z \in Numeral
    <3>1. r \in Numeral
      BY <2>2 DEF Canonical
    <3>2. QED BY <3>1 DEF Numeral
  <2> HIDE DEF z
  <2>6. Canonical(z)
    BY <2>2, <2>5 DEF Canonical
  <2>7. \A p \in Int : Digit(z, p) = Digit(r, p)
    BY <2>5 DEF Digit, Exponent
  <2>8. CASE Value(n) = 0
    BY <1>1, <2>1, <2>2, <2>4, <2>5, <2>6, <2>7, <2>8
  <2>9. CASE Value(n) # 0
    BY <1>1, <1>2, <2>1, <2>2, <2>4, <2>9
  <2>10. QED BY <2>8, <2>9
<1>6. QED BY <1>3, <1>4, <1>5

(* normalizeNumeric gives two numerals one text exactly when they denote   *)
(* one number (result.go:89-175).                                          *)
THEOREM NumbersNormalized ==
    \A n, m \in Printable : normalizeNumeric(n) = normalizeNumeric(m) <=> Value(n) = Value(m)
<1> TAKE n, m \in Printable
<1> DEFINE r == normalizeNumeric(n)
           q == normalizeNumeric(m)
<1>1. /\ Fits(n) /\ Canonical(r) /\ (r.neg <=> n.neg /\ Value(n) # 0)
      /\ \A p \in Int : Digit(r, p) = Digit(n, p)
  BY NormalForm
<1>2. /\ Fits(m) /\ Canonical(q) /\ (q.neg <=> m.neg /\ Value(m) # 0)
      /\ \A p \in Int : Digit(q, p) = Digit(m, p)
  BY NormalForm
<1>3. r.neg \in BOOLEAN /\ q.neg \in BOOLEAN /\ n.neg \in BOOLEAN /\ m.neg \in BOOLEAN
  BY <1>1, <1>2 DEF Canonical, Fits, Numeral
<1> HIDE DEF r, q
<1>4. Value(n) = Value(m) <=>
         /\ \A p \in Int : Digit(n, p) = Digit(m, p)
         /\ n.neg = m.neg \/ Value(n) = 0
  BY <1>1, <1>2, ValueSame
<1>5. (\A p \in Int : Digit(n, p) = Digit(m, p)) => (Value(n) = 0 <=> Value(m) = 0)
  BY <1>1, <1>2, ValueZero
<1>6. ASSUME Value(n) = Value(m) PROVE r = q
  <2>1. \A p \in Int : Digit(r, p) = Digit(q, p)
    BY <1>1, <1>2, <1>4, <1>6
  <2>2. r.neg = q.neg
    BY <1>1, <1>2, <1>3, <1>4, <1>6
  <2>3. QED BY <1>1, <1>2, <2>1, <2>2, CanonicalSame
<1>7. ASSUME r = q PROVE Value(n) = Value(m)
  <2>1. \A p \in Int : Digit(n, p) = Digit(m, p)
    BY <1>1, <1>2, <1>7
  <2>2. n.neg = m.neg \/ Value(n) = 0
    BY <1>1, <1>2, <1>3, <1>5, <1>7, <2>1
  <2>3. QED BY <1>4, <2>1, <2>2
<1>8. QED BY <1>6, <1>7 DEF r, q

(* How often a number occurs is how often its normal form does. *)
LEMMA NumbersAreTexts ==
    ASSUME NEW r, r.rows \in Seq(Rows), NEW n \in Rows
    PROVE  NumbersIn(r, NumberOf[n]) = Occurrences(FlatRows(r), FlatOf[n])
<1>1. /\ Len(FlatRows(r)) = Len(r.rows) /\ DOMAIN r.rows = 1 .. Len(r.rows)
      /\ \A j \in 1 .. Len(r.rows) : r.rows[j] \in Rows /\ FlatRows(r)[j] = FlatOf[r.rows[j]]
  BY DEF FlatRows
<1>2. \A m \in Rows : FlatOf[m] = FlatOf[n] <=> NumberOf[m] = NumberOf[n]
  <2>1. /\ n \in Printable /\ \A m \in Rows : m \in Printable
        /\ \A m \in Rows : FlatOf[m] = normalizeNumeric(m) /\ NumberOf[m] = Value(m)
    BY NumeralsAssumption DEF NumberOf
  <2>2. QED BY <2>1, NumbersNormalized
<1>3. {j \in DOMAIN r.rows : NumberOf[r.rows[j]] = NumberOf[n]}
         = {j \in 1 .. Len(FlatRows(r)) : FlatRows(r)[j] = FlatOf[n]}
  BY <1>1, <1>2
<1>4. QED BY <1>3 DEF NumbersIn, Occurrences, Occ

(* Containment of numbers is containment of texts. *)
LEMMA FewerIsContained ==
    ASSUME NEW r, NEW q, r.rows \in Seq(Rows), q.rows \in Seq(Rows)
    PROVE  FewerNumbers(r, q) <=> Contained(FlatRows(r), FlatRows(q))
<1>1. \A n \in Rows : /\ NumbersIn(r, NumberOf[n]) = Occurrences(FlatRows(r), FlatOf[n])
                     /\ NumbersIn(q, NumberOf[n]) = Occurrences(FlatRows(q), FlatOf[n])
  BY NumbersAreTexts
<1>2. QED BY <1>1 DEF FewerNumbers, Contained, Texts

(* Two results are compared as bags of numbers, however those are spelled  *)
(* (result.go:73): CMP's loops and normalizeNumeric together.              *)
THEOREM NumbersComparedCorrect == Spec => []NumbersCompared
<1>1. CMPInv => NumbersCompared
  <2> SUFFICES ASSUME CMPInv, pc = "done", ~this.err, ~another.err, this.cols = another.cols
               PROVE  /\ cmp \in {-1, 0} <=> FewerNumbers(this, another)
                      /\ cmp \in {0, 1} <=> FewerNumbers(another, this)
    BY DEF NumbersCompared
  <2>1. this.rows \in Seq(Rows) /\ another.rows \in Seq(Rows)
    BY ConnectorsAssumption DEF CMPInv, MapIsRemainder, TypeOK, ResultSet
  <2>2. cmp = BagOrder(FlatRows(this), FlatRows(another))
    BY DEF CMPInv, CMPIsContainment, CMP
  <2>3. /\ cmp \in {-1, 0} <=> Contained(FlatRows(this), FlatRows(another))
        /\ cmp \in {0, 1} <=> Contained(FlatRows(another), FlatRows(this))
    BY <2>2 DEF BagOrder
  <2>4. QED BY <2>1, <2>3, FewerIsContained
<1>2. QED BY <1>1, InitCMPInv, NextCMPInv, PTL DEF Spec

-----------------------------------------------------------------------------
(* The statements of a file.                                               *)

(* The statements are strings, and the k-th one is what its ends enclose. *)
LEMMA StatementsType ==
    ASSUME script \in Scripts
    PROVE  /\ Len(script.s) \in Nat /\ DOMAIN script.s = 1 .. Len(script.s)
           /\ Len(script.ends) \in Nat /\ DOMAIN script.ends = 1 .. Len(script.ends)
           /\ \A k \in 0 .. Len(script.ends) : End(k) \in 0 .. Len(script.s)
           /\ \A j, k \in 0 .. Len(script.ends) : j < k => End(j) < End(k)
           /\ statements \in Seq(Seq(Quotes \cup {"x", "backslash", "semicolon"}))
           /\ Len(statements) = Len(script.ends)
<1> DEFINE Chars == Quotes \cup {"x", "backslash", "semicolon"}
<1> HIDE DEF Chars
<1>1. WellRead(script)
  BY ScriptsAssumption
<1>2. script.s \in Seq(Chars) /\ script.ends \in Seq(DOMAIN script.s)
  BY <1>1 DEF WellRead, Chars
<1>3. /\ Len(script.s) \in Nat /\ DOMAIN script.s = 1 .. Len(script.s)
      /\ Len(script.ends) \in Nat /\ DOMAIN script.ends = 1 .. Len(script.ends)
  BY <1>2
<1>4. \A k \in 1 .. Len(script.ends) : script.ends[k] \in 1 .. Len(script.s)
  BY <1>2, <1>3
<1>5. \A k \in 0 .. Len(script.ends) : End(k) \in 0 .. Len(script.s)
  BY <1>3, <1>4 DEF End
<1>6. \A j, k \in 1 .. Len(script.ends) : j < k => script.ends[j] < script.ends[k]
  BY <1>1, <1>3 DEF WellRead
<1>7. \A j, k \in 0 .. Len(script.ends) : j < k => End(j) < End(k)
  BY <1>3, <1>4, <1>6 DEF End
<1>8. \A k \in 1 .. Len(script.ends) : SubSeq(script.s, End(k - 1) + 1, End(k)) \in Seq(Chars)
  <2> TAKE k \in 1 .. Len(script.ends)
  <2>1. k - 1 \in 0 .. Len(script.ends) /\ k \in 0 .. Len(script.ends)
    BY <1>3
  <2>2. End(k - 1) \in 0 .. Len(script.s) /\ End(k) \in 0 .. Len(script.s)
    BY <1>5, <2>1
  <2>3. QED BY <1>2, <1>3, <2>2
<1>9. statements = [k \in 1 .. Len(script.ends) |-> SubSeq(script.s, End(k - 1) + 1, End(k))]
  BY <1>3 DEF statements
<1>10. statements \in Seq(Seq(Chars)) /\ Len(statements) = Len(script.ends)
  BY <1>3, <1>8, <1>9
<1>11. QED BY <1>3, <1>5, <1>7, <1>10 DEF Chars

(* At the start no statement is found, and no quote is open. *)
LEMMA ExtractStarts == ExtractInit => LoopInvariant
<1> SUFFICES ASSUME ExtractInit PROVE LoopInvariant
  OBVIOUS
<1>1. script \in Scripts /\ at = 1 /\ start = 1 /\ flag = "none" /\ res = <<>>
  BY DEF ExtractInit
<1>2. WellRead(script)
  BY <1>1, ScriptsAssumption
<1>3. ExtractTypeOK
  BY <1>1, StatementsType DEF ExtractTypeOK
<1>4. Found(0)
  <2>1. SubSeq(statements, 1, 0) = <<>>
    BY <1>1, StatementsType
  <2>2. 0 < Len(script.ends) => 1 <= End(1)
    BY <1>1, StatementsType DEF End
  <2>3. QED BY <1>1, <2>1, <2>2 DEF Found, End
<1>5. at <= Len(script.s) => script.as[1] \in {"out", "open"}
  BY <1>1, <1>2, StatementsType DEF WellRead
<1>6. 0 \in 0 .. Len(script.ends)
  BY <1>1, StatementsType
<1>7. QED BY <1>1, <1>3, <1>4, <1>5, <1>6 DEF LoopInvariant, LeftOpen

(* The character at at, and what it says of the next one. *)
LEMMA CharacterAt ==
    ASSUME LoopInvariant, at <= Len(script.s)
    PROVE  /\ at \in 1 .. Len(script.s)
           /\ Reads(script.as[at], script.quote[at], script.s[at])
           /\ script.as[at] # "escaped"
           /\ flag = "none" => script.as[at] \in {"out", "open", "second"}
           /\ flag # "none" =>
                 /\ flag = script.quote[at]
                 /\ script.as[at] \in {"text", "escape", "first", "close"}
           /\ at + 1 <= Len(script.s) =>
                 /\ script.as[at + 1] \in After(script.as[at])
                 /\ script.as[at + 1] \notin {"out", "open"} =>
                       script.quote[at + 1] = script.quote[at]
<1>1. script \in Scripts /\ at \in 1 .. Len(script.s) + 2
  BY DEF LoopInvariant, ExtractTypeOK
<1>2. WellRead(script) /\ DOMAIN script.s = 1 .. Len(script.s) /\ Len(script.s) \in Nat
  BY <1>1, ScriptsAssumption, StatementsType
<1>3. at \in 1 .. Len(script.s)
  BY <1>1, <1>2
<1>4. \A p \in 1 .. Len(script.s) :
          /\ Reads(script.as[p], script.quote[p], script.s[p])
          /\ script.as[p] \in (IF p = 1 THEN {"out", "open"} ELSE After(script.as[p - 1]))
          /\ script.as[p] \notin {"out", "open"} => script.quote[p] = script.quote[p - 1]
  BY <1>2 DEF WellRead
<1>5. flag = LeftOpen /\ script.as[at] # "escaped"
  BY DEF LoopInvariant
<1>6. at + 1 <= Len(script.s) =>
                 /\ script.as[at + 1] \in After(script.as[at])
                 /\ script.as[at + 1] \notin {"out", "open"} =>
                       script.quote[at + 1] = script.quote[at]
  <2> SUFFICES ASSUME at + 1 <= Len(script.s)
               PROVE  /\ script.as[at + 1] \in After(script.as[at])
                      /\ script.as[at + 1] \notin {"out", "open"} =>
                            script.quote[at + 1] = script.quote[at]
    OBVIOUS
  <2> DEFINE p == at + 1
  <2>1. p \in 1 .. Len(script.s) /\ p # 1 /\ p - 1 = at
    BY <1>1, <1>2
  <2>2. QED BY <1>4, <2>1
<1>7. CASE at = 1
  <2>1. script.as[at] \in {"out", "open"} /\ flag = "none"
    BY <1>3, <1>4, <1>5, <1>7 DEF LeftOpen
  <2>2. QED BY <1>3, <1>4, <1>5, <1>6, <2>1
<1>8. CASE at # 1
  <2> DEFINE before == script.as[at - 1]
  <2>1. at - 1 \in 1 .. Len(script.s) /\ at > 1
    BY <1>3, <1>8
  <2>2. /\ Reads(before, script.quote[at - 1], script.s[at - 1])
        /\ script.as[at] \in After(before)
        /\ script.as[at] \notin {"out", "open"} => script.quote[at] = script.quote[at - 1]
    BY <1>3, <1>4, <1>8, <2>1
  <2>3. flag = IF before \in {"open", "text", "escaped", "second"} THEN script.quote[at - 1] ELSE "none"
    BY <1>5, <2>1 DEF LeftOpen
  <2>4. before \in {"open", "text", "escaped", "second"} => script.quote[at - 1] # "none"
    BY <2>2 DEF Reads, Quotes
  <2>5. before # "escape"
    BY <1>5, <2>2 DEF After
  <2>6. before \in {"out", "close", "open", "text", "escaped", "second", "first"}
    BY <2>2, <2>5 DEF Reads
  <2>7. CASE before \in {"out", "close"}
    BY <1>3, <1>4, <1>5, <1>6, <2>2, <2>3, <2>7 DEF After
  <2>8. CASE before \in {"open", "text", "escaped", "second"}
    BY <1>3, <1>4, <1>5, <1>6, <2>2, <2>3, <2>4, <2>8 DEF After
  <2>9. CASE before = "first"
    BY <1>3, <1>4, <1>5, <1>6, <2>2, <2>3, <2>9 DEF After
  <2>10. QED BY <2>6, <2>7, <2>8, <2>9
<1>9. QED BY <1>7, <1>8

(* A step over a character that ends no statement. *)
LEMMA StepOver ==
    ASSUME LoopInvariant, at <= Len(script.s), UNCHANGED <<script, start, res>>,
           at' \in {at + 1, at + 2}, at' <= Len(script.s) + 2,
           \A p \in at .. at' - 1 : p <= Len(script.s) => ~(script.as[p] = "out" /\ script.s[p] = "semicolon"),
           at' <= Len(script.s) => flag' = LeftOpen' /\ script.as[at'] # "escaped"
    PROVE  LoopInvariant'
<1>1. PICK n \in 0 .. Len(script.ends) : Found(n)
  BY DEF LoopInvariant
<1>2. script \in Scripts /\ at \in 1 .. Len(script.s) + 2
  BY DEF LoopInvariant, ExtractTypeOK
<1>3. /\ Len(script.s) \in Nat /\ DOMAIN script.s = 1 .. Len(script.s)
      /\ Len(script.ends) \in Nat /\ DOMAIN script.ends = 1 .. Len(script.ends)
      /\ \A k \in 0 .. Len(script.ends) : End(k) \in 0 .. Len(script.s)
  BY <1>2, StatementsType
<1>4. ExtractTypeOK'
  BY <1>2, <1>3 DEF ExtractTypeOK
<1>5. ASSUME n < Len(script.ends)
      PROVE  at' <= End(n + 1)
  <2> DEFINE e == End(n + 1)
  <2>1. n + 1 \in 0 .. Len(script.ends) /\ n + 1 \in 1 .. Len(script.ends)
    BY <1>1, <1>3, <1>5
  <2>2. e = script.ends[n + 1] /\ e \in 0 .. Len(script.s) /\ at <= e
    BY <1>1, <1>3, <1>5, <2>1 DEF End, Found
  <2>3. e \in 1 .. Len(script.s)
    BY <1>2, <1>3, <2>2
  <2>4. script.as[e] = "out" /\ script.s[e] = "semicolon"
    <3> HIDE DEF e
    <3>1. WellRead(script)
      BY <1>2, ScriptsAssumption
    <3>2. (script.as[e] = "out" /\ script.s[e] = "semicolon")
             <=> \E k \in 1 .. Len(script.ends) : script.ends[k] = e
      BY <1>3, <2>3, <3>1 DEF WellRead
    <3>3. QED BY <2>1, <2>2, <3>2
  <2>5. e \notin at .. at' - 1
    <3> HIDE DEF e
    <3>1. e <= Len(script.s)
      BY <1>3, <2>3
    <3>2. QED BY <2>4, <3>1
  <2>6. QED BY <1>2, <1>3, <2>2, <2>3, <2>5
<1>6. statements' = statements /\ End(n)' = End(n) /\ (n < Len(script.ends) => End(n + 1)' = End(n + 1))
  BY DEF statements, End
<1>7. Found(n)'
  BY <1>1, <1>2, <1>3, <1>5, <1>6 DEF Found
<1>8. QED BY <1>3, <1>4, <1>7 DEF LoopInvariant

(* The invariant of the loop, action by action. *)
LEMMA QuoteKeeps == LoopInvariant /\ Quote => LoopInvariant'
<1> SUFFICES ASSUME LoopInvariant, Quote PROVE LoopInvariant'
  OBVIOUS
<1> DEFINE a == script.as[at]
           q == script.quote[at]
<1>1. /\ at <= Len(script.s) /\ script.s[at] \in Quotes
      /\ flag' = IF flag = "none" THEN script.s[at] ELSE IF flag = script.s[at] THEN "none" ELSE flag
      /\ at' = at + 1 /\ UNCHANGED <<script, start, res>>
  BY DEF Quote, At
<1>2. /\ at \in 1 .. Len(script.s)
      /\ Reads(a, q, script.s[at])
      /\ a # "escaped"
      /\ flag = "none" => a \in {"out", "open", "second"}
      /\ flag # "none" => flag = q /\ a \in {"text", "escape", "first", "close"}
      /\ at + 1 <= Len(script.s) => script.as[at + 1] \in After(a)
  BY <1>1, CharacterAt
<1>3. Len(script.s) \in Nat
  BY StatementsType DEF LoopInvariant, ExtractTypeOK
<1>4. /\ a \in {"open", "second", "text", "first", "close"}
      /\ flag' = IF a \in {"open", "text", "escaped", "second"} THEN q ELSE "none"
  <2> HIDE DEF a, q
  <2>1. a # "out" /\ a # "escape"
    BY <1>1, <1>2 DEF Reads, Quotes
  <2>2. CASE flag = "none"
    BY <1>1, <1>2, <2>1, <2>2 DEF Reads, Quotes
  <2>3. CASE flag # "none"
    BY <1>1, <1>2, <2>1, <2>3 DEF Reads, Quotes
  <2>4. QED BY <2>2, <2>3
<1>5. \A p \in at .. at' - 1 : ~(script.as[p] = "out" /\ script.s[p] = "semicolon")
  <2>1. \A p \in at .. at' - 1 : p = at
    BY <1>1, <1>2
  <2>2. QED BY <1>4, <2>1
<1>6. LeftOpen' = IF a \in {"open", "text", "escaped", "second"} THEN q ELSE "none"
  <2>1. at' > 1 /\ at' - 1 = at
    BY <1>1, <1>2
  <2>2. QED BY <1>1, <2>1 DEF LeftOpen
<1>7. at' <= Len(script.s) => script.as[at'] # "escaped"
  BY <1>1, <1>2, <1>4 DEF After
<1>8. at' \in {at + 1, at + 2} /\ at' <= Len(script.s) + 2
  BY <1>1, <1>2, <1>3
<1>9. QED BY <1>1, <1>4, <1>5, <1>6, <1>7, <1>8, StepOver

(* A backslash. *)
LEMMA BackslashKeeps == LoopInvariant /\ Backslash => LoopInvariant'
<1> SUFFICES ASSUME LoopInvariant, Backslash PROVE LoopInvariant'
  OBVIOUS
<1> DEFINE a == script.as[at]
           q == script.quote[at]
<1>1. /\ at <= Len(script.s) /\ script.s[at] = "backslash"
      /\ at' = at + (IF flag = "none" THEN 1 ELSE 2)
      /\ UNCHANGED <<script, start, flag, res>>
  BY DEF Backslash, At
<1>2. /\ at \in 1 .. Len(script.s)
      /\ Reads(a, q, script.s[at])
      /\ a # "escaped"
      /\ flag = "none" => a \in {"out", "open", "second"}
      /\ flag # "none" => flag = q /\ a \in {"text", "escape", "first", "close"}
      /\ at + 1 <= Len(script.s) =>
            /\ script.as[at + 1] \in After(a)
            /\ script.as[at + 1] \notin {"out", "open"} => script.quote[at + 1] = q
  BY <1>1, CharacterAt
<1>3. Len(script.s) \in Nat /\ script \in Scripts /\ DOMAIN script.s = 1 .. Len(script.s)
  BY StatementsType DEF LoopInvariant, ExtractTypeOK
<1>4. CASE flag = "none"
  <2>1. a = "out" /\ at' = at + 1
    BY <1>1, <1>2, <1>4 DEF Reads, Quotes
  <2>2. \A p \in at .. at' - 1 : ~(script.as[p] = "out" /\ script.s[p] = "semicolon")
    <3>1. \A p \in at .. at' - 1 : p = at
      BY <1>2, <2>1
    <3>2. QED BY <1>1, <3>1
  <2>3. LeftOpen' = "none"
    <3>1. at' > 1 /\ at' - 1 = at
      BY <1>2, <2>1
    <3>2. QED BY <1>1, <2>1, <3>1 DEF LeftOpen
  <2>4. at' <= Len(script.s) => script.as[at'] # "escaped"
    BY <1>2, <2>1 DEF After
  <2>5. at' \in {at + 1, at + 2} /\ at' <= Len(script.s) + 2
    BY <1>2, <1>3, <2>1
  <2>6. QED BY <1>1, <1>4, <2>2, <2>3, <2>4, <2>5, StepOver
<1>5. CASE flag # "none"
  <2>1. a = "escape" /\ flag = q /\ at' = at + 2
    BY <1>1, <1>2, <1>5 DEF Reads, Quotes
  <2>2. at + 1 <= Len(script.s) => script.as[at + 1] = "escaped" /\ script.quote[at + 1] = q
    BY <1>2, <2>1 DEF After
  <2>3. \A p \in at .. at' - 1 : p <= Len(script.s) => ~(script.as[p] = "out" /\ script.s[p] = "semicolon")
    <3>1. \A p \in at .. at' - 1 : p = at \/ p = at + 1
      BY <1>2, <2>1
    <3>2. QED BY <1>1, <2>1, <2>2, <3>1
  <2>4. at' <= Len(script.s) => flag' = LeftOpen' /\ script.as[at'] # "escaped"
    <3> SUFFICES ASSUME at' <= Len(script.s)
                 PROVE  flag' = LeftOpen' /\ script.as[at'] # "escaped"
      OBVIOUS
    <3>1. /\ at' > 1 /\ at' - 1 = at + 1 /\ at + 1 <= Len(script.s)
          /\ at' \in 1 .. Len(script.s) /\ at' # 1
      BY <1>2, <1>3, <2>1
    <3>2. LeftOpen' = q
      BY <1>1, <2>2, <3>1 DEF LeftOpen
    <3>3. script.as[at'] \in After(script.as[at' - 1])
      BY <1>3, <3>1, ScriptsAssumption DEF WellRead
    <3>4. script.as[at'] # "escaped"
      BY <2>2, <3>1, <3>3 DEF After
    <3>5. QED BY <1>1, <2>1, <3>2, <3>4
  <2>5. at' \in {at + 1, at + 2} /\ at' <= Len(script.s) + 2
    BY <1>2, <1>3, <2>1
  <2>6. QED BY <1>1, <2>3, <2>4, <2>5, StepOver
<1>6. QED BY <1>4, <1>5

(* A character that the loop's switch does nothing about, or a semicolon   *)
(* between quotes.                                                         *)
LEMMA NothingKeeps ==
    ASSUME LoopInvariant, at <= Len(script.s), UNCHANGED <<script, start, flag, res>>, at' = at + 1,
           script.s[at] \notin Quotes \cup {"backslash", "semicolon"} \/ (script.s[at] = "semicolon" /\ flag # "none")
    PROVE  LoopInvariant'
<1> DEFINE a == script.as[at]
           q == script.quote[at]
<1>2. /\ at \in 1 .. Len(script.s)
      /\ Reads(a, q, script.s[at])
      /\ a # "escaped"
      /\ flag = "none" => a \in {"out", "open", "second"}
      /\ flag # "none" => flag = q /\ a \in {"text", "escape", "first", "close"}
      /\ at + 1 <= Len(script.s) => script.as[at + 1] \in After(a)
  BY CharacterAt
<1>3. Len(script.s) \in Nat
  BY StatementsType DEF LoopInvariant, ExtractTypeOK
<1>4. \/ flag = "none" /\ a = "out" /\ script.s[at] # "semicolon"
      \/ flag = q /\ a = "text"
  <2> HIDE DEF a, q
  <2>1. CASE flag = "none"
    BY <1>2, <2>1 DEF Reads, Quotes
  <2>2. CASE flag # "none"
    BY <1>2, <2>2 DEF Reads, Quotes
  <2>3. QED BY <2>1, <2>2
<1>5. \A p \in at .. at' - 1 : ~(script.as[p] = "out" /\ script.s[p] = "semicolon")
  <2>1. \A p \in at .. at' - 1 : p = at
    BY <1>2
  <2>2. QED BY <1>4, <2>1
<1>6. LeftOpen' = flag'
  <2>1. at' > 1 /\ at' - 1 = at
    BY <1>2
  <2>2. QED BY <1>4, <2>1 DEF LeftOpen
<1>7. at' <= Len(script.s) => script.as[at'] # "escaped"
  BY <1>2, <1>4 DEF After
<1>8. at' \in {at + 1, at + 2} /\ at' <= Len(script.s) + 2
  BY <1>2, <1>3
<1>9. QED BY <1>5, <1>6, <1>7, <1>8, StepOver

(* A semicolon. *)
LEMMA SemicolonKeeps == LoopInvariant /\ Semicolon => LoopInvariant'
<1> SUFFICES ASSUME LoopInvariant, Semicolon PROVE LoopInvariant'
  OBVIOUS
<1>1. at <= Len(script.s) /\ script.s[at] = "semicolon" /\ at' = at + 1 /\ UNCHANGED <<script, flag>>
  BY DEF Semicolon, At
<1>2. CASE flag # "none"
  BY <1>1, <1>2, NothingKeeps DEF Semicolon
<1>3. CASE flag = "none"
  <2>1. res' = Append(res, SubSeq(script.s, start, at)) /\ start' = at + 1
    BY <1>3 DEF Semicolon
  <2>2. /\ at \in 1 .. Len(script.s) /\ script.as[at] = "out"
        /\ at + 1 <= Len(script.s) => script.as[at + 1] \in After(script.as[at])
    BY <1>1, <1>3, CharacterAt DEF Reads, Quotes
  <2>3. script \in Scripts /\ WellRead(script)
    BY ScriptsAssumption DEF LoopInvariant, ExtractTypeOK
  <2>4. /\ Len(script.s) \in Nat /\ DOMAIN script.s = 1 .. Len(script.s)
        /\ Len(script.ends) \in Nat /\ DOMAIN script.ends = 1 .. Len(script.ends)
        /\ \A k \in 0 .. Len(script.ends) : End(k) \in 0 .. Len(script.s)
        /\ \A j, k \in 0 .. Len(script.ends) : j < k => End(j) < End(k)
    BY <2>3, StatementsType
  <2>5. PICK n \in 0 .. Len(script.ends) : Found(n)
    BY DEF LoopInvariant
  <2>6. PICK k \in 1 .. Len(script.ends) : script.ends[k] = at
    BY <1>1, <2>2, <2>3, <2>4 DEF WellRead
  <2>7. End(k) = at /\ k \in 0 .. Len(script.ends)
    BY <2>4, <2>6 DEF End
  <2>8. k = n + 1
    <3>1. n < k
      <4>1. SUFFICES ASSUME k <= n PROVE FALSE
        BY <2>4, <2>5, <2>6
      <4>2. End(k) <= End(n)
        BY <2>4, <2>5, <2>6, <2>7, <4>1
      <4>3. End(n) < at
        BY <2>5 DEF Found
      <4>4. QED BY <2>2, <2>4, <2>5, <2>7, <4>2, <4>3
    <3>2. ~(n + 1 < k)
      <4>1. SUFFICES ASSUME n + 1 < k PROVE FALSE
        OBVIOUS
      <4>2. n + 1 \in 0 .. Len(script.ends) /\ n < Len(script.ends)
        BY <2>4, <2>5, <2>6, <4>1
      <4>3. End(n + 1) < End(k) /\ End(n + 1) \in Int
        BY <2>4, <2>7, <4>1, <4>2
      <4>4. at <= End(n + 1)
        BY <2>5, <4>2 DEF Found
      <4>5. QED BY <2>2, <2>7, <4>3, <4>4
    <3>3. QED BY <2>4, <2>5, <2>6, <3>1, <3>2
  <2>9. SubSeq(script.s, start, at) = statements[k]
    <3>1. start = End(k - 1) + 1
      BY <2>5, <2>8 DEF Found
    <3>2. QED BY <2>4, <2>6, <2>7, <3>1 DEF statements
  <2>10. res' = SubSeq(statements, 1, k)
    <3>1. statements \in Seq(Seq(Quotes \cup {"x", "backslash", "semicolon"})) /\ Len(statements) = Len(script.ends)
      BY <2>3, StatementsType
    <3>2. res = SubSeq(statements, 1, n)
      BY <2>5 DEF Found
    <3>3. \A S : \A st \in Seq(S) : \A m \in 0 .. Len(st) - 1 : Append(SubSeq(st, 1, m), st[m + 1]) = SubSeq(st, 1, m + 1)
      OBVIOUS
    <3>4. n \in 0 .. Len(statements) - 1
      BY <2>4, <2>5, <2>6, <2>8, <3>1
    <3>5. QED BY <2>1, <2>8, <2>9, <3>1, <3>2, <3>3, <3>4
  <2>11. statements' = statements /\ End(k)' = End(k) /\ (k < Len(script.ends) => End(k + 1)' = End(k + 1))
    BY <1>1 DEF statements, End
  <2>12. k < Len(script.ends) => at + 1 <= End(k + 1)
    <3> SUFFICES ASSUME k < Len(script.ends) PROVE at + 1 <= End(k + 1)
      OBVIOUS
    <3>1. k + 1 \in 0 .. Len(script.ends)
      BY <2>4, <2>6
    <3>2. End(k) < End(k + 1) /\ End(k + 1) \in Int
      BY <2>4, <2>6, <2>7, <3>1
    <3>3. QED BY <2>2, <2>4, <2>7, <3>2
  <2>13. Found(k)'
    BY <1>1, <2>1, <2>2, <2>4, <2>7, <2>10, <2>11, <2>12 DEF Found
  <2>14. ExtractTypeOK'
    BY <1>1, <2>2, <2>3, <2>4 DEF ExtractTypeOK
  <2>15. LeftOpen' = "none"
    <3>1. at' > 1 /\ at' - 1 = at
      BY <1>1, <2>2
    <3>2. QED BY <1>1, <2>2, <3>1 DEF LeftOpen
  <2>16. at' <= Len(script.s) => script.as[at'] # "escaped"
    BY <1>1, <2>2 DEF After
  <2>17. QED BY <1>1, <1>3, <2>6, <2>7, <2>13, <2>14, <2>15, <2>16 DEF LoopInvariant
<1>4. QED BY <1>2, <1>3

(* The loop keeps its invariant. *)
LEMMA LoopKeeps == LoopInvariant /\ [ExtractNext]_extractVars => LoopInvariant'
<1>1. LoopInvariant /\ Other => LoopInvariant'
  BY NothingKeeps DEF Other, At
<1>2. ASSUME LoopInvariant, UNCHANGED extractVars
      PROVE  LoopInvariant'
  <2>1. UNCHANGED <<script, at, start, flag, res>>
    BY <1>2 DEF extractVars
  <2>2. statements' = statements /\ LeftOpen' = LeftOpen
    BY <2>1 DEF statements, LeftOpen, End
  <2>3. \A n \in 0 .. Len(script.ends) : Found(n)' <=> Found(n)
    BY <2>1, <2>2 DEF Found, End
  <2>4. QED BY <1>2, <2>1, <2>2, <2>3 DEF LoopInvariant, ExtractTypeOK
<1>3. QED BY <1>1, <1>2, QuoteKeeps, BackslashKeeps, SemicolonKeeps DEF ExtractNext

(* A script is cut into its statements, however many they are and whatever *)
(* their quotes enclose (extractsqls.go:20-66).                            *)
THEOREM ScriptRead == ExtractSpec => []StatementsFound
<1>1. LoopInvariant => StatementsFound
  <2> SUFFICES ASSUME LoopInvariant PROVE StatementsFound
    OBVIOUS
  <2>1. PICK n \in 0 .. Len(script.ends) : Found(n)
    BY DEF LoopInvariant
  <2> DEFINE Strings == Seq(Quotes \cup {"x", "backslash", "semicolon"})
  <2>2. script \in Scripts /\ at \in 1 .. Len(script.s) + 2
    BY DEF LoopInvariant, ExtractTypeOK
  <2>3. /\ statements \in Seq(Strings) /\ Len(statements) = Len(script.ends) /\ Len(script.ends) \in Nat
        /\ Len(script.s) \in Nat /\ \A k \in 0 .. Len(script.ends) : End(k) \in 0 .. Len(script.s)
    BY <2>2, StatementsType
  <2> HIDE DEF Strings
  <2>4. res = SubSeq(statements, 1, n) /\ Len(res) = n
    BY <2>1, <2>3 DEF Found
  <2>5. IsPrefix(res, statements)
    BY <2>1, <2>3, <2>4 DEF IsPrefix
  <2>6. ASSUME at > Len(script.s) PROVE res = statements
    <3>1. ~(n < Len(script.ends))
      <4>1. SUFFICES ASSUME n < Len(script.ends) PROVE FALSE
        OBVIOUS
      <4>2. at <= End(n + 1)
        BY <2>1, <4>1 DEF Found
      <4>3. n + 1 \in 0 .. Len(script.ends)
        BY <2>1, <2>3, <4>1
      <4>4. End(n + 1) \in 0 .. Len(script.s)
        BY <2>3, <4>3
      <4>5. QED BY <2>2, <2>3, <2>6, <4>2, <4>4
    <3>2. n = Len(statements)
      BY <2>1, <2>3, <3>1
    <3>3. QED BY <2>3, <2>4, <3>2
  <2>7. QED BY <2>5, <2>6 DEF StatementsFound
<1>2. QED BY <1>1, ExtractStarts, LoopKeeps, PTL DEF ExtractSpec

-----------------------------------------------------------------------------
(* The detector of false positives.                                        *)

\* One more round adds one to those that contradict, or nothing.
LEMMA RoundCounted ==
    ASSUME NEW s \in Seq(Outcomes \X Outcomes), NEW p \in Outcomes \X Outcomes
    PROVE  Cardinality({k \in DOMAIN Append(s, p) : Contradicts(Append(s, p)[k])})
             = Cardinality({k \in DOMAIN s : Contradicts(s[k])}) + (IF Contradicts(p) THEN 1 ELSE 0)
<1> DEFINE t == Append(s, p)
           Of(u) == {k \in DOMAIN u : Contradicts(u[k])}
           n == Len(s) + 1
<1>1. /\ DOMAIN s = 1 .. Len(s) /\ Len(s) \in Nat
      /\ DOMAIN t = 1 .. Len(s) + 1
      /\ \A k \in DOMAIN s : t[k] = s[k]
      /\ t[Len(s) + 1] = p
  OBVIOUS
<1> HIDE DEF t
<1>2. IsFiniteSet(Of(s)) /\ n \notin Of(s)
  <2>1. IsFiniteSet(1 .. Len(s))
    BY <1>1, FS_Interval
  <2>2. IsFiniteSet(Of(s))
    BY <1>1, <2>1, FS_Subset
  <2> QED
    BY <1>1, <2>2
<1>3. Cardinality(Of(s)) \in Nat
  BY <1>2, FS_CardinalityType
<1>4. CASE Contradicts(p)
  <2>1. Of(t) = Of(s) \cup {n}
    BY <1>1, <1>4
  <2>2. Cardinality(Of(t)) = Cardinality(Of(s)) + 1
    BY <1>2, <2>1, FS_AddElement
  <2> QED
    BY <1>4, <2>2 DEF t
<1>5. CASE ~Contradicts(p)
  <2>1. Of(t) = Of(s)
    BY <1>1, <1>5
  <2> DEFINE c == Cardinality(Of(s))
  <2>2. Cardinality(Of(t)) = c /\ c \in Nat
    BY <1>3, <2>1
  <2> HIDE DEF c
  <2>3. Cardinality(Of(t)) = c + 0
    BY <2>2
  <2> QED
    BY <1>5, <2>3 DEF t, c
<1> QED
  BY <1>4, <1>5

\* No more rounds contradict than were completed.
LEMMA BackBounded ==
    ASSUME NEW s \in Seq(Outcomes \X Outcomes)
    PROVE  /\ Cardinality({k \in DOMAIN s : Contradicts(s[k])}) \in Nat
           /\ Cardinality({k \in DOMAIN s : Contradicts(s[k])}) <= Len(s)
<1> DEFINE R == {k \in DOMAIN s : Contradicts(s[k])}
<1>1. Len(s) \in Nat /\ R \subseteq 1 .. Len(s)
  OBVIOUS
<1> HIDE DEF R
<1>2. IsFiniteSet(1 .. Len(s)) /\ Cardinality(1 .. Len(s)) = Len(s)
  <2> DEFINE n == Len(s)
  <2>1. n \in Nat
    BY <1>1
  <2> HIDE DEF n
  <2>2. IsFiniteSet(1 .. n) /\ Cardinality(1 .. n) = IF 1 > n THEN 0 ELSE n - 1 + 1
    BY <2>1, FS_Interval
  <2>3. IsFiniteSet(1 .. n) /\ Cardinality(1 .. n) = n
    BY <2>1, <2>2
  <2> QED
    BY <2>3 DEF n
<1>3. IsFiniteSet(R) /\ Cardinality(R) <= Cardinality(1 .. Len(s))
  BY <1>1, <1>2, FS_Subset
<1>4. Cardinality(R) \in Nat
  BY <1>3, FS_CardinalityType
<1> QED
  BY <1>2, <1>3, <1>4 DEF R

\* Before anything is executed.
LEMMA DetectorStarts == FalsePositiveAssumption /\ DetectorInit => DetectorInvariant
<1> SUFFICES ASSUME FalsePositiveAssumption, DetectorInit PROVE DetectorInvariant
  OBVIOUS
<1>1. seen \in Seq(Outcomes \X Outcomes) /\ baseline \in Seq(Outcomes)
      /\ Len(seen) = 0 /\ Len(baseline) = 0
  BY DEF DetectorInit
<1>2. Back = 0
  <2>1. {k \in DOMAIN seen : Contradicts(seen[k])} = {}
    BY DEF DetectorInit
  <2> QED
    BY <2>1, FS_EmptySet DEF Back
<1>3. /\ detector = "baseOrig" /\ isUpper \in BOOLEAN /\ suspected = FALSE /\ round = 0
      /\ consistent = 0 /\ ReExecutions \in Nat
  BY DEF DetectorInit, FalsePositiveAssumption
<1>4. detector \in DOMAIN Past /\ Past[detector] = 0
  BY <1>3 DEF Past
<1>5. round \in 0 .. ReExecutions /\ Len(seen) <= round
  BY <1>1, <1>3
<1> QED
  BY <1>1, <1>2, <1>3, <1>4, <1>5 DEF DetectorInvariant, SuspicionJustified

\* What does not touch the history leaves the count.
LEMMA BackSame == UNCHANGED <<seen, isUpper>> => Back' = Back
BY DEF Back, Contradicts

\* The first query of the baseline.
LEMMA BaselineOriginalKeeps == DetectorInvariant /\ BaselineOriginal => DetectorInvariant'
<1> SUFFICES ASSUME DetectorInvariant, BaselineOriginal PROVE DetectorInvariant'
  OBVIOUS
<1>1. PICK r \in Outcomes : baseline' = <<r>> /\ detector' = (IF r.err THEN "failed" ELSE "baseMut")
  BY DEF BaselineOriginal
<1>2. baseline' \in Seq(Outcomes) /\ Len(baseline') = 1 /\ detector' \in {"failed", "baseMut"}
  BY <1>1
<1> QED
  BY <1>2, BackSame DEF BaselineOriginal, DetectorInvariant, SuspicionJustified, Past

\* The elements of a longer sequence.
LEMMA Appended ==
    ASSUME NEW S, NEW s \in Seq(S), NEW e \in S
    PROVE  /\ Append(s, e) \in Seq(S)
           /\ Len(Append(s, e)) = Len(s) + 1
           /\ \A k \in 1 .. Len(s) : Append(s, e)[k] = s[k]
           /\ Append(s, e)[Len(s) + 1] = e
OBVIOUS

\* The second query, after which the baseline may give a reason.
LEMMA BaselineMutatedKeeps ==
    FalsePositiveAssumption /\ DetectorInvariant /\ BaselineMutated => DetectorInvariant'
<1> SUFFICES ASSUME FalsePositiveAssumption, DetectorInvariant, BaselineMutated
             PROVE  DetectorInvariant'
  OBVIOUS
<1>1. baseline \in Seq(Outcomes) /\ Len(baseline) = 1
  BY DEF DetectorInvariant, BaselineMutated, Past
<1>2. PICK r \in Outcomes :
         /\ baseline' = Append(baseline, r)
         /\ detector' = (IF r.err THEN "failed" ELSE "orig")
         /\ suspected' = (/\ ~r.err
                          /\ \/ SmallDifference(Len(baseline[1].rows), Len(r.rows))
                             \/ isKnownEdgeCase(mutationName, Len(baseline[1].rows), Len(r.rows)))
  BY DEF BaselineMutated
<1>3. r.err \in BOOLEAN
  BY DEF FalsePositiveAssumption, ResultSet
<1>4. /\ baseline' \in Seq(Outcomes) /\ Len(baseline') = 2
      /\ baseline'[1] = baseline[1] /\ baseline'[2] = r
  <2>1. baseline' = Append(baseline, r) /\ r \in Outcomes
    BY <1>2
  <2> DEFINE longer == Append(baseline, r)
  <2>2. baseline \in Seq(Outcomes) /\ r \in Outcomes
    BY <1>1, <2>1
  <2>3. /\ longer \in Seq(Outcomes) /\ Len(longer) = Len(baseline) + 1
        /\ \A k \in 1 .. Len(baseline) : longer[k] = baseline[k]
        /\ longer[Len(baseline) + 1] = r
    BY <2>2, Appended
  <2> HIDE DEF longer
  <2>4. /\ baseline' \in Seq(Outcomes) /\ Len(baseline') = Len(baseline) + 1
        /\ \A k \in 1 .. Len(baseline) : baseline'[k] = baseline[k]
        /\ baseline'[Len(baseline) + 1] = r
    BY <2>1, <2>3 DEF longer
  <2>5. 1 \in 1 .. Len(baseline) /\ Len(baseline) + 1 = 2
    BY <1>1
  <2> QED
    BY <2>4, <2>5, Zenon
<1>5. detector' = "orig" => (suspected' <=> BaselineReason')
  <2>1. mutationName' = mutationName
    BY DEF BaselineMutated
  <2> QED
    BY <1>2, <1>3, <1>4, <2>1 DEF BaselineReason, SmallDifference, isKnownEdgeCase
<1>6. suspected' \in BOOLEAN
  BY <1>2, <1>3
<1>7. detector' \in {"failed", "orig"}
  BY <1>2
<1> QED
  BY <1>4, <1>5, <1>6, <1>7, BackSame
     DEF BaselineMutated, DetectorInvariant, SuspicionJustified, Past

\* A round begins.
LEMMA ReExecuteOriginalKeeps ==
    FalsePositiveAssumption /\ DetectorInvariant /\ ReExecuteOriginal => DetectorInvariant'
<1> SUFFICES ASSUME FalsePositiveAssumption, DetectorInvariant, ReExecuteOriginal
             PROVE  DetectorInvariant'
  OBVIOUS
<1>1. PICK r \in Outcomes : IF r.err THEN UNCHANGED <<detector, origin>>
                            ELSE detector' = "mut" /\ origin' = <<r>>
  BY DEF ReExecuteOriginal
<1>2. \/ detector' = "orig"
      \/ detector' = "mut" /\ origin' \in Seq(Outcomes) /\ Len(origin') = 1
  <2>1. r.err \in BOOLEAN
    BY DEF FalsePositiveAssumption, ResultSet
  <2>2. <<r>> \in Seq(Outcomes) /\ Len(<<r>>) = 1
    OBVIOUS
  <2> QED
    BY <1>1, <2>1, <2>2 DEF ReExecuteOriginal
<1>3. round' \in 0 .. ReExecutions /\ Len(seen) < round' /\ Len(seen) <= round'
  <2>1. Len(seen) \in Nat /\ Len(seen) <= round /\ round \in Nat /\ ReExecutions \in Nat
    BY DEF DetectorInvariant, ReExecuteOriginal, FalsePositiveAssumption
  <2> QED
    BY <2>1 DEF ReExecuteOriginal
<1>4. BaselineReason' = BaselineReason
  BY DEF ReExecuteOriginal, BaselineReason, SmallDifference, isKnownEdgeCase
<1> QED
  BY <1>2, <1>3, <1>4, BackSame DEF ReExecuteOriginal, DetectorInvariant, SuspicionJustified, Past

\* A round ends, and counts when its results contradict.
LEMMA ReExecuteMutatedKeeps ==
    FalsePositiveAssumption /\ DetectorInvariant /\ ReExecuteMutated => DetectorInvariant'
<1> SUFFICES ASSUME FalsePositiveAssumption, DetectorInvariant, ReExecuteMutated
             PROVE  DetectorInvariant'
  OBVIOUS
<1>1. /\ seen \in Seq(Outcomes \X Outcomes) /\ Len(seen) < round /\ Len(seen) \in Nat
      /\ round \in 0 .. ReExecutions /\ round \in Nat
  BY DEF DetectorInvariant, ReExecuteMutated, FalsePositiveAssumption
<1>2. origin[1] \in Outcomes
  <2>1. origin \in Seq(Outcomes) /\ Len(origin) = 1
    BY DEF DetectorInvariant, ReExecuteMutated
  <2> QED
    BY <2>1
<1>3. PICK r \in Outcomes :
         IF r.err THEN UNCHANGED <<consistent, seen>>
         ELSE /\ consistent' = (IF Check(origin[1], r, isUpper) THEN consistent ELSE consistent + 1)
              /\ seen' = Append(seen, <<origin[1], r>>)
  BY DEF ReExecuteMutated
<1>4. UNCHANGED <<mutationName, isUpper, baseline, round, suspected>> /\ detector' = "orig"
  BY DEF ReExecuteMutated
<1>5. /\ seen' \in Seq(Outcomes \X Outcomes)
      /\ Len(seen') <= round
      /\ consistent' = Back'
  <2>1. CASE r.err
    <3>1. UNCHANGED <<consistent, seen>>
      BY <1>3, <2>1
    <3> QED
      BY <1>1, <1>4, <3>1, BackSame DEF DetectorInvariant
  <2>2. CASE ~r.err
    <3> DEFINE p == <<origin[1], r>>
    <3>1. p \in Outcomes \X Outcomes /\ p[1] = origin[1] /\ p[2] = r
      BY <1>2
    <3> HIDE DEF p
    <3>2. seen' = Append(seen, p)
      BY <1>3, <2>2 DEF p
    <3>3. consistent' = consistent + (IF Contradicts(p) THEN 1 ELSE 0)
      <4>1. Contradicts(p) <=> ~Check(origin[1], r, isUpper)
        BY <3>1 DEF Contradicts
      <4>2. consistent \in Nat
        BY <1>1, BackBounded DEF DetectorInvariant, Back
      <4> QED
        BY <1>3, <2>2, <4>1, <4>2
    <3>4. Back' = Cardinality({k \in DOMAIN seen' : Contradicts(seen'[k])})
      BY <1>4 DEF Back, Contradicts
    <3>5. Back' = Back + (IF Contradicts(p) THEN 1 ELSE 0)
      <4>1. Back' = Cardinality({k \in DOMAIN Append(seen, p) : Contradicts(Append(seen, p)[k])})
        BY <3>2, <3>4
      <4> QED
        BY <1>1, <3>1, <4>1, RoundCounted DEF Back
    <3>6. seen' \in Seq(Outcomes \X Outcomes) /\ Len(seen') = Len(seen) + 1
      BY <1>1, <3>1, <3>2
    <3> QED
      BY <1>1, <3>3, <3>5, <3>6 DEF DetectorInvariant
  <2> QED
    BY <2>1, <2>2
<1>6. BaselineReason' = BaselineReason
  BY <1>4 DEF BaselineReason, SmallDifference, isKnownEdgeCase
<1> QED
  BY <1>1, <1>4, <1>5, <1>6 DEF ReExecuteMutated, DetectorInvariant, SuspicionJustified, Past

\* After the last round the count is compared with the threshold.
LEMMA DecideKeeps ==
    FalsePositiveAssumption /\ ThresholdIsTwoThirds /\ DetectorInvariant /\ Decide => DetectorInvariant'
<1> SUFFICES ASSUME FalsePositiveAssumption, ThresholdIsTwoThirds, DetectorInvariant, Decide
             PROVE  DetectorInvariant'
  OBVIOUS
<1>1. Back \in 0 .. ReExecutions
  <2>1. Back \in Nat /\ Back <= Len(seen) /\ Len(seen) \in Nat /\ Len(seen) <= round
    BY BackBounded DEF Back, DetectorInvariant, Decide
  <2>2. round = ReExecutions /\ ReExecutions \in Nat
    BY DEF Decide, FalsePositiveAssumption
  <2> QED
    BY <2>1, <2>2
<1>2. Inconsistent <=> 3 * (1 + Back) < 2 * (1 + ReExecutions)
  BY <1>1 DEF Inconsistent, ConsistentCount, TotalExecutions, ThresholdIsTwoThirds, DetectorInvariant
<1>3. BaselineReason' = BaselineReason /\ Back' = Back
  BY BackSame DEF Decide, BaselineReason, SmallDifference, isKnownEdgeCase
<1>4. suspected' = (suspected \/ Inconsistent) /\ (suspected <=> BaselineReason)
  BY DEF Decide, DetectorInvariant
<1>5. SuspicionJustified'
  BY <1>2, <1>3, <1>4 DEF SuspicionJustified
<1> QED
  BY <1>3, <1>4, <1>5 DEF Decide, DetectorInvariant, Past, Inconsistent

(* A report is suspected exactly for the reasons the code states, whatever *)
(* the executions return, however many rows they have and rounds fail; the *)
(* threshold has to stand for two thirds, as the runners' does.            *)
THEOREM SuspicionExplained ==
    FalsePositiveAssumption /\ ThresholdIsTwoThirds /\ DetectorSpec => []SuspicionJustified
<1> SUFFICES ASSUME FalsePositiveAssumption, ThresholdIsTwoThirds
             PROVE  DetectorSpec => []SuspicionJustified
  OBVIOUS
<1>1. DetectorInit => DetectorInvariant
  BY DetectorStarts
<1>2. ASSUME DetectorInvariant, [DetectorNext]_detectorVars PROVE DetectorInvariant'
  <2>1. CASE BaselineOriginal
    BY <1>2, <2>1, BaselineOriginalKeeps
  <2>2. CASE BaselineMutated
    BY <1>2, <2>2, BaselineMutatedKeeps
  <2>3. CASE ReExecuteOriginal
    BY <1>2, <2>3, ReExecuteOriginalKeeps
  <2>4. CASE ReExecuteMutated
    BY <1>2, <2>4, ReExecuteMutatedKeeps
  <2>5. CASE Decide
    BY <1>2, <2>5, DecideKeeps
  <2>6. CASE UNCHANGED detectorVars
    BY <1>2, <2>6, BackSame DEF detectorVars, DetectorInvariant, SuspicionJustified, BaselineReason,
                                SmallDifference, isKnownEdgeCase
  <2> QED
    BY <1>2, <2>1, <2>2, <2>3, <2>4, <2>5, <2>6 DEF DetectorNext
<1>3. DetectorInvariant => SuspicionJustified
  BY DEF DetectorInvariant
<1> QED
  BY <1>1, <1>2, <1>3, PTL DEF DetectorSpec
=============================================================================
