--------------------------- MODULE PatternsProofs ---------------------------
(***************************************************************************)
(* Proofs about Patterns, for every alphabet, every pattern and every      *)
(* text: an alignment of the old pattern is one of the new pattern, so no  *)
(* induction over the text is needed; about PgMutate, for every statement: *)
(* a clause left replaced is a constant, which no other mutation changes   *)
(* and the deparser does not print; and about PgAnswers, for every tree,   *)
(* by induction on its depth: the candidates have the signs of nodes that  *)
(* the mutation applies to, the search moves a clause as the node that it  *)
(* changes asks for, and the rows of the query move with the clause.       *)
(***************************************************************************)
EXTENDS Patterns, PgAnswers, SequenceTheorems, FiniteSetTheorems, WellFoundedInduction, TLAPS

NoEscapes(p) == \A j \in DOMAIN p : p[j] # "backslash"

\* Without backslashes no position is escaped.
LEMMA PlainNotEscaped ==
    ASSUME NEW p \in Seq(Chars), NoEscapes(p), NEW j \in 1 .. Len(p)
    PROVE  ~Escaped(p, j)
<1> SUFFICES ASSUME NEW n \in 1 .. (j - 1), \A h \in (j - n) .. (j - 1) : p[h] = "backslash"
             PROVE  FALSE
  BY DEF Escaped
<1>1. j - 1 \in (j - n) .. (j - 1) /\ j - 1 \in DOMAIN p
  OBVIOUS
<1> QED
  BY <1>1 DEF NoEscapes

\* ... so each character stands for what it does by itself.
LEMMA PlainRole ==
    ASSUME NEW k, NEW p \in Seq(Chars), NoEscapes(p), NEW j \in 1 .. Len(p)
    PROVE  Role(k, p, j) = CharRole(k, p[j])
BY PlainNotEscaped DEF Role

\* In a LIKE pattern % is any text, everything else one character.
LEMMA LikeRole ==
    ASSUME NEW p \in Seq(Chars), NoEscapes(p), NEW j \in 1 .. Len(p)
    PROVE  Role("like", p, j) = IF p[j] = "percent" THEN "any"
                                ELSE IF p[j] = "underscore" THEN "one" ELSE "letter"
<1>1. p[j] # "backslash" /\ Role("like", p, j) = CharRole("like", p[j])
  BY PlainRole DEF NoEscapes
<1>2. CASE p[j] = "percent"
  BY <1>1, <1>2 DEF CharRole
<1>3. CASE p[j] = "underscore"
  BY <1>1, <1>3 DEF CharRole
<1>4. CASE p[j] # "percent" /\ p[j] # "underscore"
  BY <1>1, <1>4 DEF CharRole
<1> QED
  BY <1>2, <1>3, <1>4

\* What a position of such a pattern takes of the text.
LEMMA LikeFits ==
    ASSUME NEW p \in Seq(Chars), NoEscapes(p), NEW j \in 1 .. Len(p), NEW t, NEW x \in Int,
           NEW y \in Int
    PROVE  Fits("like", p, j, t, x, y) <=>
              /\ x <= y
              /\ p[j] # "percent" => y = x + 1 /\ (p[j] = "underscore" \/ p[j] = t[y])
<1>1. ~Quantified("like", p, j)
  <2>1. ASSUME j < Len(p) PROVE Role("like", p, j + 1) # "quantifier"
    <3>1. j + 1 \in 1 .. Len(p)
      BY <2>1
    <3> QED
      BY <3>1, LikeRole
  <2> QED
    BY <2>1 DEF Quantified
<1>2. CASE p[j] = "percent"
  <2>1. Role("like", p, j) = "any"
    BY <1>2, LikeRole
  <2> QED
    BY <1>2, <2>1 DEF Fits
<1>3. CASE p[j] = "underscore"
  <2>1. Role("like", p, j) = "one"
    BY <1>3, LikeRole
  <2> QED
    BY <1>1, <1>3, <2>1 DEF Fits, FitsOne
<1>4. CASE p[j] # "percent" /\ p[j] # "underscore"
  <2>1. Role("like", p, j) = "letter"
    BY <1>4, LikeRole
  <2> QED
    BY <1>1, <1>4, <2>1 DEF Fits, FitsOne
<1> QED
  BY <1>2, <1>3, <1>4

\* Characters replaced by % : what matched still matches.
LEMMA LikeWidened ==
    ASSUME NEW p \in Seq(Chars), NEW q \in Seq(Chars), NoEscapes(p), NoEscapes(q),
           Len(p) = Len(q), \A j \in 1 .. Len(p) : q[j] = p[j] \/ q[j] = "percent",
           NEW t \in Seq(Chars), Matches("like", p, t)
    PROVE  Matches("like", q, t)
<1>1. PICK cut \in [0 .. Len(p) -> 0 .. Len(t)] : Aligns("like", p, t, cut)
  BY DEF Matches
<1>0. Len(p) \in Nat /\ Len(q) = Len(p) /\ Len(t) \in Nat
  OBVIOUS
<1>2. \A j \in 1 .. Len(q) : Fits("like", q, j, t, cut[j - 1], cut[j])
  <2> TAKE j \in 1 .. Len(q)
  <2>1. j \in 1 .. Len(p) /\ j - 1 \in 0 .. Len(p) /\ j \in 0 .. Len(p)
    BY <1>0
  <2>7. cut[j - 1] \in 0 .. Len(t) /\ cut[j] \in 0 .. Len(t)
    BY <2>1
  <2>2. PICK x \in Int, y \in Int : x = cut[j - 1] /\ y = cut[j]
    BY <2>7, <1>0
  <2>3. Fits("like", p, j, t, x, y)
    BY <1>1, <2>1, <2>2 DEF Aligns
  <2>4. /\ x <= y
        /\ p[j] # "percent" => y = x + 1 /\ (p[j] = "underscore" \/ p[j] = t[y])
    BY <2>1, <2>3, LikeFits
  <2>5. q[j] = p[j] \/ q[j] = "percent"
    BY <2>1
  <2>6. Fits("like", q, j, t, x, y)
    BY <2>4, <2>5, LikeFits
  <2> QED
    BY <2>2, <2>6
<1>3. Aligns("like", q, t, cut)
  BY <1>0, <1>1, <1>2 DEF Aligns
<1> QED
  BY <1>0, <1>3 DEF Matches

(***************************************************************************)
(* REGEXP.                                                                 *)
(***************************************************************************)

\* What a character of these patterns stands for.
LEMMA RegExpRoles ==
    ASSUME NEW c, c # "backslash"
    PROVE  /\ CharRole("regexp", c) \in {"any", "quantifier", "anchor", "one", "letter"}
           /\ CharRole("regexp", c) = "quantifier" <=> c \in Quantifiers
           /\ CharRole("regexp", c) = "anchor" <=> c \in {"caret", "dollar"}
BY DEF CharRole, Quantifiers

\* A quantifier exchanged for another leaves a plain pattern plain.
LEMMA PlainKept ==
    ASSUME NEW p \in Seq(Chars), NEW q \in Seq(Chars), Plain("regexp", p),
           Len(p) = Len(q),
           \A j \in 1 .. Len(p) : q[j] = p[j] \/ {p[j], q[j]} \subseteq Quantifiers
    PROVE  Plain("regexp", q)
<1>1. NoEscapes(p) /\ NoEscapes(q) /\ DOMAIN p = 1 .. Len(p) /\ DOMAIN q = DOMAIN p
  BY DEF Plain, NoEscapes, Quantifiers
<1>2. ASSUME NEW j \in DOMAIN q, q[j] \in Quantifiers
      PROVE  j > 1 /\ Role("regexp", q, j - 1) \in {"one", "letter"}
  <2>1. p[j] \in Quantifiers
    BY <1>1, <1>2
  <2>2. j > 1 /\ Role("regexp", p, j - 1) \in {"one", "letter"}
    BY <1>1, <2>1 DEF Plain
  <2>3. j - 1 \in 1 .. Len(p)
    BY <1>1, <2>2
  <2>4. CharRole("regexp", p[j - 1]) \in {"one", "letter"} /\ p[j - 1] # "backslash"
    BY <1>1, <2>2, <2>3, PlainRole DEF NoEscapes
  <2>5. p[j - 1] \notin Quantifiers
    BY <2>4, RegExpRoles
  <2>6. q[j - 1] = p[j - 1]
    BY <2>3, <2>5
  <2> QED
    BY <1>1, <2>2, <2>3, <2>4, <2>6, PlainRole
<1> QED
  BY <1>1, <1>2 DEF Plain, NoEscapes

\* What a position of a plain pattern takes of the text, by its characters.
LEMMA RegExpFits ==
    ASSUME NEW p \in Seq(Chars), Plain("regexp", p), NEW j \in 1 .. Len(p),
           NEW t, NEW x \in Int, NEW y \in Int
    PROVE  LET role == CharRole("regexp", p[j])
               one(h, c) == CharRole("regexp", p[h]) = "one" \/ p[h] = c
           IN  Fits("regexp", p, j, t, x, y) <=>
               /\ x <= y
               /\ role = "anchor" => y = x /\ x = (IF p[j] = "caret" THEN 0 ELSE Len(t))
               /\ role = "quantifier" =>
                     /\ Times(p[j], y - x)
                     /\ \A h \in (x + 1) .. y : one(j - 1, t[h])
               /\ role \in {"one", "letter"} =>
                     IF j < Len(p) /\ p[j + 1] \in Quantifiers THEN y = x
                     ELSE y = x + 1 /\ one(j, t[y])
<1>1. NoEscapes(p) /\ p[j] # "backslash"
  BY DEF Plain, NoEscapes
<1>2. Role("regexp", p, j) = CharRole("regexp", p[j]) /\ Role("regexp", p, j) # "escape"
  BY <1>1, PlainRole, RegExpRoles
<1>3. Quantified("regexp", p, j) <=> j < Len(p) /\ p[j + 1] \in Quantifiers
  <2>1. ASSUME j < Len(p)
        PROVE  Role("regexp", p, j + 1) = "quantifier" <=> p[j + 1] \in Quantifiers
    <3>1. j + 1 \in 1 .. Len(p)
      BY <2>1
    <3>2. p[j + 1] # "backslash"
      BY <1>1, <3>1 DEF NoEscapes
    <3> QED
      BY <1>1, <3>1, <3>2, PlainRole, RegExpRoles
  <2> QED
    BY <2>1 DEF Quantified
<1>4. Role("regexp", p, j) = "quantifier" => Role("regexp", p, j - 1) = CharRole("regexp", p[j - 1])
  <2> SUFFICES ASSUME Role("regexp", p, j) = "quantifier"
               PROVE  Role("regexp", p, j - 1) = CharRole("regexp", p[j - 1])
    OBVIOUS
  <2>1. p[j] \in Quantifiers
    BY <1>1, <1>2, RegExpRoles
  <2>2. j > 1
    BY <2>1 DEF Plain
  <2>3. j - 1 \in 1 .. Len(p)
    BY <2>2
  <2> QED
    BY <1>1, <2>3, PlainRole
<1> QED
  BY <1>2, <1>3, <1>4 DEF Fits, FitsOne

\* Quantifiers replaced by * : what matched still matches.
LEMMA RegExpWidened ==
    ASSUME NEW p \in Seq(Chars), NEW q \in Seq(Chars), Plain("regexp", p), Plain("regexp", q),
           Len(p) = Len(q),
           \A j \in 1 .. Len(p) : q[j] = p[j] \/ (p[j] \in Quantifiers /\ q[j] = "star"),
           NEW t \in Seq(Chars), Matches("regexp", p, t)
    PROVE  Matches("regexp", q, t)
<1>1. PICK cut \in [0 .. Len(p) -> 0 .. Len(t)] : Aligns("regexp", p, t, cut)
  BY DEF Matches
<1>2. Len(p) \in Nat /\ Len(q) = Len(p) /\ Len(t) \in Nat
  OBVIOUS
<1>3. \A j \in 1 .. Len(q) : Fits("regexp", q, j, t, cut[j - 1], cut[j])
  <2> TAKE j \in 1 .. Len(q)
  <2>1. j \in 1 .. Len(p) /\ j - 1 \in 0 .. Len(p) /\ j \in 0 .. Len(p)
    BY <1>2
  <2>2. cut[j - 1] \in 0 .. Len(t) /\ cut[j] \in 0 .. Len(t)
    BY <2>1
  <2>3. PICK x \in Int, y \in Int : x = cut[j - 1] /\ y = cut[j]
    BY <1>2, <2>2
  <2>4. Fits("regexp", p, j, t, x, y)
    BY <1>1, <2>1, <2>3 DEF Aligns
  <2>5. Fits("regexp", q, j, t, x, y)
    <3>1. CASE p[j] \in Quantifiers
      <4>1. q[j] \in Quantifiers /\ (q[j] = p[j] \/ q[j] = "star")
        BY <2>1, <3>1 DEF Quantifiers
      <4>2. p[j] # "backslash" /\ q[j] # "backslash"
        BY <3>1, <4>1 DEF Quantifiers
      <4>3. CharRole("regexp", p[j]) = "quantifier" /\ CharRole("regexp", q[j]) = "quantifier"
        BY <3>1, <4>1, <4>2, RegExpRoles
      <4>13. j \in DOMAIN p
        BY <2>1
      <4>4. j > 1 /\ Role("regexp", p, j - 1) \in {"one", "letter"}
        BY <3>1, <4>13 DEF Plain
      <4>5. j - 1 \in 1 .. Len(p) /\ NoEscapes(p) /\ p[j - 1] # "backslash"
        BY <2>1, <4>4 DEF Plain, NoEscapes
      <4>6. CharRole("regexp", p[j - 1]) \in {"one", "letter"}
        BY <4>4, <4>5, PlainRole
      <4>7. p[j - 1] \notin Quantifiers
        BY <4>5, <4>6, RegExpRoles
      <4>8. q[j - 1] = p[j - 1]
        BY <4>5, <4>7
      <4>9. /\ x <= y
            /\ Times(p[j], y - x)
            /\ \A h \in (x + 1) .. y : CharRole("regexp", p[j - 1]) = "one" \/ p[j - 1] = t[h]
        BY <2>1, <2>4, <4>3, RegExpFits
      <4>10. Times(q[j], y - x)
        BY <4>1, <4>9 DEF Times
      <4> HIDE DEF Quantifiers
      <4>11. CharRole("regexp", q[j]) \notin {"anchor", "one", "letter"}
        BY <4>3
      <4>12. \A h \in (x + 1) .. y : CharRole("regexp", q[j - 1]) = "one" \/ q[j - 1] = t[h]
        BY <4>8, <4>9
      <4> QED
        BY <4>9, <4>10, <4>11, <4>12, RegExpFits
    <3>2. CASE p[j] \notin Quantifiers
      <4>1. q[j] = p[j]
        BY <2>1, <3>2
      <4>2. p[j] # "backslash"
        BY <2>1 DEF Plain
      <4>3. CharRole("regexp", p[j]) # "quantifier"
        BY <3>2, <4>2, RegExpRoles
      <4>4. j < Len(p) => (q[j + 1] \in Quantifiers <=> p[j + 1] \in Quantifiers)
        <5>1. j < Len(p) => j + 1 \in 1 .. Len(p)
          BY <2>1
        <5> QED
          BY <5>1 DEF Quantifiers
      <4>5. /\ x <= y
            /\ CharRole("regexp", p[j]) = "anchor" =>
                  y = x /\ x = (IF p[j] = "caret" THEN 0 ELSE Len(t))
            /\ CharRole("regexp", p[j]) \in {"one", "letter"} =>
                  IF j < Len(p) /\ p[j + 1] \in Quantifiers THEN y = x
                  ELSE y = x + 1 /\ (CharRole("regexp", p[j]) = "one" \/ p[j] = t[y])
        BY <2>1, <2>4, RegExpFits
      <4>6. /\ CharRole("regexp", q[j]) = "anchor" =>
                  y = x /\ x = (IF q[j] = "caret" THEN 0 ELSE Len(t))
            /\ CharRole("regexp", q[j]) \in {"one", "letter"} =>
                  IF j < Len(q) /\ q[j + 1] \in Quantifiers THEN y = x
                  ELSE y = x + 1 /\ (CharRole("regexp", q[j]) = "one" \/ q[j] = t[y])
        BY <1>2, <4>1, <4>4, <4>5
      <4> QED
        BY <4>1, <4>3, <4>5, <4>6, RegExpFits
    <3> QED
      BY <3>1, <3>2
  <2> QED
    BY <2>3, <2>5
<1>4. Aligns("regexp", q, t, cut)
  BY <1>1, <1>2, <1>3 DEF Aligns
<1> QED
  BY <1>2, <1>4 DEF Matches

\* Without its leading ^ a plain REGEXP is plain and matches what it matched.
LEMMA PrefixRemoved ==
    ASSUME NEW p \in Seq(Chars), Plain("regexp", p), HasPrefix(p, "caret"), NEW q, q = Tail(p)
    PROVE  /\ q \in Seq(Chars)
           /\ Plain("regexp", q)
           /\ \A t \in Seq(Chars) : Matches("regexp", p, t) => Matches("regexp", q, t)
<1>1. /\ q \in Seq(Chars) /\ Len(q) = Len(p) - 1 /\ Len(q) \in Nat
      /\ \A j \in 1 .. Len(q) : j + 1 \in 1 .. Len(p) /\ q[j] = p[j + 1]
  BY DEF HasPrefix
<1>2. NoEscapes(p) /\ NoEscapes(q)
  BY <1>1 DEF Plain, NoEscapes
<1>3. \A j \in 1 .. Len(q) : Role("regexp", q, j) = Role("regexp", p, j + 1)
  <2> TAKE j \in 1 .. Len(q)
  <2>1. j + 1 \in 1 .. Len(p) /\ q[j] = p[j + 1]
    BY <1>1
  <2>2. Role("regexp", q, j) = CharRole("regexp", q[j])
    BY <1>1, <1>2, PlainRole
  <2>3. Role("regexp", p, j + 1) = CharRole("regexp", p[j + 1])
    BY <1>2, <2>1, PlainRole
  <2> QED
    BY <2>1, <2>2, <2>3
<1>4. Plain("regexp", q)
  <2>1. ASSUME NEW j \in 1 .. Len(q), q[j] \in Quantifiers
        PROVE  j > 1 /\ Role("regexp", q, j - 1) \in {"one", "letter"}
    <3>1. Role("regexp", p, j) \in {"one", "letter"}
      <4>1. j + 1 \in DOMAIN p /\ p[j + 1] \in Quantifiers /\ (j + 1) - 1 = j
        BY <1>1, <2>1
      <4> QED
        BY <4>1 DEF Plain
    <3>2. j # 1
      <4>1. Role("regexp", p, 1) = CharRole("regexp", "caret")
        BY <1>2, PlainRole DEF HasPrefix
      <4>2. CharRole("regexp", "caret") = "anchor"
        BY <1>2, RegExpRoles
      <4> QED
        BY <3>1, <4>1, <4>2
    <3> QED
      <4>1. j - 1 \in 1 .. Len(q) /\ (j - 1) + 1 = j
        BY <1>1, <3>2
      <4> QED
        BY <1>3, <3>1, <4>1
  <2> QED
    BY <1>1, <1>2, <2>1 DEF Plain, NoEscapes
<1>5. ASSUME NEW t \in Seq(Chars), Matches("regexp", p, t)
      PROVE  Matches("regexp", q, t)
  <2>1. PICK cut \in [0 .. Len(p) -> 0 .. Len(t)] : Aligns("regexp", p, t, cut)
    BY <1>5 DEF Matches
  <2> DEFINE rest == [j \in 0 .. Len(q) |-> cut[j + 1]]
  <2>2. rest \in [0 .. Len(q) -> 0 .. Len(t)]
    BY <1>1
  <2>3. ASSUME NEW j \in 1 .. Len(q) PROVE Fits("regexp", q, j, t, rest[j - 1], rest[j])
    <3>1. j + 1 \in 1 .. Len(p) /\ rest[j - 1] = cut[j] /\ rest[j] = cut[j + 1]
      BY <1>1
    <3>2. cut[j] \in 0 .. Len(t) /\ cut[j + 1] \in 0 .. Len(t)
      <4>1. j \in 0 .. Len(p) /\ j + 1 \in 0 .. Len(p)
        BY <1>1
      <4> QED
        BY <4>1
    <3>3. PICK x \in Int, y \in Int : x = cut[j] /\ y = cut[j + 1]
      <4>1. Len(t) \in Nat
        OBVIOUS
      <4> QED
        BY <3>2, <4>1
    <3>4. (j + 1) - 1 = j
      OBVIOUS
    <3>5. Fits("regexp", p, j + 1, t, x, y)
      BY <2>1, <3>1, <3>3, <3>4 DEF Aligns
    <3>6. Fits("regexp", q, j, t, x, y)
      <4>1. Quantified("regexp", q, j) <=> Quantified("regexp", p, j + 1)
        <5>1. j < Len(q) => j + 1 \in 1 .. Len(q)
          BY <1>1
        <5> QED
          BY <1>1, <1>3, <5>1 DEF Quantified
      <4>2. Role("regexp", q, j) = Role("regexp", p, j + 1) /\ q[j] = p[j + 1]
        BY <1>1, <1>3
      <4>3. \A c : FitsOne("regexp", q, j, c) <=> FitsOne("regexp", p, j + 1, c)
        BY <4>2 DEF FitsOne
      <4>4. Role("regexp", q, j) = "quantifier" =>
               \A c : FitsOne("regexp", q, j - 1, c) <=> FitsOne("regexp", p, j, c)
        <5> SUFFICES ASSUME Role("regexp", q, j) = "quantifier"
                     PROVE  \A c : FitsOne("regexp", q, j - 1, c) <=> FitsOne("regexp", p, j, c)
          OBVIOUS
        <5>0. q \in Seq(Chars) /\ DOMAIN q = 1 .. Len(q)
          BY <1>1
        <5>1. q[j] # "backslash" /\ CharRole("regexp", q[j]) = "quantifier"
          BY <5>0, <1>2, PlainRole DEF NoEscapes
        <5>2. q[j] \in Quantifiers
          BY <1>2, <5>1, RegExpRoles
        <5>3. j > 1
          BY <5>0, <1>4, <5>2 DEF Plain
        <5>4. j - 1 \in 1 .. Len(q) /\ (j - 1) + 1 = j
          BY <5>3
        <5> QED
          BY <1>1, <1>3, <5>4 DEF FitsOne
      <4> QED
        BY <3>4, <3>5, <4>1, <4>2, <4>3, <4>4 DEF Fits
    <3> QED
      BY <3>1, <3>3, <3>6
  <2>4. Aligns("regexp", q, t, rest)
    BY <2>3 DEF Aligns
  <2> QED
    BY <2>2, <2>4 DEF Matches
<1> QED
  BY <1>1, <1>4, <1>5

\* Nor does a plain REGEXP lose a match with its trailing $.
LEMMA SuffixRemoved ==
    ASSUME NEW p \in Seq(Chars), Plain("regexp", p), HasSuffix(p, "dollar"),
           NEW q, q = SubSeq(p, 1, Len(p) - 1)
    PROVE  /\ q \in Seq(Chars)
           /\ Plain("regexp", q)
           /\ \A t \in Seq(Chars) : Matches("regexp", p, t) => Matches("regexp", q, t)
<1>1. /\ q \in Seq(Chars) /\ Len(q) = Len(p) - 1 /\ Len(q) \in Nat
      /\ \A j \in 1 .. Len(q) : j \in 1 .. Len(p) /\ q[j] = p[j]
  <2>1. Len(p) \in Nat /\ Len(p) > 0
    BY DEF HasSuffix
  <2>2. ASSUME NEW n \in Nat, Len(p) = n + 1, q = SubSeq(p, 1, n)
        PROVE  /\ q \in Seq(Chars)
               /\ Len(q) = n
               /\ \A j \in 1 .. n : q[j] = p[j]
    <3>1. \A j \in 1 .. n : p[j] \in Chars
      BY <2>2
    <3>2. q = [j \in 1 .. n |-> p[j]]
      BY <2>2, SMT
    <3> QED
      BY <3>1, <3>2
  <2>3. Len(p) - 1 \in Nat /\ Len(p) = (Len(p) - 1) + 1
    BY <2>1
  <2>4. q \in Seq(Chars) /\ Len(q) = Len(p) - 1 /\ \A j \in 1 .. (Len(p) - 1) : q[j] = p[j]
    BY <2>2, <2>3
  <2>5. ASSUME NEW j \in 1 .. Len(q) PROVE j \in 1 .. Len(p) /\ q[j] = p[j]
    BY <2>1, <2>4
  <2> QED
    BY <2>1, <2>3, <2>4, <2>5
<1>2. NoEscapes(p) /\ NoEscapes(q)
  BY <1>1 DEF Plain, NoEscapes
<1>3. \A j \in 1 .. Len(q) : Role("regexp", q, j) = Role("regexp", p, j)
  BY <1>1, <1>2, PlainRole, ZenonT(60)
<1>4. Plain("regexp", q)
  <2>1. ASSUME NEW j \in 1 .. Len(q), q[j] \in Quantifiers
        PROVE  j > 1 /\ Role("regexp", q, j - 1) \in {"one", "letter"}
    <3>1. j > 1 /\ Role("regexp", p, j - 1) \in {"one", "letter"}
      BY <1>1, <2>1, SMTT(20) DEF Plain
    <3>2. j - 1 \in 1 .. Len(q)
      BY <1>1, <3>1
    <3> QED
      BY <1>3, <3>1, <3>2
  <2> QED
    BY <1>1, <1>2, <2>1 DEF Plain, NoEscapes
<1>5. ASSUME NEW t \in Seq(Chars), Matches("regexp", p, t)
      PROVE  Matches("regexp", q, t)
  <2>1. PICK cut \in [0 .. Len(p) -> 0 .. Len(t)] : Aligns("regexp", p, t, cut)
    BY <1>5 DEF Matches
  <2> DEFINE front == [j \in 0 .. Len(q) |-> cut[j]]
  <2>2. front \in [0 .. Len(q) -> 0 .. Len(t)]
    BY <1>1
  <2>3. ASSUME NEW j \in 1 .. Len(q) PROVE Fits("regexp", q, j, t, front[j - 1], front[j])
    <3>1. j \in 1 .. Len(p) /\ front[j - 1] = cut[j - 1] /\ front[j] = cut[j]
      BY <1>1
    <3>2. Fits("regexp", p, j, t, front[j - 1], front[j])
      BY <2>1, <3>1 DEF Aligns
    <3>3. Quantified("regexp", q, j) <=> Quantified("regexp", p, j)
      <4>1. CASE j < Len(q)
        <5>1. j + 1 \in 1 .. Len(q)
          BY <1>1, <4>1
        <5> QED
          BY <1>1, <1>3, <4>1, <5>1 DEF Quantified
      <4>2. CASE j = Len(q)
        <5>1. j + 1 = Len(p) /\ Len(p) \in 1 .. Len(p) /\ p[Len(p)] = "dollar"
          BY <1>1, <4>2 DEF HasSuffix
        <5>2. Role("regexp", p, Len(p)) = CharRole("regexp", "dollar")
          BY <1>2, <5>1, PlainRole
        <5>3. CharRole("regexp", "dollar") = "anchor"
          BY <1>2, RegExpRoles
        <5> QED
          BY <4>2, <5>1, <5>2, <5>3 DEF Quantified
      <4> QED
        BY <1>1, <4>1, <4>2
    <3>4. Role("regexp", q, j) = Role("regexp", p, j) /\ q[j] = p[j]
      BY <1>1, <1>3
    <3>5. \A c : FitsOne("regexp", q, j, c) <=> FitsOne("regexp", p, j, c)
      BY <3>4 DEF FitsOne
    <3>6. Role("regexp", q, j) = "quantifier" =>
             \A c : FitsOne("regexp", q, j - 1, c) <=> FitsOne("regexp", p, j - 1, c)
      <4> SUFFICES ASSUME Role("regexp", q, j) = "quantifier"
                   PROVE  \A c : FitsOne("regexp", q, j - 1, c) <=> FitsOne("regexp", p, j - 1, c)
        OBVIOUS
      <4>0. q \in Seq(Chars) /\ DOMAIN q = 1 .. Len(q)
        BY <1>1
      <4>1. q[j] # "backslash" /\ CharRole("regexp", q[j]) = "quantifier"
        BY <4>0, <1>2, PlainRole DEF NoEscapes
      <4>2. q[j] \in Quantifiers
        BY <1>2, <4>1, RegExpRoles
      <4>3. j > 1
        BY <4>0, <1>4, <4>2 DEF Plain
      <4>4. j - 1 \in 1 .. Len(q)
        BY <4>3
      <4> QED
        BY <1>1, <1>3, <4>4 DEF FitsOne
    <3> QED
      BY <3>2, <3>3, <3>4, <3>5, <3>6 DEF Fits
  <2>4. Aligns("regexp", q, t, front)
    BY <2>3 DEF Aligns
  <2> QED
    BY <2>2, <2>4 DEF Matches
<1> QED
  BY <1>1, <1>4, <1>5

(***************************************************************************)
(* The loop.                                                               *)
(***************************************************************************)

Ordered(t) ==
    IF name \in Uppers THEN Matches(kind, pattern, t) => Matches(kind, new, t)
                       ELSE Matches(kind, new, t) => Matches(kind, pattern, t)

\* Between two steps the new pattern is plain if the old one is, and on the
\* right side of it for every text.
PatternInvariant ==
    /\ TypeOK
    /\ pc \in {"prefix", "suffix"} => name = "RdMRegExpU" /\ i = 1
    /\ Plain(kind, pattern) => Plain(kind, new) /\ \A t \in Seq(Chars) : Ordered(t)

\* Before the rewriting the two patterns are one.
LEMMA PatternInit == Init => PatternInvariant
<1> SUFFICES ASSUME Init PROVE PatternInvariant
  OBVIOUS
<1>1. pattern \in Seq(Chars) /\ new = pattern
  BY PatternAssumption DEF Init
<1>2. TypeOK
  BY <1>1 DEF Init, TypeOK
<1>3. pc \in {"prefix", "suffix"} => name = "RdMRegExpU" /\ i = 1
  BY DEF Init
<1> QED
  BY <1>1, <1>2, <1>3 DEF PatternInvariant, Ordered

\* The two tests before the loop.
LEMMA AnchorRemoved ==
    ASSUME PatternInvariant, RemovePrefix \/ RemoveSuffix
    PROVE  PatternInvariant'
<1> USE DEF PatternInvariant, TypeOK
<1>1. name = "RdMRegExpU" /\ kind = "regexp" /\ name \in Uppers
  BY DEF RemovePrefix, RemoveSuffix, kind, Likes, Uppers
<1>2. UNCHANGED <<name, pattern, i>> /\ kind' = kind /\ pc' \in {"suffix", "loop"}
  BY DEF RemovePrefix, RemoveSuffix, kind
<1>3. \/ new' = new
      \/ HasPrefix(new, "caret") /\ new' = Tail(new)
      \/ HasSuffix(new, "dollar") /\ new' = SubSeq(new, 1, Len(new) - 1)
  BY DEF RemovePrefix, RemoveSuffix
<1>4. ASSUME NEW q, q = Tail(new), HasPrefix(new, "caret"), Plain(kind, new)
      PROVE  /\ Plain(kind, q)
             /\ \A t \in Seq(Chars) : Matches(kind, new, t) => Matches(kind, q, t)
  BY <1>1, <1>4, PrefixRemoved
<1>5. ASSUME NEW q, q = SubSeq(new, 1, Len(new) - 1), HasSuffix(new, "dollar"), Plain(kind, new)
      PROVE  /\ Plain(kind, q)
             /\ \A t \in Seq(Chars) : Matches(kind, new, t) => Matches(kind, q, t)
  BY <1>1, <1>5, SuffixRemoved
<1>6. ASSUME Plain(kind, new)
      PROVE  Plain(kind, new') /\ \A t \in Seq(Chars) : Matches(kind, new, t) => Matches(kind, new', t)
  BY <1>3, <1>4, <1>5, <1>6
<1>7. new' \in Seq(Chars)
  <2>1. new # <<>> => Tail(new) \in Seq(Chars)
    OBVIOUS
  <2>2. new # <<>> => SubSeq(new, 1, Len(new) - 1) \in Seq(Chars)
    BY SubSeqProperties
  <2> QED
    BY <2>1, <2>2 DEF RemovePrefix, RemoveSuffix, HasPrefix, HasSuffix
<1>8. TypeOK'
  <2>1. i' \in 1 .. (Len(new') + 1)
    BY <1>2, <1>7 DEF RemovePrefix, RemoveSuffix
  <2> QED
    BY <1>2, <1>7, <2>1
<1>9. Plain(kind, pattern)' => Plain(kind, new)' /\ \A t \in Seq(Chars) : Ordered(t)'
  BY <1>1, <1>2, <1>6 DEF Ordered
<1> QED
  BY <1>1, <1>2, <1>8, <1>9 DEF RemovePrefix, RemoveSuffix

\* What the loop may put in place of a character.
LEMMA RewrittenFacts ==
    ASSUME NEW m \in Names, NEW c \in Chars, NEW d \in Rewritten(m, c)
    PROVE  /\ d \in Chars
           /\ m = "RdMLikeU" => d = c \/ d = "percent"
           /\ m = "RdMLikeL" => d = c \/ (c = "percent" /\ d = "underscore")
           /\ m = "RdMRegExpU" => d = c \/ (c \in Quantifiers /\ d = "star")
           /\ m = "RdMRegExpL" => d = c \/ (d \in Quantifiers /\ c = "star")
BY DEF Rewritten, Names, Likes, Chars, Special, Quantifiers

\* One iteration keeps a plain pattern plain and moves it in the mutation's direction.
LEMMA CharRewritten ==
    ASSUME PatternInvariant, RewriteChar, Plain(kind, new)
    PROVE  /\ Plain(kind, new')
           /\ \A t \in Seq(Chars) :
                 IF name \in Uppers THEN Matches(kind, new, t) => Matches(kind, new', t)
                                    ELSE Matches(kind, new', t) => Matches(kind, new, t)
<1>1. new \in Seq(Chars) /\ name \in Names /\ i \in 1 .. Len(new)
  BY DEF PatternInvariant, TypeOK, RewriteChar
<1>2. PICK c \in Rewritten(name, new[i]) : new' = [new EXCEPT ![i] = c]
  BY DEF RewriteChar
<1>3. new[i] \in Chars /\ c \in Chars
  BY <1>1, <1>2, RewrittenFacts
<1>4. /\ new' \in Seq(Chars) /\ Len(new') = Len(new)
      /\ \A j \in 1 .. Len(new) : new'[j] = IF j = i THEN c ELSE new[j]
  BY <1>1, <1>2, <1>3
<1>5. CASE name \in Likes
  <2>1. kind = "like"
    BY <1>1, <1>5 DEF kind
  <2>2. c # "backslash"
    <3>1. new[i] # "backslash"
      BY <1>1 DEF Plain
    <3> QED
      BY <1>2, <1>3, <1>5, <3>1, RewrittenFacts, <1>1 DEF Likes
  <2>3. Plain("like", new')
    BY <1>1, <1>4, <2>1, <2>2 DEF Plain
  <2>4. NoEscapes(new) /\ NoEscapes(new')
    BY <1>4, <2>3 DEF Plain, NoEscapes
  <2>5. CASE name = "RdMLikeU"
    <3>1. \A j \in 1 .. Len(new) : new'[j] = new[j] \/ new'[j] = "percent"
      BY <1>1, <1>2, <1>3, <1>4, <2>5, RewrittenFacts
    <3> QED
      BY <1>1, <1>4, <2>1, <2>3, <2>4, <2>5, <3>1, LikeWidened DEF Uppers
  <2>6. CASE name = "RdMLikeL"
    <3>1. \A j \in 1 .. Len(new') : new[j] = new'[j] \/ new[j] = "percent"
      BY <1>1, <1>2, <1>3, <1>4, <2>6, RewrittenFacts
    <3> QED
      BY <1>1, <1>4, <2>1, <2>3, <2>4, <2>6, <3>1, LikeWidened DEF Uppers
  <2> QED
    BY <1>5, <2>5, <2>6 DEF Likes
<1>6. CASE name \in {"RdMRegExpU", "RdMRegExpL"}
  <2>1. kind = "regexp"
    BY <1>1, <1>6 DEF kind, Likes
  <2>2. c = new[i] \/ {new[i], c} \subseteq Quantifiers
    BY <1>1, <1>2, <1>3, <1>6, RewrittenFacts DEF Quantifiers
  <2>3. \A j \in 1 .. Len(new) : new'[j] = new[j] \/ {new[j], new'[j]} \subseteq Quantifiers
    BY <1>4, <2>2
  <2>4. Plain(kind, new')
    BY <1>1, <1>4, <2>1, <2>3, PlainKept
  <2>5. CASE name = "RdMRegExpU"
    <3>1. \A j \in 1 .. Len(new) : new'[j] = new[j] \/ (new[j] \in Quantifiers /\ new'[j] = "star")
      BY <1>1, <1>2, <1>3, <1>4, <2>5, RewrittenFacts
    <3> QED
      BY <1>1, <1>4, <2>1, <2>4, <2>5, <3>1, RegExpWidened DEF Uppers
  <2>6. CASE name = "RdMRegExpL"
    <3>1. \A j \in 1 .. Len(new') : new[j] = new'[j] \/ (new'[j] \in Quantifiers /\ new[j] = "star")
      BY <1>1, <1>2, <1>3, <1>4, <2>6, RewrittenFacts
    <3> QED
      BY <1>1, <1>4, <2>1, <2>4, <2>6, <3>1, RegExpWidened DEF Uppers
  <2> QED
    BY <1>6, <2>5, <2>6
<1> QED
  BY <1>1, <1>5, <1>6 DEF Names

\* Every step keeps the invariant.
LEMMA PatternNext ==
    ASSUME PatternInvariant, [Next]_vars
    PROVE  PatternInvariant'
<1>1. CASE RemovePrefix \/ RemoveSuffix
  BY <1>1, AnchorRemoved
<1>2. CASE RewriteChar
  <2>1. UNCHANGED <<name, pattern, pc>> /\ pc = "loop" /\ i \in 1 .. Len(new) /\ i' = i + 1
    BY <1>2 DEF RewriteChar, PatternInvariant, TypeOK
  <2>2. new' \in Seq(Chars) /\ Len(new') = Len(new)
    <3>1. PICK c \in Rewritten(name, new[i]) : new' = [new EXCEPT ![i] = c]
      BY <1>2 DEF RewriteChar
    <3>2. c \in Chars
      BY <2>1, <3>1, RewrittenFacts DEF PatternInvariant, TypeOK
    <3> QED
      BY <2>1, <3>1, <3>2 DEF PatternInvariant, TypeOK
  <2>3. TypeOK'
    BY <2>1, <2>2 DEF PatternInvariant, TypeOK
  <2>4. kind' = kind
    BY <2>1 DEF kind
  <2>5. ASSUME Plain(kind, pattern)
        PROVE  Plain(kind, new') /\ \A t \in Seq(Chars) : Ordered(t)'
    <3>1. Plain(kind, new) /\ \A t \in Seq(Chars) : Ordered(t)
      BY <2>5 DEF PatternInvariant
    <3> QED
      BY <1>2, <2>1, <2>4, <3>1, CharRewritten DEF Ordered
  <2> QED
    BY <2>1, <2>3, <2>4, <2>5 DEF PatternInvariant
<1>3. CASE EndOfPattern \/ Mutated \/ UNCHANGED vars
  <2>1. UNCHANGED <<name, pattern, new, i>> /\ kind' = kind /\ pc' \in {pc, "done"}
    BY <1>3 DEF EndOfPattern, Mutated, vars, kind
  <2>2. TypeOK'
    BY <2>1 DEF PatternInvariant, TypeOK
  <2>3. \A t : Ordered(t)' <=> Ordered(t)
    BY <2>1 DEF Ordered
  <2> QED
    BY <2>1, <2>2, <2>3 DEF PatternInvariant
<1> QED
  BY <1>1, <1>2, <1>3 DEF Next

\* checkRdM* and doRdM*: for every pattern, however the coins fall, U only
\* adds to the texts a plain pattern matches and L only takes from them.
THEOREM PatternSoundness == Spec => []PatternOrdered
<1>1. PatternInvariant => PatternOrdered
  BY PatternAssumption DEF PatternInvariant, PatternOrdered, Ordered
<1> QED
  BY <1>1, PatternInit, PatternNext, PTL DEF Spec

-----------------------------------------------------------------------------
(* The trees of selects, and those of them that cannot be printed because  *)
(* WHERE or HAVING has been left replaced.                                 *)

SelectTree(q) == IsSelect(q) /\ (q.from # None => IsJoin(q.from))
LeftConstant(clause) == clause # None /\ clause.kind = "Boolean"
Broken(q) == SelectTree(q) /\ (LeftConstant(q.where) \/ LeftConstant(q.having))

(* What the mutations share is the statement as it was parsed, or a tree   *)
(* that cannot be printed.                                                 *)
TreeIntactOrBroken ==
    /\ stmt \in Statements
    /\ root = stmt \/ (stmt.kind # "setop" /\ Broken(root))

PgInvariant == TreeIntactOrBroken /\ UnitsIndependent

\* What a search of several clauses finds, it finds in one of them.
LEMMA FirstOfThree ==
    ASSUME NEW a, NEW b, NEW c, First(<<a, b, c>>) # None
    PROVE  First(<<a, b, c>>) \in {a, b, c}
<1> DEFINE I == {k \in 1 .. Len(<<a, b, c>>) : <<a, b, c>>[k] # None}
<1>1. Len(<<a, b, c>>) = 3
  OBVIOUS
<1>2. I # {}
  BY DEF First, SelectInSeq
<1>3. I \subseteq {1, 2, 3}
  BY <1>1
<1>4. \E x \in I : \A y \in I : x <= y
  <2>1. CASE 1 \in I
    BY <1>3, <2>1
  <2>2. CASE 1 \notin I /\ 2 \in I
    BY <1>3, <2>2
  <2>3. CASE 1 \notin I /\ 2 \notin I
    BY <1>2, <1>3, <2>3
  <2> QED
    BY <2>1, <2>2, <2>3
<1>5. Min(I) \in I
  BY <1>4 DEF Min
<1>6. First(<<a, b, c>>) = <<a, b, c>>[Min(I)]
  BY <1>2, <1>3, <1>5 DEF First, SelectInSeq
<1> QED
  BY <1>3, <1>5, <1>6

\* The same for two.
LEMMA FirstOfTwo ==
    ASSUME NEW a, NEW b, First(<<a, b>>) # None
    PROVE  First(<<a, b>>) \in {a, b}
<1> DEFINE I == {k \in 1 .. Len(<<a, b>>) : <<a, b>>[k] # None}
<1>1. Len(<<a, b>>) = 2
  OBVIOUS
<1>2. I # {}
  BY DEF First, SelectInSeq
<1>3. I \subseteq {1, 2}
  BY <1>1
<1>4. \E x \in I : \A y \in I : x <= y
  <2>1. CASE 1 \in I
    BY <1>3, <2>1
  <2>2. CASE 1 \notin I
    BY <1>2, <1>3, <2>2
  <2> QED
    BY <2>1, <2>2
<1>5. Min(I) \in I
  BY <1>4 DEF Min
<1>6. First(<<a, b>>) = <<a, b>>[Min(I)]
  BY <1>2, <1>3, <1>5 DEF First, SelectInSeq
<1> QED
  BY <1>3, <1>5, <1>6

\* No mutation but those that write a constant changes a constant that
\* was left in a clause.
LEMMA NothingInBoolean ==
    ASSUME NEW clause, clause.kind = "Boolean", NEW nm
    PROVE  inExpr(nm, clause) = None /\ replacementIn(nm, clause) = None
<1>1. Replacement(nm, clause) = None
  BY DEF Replacement, Applies, NewOperator, Widens, Narrows
<1> QED
  BY <1>1 DEF inExpr, replacementIn, Changed, ChangedNode

\* A mutation of a select changes one clause: to a constant, or a clause
\* that is no constant.
LEMMA OneClause ==
    ASSUME NEW q, SelectTree(q), NEW nm, doFix(nm, q) # None
    PROVE  \E e : /\ e # None
                  /\ \/ /\ doFix(nm, q) = [q EXCEPT !.where = e]
                        /\ q.where # None
                        /\ q.where.kind = "Boolean" => e.kind = "Boolean"
                     \/ /\ doFix(nm, q) = [q EXCEPT !.having = e]
                        /\ q.having # None
                        /\ q.having.kind = "Boolean" => e.kind = "Boolean"
                     \/ /\ doFix(nm, q) = [q EXCEPT !.from.quals = e]
                        /\ Quals(q.from) # None
                        /\ Quals(q.from).kind = "Boolean" => e.kind = "Boolean"
<1> DEFINE Goal == \E e : /\ e # None
                  /\ \/ /\ doFix(nm, q) = [q EXCEPT !.where = e]
                        /\ q.where # None
                        /\ q.where.kind = "Boolean" => e.kind = "Boolean"
                     \/ /\ doFix(nm, q) = [q EXCEPT !.having = e]
                        /\ q.having # None
                        /\ q.having.kind = "Boolean" => e.kind = "Boolean"
                     \/ /\ doFix(nm, q) = [q EXCEPT !.from.quals = e]
                        /\ Quals(q.from) # None
                        /\ Quals(q.from).kind = "Boolean" => e.kind = "Boolean"
<1>0. q.kind # "setop"
  BY DEF SelectTree, IsSelect
<1>1. ASSUME NEW e, doFix(nm, q) = WithWhere(q, e), q.where # None,
             e # None /\ q.where.kind = "Boolean" => e.kind = "Boolean"
      PROVE  Goal
  BY <1>1 DEF WithWhere
<1>2. ASSUME NEW e, doFix(nm, q) = WithHaving(q, e), q.having # None,
             e # None /\ q.having.kind = "Boolean" => e.kind = "Boolean"
      PROVE  Goal
  BY <1>2 DEF WithHaving
<1>3. ASSUME NEW e, doFix(nm, q) = WithQuals(q, e), Quals(q.from) # None,
             e # None /\ Quals(q.from).kind = "Boolean" => e.kind = "Boolean"
      PROVE  Goal
  BY <1>3 DEF WithQuals
<1>4. ASSUME NEW clause, NEW e, e \in {inExpr(nm, clause), replacementIn(nm, clause)}, e # None
      PROVE  clause.kind = "Boolean" => e.kind = "Boolean"
  BY <1>4, NothingInBoolean
<1>5. inExpr(nm, None) = None
  BY DEF inExpr, Changed
<1>6. \A clause : /\ Constants(clause, TRUE) # None => Constants(clause, TRUE).kind = "Boolean"
                  /\ Constants(clause, FALSE) # None => Constants(clause, FALSE).kind = "Boolean"
                  /\ Constants(None, TRUE) = None /\ Constants(None, FALSE) = None
  BY DEF Constants, BooleanNode
<1>f. doFix(nm, q) = doFixSelect(nm, q)
  BY <1>0 DEF doFix
<1> SUFFICES Goal
  OBVIOUS
<1> HIDE DEF Goal
\* A clause made constant.
<1>7. ASSUME NEW r, r = doFix(nm, q),
             \/ r = WithWhere(q, Constants(q.where, TRUE))
             \/ r = WithWhere(q, Constants(q.where, FALSE))
      PROVE  Goal
  BY <1>1, <1>6, <1>7 DEF WithWhere
<1>8. ASSUME NEW r, r = doFix(nm, q),
             \/ r = WithHaving(q, Constants(q.having, TRUE))
             \/ r = WithHaving(q, Constants(q.having, FALSE))
      PROVE  Goal
  BY <1>2, <1>6, <1>8 DEF WithHaving
<1>9. ASSUME NEW r, r = doFix(nm, q),
             \/ r = WithQuals(q, Constants(Quals(q.from), TRUE))
             \/ r = WithQuals(q, Constants(Quals(q.from), FALSE))
      PROVE  Goal
  BY <1>3, <1>6, <1>9 DEF WithQuals
\* One search, in the clauses that are searched.
<1>10. ASSUME NEW r, r = doFix(nm, q), r = WithWhere(q, inExpr(nm, q.where))
       PROVE  Goal
  <2>1. inExpr(nm, q.where) # None /\ q.where # None
    BY <1>5, <1>10 DEF WithWhere
  <2> QED
    BY <1>1, <1>4, <1>10, <2>1
<1>11. ASSUME NEW r, r = doFix(nm, q), r = WithHaving(q, inExpr(nm, q.having))
       PROVE  Goal
  <2>1. inExpr(nm, q.having) # None /\ q.having # None
    BY <1>5, <1>11 DEF WithHaving
  <2> QED
    BY <1>2, <1>4, <1>11, <2>1
<1>12. ASSUME NEW r, r = doFix(nm, q), r = WithQuals(q, inExpr(nm, Quals(q.from)))
       PROVE  Goal
  <2>1. inExpr(nm, Quals(q.from)) # None /\ Quals(q.from) # None
    BY <1>5, <1>12 DEF WithQuals
  <2> QED
    BY <1>3, <1>4, <1>12, <2>1
<1> USE DEF SearchedEverywhere, Quantifier, ReplacesWhere
<1>13. CASE nm \in SearchedEverywhere
  <2>1. doFix(nm, q) = First(<<WithWhere(q, inExpr(nm, q.where)),
                              WithHaving(q, inExpr(nm, q.having)),
                              WithQuals(q, inExpr(nm, Quals(q.from)))>>)
    BY <1>f, <1>13 DEF doFixSelect
  <2> QED
    BY <1>10, <1>11, <1>12, <2>1, FirstOfThree
<1>14. CASE nm \in {"FixMInNullU_Pg", "RdMLikePgU", "RdMLikePgL"}
  <2>1. doFix(nm, q) = First(<<WithWhere(q, inExpr(nm, q.where)),
                              WithHaving(q, inExpr(nm, q.having))>>)
    BY <1>f, <1>14 DEF doFixSelect
  <2> QED
    BY <1>10, <1>11, <2>1, FirstOfTwo
<1>15. CASE nm \in Quantifier
  <2>1. doFix(nm, q) = WithWhere(q, inExpr(nm, q.where))
    BY <1>f, <1>15 DEF doFixSelect
  <2> QED
    BY <1>10, <2>1
<1>16. CASE nm \in ReplacesWhere /\ q.where # None
  <2>1. doFix(nm, q) = WithWhere(q, replacementIn(nm, q.where))
    BY <1>f, <1>16 DEF doFixSelect
  <2>2. replacementIn(nm, q.where) # None
    BY <2>1 DEF WithWhere
  <2> QED
    BY <1>1, <1>4, <1>16, <2>1, <2>2
<1>17. CASE nm \in {"FixMWhere1U_Pg", "FixMWhere0L_Pg"}
  <2>1. \/ doFix(nm, q) = WithWhere(q, Constants(q.where, TRUE))
        \/ doFix(nm, q) = WithWhere(q, Constants(q.where, FALSE))
    BY <1>f, <1>17 DEF doFixSelect
  <2> QED
    BY <1>7, <2>1
<1>18. CASE nm \in {"FixMHaving1U_Pg", "FixMHaving0L_Pg"}
  <2>1. \/ doFix(nm, q) = WithHaving(q, Constants(q.having, TRUE))
        \/ doFix(nm, q) = WithHaving(q, Constants(q.having, FALSE))
    BY <1>f, <1>18 DEF doFixSelect
  <2> QED
    BY <1>8, <2>1
<1>19. CASE nm \in {"FixMOn1U_Pg", "FixMOn0L_Pg"}
  <2>1. \/ doFix(nm, q) = WithQuals(q, Constants(Quals(q.from), TRUE))
        \/ doFix(nm, q) = WithQuals(q, Constants(Quals(q.from), FALSE))
    BY <1>f, <1>19 DEF doFixSelect
  <2> QED
    BY <1>9, <2>1
<1>20. CASE /\ nm \notin SearchedEverywhere \cup Quantifier
            /\ nm \notin {"FixMInNullU_Pg", "RdMLikePgU", "RdMLikePgL"}
            /\ nm \notin {"FixMWhere1U_Pg", "FixMWhere0L_Pg"}
            /\ nm \notin {"FixMHaving1U_Pg", "FixMHaving0L_Pg"}
            /\ nm \notin {"FixMOn1U_Pg", "FixMOn0L_Pg"}
            /\ ~(nm \in ReplacesWhere /\ q.where # None)
  <2>1. doFixSelect(nm, q) = None
    BY <1>20 DEF doFixSelect
  <2> QED
    BY <1>f, <2>1
<1> QED
  BY <1>13, <1>14, <1>15, <1>16, <1>17, <1>18, <1>19, <1>20

\* A mutation of a select makes a select.
LEMMA FixSelect ==
    ASSUME NEW q, SelectTree(q), NEW nm, doFix(nm, q) # None
    PROVE  SelectTree(doFix(nm, q)) /\ doFix(nm, q).kind = "select"
<1>1. PICK e : /\ e # None
               /\ \/ doFix(nm, q) = [q EXCEPT !.where = e]
                  \/ doFix(nm, q) = [q EXCEPT !.having = e]
                  \/ /\ doFix(nm, q) = [q EXCEPT !.from.quals = e]
                     /\ Quals(q.from) # None
  BY OneClause
<1>2. CASE doFix(nm, q) = [q EXCEPT !.where = e]
  BY <1>2 DEF SelectTree, IsSelect
<1>3. CASE doFix(nm, q) = [q EXCEPT !.having = e]
  BY <1>3 DEF SelectTree, IsSelect
<1>4. CASE doFix(nm, q) = [q EXCEPT !.from.quals = e] /\ Quals(q.from) # None
  <2>1. q.from # None /\ IsJoin(q.from)
    BY <1>4 DEF SelectTree, Quals, InnerJoin
  <2>2. doFix(nm, q).from = [type |-> q.from.type, quals |-> e]
    BY <1>4, <2>1 DEF SelectTree, IsSelect, IsJoin
  <2>3. IsJoin(doFix(nm, q).from)
    BY <2>2 DEF IsJoin
  <2>4. IsSelect(doFix(nm, q)) /\ doFix(nm, q).kind = "select"
    BY <1>4 DEF SelectTree, IsSelect
  <2> QED
    BY <2>3, <2>4 DEF SelectTree
<1> QED
  BY <1>1, <1>2, <1>3, <1>4

\* A tree that cannot be printed cannot be printed after another mutation.
LEMMA BrokenStays ==
    ASSUME NEW q, Broken(q), NEW nm, doFix(nm, q) # None
    PROVE  Broken(doFix(nm, q))
<1> DEFINE r == doFix(nm, q)
<1>1. SelectTree(q) /\ SelectTree(r)
  BY FixSelect DEF Broken
<1>2. PICK e : /\ e # None
               /\ \/ /\ r = [q EXCEPT !.where = e]
                     /\ q.where # None
                     /\ q.where.kind = "Boolean" => e.kind = "Boolean"
                  \/ /\ r = [q EXCEPT !.having = e]
                     /\ q.having # None
                     /\ q.having.kind = "Boolean" => e.kind = "Boolean"
                  \/ r = [q EXCEPT !.from.quals = e]
  BY <1>1, OneClause
<1> SUFFICES Broken(r)
  OBVIOUS
<1> HIDE DEF r
<1>3. LeftConstant(q.where) \/ LeftConstant(q.having)
  BY DEF Broken
<1>4. CASE r = [q EXCEPT !.where = e] /\ (q.where.kind = "Boolean" => e.kind = "Boolean")
  <2>1. r.where = e /\ r.having = q.having
    BY <1>1, <1>4 DEF SelectTree, IsSelect
  <2> QED
    BY <1>1, <1>2, <1>3, <1>4, <2>1 DEF Broken, LeftConstant
<1>5. CASE r = [q EXCEPT !.having = e] /\ (q.having.kind = "Boolean" => e.kind = "Boolean")
  <2>1. r.where = q.where /\ r.having = e
    BY <1>1, <1>5 DEF SelectTree, IsSelect
  <2> QED
    BY <1>1, <1>2, <1>3, <1>5, <2>1 DEF Broken, LeftConstant
<1>6. CASE r = [q EXCEPT !.from.quals = e]
  <2>1. r.where = q.where /\ r.having = q.having
    BY <1>1, <1>6 DEF SelectTree, IsSelect
  <2> QED
    BY <1>1, <1>3, <2>1 DEF Broken
<1> QED
  BY <1>2, <1>4, <1>5, <1>6

\* It is not printed.
LEMMA BrokenNotPrinted ==
    ASSUME NEW q, Broken(q)
    PROVE  ~Deparses(q)
  BY DEF Broken, SelectTree, IsSelect, LeftConstant, Deparses

\* The mutations that do not put the clause back break the tree of a select.
LEMMA NotRecoveredBreaks ==
    ASSUME NEW q, SelectTree(q), NEW nm \in NotRecovered, doFix(nm, q) # None
    PROVE  Broken(doFix(nm, q))
<1>1. q.kind # "setop" /\ SelectTree(doFix(nm, q))
  BY FixSelect DEF SelectTree, IsSelect
<1>2. doFix(nm, q) = doFixSelect(nm, q)
  BY <1>1 DEF doFix
<1> USE DEF SearchedEverywhere, Quantifier, ReplacesWhere
<1>3. \A clause : \A e \in {Constants(clause, TRUE), Constants(clause, FALSE)} :
           e # None => LeftConstant(e)
  BY DEF Constants, BooleanNode, LeftConstant
<1>4. CASE nm \in {"FixMWhere1U_Pg", "FixMWhere0L_Pg"}
  <2>1. PICK e \in {Constants(q.where, TRUE), Constants(q.where, FALSE)} :
                doFixSelect(nm, q) = WithWhere(q, e)
    BY <1>4 DEF doFixSelect
  <2>2. e # None /\ doFix(nm, q) = [q EXCEPT !.where = e]
    BY <1>2, <2>1 DEF WithWhere
  <2>3. doFix(nm, q).where = e
    BY <2>2 DEF SelectTree, IsSelect
  <2> QED
    BY <1>1, <1>3, <2>2, <2>3 DEF Broken
<1>5. CASE nm \in {"FixMHaving1U_Pg", "FixMHaving0L_Pg"}
  <2>1. PICK e \in {Constants(q.having, TRUE), Constants(q.having, FALSE)} :
                doFixSelect(nm, q) = WithHaving(q, e)
    BY <1>5 DEF doFixSelect
  <2>2. e # None /\ doFix(nm, q) = [q EXCEPT !.having = e]
    BY <1>2, <2>1 DEF WithHaving
  <2>3. doFix(nm, q).having = e
    BY <2>2 DEF SelectTree, IsSelect
  <2> QED
    BY <1>1, <1>3, <2>2, <2>3 DEF Broken
<1>6. CASE nm \in {"FixMUnionAllU_Pg", "FixMUnionAllL_Pg"}
  <2>1. doFixSelect(nm, q) = None
    BY <1>6 DEF doFixSelect
  <2> QED
    BY <1>2, <2>1
<1> QED
  BY <1>4, <1>5, <1>6 DEF NotRecovered

\* A mutation of a set operation leaves a set operation.
LEMMA FixSetOp ==
    ASSUME NEW q, IsSetOp(q), NEW nm, doFix(nm, q) # None
    PROVE  doFix(nm, q).kind = "setop"
<1>1. q.kind = "setop"
  BY DEF IsSetOp
<1>2. doFix(nm, q) = [q EXCEPT !.op = IF @ = "UNION" THEN "UNION ALL" ELSE "UNION"]
  BY <1>1 DEF doFix, doFixSetOp
<1> QED
  BY <1>1, <1>2 DEF IsSetOp

\* Trying a candidate.
LEMMA TryKeepsInvariant ==
    ASSUME PgInvariant, PgImpoMutate
    PROVE  PgInvariant'
<1> DEFINE c == Head(queue)
           mutated == doFix(c.name, root)
           ok == mutated # None /\ Deparses(mutated)
<1>1. /\ units' = units \cup {Unit(c, IF ok THEN mutated ELSE None)}
      /\ root' = IF mutated # None /\ ~ok /\ c.name \in NotRecovered THEN mutated ELSE root
      /\ stmt' = stmt
  BY DEF PgImpoMutate
<1>2. stmt \in Statements /\ (root = stmt \/ (stmt.kind # "setop" /\ Broken(root)))
  BY DEF PgInvariant, TreeIntactOrBroken
<1>3. IF stmt.kind = "setop" THEN IsSetOp(stmt) ELSE SelectTree(stmt)
  BY <1>2, StatementsAssumption DEF SelectTree
<1>4. ASSUME mutated # None, ~Deparses(mutated), c.name \in NotRecovered
      PROVE  stmt.kind # "setop" /\ Broken(mutated)
  <2>1. CASE root = stmt /\ stmt.kind = "setop"
    <3>1. mutated.kind = "setop"
      BY <1>3, <1>4, <2>1, FixSetOp
    <3> QED
      BY <1>4, <3>1 DEF Deparses
  <2>2. CASE root = stmt /\ stmt.kind # "setop"
    BY <1>3, <1>4, <2>2, NotRecoveredBreaks
  <2>3. CASE stmt.kind # "setop" /\ Broken(root)
    BY <1>4, <2>3, BrokenStays
  <2> QED
    BY <1>2, <2>1, <2>2, <2>3
<1>5. ASSUME ok
      PROVE  root = stmt
  <2>1. CASE Broken(root)
    <3>1. Broken(mutated)
      BY <1>5, <2>1, BrokenStays
    <3> QED
      BY <1>5, <3>1, BrokenNotPrinted
  <2> QED
    BY <1>2, <2>1
<1>6. TreeIntactOrBroken'
  BY <1>1, <1>2, <1>4 DEF TreeIntactOrBroken
<1>7. UnitsIndependent'
  <2>1. UnitsIndependent
    BY DEF PgInvariant
  <2>2. Unit(c, IF ok THEN mutated ELSE None).sql = IF ok THEN mutated ELSE None
    BY DEF Unit
  <2>3. Unit(c, IF ok THEN mutated ELSE None).name = c.name
    BY DEF Unit
  <2>4. SUFFICES ASSUME NEW u \in units', u.sql # None
                 PROVE  u.sql = doFix(u.name, stmt)
    BY <1>1 DEF UnitsIndependent
  <2>5. CASE u \in units
    BY <2>1, <2>4, <2>5 DEF UnitsIndependent
  <2>6. CASE u = Unit(c, IF ok THEN mutated ELSE None)
    BY <1>5, <2>2, <2>3, <2>4, <2>6
  <2> QED
    BY <1>1, <2>5, <2>6
<1> QED
  BY <1>6, <1>7 DEF PgInvariant

\* The invariant holds.
LEMMA PgInvariantHolds == PgSpec => []PgInvariant
<1>1. PgInit => PgInvariant
  BY DEF PgInit, PgInvariant, TreeIntactOrBroken, UnitsIndependent
<1>2. PgInvariant /\ [PgNext]_pgVars => PgInvariant'
  <2> SUFFICES ASSUME PgInvariant, [PgNext]_pgVars
               PROVE  PgInvariant'
    OBVIOUS
  <2>1. CASE NextName
    BY <2>1 DEF NextName, PgInvariant, TreeIntactOrBroken, UnitsIndependent
  <2>2. CASE PgImpoMutate
    BY <2>2, TryKeepsInvariant
  <2>3. CASE UNCHANGED pgVars
    BY <2>3 DEF pgVars, PgInvariant, TreeIntactOrBroken, UnitsIndependent
  <2> QED
    BY <2>1, <2>2, <2>3 DEF PgNext, Returned
<1> QED
  BY <1>1, <1>2, PTL DEF PgSpec

(* Whatever is tried before on the same tree and whichever clause it has   *)
(* left replaced, every query that MutateAllForPostgreSQL returns is one   *)
(* mutation of the statement as it was parsed.                             *)
THEOREM UnitsAreIndependent == PgSpec => []UnitsIndependent
<1>1. PgInvariant => UnitsIndependent
  BY DEF PgInvariant
<1> QED
  BY <1>1, PgInvariantHolds, PTL

(* Once a clause has been left replaced, the candidates that are tried     *)
(* after it add units without a query: they are lost, not wrong.           *)
THEOREM LostNotWrong ==
    PgSpec => [][root # stmt => \A u \in units' \ units : u.sql = None]_pgVars
<1> DEFINE Lost == root # stmt => \A u \in units' \ units : u.sql = None
<1>1. PgInvariant /\ [PgNext]_pgVars => [Lost]_pgVars
  <2> SUFFICES ASSUME TreeIntactOrBroken, PgImpoMutate, root # stmt
               PROVE  \A u \in units' \ units : u.sql = None
    BY DEF PgInvariant, PgNext, NextName, Returned, pgVars
  <2> DEFINE c == Head(queue)
             mutated == doFix(c.name, root)
             ok == mutated # None /\ Deparses(mutated)
  <2>1. units' = units \cup {Unit(c, IF ok THEN mutated ELSE None)}
    BY DEF PgImpoMutate
  <2>2. Broken(root)
    BY DEF TreeIntactOrBroken
  <2>3. ~ok
    <3>1. CASE mutated # None
      BY <2>2, <3>1, BrokenStays, BrokenNotPrinted
    <3> QED
      BY <3>1
  <2> HIDE DEF ok
  <2> QED
    BY <2>1, <2>3 DEF Unit
<1> QED
  BY <1>1, PgInvariantHolds, PTL DEF PgSpec

-----------------------------------------------------------------------------
(* Induction, over numbers and over trees.  The parts of a node are less   *)
(* deep than the node.                                                     *)
\* A set of numbers that is not empty has a least one.
LEMMA LeastNumber ==
    ASSUME NEW X \in SUBSET Nat, X # {}
    PROVE  \E x \in X : \A y \in X : x <= y
<1>1. IsWellFoundedOn(OpToRel(<, Nat), Nat)
  BY NatLessThanWellFounded
<1>2. PICK x \in X : \A y \in X : <<y, x>> \notin OpToRel(<, Nat)
  BY <1>1, WFMin
<1>3. ASSUME NEW y \in X
      PROVE  x <= y
  <2>1. x \in Nat /\ y \in Nat
    OBVIOUS
  <2>2. y < x => <<y, x>> \in OpToRel(<, Nat)
    BY <2>1 DEF OpToRel
  <2>3. ~(y < x)
    BY <1>2, <2>2
  <2> QED
    BY <2>1, <2>3
<1> QED
  BY <1>3

\* What holds of 0, and of n + 1 if of n, holds of every number.
LEMMA Induction ==
    ASSUME NEW S, 0 \in S, \A n \in Nat : n \in S => n + 1 \in S
    PROVE  Nat \subseteq S
<1> SUFFICES ASSUME Nat \ S # {}
             PROVE  FALSE
  OBVIOUS
<1>1. PICK x \in Nat \ S : \A y \in Nat \ S : x <= y
  BY LeastNumber
<1>2. x \in Nat /\ x # 0
  BY <1>1
<1>3. x - 1 \in Nat /\ (x - 1) + 1 = x /\ x - 1 \in S
  BY <1>1, <1>2
<1> QED
  BY <1>1, <1>3

\* What holds for a node when it holds for its subtrees holds for all.
LEMMA SubtreeInduction ==
    ASSUME NEW S, \A n \in Nodes : Subtrees(n) \subseteq S => n \in S
    PROVE  Nodes \subseteq S
<1> SUFFICES ASSUME Nodes \ S # {}
             PROVE  FALSE
  OBVIOUS
<1> DEFINE depths == {Depth[n] : n \in Nodes \ S}
<1>1. Depth \in [Nodes -> 0 .. Cardinality(Nodes)]
  BY TreesAssumption
<1>2. depths \in SUBSET Nat /\ depths # {}
  BY <1>1
<1>3. PICK d \in depths : \A e \in depths : d <= e
  BY <1>2, LeastNumber
<1>4. PICK n \in Nodes \ S : Depth[n] = d
  BY <1>3
<1>5. \A p \in Subtrees(n) : p \in Nodes /\ Depth[p] < Depth[n]
  BY TreesAssumption
<1>6. \A p \in Subtrees(n) : p \in S
  <2> SUFFICES ASSUME NEW p \in Subtrees(n), p \notin S
               PROVE  FALSE
    OBVIOUS
  <2>1. p \in Nodes /\ Depth[p] \in depths /\ Depth[p] < d
    BY <1>4, <1>5
  <2>2. d <= Depth[p] /\ d \in Int /\ Depth[p] \in Int
    BY <1>2, <1>3, <2>1
  <2> QED
    BY <2>1, <2>2
<1> QED
  BY <1>6

\* It is enough to look at the parts that mutations look at.
LEMMA TreeInduction ==
    ASSUME NEW S, \A n \in Nodes : Parts(n) \subseteq S => n \in S
    PROVE  Nodes \subseteq S
<1>1. \A n \in Nodes : Subtrees(n) \subseteq S => n \in S
  BY DEF Subtrees
<1> QED
  BY <1>1, SubtreeInduction

Below(k) == {n \in Nodes : Depth[n] < k}

\* The parts of a node are among the nodes less deep, and some depth bounds all.
LEMMA BelowFacts ==
    /\ Below(0) = {}
    /\ \A k \in Nat : Below(k) \subseteq Below(k + 1) /\ Below(k) \subseteq Nodes
    /\ \A k \in Nat : \A n \in Below(k + 1) : Subtrees(n) \subseteq Below(k) /\ Parts(n) \subseteq Below(k)
    /\ \E k \in Nat : Below(k) = Nodes
<1>1. /\ Depth \in [Nodes -> 0 .. Cardinality(Nodes)]
      /\ \A n \in Nodes : \A p \in Subtrees(n) : p \in Nodes /\ Depth[p] < Depth[n]
  BY TreesAssumption
<1>2. Cardinality(Nodes) \in Nat
  BY TreesAssumption, FS_CardinalityType
<1> DEFINE C == Cardinality(Nodes)
<1> HIDE DEF C
<1>3. C \in Nat /\ \A n \in Nodes : Depth[n] \in 0 .. C
  BY <1>1, <1>2 DEF C
<1>4. \A n \in Nodes : Depth[n] \in Nat /\ Depth[n] < C + 1
  BY <1>3
<1>5. Below(0) = {}
  BY <1>4 DEF Below
<1>6. \A k \in Nat : Below(k) \subseteq Below(k + 1) /\ Below(k) \subseteq Nodes
  BY <1>4 DEF Below
<1>7. ASSUME NEW k \in Nat, NEW n \in Below(k + 1), NEW p \in Subtrees(n)
      PROVE  p \in Below(k)
  <2>1. n \in Nodes /\ p \in Nodes /\ Depth[p] < Depth[n] /\ Depth[n] < k + 1
    BY <1>1, <1>7 DEF Below
  <2>2. Depth[n] \in Nat /\ Depth[p] \in Nat
    BY <1>4, <2>1
  <2> QED
    BY <2>1, <2>2 DEF Below
<1>8. Below(C + 1) = Nodes /\ C + 1 \in Nat
  BY <1>3, <1>4 DEF Below
<1>9. \A n : Parts(n) \subseteq Subtrees(n)
  BY DEF Subtrees
<1> QED
  BY <1>5, <1>6, <1>7, <1>8, <1>9

\* The parts of a node are nodes.
LEMMA PartsAreNodes == \A n \in Nodes : \A p \in Parts(n) : p \in Nodes
  BY TreesAssumption DEF Subtrees

-----------------------------------------------------------------------------
(* Recursive functions on trees - visitNode, the searches, Occurrences -   *)
(* are what their definitions say.                                         *)
\* The visit of a node depends on those of its parts.
LEMMA VisitOfParts ==
    ASSUME NEW n \in Nodes, NEW g, NEW h, NEW s \in {0, 1},
           \A p \in Parts(n) \cup {None} : g[p] = h[p]
    PROVE  Visited(g, n, s) = Visited(h, n, s)
<1>1. n # None /\ IsTree(n)
  BY TreesAssumption
<1>2. CASE n.kind = "cast"
  BY <1>1, <1>2 DEF Visited, VisitedNode, visitOperand, Parts
<1>3. CASE n.kind = "bool"
  <2> DEFINE f == IF n.op = "NOT" THEN flip(s) ELSE s
  <2>1. Parts(n) = {n.args[k] : k \in DOMAIN n.args}
    BY <1>3 DEF Parts
  <2>2. \A k \in DOMAIN n.args : g[n.args[k]] = h[n.args[k]]
    BY <2>1
  <2>3. [k \in DOMAIN n.args |-> g[n.args[k]][f]] = [k \in DOMAIN n.args |-> h[n.args[k]][f]]
    BY <2>2
  <2>4. Visited(g, n, s) = visitBoolExpr(g, n, s) /\ Visited(h, n, s) = visitBoolExpr(h, n, s)
    BY <1>1, <1>3 DEF Visited, VisitedNode
  <2> QED
    BY <2>3, <2>4 DEF visitBoolExpr
<1>4. CASE n.kind = "sublink"
  BY <1>1, <1>4 DEF Visited, VisitedNode, visitSubLink, Parts
<1>5. CASE n.kind = "setop"
  BY <1>1, <1>5 DEF Visited, VisitedNode, visitSetOp, Parts
<1>6. CASE n.kind = "select"
  <2>1. /\ g[Quals(n.from)] = h[Quals(n.from)] /\ g[n.where] = h[n.where]
        /\ g[n.having] = h[n.having] /\ g[n.cte] = h[n.cte]
    BY <1>6 DEF Parts
  <2>2. Visited(g, n, s) = visitSelectStmt(g, n, s) /\ Visited(h, n, s) = visitSelectStmt(h, n, s)
    BY <1>1, <1>6 DEF Visited, VisitedNode
  <2> QED
    BY <2>1, <2>2 DEF visitSelectStmt
<1>7. CASE n.kind \notin {"cast", "bool", "sublink", "setop", "select"}
  BY <1>1, <1>7 DEF Visited, VisitedNode
<1> QED
  BY <1>2, <1>3, <1>4, <1>5, <1>6, <1>7

\* visit is right for the nodes of S.
Visits(visit, S) ==
    visit = [n \in S \cup {None} |-> [s \in {0, 1} |-> Visited(visit, n, s)]]

\* Up to each depth there is such a visit.
LEMMA VisitsExist == \A k \in Nat : \E visit : Visits(visit, Below(k))
<1> DEFINE S == {k \in Nat : \E visit : Visits(visit, Below(k))}
<1>n. \A g, s : Visited(g, None, s) = <<>>
  BY DEF Visited
<1>1. 0 \in S
  <2> DEFINE g == [n \in {None} |-> [s \in {0, 1} |-> <<>>]]
  <2>1. Visits(g, {})
    BY <1>n DEF Visits
  <2> QED
    BY <2>1, BelowFacts
<1>2. ASSUME NEW k \in Nat, k \in S
      PROVE  k + 1 \in S
  <2>1. PICK g : Visits(g, Below(k))
    BY <1>2
  <2> DEFINE h == [n \in Below(k + 1) \cup {None} |-> [s \in {0, 1} |-> Visited(g, n, s)]]
  <2>2. \A n \in Below(k) \cup {None} : g[n] = [s \in {0, 1} |-> Visited(g, n, s)]
    BY <2>1 DEF Visits
  <2>3. \A n \in Below(k) \cup {None} : h[n] = g[n]
    BY <2>2, BelowFacts
  <2>4. ASSUME NEW n \in Below(k + 1) \cup {None}, NEW s \in {0, 1}
        PROVE  Visited(g, n, s) = Visited(h, n, s)
    <3>1. CASE n = None
      BY <3>1, <1>n
    <3>2. CASE n \in Below(k + 1)
      <4>1. n \in Nodes /\ Parts(n) \subseteq Below(k)
        BY <3>2, BelowFacts DEF Below
      <4>2. \A p \in Parts(n) \cup {None} : g[p] = h[p]
        BY <4>1, <2>3
      <4> HIDE DEF h
      <4> QED
        BY <4>1, <4>2, VisitOfParts
    <3> QED
      BY <3>1, <3>2
  <2>5. h = [n \in Below(k + 1) \cup {None} |-> [s \in {0, 1} |-> Visited(h, n, s)]]
    BY <2>4
  <2>6. Visits(h, Below(k + 1))
    BY <2>5 DEF Visits
  <2> QED
    BY <2>6
<1> QED
  BY <1>1, <1>2, Induction

\* visitNode is what its definition says.
LEMMA VisitNode ==
    /\ visitNode[None] = [s \in {0, 1} |-> <<>>]
    /\ \A n \in Nodes, s \in {0, 1} : visitNode[n][s] = Visited(visitNode, n, s)
<1>1. \E visit : Visits(visit, Nodes)
  BY VisitsExist, BelowFacts
<1>2. visitNode = CHOOSE visit : Visits(visit, Nodes)
  BY DEF visitNode, Visits
<1>3. Visits(visitNode, Nodes)
  BY <1>1, <1>2
<1>4. \A s : Visited(visitNode, None, s) = <<>>
  BY DEF Visited
<1>5. \A n \in Nodes \cup {None} : visitNode[n] = [s \in {0, 1} |-> Visited(visitNode, n, s)]
  BY <1>3 DEF Visits
<1>6. visitNode[None] = [s \in {0, 1} |-> <<>>]
  BY <1>4, <1>5
<1>7. ASSUME NEW n \in Nodes, NEW s \in {0, 1}
      PROVE  visitNode[n][s] = Visited(visitNode, n, s)
  <2> DEFINE visit == [f \in {0, 1} |-> Visited(visitNode, n, f)]
  <2>1. visitNode[n] = visit
    BY <1>5
  <2>2. visit[s] = Visited(visitNode, n, s)
    OBVIOUS
  <2> QED
    BY <2>1, <2>2
<1> QED
  BY <1>6, <1>7

\* A function on 1 .. n is a sequence of its values.
LEMMA AnySeq ==
    ASSUME NEW s, NEW n \in Nat, s = [k \in 1 .. n |-> s[k]]
    PROVE  s \in Seq(UNION {{s[k]} : k \in DOMAIN s}) /\ DOMAIN s = 1 .. n
<1> DEFINE V == UNION {{s[k]} : k \in DOMAIN s}
<1>1. DOMAIN s = 1 .. n
  OBVIOUS
<1>2. \A k \in 1 .. n : s[k] \in V
  BY <1>1
<1> HIDE DEF V
<1>3. s \in [1 .. n -> V]
  BY <1>2
<1>4. s \in Seq(V)
  BY <1>3
<1> QED
  BY <1>1, <1>4 DEF V

\* What a search finds is at one of the places.
LEMMA FirstFound ==
    ASSUME NEW seq, seq \in Seq(UNION {{seq[j]} : j \in DOMAIN seq}), First(seq) # None
    PROVE  \E j \in DOMAIN seq : First(seq) = seq[j] /\ seq[j] # None
<1>0. DOMAIN seq = 1 .. Len(seq)
  OBVIOUS
<1> DEFINE I == {k \in 1 .. Len(seq) : seq[k] # None}
<1>1. I # {}
  BY DEF First, SelectInSeq
<1>2. I \in SUBSET Nat
  OBVIOUS
<1>3. \E x \in I : \A y \in I : x <= y
  BY <1>1, <1>2, LeastNumber
<1>4. Min(I) \in I
  BY <1>3 DEF Min
<1>5. First(seq) = seq[Min(I)]
  BY <1>1, <1>2, <1>4 DEF First, SelectInSeq
<1>6. Min(I) \in 1 .. Len(seq) /\ seq[Min(I)] # None
  <2> HIDE DEF I
  <2>1. \A k \in I : k \in 1 .. Len(seq) /\ seq[k] # None
    BY DEF I
  <2> QED
    BY <1>4, <2>1
<1> HIDE DEF I
<1> QED
  BY <1>0, <1>5, <1>6

\* A search in a node depends on the searches in its parts.
LEMMA ChangeOfParts ==
    ASSUME NEW nm, NEW e \in Nodes, NEW g, NEW h, \A p \in Parts(e) : g[p] = h[p]
    PROVE  Changed(g, nm, e) = Changed(h, nm, e) /\ ChangedNode(g, nm, e) = ChangedNode(h, nm, e)
<1>1. CASE e.kind # "bool"
  BY <1>1 DEF Changed, ChangedNode
<1>2. CASE e.kind = "bool"
  <2> DEFINE Put(f) == [k \in DOMAIN e.args |->
                LET arg == f[e.args[k]]
                IN  IF arg = None THEN None ELSE [e EXCEPT !.args[k] = arg]]
             Just(f) == [k \in DOMAIN e.args |-> f[e.args[k]]]
  <2>1. \A k \in DOMAIN e.args : g[e.args[k]] = h[e.args[k]]
    BY <1>2 DEF Parts
  <2>2. Put(g) = Put(h) /\ Just(g) = Just(h)
    BY <2>1
  <2>3. \A f : Changed(f, nm, e) = IF e = None THEN None
                 ELSE IF Replacement(nm, e) # None THEN Replacement(nm, e) ELSE First(Put(f))
    BY <1>2 DEF Changed
  <2>4. \A f : ChangedNode(f, nm, e) =
                 IF Replacement(nm, e) # None THEN Replacement(nm, e) ELSE First(Just(f))
    BY <1>2 DEF ChangedNode
  <2> HIDE DEF Put, Just
  <2> QED
    BY <2>2, <2>3, <2>4
<1> QED
  BY <1>1, <1>2

Changes(found, S, nm) == found = [e \in S |-> Changed(found, nm, e)]
ChangesNode(found, S, nm) == found = [e \in S |-> ChangedNode(found, nm, e)]

\* Up to each depth there are such searches.
LEMMA ChangesExist ==
    ASSUME NEW nm
    PROVE  \A k \in Nat : /\ \E found : Changes(found, Below(k), nm)
                          /\ \E found : ChangesNode(found, Below(k), nm)
<1> DEFINE S == {k \in Nat : /\ \E found : Changes(found, Below(k), nm)
                             /\ \E found : ChangesNode(found, Below(k), nm)}
<1>1. 0 \in S
  <2> DEFINE g == [e \in {} |-> None]
  <2>1. Changes(g, {}, nm) /\ ChangesNode(g, {}, nm)
    BY DEF Changes, ChangesNode
  <2> QED
    BY <2>1, BelowFacts
<1>2. ASSUME NEW k \in Nat, k \in S
      PROVE  k + 1 \in S
  <2>a. \A n \in Below(k + 1) : n \in Nodes /\ Parts(n) \subseteq Below(k)
    BY BelowFacts DEF Below
  <2>b. Below(k) \subseteq Below(k + 1)
    BY BelowFacts
  <2>1. \E found : Changes(found, Below(k + 1), nm)
    <3>1. PICK g : Changes(g, Below(k), nm)
      BY <1>2
    <3> DEFINE h == [e \in Below(k + 1) |-> Changed(g, nm, e)]
    <3>2. \A n \in Below(k) : g[n] = Changed(g, nm, n)
      BY <3>1 DEF Changes
    <3>3. \A n \in Below(k) : g[n] = h[n]
      BY <3>2, <2>b
    <3>4. ASSUME NEW e \in Below(k + 1)
          PROVE  Changed(g, nm, e) = Changed(h, nm, e)
      <4>1. \A p \in Parts(e) : g[p] = h[p]
        BY <2>a, <3>3
      <4> HIDE DEF h
      <4> QED
        BY <2>a, <4>1, ChangeOfParts
    <3>5. h = [e \in Below(k + 1) |-> Changed(h, nm, e)]
      BY <3>4
    <3> QED
      BY <3>5 DEF Changes
  <2>2. \E found : ChangesNode(found, Below(k + 1), nm)
    <3>1. PICK g : ChangesNode(g, Below(k), nm)
      BY <1>2
    <3> DEFINE h == [e \in Below(k + 1) |-> ChangedNode(g, nm, e)]
    <3>2. \A n \in Below(k) : g[n] = ChangedNode(g, nm, n)
      BY <3>1 DEF ChangesNode
    <3>3. \A n \in Below(k) : g[n] = h[n]
      BY <3>2, <2>b
    <3>4. ASSUME NEW e \in Below(k + 1)
          PROVE  ChangedNode(g, nm, e) = ChangedNode(h, nm, e)
      <4>1. \A p \in Parts(e) : g[p] = h[p]
        BY <2>a, <3>3
      <4> HIDE DEF h
      <4> QED
        BY <2>a, <4>1, ChangeOfParts
    <3>5. h = [e \in Below(k + 1) |-> ChangedNode(h, nm, e)]
      BY <3>4
    <3> QED
      BY <3>5 DEF ChangesNode
  <2> QED
    BY <2>1, <2>2
<1> QED
  BY <1>1, <1>2, Induction

\* A search looks at a node before the arguments of an AND, OR or NOT.
LEMMA SearchInExpr ==
    ASSUME NEW nm, NEW e \in Nodes, inExpr(nm, e) # None
    PROVE  \/ inExpr(nm, e) = Replacement(nm, e)
           \/ /\ e.kind = "bool"
              /\ \E k \in DOMAIN e.args :
                     /\ inExpr(nm, e.args[k]) # None
                     /\ inExpr(nm, e) = [e EXCEPT !.args[k] = inExpr(nm, e.args[k])]
<1> DEFINE found == CHOOSE f : Changes(f, Nodes, nm)
<1>1. \A x : inExpr(nm, x) = Changed(found, nm, x)
  BY DEF inExpr, Changes
<1>2. Changes(found, Nodes, nm)
  BY ChangesExist, BelowFacts
<1> HIDE DEF found
<1>3. \A x \in Nodes : found[x] = inExpr(nm, x)
  BY <1>1, <1>2 DEF Changes
<1>4. e # None /\ IsTree(e) /\ \A p \in Parts(e) : p \in Nodes
  BY TreesAssumption, PartsAreNodes
<1>5. CASE Replacement(nm, e) # None
  BY <1>1, <1>4, <1>5 DEF Changed
<1>6. CASE Replacement(nm, e) = None
  <2> DEFINE put == [k \in DOMAIN e.args |->
                LET arg == found[e.args[k]]
                IN  IF arg = None THEN None ELSE [e EXCEPT !.args[k] = arg]]
  <2>1. e.kind = "bool" /\ inExpr(nm, e) = First(put)
    BY <1>1, <1>4, <1>6 DEF Changed
  <2>2. e.args \in Seq(Conditions)
    BY <1>4, <2>1 DEF IsTree, IsCondition
  <2>3. put \in Seq(UNION {{put[k]} : k \in DOMAIN put}) /\ DOMAIN put = DOMAIN e.args
    <3>1. Len(e.args) \in Nat /\ DOMAIN e.args = 1 .. Len(e.args)
      BY <2>2
    <3>2. put = [k \in 1 .. Len(e.args) |-> put[k]]
      BY <3>1
    <3> HIDE DEF put
    <3> QED
      BY <3>1, <3>2, AnySeq
  <2> HIDE DEF put
  <2>4. PICK k \in DOMAIN put : First(put) = put[k] /\ put[k] # None
    BY <2>1, <2>3, FirstFound
  <2>5. e.args[k] \in Nodes
    BY <1>4, <2>1, <2>3, <2>4 DEF Parts
  <2>6. put[k] = IF found[e.args[k]] = None THEN None ELSE [e EXCEPT !.args[k] = found[e.args[k]]]
    BY <2>3, <2>4 DEF put
  <2> QED
    BY <1>3, <2>1, <2>3, <2>4, <2>5, <2>6
<1> QED
  BY <1>5, <1>6

\* The same for the search that returns the changed node by itself.
LEMMA SearchForNode ==
    ASSUME NEW nm, NEW e \in Nodes, replacementIn(nm, e) # None
    PROVE  \/ replacementIn(nm, e) = Replacement(nm, e)
           \/ /\ e.kind = "bool"
              /\ \E k \in DOMAIN e.args :
                     /\ replacementIn(nm, e.args[k]) # None
                     /\ replacementIn(nm, e) = replacementIn(nm, e.args[k])
<1> DEFINE found == CHOOSE f : ChangesNode(f, Nodes, nm)
<1>1. \A x : replacementIn(nm, x) = ChangedNode(found, nm, x)
  BY DEF replacementIn, ChangesNode
<1>2. ChangesNode(found, Nodes, nm)
  BY ChangesExist, BelowFacts
<1> HIDE DEF found
<1>3. \A x \in Nodes : found[x] = replacementIn(nm, x)
  BY <1>1, <1>2 DEF ChangesNode
<1>4. e # None /\ IsTree(e) /\ \A p \in Parts(e) : p \in Nodes
  BY TreesAssumption, PartsAreNodes
<1>5. CASE Replacement(nm, e) # None
  BY <1>1, <1>4, <1>5 DEF ChangedNode
<1>6. CASE Replacement(nm, e) = None
  <2> DEFINE put == [k \in DOMAIN e.args |-> found[e.args[k]]]
  <2>1. e.kind = "bool" /\ replacementIn(nm, e) = First(put)
    BY <1>1, <1>4, <1>6 DEF ChangedNode
  <2>2. e.args \in Seq(Conditions)
    BY <1>4, <2>1 DEF IsTree, IsCondition
  <2>3. put \in Seq(UNION {{put[k]} : k \in DOMAIN put}) /\ DOMAIN put = DOMAIN e.args
    BY <2>2
  <2>6. \A k \in DOMAIN put : put[k] = found[e.args[k]]
    OBVIOUS
  <2> HIDE DEF put
  <2>4. PICK k \in DOMAIN put : First(put) = put[k] /\ put[k] # None
    BY <2>1, <2>3, FirstFound
  <2>5. e.args[k] \in Nodes
    BY <1>4, <2>1, <2>3, <2>4 DEF Parts
  <2> QED
    BY <1>3, <2>1, <2>3, <2>4, <2>5, <2>6
<1> QED
  BY <1>5, <1>6

\* flat[i] is the first i sequences in one.
Flattens(flat, m, seqs) == flat = [k \in 1 .. m |-> IF k = 1 THEN seqs[k] ELSE flat[k - 1] \o seqs[k]]

\* For each number there is such a flattening.
LEMMA FlatteningExists ==
    ASSUME NEW seqs
    PROVE  \A m \in Nat : \E flat : Flattens(flat, m, seqs)
<1> DEFINE S == {m \in Nat : \E flat : Flattens(flat, m, seqs)}
<1>1. 0 \in S
  <2>1. Flattens([k \in 1 .. 0 |-> 0], 0, seqs)
    BY DEF Flattens
  <2> QED
    BY <2>1
<1>2. ASSUME NEW m \in Nat, m \in S
      PROVE  m + 1 \in S
  <2>1. PICK g : Flattens(g, m, seqs)
    BY <1>2
  <2> DEFINE last == IF m + 1 = 1 THEN seqs[m + 1] ELSE g[m] \o seqs[m + 1]
             h == [k \in 1 .. m + 1 |-> IF k = m + 1 THEN last ELSE g[k]]
  <2>2. \A k \in 1 .. m : g[k] = IF k = 1 THEN seqs[k] ELSE g[k - 1] \o seqs[k]
    BY <2>1 DEF Flattens
  <2>3. \A k \in 1 .. m : h[k] = g[k]
    OBVIOUS
  <2>4. ASSUME NEW k \in 1 .. m + 1
        PROVE  h[k] = IF k = 1 THEN seqs[k] ELSE h[k - 1] \o seqs[k]
    <3>1. CASE k \in 1 .. m
      <4>1. k # 1 => k - 1 \in 1 .. m
        BY <3>1
      <4> HIDE DEF h
      <4> QED
        BY <2>2, <2>3, <3>1, <4>1
    <3>2. CASE k = m + 1
      <4>1. h[k] = last /\ (k # 1 => k - 1 = m /\ m \in 1 .. m)
        BY <3>2
      <4>2. k # 1 => h[k - 1] = g[m]
        <5> HIDE DEF h
        <5> QED
          BY <2>3, <4>1
      <4> HIDE DEF h
      <4> QED
        BY <3>2, <4>1, <4>2
    <3> QED
      BY <3>1, <3>2
  <2>5. h = [k \in 1 .. m + 1 |-> h[k]]
    OBVIOUS
  <2>6. Flattens(h, m + 1, seqs)
    <3> HIDE DEF h
    <3> QED
      BY <2>4, <2>5 DEF Flattens
  <2> QED
    BY <2>6
<1> QED
  BY <1>1, <1>2, Induction

\* Whatever is in a sequence made of sequences is in one of them.
LEMMA FlattenMembers ==
    ASSUME NEW C, NEW seqs \in Seq(Seq(C))
    PROVE  FlattenSeq(seqs) \in Seq(C)
<1> DEFINE L == Len(seqs)
<1>1. CASE L = 0
  BY <1>1 DEF FlattenSeq
<1>2. CASE L # 0
  <2> DEFINE flat == CHOOSE f : Flattens(f, L, seqs)
  <2>0. L \in Nat /\ L \in 1 .. L /\ \A k \in 1 .. L : seqs[k] \in Seq(C)
    BY <1>2
  <2>1. FlattenSeq(seqs) = flat[L]
    BY <1>2 DEF FlattenSeq, Flattens
  <2>2. Flattens(flat, L, seqs)
    BY <2>0, FlatteningExists
  <2> HIDE DEF flat, L
  <2> DEFINE S == {k \in Nat : k \in 1 .. L => flat[k] \in Seq(C)}
  <2>3. 0 \in S
    OBVIOUS
  <2>4. ASSUME NEW k \in Nat, k \in S
        PROVE  k + 1 \in S
    <3> SUFFICES ASSUME k + 1 \in 1 .. L
                 PROVE  flat[k + 1] \in Seq(C)
      OBVIOUS
    <3>1. flat[k + 1] = IF k + 1 = 1 THEN seqs[k + 1] ELSE flat[(k + 1) - 1] \o seqs[k + 1]
      BY <2>2 DEF Flattens
    <3>2. (k + 1) - 1 = k /\ (k + 1 # 1 => k \in 1 .. L)
      BY <2>0
    <3>3. k + 1 # 1 => flat[k] \in Seq(C)
      BY <2>4, <3>2
    <3> QED
      BY <2>0, <3>1, <3>2, <3>3
  <2>5. L \in S
    <3> HIDE DEF S
    <3> QED
      BY <2>0, <2>3, <2>4, Induction
  <2> QED
    BY <2>0, <2>1, <2>5
<1> QED
  BY <1>1, <1>2

\* The occurrences in a node depend on those in its parts.
LEMMA OccurrencesOfParts ==
    ASSUME NEW n \in Nodes, NEW g, NEW h, NEW s, \A p \in Parts(n) : g[p] = h[p]
    PROVE  Within(g, n, s) = Within(h, n, s)
<1> DEFINE G == {g[p][SignUnder(n, s)] : p \in Parts(n)}
           H == {h[p][SignUnder(n, s)] : p \in Parts(n)}
<1>1. G = H
  OBVIOUS
<1> QED
  BY <1>1 DEF Within

Occurs(occurrences, S) ==
    occurrences = [n \in S |-> [s \in {0, 1} |-> Within(occurrences, n, s)]]

\* Up to each depth there are such occurrences.
LEMMA OccurrencesExist == \A k \in Nat : \E o : Occurs(o, Below(k))
<1> DEFINE S == {k \in Nat : \E o : Occurs(o, Below(k))}
<1>1. 0 \in S
  <2> DEFINE g == [n \in {} |-> 0]
  <2>1. Occurs(g, {})
    BY DEF Occurs
  <2> QED
    BY <2>1, BelowFacts
<1>2. ASSUME NEW k \in Nat, k \in S
      PROVE  k + 1 \in S
  <2>a. \A n \in Below(k + 1) : n \in Nodes /\ Parts(n) \subseteq Below(k)
    BY BelowFacts DEF Below
  <2>1. PICK g : Occurs(g, Below(k))
    BY <1>2
  <2> DEFINE h == [n \in Below(k + 1) |-> [s \in {0, 1} |-> Within(g, n, s)]]
  <2>2. \A n \in Below(k) : g[n] = [s \in {0, 1} |-> Within(g, n, s)]
    BY <2>1 DEF Occurs
  <2>3. \A n \in Below(k) : h[n] = g[n]
    BY <2>2, BelowFacts
  <2>4. ASSUME NEW n \in Below(k + 1), NEW s \in {0, 1}
        PROVE  Within(g, n, s) = Within(h, n, s)
    <3>1. \A p \in Parts(n) : g[p] = h[p]
      BY <2>a, <2>3
    <3> HIDE DEF h
    <3> QED
      BY <2>a, <3>1, OccurrencesOfParts
  <2>5. h = [n \in Below(k + 1) |-> [s \in {0, 1} |-> Within(h, n, s)]]
    BY <2>4
  <2>6. Occurs(h, Below(k + 1))
    BY <2>5 DEF Occurs
  <2> QED
    BY <2>6
<1> QED
  BY <1>1, <1>2, Induction

\* Occurrences is what its definition says.
LEMMA OccurrencesOf ==
    ASSUME NEW n \in Nodes, NEW s \in {0, 1}
    PROVE  Occurrences[n][s] =
               {<<n, s>>} \cup UNION {Occurrences[p][SignUnder(n, s)] : p \in Parts(n)}
<1>1. \E o : Occurs(o, Nodes)
  BY OccurrencesExist, BelowFacts
<1>2. Occurrences = CHOOSE o : Occurs(o, Nodes)
  BY DEF Occurrences, Occurs
<1>3. Occurs(Occurrences, Nodes)
  BY <1>1, <1>2
<1> DEFINE within == [f \in {0, 1} |-> Within(Occurrences, n, f)]
<1>4. Occurrences[n] = within
  BY <1>3 DEF Occurs
<1>5. within[s] = Within(Occurrences, n, s)
  OBVIOUS
<1> QED
  BY <1>4, <1>5 DEF Within

\* A node occurs in itself, and what occurs in its parts occurs in it.
LEMMA OccurrencesHold ==
    ASSUME NEW n \in Nodes, NEW s \in {0, 1}
    PROVE  /\ <<n, s>> \in Occurrences[n][s]
           /\ SignUnder(n, s) \in {0, 1}
           /\ \A p \in Parts(n) : p \in Nodes /\ Occurrences[p][SignUnder(n, s)] \subseteq Occurrences[n][s]
<1>1. SignUnder(n, s) \in {0, 1}
  BY DEF SignUnder, flip
<1> QED
  BY <1>1, PartsAreNodes, OccurrencesOf

\* The meaning of a node depends on that of its subtrees.
LEMMA MeantOfSubtrees ==
    ASSUME NEW n \in Nodes, NEW g, NEW h, \A p \in Subtrees(n) : g[p] = h[p]
    PROVE  Meant(g, n) = Meant(h, n)
<1>0. IsTree(n)
  BY TreesAssumption
<1>1. CASE n.kind = "setop"
  <2>1. g[n.larg] = h[n.larg] /\ g[n.rarg] = h[n.rarg]
    BY <1>1 DEF Subtrees, Parts
  <2> QED
    BY <1>1, <2>1 DEF Meant, IsQuery, Result
<1>2. CASE n.kind = "select"
  <2>1. \A clause \in {n.where, n.having} : \A row : Keeps(g, clause, row) = Keeps(h, clause, row)
    BY <1>2 DEF Subtrees, Parts, Keeps
  <2>2. n.from # None => \A row : Keeps(g, n.from.quals, row) = Keeps(h, n.from.quals, row)
    BY <1>2 DEF Subtrees, Keeps
  <2>3. n.cte # None => g[n.cte] = h[n.cte]
    BY <1>2 DEF Subtrees, Parts
  <2>4. \A x \in Vals : Joined(g, n.from, x) = Joined(h, n.from, x)
    BY <2>2 DEF Joined
  <2>5. \A x \in Vals : Selected(g, n, x) = Selected(h, n, x)
    <3> TAKE x \in Vals
    <3>1. {y \in Joined(g, n.from, x) : Keeps(g, n.where, <<x, y>>)}
              = {y \in Joined(h, n.from, x) : Keeps(h, n.where, <<x, y>>)}
      BY <2>1, <2>4
    <3>2. Keeps(g, n.having, <<x, NULL>>) = Keeps(h, n.having, <<x, NULL>>)
      BY <2>1
    <3>3. (IF n.cte = None THEN 1 ELSE g[n.cte][x]) = IF n.cte = None THEN 1 ELSE h[n.cte][x]
      BY <2>3
    <3> QED
      BY <3>1, <3>2, <3>3, Zenon DEF Selected
  <2> QED
    BY <1>2, <2>5 DEF Meant, IsQuery, Result
<1>3. CASE n.kind \notin {"setop", "select"}
  <2>1. \A row \in TableRows : Answer(g, n, row) = Answer(h, n, row)
    <3> TAKE row \in TableRows
    <3>1. CASE n.kind = "cast"
      <4>1. g[n.arg] = h[n.arg]
        BY <3>1 DEF Subtrees, Parts
      <4> QED
        BY <3>1, <4>1 DEF Answer
    <3>2. CASE n.kind = "bool"
      <4>1. \A j \in DOMAIN n.args : g[n.args[j]] = h[n.args[j]]
        BY <3>2 DEF Subtrees, Parts
      <4>2. {g[n.args[j]][row] : j \in DOMAIN n.args} = {h[n.args[j]][row] : j \in DOMAIN n.args}
        BY <4>1
      <4>3. n.op = "NOT" => 1 \in DOMAIN n.args
        BY <1>0, <3>2 DEF IsTree, IsCondition
      <4>4. AnswerBool(g, n, row) = AnswerBool(h, n, row)
        <5> DEFINE vg == {g[n.args[j]][row] : j \in DOMAIN n.args}
                   vh == {h[n.args[j]][row] : j \in DOMAIN n.args}
        <5>1. vg = vh
          BY <4>2
        <5>2. n.op \in {"NOT", "AND", "OR"}
          BY <1>0, <3>2 DEF IsTree, IsCondition
        <5>3. CASE n.op = "NOT"
          <6>1. g[n.args[1]] = h[n.args[1]]
            BY <4>1, <4>3, <5>3
          <6> QED
            BY <5>3, <6>1 DEF AnswerBool
        <5>4. CASE n.op = "AND"
          <6>1. AnswerBool(g, n, row) = AndOf(vg) /\ AnswerBool(h, n, row) = AndOf(vh)
            BY <5>4 DEF AnswerBool
          <6> QED
            BY <5>1, <6>1
        <5>5. CASE n.op = "OR"
          <6>1. AnswerBool(g, n, row) = OrOf(vg) /\ AnswerBool(h, n, row) = OrOf(vh)
            BY <5>5 DEF AnswerBool
          <6> QED
            BY <5>1, <6>1
        <5> QED
          BY <5>2, <5>3, <5>4, <5>5
      <4> QED
        BY <3>2, <4>4 DEF Answer
    <3>3. CASE n.kind = "sublink"
      <4>1. g[n.subselect] = h[n.subselect]
        BY <3>3 DEF Subtrees, Parts
      <4>2. AnswerSubLink(g, n, row) = AnswerSubLink(h, n, row)
        BY <4>1 DEF AnswerSubLink, SubqueryRows
      <4> QED
        BY <3>3, <4>2 DEF Answer
    <3>4. CASE n.kind \notin {"cast", "bool", "sublink"}
      BY <3>4 DEF Answer
    <3> QED
      BY <3>1, <3>2, <3>3, <3>4
  <2> QED
    BY <1>3, <2>1 DEF Meant, IsQuery
<1> QED
  BY <1>1, <1>2, <1>3

\* meaning is right for the nodes of S.
Means(meaning, S) == meaning = [n \in S |-> Meant(meaning, n)]

\* Up to each depth there is such a meaning.
LEMMA MeaningsExist == \A k \in Nat : \E meaning : Means(meaning, Below(k))
<1> DEFINE S == {k \in Nat : \E meaning : Means(meaning, Below(k))}
<1>1. 0 \in S
  <2> DEFINE g == [n \in {} |-> 0]
  <2>1. Means(g, {})
    BY DEF Means
  <2> QED
    BY <2>1, BelowFacts
<1>2. ASSUME NEW k \in Nat, k \in S
      PROVE  k + 1 \in S
  <2>a. \A n \in Below(k + 1) : n \in Nodes /\ Subtrees(n) \subseteq Below(k)
    BY BelowFacts DEF Below
  <2>1. PICK g : Means(g, Below(k))
    BY <1>2
  <2> DEFINE h == [n \in Below(k + 1) |-> Meant(g, n)]
  <2>2. \A n \in Below(k) : g[n] = Meant(g, n)
    BY <2>1 DEF Means
  <2>3. \A n \in Below(k) : h[n] = g[n]
    BY <2>2, BelowFacts
  <2>4. ASSUME NEW n \in Below(k + 1)
        PROVE  Meant(g, n) = Meant(h, n)
    <3>1. \A p \in Subtrees(n) : g[p] = h[p]
      BY <2>a, <2>3
    <3> HIDE DEF h
    <3> QED
      BY <2>a, <3>1, MeantOfSubtrees
  <2>5. h = [n \in Below(k + 1) |-> Meant(h, n)]
    BY <2>4
  <2>6. Means(h, Below(k + 1))
    BY <2>5 DEF Means
  <2> QED
    BY <2>6
<1> QED
  BY <1>1, <1>2, Induction

\* Meaning is what its definition says.
LEMMA MeaningOf ==
    ASSUME NEW n \in Nodes
    PROVE  Meaning[n] = Meant(Meaning, n)
<1>1. \E meaning : Means(meaning, Nodes)
  BY MeaningsExist, BelowFacts
<1>2. Meaning = CHOOSE meaning : Means(meaning, Nodes)
  BY DEF Meaning, Means
<1>3. Means(Meaning, Nodes)
  BY <1>1, <1>2
<1> QED
  BY <1>3 DEF Means

\* The value of a condition on a row, and the copies in a query's result.
Value(e, row) == Meaning[e][row]
Copies(q) == Meaning[q]

-----------------------------------------------------------------------------
(* The flag of a candidate is the sign of a node that its mutation applies *)
(* to, though perhaps not of the node that it changes.                     *)
ClauseNames == {"FixMOn1U_Pg", "FixMOn0L_Pg", "FixMWhere1U_Pg", "FixMWhere0L_Pg",
                "FixMHaving1U_Pg", "FixMHaving0L_Pg"}
Lowers == {"FixMCmpOpL_Pg", "RdMLikePgL", "FixMUnionAllL_Pg"}

AllNames == ClauseNames \cup ConditionMutations \cup {"FixMUnionAllU_Pg", "FixMUnionAllL_Pg"}

\* A candidate has the sign of a node that its mutation applies to.
FoundAt(c, occurrences) ==
    c.name \notin ClauseNames =>
        /\ c.U = IF c.name \in Lowers THEN 0 ELSE 1
        /\ \E o \in occurrences : Applies(c.name, o[1]) /\ SignOf(o[1], o[2]) = c.flag

FoundIn(occurrences) ==
    {c \in [name : AllNames, U : {0, 1}, flag : {0, 1}] : FoundAt(c, occurrences)}

\* A candidate for a part of a tree is one for the tree.
LEMMA FoundInMore ==
    ASSUME NEW A, NEW B, A \subseteq B
    PROVE  FoundIn(A) \subseteq FoundIn(B) /\ Seq(FoundIn(A)) \subseteq Seq(FoundIn(B))
<1>1. FoundIn(A) \subseteq FoundIn(B)
  BY DEF FoundIn, FoundAt
<1> HIDE DEF FoundIn
<1> QED
  BY <1>1

\* What a check of miningCmpOp and the like adds.
LEMMA OneOrNone ==
    ASSUME NEW C, NEW condition, NEW c, condition => c \in C
    PROVE  If(condition, c) \in Seq(C)
  BY DEF If

\* What a clause adds has the name of a mutation of clauses.
LEMMA ClauseCandidates ==
    ASSUME NEW occ, NEW clause, NEW one \in ClauseNames, NEW zero \in ClauseNames, NEW flag \in {0, 1}
    PROVE  Clause(clause, one, zero, flag) \in Seq(FoundIn(occ))
<1>0. ClauseNames \subseteq AllNames
  BY DEF AllNames
<1>1. Candidate(one, 1, flag) \in FoundIn(occ) /\ Candidate(zero, 0, flag) \in FoundIn(occ)
  BY <1>0 DEF Candidate, FoundIn, FoundAt
<1> HIDE DEF FoundIn
<1>2. /\ If(clause # None, Candidate(one, 1, flag)) \in Seq(FoundIn(occ))
      /\ If(clause # None, Candidate(zero, 0, flag)) \in Seq(FoundIn(occ))
  BY <1>1, OneOrNone
<1> QED
  BY <1>2 DEF Clause

\* A candidate for a node that its mutation applies to.
LEMMA CandidateHere ==
    ASSUME NEW n \in Nodes, NEW s \in {0, 1}, NEW nm \in AllNames, Applies(nm, n), NEW flag \in {0, 1},
           flag = SignOf(n, s), NEW U \in {0, 1}, U = IF nm \in Lowers THEN 0 ELSE 1
    PROVE  Candidate(nm, U, flag) \in FoundIn(Occurrences[n][s])
<1>1. <<n, s>> \in Occurrences[n][s]
  BY OccurrencesHold
<1>2. FoundAt(Candidate(nm, U, flag), Occurrences[n][s])
  <2>1. Applies(nm, <<n, s>>[1]) /\ SignOf(<<n, s>>[1], <<n, s>>[2]) = flag
    OBVIOUS
  <2> DEFINE c == Candidate(nm, U, flag)
  <2>2. c.name = nm /\ c.U = U /\ c.flag = flag
    BY DEF Candidate
  <2>3. FoundAt(c, Occurrences[n][s])
    <3> HIDE DEF c
    <3> QED
      BY <1>1, <2>1, <2>2 DEF FoundAt
  <2> QED
    BY <2>3
<1> QED
  BY <1>2 DEF FoundIn, Candidate

\* The names by which the visitor lists candidates are known.
LEMMA NamesHere ==
    /\ "FixMCmpOpU_Pg" \in AllNames /\ "FixMCmpOpULE_Pg" \in AllNames /\ "FixMCmpOpL_Pg" \in AllNames
    /\ "FixMInNullU_Pg" \in AllNames /\ "RdMLikePgU" \in AllNames /\ "RdMLikePgL" \in AllNames
    /\ "FixMBetweenDropUpperU_Pg" \in AllNames /\ "FixMBetweenDropLowerU_Pg" \in AllNames
    /\ "FixMIsNotDistinctFromToLowerL_Pg" \in AllNames
    /\ "FixMAllToAnyU_Pg" \in AllNames /\ "FixMAnyToAllL_Pg" \in AllNames
    /\ "FixMUnionAllU_Pg" \in AllNames /\ "FixMUnionAllL_Pg" \in AllNames
  BY DEF AllNames, ConditionMutations, SearchedEverywhere, ReplacesWhere, Quantifier

\* visitAExpr lists candidates for the node that it visits.
LEMMA ConditionCandidates ==
    ASSUME NEW n \in Nodes, NEW s \in {0, 1},
           n.kind \notin {"cast", "bool", "sublink", "setop", "select"}
    PROVE  visitAExpr(n, s) \in Seq(FoundIn(Occurrences[n][s]))
<1> DEFINE C == FoundIn(Occurrences[n][s])
<1> HIDE DEF C
<1>1. IsCondition(n)
  BY TreesAssumption DEF IsTree
<1>2. SignOf(n, s) \in {0, 1} /\ flip(s) \in {0, 1}
  BY DEF SignOf, flip
<1>3. CASE n.kind = "cmp"
  <2>1. visitAExpr(n, s) = miningCmpOp(n, s) /\ SignOf(n, s) = s
    BY <1>3 DEF visitAExpr, SignOf
  <2>2. /\ n.op \in DOMAIN CmpOpU => Applies("FixMCmpOpU_Pg", n)
        /\ n.op \in DOMAIN CmpOpULE => Applies("FixMCmpOpULE_Pg", n)
        /\ n.op \in DOMAIN CmpOpL => Applies("FixMCmpOpL_Pg", n)
    BY <1>3 DEF Applies, NewOperator
  <2>3. /\ n.op \in DOMAIN CmpOpU => Candidate("FixMCmpOpU_Pg", 1, s) \in C
        /\ n.op \in DOMAIN CmpOpULE => Candidate("FixMCmpOpULE_Pg", 1, s) \in C
        /\ n.op \in DOMAIN CmpOpL => Candidate("FixMCmpOpL_Pg", 0, s) \in C
    BY <2>1, <2>2, CandidateHere, NamesHere DEF C, Lowers
  <2>4. /\ If(n.op \in DOMAIN CmpOpU, Candidate("FixMCmpOpU_Pg", 1, s)) \in Seq(C)
        /\ If(n.op \in DOMAIN CmpOpULE, Candidate("FixMCmpOpULE_Pg", 1, s)) \in Seq(C)
        /\ If(n.op \in DOMAIN CmpOpL, Candidate("FixMCmpOpL_Pg", 0, s)) \in Seq(C)
    BY <2>3, OneOrNone
  <2> QED
    BY <2>1, <2>4 DEF miningCmpOp, C
<1>4. CASE n.kind = "in"
  <2>1. visitAExpr(n, s) = <<Candidate("FixMInNullU_Pg", 1, s)>> /\ SignOf(n, s) = s
    BY <1>4 DEF visitAExpr, SignOf
  <2>2. Applies("FixMInNullU_Pg", n)
    BY <1>4 DEF Applies, NewOperator
  <2>3. Candidate("FixMInNullU_Pg", 1, s) \in C
    BY <2>1, <2>2, CandidateHere, NamesHere DEF C, Lowers
  <2> QED
    BY <2>1, <2>3 DEF C
<1>5. CASE n.kind = "like"
  <2> DEFINE f == IF n.not THEN flip(s) ELSE s
  <2>1. visitAExpr(n, s) = miningLikeExpr(n, f) /\ SignOf(n, s) = f /\ f \in {0, 1}
    BY <1>2, <1>5 DEF visitAExpr, SignOf
  <2>2. /\ "other" \in n.has => Applies("RdMLikePgU", n)
        /\ "percent" \in n.has => Applies("RdMLikePgL", n)
    BY <1>5 DEF Applies, NewOperator, Widens, Narrows
  <2> HIDE DEF f
  <2>3. /\ "other" \in n.has => Candidate("RdMLikePgU", 1, f) \in C
        /\ "percent" \in n.has => Candidate("RdMLikePgL", 0, f) \in C
    BY <2>1, <2>2, CandidateHere, NamesHere DEF C, Lowers
  <2>4. /\ If("other" \in n.has, Candidate("RdMLikePgU", 1, f)) \in Seq(C)
        /\ If("percent" \in n.has, Candidate("RdMLikePgL", 0, f)) \in Seq(C)
    BY <2>3, OneOrNone
  <2> QED
    BY <2>1, <2>4 DEF miningLikeExpr, C
<1>6. CASE n.kind = "similar"
  BY <1>6 DEF visitAExpr, miningRegExpExpr, C
<1>7. CASE n.kind = "notdistinct"
  <2> DEFINE nm == "FixMIsNotDistinctFromToLowerL_Pg"
  <2>1. visitAExpr(n, s) = <<Candidate(nm, 1, s)>> /\ SignOf(n, s) = s
    BY <1>7 DEF visitAExpr, SignOf
  <2>2. Applies(nm, n)
    BY <1>7 DEF Applies, NewOperator
  <2>3. Candidate(nm, 1, s) \in C
    BY <2>1, <2>2, CandidateHere, NamesHere DEF C, Lowers
  <2> QED
    BY <2>1, <2>3 DEF C
<1>8. CASE n.kind = "between"
  <2> DEFINE f == IF n.not THEN flip(s) ELSE s
             upper == Candidate("FixMBetweenDropUpperU_Pg", 1, f)
             lower == Candidate("FixMBetweenDropLowerU_Pg", 1, f)
  <2>1. visitAExpr(n, s) = <<upper, lower>> /\ SignOf(n, s) = f /\ f \in {0, 1}
    BY <1>2, <1>8 DEF visitAExpr, SignOf
  <2>2. Applies("FixMBetweenDropUpperU_Pg", n) /\ Applies("FixMBetweenDropLowerU_Pg", n)
    BY <1>8 DEF Applies, NewOperator
  <2> HIDE DEF f
  <2>3. upper \in C /\ lower \in C
    BY <2>1, <2>2, CandidateHere, NamesHere DEF C, Lowers
  <2> QED
    BY <2>1, <2>3 DEF C
<1>9. n.kind \in {"cmp", "in", "like", "similar", "notdistinct", "between"}
  BY <1>1 DEF IsCondition
<1> QED
  BY <1>3, <1>4, <1>5, <1>6, <1>7, <1>8, <1>9

\* Each candidate that visiting a tree lists has the sign of a node in the tree that
\* its mutation applies to.
LEMMA CandidatesFound ==
    ASSUME NEW n \in Nodes, NEW s \in {0, 1}
    PROVE  visitNode[n][s] \in Seq(FoundIn(Occurrences[n][s]))
<1> DEFINE S == {m \in Nodes : \A f \in {0, 1} : visitNode[m][f] \in Seq(FoundIn(Occurrences[m][f]))}
<1>1. ASSUME NEW m \in Nodes, Parts(m) \subseteq S, NEW f \in {0, 1}
      PROVE  visitNode[m][f] \in Seq(FoundIn(Occurrences[m][f]))
  <2> DEFINE C == FoundIn(Occurrences[m][f])
  <2> HIDE DEF C
  <2>1. visitNode[m][f] = VisitedNode(visitNode, m, f) /\ IsTree(m)
    BY VisitNode, TreesAssumption DEF Visited
  <2>2. \A p \in Parts(m) : visitNode[p][SignUnder(m, f)] \in Seq(C)
    <3> TAKE p \in Parts(m)
    <3>1. SignUnder(m, f) \in {0, 1} /\ Occurrences[p][SignUnder(m, f)] \subseteq Occurrences[m][f]
      BY OccurrencesHold
    <3>2. visitNode[p][SignUnder(m, f)] \in Seq(FoundIn(Occurrences[p][SignUnder(m, f)]))
      BY <1>1, <3>1
    <3> QED
      BY <3>1, <3>2, FoundInMore DEF C
  <2>3. visitNode[None][f] = <<>> /\ <<>> \in Seq(C)
    BY VisitNode
  <2>4. m.kind # "bool" => SignUnder(m, f) = f
    BY DEF SignUnder
  <2>5. CASE m.kind = "cast"
    BY <2>1, <2>2, <2>4, <2>5 DEF VisitedNode, visitOperand, Parts, C
  <2>6. CASE m.kind = "bool"
    <3> DEFINE g == IF m.op = "NOT" THEN flip(f) ELSE f
               seqs == [k \in DOMAIN m.args |-> visitNode[m.args[k]][g]]
    <3>1. VisitedNode(visitNode, m, f) = FlattenSeq(seqs)
      BY <2>6 DEF VisitedNode, visitBoolExpr
    <3>2. m.args \in Seq(Conditions) /\ SignUnder(m, f) = g
      BY <2>1, <2>6 DEF IsTree, IsCondition, SignUnder
    <3> HIDE DEF g
    <3>3. \A k \in DOMAIN m.args : visitNode[m.args[k]][g] \in Seq(C)
      BY <2>2, <2>6, <3>2 DEF Parts
    <3>4. seqs \in Seq(Seq(C))
      BY <3>2, <3>3
    <3> HIDE DEF seqs
    <3> QED
      BY <2>1, <3>1, <3>4, FlattenMembers DEF C
  <2>7. CASE m.kind = "sublink"
    <3>1. VisitedNode(visitNode, m, f) = visitNode[m.subselect][f] \o miningSubLink(m, f)
      BY <2>7 DEF VisitedNode, visitSubLink
    <3>2. visitNode[m.subselect][f] \in Seq(C)
      BY <2>2, <2>4, <2>7 DEF Parts
    <3>3. SignOf(m, f) = f
      BY <2>7 DEF SignOf
    <3>4. /\ m.type = "ALL" => Applies("FixMAllToAnyU_Pg", m)
          /\ m.type = "ANY" => Applies("FixMAnyToAllL_Pg", m)
      BY <2>7 DEF Applies, NewOperator
    <3>5. /\ m.type = "ALL" => Candidate("FixMAllToAnyU_Pg", 1, f) \in C
          /\ m.type = "ANY" => Candidate("FixMAnyToAllL_Pg", 1, f) \in C
      BY <3>3, <3>4, CandidateHere, NamesHere DEF C, Lowers
    <3>6. /\ If(m.type = "ALL", Candidate("FixMAllToAnyU_Pg", 1, f)) \in Seq(C)
          /\ If(m.type = "ANY" /\ m.op # None, Candidate("FixMAnyToAllL_Pg", 1, f)) \in Seq(C)
      BY <3>5, OneOrNone
    <3> QED
      BY <2>1, <3>1, <3>2, <3>6 DEF miningSubLink, C
  <2>8. CASE m.kind = "setop"
    <3>1. VisitedNode(visitNode, m, f) = miningUnion(m, f) \o visitNode[m.larg][f] \o visitNode[m.rarg][f]
      BY <2>8 DEF VisitedNode, visitSetOp
    <3>2. visitNode[m.larg][f] \in Seq(C) /\ visitNode[m.rarg][f] \in Seq(C)
      BY <2>2, <2>4, <2>8 DEF Parts
    <3>3. SignOf(m, f) = f
      BY <2>8 DEF SignOf
    <3>4. /\ m.op = "UNION" => Applies("FixMUnionAllU_Pg", m)
          /\ m.op = "UNION ALL" => Applies("FixMUnionAllL_Pg", m)
      BY <2>8 DEF Applies, NewOperator
    <3>5. /\ m.op = "UNION" => Candidate("FixMUnionAllU_Pg", 1, f) \in C
          /\ m.op = "UNION ALL" => Candidate("FixMUnionAllL_Pg", 0, f) \in C
      BY <3>3, <3>4, CandidateHere, NamesHere DEF C, Lowers
    <3>6. /\ If(m.op = "UNION", Candidate("FixMUnionAllU_Pg", 1, f)) \in Seq(C)
          /\ If(m.op = "UNION ALL", Candidate("FixMUnionAllL_Pg", 0, f)) \in Seq(C)
      BY <3>5, OneOrNone
    <3>7. miningUnion(m, f) \in Seq(C)
      <4>1. \A x, y \in Seq(C) : x \o y \in Seq(C)
        OBVIOUS
      <4> QED
        BY <3>6, <4>1 DEF miningUnion
    <3> QED
      BY <2>1, <3>1, <3>2, <3>7 DEF C
  <2>9. CASE m.kind = "select"
    <3>1. \A clause \in {Quals(m.from), m.where, m.having, m.cte} : visitNode[clause][f] \in Seq(C)
      BY <2>2, <2>3, <2>4, <2>9 DEF Parts
    <3>2. /\ Clause(Quals(m.from), "FixMOn1U_Pg", "FixMOn0L_Pg", f) \in Seq(C)
          /\ Clause(m.where, "FixMWhere1U_Pg", "FixMWhere0L_Pg", f) \in Seq(C)
          /\ Clause(m.having, "FixMHaving1U_Pg", "FixMHaving0L_Pg", f) \in Seq(C)
      BY ClauseCandidates DEF ClauseNames, C
    <3>3. VisitedNode(visitNode, m, f) = visitSelectStmt(visitNode, m, f)
      BY <2>9 DEF VisitedNode
    <3>4. visitSelectStmt(visitNode, m, f) \in Seq(C)
      <4> DEFINE a == visitNode[Quals(m.from)][f]
                 b == Clause(Quals(m.from), "FixMOn1U_Pg", "FixMOn0L_Pg", f)
                 c == visitNode[m.where][f]
                 d == Clause(m.where, "FixMWhere1U_Pg", "FixMWhere0L_Pg", f)
                 e == visitNode[m.having][f]
                 h == Clause(m.having, "FixMHaving1U_Pg", "FixMHaving0L_Pg", f)
                 k == visitNode[m.cte][f]
      <4>1. /\ a \in Seq(C) /\ b \in Seq(C) /\ c \in Seq(C) /\ d \in Seq(C) /\ e \in Seq(C)
            /\ h \in Seq(C) /\ k \in Seq(C)
        BY <3>1, <3>2
      <4>2. visitSelectStmt(visitNode, m, f) = a \o b \o c \o d \o e \o h \o k
        BY DEF visitSelectStmt
      <4> HIDE DEF a, b, c, d, e, h, k
      <4>3. \A x, y \in Seq(C) : x \o y \in Seq(C)
        OBVIOUS
      <4> QED
        BY <4>1, <4>2, <4>3
    <3> QED
      BY <2>1, <3>3, <3>4 DEF C
  <2>10. CASE m.kind \notin {"cast", "bool", "sublink", "setop", "select"}
    BY <2>1, <2>10, ConditionCandidates DEF VisitedNode
  <2> QED
    BY <2>5, <2>6, <2>7, <2>8, <2>9, <2>10
<1>2. Nodes \subseteq S
  BY <1>1, TreeInduction
<1> QED
  BY <1>2

-----------------------------------------------------------------------------
(* A mutation moves the value of the condition that it changes.            *)
Moves(up, a, b) == IF up THEN a <= b ELSE b <= a

\* A comparison is true, false or unknown.
LEMMA CompareIn ==
    ASSUME NEW op \in CompareOps \cup {"<=>"}, NEW a \in Vals, NEW b \in Vals
    PROVE  Compare(op, a, b) \in D
  BY DEF Compare, CompareOps, Truth, D, F, N, T

\* How comparisons of the same values are ordered, and which negate each other.
LEMMA CompareMoves ==
    ASSUME NEW a \in Vals, NEW b \in Vals
    PROVE  /\ Compare("=", a, b) <= Compare(">=", a, b)
           /\ Compare("=", a, b) <= Compare("<=", a, b)
           /\ Compare("<", a, b) <= Compare("<=", a, b)
           /\ Compare(">", a, b) <= Compare(">=", a, b)
           /\ Compare("<", a, b) = Not3(Compare(">=", a, b))
           /\ Compare(">", a, b) = Not3(Compare("<=", a, b))
           /\ b # NULL => Compare("<=>", a, b) <= Compare("=", a, b)
<1>1. CASE a = NULL \/ b = NULL
  <2>1. \A op \in CompareOps : Compare(op, a, b) = N
    BY <1>1 DEF Compare, CompareOps
  <2>2. b # NULL => Compare("<=>", a, b) = F
    BY <1>1 DEF Compare, Truth
  <2> QED
    BY <2>1, <2>2 DEF CompareOps, N, F, Not3
<1>2. CASE a # NULL /\ b # NULL
  <2>1. a \in Int /\ b \in Int
    BY <1>2, ValuesAssumption DEF Vals
  <2>2. /\ Compare("=", a, b) = Truth(a = b)
        /\ Compare("<=>", a, b) = Truth(a = b)
        /\ Compare("<", a, b) = Truth(a < b)
        /\ Compare("<=", a, b) = Truth(a <= b)
        /\ Compare(">", a, b) = Truth(a > b)
        /\ Compare(">=", a, b) = Truth(a >= b)
    BY <1>2 DEF Compare
  <2> QED
    BY <2>1, <2>2 DEF Truth, F, T, Not3
<1> QED
  BY <1>1, <1>2

\* If a comparison with every row of a subquery is true, so is one with some row, if
\* there is a row.
LEMMA QuantifiersMove ==
    ASSUME NEW op \in CompareOps, NEW x \in Vals, NEW rows \in SUBSET Vals, NEW more \in SUBSET Vals,
           rows \subseteq more
    PROVE  /\ CompareAny(op, x, rows) \in D /\ CompareAny(op, x, rows) <= CompareAny(op, x, more)
           /\ rows # {} => CompareAll(op, x, rows) <= CompareAny(op, x, rows)
<1>1. \A r \in more : Compare(op, x, r) \in D
  BY CompareIn
<1>2. CompareAny(op, x, rows) \in D
  BY DEF CompareAny, D, F, N, T
<1>3. CompareAny(op, x, rows) <= CompareAny(op, x, more)
  BY <1>1 DEF CompareAny, D, F, N, T
<1>4. rows # {} => CompareAll(op, x, rows) <= CompareAny(op, x, rows)
  BY <1>1 DEF CompareAny, CompareAll, D, F, N, T
<1> QED
  BY <1>2, <1>3, <1>4

\* BETWEEN is at most each of its bounds, and NOT BETWEEN at least their negations.
LEMMA BoundsMove ==
    ASSUME NEW x \in Vals, NEW lo \in Vals, NEW hi \in Vals
    PROVE  /\ Between(x, lo, hi) <= Compare(">=", x, lo)
           /\ Between(x, lo, hi) <= Compare("<=", x, hi)
           /\ Compare("<", x, lo) <= Not3(Between(x, lo, hi))
           /\ Compare(">", x, hi) <= Not3(Between(x, lo, hi))
<1>1. Compare(">=", x, lo) \in D /\ Compare("<=", x, hi) \in D
  BY CompareIn DEF CompareOps
<1>2. Compare("<", x, lo) = Not3(Compare(">=", x, lo)) /\ Compare(">", x, hi) = Not3(Compare("<=", x, hi))
  BY CompareMoves
<1> QED
  BY <1>1, <1>2 DEF Between, And3, Not3, D

\* With bounds in order BETWEEN SYMMETRIC is BETWEEN.
LEMMA SymmetricInOrder ==
    ASSUME NEW x \in Vals, NEW n, n.lo \in Vals, n.hi \in Vals, n.sym \in BOOLEAN,
           n.sym => BoundsInOrder(n)
    PROVE  AnswerBetween(n, x) = Between(x, n.lo, n.hi)
<1>1. CASE ~n.sym
  BY <1>1 DEF AnswerBetween
<1>2. CASE n.sym
  <2> DEFINE lo == n.lo
             hi == n.hi
  <2>1. lo \in Int /\ hi \in Int /\ lo <= hi /\ lo # NULL /\ hi # NULL
    BY <1>2, ValuesAssumption DEF BoundsInOrder, Vals
  <2>2. AnswerBetween(n, x) = Or3(Between(x, lo, hi), Between(x, hi, lo))
    BY <1>2 DEF AnswerBetween
  <2> HIDE DEF lo, hi
  <2>3. CASE x = NULL
    <3>1. Between(x, lo, hi) = N /\ Between(x, hi, lo) = N
      BY <2>3 DEF Between, Compare, And3, N
    <3> QED
      BY <2>2, <3>1 DEF Or3, lo, hi
  <2>4. CASE x # NULL
    <3>1. x \in Int
      BY <2>4, ValuesAssumption DEF Vals
    <3>2. Between(x, lo, hi) = Truth(lo <= x /\ x <= hi)
      BY <2>1, <2>4, <3>1 DEF Between, Compare, And3, Truth, F, T
    <3>3. Between(x, hi, lo) = Truth(hi <= x /\ x <= lo)
      BY <2>1, <2>4, <3>1 DEF Between, Compare, And3, Truth, F, T
    <3>4. Or3(Between(x, lo, hi), Between(x, hi, lo)) = Between(x, lo, hi)
      BY <2>1, <3>1, <3>2, <3>3 DEF Or3, Truth, F, T
    <3> QED
      BY <2>2, <3>4 DEF lo, hi
  <2> QED
    BY <2>3, <2>4
<1> QED
  BY <1>1, <1>2

\* Whether the condition is the negation of what it tests.
Turned(n) == n.kind \in {"like", "between"} /\ n.not

\* There are finitely many values.
LEMMA ValsFinite == IsFiniteSet(Vals) /\ NULL \in Vals
<1>1. IsFiniteSet(Ints)
  BY TreesAssumption
<1> QED
  BY <1>1, FS_AddElement DEF Vals

\* The second columns are values.
LEMMA JoinedRows ==
    ASSUME NEW from, NEW x \in Vals
    PROVE  Joined(Meaning, from, x) \subseteq Vals
  BY ValsFinite DEF Joined

\* The copies that a select makes are none, one or several.
LEMMA SelectedInD ==
    ASSUME NEW q, NEW x \in Vals, q.cte # None => Meaning[q.cte][x] \in D
    PROVE  Selected(Meaning, q, x) \in D
<1> DEFINE base == IF q.cte = None THEN 1 ELSE Meaning[q.cte][x]
           rows == {y \in Joined(Meaning, q.from, x) : Keeps(Meaning, q.where, <<x, y>>)}
           m == Cardinality(rows)
<1>1. base \in {0, 1, 2}
  BY DEF D
<1>2. m \in Nat
  <2>1. rows \subseteq Vals
    BY JoinedRows
  <2> QED
    BY <2>1, ValsFinite, FS_Subset, FS_CardinalityType
<1>3. Selected(Meaning, q, x) = IF q.having = None THEN Several(base * m)
                                ELSE IF Keeps(Meaning, q.having, <<x, NULL>>) THEN DistinctCopies(base * m) ELSE 0
  BY DEF Selected
<1> HIDE DEF base, m
<1>4. base * m \in Nat
  BY <1>1, <1>2
<1>5. Several(base * m) \in D /\ DistinctCopies(base * m) \in D
  BY <1>4 DEF Several, DistinctCopies, D
<1>6. 0 \in D
  BY DEF D
<1> QED
  BY <1>3, <1>5, <1>6

\* Each condition is true, false or unknown on each row, each row has no copies in a
\* query's result, one or several; and they are as the node's kind says.
LEMMA AnswersHold ==
    /\ \A e \in Conditions, row \in TableRows : Value(e, row) \in D /\ Value(e, row) = Answer(Meaning, e, row)
    /\ \A q \in Queries : Copies(q) \in [Vals -> D] /\ Copies(q) = Result(Meaning, q)
<1> DEFINE Good(n) == IF IsQuery(n) THEN Meaning[n] \in [Vals -> D] ELSE Meaning[n] \in [TableRows -> D]
           S == {n \in Nodes : Good(n)}
<1>1. ASSUME NEW n \in Nodes, Subtrees(n) \subseteq S
      PROVE  Good(n)
  <2>0. IsTree(n) /\ Meaning[n] = Meant(Meaning, n)
    BY TreesAssumption, MeaningOf
  <2>s. \A p \in Subtrees(n) : Good(p)
    BY <1>1
  <2>1. CASE n.kind = "setop"
    <3>1. n.larg \in Subtrees(n) /\ n.rarg \in Subtrees(n) /\ IsQuery(n.larg) /\ IsQuery(n.rarg)
      BY <2>0, <2>1 DEF Subtrees, Parts, IsTree, Queries
    <3>2. Meaning[n.larg] \in [Vals -> D] /\ Meaning[n.rarg] \in [Vals -> D]
      BY <2>s, <3>1
    <3>3. n.op \in {"UNION", "UNION ALL", "INTERSECT", "EXCEPT"}
      BY <2>0, <2>1 DEF IsTree
    <3>4. \A l, r \in D : SetOperation(n.op, l, r) \in D
      <4> SUFFICES ASSUME NEW l \in D, NEW r \in D
                   PROVE  SetOperation(n.op, l, r) \in D
        OBVIOUS
      <4>1. l \in Nat /\ r \in Nat /\ l + r \in Nat /\ 0 \in D
        BY DEF D
      <4>2. \A k \in Nat : Several(k) \in D /\ DistinctCopies(k) \in D
        BY DEF Several, DistinctCopies, D
      <4>3. CASE n.op = "UNION"
        BY <4>1, <4>2, <4>3 DEF SetOperation
      <4>4. CASE n.op = "UNION ALL"
        BY <4>1, <4>2, <4>4 DEF SetOperation
      <4>5. CASE n.op = "INTERSECT"
        BY <4>1, <4>2, <4>5 DEF SetOperation
      <4>6. CASE n.op = "EXCEPT"
        BY <4>1, <4>2, <4>6 DEF SetOperation
      <4> QED
        BY <3>3, <4>3, <4>4, <4>5, <4>6
    <3>5. Result(Meaning, n) \in [Vals -> D]
      BY <2>1, <3>2, <3>4 DEF Result
    <3> QED
      BY <2>0, <2>1, <3>5 DEF Meant, IsQuery
  <2>2. CASE n.kind = "select"
    <3>1. n.cte # None => n.cte \in Subtrees(n) /\ IsQuery(n.cte)
      BY <2>0, <2>2 DEF Subtrees, Parts, IsTree, Queries
    <3>2. n.cte # None => Meaning[n.cte] \in [Vals -> D]
      BY <2>s, <3>1
    <3>3. \A x \in Vals : Selected(Meaning, n, x) \in D
      BY <3>2, SelectedInD
    <3>4. Result(Meaning, n) \in [Vals -> D]
      BY <2>2, <3>3 DEF Result
    <3> QED
      BY <2>0, <2>2, <3>4 DEF Meant, IsQuery
  <2>3. CASE n.kind \notin {"setop", "select"}
    <3>1. ASSUME NEW row \in TableRows
          PROVE  Answer(Meaning, n, row) \in D
      <4>0. IsCondition(n) /\ row[1] \in Vals /\ row[2] \in Vals
        BY <2>0, <2>3 DEF IsTree, TableRows
      <4>1. \A v \in D : \A not \in BOOLEAN : Negated(not, v) \in D
        BY DEF Negated, Not3, D
      <4>2. \A b \in BOOLEAN : Truth(b) \in D
        BY DEF Truth, D, F, T
      <4>3. CASE n.kind \in {"cmp", "notdistinct"}
        <5>1. row[n.col] \in Vals /\ n.rhs \in Vals
          BY <4>0, <4>3 DEF IsCondition, Columns
        <5>2. n.kind = "cmp" => n.op \in CompareOps
          BY <4>0 DEF IsCondition
        <5> QED
          BY <4>3, <5>1, <5>2, CompareIn DEF Answer
      <4>4. CASE n.kind \in {"like", "similar"}
        <5>1. n.not \in BOOLEAN
          BY <4>0, <4>4 DEF IsCondition
        <5>2. N \in D
          BY DEF N, D
        <5>3. Answer(Meaning, n, row) = IF row[n.col] = NULL THEN N ELSE Negated(n.not, Truth(row[n.col] \in n.matches))
          BY <4>4 DEF Answer
        <5>4. Truth(row[n.col] \in n.matches) \in D
          BY DEF Truth, D, F, T
        <5> QED
          BY <4>1, <5>1, <5>2, <5>3, <5>4
      <4>5. CASE n.kind = "in"
        <5>1. n.not \in BOOLEAN /\ row[n.col] \in Vals /\ n.items \in SUBSET Vals
          BY <4>0, <4>5 DEF IsCondition, Columns
        <5>2. In(row[n.col], n.items) \in D
          BY DEF In, CompareAny, D, F, N, T
        <5> QED
          BY <4>1, <4>5, <5>1, <5>2 DEF Answer
      <4>6. CASE n.kind = "between"
        <5>1. n.not \in BOOLEAN /\ row[n.col] \in Vals /\ n.lo \in Vals /\ n.hi \in Vals
          BY <4>0, <4>6 DEF IsCondition, Columns
        <5>2. \A lo, hi \in Vals : Between(row[n.col], lo, hi) \in D
          <6> SUFFICES ASSUME NEW lo \in Vals, NEW hi \in Vals
                       PROVE  Between(row[n.col], lo, hi) \in D
            OBVIOUS
          <6>1. Compare(">=", row[n.col], lo) \in D /\ Compare("<=", row[n.col], hi) \in D
            BY <5>1, CompareIn DEF CompareOps
          <6> QED
            BY <6>1 DEF Between, And3
        <5>3. AnswerBetween(n, row[n.col]) \in D
          BY <5>1, <5>2 DEF AnswerBetween, Or3
        <5> QED
          BY <4>1, <4>6, <5>1, <5>3 DEF Answer
      <4>7. CASE n.kind = "cast"
        <5>1. n.arg \in Subtrees(n) /\ ~IsQuery(n.arg)
          BY <4>0, <4>7 DEF IsCondition, Subtrees, Parts, Conditions
        <5>2. Meaning[n.arg] \in [TableRows -> D]
          BY <2>s, <5>1
        <5> QED
          BY <4>7, <5>2 DEF Answer
      <4>8. CASE n.kind = "bool"
        <5>1. \A j \in DOMAIN n.args : n.args[j] \in Subtrees(n) /\ ~IsQuery(n.args[j])
          <6>1. n.args \in Seq(Conditions)
            BY <4>0, <4>8 DEF IsCondition
          <6> QED
            BY <4>8, <6>1 DEF Subtrees, Parts, Conditions
        <5>2. \A j \in DOMAIN n.args : Meaning[n.args[j]][row] \in D
          BY <2>s, <5>1
        <5>3. n.op \in {"NOT", "AND", "OR"} /\ (n.op = "NOT" => 1 \in DOMAIN n.args)
          BY <4>0, <4>8 DEF IsCondition
        <5>4. \A values : AndOf(values) \in D /\ OrOf(values) \in D
          BY DEF AndOf, OrOf, D, F, N, T
        <5>5. \A v \in D : Not3(v) \in D
          BY DEF Not3, D
        <5>6. AnswerBool(Meaning, n, row) \in D
          BY <5>2, <5>3, <5>4, <5>5 DEF AnswerBool
        <5> QED
          BY <4>8, <5>6 DEF Answer
      <4>9. CASE n.kind = "sublink"
        <5>1. n.type \in {"EXISTS", "ANY", "ALL"}
          BY <4>0, <4>9 DEF IsCondition
        <5>2. \A op, x, rows : CompareAny(op, x, rows) \in D /\ CompareAll(op, x, rows) \in D
          BY DEF CompareAny, CompareAll, D, F, N, T
        <5>3. AnswerSubLink(Meaning, n, row) \in D
          BY <4>2, <5>1, <5>2 DEF AnswerSubLink
        <5> QED
          BY <4>9, <5>3 DEF Answer
      <4> QED
        BY <4>0, <4>3, <4>4, <4>5, <4>6, <4>7, <4>8, <4>9 DEF IsCondition
    <3>2. Meant(Meaning, n) = [row \in TableRows |-> Answer(Meaning, n, row)]
      BY <2>3 DEF Meant, IsQuery
    <3> QED
      BY <2>0, <2>3, <3>1, <3>2 DEF IsQuery
  <2> QED
    BY <2>1, <2>2, <2>3
<1>2. Nodes \subseteq S
  <2>1. \A n \in Nodes : Subtrees(n) \subseteq S => n \in S
    BY <1>1
  <2> HIDE DEF S
  <2> QED
    BY <2>1, SubtreeInduction
<1>3. ASSUME NEW e \in Conditions, NEW row \in TableRows
      PROVE  Value(e, row) \in D /\ Value(e, row) = Answer(Meaning, e, row)
  <2>1. e \in Nodes /\ ~IsQuery(e) /\ Meaning[e] \in [TableRows -> D]
    BY <1>2 DEF Conditions
  <2>2. Meaning[e] = [r \in TableRows |-> Answer(Meaning, e, r)]
    BY <2>1, MeaningOf DEF Meant
  <2> QED
    BY <2>1, <2>2 DEF Value
<1>4. ASSUME NEW q \in Queries
      PROVE  Copies(q) \in [Vals -> D] /\ Copies(q) = Result(Meaning, q)
  <2>1. q \in Nodes /\ IsQuery(q) /\ Meaning[q] \in [Vals -> D]
    BY <1>2 DEF Queries
  <2> QED
    BY <2>1, MeaningOf DEF Meant, Copies
<1> QED
  BY <1>3, <1>4

\* A condition has the value of its equation, and the form of its kind.
LEMMA Answers ==
    ASSUME NEW e \in Conditions, NEW row \in TableRows
    PROVE  /\ Value(e, row) = Answer(Meaning, e, row) /\ Value(e, row) \in D /\ IsCondition(e)
           /\ row[1] \in Vals /\ row[2] \in Vals
<1>1. IsTree(e) /\ e.kind \notin {"setop", "select"}
  BY TreesAssumption DEF Conditions, IsQuery
<1>2. IsCondition(e)
  BY <1>1 DEF IsTree
<1>3. row[1] \in Vals /\ row[2] \in Vals
  BY DEF TableRows
<1> QED
  BY <1>2, <1>3, AnswersHold

\* The value of a comparison.
LEMMA CmpAnswer ==
    ASSUME NEW op, NEW col, NEW rhs, Cmp(op, col, rhs) \in Conditions, NEW row \in TableRows
    PROVE  Value(Cmp(op, col, rhs), row) = Compare(op, row[col], rhs)
<1> DEFINE e == Cmp(op, col, rhs)
<1>1. e.kind = "cmp" /\ e.op = op /\ e.col = col /\ e.rhs = rhs
  BY DEF Cmp
<1> HIDE DEF e
<1>2. Value(e, row) = Compare(e.op, row[e.col], e.rhs)
  BY <1>1, AnswersHold DEF Answer, e, Value
<1> QED
  BY <1>1, <1>2 DEF e

Raises(nm, n) == IF Turned(n) THEN nm \in Lowers ELSE nm \notin Lowers

\* A comparison whose operator is replaced.
LEMMA OperatorMoves ==
    ASSUME NEW n \in Parsed \cap Conditions, NEW nm \in SearchedEverywhere, Applies(nm, n),
           NEW row \in TableRows
    PROVE  Moves(Raises(nm, n), Value(n, row), Value(NewNode(nm, n), row))
<1>1. NewNode(nm, n) \in Conditions
  BY TreesAssumption DEF ConditionMutations
<1>2. nm \in DOMAIN NewOperator /\ n.kind = "cmp" /\ n.op \in DOMAIN NewOperator[nm]
  BY DEF Applies, SearchedEverywhere, NewOperator
<1>3. n = Cmp(n.op, n.col, n.rhs) /\ n.op \in CompareOps /\ n.col \in {1, 2} /\ n.rhs \in Vals
  BY <1>2, Answers DEF IsCondition, Columns
<1> DEFINE alt == NewOperator[nm][n.op]
<1>4. NewNode(nm, n) = Cmp(alt, n.col, n.rhs)
  <2>1. NewNode(nm, n) = [n EXCEPT !.op = alt]
    BY <1>2 DEF NewNode, SearchedEverywhere
  <2>2. n = [kind |-> "cmp", op |-> n.op, col |-> n.col, rhs |-> n.rhs]
    BY <1>3 DEF Cmp
  <2> HIDE DEF alt
  <2> QED
    BY <2>1, <2>2 DEF Cmp
<1>5. ~Turned(n)
  BY <1>2 DEF Turned
<1> DEFINE x == row[n.col]
<1>6. x \in Vals
  BY <1>3, Answers
<1>7. Value(n, row) = Compare(n.op, x, n.rhs)
  BY <1>3, CmpAnswer
<1>8. Value(NewNode(nm, n), row) = Compare(alt, x, n.rhs)
  BY <1>1, <1>4, CmpAnswer
<1>9. \/ /\ nm \notin Lowers
         /\ \/ n.op = "=" /\ alt \in {">=", "<="}
            \/ n.op = "<" /\ alt = "<="
            \/ n.op = ">" /\ alt = ">="
      \/ /\ nm \in Lowers
         /\ \/ n.op = "<=" /\ alt = "<"
            \/ n.op = ">=" /\ alt = ">"
  <2>1. CASE nm = "FixMCmpOpU_Pg"
    BY <1>2, <2>1 DEF NewOperator, CmpOpU, Lowers
  <2>2. CASE nm = "FixMCmpOpULE_Pg"
    BY <1>2, <2>2 DEF NewOperator, CmpOpULE, Lowers
  <2>3. CASE nm = "FixMCmpOpL_Pg"
    BY <1>2, <2>3 DEF NewOperator, CmpOpL, Lowers
  <2> QED
    BY <2>1, <2>2, <2>3 DEF SearchedEverywhere
<1> HIDE DEF alt, x
<1> QED
  BY <1>3, <1>5, <1>6, <1>7, <1>8, <1>9, CompareMoves DEF Moves, Raises

\* IN with NULL among its items is true as often, and false no longer.
LEMMA InMoves ==
    ASSUME NEW n \in Parsed \cap Conditions, Applies("FixMInNullU_Pg", n), ~n.not, NEW row \in TableRows
    PROVE  Moves(Raises("FixMInNullU_Pg", n), Value(n, row), Value(NewNode("FixMInNullU_Pg", n), row))
<1> DEFINE nm == "FixMInNullU_Pg"
           alt == NewNode(nm, n)
<1>1. alt \in Conditions
  BY TreesAssumption DEF ConditionMutations
<1>2. n.kind = "in"
  BY DEF Applies, NewOperator
<1>3. /\ n = [kind |-> "in", col |-> n.col, not |-> n.not, items |-> n.items]
      /\ n.col \in {1, 2} /\ n.items \subseteq Vals
  BY <1>2, Answers DEF IsCondition, Columns
<1>4. alt = [n EXCEPT !.items = @ \cup {NULL}]
  BY DEF NewNode, NewOperator
<1>5. alt.kind = "in" /\ alt.col = n.col /\ alt.not = n.not /\ alt.items = n.items \cup {NULL}
  BY <1>3, <1>4
<1> HIDE DEF alt
<1>6. Value(n, row) = In(row[n.col], n.items)
  BY <1>2, Answers DEF Answer, Negated, Value
<1>7. Value(alt, row) = In(row[n.col], n.items \cup {NULL})
  BY <1>1, <1>5, Answers DEF Answer, Negated, Value
<1>8. row[n.col] \in Vals /\ NULL \in Vals
  BY <1>3, Answers DEF Vals
<1>9. In(row[n.col], n.items) <= In(row[n.col], n.items \cup {NULL})
  <2>1. "=" \in CompareOps /\ n.items \cup {NULL} \in SUBSET Vals /\ n.items \in SUBSET Vals
    BY <1>3, <1>8 DEF CompareOps
  <2> QED
    BY <1>8, <2>1, QuantifiersMove DEF In
<1>10. Raises(nm, n)
  BY <1>2 DEF Raises, Turned, Lowers
<1> QED
  BY <1>6, <1>7, <1>9, <1>10 DEF Moves, alt

\* A widened pattern matches more, a narrowed one less; under NOT LIKE the reverse.
LEMMA LikeMoves ==
    ASSUME NEW n \in Parsed \cap Conditions, NEW nm \in {"RdMLikePgU", "RdMLikePgL"}, Applies(nm, n),
           NEW row \in TableRows
    PROVE  Moves(Raises(nm, n), Value(n, row), Value(NewNode(nm, n), row))
<1> DEFINE alt == NewNode(nm, n)
           matches == IF nm = "RdMLikePgU" THEN n.wider ELSE n.narrower
<1>1. alt \in Conditions
  BY TreesAssumption DEF ConditionMutations
<1>2. n.kind = "like"
  BY DEF Applies, NewOperator, Widens, Narrows
<1>3. /\ n = [kind |-> "like", col |-> n.col, not |-> n.not, has |-> n.has,
                    narrower |-> n.narrower, matches |-> n.matches, wider |-> n.wider]
      /\ n.col \in {1, 2} /\ n.not \in BOOLEAN /\ n.narrower \subseteq n.matches /\ n.matches \subseteq n.wider
  BY <1>2, Answers DEF IsCondition, Columns
<1>4. alt = [n EXCEPT !.matches = matches]
  BY DEF NewNode, NewOperator
<1>5. alt.kind = "like" /\ alt.col = n.col /\ alt.not = n.not /\ alt.matches = matches
  BY <1>3, <1>4
<1>6. IF nm \in Lowers THEN matches \subseteq n.matches ELSE n.matches \subseteq matches
  BY <1>3 DEF Lowers
<1> HIDE DEF alt, matches
<1>7. Value(n, row) = IF row[n.col] = NULL THEN N ELSE Negated(n.not, Truth(row[n.col] \in n.matches))
  BY <1>2, Answers DEF Answer, Value
<1>8. Value(alt, row) = IF row[n.col] = NULL THEN N ELSE Negated(n.not, Truth(row[n.col] \in matches))
  BY <1>1, <1>5, Answers DEF Answer, Value
<1>9. Turned(n) <=> n.not
  BY <1>2 DEF Turned
<1>10. Moves(Raises(nm, n), Value(n, row), Value(alt, row))
  BY <1>3, <1>6, <1>7, <1>8, <1>9 DEF Moves, Raises, Negated, Not3, Truth, F, N, T
<1> QED
  BY <1>10 DEF alt

\* BETWEEN without a bound is true more often; under NOT BETWEEN less.
LEMMA BetweenMoves ==
    ASSUME NEW n \in Parsed \cap Conditions,
           NEW nm \in {"FixMBetweenDropUpperU_Pg", "FixMBetweenDropLowerU_Pg"}, Applies(nm, n),
           ~Exception(nm, n), NEW row \in TableRows
    PROVE  Moves(Raises(nm, n), Value(n, row), Value(NewNode(nm, n), row))
<1> DEFINE alt == NewNode(nm, n)
           x == row[n.col]
<1>1. alt \in Conditions
  BY TreesAssumption DEF ConditionMutations, ReplacesWhere
<1>2. n.kind = "between"
  BY DEF Applies, NewOperator
<1>3. /\ n.col \in {1, 2} /\ n.not \in BOOLEAN /\ n.lo \in Vals /\ n.hi \in Vals
      /\ n.sym \in BOOLEAN
  BY <1>2, Answers DEF IsCondition, Columns
<1>4. x \in Vals
  BY <1>3, Answers
<1>5. alt = IF nm = "FixMBetweenDropUpperU_Pg"
              THEN Cmp(IF n.not THEN "<" ELSE ">=", n.col, n.lo)
              ELSE Cmp(IF n.not THEN ">" ELSE "<=", n.col, n.hi)
  BY DEF NewNode, NewOperator
<1> HIDE DEF alt
<1>6. Value(alt, row) = IF nm = "FixMBetweenDropUpperU_Pg"
              THEN Compare(IF n.not THEN "<" ELSE ">=", x, n.lo)
              ELSE Compare(IF n.not THEN ">" ELSE "<=", x, n.hi)
  BY <1>1, <1>5, CmpAnswer
<1>7. Value(n, row) = Negated(n.not, Between(x, n.lo, n.hi))
  <2>1. Value(n, row) = Negated(n.not, AnswerBetween(n, x))
    BY <1>2, Answers DEF Answer, Value
  <2>2. n.sym => BoundsInOrder(n)
    BY <1>2 DEF Exception
  <2> QED
    BY <1>3, <1>4, <2>1, <2>2, SymmetricInOrder
<1>8. Turned(n) <=> n.not
  BY <1>2 DEF Turned
<1>9. nm \notin Lowers
  BY DEF Lowers
<1> HIDE DEF x
<1>10. Moves(Raises(nm, n), Value(n, row), Value(alt, row))
  BY <1>3, <1>4, <1>6, <1>7, <1>8, <1>9, BoundsMove DEF Moves, Raises, Negated
<1> QED
  BY <1>10 DEF alt

\* Equality with a value is true where IS NOT DISTINCT FROM it is, and unknown for NULL.
LEMMA NotDistinctMoves ==
    ASSUME NEW n \in Parsed \cap Conditions, Applies("FixMIsNotDistinctFromToLowerL_Pg", n), n.rhs # NULL,
           NEW row \in TableRows
    PROVE  Moves(Raises("FixMIsNotDistinctFromToLowerL_Pg", n), Value(n, row),
                 Value(NewNode("FixMIsNotDistinctFromToLowerL_Pg", n), row))
<1> DEFINE nm == "FixMIsNotDistinctFromToLowerL_Pg"
           alt == NewNode(nm, n)
<1>1. alt \in Conditions
  BY TreesAssumption DEF ConditionMutations, ReplacesWhere
<1>2. n.kind = "notdistinct"
  BY DEF Applies, NewOperator
<1>3. n.col \in {1, 2} /\ n.rhs \in Vals
  BY <1>2, Answers DEF IsCondition, Columns
<1>4. row[n.col] \in Vals
  BY <1>3, Answers
<1>5. alt = Cmp("=", n.col, n.rhs)
  BY DEF NewNode, NewOperator
<1> HIDE DEF alt
<1>6. Value(alt, row) = Compare("=", row[n.col], n.rhs)
  BY <1>1, <1>5, CmpAnswer
<1>7. Value(n, row) = Compare("<=>", row[n.col], n.rhs)
  BY <1>2, Answers DEF Answer, Value
<1>8. Raises(nm, n)
  BY <1>2 DEF Raises, Turned, Lowers
<1>9. Value(n, row) <= Value(alt, row)
  BY <1>3, <1>4, <1>6, <1>7, CompareMoves
<1> QED
  BY <1>8, <1>9 DEF Moves, alt

\* ANY grows over ALL, if the subquery has rows.
LEMMA AllToAnyMoves ==
    ASSUME NEW n \in Parsed \cap Conditions, Applies("FixMAllToAnyU_Pg", n), SubqueryRows(Meaning, n.subselect) # {},
           NEW row \in TableRows
    PROVE  Moves(Raises("FixMAllToAnyU_Pg", n), Value(n, row), Value(NewNode("FixMAllToAnyU_Pg", n), row))
<1> DEFINE nm == "FixMAllToAnyU_Pg"
           alt == NewNode(nm, n)
           rows == SubqueryRows(Meaning, n.subselect)
           op == IF n.op = None THEN "=" ELSE n.op
<1>1. alt \in Conditions
  BY TreesAssumption DEF ConditionMutations, Quantifier
<1>2. n.kind = "sublink" /\ n.type = "ALL"
  BY DEF Applies, NewOperator
<1>3. /\ n = [kind |-> "sublink", type |-> n.type, op |-> n.op, col |-> n.col,
                    subselect |-> n.subselect]
      /\ n.col \in {1, 2} /\ n.op \in CompareOps \cup {None}
  BY <1>2, Answers DEF IsCondition, Columns
<1>4. alt = [n EXCEPT !.type = "ANY"]
  BY DEF NewNode, NewOperator
<1>5. /\ alt.kind = "sublink" /\ alt.type = "ANY" /\ alt.op = n.op /\ alt.col = n.col
      /\ alt.subselect = n.subselect
  BY <1>3, <1>4
<1>6. row[n.col] \in Vals /\ op \in CompareOps
  BY <1>3, Answers DEF CompareOps
<1>7. rows \in SUBSET Vals /\ rows # {}
  BY DEF SubqueryRows, Copies
<1> HIDE DEF alt
<1>8. Value(n, row) = CompareAll(op, row[n.col], rows)
  <2>1. Value(n, row) = AnswerSubLink(Meaning, n, row)
    BY <1>2, Answers DEF Answer, Value
  <2> QED
    BY <1>2, <2>1 DEF AnswerSubLink
<1>9. Value(alt, row) = CompareAny(op, row[n.col], rows)
  <2>1. Value(alt, row) = AnswerSubLink(Meaning, alt, row)
    BY <1>1, <1>5, Answers DEF Answer, Value
  <2> QED
    BY <1>5, <2>1 DEF AnswerSubLink
<1> HIDE DEF rows, op
<1>10. Raises(nm, n)
  BY <1>2 DEF Raises, Turned, Lowers
<1>11. Value(n, row) <= Value(alt, row)
  BY <1>6, <1>7, <1>8, <1>9, QuantifiersMove
<1> QED
  BY <1>10, <1>11 DEF Moves, alt

\* Where a mutation changes a condition, it moves its value as the condition asks for.
LEMMA NodeMoves ==
    ASSUME NEW n \in Parsed \cap Conditions, NEW nm \in ConditionMutations, Applies(nm, n),
           ~Exception(nm, n), NEW row \in TableRows
    PROVE  Moves(Raises(nm, n), Value(n, row), Value(NewNode(nm, n), row))
<1>1. CASE nm \in SearchedEverywhere
  BY <1>1, OperatorMoves
<1>2. CASE nm = "FixMInNullU_Pg"
  BY <1>2, InMoves DEF Exception
<1>3. CASE nm \in {"RdMLikePgU", "RdMLikePgL"}
  BY <1>3, LikeMoves
<1>4. CASE nm \in {"FixMBetweenDropUpperU_Pg", "FixMBetweenDropLowerU_Pg"}
  BY <1>4, BetweenMoves
<1>5. CASE nm = "FixMIsNotDistinctFromToLowerL_Pg"
  BY <1>5, NotDistinctMoves DEF Exception
<1>6. CASE nm = "FixMAllToAnyU_Pg"
  BY <1>6, AllToAnyMoves DEF Exception
<1>7. nm # "FixMAnyToAllL_Pg"
  BY DEF Exception
<1> QED
  BY <1>1, <1>2, <1>3, <1>4, <1>5, <1>6, <1>7 DEF ConditionMutations, ReplacesWhere, Quantifier

-----------------------------------------------------------------------------
(* A search moves the value of the clause that it changes.                 *)
\* AND and OR grow with each of their arguments,
LEMMA BoolMoves ==
    ASSUME NEW I, NEW f \in [I -> D], NEW g \in [I -> D], NEW up \in BOOLEAN,
           \A k \in I : Moves(up, f[k], g[k])
    PROVE  /\ Moves(up, AndOf({f[k] : k \in I}), AndOf({g[k] : k \in I}))
           /\ Moves(up, OrOf({f[k] : k \in I}), OrOf({g[k] : k \in I}))
<1>1. \A k \in I : f[k] \in {0, 1, 2} /\ g[k] \in {0, 1, 2}
  BY DEF D
<1>2. CASE up
  <2>1. \A k \in I : f[k] <= g[k]
    BY <1>2 DEF Moves
  <2>2. AndOf({f[k] : k \in I}) <= AndOf({g[k] : k \in I})
    BY <1>1, <2>1 DEF AndOf, F, N, T
  <2>3. OrOf({f[k] : k \in I}) <= OrOf({g[k] : k \in I})
    BY <1>1, <2>1 DEF OrOf, F, N, T
  <2> QED
    BY <1>2, <2>2, <2>3 DEF Moves
<1>3. CASE ~up
  <2>1. \A k \in I : g[k] <= f[k]
    BY <1>3 DEF Moves
  <2>2. AndOf({g[k] : k \in I}) <= AndOf({f[k] : k \in I})
    BY <1>1, <2>1 DEF AndOf, F, N, T
  <2>3. OrOf({g[k] : k \in I}) <= OrOf({f[k] : k \in I})
    BY <1>1, <2>1 DEF OrOf, F, N, T
  <2> QED
    BY <1>3, <2>2, <2>3 DEF Moves
<1> QED
  BY <1>2, <1>3

\* and are between them.
LEMMA BoolBounds ==
    ASSUME NEW I, NEW f \in [I -> D], NEW k \in I
    PROVE  /\ AndOf({f[j] : j \in I}) <= f[k]
           /\ f[k] <= OrOf({f[j] : j \in I})
<1>1. \A j \in I : f[j] \in {0, 1, 2}
  BY DEF D
<1> QED
  BY <1>1 DEF AndOf, OrOf, F, N, T

\* The values of the arguments.
ArgValues(e, row) == [k \in DOMAIN e.args |-> Value(e.args[k], row)]

\* AND, OR and NOT of the values of the arguments.
LEMMA BoolAnswer ==
    ASSUME NEW e \in Conditions, e.kind = "bool", NEW row \in TableRows
    PROVE  /\ ArgValues(e, row) \in [DOMAIN e.args -> D]
           /\ \A k \in DOMAIN e.args : e.args[k] \in Conditions /\ ArgValues(e, row)[k] = Value(e.args[k], row)
           /\ e.op \in {"NOT", "AND", "OR"}
           /\ e.op = "AND" => Value(e, row) = AndOf({ArgValues(e, row)[k] : k \in DOMAIN e.args})
           /\ e.op = "OR" => Value(e, row) = OrOf({ArgValues(e, row)[k] : k \in DOMAIN e.args})
           /\ e.op = "NOT" => DOMAIN e.args = {1} /\ Value(e, row) = Not3(ArgValues(e, row)[1])
<1>1. /\ e.op \in {"NOT", "AND", "OR"} /\ e.args \in Seq(Conditions) /\ e.args # <<>>
      /\ e.op = "NOT" => Len(e.args) = 1
  BY Answers DEF IsCondition
<1>2. \A k \in DOMAIN e.args : e.args[k] \in Conditions
  BY <1>1
<1>3. \A k \in DOMAIN e.args : ArgValues(e, row)[k] = Value(e.args[k], row) /\ Value(e.args[k], row) \in D
  BY <1>2, Answers DEF ArgValues
<1>4. ArgValues(e, row) \in [DOMAIN e.args -> D]
  BY <1>3 DEF ArgValues
<1>5. Value(e, row) = AnswerBool(Meaning, e, row)
  BY Answers DEF Answer, Value
<1> DEFINE values == {Value(e.args[k], row) : k \in DOMAIN e.args}
<1>6. values = {ArgValues(e, row)[k] : k \in DOMAIN e.args}
  BY <1>3
<1>7. /\ e.op = "NOT" => AnswerBool(Meaning, e, row) = Not3(Value(e.args[1], row))
      /\ e.op = "AND" => AnswerBool(Meaning, e, row) = AndOf(values)
      /\ e.op = "OR" => AnswerBool(Meaning, e, row) = OrOf(values)
  BY DEF AnswerBool, Value
<1>8. e.op = "NOT" => DOMAIN e.args = {1}
  BY <1>1
<1> HIDE DEF values
<1> QED
  BY <1>1, <1>2, <1>3, <1>4, <1>5, <1>6, <1>7, <1>8

\* Whether a condition with a sign is to grow when its candidates have flag g.
Growing(nm, g, s) == (nm \notin Lowers) <=> (g = s)

\* The mutation applies to the nodes with flag g alone, and to no exception.
OneWay(nm, g, occurrences) ==
    \A o \in occurrences : Applies(nm, o[1]) => SignOf(o[1], o[2]) = g /\ ~Exception(nm, o[1])

\* AND and OR move with an argument that is changed, NOT against it.
LEMMA ArgumentMoves ==
    ASSUME NEW e \in Conditions, e.kind = "bool", NEW k \in DOMAIN e.args, NEW a, a \in Conditions,
           NEW alt, alt = [e EXCEPT !.args[k] = a], alt \in Conditions,
           NEW up \in BOOLEAN, NEW row \in TableRows, Moves(up, Value(e.args[k], row), Value(a, row))
    PROVE  Moves(IF e.op = "NOT" THEN ~up ELSE up, Value(e, row), Value(alt, row))
<1>1. e = [kind |-> "bool", op |-> e.op, args |-> e.args] /\ e.args \in Seq(Conditions)
  BY Answers DEF IsCondition
<1>2. alt.kind = "bool" /\ alt.op = e.op /\ alt.args = [e.args EXCEPT ![k] = a]
  BY <1>1
<1>3. DOMAIN alt.args = DOMAIN e.args /\ \A j \in DOMAIN e.args : alt.args[j] = IF j = k THEN a ELSE e.args[j]
  BY <1>1, <1>2
<1> DEFINE f == ArgValues(e, row)
           g == ArgValues(alt, row)
           I == DOMAIN e.args
<1>4. f \in [I -> D] /\ g \in [I -> D] /\ \A j \in I : f[j] = Value(e.args[j], row) /\ g[j] = Value(alt.args[j], row)
  <2>1. f \in [DOMAIN e.args -> D] /\ \A j \in DOMAIN e.args : f[j] = Value(e.args[j], row)
    BY BoolAnswer
  <2>2. g \in [DOMAIN alt.args -> D] /\ \A j \in DOMAIN alt.args : g[j] = Value(alt.args[j], row)
    <3>1. \A c \in Conditions : c.kind = "bool" =>
              /\ ArgValues(c, row) \in [DOMAIN c.args -> D]
              /\ \A j \in DOMAIN c.args : ArgValues(c, row)[j] = Value(c.args[j], row)
      BY BoolAnswer
    <3>2. alt \in Conditions /\ alt.kind = "bool"
      BY <1>2
    <3> QED
      BY <3>1, <3>2
  <2> HIDE DEF f, g
  <2> QED
    BY <1>3, <2>1, <2>2
<1>5. \A j \in I : f[j] \in {0, 1, 2}
  BY <1>4 DEF D
<1>6. \A j \in I : Moves(up, f[j], g[j])
  BY <1>3, <1>4, <1>5 DEF Moves
<1> HIDE DEF f, g
<1>7. /\ Moves(up, AndOf({f[j] : j \in I}), AndOf({g[j] : j \in I}))
      /\ Moves(up, OrOf({f[j] : j \in I}), OrOf({g[j] : j \in I}))
  BY <1>4, <1>6, BoolMoves
<1>8. e.op \in {"NOT", "AND", "OR"}
  BY BoolAnswer
<1>9. CASE e.op = "AND"
  <2>1. Value(e, row) = AndOf({f[j] : j \in I}) /\ Value(alt, row) = AndOf({g[j] : j \in I})
    BY <1>2, <1>3, <1>9, BoolAnswer DEF f, g
  <2> QED
    BY <1>7, <1>9, <2>1
<1>10. CASE e.op = "OR"
  <2>1. Value(e, row) = OrOf({f[j] : j \in I}) /\ Value(alt, row) = OrOf({g[j] : j \in I})
    BY <1>2, <1>3, <1>10, BoolAnswer DEF f, g
  <2> QED
    BY <1>7, <1>10, <2>1
<1>11. CASE e.op = "NOT"
  <2>1. I = {1} /\ Value(e, row) = Not3(f[1]) /\ Value(alt, row) = Not3(g[1])
    BY <1>2, <1>3, <1>11, BoolAnswer DEF f, g
  <2>2. Moves(up, f[1], g[1]) /\ f[1] \in D /\ g[1] \in D
    BY <1>4, <1>6, <2>1
  <2> QED
    BY <1>11, <2>1, <2>2 DEF Moves, Not3, D
<1> QED
  BY <1>8, <1>9, <1>10, <1>11

\* The arguments of a parsed condition are parsed conditions.
LEMMA ParsedArguments ==
    ASSUME NEW e \in Parsed \cap Conditions, e.kind = "bool", NEW k \in DOMAIN e.args
    PROVE  e.args[k] \in Parsed \cap Conditions /\ e.args[k] \in Parts(e)
<1>1. e.args[k] \in Parts(e)
  BY DEF Parts
<1>2. e.args \in Seq(Conditions)
  <2>1. IsTree(e) /\ e.kind \notin {"setop", "select"}
    BY TreesAssumption
  <2> QED
    BY <2>1 DEF IsTree, IsCondition
<1> QED
  BY <1>1, <1>2, TreesAssumption

\* A search that changes a condition moves its value as its sign asks for.
LEMMA SearchMoves ==
    ASSUME NEW nm \in ConditionMutations, NEW g \in {0, 1}
    PROVE  \A e \in Parsed \cap Conditions, s \in {0, 1} :
               OneWay(nm, g, Occurrences[e][s]) /\ inExpr(nm, e) # None =>
                   \A row \in TableRows :
                       Moves(Growing(nm, g, s), Value(e, row), Value(inExpr(nm, e), row))
<1> DEFINE Good(e) == \A s \in {0, 1} :
               OneWay(nm, g, Occurrences[e][s]) /\ inExpr(nm, e) # None =>
                   \A row \in TableRows :
                       Moves(Growing(nm, g, s), Value(e, row), Value(inExpr(nm, e), row))
           S == {e \in Nodes : e \in Parsed \cap Conditions => Good(e)}
<1>1. ASSUME NEW e \in Nodes, Parts(e) \subseteq S, e \in Parsed \cap Conditions, NEW s \in {0, 1},
             OneWay(nm, g, Occurrences[e][s]), inExpr(nm, e) # None, NEW row \in TableRows
      PROVE  Moves(Growing(nm, g, s), Value(e, row), Value(inExpr(nm, e), row))
  <2>0. inExpr(nm, e) \in Conditions /\ IsCondition(e)
    BY <1>1, TreesAssumption, Answers
  <2>1. CASE inExpr(nm, e) = Replacement(nm, e)
    <3>1. Applies(nm, e) /\ inExpr(nm, e) = NewNode(nm, e)
      BY <1>1, <2>1 DEF Replacement
    <3>2. <<e, s>> \in Occurrences[e][s]
      BY OccurrencesHold
    <3>3. SignOf(e, s) = g /\ ~Exception(nm, e)
      <4>1. \A o : o = <<e, s>> => o[1] = e /\ o[2] = s
        OBVIOUS
      <4> QED
        BY <1>1, <3>1, <3>2, <4>1 DEF OneWay
    <3>4. Moves(Raises(nm, e), Value(e, row), Value(NewNode(nm, e), row))
      BY <1>1, <3>1, <3>3, NodeMoves
    <3>5. Raises(nm, e) <=> Growing(nm, g, s)
      <4>1. SignOf(e, s) = IF Turned(e) THEN flip(s) ELSE s
        BY DEF SignOf, Turned
      <4> QED
        BY <3>3, <4>1 DEF Raises, Growing, flip
    <3> QED
      BY <3>1, <3>4, <3>5 DEF Moves
  <2>2. CASE inExpr(nm, e) # Replacement(nm, e)
    <3>1. e.kind = "bool"
      BY <1>1, <2>2, SearchInExpr
    <3>2. PICK k \in DOMAIN e.args : /\ inExpr(nm, e.args[k]) # None
                                     /\ inExpr(nm, e) = [e EXCEPT !.args[k] = inExpr(nm, e.args[k])]
      BY <1>1, <2>2, SearchInExpr
    <3> DEFINE a == e.args[k]
               t == SignUnder(e, s)
    <3>3. a \in Parsed \cap Conditions /\ a \in Parts(e) /\ a \in S
      BY <1>1, <3>1, ParsedArguments
    <3>4. t \in {0, 1} /\ Occurrences[a][t] \subseteq Occurrences[e][s]
      BY <3>3, OccurrencesHold
    <3>5. OneWay(nm, g, Occurrences[a][t])
      BY <1>1, <3>4 DEF OneWay
    <3>6. Moves(Growing(nm, g, t), Value(a, row), Value(inExpr(nm, a), row))
      BY <3>2, <3>3, <3>4, <3>5
    <3>7. inExpr(nm, a) \in Conditions
      BY <3>2, <3>3, TreesAssumption
    <3>8. Growing(nm, g, t) \in BOOLEAN
      BY DEF Growing
    <3> DEFINE up == Growing(nm, g, t)
    <3>9. Moves(IF e.op = "NOT" THEN ~up ELSE up, Value(e, row), Value(inExpr(nm, e), row))
      <4> HIDE DEF up
      <4> QED
        BY <1>1, <2>0, <3>1, <3>2, <3>6, <3>7, <3>8, ArgumentMoves DEF up
    <3>10. Growing(nm, g, s) <=> (IF e.op = "NOT" THEN ~up ELSE up)
      BY <3>1 DEF Growing, SignUnder, flip
    <3> QED
      BY <3>9, <3>10 DEF Moves
  <2> QED
    BY <2>1, <2>2
<1>2. \A e \in Nodes : Parts(e) \subseteq S => e \in S
  BY <1>1
<1>3. Nodes \subseteq S
  <2> HIDE DEF S
  <2> QED
    BY <1>2, TreeInduction
<1>4. Parsed \subseteq Nodes
  BY TreesAssumption
<1> QED
  BY <1>3, <1>4

\* The clause is made of ANDs, of which one argument is kept, or of ORs.
OneKept(g, occurrences) ==
    \A b \in occurrences : b[1].kind = "bool" => b[1].op = IF g = 1 THEN "AND" ELSE "OR"

\* Where the clause is replaced by the changed node, it moves as the flag says, if it
\* consists of ANDs, of which one argument is kept, or of ORs.
LEMMA KeptMoves ==
    ASSUME NEW nm \in ReplacesWhere, NEW g \in {0, 1}
    PROVE  \A e \in Parsed \cap Conditions :
               OneWay(nm, g, Occurrences[e][1]) /\ OneKept(g, Occurrences[e][1])
                   /\ replacementIn(nm, e) # None =>
                   /\ replacementIn(nm, e) \in Conditions
                   /\ \A row \in TableRows :
                          Moves(g = 1, Value(e, row), Value(replacementIn(nm, e), row))
<1> DEFINE Good(e) == OneWay(nm, g, Occurrences[e][1]) /\ OneKept(g, Occurrences[e][1])
                          /\ replacementIn(nm, e) # None =>
                   /\ replacementIn(nm, e) \in Conditions
                   /\ \A row \in TableRows :
                          Moves(g = 1, Value(e, row), Value(replacementIn(nm, e), row))
           S == {e \in Nodes : e \in Parsed \cap Conditions => Good(e)}
<1>0. nm \in ConditionMutations /\ nm \notin Lowers
  BY DEF ConditionMutations, ReplacesWhere, Lowers
<1>1. ASSUME NEW e \in Nodes, Parts(e) \subseteq S, e \in Parsed \cap Conditions,
             OneWay(nm, g, Occurrences[e][1]), OneKept(g, Occurrences[e][1]),
             replacementIn(nm, e) # None
      PROVE  /\ replacementIn(nm, e) \in Conditions
             /\ \A row \in TableRows :
                    Moves(g = 1, Value(e, row), Value(replacementIn(nm, e), row))
  <2>0. /\ <<e, 1>> \in Occurrences[e][1]
        /\ \A o : o = <<e, 1>> => o[1] = e /\ o[2] = 1
    <3>1. <<e, 1>> \in Occurrences[e][1]
      BY OccurrencesHold
    <3>2. \A o : o = <<e, 1>> => o[1] = e /\ o[2] = 1
      OBVIOUS
    <3> QED
      BY <3>1, <3>2
  <2>1. CASE replacementIn(nm, e) = Replacement(nm, e)
    <3>1. Applies(nm, e) /\ replacementIn(nm, e) = NewNode(nm, e)
      BY <1>1, <2>1 DEF Replacement
    <3>2. NewNode(nm, e) \in Conditions
      BY <1>0, <1>1, <3>1, TreesAssumption
    <3>3. SignOf(e, 1) = g /\ ~Exception(nm, e)
      BY <1>1, <2>0, <3>1 DEF OneWay
    <3>4. \A row \in TableRows : Moves(Raises(nm, e), Value(e, row), Value(NewNode(nm, e), row))
      BY <1>0, <1>1, <3>1, <3>3, NodeMoves
    <3>5. Raises(nm, e) <=> g = 1
      <4>1. SignOf(e, 1) = IF Turned(e) THEN flip(1) ELSE 1
        BY DEF SignOf, Turned
      <4> QED
        BY <1>0, <3>3, <4>1 DEF Raises, flip
    <3> QED
      BY <3>1, <3>2, <3>4, <3>5 DEF Moves
  <2>2. CASE replacementIn(nm, e) # Replacement(nm, e)
    <3>1. e.kind = "bool"
      BY <1>1, <2>2, SearchForNode
    <3>2. PICK k \in DOMAIN e.args : /\ replacementIn(nm, e.args[k]) # None
                                     /\ replacementIn(nm, e) = replacementIn(nm, e.args[k])
      BY <1>1, <2>2, SearchForNode
    <3> DEFINE a == e.args[k]
               alt == replacementIn(nm, e)
    <3>3. a \in Parsed \cap Conditions /\ a \in Parts(e) /\ a \in S
      BY <1>1, <3>1, ParsedArguments
    <3>4. e.op = IF g = 1 THEN "AND" ELSE "OR"
      BY <1>1, <2>0, <3>1 DEF OneKept
    <3>5. Occurrences[a][1] \subseteq Occurrences[e][1]
      BY <3>3, <3>4, OccurrencesHold DEF SignUnder
    <3>6. OneWay(nm, g, Occurrences[a][1]) /\ OneKept(g, Occurrences[a][1])
      BY <1>1, <3>5 DEF OneWay, OneKept
    <3>7. alt \in Conditions /\ \A row \in TableRows : Moves(g = 1, Value(a, row), Value(alt, row))
      BY <3>2, <3>3, <3>6
    <3>8. ASSUME NEW row \in TableRows
          PROVE  Moves(g = 1, Value(e, row), Value(alt, row))
      <4> DEFINE f == ArgValues(e, row)
                 I == DOMAIN e.args
      <4>1. f \in [I -> D] /\ f[k] = Value(a, row)
        BY <1>1, <3>1, BoolAnswer
      <4>2. AndOf({f[j] : j \in I}) <= f[k] /\ f[k] <= OrOf({f[j] : j \in I})
        BY <4>1, BoolBounds
      <4>3. /\ e.op = "AND" => Value(e, row) = AndOf({f[j] : j \in I})
            /\ e.op = "OR" => Value(e, row) = OrOf({f[j] : j \in I})
        BY <1>1, <3>1, BoolAnswer
      <4>4. Value(e, row) \in D /\ Value(a, row) \in D /\ Value(alt, row) \in D
        BY <1>1, <3>3, <3>7, Answers
      <4>5. Moves(g = 1, Value(a, row), Value(alt, row))
        BY <3>7
      <4> HIDE DEF f, alt, a
      <4> QED
        BY <3>4, <4>1, <4>2, <4>3, <4>4, <4>5 DEF Moves, D
    <3> QED
      BY <3>7, <3>8
  <2> QED
    BY <2>1, <2>2
<1>2. \A e \in Nodes : Parts(e) \subseteq S => e \in S
  BY <1>1
<1>3. Nodes \subseteq S
  <2> HIDE DEF S
  <2> QED
    BY <1>2, TreeInduction
<1>4. Parsed \subseteq Nodes
  BY TreesAssumption
<1> QED
  BY <1>3, <1>4

-----------------------------------------------------------------------------
(* A clause that moves moves the rows of the query.                        *)
\* The rows of FROM that WHERE keeps.
KeptRows(q, x) == {y \in Joined(Meaning, q.from, x) : Keeps(Meaning, q.where, <<x, y>>)}

\* More copies stay more when they are counted as one or as several.
LEMMA SeveralMoves ==
    ASSUME NEW m \in Nat, NEW n \in Nat, m <= n
    PROVE  Several(m) <= Several(n) /\ DistinctCopies(m) <= DistinctCopies(n) /\ 0 <= DistinctCopies(n)
  BY DEF Several, DistinctCopies

\* A select whose clauses keep more has more copies.
LEMMA SelectedMoves ==
    ASSUME NEW p, NEW q, NEW x \in Vals, p.cte = q.cte, p.cte # None => p.cte \in Queries,
           KeptRows(p, x) \subseteq KeptRows(q, x),
           p.having = None <=> q.having = None,
           Keeps(Meaning, p.having, <<x, NULL>>) => Keeps(Meaning, q.having, <<x, NULL>>)
    PROVE  Selected(Meaning, p, x) <= Selected(Meaning, q, x)
<1> DEFINE base == IF p.cte = None THEN 1 ELSE Copies(p.cte)[x]
           m == Cardinality(KeptRows(p, x))
           n == Cardinality(KeptRows(q, x))
<1>1. base \in {0, 1, 2}
  <2>1. p.cte # None => Copies(p.cte)[x] \in D
    BY AnswersHold
  <2> QED
    BY <2>1 DEF D
<1>2. m \in Nat /\ n \in Nat /\ m <= n
  <2>1. KeptRows(q, x) \subseteq Vals
    BY JoinedRows DEF KeptRows
  <2>2. IsFiniteSet(KeptRows(q, x))
    BY <2>1, ValsFinite, FS_Subset
  <2> QED
    BY <2>2, FS_Subset, FS_CardinalityType
<1>3. /\ Selected(Meaning, p, x) = IF p.having = None THEN Several(base * m)
                          ELSE IF Keeps(Meaning, p.having, <<x, NULL>>) THEN DistinctCopies(base * m) ELSE 0
      /\ Selected(Meaning, q, x) = IF q.having = None THEN Several(base * n)
                          ELSE IF Keeps(Meaning, q.having, <<x, NULL>>) THEN DistinctCopies(base * n) ELSE 0
  BY DEF Selected, KeptRows, Copies
<1> HIDE DEF base, m, n
<1>4. base * m \in Nat /\ base * n \in Nat /\ base * m <= base * n
  <2>1. CASE base = 0
    BY <1>2, <2>1
  <2>2. CASE base = 1
    BY <1>2, <2>2
  <2>3. CASE base = 2
    BY <1>2, <2>3
  <2> QED
    BY <1>1, <2>1, <2>2, <2>3
<1> DEFINE a == base * m
           b == base * n
<1> HIDE DEF a, b
<1>5. /\ Several(a) <= Several(b) /\ DistinctCopies(a) <= DistinctCopies(b) /\ 0 <= DistinctCopies(b)
      /\ a \in Nat /\ b \in Nat
  BY <1>4, SeveralMoves DEF a, b
<1>6. DistinctCopies(a) \in Int /\ DistinctCopies(b) \in Int
  BY <1>5 DEF DistinctCopies
<1> QED
  BY <1>3, <1>5, <1>6 DEF a, b

\* A clause that grows keeps more.
LEMMA KeepsMore ==
    ASSUME NEW a \in Conditions, NEW b \in Conditions, NEW row \in TableRows,
           Value(a, row) <= Value(b, row), Keeps(Meaning, a, row)
    PROVE  Keeps(Meaning, b, row)
<1>1. a # None
  BY TreesAssumption DEF Conditions
<1>2. Value(a, row) = T /\ Value(b, row) \in D
  BY <1>1, Answers DEF Keeps, Value
<1> QED
  BY <1>2 DEF Keeps, D, T, Value

\* Two selects that differ in one clause, a in p and b in q.
OtherClause(p, q, a, b) ==
    /\ p.cte = q.cte
    /\ \/ /\ p.from = q.from /\ p.having = q.having
          /\ p.where = a /\ q.where = b
       \/ /\ p.from = q.from /\ p.where = q.where
          /\ p.having = a /\ q.having = b
       \/ /\ p.where = q.where /\ p.having = q.having
          /\ InnerJoin(p.from) /\ InnerJoin(q.from)
          /\ p.from.quals = a /\ q.from.quals = b

\* If what differs grows, the select has more rows.
LEMMA ClauseMoves ==
    ASSUME NEW p, NEW q, p.kind = "select", q.kind = "select", p.cte # None => p.cte \in Queries,
           NEW a \in Conditions, NEW b \in Conditions, OtherClause(p, q, a, b),
           \A row \in TableRows : Value(a, row) <= Value(b, row)
    PROVE  Contained(p, q)
<1>1. \A row \in TableRows : Keeps(Meaning, a, row) => Keeps(Meaning, b, row)
  BY KeepsMore
<1>2. a # None /\ b # None
  BY TreesAssumption DEF Conditions
<1>3. ASSUME NEW x \in Vals
      PROVE  Selected(Meaning, p, x) <= Selected(Meaning, q, x)
  <2>1. \A y \in Vals : Keeps(Meaning, a, <<x, y>>) => Keeps(Meaning, b, <<x, y>>)
    BY <1>1 DEF TableRows
  <2>2. NULL \in Vals /\ Joined(Meaning, p.from, x) \subseteq Vals
    BY ValsFinite, JoinedRows
  <2>3. CASE p.from = q.from /\ p.having = q.having /\ p.where = a /\ q.where = b
    <3>1. KeptRows(p, x) \subseteq KeptRows(q, x)
      BY <2>1, <2>2, <2>3 DEF KeptRows
    <3> QED
      BY <2>3, <3>1, SelectedMoves DEF OtherClause
  <2>4. CASE p.from = q.from /\ p.where = q.where /\ p.having = a /\ q.having = b
    <3>1. KeptRows(p, x) \subseteq KeptRows(q, x)
      BY <2>4 DEF KeptRows
    <3>2. Keeps(Meaning, p.having, <<x, NULL>>) => Keeps(Meaning, q.having, <<x, NULL>>)
      BY <2>1, <2>2, <2>4
    <3> QED
      BY <1>2, <2>4, <3>1, <3>2, SelectedMoves DEF OtherClause
  <2>5. CASE /\ p.where = q.where /\ p.having = q.having
             /\ InnerJoin(p.from) /\ InnerJoin(q.from)
             /\ p.from.quals = a /\ q.from.quals = b
    <3>1. /\ Joined(Meaning, p.from, x) = {y \in Vals : Keeps(Meaning, a, <<x, y>>)}
          /\ Joined(Meaning, q.from, x) = {y \in Vals : Keeps(Meaning, b, <<x, y>>)}
      BY <2>5 DEF Joined, InnerJoin
    <3>2. KeptRows(p, x) \subseteq KeptRows(q, x)
      BY <2>1, <2>5, <3>1 DEF KeptRows
    <3> QED
      BY <2>5, <3>2, SelectedMoves DEF OtherClause
  <2> QED
    BY <2>3, <2>4, <2>5 DEF OtherClause
<1>4. \A x \in Vals : Result(Meaning, p)[x] = Selected(Meaning, p, x) /\ Result(Meaning, q)[x] = Selected(Meaning, q, x)
  BY DEF Result, Copies
<1> QED
  BY <1>3, <1>4 DEF Contained

\* UNION ALL keeps the copies that UNION drops.
LEMMA UnionMoves ==
    ASSUME NEW l \in D, NEW r \in D
    PROVE  SetOperation("UNION", l, r) <= SetOperation("UNION ALL", l, r)
  BY DEF SetOperation, Several, DistinctCopies, D

\* UNION and UNION ALL are exchanged.
LEMMA SetOpMoves ==
    ASSUME NEW p \in Queries, p.kind = "setop",
           NEW q, q = [p EXCEPT !.op = IF @ = "UNION" THEN "UNION ALL" ELSE "UNION"],
           p.op \in {"UNION", "UNION ALL"}
    PROVE  IF p.op = "UNION" THEN Contained(p, q) ELSE Contained(q, p)
<1>1. IsSetOp(p) /\ p.larg \in Queries /\ p.rarg \in Queries
  BY TreesAssumption DEF Queries, IsTree
<1>2. /\ q.kind = "setop" /\ q.larg = p.larg /\ q.rarg = p.rarg
      /\ q.op = IF p.op = "UNION" THEN "UNION ALL" ELSE "UNION"
  BY <1>1 DEF IsSetOp
<1>3. ASSUME NEW x \in Vals
      PROVE  IF p.op = "UNION" THEN Result(Meaning, p)[x] <= Result(Meaning, q)[x] ELSE Result(Meaning, q)[x] <= Result(Meaning, p)[x]
  <2>1. Copies(p.larg)[x] \in D /\ Copies(p.rarg)[x] \in D
    BY <1>1, AnswersHold
  <2>2. /\ Result(Meaning, p)[x] = SetOperation(p.op, Copies(p.larg)[x], Copies(p.rarg)[x])
        /\ Result(Meaning, q)[x] = SetOperation(q.op, Copies(p.larg)[x], Copies(p.rarg)[x])
    BY <1>2 DEF Result, Copies
  <2> QED
    BY <1>2, <2>1, <2>2, UnionMoves
<1> QED
  BY <1>3 DEF Contained

-----------------------------------------------------------------------------
(* The query made for a candidate has the direction of its unit.           *)
\* Nothing is found in a clause that is not there.
LEMMA NothingInNone ==
    ASSUME NEW nm
    PROVE  inExpr(nm, None) = None
  BY DEF inExpr, Changed

\* A select with another WHERE that moves has more rows or fewer, as it moves.
LEMMA WhereMoves ==
    ASSUME NEW q \in Statements, q.kind = "select", q.where \in Conditions, NEW e \in Conditions,
           NEW up \in BOOLEAN, \A row \in TableRows : Moves(up, Value(q.where, row), Value(e, row))
    PROVE  IF up THEN Contained(q, WithWhere(q, e)) ELSE Contained(WithWhere(q, e), q)
<1>1. IsSelect(q) /\ e # None /\ (q.cte # None => q.cte \in Queries)
  BY TreesAssumption DEF IsTree, Conditions
<1> DEFINE r == WithWhere(q, e)
<1>2. /\ r.kind = "select" /\ r.from = q.from /\ r.having = q.having /\ r.cte = q.cte
      /\ r.where = e
  <2>1. r = [q EXCEPT !.where = e]
    BY <1>1 DEF WithWhere
  <2> QED
    BY <1>1, <2>1 DEF IsSelect
<1> HIDE DEF r
<1>3. OtherClause(q, r, q.where, e) /\ OtherClause(r, q, e, q.where)
  BY <1>2 DEF OtherClause
<1>4. CASE up
  BY <1>1, <1>2, <1>3, <1>4, ClauseMoves DEF Moves, r
<1>5. CASE ~up
  BY <1>1, <1>2, <1>3, <1>5, ClauseMoves DEF Moves, r
<1> QED
  BY <1>4, <1>5

\* The same for HAVING,
LEMMA HavingMoves ==
    ASSUME NEW q \in Statements, q.kind = "select", q.having \in Conditions, NEW e \in Conditions,
           NEW up \in BOOLEAN, \A row \in TableRows : Moves(up, Value(q.having, row), Value(e, row))
    PROVE  IF up THEN Contained(q, WithHaving(q, e)) ELSE Contained(WithHaving(q, e), q)
<1>1. IsSelect(q) /\ e # None /\ (q.cte # None => q.cte \in Queries)
  BY TreesAssumption DEF IsTree, Conditions
<1> DEFINE r == WithHaving(q, e)
<1>2. /\ r.kind = "select" /\ r.from = q.from /\ r.where = q.where /\ r.cte = q.cte
      /\ r.having = e
  <2>1. r = [q EXCEPT !.having = e]
    BY <1>1 DEF WithHaving
  <2> QED
    BY <1>1, <2>1 DEF IsSelect
<1> HIDE DEF r
<1>3. OtherClause(q, r, q.having, e) /\ OtherClause(r, q, e, q.having)
  BY <1>2 DEF OtherClause
<1>4. CASE up
  BY <1>1, <1>2, <1>3, <1>4, ClauseMoves DEF Moves, r
<1>5. CASE ~up
  BY <1>1, <1>2, <1>3, <1>5, ClauseMoves DEF Moves, r
<1> QED
  BY <1>4, <1>5

\* and for the ON of an inner join.
LEMMA QualsMoves ==
    ASSUME NEW q \in Statements, q.kind = "select", Quals(q.from) \in Conditions, NEW e \in Conditions,
           NEW up \in BOOLEAN, \A row \in TableRows : Moves(up, Value(Quals(q.from), row), Value(e, row))
    PROVE  IF up THEN Contained(q, WithQuals(q, e)) ELSE Contained(WithQuals(q, e), q)
<1>1. IsSelect(q) /\ e # None /\ Quals(q.from) # None /\ (q.cte # None => q.cte \in Queries)
  BY TreesAssumption DEF IsTree, Conditions
<1>2. InnerJoin(q.from) /\ q.from.quals = Quals(q.from) /\ IsJoin(q.from)
  BY <1>1, StatementsAssumption DEF Quals, InnerJoin
<1> DEFINE r == WithQuals(q, e)
<1>3. /\ r.kind = "select" /\ r.where = q.where /\ r.having = q.having /\ r.cte = q.cte
      /\ InnerJoin(r.from) /\ r.from.quals = e
  <2>1. r = [q EXCEPT !.from.quals = e]
    BY <1>1 DEF WithQuals
  <2>2. /\ r.kind = "select" /\ r.where = q.where /\ r.having = q.having /\ r.cte = q.cte
        /\ r.from = [q.from EXCEPT !.quals = e]
    BY <1>1, <2>1 DEF IsSelect
  <2>3. r.from = [type |-> q.from.type, quals |-> e]
    BY <1>2, <2>2 DEF IsJoin
  <2>4. r.from.type = "INNER" /\ r.from.quals = e
    BY <1>2, <2>3 DEF InnerJoin
  <2>5. r.from # None
    <3>1. q.from.type = "INNER" /\ e \in Nodes
      BY <1>2 DEF InnerJoin, Conditions
    <3> QED
      BY <2>3, <3>1, TreesAssumption
  <2> QED
    BY <2>2, <2>4, <2>5 DEF InnerJoin
<1> HIDE DEF r
<1>4. OtherClause(q, r, Quals(q.from), e) /\ OtherClause(r, q, e, Quals(q.from))
  BY <1>2, <1>3 DEF OtherClause
<1>5. CASE up
  BY <1>1, <1>3, <1>4, <1>5, ClauseMoves DEF Moves, r
<1>6. CASE ~up
  BY <1>1, <1>3, <1>4, <1>6, ClauseMoves DEF Moves, r
<1> QED
  BY <1>5, <1>6
\* The clauses of a statement are parsed, and what occurs in them occurs in it.
LEMMA ClauseOf ==
    ASSUME NEW q \in Statements, q.kind = "select", NEW clause \in {q.where, q.having, Quals(q.from)},
           clause # None
    PROVE  clause \in Parsed \cap Conditions /\ Occurrences[clause][1] \subseteq Occurrences[q][1]
<1>1. q \in Parsed /\ q \in Nodes /\ IsTree(q)
  BY TreesAssumption
<1>2. clause \in Parts(q)
  BY DEF Parts
<1>3. clause \in Parsed
  BY <1>1, <1>2, TreesAssumption
<1>4. clause \in Conditions
  BY <1>1 DEF IsTree, IsClause, Quals, InnerJoin
<1>5. SignUnder(q, 1) = 1
  BY DEF SignUnder
<1>6. Occurrences[clause][1] \subseteq Occurrences[q][1]
  BY <1>1, <1>2, <1>5, OccurrencesHold
<1> QED
  BY <1>3, <1>4, <1>6

\* A search in a clause of a statement moves it as the flag of the candidates says.
LEMMA SearchedClause ==
    ASSUME NEW q \in Statements, q.kind = "select", NEW clause \in {q.where, q.having, Quals(q.from)},
           NEW nm \in ConditionMutations, NEW g \in {0, 1}, OneWay(nm, g, Occurrences[q][1]),
           inExpr(nm, clause) # None
    PROVE  /\ clause \in Conditions /\ inExpr(nm, clause) \in Conditions
           /\ \A row \in TableRows :
                  Moves(Growing(nm, g, 1), Value(clause, row), Value(inExpr(nm, clause), row))
<1>1. clause # None
  BY NothingInNone
<1>2. clause \in Parsed \cap Conditions /\ Occurrences[clause][1] \subseteq Occurrences[q][1]
  BY <1>1, ClauseOf
<1>3. OneWay(nm, g, Occurrences[clause][1])
  BY <1>2 DEF OneWay
<1>4. inExpr(nm, clause) \in Conditions
  BY <1>2, TreesAssumption
<1> QED
  BY <1>2, <1>3, <1>4, SearchMoves

\* A mutation of a condition of a statement.
LEMMA SelectMutationMoves ==
    ASSUME NEW q \in Statements, q.kind = "select", NEW nm \in ConditionMutations, NEW g \in {0, 1},
           OneWay(nm, g, Occurrences[q][1]),
           nm \in ReplacesWhere => OneKept(g, Occurrences[q][1]),
           NEW r, r = doFixSelect(nm, q), r # None
    PROVE  IF Growing(nm, g, 1) THEN Contained(q, r) ELSE Contained(r, q)
<1> DEFINE up == Growing(nm, g, 1)
           Goal(p) == IF up THEN Contained(q, p) ELSE Contained(p, q)
           w == WithWhere(q, inExpr(nm, q.where))
           h == WithHaving(q, inExpr(nm, q.having))
           o == WithQuals(q, inExpr(nm, Quals(q.from)))
<1>0. up \in BOOLEAN
  BY DEF Growing
<1>1. w # None => Goal(w)
  <2>1. w # None => inExpr(nm, q.where) # None
    BY DEF WithWhere
  <2> QED
    BY <1>0, <2>1, SearchedClause, WhereMoves
<1>2. h # None => Goal(h)
  <2>1. h # None => inExpr(nm, q.having) # None
    BY DEF WithHaving
  <2> QED
    BY <1>0, <2>1, SearchedClause, HavingMoves
<1>3. o # None => Goal(o)
  <2>1. o # None => inExpr(nm, Quals(q.from)) # None
    BY DEF WithQuals
  <2> QED
    BY <1>0, <2>1, SearchedClause, QualsMoves
<1> USE DEF SearchedEverywhere, Quantifier, ReplacesWhere
<1>4. CASE nm \in SearchedEverywhere
  <2>1. r = First(<<w, h, o>>)
    BY <1>4 DEF doFixSelect
  <2>2. r \in {w, h, o}
    <3> HIDE DEF w, h, o
    <3> QED
      BY <2>1, FirstOfThree
  <2> HIDE DEF Goal, w, h, o
  <2>3. Goal(r)
    BY <1>1, <1>2, <1>3, <2>2
  <2> QED
    BY <2>3 DEF Goal
<1>5. CASE nm \in {"FixMInNullU_Pg", "RdMLikePgU", "RdMLikePgL"}
  <2>1. r = First(<<w, h>>)
    BY <1>5 DEF doFixSelect
  <2>2. r \in {w, h}
    <3> HIDE DEF w, h
    <3> QED
      BY <2>1, FirstOfTwo
  <2> HIDE DEF Goal, w, h
  <2>3. Goal(r)
    BY <1>1, <1>2, <2>2
  <2> QED
    BY <2>3 DEF Goal
<1>6. CASE nm \in Quantifier
  <2>1. r = w
    BY <1>6 DEF doFixSelect
  <2> QED
    BY <1>1, <2>1
<1>7. CASE nm \in ReplacesWhere
  <2>1. q.where # None /\ r = WithWhere(q, replacementIn(nm, q.where))
    BY <1>7 DEF doFixSelect
  <2>2. replacementIn(nm, q.where) # None
    BY <2>1 DEF WithWhere
  <2>3. q.where \in Parsed \cap Conditions /\ Occurrences[q.where][1] \subseteq Occurrences[q][1]
    BY <2>1, ClauseOf
  <2>4. OneWay(nm, g, Occurrences[q.where][1]) /\ OneKept(g, Occurrences[q.where][1])
    BY <1>7, <2>3 DEF OneWay, OneKept
  <2>5. /\ replacementIn(nm, q.where) \in Conditions
        /\ \A row \in TableRows :
               Moves(g = 1, Value(q.where, row), Value(replacementIn(nm, q.where), row))
    BY <1>7, <2>2, <2>3, <2>4, KeptMoves
  <2>6. up <=> g = 1
    BY <1>7 DEF Growing, Lowers
  <2>7. IF g = 1 THEN Contained(q, r) ELSE Contained(r, q)
    BY <2>1, <2>3, <2>5, WhereMoves
  <2> QED
    BY <2>6, <2>7
<1> QED
  BY <1>4, <1>5, <1>6, <1>7 DEF ConditionMutations

\* A mutation that replaces a clause by a constant is not printed.
LEMMA ConstantNotPrinted ==
    ASSUME NEW q \in Statements, q.kind = "select", NEW nm \in ClauseNames, doFixSelect(nm, q) # None
    PROVE  ~Deparses(doFixSelect(nm, q))
<1>1. SelectTree(q)
  BY StatementsAssumption DEF SelectTree
<1>2. \A clause, b : Constants(clause, b) # None => Constants(clause, b).kind = "Boolean"
  BY DEF Constants, BooleanNode
<1> DEFINE r == doFixSelect(nm, q)
<1>3. CASE nm \in {"FixMWhere1U_Pg", "FixMWhere0L_Pg", "FixMHaving1U_Pg", "FixMHaving0L_Pg"}
  <2>1. Broken(r)
    BY <1>1, <1>3, NotRecoveredBreaks DEF NotRecovered, doFix
  <2> QED
    BY <2>1, BrokenNotPrinted
<1>4. CASE nm \in {"FixMOn1U_Pg", "FixMOn0L_Pg"}
  <2>1. PICK e \in {Constants(Quals(q.from), TRUE), Constants(Quals(q.from), FALSE)} : r = WithQuals(q, e)
    BY <1>4 DEF doFixSelect, SearchedEverywhere, Quantifier, ReplacesWhere
  <2>2. e # None /\ r = [q EXCEPT !.from.quals = e] /\ e.kind = "Boolean"
    BY <1>2, <2>1 DEF WithQuals
  <2>3. Quals(q.from) # None
    BY <2>1, <2>2 DEF Constants
  <2>4. InnerJoin(q.from) /\ IsJoin(q.from)
    BY <1>1, <2>3 DEF Quals, InnerJoin, SelectTree
  <2>5. SelectTree(r) /\ r.kind = "select"
    BY <1>1, FixSelect DEF doFix
  <2>6. r.from = [q.from EXCEPT !.quals = e]
    BY <1>1, <2>2 DEF SelectTree, IsSelect
  <2>7. r.from = [type |-> q.from.type, quals |-> e]
    BY <2>4, <2>6 DEF IsJoin
  <2>8. r.from.type = "INNER" /\ r.from.quals = e
    BY <2>4, <2>7 DEF InnerJoin
  <2>9. r.from # None
    <3>1. q.from.type = "INNER" /\ e \in {BooleanNode(TRUE), BooleanNode(FALSE)}
      BY <2>1, <2>2, <2>4 DEF InnerJoin, Constants
    <3> QED
      BY <2>7, <3>1, TreesAssumption
  <2>5a. r.kind = "select"
    BY <2>5
  <2>2a. e # None /\ e.kind = "Boolean"
    BY <2>2
  <2> HIDE DEF r
  <2>10. InnerJoin(r.from) /\ Quals(r.from) = e
    BY <2>8, <2>9 DEF Quals, InnerJoin
  <2>11. ~Deparses(r)
    BY <2>2a, <2>5a, <2>10 DEF Deparses
  <2> QED
    BY <2>11 DEF r
<1> QED
  BY <1>3, <1>4 DEF ClauseNames

\* Only the mutations of UNION apply to a set operation.
LEMMA SetOpUnion ==
    ASSUME NEW n, n.kind = "setop", NEW nm, Applies(nm, n)
    PROVE  \/ nm = "FixMUnionAllU_Pg" /\ n.op = "UNION"
           \/ nm = "FixMUnionAllL_Pg" /\ n.op = "UNION ALL"
  BY DEF Applies, Widens, Narrows

\* A query made from the statement for a candidate has the direction that the unit says.
LEMMA CandidateDirection ==
    ASSUME stmt \in Statements, NEW c \in FoundIn(Occurrences[stmt][1]),
           NEW r, r = doFix(c.name, stmt), r # None, Deparses(r), Directed(c.name)
    PROVE  IF c.U = c.flag THEN Contained(stmt, r) ELSE Contained(r, stmt)
<1> DEFINE at == Occurrences[stmt][1]
           nm == c.name
           g == c.flag
<1>1. /\ stmt \in Queries /\ stmt \in Parsed /\ stmt \in Nodes /\ <<stmt, 1>> \in at
  BY TreesAssumption, OccurrencesHold
<1>2. nm \in AllNames /\ g \in {0, 1} /\ c.U \in {0, 1} /\ FoundAt(c, at)
  BY DEF FoundIn
<1>3. ASSUME nm \notin ClauseNames
      PROVE  /\ c.U = IF nm \in Lowers THEN 0 ELSE 1
             /\ OneWay(nm, g, at)
             /\ nm \in ReplacesWhere => OneKept(g, at)
  <2>1. c.U = IF nm \in Lowers THEN 0 ELSE 1
    BY <1>2, <1>3 DEF FoundAt
  <2>2. PICK o \in at : Applies(nm, o[1]) /\ SignOf(o[1], o[2]) = g
    BY <1>2, <1>3 DEF FoundAt
  <2>3. OneWay(nm, g, at)
    BY <2>2 DEF OneWay, Directed
  <2>4. nm \in ReplacesWhere => OneKept(g, at)
    BY <2>2 DEF OneKept, Directed
  <2> QED
    BY <2>1, <2>3, <2>4
<1>4. CASE stmt.kind = "setop"
  <2>1. Applies(nm, stmt) /\ r = [stmt EXCEPT !.op = IF @ = "UNION" THEN "UNION ALL" ELSE "UNION"]
    BY <1>4 DEF doFix, doFixSetOp
  <2>2. \/ nm = "FixMUnionAllU_Pg" /\ stmt.op = "UNION"
        \/ nm = "FixMUnionAllL_Pg" /\ stmt.op = "UNION ALL"
    BY <1>4, <2>1, SetOpUnion
  <2>3. nm \notin ClauseNames
    BY <2>2 DEF ClauseNames
  <2>4. SignOf(stmt, 1) = g
    <3>1. \A o : o = <<stmt, 1>> => o[1] = stmt /\ o[2] = 1
      OBVIOUS
    <3> QED
      BY <1>1, <1>3, <2>1, <2>3, <3>1 DEF OneWay
  <2>5. g = 1
    BY <1>4, <2>4 DEF SignOf
  <2>6. IF stmt.op = "UNION" THEN Contained(stmt, r) ELSE Contained(r, stmt)
    <3> HIDE DEF nm
    <3> QED
      BY <1>1, <1>4, <2>1, <2>2, SetOpMoves
  <2>7. c.U = g <=> stmt.op = "UNION"
    <3>1. c.U = IF nm \in Lowers THEN 0 ELSE 1
      BY <1>3, <2>3
    <3>2. nm \in Lowers <=> stmt.op = "UNION ALL"
      BY <2>2 DEF Lowers
    <3>3. stmt.op = "UNION" \/ stmt.op = "UNION ALL"
      BY <2>2
    <3>4. CASE stmt.op = "UNION"
      <4>1. c.U = 1 /\ c.flag = 1
        BY <2>5, <3>1, <3>2, <3>4
      <4> QED
        BY <3>4, <4>1
    <3>5. CASE stmt.op = "UNION ALL"
      <4>1. c.U = 0 /\ c.flag = 1
        BY <2>5, <3>1, <3>2, <3>5
      <4>2. c.U # c.flag
        BY <4>1
      <4>3. stmt.op # "UNION"
        BY <3>5
      <4> QED
        BY <4>2, <4>3
    <3> QED
      BY <3>3, <3>4, <3>5
  <2> QED
    BY <2>6, <2>7
<1>5. CASE stmt.kind = "select"
  <2>1. r = doFixSelect(nm, stmt)
    BY <1>5 DEF doFix
  <2>2. nm \notin ClauseNames
    BY <1>5, <2>1, ConstantNotPrinted
  <2>3. nm \notin {"FixMUnionAllU_Pg", "FixMUnionAllL_Pg"}
    BY <2>1 DEF doFixSelect, SearchedEverywhere, Quantifier, ReplacesWhere
  <2>4. nm \in ConditionMutations
    BY <1>2, <2>2, <2>3 DEF AllNames
  <2>5. IF Growing(nm, g, 1) THEN Contained(stmt, r) ELSE Contained(r, stmt)
    BY <1>2, <1>3, <1>5, <2>1, <2>2, <2>4, SelectMutationMoves
  <2>6. Growing(nm, g, 1) <=> c.U = g
    BY <1>2, <1>3, <2>2 DEF Growing
  <2> QED
    BY <2>5, <2>6
<1> QED
  BY <1>1, <1>4, <1>5 DEF Queries, IsQuery

\* What the candidates that are left and the units say of the statement.
CandidatesKnown ==
    /\ queue \in Seq(FoundIn(Occurrences[stmt][1]))
    /\ \A u \in units :
           /\ u.sql # None => Deparses(u.sql)
           /\ \E c \in FoundIn(Occurrences[stmt][1]) : u.name = c.name /\ u.isUpper = (c.U = c.flag)

\* The candidates of a statement have the signs of its nodes.
LEMMA CandidatesOfStatement ==
    ASSUME stmt \in Statements
    PROVE  Candidates \in Seq(FoundIn(Occurrences[stmt][1]))
<1>1. stmt \in Nodes
  BY TreesAssumption
<1> QED
  BY <1>1, CandidatesFound DEF Candidates

\* So it is for those still in the queue and for all that became units.
LEMMA KnownHolds == PgSpec => []CandidatesKnown
<1>1. PgInit => CandidatesKnown
  BY DEF PgInit, CandidatesKnown
<1>2. ASSUME PgInvariant, CandidatesKnown, [PgNext]_pgVars
      PROVE  CandidatesKnown'
  <2> DEFINE C == FoundIn(Occurrences[stmt][1])
  <2>1. stmt' = stmt /\ stmt \in Statements
    BY <1>2 DEF PgInvariant, TreeIntactOrBroken, PgNext, NextName, PgImpoMutate, Returned, pgVars
  <2>2. Candidates \in Seq(C)
    BY <2>1, CandidatesOfStatement
  <2>3. C' = C
    BY <2>1
  <2>4. queue \in Seq(C)
    BY <1>2 DEF CandidatesKnown
  <2>5. \A u \in units : /\ u.sql # None => Deparses(u.sql)
                         /\ \E c \in C : u.name = c.name /\ u.isUpper = (c.U = c.flag)
    BY <1>2 DEF CandidatesKnown
  <2>6. SUFFICES /\ queue' \in Seq(C)
                 /\ \A u \in units' : /\ u.sql # None => Deparses(u.sql)
                                      /\ \E c \in C : u.name = c.name /\ u.isUpper = (c.U = c.flag)
    BY <2>1 DEF CandidatesKnown
  <2> HIDE DEF C
  <2>7. CASE NextName
    <3>1. PICK nm \in pending :
              queue' = FlattenSeq([k \in DOMAIN Candidates |-> If(Candidates[k].name = nm, Candidates[k])])
      BY <2>7 DEF NextName
    <3> DEFINE parts == [k \in DOMAIN Candidates |-> If(Candidates[k].name = nm, Candidates[k])]
    <3>2. \A k \in DOMAIN Candidates : If(Candidates[k].name = nm, Candidates[k]) \in Seq(C)
      BY <2>2 DEF If
    <3>3. parts \in Seq(Seq(C))
      <4>1. DOMAIN Candidates = 1 .. Len(Candidates) /\ Len(Candidates) \in Nat
        BY <2>2
      <4> QED
        BY <3>2, <4>1
    <3> HIDE DEF parts
    <3>4. FlattenSeq(parts) \in Seq(C)
      BY <3>3, FlattenMembers
    <3>5. units' = units
      BY <2>7 DEF NextName
    <3> QED
      BY <2>5, <3>1, <3>4, <3>5 DEF parts
  <2>8. CASE PgImpoMutate
    <3> DEFINE c == Head(queue)
               mutated == doFix(c.name, root)
               ok == mutated # None /\ Deparses(mutated)
               u == Unit(c, IF ok THEN mutated ELSE None)
    <3>1. queue # <<>> /\ units' = units \cup {u} /\ queue' = Tail(queue)
      BY <2>8 DEF PgImpoMutate
    <3>2. c \in C /\ Tail(queue) \in Seq(C)
      BY <2>4, <3>1
    <3>3. /\ u.sql = (IF ok THEN mutated ELSE None)
          /\ u.name = c.name /\ u.isUpper = (c.U = c.flag)
      BY DEF Unit
    <3>4. u.sql # None => Deparses(u.sql)
      BY <3>3
    <3> HIDE DEF c, u
    <3> QED
      BY <2>5, <3>1, <3>2, <3>3, <3>4
  <2>9. CASE UNCHANGED pgVars
    BY <2>4, <2>5, <2>9 DEF pgVars
  <2> QED
    BY <1>2, <2>7, <2>8, <2>9 DEF PgNext, Returned
<1> QED
  BY <1>1, <1>2, PgInvariantHolds, PTL DEF PgSpec

(* For every statement, whatever conditions its tree has and however deep: *)
(* if all nodes to which a mutation of MutateAllForPostgreSQL applies ask  *)
(* for the same direction, the query of each of its units has the rows     *)
(* that the unit's isUpper promises - although the mutation changes the    *)
(* first node it finds, and the direction is that of another candidate.    *)
THEOREM UnitsKeepTheirPromise == PgSpec => []ImplicationHolds
<1>1. ASSUME PgInvariant, CandidatesKnown
      PROVE  ImplicationHolds
  <2> SUFFICES ASSUME NEW u \in units, Directed(u.name), u.sql # None
               PROVE  IF u.isUpper THEN Contained(stmt, u.sql) ELSE Contained(u.sql, stmt)
    BY DEF ImplicationHolds, DirectionRight
  <2>1. PICK c \in FoundIn(Occurrences[stmt][1]) : u.name = c.name /\ u.isUpper = (c.U = c.flag)
    BY <1>1 DEF CandidatesKnown
  <2>2. stmt \in Statements /\ u.sql = doFix(c.name, stmt) /\ Deparses(u.sql)
    BY <1>1, <2>1 DEF PgInvariant, TreeIntactOrBroken, UnitsIndependent, CandidatesKnown
  <2>3. IF c.U = c.flag THEN Contained(stmt, u.sql) ELSE Contained(u.sql, stmt)
    BY <2>1, <2>2, CandidateDirection
  <2> QED
    BY <2>1, <2>3
<1> QED
  BY <1>1, PgInvariantHolds, KnownHolds, PTL
=============================================================================
