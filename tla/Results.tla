------------------------------- MODULE Results -------------------------------
(***************************************************************************)
(* connector/result.go: query results, and what comparing two of them is   *)
(* to tell.  A result holds an error, or the number of its columns and its *)
(* rows in the order the driver delivered them.  FlatOf[r] is the text     *)
(* that FlatRows makes of row r; two rows are the same to the comparison   *)
(* when their texts are.                                                   *)
(***************************************************************************)
EXTENDS Integers, Sequences, FiniteSets

CONSTANTS
    Rows,     \* the rows that occur
    FlatOf    \* the text of each row

Texts == {FlatOf[r] : r \in Rows}

ResultSet == [err : BOOLEAN, cols : Nat, rows : Seq(Rows)]

IsEmpty(r) == r.cols = 0

FlatRows(r) == [j \in 1 .. Len(r.rows) |-> FlatOf[r.rows[j]]]

-----------------------------------------------------------------------------
(* Results as bags of texts.                                               *)

\* How often x occurs among the first n elements of s.
Occ(s, n, x) == Cardinality({j \in 1 .. n : s[j] = x})

Occurrences(s, x) == Occ(s, Len(s), x)

Contained(s, t) == \A x \in Texts : Occurrences(s, x) <= Occurrences(t, x)

\* How two sequences of texts compare as bags, in the coding of Result.CMP.
BagOrder(s, t) ==
    IF Contained(s, t)
      THEN IF Contained(t, s) THEN 0 ELSE -1
      ELSE IF Contained(t, s) THEN 1 ELSE 2

\* What Result.CMP promises.
CMP(this, another) ==
    IF this.err \/ another.err THEN -2
    ELSE IF ~IsEmpty(this) /\ ~IsEmpty(another) /\ this.cols # another.cols THEN 2
    ELSE BagOrder(FlatRows(this), FlatRows(another))

\* oracle.Check: no logical bug.
Check(origin, mutated, isUpper) ==
    CMP(origin, mutated) \in (IF isUpper THEN {0, -1} ELSE {0, 1})

-----------------------------------------------------------------------------

\* A finite set of numbers as a sequence.
Ascending(S) == [k \in 1 .. Cardinality(S) |-> CHOOSE j \in S : Cardinality({h \in S : h <= j}) = k]
=============================================================================
