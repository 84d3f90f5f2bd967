------------------------------ MODULE SqlLogic ------------------------------
(***************************************************************************)
(* The part of SQL's semantics that the implication oracle rests on: the   *)
(* truth values of conditions over NULL and integers, quantified           *)
(* comparisons, IN, BETWEEN, and the number of copies of a row.            *)
(*                                                                         *)
(* Both kinds of result are numbers in D, so one order serves for both:    *)
(* truth values as F < N < T, and copies of a row as none < one < several. *)
(* A condition keeps a row only when it is T, so a condition that grows in *)
(* this order keeps at least the rows it kept.                             *)
(*                                                                         *)
(* This is the database's behaviour, not the repository's code: modelled   *)
(* from what mutation/stage2 assumes of it.                                *)
(***************************************************************************)
EXTENDS Integers

CONSTANTS
    Ints,    \* the integers that occur in conditions
    NULL     \* SQL's NULL

ASSUME ValuesAssumption == Ints \subseteq Int /\ NULL \notin Int

Vals == Ints \cup {NULL}

D == 0 .. 2
F == 0
N == 1
T == 2

Not3(v) == 2 - v
And3(v, w) == IF v <= w THEN v ELSE w
Or3(v, w) == IF v <= w THEN w ELSE v
Truth(b) == IF b THEN T ELSE F

\* a <op> b
Compare(op, a, b) ==
    IF op = "<=>" THEN Truth(a = b)
    ELSE IF a = NULL \/ b = NULL THEN N
    ELSE Truth(CASE op = "="  -> a = b
                 [] op = "!=" -> a # b
                 [] op = "<"  -> a < b
                 [] op = "<=" -> a <= b
                 [] op = ">"  -> a > b
                 [] op = ">=" -> a >= b)

CompareOps == {"=", "!=", "<", "<=", ">", ">="}

\* x <op> ANY (rows): T if some comparison is T, else N if some is N.
CompareAny(op, x, rows) ==
    IF \E r \in rows : Compare(op, x, r) = T THEN T
    ELSE IF \E r \in rows : Compare(op, x, r) = N THEN N
    ELSE F

\* x <op> ALL (rows): F if some comparison is F, else N if some is N.
CompareAll(op, x, rows) ==
    IF \E r \in rows : Compare(op, x, r) = F THEN F
    ELSE IF \E r \in rows : Compare(op, x, r) = N THEN N
    ELSE T

In(x, rows) == CompareAny("=", x, rows)

Between(x, lo, hi) == And3(Compare(">=", x, lo), Compare("<=", x, hi))

\* Copies of a row, counted as none, one, several.
Several(n) == IF n > 2 THEN 2 ELSE n
DistinctCopies(n) == IF n > 1 THEN 1 ELSE n

\* Copies in the result of a set operation.
SetOperation(op, l, r) ==
    CASE op = "UNION ALL" -> Several(l + r)
      [] op = "UNION"     -> DistinctCopies(l + r)
      [] op = "INTERSECT" -> DistinctCopies(IF l <= r THEN l ELSE r)
      [] op = "EXCEPT"    -> IF r > 0 THEN 0 ELSE DistinctCopies(l)
=============================================================================
