---------------------------- MODULE MutateVisitor ----------------------------
(***************************************************************************)
(* mutation/stage2/mutatevisitor.go and the mutations it looks for.        *)
(*                                                                         *)
(* The visitor walks down the syntax tree of a query with a flag: 1 when a *)
(* growing subterm makes the whole result grow, 0 when it makes it shrink. *)
(* At a node that some mutation applies to it records a candidate          *)
(* (mutation name, U, node, flag), and the tool later claims that the      *)
(* mutated query's result contains the original's when (U ^ flag) ^ 1 = 1, *)
(* and is contained in it otherwise.                                       *)
(*                                                                         *)
(* A behaviour is one path of the walk, from the root to a candidate (the  *)
(* flag is passed by value, so paths do not influence each other).  The    *)
(* ghost variable ctx is the meaning of the path: the result of the root   *)
(* as a function of the value of the visited node, everything beside the   *)
(* path being fixed.  What lies beside it is chosen freely at every step.  *)
(***************************************************************************)
EXTENDS SqlLogic

CONSTANTS
    FuncMaps,    \* what a function call may make of a truth value
    CteUses,     \* how a query may depend on its common table expression
    ScalarMaps,  \* what a subquery used as a condition may make of its rows
    SetOps,      \* the set operators that occur
    Mutations,   \* the mutations looked at
    EmptyRows    \* whether a quantified subquery may be empty

Maps == [D -> D]

ASSUME ContextAssumption ==
    /\ FuncMaps \subseteq Maps
    /\ CteUses \subseteq Maps
    /\ ScalarMaps \subseteq Maps
    /\ SetOps \subseteq {"UNION", "UNION ALL", "INTERSECT", "EXCEPT"}
    /\ EmptyRows \in BOOLEAN

VARIABLES
    at,      \* the kind of node being visited
    flag,    \* the flag parameter of the visit
    ctx,     \* ghost: root result as a function of this node's value
    cand     \* the recorded candidate, with the node's value before and after

vars == <<at, flag, ctx, cand>>

NodeKinds == {"setopr", "select", "join", "expr", "none"}
NoCandidate == [name |-> "none", U |-> 0, flag |-> 0, before |-> 0, after |-> 0]

flip(f) == 1 - f

Init ==
    /\ at \in {"setopr", "select"}
    /\ flag = 1
    /\ ctx = [d \in D |-> d]
    /\ cand = NoCandidate

\* Go down to a child of the given kind whose value enters the node's through step.
Visit(kind, f, step) ==
    /\ at' = kind
    /\ flag' = f
    /\ ctx' = [d \in D |-> ctx[step[d]]]
    /\ UNCHANGED cand

-----------------------------------------------------------------------------
(* Queries.                                                                *)

Query == {"setopr", "select"}

\* Each select of a set operation, with the list's flag.
visitSetOprSelectList ==
    /\ at = "setopr"
    /\ \E kind \in Query, op \in SetOps, other \in D :
          \/ Visit(kind, flag, [d \in D |-> SetOperation(op, d, other)])
          \/ Visit(kind, flag, [d \in D |-> SetOperation(op, other, d)])

\* The query of a non-recursive common table expression, with the flag of the
\* query it belongs to, wherever that query uses it.
visitWithClause ==
    /\ at \in Query
    /\ \E kind \in Query, use \in CteUses : Visit(kind, flag, use)

\* FROM: the copies of a joined row, if the select's conditions keep it.
visitTableRefClause ==
    /\ at = "select"
    /\ \E kept, distinct \in BOOLEAN :
          Visit("join", flag,
                [d \in D |-> IF ~kept THEN 0 ELSE IF distinct THEN DistinctCopies(d) ELSE d])

\* WHERE and HAVING: more copies of the row when the condition is T.
visitWhereHaving ==
    /\ at = "select"
    /\ \E without, with \in D :
          /\ without <= with
          /\ Visit("expr", flag, [d \in D |-> IF d = T THEN with ELSE without])

\* A side of a join: derived table or nested join (left and right joins are
\* not visited).
visitJoin ==
    /\ at = "join"
    /\ \E kind \in Query \cup {"join"}, other \in D :
          Visit(kind, flag, [d \in D |-> Several(d * other)])

visitOnCondition ==
    /\ at = "join"
    /\ \E rows \in D : Visit("expr", flag, [d \in D |-> IF d = T THEN rows ELSE 0])

-----------------------------------------------------------------------------
(* Conditions.                                                             *)

visitBinaryOperationExpr ==
    /\ at = "expr"
    /\ \E other \in D :
          \/ Visit("expr", flag, [d \in D |-> And3(d, other)])
          \/ Visit("expr", flag, [d \in D |-> Or3(d, other)])

\* Mutant: ! is visited without the flip.
visitUnaryOperationExpr_NoFlip ==
    /\ at = "expr"
    /\ Visit("expr", flag, [d \in D |-> Not3(d)])

\* NOT and !
visitUnaryOperationExpr ==
    /\ at = "expr"
    /\ Visit("expr", flip(flag), [d \in D |-> Not3(d)])

\* IS [NOT] TRUE and IS [NOT] FALSE: one flip for NOT and one for FALSE.
visitIsTruthExpr ==
    /\ at = "expr"
    /\ \E not, true \in BOOLEAN :
          Visit("expr", IF not = true THEN flip(flag) ELSE flag,
                [d \in D |-> Truth((d = (IF true THEN T ELSE F)) # not)])

\* The argument of a function or of CAST, with the flag of the call.
visitFuncCallExpr ==
    /\ at = "expr"
    /\ \E f \in FuncMaps : Visit("expr", flag, f)

visitParenthesesExpr ==
    /\ at = "expr"
    /\ Visit("expr", flag, [d \in D |-> d])

\* A subquery used as a condition.
visitSubqueryExpr ==
    /\ at = "expr"
    /\ \E kind \in Query, f \in ScalarMaps : Visit(kind, flag, f)

\* The subquery's rows as its result grows.
Chains == {c \in [D -> SUBSET Vals] : c[0] \subseteq c[1] /\ c[1] \subseteq c[2]}

visitCompareSubqueryExpr ==
    /\ at = "expr"
    /\ \E kind \in Query, op \in CompareOps, x \in Vals, rows \in Chains :
          \/ Visit(kind, flip(flag), [d \in D |-> CompareAll(op, x, rows[d])])
          \/ Visit(kind, flag, [d \in D |-> CompareAny(op, x, rows[d])])

visitPatternInExpr ==
    /\ at = "expr"
    /\ \E kind \in Query, x \in Vals, rows \in Chains :
          \/ Visit(kind, flag, [d \in D |-> In(x, rows[d])])
          \/ Visit(kind, flip(flag), [d \in D |-> Not3(In(x, rows[d]))])

visitExistsSubqueryExpr ==
    /\ at = "expr"
    /\ \E kind \in Query, rows \in Chains :
          \/ Visit(kind, flag, [d \in D |-> Truth(rows[d] # {})])
          \/ Visit(kind, flip(flag), [d \in D |-> Truth(rows[d] = {})])

-----------------------------------------------------------------------------
(* Candidates: at a node of value before, the mutation yields value after. *)

addCandidate(name, U, f, before, after) ==
    /\ name \in Mutations
    /\ at' = "none"
    /\ cand' = [name |-> name, U |-> U, flag |-> f, before |-> before, after |-> after]
    /\ UNCHANGED <<flag, ctx>>

\* A list of two selects joined by UNION ALL loses the second; the operator
\* before a select (AfterSetOperator) is widened or narrowed.
miningSetOpr ==
    /\ at = "setopr"
    /\ \E l, r \in D :
          LET union == SetOperation("UNION", l, r)
              all == SetOperation("UNION ALL", l, r)
          IN \/ addCandidate("FixMRmUnionAllL", 0, flag, all, l)
             \/ addCandidate("FixMUnionAllU", 1, flag, union, all)
             \/ addCandidate("FixMUnionAllL", 0, flag, all, union)

\* Copies of a row that FROM yields n times.
SelectRows(n, where, having, distinct) ==
    LET kept == IF where = T /\ having = T THEN n ELSE 0
    IN IF distinct THEN DistinctCopies(kept) ELSE kept

\* DISTINCT is not added beside ORDER BY or WITH.
miningSelectStmt ==
    /\ at = "select"
    /\ \E n, where, having \in D, distinct, orderByOrWith \in BOOLEAN :
          LET rows == SelectRows(n, where, having, distinct)
          IN \/ /\ distinct
                /\ addCandidate("FixMDistinctU", 1, flag, rows, SelectRows(n, where, having, FALSE))
             \/ /\ ~distinct /\ ~orderByOrWith
                /\ addCandidate("FixMDistinctL", 0, flag, rows, SelectRows(n, where, having, TRUE))
             \/ addCandidate("FixMWhere1U", 1, flag, rows, SelectRows(n, T, having, distinct))
             \/ addCandidate("FixMWhere0L", 0, flag, rows, SelectRows(n, F, having, distinct))
             \/ addCandidate("FixMHaving1U", 1, flag, rows, SelectRows(n, where, T, distinct))
             \/ addCandidate("FixMHaving0L", 0, flag, rows, SelectRows(n, where, F, distinct))

miningJoin ==
    /\ at = "join"
    /\ \E n, on \in D :
          LET rows == SelectRows(n, on, T, FALSE)
          IN \/ addCandidate("FixMOn1U", 1, flag, rows, n)
             \/ addCandidate("FixMOn0L", 0, flag, rows, 0)

\* Mutant: = becomes < in place of <=.
CmpOpULE_Strict == [op \in {"="} |-> "<"]

\* FixMCmpOpU: = > < to >= >= <=; FixMCmpOpULE: = to <=; FixMCmpOpL: >= <= to > <.
CmpOpU == [op \in {"=", "<", ">"} |-> IF op = "<" THEN "<=" ELSE ">="]
CmpOpULE == [op \in {"="} |-> "<="]
CmpOpL == [op \in {"<=", ">="} |-> IF op = "<=" THEN "<" ELSE ">"]

miningBinaryOperationExpr ==
    /\ at = "expr"
    /\ \E a, b \in Vals :
          \/ \E op \in DOMAIN CmpOpU :
                addCandidate("FixMCmpOpU", 1, flag, Compare(op, a, b), Compare(CmpOpU[op], a, b))
          \/ \E op \in DOMAIN CmpOpULE :
                addCandidate("FixMCmpOpULE", 1, flag, Compare(op, a, b), Compare(CmpOpULE[op], a, b))
          \/ \E op \in DOMAIN CmpOpL :
                addCandidate("FixMCmpOpL", 0, flag, Compare(op, a, b), Compare(CmpOpL[op], a, b))
          \/ addCandidate("FixMNullEqToLowerL", 0, flag, Compare("<=>", a, b), Compare("=", a, b))

CompareSubquery(all, op, x, rows) ==
    IF all THEN CompareAll(op, x, rows) ELSE CompareAny(op, x, rows)

\* Mined with the flag from before the flip that ALL brings for the subquery.
miningCompareSubqueryExpr ==
    /\ at = "expr"
    /\ \E x \in Vals, rows \in SUBSET Vals, all \in BOOLEAN :
          /\ rows # {} \/ EmptyRows
          /\ \/ \E op \in DOMAIN CmpOpU :
                   addCandidate("FixMCmpOpU", 1, flag, CompareSubquery(all, op, x, rows),
                                CompareSubquery(all, CmpOpU[op], x, rows))
             \/ \E op \in DOMAIN CmpOpULE :
                   addCandidate("FixMCmpOpULE", 1, flag, CompareSubquery(all, op, x, rows),
                                CompareSubquery(all, CmpOpULE[op], x, rows))
             \/ \E op \in DOMAIN CmpOpL :
                   addCandidate("FixMCmpOpL", 0, flag, CompareSubquery(all, op, x, rows),
                                CompareSubquery(all, CmpOpL[op], x, rows))
             \/ \E op \in CompareOps :
                   IF all
                   THEN addCandidate("FixMAllToAnyU", 1, flag, CompareAll(op, x, rows),
                                     CompareAny(op, x, rows))
                   ELSE addCandidate("FixMAnyToAllL", 0, flag, CompareAny(op, x, rows),
                                     CompareAll(op, x, rows))

\* Mutant: NOT BETWEEN keeps the flag.
miningBetweenExpr_NoFlip ==
    /\ at = "expr"
    /\ \E x, lo, hi \in Vals :
          \/ addCandidate("FixMBetweenDropUpperU", 1, flag, Between(x, lo, hi), Compare(">=", x, lo))
          \/ addCandidate("FixMBetweenDropUpperU", 1, flag, Not3(Between(x, lo, hi)),
                          Compare("<", x, lo))

\* NOT flips the flag of the candidate, the mutated condition keeps the NOT.
miningBetweenExpr ==
    /\ at = "expr"
    /\ \E x, lo, hi \in Vals :
          \/ /\ \/ addCandidate("FixMBetweenDropUpperU", 1, flag, Between(x, lo, hi),
                                Compare(">=", x, lo))
                \/ addCandidate("FixMBetweenDropLowerU", 1, flag, Between(x, lo, hi),
                                Compare("<=", x, hi))
          \/ /\ \/ addCandidate("FixMBetweenDropUpperU", 1, flip(flag), Not3(Between(x, lo, hi)),
                                Compare("<", x, lo))
                \/ addCandidate("FixMBetweenDropLowerU", 1, flip(flag), Not3(Between(x, lo, hi)),
                                Compare(">", x, hi))

\* IN (list) gets NULL added.
miningPatternInExpr ==
    /\ at = "expr"
    /\ \E x \in Vals, list \in SUBSET Vals \ {{}} :
          \/ addCandidate("FixMInNullU", 1, flag, In(x, list), In(x, list \cup {NULL}))
          \/ addCandidate("FixMInNullU", 1, flip(flag), Not3(In(x, list)),
                          Not3(In(x, list \cup {NULL})))

\* A pattern is rewritten at random: it matches more after upper and less after
\* lower (PatternOrdered of Patterns).  NOT flips the flag of the candidate, the
\* mutated condition keeps the NOT.
miningPattern(upper, lower) ==
    \E less, more \in {F, T} :
        /\ less <= more
        /\ \/ addCandidate(upper, 1, flag, less, more)
           \/ addCandidate(lower, 0, flag, more, less)
           \/ addCandidate(upper, 1, flip(flag), Not3(less), Not3(more))
           \/ addCandidate(lower, 0, flip(flag), Not3(more), Not3(less))

miningPatternLikeExpr == at = "expr" /\ miningPattern("RdMLikeU", "RdMLikeL")
miningPatternRegexpExpr == at = "expr" /\ miningPattern("RdMRegExpU", "RdMRegExpL")

visitIsNullExpr ==
    /\ at = "expr"
    /\ \E isNull \in BOOLEAN :
          \/ addCandidate("FixMIsNullToFalseL", 0, flag, Truth(isNull), F)
          \/ addCandidate("FixMIsNotNullToTrueU", 1, flag, Truth(~isNull), T)

-----------------------------------------------------------------------------
visit ==
    \/ visitSetOprSelectList \/ visitWithClause \/ visitTableRefClause \/ visitWhereHaving
    \/ visitJoin \/ visitOnCondition
    \/ visitBinaryOperationExpr \/ visitUnaryOperationExpr \/ visitIsTruthExpr
    \/ visitFuncCallExpr \/ visitParenthesesExpr \/ visitSubqueryExpr
    \/ visitCompareSubqueryExpr \/ visitPatternInExpr \/ visitExistsSubqueryExpr

mining ==
    \/ miningSetOpr \/ miningSelectStmt \/ miningJoin \/ miningBinaryOperationExpr
    \/ miningCompareSubqueryExpr \/ miningBetweenExpr \/ miningPatternInExpr
    \/ miningPatternLikeExpr \/ miningPatternRegexpExpr \/ visitIsNullExpr

\* The path has reached its candidate.
Recorded == at = "none" /\ UNCHANGED vars

Next == visit \/ mining \/ Recorded

Spec == Init /\ [][Next]_vars

-----------------------------------------------------------------------------
TypeOK ==
    /\ at \in NodeKinds
    /\ flag \in {0, 1}
    /\ ctx \in Maps
    /\ cand \in [name : Mutations \cup {"none"}, U : {0, 1}, flag : {0, 1},
                 before : D, after : D]

Grows(f) == \A c, d \in D : c <= d => f[c] <= f[d]
Shrinks(f) == \A c, d \in D : c <= d => f[d] <= f[c]

\* The flag is right about the path: with flag 1 the result of the query grows
\* with the visited node, with flag 0 it shrinks when the node grows.
PolaritySound == IF flag = 1 THEN Grows(ctx) ELSE Shrinks(ctx)

\* MutateUnit.IsUpper: (U ^ Flag) ^ 1 = 1
IsUpper(c) == c.U = c.flag

\* The claim made of a mutation where it is applied, "= TRUE is contained in
\* <=> TRUE": the condition that is T (the row with several copies) on the
\* smaller side is so on the larger side.  F and N are not told apart here.
MutationContained ==
    at = "none" =>
        IF IsUpper(cand) = (flag = 1) THEN cand.before = T => cand.after = T
                                      ELSE cand.after = T => cand.before = T

\* A condition that was F is N where a side is NULL.
WeakensNullEq(c) == c.name = "FixMNullEqToLowerL"

\* "1: the mutated result will expand; 0: the mutated result will shrink": the
\* direction claimed for a candidate is the one the whole query's result takes,
\* so a result that goes the other way is a bug of the database.  For <=> to =
\* under a NOT it is not: the result loses rows and would have to grow.
ImplicationHolds ==
    at = "none" /\ ~WeakensNullEq(cand) =>
        IF IsUpper(cand) THEN ctx[cand.before] <= ctx[cand.after]
                         ELSE ctx[cand.after] <= ctx[cand.before]
=============================================================================
