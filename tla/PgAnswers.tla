------------------------------ MODULE PgAnswers ------------------------------
(***************************************************************************)
(* What PostgreSQL answers to the queries of PgMutate: the value of a      *)
(* condition on a row <<x, column 2>>, and the copies of each x in a       *)
(* query's result, given for each kind of node by the meaning of its parts *)
(* (Answer and Result); and the direction of the mutations.                *)
(***************************************************************************)
EXTENDS PgMutate

CONSTANTS
    Parsed,         \* the nodes of the statements as they were parsed
    Depth           \* a measure by which the parts of a node are smaller

TableRows == Vals \X Vals

IsQuery(n) == n.kind \in {"setop", "select"}

\* meaning[e] is the value of the condition e on each row, meaning[q] the copies of each
\* x in the result of the query q.
SubqueryRows(meaning, q) == {x \in Vals : meaning[q][x] > 0}

\* AND and OR of several values.
AndOf(values) == IF F \in values THEN F ELSE IF N \in values THEN N ELSE T
OrOf(values) == IF T \in values THEN T ELSE IF N \in values THEN N ELSE F

Negated(not, v) == IF not THEN Not3(v) ELSE v

AnswerBool(meaning, e, row) ==
    LET values == {meaning[e.args[i]][row] : i \in DOMAIN e.args}
    IN  CASE e.op = "NOT" -> Not3(meaning[e.args[1]][row])
          [] e.op = "AND" -> AndOf(values)
          [] e.op = "OR"  -> OrOf(values)

\* type ANY without an operator is x IN (subquery)
AnswerSubLink(meaning, e, row) ==
    LET rows == SubqueryRows(meaning, e.subselect)
        op == IF e.op = None THEN "=" ELSE e.op
    IN  CASE e.type = "EXISTS" -> Truth(rows # {})
          [] e.type = "ANY" -> CompareAny(op, row[e.col], rows)
          [] e.type = "ALL" -> CompareAll(op, row[e.col], rows)

\* BETWEEN SYMMETRIC takes the bounds in either order.
AnswerBetween(e, x) ==
    IF e.sym THEN Or3(Between(x, e.lo, e.hi), Between(x, e.hi, e.lo)) ELSE Between(x, e.lo, e.hi)

Answer(meaning, e, row) ==
    CASE e.kind = "cmp" -> Compare(e.op, row[e.col], e.rhs)
      [] e.kind = "notdistinct" -> Compare("<=>", row[e.col], e.rhs)
      [] e.kind \in {"like", "similar"} ->
            IF row[e.col] = NULL THEN N ELSE Negated(e.not, Truth(row[e.col] \in e.matches))
      [] e.kind = "in" -> Negated(e.not, In(row[e.col], e.items))
      [] e.kind = "between" -> Negated(e.not, AnswerBetween(e, row[e.col]))
      [] e.kind = "cast" -> meaning[e.arg][row]
      [] e.kind = "bool" -> AnswerBool(meaning, e, row)
      [] e.kind = "sublink" -> AnswerSubLink(meaning, e, row)

Keeps(meaning, clause, row) == clause = None \/ meaning[clause][row] = T

\* The second columns of the rows that FROM makes of x.
Joined(meaning, from, x) ==
    IF from = None THEN {NULL}
    ELSE LET matches == {y \in Vals : Keeps(meaning, from.quals, <<x, y>>)}
         IN  IF matches = {} /\ from.type = "LEFT" THEN {NULL} ELSE matches

Selected(meaning, q, x) ==
    LET base == IF q.cte = None THEN 1 ELSE meaning[q.cte][x]
        kept == base * Cardinality({y \in Joined(meaning, q.from, x) : Keeps(meaning, q.where, <<x, y>>)})
    IN  IF q.having = None THEN Several(kept)
        ELSE IF Keeps(meaning, q.having, <<x, NULL>>) THEN DistinctCopies(kept) ELSE 0

Result(meaning, q) ==
    [x \in Vals |-> IF q.kind = "setop"
                      THEN SetOperation(q.op, meaning[q.larg][x], meaning[q.rarg][x])
                      ELSE Selected(meaning, q, x)]

Meant(meaning, n) ==
    IF IsQuery(n) THEN Result(meaning, n) ELSE [row \in TableRows |-> Answer(meaning, n, row)]

Meaning[n \in Nodes] == Meant(Meaning, n)

Contained(p, q) == \A x \in Vals : Result(Meaning, p)[x] <= Result(Meaning, q)[x]

-----------------------------------------------------------------------------
(* The trees.                                                              *)

Conditions == {n \in Nodes : ~IsQuery(n)}
Queries == {n \in Nodes : IsQuery(n)}

Parts(n) ==
    CASE n.kind = "cast" -> {n.arg}
      [] n.kind = "bool" -> {n.args[i] : i \in DOMAIN n.args}
      [] n.kind = "sublink" -> {n.subselect}
      [] n.kind = "setop" -> {n.larg, n.rarg}
      [] n.kind = "select" -> {Quals(n.from), n.where, n.having, n.cte} \ {None}
      [] OTHER -> {}

\* The ON of an outer join has an answer, though no mutation looks at it.
Subtrees(n) ==
    Parts(n) \cup IF n.kind = "select" /\ n.from # None THEN {n.from.quals} \ {None} ELSE {}

Columns == {1, 2}

\* What LIKE matches it matches when it is widened too, and not always when it is
\* narrowed (Patterns).
IsCondition(n) ==
    CASE n.kind = "cmp" ->
            n = Cmp(n.op, n.col, n.rhs) /\ n.op \in CompareOps /\ n.col \in Columns /\ n.rhs \in Vals
      [] n.kind = "notdistinct" ->
            n = [kind |-> "notdistinct", col |-> n.col, rhs |-> n.rhs]
            /\ n.col \in Columns /\ n.rhs \in Vals
      [] n.kind = "like" ->
            /\ n = [kind |-> "like", col |-> n.col, not |-> n.not, has |-> n.has,
                    narrower |-> n.narrower, matches |-> n.matches, wider |-> n.wider]
            /\ n.col \in Columns /\ n.not \in BOOLEAN
            /\ n.narrower \subseteq n.matches /\ n.matches \subseteq n.wider
      [] n.kind = "similar" -> n.col \in Columns /\ n.not \in BOOLEAN
      [] n.kind = "in" ->
            /\ n = [kind |-> "in", col |-> n.col, not |-> n.not, items |-> n.items]
            /\ n.col \in Columns /\ n.not \in BOOLEAN /\ n.items \subseteq Vals
      [] n.kind = "between" ->
            /\ n.col \in Columns /\ n.not \in BOOLEAN /\ n.sym \in BOOLEAN
            /\ n.lo \in Vals /\ n.hi \in Vals
      [] n.kind = "cast" -> n.arg \in Conditions
      [] n.kind = "bool" ->
            /\ n = [kind |-> "bool", op |-> n.op, args |-> n.args]
            /\ n.op \in {"NOT", "AND", "OR"}
            /\ n.args \in Seq(Conditions) /\ n.args # <<>>
            /\ n.op = "NOT" => Len(n.args) = 1
      [] n.kind = "sublink" ->
            /\ n = [kind |-> "sublink", type |-> n.type, op |-> n.op, col |-> n.col,
                    subselect |-> n.subselect]
            /\ n.type \in {"EXISTS", "ANY", "ALL"} /\ n.op \in CompareOps \cup {None}
            /\ n.col \in Columns /\ n.subselect \in Queries
      [] OTHER -> FALSE

IsClause(clause) == clause = None \/ clause \in Conditions

IsTree(n) ==
    CASE n.kind = "setop" ->
            /\ IsSetOp(n)
            /\ n.op \in {"UNION", "UNION ALL", "INTERSECT", "EXCEPT"}
            /\ n.larg \in Queries /\ n.rarg \in Queries
      [] n.kind = "select" ->
            /\ IsSelect(n)
            /\ n.from # None =>
                   IsJoin(n.from) /\ n.from.type \in {"INNER", "LEFT"} /\ IsClause(n.from.quals)
            /\ IsClause(n.where) /\ IsClause(n.having)
            /\ n.cte = None \/ n.cte \in Queries
      [] OTHER -> IsCondition(n)

\* The mutations that change a condition.
ConditionMutations ==
    SearchedEverywhere \cup ReplacesWhere \cup Quantifier
        \cup {"FixMInNullU_Pg", "RdMLikePgU", "RdMLikePgL"}

\* The nodes are those of finite trees, and of the trees with one condition mutated.
ASSUME TreesAssumption ==
    /\ IsFiniteSet(Ints) /\ IsFiniteSet(Nodes)
    /\ None \notin Nodes
    /\ \A type \in {"INNER", "LEFT"}, n \in Nodes \cup {BooleanNode(TRUE), BooleanNode(FALSE)} :
           None # [type |-> type, quals |-> n]
    /\ Parsed \subseteq Nodes /\ Statements \subseteq Parsed \cap Queries
    /\ Depth \in [Nodes -> 0 .. Cardinality(Nodes)]
    /\ \A n \in Nodes : IsTree(n)
    /\ \A n \in Nodes : \A p \in Subtrees(n) : p \in Nodes /\ Depth[p] < Depth[n]
    /\ \A n \in Parsed : Parts(n) \subseteq Parsed
    /\ \A n \in Parsed \cap Conditions, name \in ConditionMutations :
           /\ inExpr(name, n) \in Conditions \cup {None}
           /\ Applies(name, n) => NewNode(name, n) \in Conditions

-----------------------------------------------------------------------------
(* The directions.                                                         *)

\* NOT alone turns the sign.
SignUnder(n, sign) == IF n.kind = "bool" /\ n.op = "NOT" THEN flip(sign) ELSE sign

\* The nodes of a tree, each with the sign that the NOTs above it make of the tree's:
\* a clause grows with those of its conditions that have 1, and shrinks with the others.
Within(occurrences, n, sign) ==
    {<<n, sign>>} \cup UNION {occurrences[p][SignUnder(n, sign)] : p \in Parts(n)}

Occurrences[n \in Nodes] == [sign \in {0, 1} |-> Within(Occurrences, n, sign)]

\* A mutation of the pattern or the bounds under NOT LIKE or NOT BETWEEN.
SignOf(n, sign) ==
    IF n.kind \in {"like", "between"} /\ n.not THEN flip(sign) ELSE sign

BoundsInOrder(n) == n.lo # NULL /\ n.hi # NULL /\ n.lo <= n.hi

\* Mutations that do not have the direction their candidate says, even so.
Exception(name, n) ==
    \/ name = "FixMInNullU_Pg" /\ n.not
    \/ name = "FixMIsNotDistinctFromToLowerL_Pg" /\ n.rhs = NULL
    \/ name = "FixMAllToAnyU_Pg" /\ SubqueryRows(Meaning, n.subselect) = {}
    \/ name = "FixMAnyToAllL_Pg"
    \/ n.kind = "between" /\ n.sym /\ ~BoundsInOrder(n)

\* The node that a mutation changes need not be the candidate's: wherever it applies,
\* the sign is the same, and where the clause is replaced by the node, it is
\* made of ANDs of which one is kept, or of ORs.
Directed(name) ==
    LET at == {o \in Occurrences[stmt][1] : Applies(name, o[1])}
    IN  /\ \A o, p \in at : SignOf(o[1], o[2]) = SignOf(p[1], p[2])
        /\ \A o \in at : ~Exception(name, o[1])
        /\ name \in ReplacesWhere =>
               \A o \in at, b \in Occurrences[stmt][1] :
                   b[1].kind = "bool" =>
                       b[1].op = IF SignOf(o[1], o[2]) = 1 THEN "AND" ELSE "OR"

\* Its result has the rows that a unit promises.
DirectionRight(u) ==
    u.sql # None => IF u.isUpper THEN Contained(stmt, u.sql) ELSE Contained(u.sql, stmt)

(* The query of a unit has more rows than the statement if the unit is     *)
(* upper, fewer if not (IsUpper, pg_stage2.go:150), where all nodes that   *)
(* the mutation applies to have the same sign.                             *)
ImplicationHolds == \A u \in units : Directed(u.name) => DirectionRight(u)

(* The same for every unit, as if each mutation changed the node of its    *)
(* candidate (pg_stage2.go:40).                                            *)
EveryImplicationHolds == \A u \in units : DirectionRight(u)
=============================================================================
