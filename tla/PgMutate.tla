------------------------------ MODULE PgMutate ------------------------------
(***************************************************************************)
(* Mutations of PostgreSQL queries: MutateAllForPostgreSQL of              *)
(* mutation/stage2/pg_stage2.go, the visitor of pg_mutatevisitor.go and    *)
(* the mutations of pg_mutate_functions.go, pg_alltoany.go,                *)
(* pg_between_drop.go and pg_isnotdistinct.go.                             *)
(*                                                                         *)
(* The visitor lists candidates (name, U, flag).  Each is then tried on    *)
(* one shared syntax tree: the mutation searches the tree from the top for *)
(* the first node it applies to - the candidate's own node is not used -   *)
(* changes it, prints the tree as SQL, and puts the node back.             *)
(*                                                                         *)
(* A tree is a record.  A query is a set operation or a select of a column *)
(* x from a table of all values, or from the one common table expression,  *)
(* perhaps joined with a second such table (column 2); with HAVING it is   *)
(* grouped by x.  The pattern of a LIKE is the set of values it matches,   *)
(* with those it matches when it is widened and when it is narrowed (see   *)
(* Patterns).  Left out: functions and CASE, which are visited as a cast   *)
(* is; DISTINCT, for which no candidate is ever found because the parser   *)
(* never leaves the set operation undefined; pairs of mutations, which are *)
(* switched off.                                                           *)
(***************************************************************************)
EXTENDS SqlLogic, Sequences, FiniteSets, SequencesExt

CONSTANTS
    Statements,   \* the original statements
    Nodes,        \* the nodes of their trees
    None          \* an absent clause, or no SQL

VARIABLES
    stmt,      \* the statement as it was parsed
    root,      \* the tree that the mutations share
    pending,   \* names not yet reached in the map of candidates
    queue,     \* the candidates of the current name still to be tried
    units      \* the MutateUnits, without their order

\* The records for set operations, selects and the join in a FROM.
IsSetOp(q) == q = [kind |-> "setop", op |-> q.op, larg |-> q.larg, rarg |-> q.rarg]
IsSelect(q) == q = [kind |-> "select", from |-> q.from, where |-> q.where,
                    having |-> q.having, cte |-> q.cte]
IsJoin(from) == from = [type |-> from.type, quals |-> from.quals]

ASSUME StatementsAssumption ==
    \A q \in Statements :
        IF q.kind = "setop" THEN IsSetOp(q)
        ELSE IsSelect(q) /\ (q.from # None => IsJoin(q.from))

pgVars == <<stmt, root, pending, queue, units>>

flip(f) == 1 - f

-----------------------------------------------------------------------------
(* Looking for candidates.                                                 *)

Candidate(name, U, flag) == [name |-> name, U |-> U, flag |-> flag]

CmpOpU == [op \in {"=", "<", ">"} |-> IF op = "<" THEN "<=" ELSE ">="]
CmpOpULE == [op \in {"="} |-> "<="]
CmpOpL == [op \in {"<=", ">="} |-> IF op = "<=" THEN "<" ELSE ">"]

If(condition, candidate) == IF condition THEN <<candidate>> ELSE <<>>

miningCmpOp(expr, flag) ==
    If(expr.op \in DOMAIN CmpOpU, Candidate("FixMCmpOpU_Pg", 1, flag))
    \o If(expr.op \in DOMAIN CmpOpULE, Candidate("FixMCmpOpULE_Pg", 1, flag))
    \o If(expr.op \in DOMAIN CmpOpL, Candidate("FixMCmpOpL_Pg", 0, flag))

\* has: whether there are % and other characters in the pattern, neither if it
\* is no constant string.
miningLikeExpr(expr, flag) ==
    If("other" \in expr.has, Candidate("RdMLikePgU", 1, flag))
    \o If("percent" \in expr.has, Candidate("RdMLikePgL", 0, flag))

\* The right side of SIMILAR TO is a call of similar_to_escape, never a constant.
miningRegExpExpr(expr, flag) == <<>>

\* NOT LIKE is named !~~.  NOT IN is not recognised: its operator is named <>,
\* without ! or NOT.  BETWEEN SYMMETRIC (sym) is treated like BETWEEN.
visitAExpr(expr, flag) ==
    CASE expr.kind = "cmp" -> miningCmpOp(expr, flag)
      [] expr.kind = "in" -> <<Candidate("FixMInNullU_Pg", 1, flag)>>
      [] expr.kind = "like" -> miningLikeExpr(expr, IF expr.not THEN flip(flag) ELSE flag)
      [] expr.kind = "similar" -> miningRegExpExpr(expr, IF expr.not THEN flip(flag) ELSE flag)
      [] expr.kind = "notdistinct" ->
            <<Candidate("FixMIsNotDistinctFromToLowerL_Pg", 1, flag)>>
      [] expr.kind = "between" ->
            LET f == IF expr.not THEN flip(flag) ELSE flag
            IN  <<Candidate("FixMBetweenDropUpperU_Pg", 1, f),
                  Candidate("FixMBetweenDropLowerU_Pg", 1, f)>>

\* type ANY without an operator is x IN (subquery)
miningSubLink(sublink, flag) ==
    If(sublink.type = "ALL", Candidate("FixMAllToAnyU_Pg", 1, flag))
    \o If(sublink.type = "ANY" /\ sublink.op # None, Candidate("FixMAnyToAllL_Pg", 1, flag))

Clause(clause, one, zero, flag) ==
    If(clause # None, Candidate(one, 1, flag)) \o If(clause # None, Candidate(zero, 0, flag))

miningUnion(sel, flag) ==
    If(sel.op = "UNION", Candidate("FixMUnionAllU_Pg", 1, flag))
    \o If(sel.op = "UNION ALL", Candidate("FixMUnionAllL_Pg", 0, flag))

InnerJoin(from) == from # None /\ from.type = "INNER"
Quals(from) == IF InnerJoin(from) THEN from.quals ELSE None

\* A cast, a function or CASE, whose parts are visited with the same flag.
visitOperand(visit, node, flag) == visit[node.arg][flag]

visitSubLink(visit, sublink, flag) ==
    visit[sublink.subselect][flag] \o miningSubLink(sublink, flag)

visitBoolExpr(visit, node, flag) ==
    LET f == IF node.op = "NOT" THEN flip(flag) ELSE flag
    IN  FlattenSeq([i \in DOMAIN node.args |-> visit[node.args[i]][f]])

visitSetOp(visit, node, flag) ==
    miningUnion(node, flag) \o visit[node.larg][flag] \o visit[node.rarg][flag]

visitSelectStmt(visit, node, flag) ==
    visit[Quals(node.from)][flag]
    \o Clause(Quals(node.from), "FixMOn1U_Pg", "FixMOn0L_Pg", flag)
    \o visit[node.where][flag]
    \o Clause(node.where, "FixMWhere1U_Pg", "FixMWhere0L_Pg", flag)
    \o visit[node.having][flag]
    \o Clause(node.having, "FixMHaving1U_Pg", "FixMHaving0L_Pg", flag)
    \o visit[node.cte][flag]

\* The order is that of the visits; the flag changes under NOT alone.  visit[n][f] is
\* what visiting n with flag f lists.
VisitedNode(visit, node, flag) ==
    CASE node.kind = "cast" -> visitOperand(visit, node, flag)
      [] node.kind = "bool" -> visitBoolExpr(visit, node, flag)
      [] node.kind = "sublink" -> visitSubLink(visit, node, flag)
      [] node.kind = "setop" -> visitSetOp(visit, node, flag)
      [] node.kind = "select" -> visitSelectStmt(visit, node, flag)
      [] OTHER -> visitAExpr(node, flag)

Visited(visit, node, flag) == IF node = None THEN <<>> ELSE VisitedNode(visit, node, flag)

visitNode[node \in Nodes \cup {None}] == [flag \in {0, 1} |-> Visited(visitNode, node, flag)]

Candidates == visitNode[stmt][1]
NamesOf(candidates) == {candidates[i].name : i \in DOMAIN candidates}

-----------------------------------------------------------------------------
(* Mutating the tree.                                                      *)

BooleanNode(b) == [kind |-> "Boolean", val |-> b]

Cmp(op, col, rhs) == [kind |-> "cmp", op |-> op, col |-> col, rhs |-> rhs]

NewOperator == [FixMCmpOpU_Pg |-> CmpOpU, FixMCmpOpULE_Pg |-> CmpOpULE, FixMCmpOpL_Pg |-> CmpOpL]

\* doRdMLikePgU and doRdMLikePgL: which nodes have a pattern that they rewrite.
Widens(expr) == expr.kind = "like" /\ expr.has # {}
Narrows(expr) == expr.kind = "like" /\ "percent" \in expr.has

\* Which nodes the mutation can change: those with a comparison operator that it
\* replaces, with a pattern that it rewrites, and so on.
Applies(name, node) ==
    CASE name \in DOMAIN NewOperator -> node.kind = "cmp" /\ node.op \in DOMAIN NewOperator[name]
      [] name = "FixMInNullU_Pg" -> node.kind = "in"
      [] name = "RdMLikePgU" -> Widens(node)
      [] name = "RdMLikePgL" -> Narrows(node)
      [] name = "FixMBetweenDropUpperU_Pg" -> node.kind = "between"
      [] name = "FixMBetweenDropLowerU_Pg" -> node.kind = "between"
      [] name = "FixMIsNotDistinctFromToLowerL_Pg" -> node.kind = "notdistinct"
      [] name = "FixMAllToAnyU_Pg" -> node.kind = "sublink" /\ node.type = "ALL"
      [] name = "FixMAnyToAllL_Pg" -> node.kind = "sublink" /\ node.type = "ANY"
      [] name = "FixMUnionAllU_Pg" -> node.kind = "setop" /\ node.op = "UNION"
      [] name = "FixMUnionAllL_Pg" -> node.kind = "setop" /\ node.op = "UNION ALL"
      [] OTHER -> FALSE

\* What is in place of a condition when it has been changed.
NewNode(name, expr) ==
    CASE name \in DOMAIN NewOperator -> [expr EXCEPT !.op = NewOperator[name][@]]
      [] name = "FixMInNullU_Pg" -> [expr EXCEPT !.items = @ \cup {NULL}]
      [] name = "RdMLikePgU" -> [expr EXCEPT !.matches = expr.wider]
      [] name = "RdMLikePgL" -> [expr EXCEPT !.matches = expr.narrower]
      [] name = "FixMBetweenDropUpperU_Pg" -> Cmp(IF expr.not THEN "<" ELSE ">=", expr.col, expr.lo)
      [] name = "FixMBetweenDropLowerU_Pg" -> Cmp(IF expr.not THEN ">" ELSE "<=", expr.col, expr.hi)
      [] name = "FixMIsNotDistinctFromToLowerL_Pg" -> Cmp("=", expr.col, expr.rhs)
      [] name = "FixMAllToAnyU_Pg" -> [expr EXCEPT !.type = "ANY"]
      [] name = "FixMAnyToAllL_Pg" -> [expr EXCEPT !.type = "ALL"]

\* The node that the mutation puts in place of expr, or None.
Replacement(name, expr) == IF Applies(name, expr) THEN NewNode(name, expr) ELSE None

\* The first that is not None.
First(seq) ==
    LET i == SelectInSeq(seq, LAMBDA e : e # None) IN IF i = 0 THEN None ELSE seq[i]

\* expr with the first node changed that the mutation applies to, or None;
\* found[e] is that for the arguments e.
Changed(found, name, expr) ==
    IF expr = None THEN None
    ELSE IF Replacement(name, expr) # None THEN Replacement(name, expr)
    ELSE IF expr.kind # "bool" THEN None
    ELSE First([i \in DOMAIN expr.args |->
                LET arg == found[expr.args[i]]
                IN  IF arg = None THEN None ELSE [expr EXCEPT !.args[i] = arg]])

inExpr(name, expr) ==
    LET found[e \in Nodes] == Changed(found, name, e) IN Changed(found, name, expr)

\* That node by itself.
ChangedNode(found, name, expr) ==
    IF Replacement(name, expr) # None THEN Replacement(name, expr)
    ELSE IF expr.kind # "bool" THEN None
    ELSE First([i \in DOMAIN expr.args |-> found[expr.args[i]]])

replacementIn(name, expr) ==
    LET found[e \in Nodes] == ChangedNode(found, name, e) IN ChangedNode(found, name, expr)

\* sel with another clause, or None if there is no such clause
WithWhere(sel, e) == IF e = None THEN None ELSE [sel EXCEPT !.where = e]
WithHaving(sel, e) == IF e = None THEN None ELSE [sel EXCEPT !.having = e]
WithQuals(sel, e) == IF e = None THEN None ELSE [sel EXCEPT !.from.quals = e]

Constants(clause, b) == IF clause = None THEN None ELSE BooleanNode(b)

SearchedEverywhere == {"FixMCmpOpU_Pg", "FixMCmpOpULE_Pg", "FixMCmpOpL_Pg"}
ReplacesWhere == {"FixMBetweenDropUpperU_Pg", "FixMBetweenDropLowerU_Pg",
                  "FixMIsNotDistinctFromToLowerL_Pg"}
Quantifier == {"FixMAllToAnyU_Pg", "FixMAnyToAllL_Pg"}

doFixSetOp(name, sel) ==
    IF ~Applies(name, sel) THEN None
    ELSE [sel EXCEPT !.op = IF @ = "UNION" THEN "UNION ALL" ELSE "UNION"]

doFixSelect(name, sel) ==
    CASE name = "FixMWhere1U_Pg" -> WithWhere(sel, Constants(sel.where, TRUE))
      [] name = "FixMWhere0L_Pg" -> WithWhere(sel, Constants(sel.where, FALSE))
      [] name = "FixMHaving1U_Pg" -> WithHaving(sel, Constants(sel.having, TRUE))
      [] name = "FixMHaving0L_Pg" -> WithHaving(sel, Constants(sel.having, FALSE))
      [] name = "FixMOn1U_Pg" -> WithQuals(sel, Constants(Quals(sel.from), TRUE))
      [] name = "FixMOn0L_Pg" -> WithQuals(sel, Constants(Quals(sel.from), FALSE))
      [] name \in SearchedEverywhere ->
            First(<<WithWhere(sel, inExpr(name, sel.where)),
                    WithHaving(sel, inExpr(name, sel.having)),
                    WithQuals(sel, inExpr(name, Quals(sel.from)))>>)
      [] name \in {"FixMInNullU_Pg", "RdMLikePgU", "RdMLikePgL"} ->
            First(<<WithWhere(sel, inExpr(name, sel.where)),
                    WithHaving(sel, inExpr(name, sel.having))>>)
      [] name \in Quantifier -> WithWhere(sel, inExpr(name, sel.where))
      [] name \in ReplacesWhere /\ sel.where # None ->
            WithWhere(sel, replacementIn(name, sel.where))
      [] OTHER -> None

\* doFix<name>: the tree it prints, or None where it finds nothing to change.
\* Only the top of the statement is searched.
doFix(name, sel) ==
    IF sel.kind = "setop" THEN doFixSetOp(name, sel) ELSE doFixSelect(name, sel)

\* The deparser prints no node of type Boolean; the parser makes none.
Deparses(sel) ==
    sel.kind = "select" =>
        /\ sel.where # None => sel.where.kind # "Boolean"
        /\ sel.having # None => sel.having.kind # "Boolean"
        /\ Quals(sel.from) # None => Quals(sel.from).kind # "Boolean"

\* They return the deparser's error before they put the clause back.
NotRecovered == {"FixMWhere1U_Pg", "FixMWhere0L_Pg", "FixMHaving1U_Pg", "FixMHaving0L_Pg",
                 "FixMUnionAllU_Pg", "FixMUnionAllL_Pg"}

-----------------------------------------------------------------------------
(* Trying the candidates.                                                  *)

PgInit ==
    /\ stmt \in Statements
    /\ root = stmt
    /\ pending = NamesOf(Candidates)
    /\ queue = <<>>
    /\ units = {}

\* The map is ranged over, in any order.
NextName ==
    /\ queue = <<>>
    /\ \E name \in pending :
          /\ pending' = pending \ {name}
          /\ queue' = FlattenSeq([i \in DOMAIN Candidates |-> If(Candidates[i].name = name, Candidates[i])])
    /\ UNCHANGED <<stmt, root, units>>

\* Mutant: the unit says U where it should say the direction.
Unit_IgnoresFlag(c, sql) == [name |-> c.name, isUpper |-> c.U = 1, sql |-> sql]

Unit(c, sql) == [name |-> c.name, isUpper |-> c.U = c.flag, sql |-> sql]

\* Mutant: the clauses are not put back.
PgImpoMutate_KeepsChange ==
    /\ queue # <<>>
    /\ LET c == Head(queue)
           mutated == doFix(c.name, root)
           ok == mutated # None /\ Deparses(mutated)
       IN  /\ units' = units \cup {Unit(c, IF ok THEN mutated ELSE None)}
           /\ root' = IF ok THEN mutated ELSE root
    /\ queue' = Tail(queue)
    /\ UNCHANGED <<stmt, pending>>

PgImpoMutate ==
    /\ queue # <<>>
    /\ LET c == Head(queue)
           mutated == doFix(c.name, root)
           ok == mutated # None /\ Deparses(mutated)
       IN  /\ units' = units \cup {Unit(c, IF ok THEN mutated ELSE None)}
           /\ root' = IF mutated # None /\ ~ok /\ c.name \in NotRecovered THEN mutated ELSE root
    /\ queue' = Tail(queue)
    /\ UNCHANGED <<stmt, pending>>

\* Every candidate has been tried.
Returned == pending = {} /\ queue = <<>> /\ UNCHANGED pgVars

PgNext == NextName \/ PgImpoMutate \/ Returned

PgSpec == PgInit /\ [][PgNext]_pgVars

-----------------------------------------------------------------------------
(* Every query that is produced is one mutation of the statement as it was *)
(* parsed, whatever was tried before it on the same tree.                  *)
UnitsIndependent ==
    \A u \in units : u.sql # None => u.sql = doFix(u.name, stmt)
=============================================================================
