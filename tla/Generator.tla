------------------------------ MODULE Generator ------------------------------
(***************************************************************************)
(* The random query generator: query_gen.go, from_gen.go, expr_gen.go,     *)
(* bool_expr_gen.go and scope.go of generator/.                            *)
(*                                                                         *)
(* Its functions call one another down to columns and constants.  A step   *)
(* is what one of them does between two of its calls: todo holds the calls *)
(* that are still to be made, the next one first.  Of the text only        *)
(* what a reference can go wrong about is kept: the entries of the FROM    *)
(* clause, the column written last and the two sides compared last.        *)
(*                                                                         *)
(* The typeConstraint of an expression is left out: GenerateSelect asks    *)
(* for "any" and everything below hands that on.                           *)
(***************************************************************************)
EXTENDS Integers, Sequences, FiniteSets

CONSTANTS
    Databases,   \* dialects and the tables that were discovered
    Configs,     \* the Enable* fields of GeneratorConfig
    MaxDepth

MySQL == {"mysql", "opengauss_m", "gaussdb_m"}
PostgreSQL == {"postgresql", "opengauss_a", "gaussdb_a"}

Column == [name : STRING, type : STRING, key : BOOLEAN]

Config == [join : BOOLEAN, selfJoin : BOOLEAN, subquery : BOOLEAN, union : BOOLEAN,
           cte : BOOLEAN, groupBy : BOOLEAN, orderBy : BOOLEAN]

ASSUME GeneratorAssumption ==
    /\ \A d \in Databases : /\ d.dialect \in MySQL \cup PostgreSQL
                            /\ \A t \in DOMAIN d.tables : d.tables[t] \in Seq(Column)
    /\ Configs \subseteq Config
    /\ MaxDepth \in Nat

VARIABLES
    database, config,
    todo,            \* the calls to be made
    tableAliasSeq,
    from,            \* the entries of the FROM clause of the current SELECT
    columns,         \* Scope.Columns: the columns expressions choose from
    written,         \* the column reference written last
    compared         \* the two sides of the comparison written last

input == <<database, config>>
text == <<written, compared>>
vars == <<database, config, todo, tableAliasSeq, from, columns, written, compared>>

tables == database.tables

Call(f, d) == [f |-> f, depth |-> d]
ValueCall(type, d) == [f |-> "value", depth |-> d, type |-> type]
Calls(n, f, d) == [k \in 1 .. n |-> Call(f, d)]

At(f) == todo # <<>> /\ Head(todo).f = f
depth == Head(todo).depth

\* Go on with these calls before those that are waiting.
Push(calls) == todo' = calls \o Tail(todo)

-----------------------------------------------------------------------------
(* Types.                                                                  *)

IntTypes == {"int", "bigint", "smallint", "tinyint", "mediumint", "int4", "int8", "int2"}
FloatTypes == {"float", "double", "decimal", "numeric", "float4", "float8", "double precision"}
StringTypes == {"varchar", "char", "text", "bpchar", "name", "longtext", "mediumtext", "tinytext",
                "enum"}
Timestamps == {"timestamp", "timestamptz", "datetime"}

\* The categories of typeMatch.  PostgreSQL's names are not among them.
OfCategory(category) ==
    CASE category = "int" -> IntTypes \ {"int4", "int8", "int2"}
      [] category = "float" -> {"float", "double", "decimal", "numeric"}
      [] category = "string" -> StringTypes \ {"bpchar", "name"}
      [] category = "bool" -> {"tinyint", "bool", "boolean"}
      [] OTHER -> {}

typeMatch(actual, constraint) == actual = constraint \/ actual \in OfCategory(constraint)

scope == {columns[k] : k \in DOMAIN columns}

ColumnsOfType(constraint) == {c \in scope : typeMatch(c.type, constraint)}

\* A mutant: any column will do.
Partners_Any(type) == scope

\* The columns a column of this type may be compared with.
Partners(type) ==
    CASE type \in IntTypes -> ColumnsOfType("int")
      [] type \in FloatTypes -> ColumnsOfType("float")
      [] type \in StringTypes -> ColumnsOfType("string")
      [] OTHER -> {}

\* What the constant of generateTypeCompatibleValue is.
Constant(type) ==
    CASE type \in IntTypes \cup {"year", "bool", "boolean"} -> "integer"
      [] type \in FloatTypes -> "decimal"
      [] type \in StringTypes -> "string"
      [] type \in Timestamps -> "timestamp string"
      [] type = "date" -> "date string"
      [] type = "time" -> "time string"
      [] type = "bit" -> "bit string"
      [] OTHER -> "none"

\* generateTypeCompatibleBound
Bound(type) ==
    IF type \in {"bool", "boolean"} \/ Constant(type) = "none" THEN "integer" ELSE Constant(type)

-----------------------------------------------------------------------------
(* The shapes of a query and its clauses.                                  *)

NothingCompared == <<"none", "none">>

Silent == written' = {} /\ compared' = NothingCompared

Init ==
    /\ database \in Databases
    /\ config \in Configs
    /\ todo = <<>>
    /\ tableAliasSeq = 0
    /\ from = <<>>
    /\ columns = <<>>
    /\ written = {}
    /\ compared = NothingCompared

Shape(s) ==
    CASE s = "union" /\ config.union -> <<Call("plain", 0), Call("plain", 0)>>
      [] s = "cte" /\ config.cte -> <<Call("plain", 0), Call("cte", 0)>>
      [] s = "derived" /\ config.subquery -> <<Call("plain", 0), Call("derived", 0)>>
      [] OTHER -> <<Call("plain", 0)>>

\* GenerateSelects calls it as often as there are queries to generate.
GenerateSelect ==
    /\ todo = <<>>
    /\ \E s \in {"plain", "union", "cte", "derived"} : todo' = Shape(s)
    /\ tableAliasSeq' = 0
    /\ Silent
    /\ UNCHANGED <<input, from, columns>>

generatePlainSelect ==
    /\ At("plain")
    /\ from' = <<>>
    /\ columns' = <<>>
    /\ Push(IF DOMAIN tables = {} THEN <<>>
            ELSE <<Call("from", 0), Call("selectList", 0), Call("where", 0), Call("groupBy", 0),
                   Call("orderBy", 0)>>)
    /\ Silent
    /\ UNCHANGED <<input, tableAliasSeq>>

\* nextTableAlias, AddTable, and the entry in the text.
AddTable(t) ==
    /\ tableAliasSeq' = tableAliasSeq + 1
    /\ from' = Append(from, [alias |-> tableAliasSeq, table |-> t])
    /\ columns' = columns \o [k \in DOMAIN tables[t] |->
                      [alias |-> tableAliasSeq, name |-> tables[t][k].name,
                       type |-> tables[t][k].type, key |-> tables[t][k].key]]

\* What a random decision may add, under a condition.
Perhaps(condition, calls) == IF condition THEN {<<>>, calls} ELSE {<<>>}

\* One table or two, which may be the same, and perhaps one of them again.
generateFromClause ==
    /\ At("from")
    /\ \E t \in DOMAIN tables : AddTable(t)
    /\ \E join \in Perhaps(Cardinality(DOMAIN tables) > 1, <<Call("join", 0)>>),
          selfJoin \in Perhaps(config.join /\ config.selfJoin, <<Call("selfJoin", 0)>>) :
          Push(join \o selfJoin)
    /\ Silent
    /\ UNCHANGED input

\* Without JOINs the entries just follow one another.
Join ==
    /\ At("join")
    /\ \E t \in DOMAIN tables : AddTable(t)
    /\ Push(IF config.join THEN <<Call("on", 0)>> ELSE <<>>)
    /\ Silent
    /\ UNCHANGED input

SelfJoin ==
    /\ At("selfJoin")
    /\ \E k \in DOMAIN from : AddTable(from[k].table)
    /\ Push(<<Call("on", 0)>>)
    /\ Silent
    /\ UNCHANGED input

KeyPairs ==
    {p \in (DOMAIN columns) \X (DOMAIN columns) :
        /\ p[1] # p[2]
        /\ columns[p[1]].key /\ columns[p[2]].key
        /\ typeMatch(columns[p[2]].type, columns[p[1]].type)}

\* The first pair of keys, or any condition.
generateJoinOnClause ==
    /\ At("on")
    /\ \/ /\ KeyPairs = {}
          /\ Push(<<Call("bool", 0)>>)
          /\ Silent
       \/ \E p \in KeyPairs :
             /\ \A q \in KeyPairs : p[1] < q[1] \/ (p[1] = q[1] /\ p[2] <= q[2])
             /\ Push(<<>>)
             /\ written' = {columns[p[1]], columns[p[2]]}
             /\ compared' = <<columns[p[1]].type, columns[p[2]].type>>
    /\ UNCHANGED <<input, tableAliasSeq, from, columns>>

\* The range of randInt(1, min(n, NumColumns)).
UpTo(n) == {k \in 1 .. n : k = 1 \/ k <= Len(columns)}

generateSelectList == {Calls(n, "expr", 0) : n \in UpTo(3)}

generateGroupByClause == {Calls(n, "column", 0) : n \in UpTo(3)}

generateOrderByClause == {Calls(n, "column", 0) : n \in UpTo(2)}

\* The other clauses of a plain SELECT: those that are optional need a column.
Clause(f) ==
    CASE f = "selectList" -> generateSelectList
      [] f = "where" -> Perhaps(columns # <<>>, <<Call("whereExpr", 0)>>)
      [] f = "groupBy" /\ config.groupBy /\ columns # <<>> ->
            {<<>>} \cup {keys \o having : keys \in generateGroupByClause,
                                          having \in {<<>>, <<Call("bool", 0)>>}}
      [] f = "orderBy" /\ config.orderBy /\ columns # <<>> -> {<<>>} \cup generateOrderByClause
      [] OTHER -> {<<>>}

GenerateClause ==
    /\ todo # <<>>
    /\ Head(todo).f \in {"selectList", "where", "groupBy", "orderBy"}
    /\ \E calls \in Clause(Head(todo).f) : Push(calls)
    /\ Silent
    /\ UNCHANGED <<input, tableAliasSeq, from, columns>>

\* No table of the schema has the CTE's name, so AddTable finds no columns.
generateCTESelect ==
    /\ At("cte")
    /\ tableAliasSeq' = tableAliasSeq + 1
    /\ from' = <<[alias |-> tableAliasSeq, table |-> "cte0"]>>
    /\ columns' = <<>>
    /\ Push(<<>>)
    /\ Silent
    /\ UNCHANGED input

\* A mutant: the scope of the subquery is used again.
generateDerivedSelect_InnerScope ==
    /\ At("derived")
    /\ tableAliasSeq' = tableAliasSeq + 1
    /\ from' = <<[alias |-> tableAliasSeq, table |-> "derived"]>>
    /\ \E calls \in {<<>>, <<Call("bool", 0)>>} : Push(calls)
    /\ Silent
    /\ UNCHANGED <<input, columns>>

\* The columns of a derived table are not known.
generateDerivedSelect ==
    /\ At("derived")
    /\ tableAliasSeq' = tableAliasSeq + 1
    /\ from' = <<[alias |-> tableAliasSeq, table |-> "derived"]>>
    /\ columns' = <<>>
    /\ \E calls \in {<<>>, <<Call("bool", 0)>>} : Push(calls)
    /\ Silent
    /\ UNCHANGED input

-----------------------------------------------------------------------------
(* Expressions and conditions.  d is the depth a function is called with.  *)

Leaf(d) == d >= MaxDepth \/ columns = <<>>

generateBinaryArithExpr(d) == {Calls(2, "expr", d + 1)}

ConditionAndTwoValues(d) == <<Call("bool", d + 1), Call("expr", d + 1), Call("expr", d + 1)>>

\* For "any": CAST and IFNULL have one argument, COALESCE two or three, IF a
\* condition and two values; NULLIF is apart.
generateFunctionCallExpr(d) ==
    {Calls(n, "expr", d + 1) : n \in 1 .. 3}
    \cup (IF database.dialect \in MySQL THEN {ConditionAndTwoValues(d)} ELSE {})

generateCaseExpr(d) == {ConditionAndTwoValues(d)}

NullIf(d) == {Calls(2, "expr", d + 1)}

generateInExpr(d) == {<<Call("expr", d + 1)>> \o Calls(n, "leaf", d) : n \in 2 .. 3}

\* A leaf, a constant, a column, or one of the others; those that compare any
\* two expressions are CompareAny's.
generateExpression(d) ==
    IF Leaf(d) THEN {<<Call("leaf", d)>>}
    ELSE {<<>>, <<Call("column", d)>>, <<Call("comparison", d)>>}
         \cup generateBinaryArithExpr(d) \cup generateFunctionCallExpr(d) \cup generateCaseExpr(d)

\* A column, or a constant, which may be a value of an ENUM.
generateLeaf(d) == Perhaps(columns # <<>>, <<Call("column", d)>>)

\* AND, OR
generateBoolBinaryOp(d) == {Calls(2, "bool", d + 1)}

generateBoolExpr(d) ==
    IF Leaf(d) THEN {<<Call("boolLeaf", d)>>}
    ELSE {<<Call(f, d)>> : f \in {"comparison", "isNull", "between", "like", "boolLeaf"}}
         \cup generateBoolBinaryOp(d)

generateWhereExpr(d) ==
    IF Leaf(d) THEN {<<Call("boolLeaf", d)>>}
    ELSE {<<Call(f, d)>> : f \in {"comparison", "isNull", "between", "like", "in"}}
         \cup generateBoolBinaryOp(d)

generateBoolLeaf(d) == Perhaps(columns # <<>>, <<Call("comparison", MaxDepth)>>)

\* The calls a function goes on with that writes no column itself.
Branches(f, d) ==
    CASE f = "expr" -> generateExpression(d)
      [] f = "leaf" -> generateLeaf(d)
      [] f = "bool" -> generateBoolExpr(d)
      [] f = "whereExpr" -> generateWhereExpr(d)
      [] f = "boolLeaf" -> generateBoolLeaf(d)

Branch ==
    /\ todo # <<>>
    /\ Head(todo).f \in {"expr", "leaf", "bool", "whereExpr", "boolLeaf"}
    /\ \E calls \in Branches(Head(todo).f, depth) : Push(calls)
    /\ Silent
    /\ UNCHANGED <<input, tableAliasSeq, from, columns>>

\* NULLIF and IN compare two expressions of any types.
CompareAny ==
    /\ At("expr") /\ ~Leaf(depth)
    /\ \E calls \in NullIf(depth) \cup generateInExpr(depth) : Push(calls)
    /\ written' = {}
    /\ compared' = <<"any", "any">>
    /\ UNCHANGED <<input, tableAliasSeq, from, columns>>

WriteColumn(c) == written' = {c}

\* A column by itself, or before IS NULL.
generateColumnRefExpr ==
    /\ At("column") \/ At("isNull")
    /\ \E c \in scope : WriteColumn(c)
    /\ compared' = NothingCompared
    /\ Push(<<>>)
    /\ UNCHANGED <<input, tableAliasSeq, from, columns>>

\* The left-hand side; in IN the values are one deeper.
generateComparison ==
    /\ At("comparison") \/ At("in")
    /\ \E c \in scope :
          /\ WriteColumn(c)
          /\ \/ At("comparison") /\ Push(<<ValueCall(c.type, depth)>>)
             \/ At("in") /\ \E n \in 2 .. 4 : Push([k \in 1 .. n |-> ValueCall(c.type, depth + 1)])
    /\ compared' = NothingCompared
    /\ UNCHANGED <<input, tableAliasSeq, from, columns>>

generateBetweenPredicate ==
    /\ At("between")
    /\ \E c \in scope : WriteColumn(c) /\ compared' = <<c.type, Bound(c.type)>>
    /\ Push(<<>>)
    /\ UNCHANGED <<input, tableAliasSeq, from, columns>>

\* A string column, or any column as a string.
generateLikePredicate ==
    /\ At("like")
    /\ LET strings == ColumnsOfType("string") IN
       \/ \E c \in strings : WriteColumn(c) /\ compared' = <<c.type, "string">>
       \/ strings = {} /\ \E c \in scope : WriteColumn(c) /\ compared' = <<"char", "string">>
    /\ Push(<<>>)
    /\ UNCHANGED <<input, tableAliasSeq, from, columns>>

\* A mutant: an expression is no deeper than what it is compared with.
Deeper_Not(d) == d

Deeper(d) == d + 1

generateTypeCompatibleValue ==
    /\ At("value")
    /\ LET type == Head(todo).type IN
       \/ /\ Constant(type) # "none"
          /\ compared' = <<type, Constant(type)>>
          /\ written' = {}
          /\ Push(<<>>)
       \/ \E c \in Partners(type) :
             /\ WriteColumn(c)
             /\ compared' = <<type, c.type>>
             /\ Push(<<>>)
       \/ /\ Constant(type) = "none"
          /\ compared' = <<type, "expression">>
          /\ written' = {}
          /\ Push(<<Call("expr", Deeper(depth))>>)
    /\ UNCHANGED <<input, tableAliasSeq, from, columns>>

Next ==
    \/ GenerateSelect
    \/ generatePlainSelect
    \/ generateFromClause
    \/ Join
    \/ SelfJoin
    \/ generateJoinOnClause
    \/ GenerateClause
    \/ generateCTESelect
    \/ generateDerivedSelect
    \/ Branch
    \/ CompareAny
    \/ generateColumnRefExpr
    \/ generateComparison
    \/ generateBetweenPredicate
    \/ generateLikePredicate
    \/ generateTypeCompatibleValue

\* Sequential code: it goes on until it is done.
Spec == Init /\ [][Next]_vars /\ WF_vars(Next)

-----------------------------------------------------------------------------
HasColumn(entry, c) ==
    /\ entry.alias = c.alias
    /\ entry.table \in DOMAIN tables
    /\ \E j \in DOMAIN tables[entry.table] : tables[entry.table][j].name = c.name

(* What is written names a column of exactly one entry of the FROM clause  *)
(* as far as it is written: a condition of ON knows the tables joined      *)
(* before it only, one of an outer query nothing of the inner one          *)
(* (scope.go:46, from_gen.go:40 and 60, query_gen.go:236).                  *)
RefsResolve ==
    \A c \in written :
        LET entries == {k \in DOMAIN from : from[k].alias = c.alias}
        IN  \E k \in entries : entries = {k} /\ HasColumn(from[k], c)

Category(x) ==
    CASE x \in IntTypes \cup FloatTypes \cup {"integer"} -> "number"
      [] x \in StringTypes \cup {"string"} -> "string"
      [] x \in Timestamps \cup {"timestamp string"} -> "timestamp"
      [] x \in {"date", "date string"} -> "date"
      [] x \in {"time", "time string"} -> "time"
      [] x \in {"bit", "bit string"} -> "bit"
      [] OTHER -> "none"

\* The calls of these functions that are still to be made.
Waiting(fs) == {k \in DOMAIN todo : todo[k].f \in fs}

\* Where ON, WHERE and HAVING stand: before the select list, or after it.
OutsideSelectList == Waiting({"selectList"}) # {} \/ Waiting({"where"}) = {}

\* The types of PostgreSQL and MySQL that generateTypeCompatibleValue knows, but
\* for the Boolean ones and YEAR, which it compares with integers.
KnownTypes == IntTypes \cup FloatTypes \cup StringTypes \cup Timestamps \cup {"date", "time", "bit"}

ScopeTyped == \A c \in scope : c.type \in KnownTypes

(* "PostgreSQL strict type checking: comparisons must be type-compatible"  *)
(* (bool_expr_gen.go:9, of WHERE, HAVING and ON).  Wherever a column of a  *)
(* known type is compared, the other side is of its category; and if all   *)
(* columns in scope are of known types, ON, WHERE and HAVING compare       *)
(* nothing else: the comparisons of any two expressions, which are made    *)
(* for the select list, never get there.                                   *)
TypesComparable ==
    /\ compared[1] \in KnownTypes => Category(compared[1]) = Category(compared[2])
    /\ OutsideSelectList /\ ScopeTyped /\ compared # NothingCompared => compared[1] \in KnownTypes

(* Every query comes to an end and the next one is begun: each call of     *)
(* generateExpression is deeper than the last, also the one by way of a    *)
(* type that generateTypeCompatibleValue does not know (expr_gen.go:178).  *)
Generated == []<>(todo = <<>>)

-----------------------------------------------------------------------------
(* Why columns can be found: the inductive invariant.                      *)

\* Calls that are made for one clause.
Inner ==
    [f : {"on", "expr", "leaf", "bool", "whereExpr", "boolLeaf", "column", "isNull", "comparison",
          "in", "between", "like"}, depth : Nat]

Value == [f : {"value"}, depth : Nat, type : STRING]

Outer == [f : {"plain", "from", "join", "selfJoin", "selectList", "where", "groupBy", "orderBy",
               "cte", "derived"}, depth : Nat]

Entry == [alias : Nat, table : DOMAIN tables \cup {"cte0", "derived"}]

ScopeColumn == [alias : Nat, name : STRING, type : STRING, key : BOOLEAN]

\* The type of a column, or what stands on the other side.
Side ==
    STRING \cup {"char", "integer", "decimal", "string", "timestamp string", "date string",
                "time string", "bit string", "expression", "any", "none"}

TypeOK ==
    /\ database \in Databases /\ config \in Configs
    /\ todo \in Seq(Inner \cup Value \cup Outer)
    /\ tableAliasSeq \in Nat
    /\ from \in Seq(Entry)
    /\ columns \in Seq(ScopeColumn)
    /\ written \subseteq scope
    /\ compared \in Side \X Side

\* The query around a table expression or a derived table ends the statement.
OuterQueryLast == Waiting({"cte", "derived"}) \subseteq {Len(todo)}

\* Until then the FROM clause has tables of the schema only.
TablesDiscovered ==
    Waiting({"from", "join", "selfJoin"}) # {} =>
        \A k \in DOMAIN from : from[k].table \in DOMAIN tables

AliasesUnique ==
    \A k, l \in DOMAIN from : from[k].alias = from[l].alias => k = l

\* Numbers begin again with each statement, before the first SELECT of it.
AliasesUsed ==
    todo # <<>> /\ ~At("plain") => \A k \in DOMAIN from : from[k].alias < tableAliasSeq

ScopeKnown == \A c \in scope : \E k \in DOMAIN from : HasColumn(from[k], c)

GeneratorInvariant ==
    TypeOK /\ OuterQueryLast /\ TablesDiscovered /\ AliasesUnique /\ AliasesUsed /\ ScopeKnown

-----------------------------------------------------------------------------
(* Why conditions compare what they can: no expression waits in them.      *)

\* The clauses in their order, after what is left of one, before other queries.
Stage(f) ==
    CASE f = "selectList" -> 1
      [] f = "where" -> 2
      [] f = "groupBy" -> 3
      [] f = "orderBy" -> 4
      [] f \in {"plain", "cte", "derived"} -> 5
      [] OTHER -> 0

InOrder(calls) ==
    \A k, l \in DOMAIN calls :
        k < l => \/ Stage(calls[k].f) < Stage(calls[l].f)
                 \/ Stage(calls[k].f) = Stage(calls[l].f) /\ Stage(calls[k].f) \in {0, 5}

WhereFollows == Waiting({"selectList"}) # {} => Waiting({"where"}) # {}

\* No expression, and values for columns of known types only.
Typed(calls) ==
    \A k \in DOMAIN calls : /\ calls[k].f # "expr"
                            /\ calls[k].f = "value" => calls[k].type \in KnownTypes

ConditionsTyped == OutsideSelectList /\ ScopeTyped => Typed(todo)

ComparisonInvariant == InOrder(todo) /\ WhereFollows /\ ConditionsTyped
=============================================================================
