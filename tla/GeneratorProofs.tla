--------------------------- MODULE GeneratorProofs ---------------------------
(***************************************************************************)
(* The columns of a generated query belong to its FROM clause, and columns *)
(* of known types are compared with what has their category: for every     *)
(* schema, set of features and depth.                                      *)
(***************************************************************************)
EXTENDS Generator, SequenceTheorems, TLAPS

-----------------------------------------------------------------------------
(* The calls waiting.                                                      *)

\* Calls put before those that wait come first; the last one stays last.
LEMMA CallsPushed ==
    ASSUME NEW S, NEW t \in Seq(S), t # <<>>, NEW calls \in Seq(S)
    PROVE  /\ calls \o Tail(t) \in Seq(S)
           /\ Len(calls \o Tail(t)) = Len(calls) + Len(t) - 1
           /\ \A k \in DOMAIN (calls \o Tail(t)) :
                 \/ k \in DOMAIN calls /\ (calls \o Tail(t))[k] = calls[k]
                 \/ /\ k - Len(calls) + 1 \in DOMAIN t
                    /\ (calls \o Tail(t))[k] = t[k - Len(calls) + 1]
                    /\ k - Len(calls) + 1 # 1
<1> DEFINE u == calls \o Tail(t)
<1>1. /\ Tail(t) \in Seq(S)
      /\ Len(Tail(t)) = Len(t) - 1
      /\ \A i \in 1 .. Len(Tail(t)) : Tail(t)[i] = t[i + 1]
  BY HeadTailProperties, Zenon
<1>2. /\ u \in Seq(S)
      /\ Len(u) = Len(calls) + Len(Tail(t))
      /\ \A i \in 1 .. Len(calls) + Len(Tail(t)) :
            u[i] = IF i <= Len(calls) THEN calls[i] ELSE Tail(t)[i - Len(calls)]
  BY <1>1, ConcatProperties, Zenon
<1>3. Len(calls) \in Nat /\ Len(t) \in Nat /\ DOMAIN calls = 1 .. Len(calls)
      /\ DOMAIN t = 1 .. Len(t) /\ DOMAIN u = 1 .. Len(u)
  BY <1>2, LenProperties, Zenon
<1>4. Len(u) = Len(calls) + Len(t) - 1
  BY <1>1, <1>2, <1>3
<1>5. ASSUME NEW k \in DOMAIN u
      PROVE  \/ k \in DOMAIN calls /\ u[k] = calls[k]
             \/ /\ k - Len(calls) + 1 \in DOMAIN t
                /\ u[k] = t[k - Len(calls) + 1]
                /\ k - Len(calls) + 1 # 1
  <2>1. k \in 1 .. Len(calls) + Len(Tail(t))
    BY <1>2, <1>3
  <2>2. CASE k <= Len(calls)
    BY <2>1, <2>2, <1>2, <1>3
  <2>3. CASE ~(k <= Len(calls))
    <3>1. k - Len(calls) \in 1 .. Len(Tail(t))
      BY <2>1, <2>3, <1>1, <1>3
    <3>2. Tail(t)[k - Len(calls)] = t[k - Len(calls) + 1]
      BY <3>1, <1>1
    <3>3. u[k] = t[k - Len(calls) + 1]
      BY <2>1, <2>3, <3>2, <1>2
    <3> HIDE DEF u
    <3> QED
      BY <3>1, <3>3, <1>1, <1>3
  <2> QED
    BY <2>2, <2>3
<1> QED
  BY <1>2, <1>4, <1>5

\* The next call is the first one.
LEMMA HeadFirst ==
    ASSUME NEW S, NEW t \in Seq(S), t # <<>>
    PROVE  Head(t) \in S /\ 1 \in DOMAIN t /\ Head(t) = t[1]
OBVIOUS

\* Several calls of one function below.
LEMMA CallsInner ==
    ASSUME NEW n \in Nat, NEW d \in Nat,
           NEW f \in {"expr", "leaf", "bool", "column"}
    PROVE  Calls(n, f, d) \in Seq(Inner)
<1>1. Call(f, d) \in Inner
  BY DEF Call, Inner
<1> QED
  BY <1>1 DEF Calls

\* One call, two or three.
LEMMA FewCalls ==
    ASSUME NEW S, NEW a \in S, NEW b \in S, NEW c \in S
    PROVE  <<a>> \in Seq(S) /\ <<a, b>> \in Seq(S) /\ <<a, b, c>> \in Seq(S) /\ <<>> \in Seq(S)
OBVIOUS

\* What expressions and conditions call is inner.
LEMMA BranchesInner ==
    ASSUME GeneratorAssumption, NEW d \in Nat,
           NEW f \in {"expr", "leaf", "bool", "whereExpr", "boolLeaf"},
           NEW calls \in Branches(f, d)
    PROVE  calls \in Seq(Inner)
<1>1. d + 1 \in Nat /\ MaxDepth \in Nat
  BY DEF GeneratorAssumption
<1>2. \A n \in 1 .. 3 : n \in Nat
  OBVIOUS
<1>3. \A n \in 1 .. 3 : Calls(n, "expr", d + 1) \in Seq(Inner) /\ Calls(n, "leaf", d) \in Seq(Inner)
                        /\ Calls(n, "bool", d + 1) \in Seq(Inner)
  BY <1>1, <1>2, CallsInner
<1>12. Calls(2, "bool", d + 1) \in Seq(Inner)
  BY <1>3
<1>4. \A g \in {"expr", "leaf", "bool", "whereExpr", "boolLeaf", "column", "isNull", "comparison",
                "in", "between", "like"} :
         <<Call(g, d)>> \in Seq(Inner) /\ <<Call(g, d + 1)>> \in Seq(Inner)
         /\ <<Call(g, MaxDepth)>> \in Seq(Inner)
  BY <1>1 DEF Call, Inner
<1>5. ConditionAndTwoValues(d) \in Seq(Inner)
  <2>1. Call("bool", d + 1) \in Inner /\ Call("expr", d + 1) \in Inner
    BY <1>1 DEF Call, Inner
  <2> QED
    BY <2>1, FewCalls DEF ConditionAndTwoValues
<1>6. <<>> \in Seq(Inner)
  OBVIOUS
<1>7. CASE f = "leaf"
  BY <1>7, <1>4, <1>6 DEF Branches, generateLeaf, Perhaps
<1>8. CASE f = "boolLeaf"
  BY <1>8, <1>4, <1>6 DEF Branches, generateBoolLeaf, Perhaps
<1>9. CASE f = "whereExpr"
  <2>1. calls \in generateWhereExpr(d)
    BY <1>9 DEF Branches
  <2>2. CASE Leaf(d)
    BY <2>1, <2>2, <1>4 DEF generateWhereExpr
  <2>3. CASE ~Leaf(d)
    <3>1. \/ calls \in {<<Call(g, d)>> : g \in {"comparison", "isNull", "between", "like", "in"}}
          \/ calls = Calls(2, "bool", d + 1)
      BY <2>1, <2>3 DEF generateWhereExpr, generateBoolBinaryOp
    <3> QED
      BY <3>1, <1>4, <1>12
  <2> QED
    BY <2>2, <2>3
<1>10. CASE f = "bool"
  <2>1. calls \in generateBoolExpr(d)
    BY <1>10 DEF Branches
  <2>2. CASE Leaf(d)
    BY <2>1, <2>2, <1>4 DEF generateBoolExpr
  <2>3. CASE ~Leaf(d)
    <3>1. \/ calls \in {<<Call(g, d)>> : g \in {"comparison", "isNull", "between", "like", "boolLeaf"}}
          \/ calls = Calls(2, "bool", d + 1)
      BY <2>1, <2>3 DEF generateBoolExpr, generateBoolBinaryOp
    <3> QED
      BY <3>1, <1>4, <1>12
  <2> QED
    BY <2>2, <2>3
<1>11. CASE f = "expr"
  <2>1. calls \in generateExpression(d)
    BY <1>11 DEF Branches
  <2>3. \A c \in generateBinaryArithExpr(d) \cup generateFunctionCallExpr(d) \cup generateCaseExpr(d) :
           c \in Seq(Inner)
    BY <1>3, <1>5, SMTT(20) DEF generateBinaryArithExpr, generateFunctionCallExpr, generateCaseExpr
  <2>4. CASE Leaf(d)
    BY <2>1, <2>4, <1>4 DEF generateExpression
  <2>5. CASE ~Leaf(d)
    <3>1. \/ calls \in {<<>>, <<Call("column", d)>>, <<Call("comparison", d)>>}
          \/ calls \in generateBinaryArithExpr(d) \cup generateFunctionCallExpr(d) \cup generateCaseExpr(d)
      BY <2>1, <2>5 DEF generateExpression
    <3> QED
      BY <3>1, <2>3, <1>4, <1>6
  <2> QED
    BY <2>4, <2>5
<1> QED
  BY <1>7, <1>8, <1>9, <1>10, <1>11

\* What the clauses call is inner.
LEMMA ClausesInner ==
    ASSUME GeneratorAssumption, TypeOK,
           NEW f \in {"selectList", "where", "groupBy", "orderBy"}, NEW calls \in Clause(f)
    PROVE  calls \in Seq(Inner)
<1>1. \A n \in UpTo(3) \cup UpTo(2) : n \in Nat
  BY DEF UpTo
<1>2. \A n \in UpTo(3) \cup UpTo(2) : Calls(n, "expr", 0) \in Seq(Inner)
                                      /\ Calls(n, "column", 0) \in Seq(Inner)
  BY <1>1, CallsInner
<1>3. /\ <<Call("whereExpr", 0)>> \in Seq(Inner)
      /\ <<Call("bool", 0)>> \in Seq(Inner)
      /\ <<>> \in Seq(Inner)
  BY DEF Call, Inner
<1>4. config.groupBy \in BOOLEAN /\ config.orderBy \in BOOLEAN
  BY DEF GeneratorAssumption, TypeOK, Config
<1>5. \/ calls \in generateSelectList
      \/ calls \in {<<>>, <<Call("whereExpr", 0)>>}
      \/ \E keys \in generateGroupByClause, having \in {<<>>, <<Call("bool", 0)>>} :
            calls = keys \o having
      \/ calls \in generateOrderByClause
  <2>1. CASE f = "selectList"
    BY <2>1, <1>4 DEF Clause
  <2>2. CASE f = "where"
    BY <2>2, <1>4 DEF Clause, Perhaps
  <2>3. CASE f = "groupBy"
    BY <2>3, <1>4 DEF Clause
  <2>4. CASE f = "orderBy"
    BY <2>4, <1>4 DEF Clause
  <2> QED
    BY <2>1, <2>2, <2>3, <2>4
<1>6. \A keys \in generateGroupByClause : keys \in Seq(Inner)
  BY <1>2 DEF generateGroupByClause
<1>7. ASSUME NEW keys \in Seq(Inner), NEW having \in Seq(Inner)
      PROVE  keys \o having \in Seq(Inner)
  BY ConcatProperties
<1>8. CASE calls \in generateSelectList
  BY <1>2, <1>8 DEF generateSelectList
<1>9. CASE calls \in generateOrderByClause
  BY <1>2, <1>9 DEF generateOrderByClause
<1>10. CASE calls \in {<<>>, <<Call("whereExpr", 0)>>}
  BY <1>3, <1>10
<1>11. CASE \E keys \in generateGroupByClause, having \in {<<>>, <<Call("bool", 0)>>} :
              calls = keys \o having
  <2>1. PICK keys \in generateGroupByClause, having \in {<<>>, <<Call("bool", 0)>>} :
                calls = keys \o having
    BY <1>11
  <2>2. keys \in Seq(Inner) /\ having \in Seq(Inner)
    BY <1>3, <1>6
  <2> QED
    BY <1>7, <2>1, <2>2
<1> QED
  BY <1>5, <1>8, <1>9, <1>10, <1>11

-----------------------------------------------------------------------------
(* The steps inside a clause.                                              *)

\* A step that leaves the FROM clause and the scope as they are.
InnerStep ==
    /\ todo # <<>> /\ ~At("plain")
    /\ \E calls \in Seq(Inner \cup Value) :
          /\ Push(calls)
          /\ \A k \in DOMAIN calls : calls[k].f = "value" => calls[k].type \in {c.type : c \in scope}
    /\ written' \subseteq scope
    /\ compared' \in Side \X Side
    /\ UNCHANGED <<input, tableAliasSeq, from, columns>>

\* The next call has a depth, and a type when it is that of a value.
LEMMA NextCall ==
    ASSUME TypeOK, todo # <<>>
    PROVE  /\ Head(todo) \in Inner \cup Value \cup Outer
           /\ depth \in Nat
           /\ At("value") => Head(todo).type \in STRING
<1>1. Head(todo) \in Inner \cup Value \cup Outer
  BY HeadFirst DEF TypeOK
<1> QED
  BY <1>1 DEF Inner, Value, Outer, depth, At

\* The columns in scope.
LEMMA ScopeTypes ==
    ASSUME TypeOK
    PROVE  \A c \in scope : c.type \in STRING /\ c.name \in STRING
<1>1. \A k \in DOMAIN columns :
         columns[k] \in ScopeColumn
  BY DEF TypeOK
<1>2. \A k \in DOMAIN columns : columns[k].type \in STRING /\ columns[k].name \in STRING
  BY <1>1 DEF ScopeColumn
<1> QED
  BY <1>2 DEF scope

\* Inner calls are none of a value.
LEMMA InnerCalls ==
    ASSUME NEW calls \in Seq(Inner)
    PROVE  /\ calls \in Seq(Inner \cup Value)
           /\ \A k \in DOMAIN calls : calls[k].f # "value"
<1>1. \A k \in DOMAIN calls : calls[k] \in Inner
  OBVIOUS
<1> QED
  BY <1>1 DEF Inner

\* Text that names no column.
LEMMA SilentIsText ==
    Silent => written' \subseteq scope /\ compared' \in Side \X Side
<1>1. NothingCompared \in Side \X Side
  BY DEF NothingCompared, Side
<1> QED
  BY <1>1 DEF Silent

\* A condition of ON calls nothing or a condition.
LEMMA JoinOnInner == TypeOK /\ generateJoinOnClause => InnerStep
<1> SUFFICES ASSUME TypeOK, generateJoinOnClause PROVE InnerStep
  OBVIOUS
<1>1. todo # <<>> /\ ~At("plain")
  BY DEF generateJoinOnClause, At
<1>2. \E calls \in Seq(Inner) : Push(calls)
  <2>1. <<Call("bool", 0)>> \in Seq(Inner) /\ <<>> \in Seq(Inner)
    BY DEF Call, Inner
  <2> QED
    BY <2>1 DEF generateJoinOnClause
<1>3. written' \subseteq scope /\ compared' \in Side \X Side
  <2>1. CASE Silent
    BY <2>1, SilentIsText
  <2>2. CASE \E p \in KeyPairs : /\ written' = {columns[p[1]], columns[p[2]]}
                                /\ compared' = <<columns[p[1]].type, columns[p[2]].type>>
    <3>1. PICK p \in KeyPairs : /\ written' = {columns[p[1]], columns[p[2]]}
                                /\ compared' = <<columns[p[1]].type, columns[p[2]].type>>
      BY <2>2
    <3>2. columns[p[1]] \in scope /\ columns[p[2]] \in scope
      BY <3>1 DEF KeyPairs, scope
    <3> QED
      BY <3>1, <3>2, ScopeTypes DEF Side
  <2> QED
    BY <2>1, <2>2 DEF generateJoinOnClause
<1> QED
  BY <1>1, <1>2, <1>3, InnerCalls DEF InnerStep, generateJoinOnClause

\* The other clauses call expressions and conditions.
LEMMA ClauseInner == GeneratorAssumption /\ TypeOK /\ GenerateClause => InnerStep
<1> SUFFICES ASSUME GeneratorAssumption, TypeOK, GenerateClause PROVE InnerStep
  OBVIOUS
<1>1. todo # <<>> /\ ~At("plain")
  BY DEF GenerateClause, At
<1>2. \E calls \in Seq(Inner) : Push(calls)
  BY ClausesInner DEF GenerateClause
<1>3. written' \subseteq scope /\ compared' \in Side \X Side
  BY SilentIsText DEF GenerateClause
<1> QED
  BY <1>1, <1>2, <1>3, InnerCalls DEF InnerStep, GenerateClause

\* Expressions and conditions call one another.
LEMMA BranchInner == GeneratorAssumption /\ TypeOK /\ Branch => InnerStep
<1> SUFFICES ASSUME GeneratorAssumption, TypeOK, Branch PROVE InnerStep
  OBVIOUS
<1>1. todo # <<>> /\ ~At("plain")
  BY DEF Branch, At
<1>2. \E calls \in Seq(Inner) : Push(calls)
  BY <1>1, NextCall, BranchesInner DEF Branch
<1>3. written' \subseteq scope /\ compared' \in Side \X Side
  BY SilentIsText DEF Branch
<1> QED
  BY <1>1, <1>2, <1>3, InnerCalls DEF InnerStep, Branch

\* What is compared without regard to types calls expressions.
LEMMA AnyInner == TypeOK /\ CompareAny => InnerStep
<1> SUFFICES ASSUME TypeOK, CompareAny PROVE InnerStep
  OBVIOUS
<1>1. todo # <<>> /\ ~At("plain")
  BY DEF CompareAny, At
<1>2. depth \in Nat /\ depth + 1 \in Nat
  BY <1>1, NextCall
<1>3. PICK calls \in NullIf(depth) \cup generateInExpr(depth) : Push(calls)
  BY DEF CompareAny
<1> DEFINE d == depth
<1> HIDE DEF d
<1>4. calls \in Seq(Inner)
  <2>1. d \in Nat /\ d + 1 \in Nat /\ calls \in NullIf(d) \cup generateInExpr(d)
    BY <1>2, <1>3 DEF d
  <2>2. CASE calls \in NullIf(d)
    BY <2>1, <2>2, CallsInner DEF NullIf
  <2>3. CASE calls \in generateInExpr(d)
    <3>1. PICK n \in 2 .. 3 : calls = <<Call("expr", d + 1)>> \o Calls(n, "leaf", d)
      BY <2>3 DEF generateInExpr
    <3>2. n \in Nat
      BY <3>1
    <3>3. Calls(n, "leaf", d) \in Seq(Inner)
      BY <2>1, <3>2, CallsInner
    <3>4. <<Call("expr", d + 1)>> \in Seq(Inner)
      BY <2>1 DEF Call, Inner
    <3> QED
      BY <3>1, <3>3, <3>4, ConcatProperties
  <2> QED
    BY <2>1, <2>2, <2>3
<1>5. written' \subseteq scope /\ compared' \in Side \X Side
  BY DEF CompareAny, Side
<1> QED
  BY <1>1, <1>3, <1>4, <1>5, InnerCalls DEF InnerStep, CompareAny

\* A column by itself calls nothing.
LEMMA ColumnInner == TypeOK /\ generateColumnRefExpr => InnerStep
<1> SUFFICES ASSUME TypeOK, generateColumnRefExpr PROVE InnerStep
  OBVIOUS
<1>1. todo # <<>> /\ ~At("plain")
  BY DEF generateColumnRefExpr, At
<1>2. <<>> \in Seq(Inner) /\ Push(<<>>)
  BY DEF generateColumnRefExpr
<1>3. written' \subseteq scope /\ compared' \in Side \X Side
  BY DEF generateColumnRefExpr, WriteColumn, NothingCompared, Side
<1> QED
  BY <1>1, <1>2, <1>3, InnerCalls DEF InnerStep, generateColumnRefExpr

\* The bounds of BETWEEN are constants.
LEMMA BetweenInner == TypeOK /\ generateBetweenPredicate => InnerStep
<1> SUFFICES ASSUME TypeOK, generateBetweenPredicate PROVE InnerStep
  OBVIOUS
<1>1. todo # <<>> /\ ~At("plain")
  BY DEF generateBetweenPredicate, At
<1>2. <<>> \in Seq(Inner) /\ Push(<<>>)
  BY DEF generateBetweenPredicate
<1>3. \A type \in STRING : Bound(type) \in Side /\ type \in Side
  BY DEF Bound, Constant, Side
<1>4. written' \subseteq scope /\ compared' \in Side \X Side
  <2>1. PICK c \in scope : written' = {c} /\ compared' = <<c.type, Bound(c.type)>>
    BY DEF generateBetweenPredicate, WriteColumn
  <2>2. c.type \in Side /\ Bound(c.type) \in Side
    BY <1>3, ScopeTypes
  <2> QED
    BY <2>1, <2>2
<1> QED
  BY <1>1, <1>2, <1>4, InnerCalls DEF InnerStep, generateBetweenPredicate

\* The pattern of LIKE is a constant.
LEMMA LikeInner == TypeOK /\ generateLikePredicate => InnerStep
<1> SUFFICES ASSUME TypeOK, generateLikePredicate PROVE InnerStep
  OBVIOUS
<1>1. todo # <<>> /\ ~At("plain")
  BY DEF generateLikePredicate, At
<1>2. <<>> \in Seq(Inner) /\ Push(<<>>)
  BY DEF generateLikePredicate
<1>3. ColumnsOfType("string") \subseteq scope
  BY DEF ColumnsOfType
<1>4. written' \subseteq scope /\ compared' \in Side \X Side
  <2>1. PICK c \in scope : written' = {c} /\ compared' \in {<<c.type, "string">>, <<"char", "string">>}
    BY <1>3 DEF generateLikePredicate, WriteColumn
  <2>2. c.type \in Side /\ "char" \in Side /\ "string" \in Side
    BY ScopeTypes DEF Side
  <2> QED
    BY <2>1, <2>2
<1> QED
  BY <1>1, <1>2, <1>4, InnerCalls DEF InnerStep, generateLikePredicate

\* The values to compare with have the type of the column.
LEMMA ComparisonInner == TypeOK /\ generateComparison => InnerStep
<1> SUFFICES ASSUME TypeOK, generateComparison PROVE InnerStep
  OBVIOUS
<1>1. todo # <<>> /\ ~At("plain")
  BY DEF generateComparison, At
<1>2. PICK c \in scope :
         /\ WriteColumn(c)
         /\ \/ Push(<<ValueCall(c.type, depth)>>)
            \/ \E n \in 2 .. 4 : Push([k \in 1 .. n |-> ValueCall(c.type, depth + 1)])
  BY DEF generateComparison
<1>3. ValueCall(c.type, depth) \in Value /\ ValueCall(c.type, depth + 1) \in Value
      /\ ValueCall(c.type, depth).type = c.type /\ ValueCall(c.type, depth + 1).type = c.type
  BY <1>1, NextCall, ScopeTypes DEF ValueCall, Value
<1>4. \E calls \in Seq(Inner \cup Value) :
         Push(calls) /\ \A k \in DOMAIN calls : calls[k].type \in {x.type : x \in scope}
  <2>1. CASE Push(<<ValueCall(c.type, depth)>>)
    <3> DEFINE calls == <<ValueCall(c.type, depth)>>
    <3>1. calls \in Seq(Inner \cup Value) /\ \A k \in DOMAIN calls : calls[k].type = c.type
      BY <1>3
    <3> QED
      BY <2>1, <3>1
  <2>2. ASSUME NEW n \in 2 .. 4, Push([k \in 1 .. n |-> ValueCall(c.type, depth + 1)])
        PROVE  \E calls \in Seq(Inner \cup Value) :
                  Push(calls) /\ \A k \in DOMAIN calls : calls[k].type \in {x.type : x \in scope}
    <3> DEFINE calls == [k \in 1 .. n |-> ValueCall(c.type, depth + 1)]
    <3>1. calls \in Seq(Inner \cup Value) /\ \A k \in DOMAIN calls : calls[k].type = c.type
      BY <1>3
    <3> QED
      BY <2>2, <3>1
  <2> QED
    BY <1>2, <2>1, <2>2
<1>5. written' \subseteq scope /\ compared' \in Side \X Side
  BY <1>2 DEF generateComparison, WriteColumn, NothingCompared, Side
<1> QED
  BY <1>1, <1>4, <1>5 DEF InnerStep, generateComparison

\* A value is a constant, a column or an expression.
LEMMA ValueInner == GeneratorAssumption /\ TypeOK /\ generateTypeCompatibleValue => InnerStep
<1> SUFFICES ASSUME GeneratorAssumption, TypeOK, generateTypeCompatibleValue PROVE InnerStep
  OBVIOUS
<1>1. todo # <<>> /\ ~At("plain") /\ At("value")
  BY DEF generateTypeCompatibleValue, At
<1> DEFINE type == Head(todo).type
<1>2. type \in Side /\ Constant(type) \in Side /\ "expression" \in Side
  BY <1>1, NextCall DEF Constant, Side
<1>3. <<>> \in Seq(Inner) /\ <<Call("expr", Deeper(depth))>> \in Seq(Inner)
  BY <1>1, NextCall DEF Deeper, Call, Inner
<1>4. \E calls \in Seq(Inner) : Push(calls)
  BY <1>3 DEF generateTypeCompatibleValue
<1>5. Partners(type) \subseteq scope
  BY DEF Partners, ColumnsOfType
<1>6. written' \subseteq scope /\ compared' \in Side \X Side
  <2>1. CASE \E c \in Partners(type) : written' = {c} /\ compared' = <<type, c.type>>
    <3>1. PICK c \in scope : written' = {c} /\ compared' = <<type, c.type>>
      BY <1>5, <2>1
    <3>2. c.type \in Side
      BY ScopeTypes DEF Side
    <3> QED
      BY <1>2, <3>1, <3>2
  <2>2. CASE written' = {} /\ compared' \in {<<type, Constant(type)>>, <<type, "expression">>}
    BY <1>2, <2>2
  <2> QED
    BY <2>1, <2>2 DEF generateTypeCompatibleValue, WriteColumn
<1> QED
  BY <1>1, <1>4, <1>6, InnerCalls DEF InnerStep, generateTypeCompatibleValue

-----------------------------------------------------------------------------
(* The invariant.                                                          *)

\* What the outer query waits behind stays before it.
LEMMA OuterStaysLast ==
    ASSUME NEW S, NEW t \in Seq(S), t # <<>>, NEW calls \in Seq(S),
           \A k \in DOMAIN calls : calls[k].f \notin {"cte", "derived"},
           \A k \in DOMAIN t : t[k].f \in {"cte", "derived"} => k = Len(t)
    PROVE  \A k \in DOMAIN (calls \o Tail(t)) :
              (calls \o Tail(t))[k].f \in {"cte", "derived"} => k = Len(calls \o Tail(t))
<1> DEFINE u == calls \o Tail(t)
<1> SUFFICES ASSUME NEW k \in DOMAIN u, u[k].f \in {"cte", "derived"}
             PROVE  k = Len(u)
  OBVIOUS
<1>1. /\ u \in Seq(S)
      /\ Len(u) = Len(calls) + Len(t) - 1
      /\ \/ k \in DOMAIN calls /\ u[k] = calls[k]
         \/ /\ k - Len(calls) + 1 \in DOMAIN t
            /\ u[k] = t[k - Len(calls) + 1]
  BY CallsPushed
<1>2. Len(calls) \in Nat /\ Len(t) \in Nat /\ k \in Nat
  BY <1>1
<1> HIDE DEF u
<1>3. k - Len(calls) + 1 = Len(t)
  BY <1>1
<1> QED
  BY <1>1, <1>2, <1>3

\* Each call that waits has waited before or is new.
LEMMA WaitingPushed ==
    ASSUME NEW S, NEW t \in Seq(S), t # <<>>, NEW calls \in Seq(S), NEW fs,
           NEW k \in DOMAIN (calls \o Tail(t)), (calls \o Tail(t))[k].f \in fs
    PROVE  \/ \E j \in DOMAIN calls : calls[j] = (calls \o Tail(t))[k] /\ calls[j].f \in fs
           \/ \E j \in DOMAIN t : j # 1 /\ t[j] = (calls \o Tail(t))[k] /\ t[j].f \in fs
<1>1. \/ k \in DOMAIN calls /\ (calls \o Tail(t))[k] = calls[k]
      \/ /\ k - Len(calls) + 1 \in DOMAIN t
         /\ (calls \o Tail(t))[k] = t[k - Len(calls) + 1]
         /\ k - Len(calls) + 1 # 1
  BY CallsPushed
<1> QED
  BY <1>1

\* The tables that entries may have.
LEMMA SameClause ==
    ASSUME UNCHANGED input
    PROVE  tables' = tables /\ Entry' = Entry
BY DEF input, tables, Entry

\* The steps inside a clause.
LEMMA InnerKeeps == GeneratorInvariant /\ InnerStep => GeneratorInvariant'
<1> SUFFICES ASSUME GeneratorInvariant, InnerStep PROVE GeneratorInvariant'
  OBVIOUS
<1>1. TypeOK /\ todo # <<>> /\ ~At("plain") /\ todo \in Seq(Inner \cup Value \cup Outer)
  BY DEF GeneratorInvariant, InnerStep, TypeOK
<1>2. PICK calls \in Seq(Inner \cup Value) : todo' = calls \o Tail(todo)
  BY DEF InnerStep, Push
<1>3. /\ database' = database /\ config' = config /\ tableAliasSeq' = tableAliasSeq
      /\ from' = from /\ columns' = columns /\ tables' = tables /\ Entry' = Entry /\ scope' = scope
  BY SameClause DEF InnerStep, input, scope
<1>4. calls \in Seq(Inner \cup Value \cup Outer)
  OBVIOUS
<1>5. \A k \in DOMAIN calls :
         calls[k].f \notin {"plain", "from", "join", "selfJoin", "cte", "derived"}
  <2>1. \A k \in DOMAIN calls : calls[k] \in Inner \cup Value
    OBVIOUS
  <2> QED
    BY <2>1 DEF Inner, Value
<1>6. TypeOK'
  <2>1. todo' \in Seq(Inner \cup Value \cup Outer)
    BY <1>1, <1>2, <1>4, CallsPushed
  <2>2. written' \subseteq scope' /\ compared' \in Side \X Side
    BY <1>3 DEF InnerStep
  <2> QED
    BY <1>1, <1>3, <2>1, <2>2 DEF TypeOK
<1>7. OuterQueryLast'
  <2>1. \A k \in DOMAIN todo : todo[k].f \in {"cte", "derived"} => k = Len(todo)
    BY DEF GeneratorInvariant, OuterQueryLast, Waiting
  <2>2. \A k \in DOMAIN todo' : todo'[k].f \in {"cte", "derived"} => k = Len(todo')
    BY <1>1, <1>2, <1>4, <1>5, <2>1, OuterStaysLast
  <2> QED
    BY <2>2 DEF OuterQueryLast, Waiting
<1>8. TablesDiscovered'
  <2>1. ASSUME NEW k \in DOMAIN todo', todo'[k].f \in {"from", "join", "selfJoin"}
        PROVE  Waiting({"from", "join", "selfJoin"}) # {}
    BY <1>1, <1>2, <1>4, <1>5, <2>1, WaitingPushed DEF Waiting
  <2> QED
    BY <1>3, <2>1 DEF TablesDiscovered, Waiting, GeneratorInvariant
<1>9. AliasesUnique' /\ ScopeKnown'
  BY <1>3 DEF GeneratorInvariant, AliasesUnique, ScopeKnown, HasColumn
<1>10. AliasesUsed'
  BY <1>1, <1>3 DEF GeneratorInvariant, AliasesUsed
<1> QED
  BY <1>6, <1>7, <1>8, <1>9, <1>10 DEF GeneratorInvariant

\* A new entry of the FROM clause has a new alias, and its columns are in scope.
LEMMA TableAdded ==
    ASSUME GeneratorAssumption, GeneratorInvariant, NEW t \in DOMAIN tables, AddTable(t),
           UNCHANGED input, todo # <<>>, ~At("plain")
    PROVE  /\ tableAliasSeq' \in Nat
           /\ from' \in Seq(Entry')
           /\ columns' \in Seq(ScopeColumn)
           /\ AliasesUnique'
           /\ ScopeKnown'
           /\ \A k \in DOMAIN from' : from'[k].alias < tableAliasSeq'
           /\ (\A k \in DOMAIN from : from[k].table \in DOMAIN tables) =>
                 \A k \in DOMAIN from' : from'[k].table \in DOMAIN tables'
<1> DEFINE entry == [alias |-> tableAliasSeq, table |-> t]
           new == [k \in DOMAIN tables[t] |->
                      [alias |-> tableAliasSeq, name |-> tables[t][k].name,
                       type |-> tables[t][k].type, key |-> tables[t][k].key]]
<1>1. /\ tableAliasSeq' = tableAliasSeq + 1
      /\ from' = Append(from, entry)
      /\ columns' = columns \o new
  BY DEF AddTable
<1>2. tableAliasSeq \in Nat /\ from \in Seq(Entry) /\ columns \in Seq(ScopeColumn)
      /\ database \in Databases
  BY DEF GeneratorInvariant, TypeOK
<1>3. tables' = tables /\ Entry' = Entry
  BY SameClause
<1>4. tables[t] \in Seq(Column)
  BY <1>2 DEF GeneratorAssumption, tables
<1>5. \A k \in DOMAIN tables[t] : tables[t][k] \in Column
  BY <1>4
<1>6. DOMAIN tables[t] = 1 .. Len(tables[t]) /\ Len(tables[t]) \in Nat
  BY <1>4
<1>7. entry \in Entry
  BY <1>2 DEF Entry
<1>8. \A k \in DOMAIN tables[t] : new[k] \in ScopeColumn
  BY <1>2, <1>5 DEF ScopeColumn, Column
<1>9. new \in Seq(ScopeColumn)
  <2>1. new \in [1 .. Len(tables[t]) -> ScopeColumn]
    BY <1>6, <1>8
  <2> HIDE DEF new
  <2> QED
    BY <2>1, <1>6
<1>10. DOMAIN new = DOMAIN tables[t] /\ Len(new) = Len(tables[t])
  BY <1>6, <1>9
<1>11. \A k \in DOMAIN new : new[k].alias = tableAliasSeq /\ new[k].name = tables[t][k].name
  OBVIOUS
<1>12. entry.alias = tableAliasSeq /\ entry.table = t
  OBVIOUS
<1> HIDE DEF entry, new
<1>13. /\ from' \in Seq(Entry)
       /\ Len(from') = Len(from) + 1
       /\ \A k \in 1 .. Len(from) : from'[k] = from[k]
       /\ from'[Len(from) + 1] = entry
       /\ Len(from) \in Nat
       /\ DOMAIN from = 1 .. Len(from)
       /\ DOMAIN from' = 1 .. Len(from) + 1
  <2>1. Append(from, entry) \in Seq(Entry) /\ from \in Seq(Entry)
    BY <1>2, <1>7, AppendProperties
  <2> QED
    BY <1>1, <1>2, <1>7, <2>1, AppendProperties, LenProperties
<1>14. columns' \in Seq(ScopeColumn)
  BY <1>1, <1>2, <1>9, ConcatProperties
<1>15. \A k \in 1 .. Len(from) : from[k].alias < tableAliasSeq
  BY <1>13 DEF GeneratorInvariant, AliasesUsed
<1>16. \A k \in 1 .. Len(from) : from[k].alias \in Nat
  <2>1. \A k \in 1 .. Len(from) : from[k] \in Entry
    BY <1>2
  <2> QED
    BY <2>1 DEF Entry
<1>17. AliasesUnique'
  <2>1. ASSUME NEW k \in DOMAIN from', NEW l \in DOMAIN from', from'[k].alias = from'[l].alias
        PROVE  k = l
    <3>1. CASE k \in 1 .. Len(from) /\ l \in 1 .. Len(from)
      BY <2>1, <3>1, <1>13 DEF GeneratorInvariant, AliasesUnique
    <3>2. CASE k \in 1 .. Len(from) /\ l = Len(from) + 1
      BY <2>1, <3>2, <1>12, <1>13, <1>15, <1>16, <1>2
    <3>3. CASE l \in 1 .. Len(from) /\ k = Len(from) + 1
      BY <2>1, <3>3, <1>12, <1>13, <1>15, <1>16, <1>2
    <3> QED
      BY <3>1, <3>2, <3>3, <1>13
  <2> QED
    BY <2>1 DEF AliasesUnique
<1>18. ScopeKnown'
  <2> SUFFICES ASSUME NEW j \in DOMAIN columns'
               PROVE  \E k \in DOMAIN from' : HasColumn(from[k], columns[j])'
    BY DEF ScopeKnown, scope
  <2>1. /\ Len(columns) \in Nat /\ DOMAIN columns = 1 .. Len(columns)
        /\ Len(new) \in Nat /\ DOMAIN new = 1 .. Len(new)
        /\ DOMAIN columns' = 1 .. Len(columns) + Len(new)
        /\ columns'[j] = IF j <= Len(columns) THEN columns[j] ELSE new[j - Len(columns)]
    BY <1>1, <1>2, <1>9, <1>14, ConcatProperties, LenProperties
  <2>2. CASE j \in DOMAIN columns
    <3>1. PICK k \in DOMAIN from : HasColumn(from[k], columns[j])
      BY <2>2 DEF GeneratorInvariant, ScopeKnown, scope
    <3>2. k \in DOMAIN from' /\ from'[k] = from[k] /\ columns'[j] = columns[j]
      BY <1>13, <2>1, <2>2
    <3> QED
      BY <3>1, <3>2, <1>3 DEF HasColumn
  <2>3. CASE j \notin DOMAIN columns
    <3> DEFINE k == Len(from) + 1
               i == j - Len(columns)
    <3>1. i \in DOMAIN new /\ columns'[j] = new[i]
      BY <2>1, <2>3
    <3>2. k \in DOMAIN from' /\ from'[k] = entry
      BY <1>13
    <3>3. entry.alias = new[i].alias /\ entry.table \in DOMAIN tables
          /\ i \in DOMAIN tables[t] /\ tables[entry.table][i].name = new[i].name
      BY <1>10, <1>11, <1>12, <3>1
    <3> QED
      BY <1>3, <1>12, <3>1, <3>2, <3>3 DEF HasColumn
  <2> QED
    BY <2>2, <2>3
<1>19. \A k \in DOMAIN from' : from'[k].alias < tableAliasSeq'
  <2> SUFFICES ASSUME NEW k \in DOMAIN from' PROVE from'[k].alias < tableAliasSeq'
    OBVIOUS
  <2>1. CASE k \in 1 .. Len(from)
    BY <2>1, <1>1, <1>2, <1>13, <1>15, <1>16
  <2>2. CASE k = Len(from) + 1
    BY <2>2, <1>1, <1>2, <1>12, <1>13
  <2> QED
    BY <2>1, <2>2, <1>13
<1>20. (\A k \in DOMAIN from : from[k].table \in DOMAIN tables) =>
          \A k \in DOMAIN from' : from'[k].table \in DOMAIN tables'
  BY <1>3, <1>12, <1>13
<1> QED
  BY <1>1, <1>2, <1>3, <1>13, <1>14, <1>17, <1>18, <1>19, <1>20

\* Before the first query.
LEMMA GeneratorStarts == GeneratorAssumption /\ Init => GeneratorInvariant
<1> SUFFICES ASSUME GeneratorAssumption, Init PROVE GeneratorInvariant
  OBVIOUS
<1>1. DOMAIN todo = {} /\ DOMAIN from = {} /\ scope = {} /\ todo = <<>>
  BY DEF Init, scope
<1>2. TypeOK
  <2>1. todo \in Seq(Inner \cup Value \cup Outer) /\ from \in Seq(Entry)
        /\ columns \in Seq(ScopeColumn)
    BY DEF Init
  <2>2. compared \in Side \X Side
    BY DEF Init, NothingCompared, Side
  <2> QED
    BY <2>1, <2>2 DEF Init, TypeOK
<1> QED
  BY <1>1, <1>2 DEF GeneratorInvariant, OuterQueryLast, TablesDiscovered, AliasesUnique,
                    AliasesUsed, ScopeKnown, Waiting

\* What does not name a column keeps its types.
LEMMA SilentKeeps ==
    Silent => written' \subseteq scope' /\ compared' \in Side \X Side
<1>1. NothingCompared \in Side \X Side
  BY DEF NothingCompared, Side
<1> QED
  BY <1>1 DEF Silent

\* A new query.
LEMMA SelectKeeps == GeneratorAssumption /\ GeneratorInvariant /\ GenerateSelect => GeneratorInvariant'
<1> SUFFICES ASSUME GeneratorAssumption, GeneratorInvariant, GenerateSelect
             PROVE  GeneratorInvariant'
  OBVIOUS
<1>1. /\ database' = database /\ config' = config /\ tableAliasSeq' = 0
      /\ from' = from /\ columns' = columns /\ tables' = tables /\ Entry' = Entry /\ scope' = scope
  BY SameClause DEF GenerateSelect, input, scope
<1>2. /\ Call("plain", 0) \in Outer /\ Call("cte", 0) \in Outer /\ Call("derived", 0) \in Outer
      /\ Call("plain", 0).f = "plain" /\ Call("cte", 0).f = "cte" /\ Call("derived", 0).f = "derived"
  BY DEF Call, Outer
<1>3. PICK s \in {"plain", "union", "cte", "derived"} : todo' = Shape(s)
  BY DEF GenerateSelect
<1>4. \/ todo' = <<Call("plain", 0)>>
      \/ todo' = <<Call("plain", 0), Call("plain", 0)>>
      \/ todo' = <<Call("plain", 0), Call("cte", 0)>>
      \/ todo' = <<Call("plain", 0), Call("derived", 0)>>
  <2>1. config \in Config
    BY DEF GeneratorInvariant, TypeOK, GeneratorAssumption
  <2>2. config.union \in BOOLEAN /\ config.cte \in BOOLEAN /\ config.subquery \in BOOLEAN
    BY <2>1 DEF Config
  <2> QED
    BY <1>3, <2>2 DEF Shape
<1>5. /\ todo' \in Seq(Outer)
      /\ todo'[1].f = "plain"
      /\ \A k \in DOMAIN todo' : k # 1 => k = Len(todo')
      /\ \A k \in DOMAIN todo' : todo'[k].f \in {"plain", "cte", "derived"}
  <2>1. CASE todo' = <<Call("plain", 0)>>
    BY <1>2, <2>1
  <2>2. ASSUME NEW second \in Outer, second.f \in {"plain", "cte", "derived"},
               todo' = <<Call("plain", 0), second>>
        PROVE  /\ todo' \in Seq(Outer)
               /\ todo'[1].f = "plain"
               /\ \A k \in DOMAIN todo' : k # 1 => k = Len(todo')
               /\ \A k \in DOMAIN todo' : todo'[k].f \in {"plain", "cte", "derived"}
    BY <1>2, <2>2
  <2> QED
    BY <1>2, <1>4, <2>1, <2>2
<1>6. TypeOK'
  <2>1. todo' \in Seq(Inner \cup Value \cup Outer)
    BY <1>5
  <2>2. written' \subseteq scope' /\ compared' \in Side \X Side
    BY SilentKeeps DEF GenerateSelect
  <2> QED
    BY <1>1, <2>1, <2>2 DEF GeneratorInvariant, TypeOK
<1>7. OuterQueryLast' /\ TablesDiscovered'
  BY <1>5 DEF OuterQueryLast, TablesDiscovered, Waiting
<1>8. AliasesUnique' /\ ScopeKnown'
  BY <1>1 DEF GeneratorInvariant, AliasesUnique, ScopeKnown, HasColumn
<1>9. AliasesUsed'
  BY <1>5 DEF AliasesUsed, At
<1> QED
  BY <1>6, <1>7, <1>8, <1>9 DEF GeneratorInvariant

\* A SELECT without tables has no clauses.
LEMMA PlainCalls ==
    generatePlainSelect =>
        \E calls \in Seq(Inner \cup Outer) :
            Push(calls) /\ \A k \in DOMAIN calls : calls[k].f \notin {"cte", "derived"}
<1> SUFFICES ASSUME generatePlainSelect
             PROVE  \E calls \in Seq(Inner \cup Outer) :
                       Push(calls) /\ \A k \in DOMAIN calls : calls[k].f \notin {"cte", "derived"}
  OBVIOUS
<1> DEFINE calls == <<Call("from", 0), Call("selectList", 0), Call("where", 0),
                      Call("groupBy", 0), Call("orderBy", 0)>>
<1>1. /\ Call("from", 0) \in Inner \cup Outer /\ Call("selectList", 0) \in Inner \cup Outer
      /\ Call("where", 0) \in Inner \cup Outer /\ Call("groupBy", 0) \in Inner \cup Outer
      /\ Call("orderBy", 0) \in Inner \cup Outer
  BY DEF Call, Inner, Outer
<1>2. calls \in Seq(Inner \cup Outer) /\ <<>> \in Seq(Inner \cup Outer)
  BY <1>1
<1>3. \A k \in DOMAIN calls : calls[k].f \notin {"cte", "derived"}
  BY DEF Call
<1>4. Push(<<>>) \/ Push(calls)
  BY DEF generatePlainSelect
<1>5. DOMAIN <<>> = {}
  OBVIOUS
<1> HIDE DEF calls
<1> QED
  BY <1>2, <1>3, <1>4, <1>5

\* A plain SELECT begins with an empty FROM clause.
LEMMA PlainKeeps == GeneratorInvariant /\ generatePlainSelect => GeneratorInvariant'
<1> SUFFICES ASSUME GeneratorInvariant, generatePlainSelect PROVE GeneratorInvariant'
  OBVIOUS
<1>1. TypeOK /\ todo # <<>> /\ todo \in Seq(Inner \cup Value \cup Outer)
  BY DEF GeneratorInvariant, generatePlainSelect, At, TypeOK
<1>2. /\ database' = database /\ config' = config /\ tableAliasSeq' = tableAliasSeq
      /\ from' = <<>> /\ columns' = <<>> /\ scope' = {}
  BY DEF generatePlainSelect, input, scope
<1>3. PICK calls \in Seq(Inner \cup Outer) :
         /\ todo' = calls \o Tail(todo)
         /\ \A k \in DOMAIN calls : calls[k].f \notin {"cte", "derived"}
  BY PlainCalls DEF Push
<1>4. calls \in Seq(Inner \cup Value \cup Outer)
  OBVIOUS
<1>5. TypeOK'
  <2>1. todo' \in Seq(Inner \cup Value \cup Outer)
    BY <1>1, <1>3, <1>4, CallsPushed
  <2>2. written' \subseteq scope' /\ compared' \in Side \X Side
    BY SilentKeeps DEF generatePlainSelect
  <2> QED
    BY <1>1, <1>2, <2>1, <2>2 DEF TypeOK
<1>6. OuterQueryLast'
  <2>1. \A k \in DOMAIN todo : todo[k].f \in {"cte", "derived"} => k = Len(todo)
    BY DEF GeneratorInvariant, OuterQueryLast, Waiting
  <2>2. \A k \in DOMAIN todo' : todo'[k].f \in {"cte", "derived"} => k = Len(todo')
    BY <1>1, <1>3, <1>4, <2>1, OuterStaysLast
  <2> QED
    BY <2>2 DEF OuterQueryLast, Waiting
<1> QED
  BY <1>2, <1>5, <1>6 DEF GeneratorInvariant, TablesDiscovered, AliasesUnique, AliasesUsed, ScopeKnown

\* A step that adds a table of the schema, and further such steps before what waits.
LEMMA TableStepKeeps ==
    ASSUME GeneratorAssumption, GeneratorInvariant, todo # <<>>,
           At("from") \/ At("join") \/ At("selfJoin"),
           NEW t \in DOMAIN tables, AddTable(t), UNCHANGED input, Silent,
           NEW calls \in Seq(Inner \cup Outer), Push(calls),
           \A k \in DOMAIN calls : calls[k].f \in {"on", "join", "selfJoin"}
    PROVE  GeneratorInvariant'
<1>1. TypeOK /\ ~At("plain") /\ todo \in Seq(Inner \cup Value \cup Outer)
  BY DEF GeneratorInvariant, At, TypeOK
<1>2. database' = database /\ config' = config
  BY DEF input
<1>3. calls \in Seq(Inner \cup Value \cup Outer) /\ todo' = calls \o Tail(todo)
  BY DEF Push
<1>4. \A k \in DOMAIN from : from[k].table \in DOMAIN tables
  <2>1. 1 \in Waiting({"from", "join", "selfJoin"})
    BY <1>1, HeadFirst DEF Waiting, At
  <2> QED
    BY <2>1 DEF GeneratorInvariant, TablesDiscovered
<1>5. TypeOK'
  <2>1. todo' \in Seq(Inner \cup Value \cup Outer)
    BY <1>1, <1>3, CallsPushed
  <2>2. written' \subseteq scope' /\ compared' \in Side \X Side
    BY SilentKeeps
  <2> QED
    BY <1>1, <1>2, <2>1, <2>2, TableAdded DEF TypeOK
<1>6. OuterQueryLast'
  <2>1. \A k \in DOMAIN todo : todo[k].f \in {"cte", "derived"} => k = Len(todo)
    BY DEF GeneratorInvariant, OuterQueryLast, Waiting
  <2>2. \A k \in DOMAIN todo' : todo'[k].f \in {"cte", "derived"} => k = Len(todo')
    BY <1>1, <1>3, <2>1, OuterStaysLast
  <2> QED
    BY <2>2 DEF OuterQueryLast, Waiting
<1>7. TablesDiscovered'
  BY <1>1, <1>4, TableAdded DEF TablesDiscovered
<1>8. AliasesUnique' /\ AliasesUsed' /\ ScopeKnown'
  BY <1>1, TableAdded DEF AliasesUsed
<1> QED
  BY <1>5, <1>6, <1>7, <1>8 DEF GeneratorInvariant

\* A second table and a table again are joined by calls of their own.
LEMMA FromCalls ==
    generateFromClause =>
        \E calls \in Seq(Inner \cup Outer) :
            Push(calls) /\ \A k \in DOMAIN calls : calls[k].f \in {"on", "join", "selfJoin"}
<1> SUFFICES ASSUME generateFromClause
             PROVE  \E calls \in Seq(Inner \cup Outer) :
                       Push(calls) /\ \A k \in DOMAIN calls : calls[k].f \in {"on", "join", "selfJoin"}
  OBVIOUS
<1>1. PICK join \in {<<>>, <<Call("join", 0)>>}, selfJoin \in {<<>>, <<Call("selfJoin", 0)>>} :
         Push(join \o selfJoin)
  BY DEF generateFromClause, Perhaps
<1>2. Call("join", 0) \in Inner \cup Outer /\ Call("selfJoin", 0) \in Inner \cup Outer
      /\ Call("join", 0).f = "join" /\ Call("selfJoin", 0).f = "selfJoin"
  BY DEF Call, Outer
<1> DEFINE Joins == {Call("join", 0), Call("selfJoin", 0)}
<1>3. join \in Seq(Joins) /\ selfJoin \in Seq(Joins)
  <2>1. \A c \in Joins : <<c>> \in Seq(Joins)
    OBVIOUS
  <2>2. <<>> \in Seq(Joins) /\ Call("join", 0) \in Joins /\ Call("selfJoin", 0) \in Joins
    OBVIOUS
  <2> HIDE DEF Joins
  <2> QED
    BY <2>1, <2>2
<1>4. join \o selfJoin \in Seq(Inner \cup Outer)
      /\ \A k \in DOMAIN (join \o selfJoin) : (join \o selfJoin)[k].f \in {"on", "join", "selfJoin"}
  <2> DEFINE calls == join \o selfJoin
  <2>1. Joins \subseteq Inner \cup Outer /\ \A c \in Joins : c.f \in {"on", "join", "selfJoin"}
    BY <1>2
  <2> HIDE DEF Joins
  <2>2. calls \in Seq(Joins)
    BY <1>3, ConcatProperties
  <2> HIDE DEF calls
  <2>3. \A k \in DOMAIN calls : calls[k] \in Joins
    BY <2>2
  <2>4. calls \in Seq(Inner \cup Outer)
    BY <2>1, <2>2, SeqMonotonic
  <2>5. \A k \in DOMAIN calls : calls[k].f \in {"on", "join", "selfJoin"}
    BY <2>1, <2>3
  <2> QED
    BY <2>4, <2>5 DEF calls
<1> QED
  BY <1>1, <1>4

\* The first table.
LEMMA FromKeeps == GeneratorAssumption /\ GeneratorInvariant /\ generateFromClause => GeneratorInvariant'
<1> SUFFICES ASSUME GeneratorAssumption, GeneratorInvariant, generateFromClause
             PROVE  GeneratorInvariant'
  OBVIOUS
<1>1. PICK t \in DOMAIN tables : AddTable(t)
  BY DEF generateFromClause
<1>2. PICK calls \in Seq(Inner \cup Outer) :
         Push(calls) /\ \A k \in DOMAIN calls : calls[k].f \in {"on", "join", "selfJoin"}
  BY FromCalls
<1> QED
  BY <1>1, <1>2, TableStepKeeps DEF generateFromClause, At

\* The condition of a JOIN is one call.
LEMMA OnCall ==
    /\ <<>> \in Seq(Inner \cup Outer)
    /\ <<Call("on", 0)>> \in Seq(Inner \cup Outer)
    /\ \A k \in DOMAIN <<Call("on", 0)>> : <<Call("on", 0)>>[k].f \in {"on", "join", "selfJoin"}
<1>1. Call("on", 0) \in Inner /\ Call("on", 0).f = "on"
  BY DEF Call, Inner
<1> QED
  BY <1>1

\* The second table.
LEMMA JoinKeeps == GeneratorAssumption /\ GeneratorInvariant /\ Join => GeneratorInvariant'
<1> SUFFICES ASSUME GeneratorAssumption, GeneratorInvariant, Join PROVE GeneratorInvariant'
  OBVIOUS
<1>1. PICK t \in DOMAIN tables : AddTable(t)
  BY DEF Join
<1>2. PICK calls \in Seq(Inner \cup Outer) :
         Push(calls) /\ \A k \in DOMAIN calls : calls[k].f \in {"on", "join", "selfJoin"}
  <2>1. Push(<<>>) \/ Push(<<Call("on", 0)>>)
    BY DEF Join
  <2>2. \A k \in DOMAIN <<>> : <<>>[k].f \in {"on", "join", "selfJoin"}
    OBVIOUS
  <2> QED
    BY <2>1, <2>2, OnCall
<1> QED
  BY <1>1, <1>2, TableStepKeeps DEF Join, At

\* A table again.
LEMMA SelfJoinKeeps == GeneratorAssumption /\ GeneratorInvariant /\ SelfJoin => GeneratorInvariant'
<1> SUFFICES ASSUME GeneratorAssumption, GeneratorInvariant, SelfJoin PROVE GeneratorInvariant'
  OBVIOUS
<1>1. PICK k \in DOMAIN from : AddTable(from[k].table)
  BY DEF SelfJoin
<1>2. from[k].table \in DOMAIN tables
  <2>1. 1 \in Waiting({"from", "join", "selfJoin"})
    BY HeadFirst DEF Waiting, SelfJoin, At, GeneratorInvariant, TypeOK
  <2> QED
    BY <2>1 DEF GeneratorInvariant, TablesDiscovered
<1> QED
  BY <1>1, <1>2, OnCall, TableStepKeeps DEF SelfJoin, At

\* The outer query is the last step but for a condition: its only entry has no known columns.
LEMMA OuterQueryKeeps ==
    ASSUME GeneratorInvariant, At("cte") \/ At("derived"), UNCHANGED input, Silent,
           tableAliasSeq' = tableAliasSeq + 1, columns' = <<>>,
           NEW name \in {"cte0", "derived"},
           from' = <<[alias |-> tableAliasSeq, table |-> name]>>,
           NEW calls \in {<<>>, <<Call("bool", 0)>>}, Push(calls)
    PROVE  GeneratorInvariant'
<1>1. TypeOK /\ todo # <<>> /\ todo \in Seq(Inner \cup Value \cup Outer)
  BY DEF GeneratorInvariant, At, TypeOK
<1>2. database' = database /\ config' = config /\ scope' = {} /\ Entry' = Entry
  BY SameClause DEF input, scope
<1>3. Call("bool", 0) \in Inner /\ Call("bool", 0).f = "bool"
  BY DEF Call, Inner
<1>4. calls \in Seq(Inner) /\ \A k \in DOMAIN calls : calls[k].f = "bool"
  <2>1. CASE calls = <<>>
    BY <2>1
  <2>2. CASE calls = <<Call("bool", 0)>>
    BY <1>3, <2>2
  <2> QED
    BY <2>1, <2>2
<1>5. Len(todo) = 1
  <2>1. 1 \in Waiting({"cte", "derived"})
    BY <1>1, HeadFirst DEF Waiting, At
  <2> QED
    BY <2>1 DEF GeneratorInvariant, OuterQueryLast
<1>6. todo' = calls
  BY <1>1, <1>4, <1>5, SMTT(20) DEF Push
<1>7. TypeOK'
  <2>1. todo' \in Seq(Inner \cup Value \cup Outer)
    BY <1>4, <1>6
  <2>2. written' \subseteq scope' /\ compared' \in Side \X Side
    BY SilentKeeps
  <2>3. [alias |-> tableAliasSeq, table |-> name] \in Entry
    BY <1>1 DEF Entry, TypeOK
  <2>4. from' \in Seq(Entry') /\ tableAliasSeq' \in Nat /\ columns' \in Seq(ScopeColumn)
    BY <1>1, <1>2, <2>3 DEF TypeOK
  <2> QED
    BY <1>1, <1>2, <2>1, <2>2, <2>4 DEF TypeOK
<1>8. OuterQueryLast' /\ TablesDiscovered'
  BY <1>4, <1>6 DEF OuterQueryLast, TablesDiscovered, Waiting
<1>9. AliasesUnique' /\ AliasesUsed' /\ ScopeKnown'
  <2>1. tableAliasSeq \in Nat
    BY <1>1 DEF TypeOK
  <2> QED
    BY <1>2, <2>1 DEF AliasesUnique, AliasesUsed, ScopeKnown
<1> QED
  BY <1>7, <1>8, <1>9 DEF GeneratorInvariant

(* The inductive invariant: a query's columns are those of the entries of  *)
(* its FROM clause, each of which has an alias of its own.                 *)
THEOREM GeneratorInvariance == Spec => []GeneratorInvariant
<1> USE GeneratorAssumption
<1>1. Init => GeneratorInvariant
  BY GeneratorStarts
<1>2. GeneratorInvariant /\ [Next]_vars => GeneratorInvariant'
  <2> SUFFICES ASSUME GeneratorInvariant, [Next]_vars PROVE GeneratorInvariant'
    OBVIOUS
  <2>1. TypeOK
    BY DEF GeneratorInvariant
  <2>2. CASE GenerateSelect
    BY <2>2, SelectKeeps
  <2>3. CASE generatePlainSelect
    BY <2>3, PlainKeeps
  <2>4. CASE generateFromClause
    BY <2>4, FromKeeps
  <2>5. CASE Join
    BY <2>5, JoinKeeps
  <2>6. CASE SelfJoin
    BY <2>6, SelfJoinKeeps
  <2>7. CASE generateJoinOnClause
    BY <2>1, <2>7, JoinOnInner, InnerKeeps
  <2>8. CASE GenerateClause
    BY <2>1, <2>8, ClauseInner, InnerKeeps
  <2>9. CASE generateCTESelect
    BY <2>9, OuterQueryKeeps DEF generateCTESelect
  <2>10. CASE generateDerivedSelect
    BY <2>10, OuterQueryKeeps DEF generateDerivedSelect
  <2>11. CASE Branch
    BY <2>1, <2>11, BranchInner, InnerKeeps
  <2>12. CASE generateColumnRefExpr
    BY <2>1, <2>12, ColumnInner, InnerKeeps
  <2>13. CASE generateComparison
    BY <2>1, <2>13, ComparisonInner, InnerKeeps
  <2>14. CASE generateBetweenPredicate
    BY <2>1, <2>14, BetweenInner, InnerKeeps
  <2>15. CASE generateLikePredicate
    BY <2>1, <2>15, LikeInner, InnerKeeps
  <2>16. CASE generateTypeCompatibleValue
    BY <2>1, <2>16, ValueInner, InnerKeeps
  <2>18. CASE CompareAny
    BY <2>1, <2>18, AnyInner, InnerKeeps
  <2>17. CASE UNCHANGED vars
    BY <2>17 DEF vars, GeneratorInvariant, TypeOK, OuterQueryLast, TablesDiscovered, AliasesUnique,
                 AliasesUsed, ScopeKnown, Waiting, HasColumn, tables, scope, Entry, At
  <2> QED
    BY <2>2, <2>3, <2>4, <2>5, <2>6, <2>7, <2>8, <2>9, <2>10, <2>11, <2>12, <2>13, <2>14, <2>15,
       <2>16, <2>17, <2>18 DEF Next
<1> QED
  BY <1>1, <1>2, PTL DEF Spec

(* What is written names a column of exactly one entry of the FROM clause, *)
(* in every query over every schema.                                       *)
THEOREM ReferencesResolve == Spec => []RefsResolve
<1>1. GeneratorInvariant => RefsResolve
  <2> SUFFICES ASSUME GeneratorInvariant, NEW c \in written
               PROVE  \E k \in {l \in DOMAIN from : from[l].alias = c.alias} :
                         /\ {l \in DOMAIN from : from[l].alias = c.alias} = {k}
                         /\ HasColumn(from[k], c)
    BY DEF RefsResolve
  <2>1. PICK k \in DOMAIN from : HasColumn(from[k], c)
    BY DEF GeneratorInvariant, TypeOK, ScopeKnown
  <2>2. from[k].alias = c.alias
    BY <2>1 DEF HasColumn
  <2>3. {l \in DOMAIN from : from[l].alias = c.alias} = {k}
    BY <2>2 DEF GeneratorInvariant, AliasesUnique
  <2> QED
    BY <2>1, <2>2, <2>3
<1> QED
  BY <1>1, GeneratorInvariance, PTL

-----------------------------------------------------------------------------
(* Comparisons.                                                            *)

\* A known type and the constants it is compared with are of one category.
LEMMA ConstantCategory ==
    ASSUME NEW type \in KnownTypes
    PROVE  /\ Constant(type) # "none"
           /\ Category(type) # "none"
           /\ Category(Constant(type)) = Category(type)
           /\ Category(Bound(type)) = Category(type)
<1>1. CASE type \in IntTypes
  BY <1>1, ZenonT(60) DEF Constant, Category, Bound, IntTypes, FloatTypes, StringTypes, Timestamps
<1>2. CASE type \in FloatTypes
  BY <1>2, ZenonT(60) DEF Constant, Category, Bound, IntTypes, FloatTypes, StringTypes, Timestamps
<1>3. CASE type \in StringTypes
  BY <1>3, ZenonT(60) DEF Constant, Category, Bound, IntTypes, FloatTypes, StringTypes, Timestamps
<1>4. CASE type \in Timestamps
  BY <1>4, ZenonT(60) DEF Constant, Category, Bound, IntTypes, FloatTypes, StringTypes, Timestamps
<1>5. CASE type \in {"date", "time", "bit"}
  BY <1>5, ZenonT(60) DEF Constant, Category, Bound, IntTypes, FloatTypes, StringTypes, Timestamps
<1> QED
  BY <1>1, <1>2, <1>3, <1>4, <1>5 DEF KnownTypes

\* Numbers and strings.
LEMMA CategoryOf ==
    ASSUME NEW x
    PROVE  /\ x \in IntTypes \cup FloatTypes => Category(x) = "number"
           /\ x \in StringTypes \cup {"string"} => Category(x) = "string"
<1>1. ASSUME x \in IntTypes \cup FloatTypes PROVE Category(x) = "number"
  BY <1>1 DEF Category, IntTypes, FloatTypes, StringTypes, Timestamps
<1>2. ASSUME x \in StringTypes \cup {"string"} PROVE Category(x) = "string"
  BY <1>2 DEF Category, IntTypes, FloatTypes, StringTypes, Timestamps
<1> QED
  BY <1>1, <1>2

\* The columns a column of a known type may be compared with are of its category.
LEMMA PartnerCategory ==
    ASSUME NEW type \in KnownTypes, NEW c \in Partners(type)
    PROVE  Category(c.type) = Category(type)
<1>1. CASE type \in IntTypes
  <2>1. Partners(type) = ColumnsOfType("int")
    BY <1>1 DEF Partners, IntTypes, FloatTypes, StringTypes
  <2>2. typeMatch(c.type, "int")
    BY <2>1 DEF ColumnsOfType
  <2>3. c.type \in IntTypes
    BY <2>2 DEF typeMatch, OfCategory, IntTypes
  <2> QED
    BY <1>1, <2>3, CategoryOf
<1>2. CASE type \in FloatTypes
  <2>1. Partners(type) = ColumnsOfType("float")
    BY <1>2 DEF Partners, IntTypes, FloatTypes, StringTypes
  <2>2. typeMatch(c.type, "float")
    BY <2>1 DEF ColumnsOfType
  <2>3. c.type \in FloatTypes
    BY <2>2 DEF typeMatch, OfCategory, FloatTypes
  <2> QED
    BY <1>2, <2>3, CategoryOf
<1>3. CASE type \in StringTypes
  <2>1. Partners(type) = ColumnsOfType("string")
    BY <1>3 DEF Partners, IntTypes, FloatTypes, StringTypes
  <2>2. typeMatch(c.type, "string")
    BY <2>1 DEF ColumnsOfType
  <2>3. c.type \in StringTypes \cup {"string"}
    BY <2>2 DEF typeMatch, OfCategory, StringTypes
  <2> QED
    BY <1>3, <2>3, CategoryOf
<1>4. type \in IntTypes \cup FloatTypes \cup StringTypes
  BY DEF Partners
<1> QED
  BY <1>1, <1>2, <1>3, <1>4

-----------------------------------------------------------------------------
(* The order of the calls.                                                 *)

\* The stages of the functions that matter.
LEMMA Stages ==
    ASSUME NEW f
    PROVE  /\ Stage(f) \in 0 .. 5
           /\ Stage(f) = 1 => f = "selectList"
           /\ Stage(f) = 2 => f = "where"
           /\ f = "selectList" => Stage(f) = 1
           /\ f = "where" => Stage(f) = 2
           /\ f \in {"expr", "value"} => Stage(f) = 0
           /\ f \in {"plain", "cte", "derived"} => Stage(f) = 5
           /\ f \in {"from", "join", "selfJoin"} => Stage(f) = 0
BY DEF Stage

\* The calls of expressions and conditions are of the clause that waits.
LEMMA InnerStage ==
    ASSUME NEW call \in Inner \cup Value
    PROVE  Stage(call.f) = 0
BY DEF Stage, Inner, Value

\* What waits behind the next call still waits.
LEMMA TailWaits ==
    ASSUME NEW S, NEW t \in Seq(S), t # <<>>, NEW calls \in Seq(S), NEW j \in DOMAIN t, j # 1
    PROVE  \E k \in DOMAIN (calls \o Tail(t)) : (calls \o Tail(t))[k] = t[j]
<1> DEFINE u == calls \o Tail(t)
           k == Len(calls) + j - 1
<1>1. /\ u \in Seq(S) /\ Len(u) = Len(calls) + Len(t) - 1
      /\ \A l \in DOMAIN u : \/ l \in DOMAIN calls /\ u[l] = calls[l]
                             \/ /\ l - Len(calls) + 1 \in DOMAIN t
                                /\ u[l] = t[l - Len(calls) + 1]
                                /\ l - Len(calls) + 1 # 1
  BY CallsPushed
<1>2. /\ DOMAIN t = 1 .. Len(t) /\ DOMAIN u = 1 .. Len(u) /\ DOMAIN calls = 1 .. Len(calls)
      /\ Len(t) \in Nat /\ Len(calls) \in Nat
  BY <1>1, LenProperties
<1> HIDE DEF u
<1>3. k \in DOMAIN u /\ k \notin DOMAIN calls /\ k - Len(calls) + 1 = j
  BY <1>1, <1>2
<1>4. u[k] = t[j]
  BY <1>1, <1>3
<1> QED
  BY <1>3, <1>4 DEF u

\* Calls of the clause that is written keep the order.
LEMMA PushedInOrder ==
    ASSUME NEW S, NEW t \in Seq(S), t # <<>>, NEW calls \in Seq(S), InOrder(t), InOrder(calls),
           \A k \in DOMAIN calls, l \in DOMAIN t :
               l # 1 => Stage(calls[k].f) < Stage(t[l].f) \/ Stage(calls[k].f) = 0
    PROVE  InOrder(calls \o Tail(t))
<1> DEFINE u == calls \o Tail(t)
<1>1. /\ u \in Seq(S) /\ Len(u) = Len(calls) + Len(t) - 1
      /\ \A l \in DOMAIN u : \/ l \in DOMAIN calls /\ u[l] = calls[l]
                             \/ /\ l - Len(calls) + 1 \in DOMAIN t
                                /\ u[l] = t[l - Len(calls) + 1]
                                /\ l - Len(calls) + 1 # 1
  BY CallsPushed
<1>2. /\ DOMAIN t = 1 .. Len(t) /\ DOMAIN u = 1 .. Len(u) /\ DOMAIN calls = 1 .. Len(calls)
      /\ Len(t) \in Nat /\ Len(calls) \in Nat
  BY <1>1, LenProperties
<1> HIDE DEF u
<1> SUFFICES ASSUME NEW k \in DOMAIN u, NEW l \in DOMAIN u, k < l
             PROVE  \/ Stage(u[k].f) < Stage(u[l].f)
                    \/ Stage(u[k].f) = Stage(u[l].f) /\ Stage(u[k].f) \in {0, 5}
  BY DEF InOrder, u
<1>3. CASE k \in DOMAIN calls /\ u[k] = calls[k] /\ l \in DOMAIN calls /\ u[l] = calls[l]
  BY <1>3 DEF InOrder
<1>4. ASSUME k \in DOMAIN calls, u[k] = calls[k], NEW j \in DOMAIN t, j # 1, u[l] = t[j]
      PROVE  \/ Stage(u[k].f) < Stage(u[l].f)
             \/ Stage(u[k].f) = Stage(u[l].f) /\ Stage(u[k].f) \in {0, 5}
  <2>1. Stage(calls[k].f) < Stage(t[j].f) \/ Stage(calls[k].f) = 0
    BY <1>4
  <2>2. Stage(t[j].f) \in 0 .. 5
    BY Stages
  <2> QED
    BY <1>4, <2>1, <2>2
<1>5. ASSUME NEW i \in DOMAIN t, u[k] = t[i], NEW j \in DOMAIN t, u[l] = t[j], i < j
      PROVE  \/ Stage(u[k].f) < Stage(u[l].f)
             \/ Stage(u[k].f) = Stage(u[l].f) /\ Stage(u[k].f) \in {0, 5}
  BY <1>5 DEF InOrder
<1>6. \/ k \in DOMAIN calls /\ u[k] = calls[k]
      \/ k - Len(calls) + 1 \in DOMAIN t /\ u[k] = t[k - Len(calls) + 1] /\ k - Len(calls) + 1 # 1
  BY <1>1
<1>7. \/ l \in DOMAIN calls /\ u[l] = calls[l]
      \/ l - Len(calls) + 1 \in DOMAIN t /\ u[l] = t[l - Len(calls) + 1] /\ l - Len(calls) + 1 # 1
  BY <1>1
<1>8. CASE k \in DOMAIN calls /\ u[k] = calls[k]
  BY <1>3, <1>4, <1>7, <1>8
<1>9. CASE k - Len(calls) + 1 \in DOMAIN t /\ u[k] = t[k - Len(calls) + 1] /\ k - Len(calls) + 1 # 1
  <2>1. l \notin DOMAIN calls /\ k - Len(calls) + 1 < l - Len(calls) + 1
    BY <1>2, <1>9
  <2> QED
    BY <1>5, <1>7, <1>9, <2>1
<1> QED
  BY <1>6, <1>8, <1>9

\* A step that writes a clause, or a part of one.
ClauseStep(calls) ==
    /\ todo # <<>>
    /\ calls \in Seq(Inner \cup Value \cup Outer)
    /\ \A k \in DOMAIN calls : Stage(calls[k].f) = 0
    /\ todo' = calls \o Tail(todo)

\* What waits behind the next call in a step of a clause.
LEMMA BehindNext ==
    ASSUME TypeOK, NEW calls, ClauseStep(calls), NEW f, Stage(f) \in 1 .. 4
    PROVE  Waiting({f})' # {} <=> \E j \in DOMAIN todo : j # 1 /\ todo[j].f = f
<1>1. todo \in Seq(Inner \cup Value \cup Outer)
  BY DEF TypeOK
<1>2. ASSUME NEW k \in DOMAIN todo', todo'[k].f = f
      PROVE  \E j \in DOMAIN todo : j # 1 /\ todo[j].f = f
  <2>1. \/ \E j \in DOMAIN calls : calls[j] = todo'[k] /\ calls[j].f \in {f}
        \/ \E j \in DOMAIN todo : j # 1 /\ todo[j] = todo'[k] /\ todo[j].f \in {f}
    BY <1>1, <1>2, WaitingPushed DEF ClauseStep
  <2>2. ~ \E j \in DOMAIN calls : calls[j].f = f
    BY DEF ClauseStep
  <2> QED
    BY <2>1, <2>2
<1>3. ASSUME NEW j \in DOMAIN todo, j # 1, todo[j].f = f
      PROVE  Waiting({f})' # {}
  <2>1. PICK k \in DOMAIN (calls \o Tail(todo)) : (calls \o Tail(todo))[k] = todo[j]
    BY <1>1, <1>3, TailWaits DEF ClauseStep
  <2>2. k \in DOMAIN todo' /\ todo'[k].f = f
    BY <1>3, <2>1 DEF ClauseStep
  <2> QED
    BY <2>2 DEF Waiting
<1>4. Waiting({f})' # {} => \E k \in DOMAIN todo' : todo'[k].f = f
  BY DEF Waiting
<1> QED
  BY <1>2, <1>3, <1>4

\* The next call is in its order before those that wait.
LEMMA NextFirst ==
    ASSUME TypeOK, todo # <<>>, InOrder(todo), NEW j \in DOMAIN todo, j # 1
    PROVE  \/ Stage(Head(todo).f) < Stage(todo[j].f)
           \/ Stage(Head(todo).f) = Stage(todo[j].f) /\ Stage(Head(todo).f) \in {0, 5}
<1>1. todo \in Seq(Inner \cup Value \cup Outer) /\ 1 \in DOMAIN todo /\ Head(todo) = todo[1]
  BY HeadFirst DEF TypeOK
<1>2. 1 < j
  BY <1>1
<1> QED
  BY <1>1, <1>2 DEF InOrder

\* An expression or a condition stands where the calls it makes do.
LEMMA OutsideBefore ==
    ASSUME TypeOK, NEW calls, ClauseStep(calls), Head(todo).f \notin {"selectList", "where"},
           OutsideSelectList'
    PROVE  OutsideSelectList
<1>1. Stage("selectList") = 1 /\ Stage("where") = 2
  BY DEF Stage
<1>2. Waiting({"selectList"})' # {} => Waiting({"selectList"}) # {}
  BY <1>1, BehindNext DEF Waiting
<1>3. Waiting({"where"})' = {} => Waiting({"where"}) = {}
  <2>1. todo \in Seq(Inner \cup Value \cup Outer) /\ 1 \in DOMAIN todo /\ Head(todo) = todo[1]
    BY HeadFirst DEF TypeOK, ClauseStep
  <2> QED
    BY <1>1, <2>1, BehindNext DEF Waiting
<1> QED
  BY <1>2, <1>3 DEF OutsideSelectList

\* Steps that write a clause keep the order, and expressions out of conditions.
LEMMA ClauseCompares ==
    ASSUME TypeOK, ComparisonInvariant, NEW calls, ClauseStep(calls), ScopeTyped' => ScopeTyped,
           /\ Head(todo).f # "selectList"
           /\ ScopeTyped'
           /\ Head(todo).f = "where" \/ OutsideSelectList
           => Typed(calls)
    PROVE  ComparisonInvariant'
<1>1. todo \in Seq(Inner \cup Value \cup Outer) /\ 1 \in DOMAIN todo /\ Head(todo) = todo[1]
      /\ todo # <<>> /\ calls \in Seq(Inner \cup Value \cup Outer)
  BY HeadFirst DEF TypeOK, ClauseStep
<1>2. Stage("selectList") = 1 /\ Stage("where") = 2
  BY DEF Stage
<1>3. InOrder(todo) /\ WhereFollows /\ ConditionsTyped
  BY DEF ComparisonInvariant
<1>4. InOrder(todo')
  <2>1. InOrder(calls)
    BY DEF InOrder, ClauseStep
  <2>2. InOrder(calls \o Tail(todo))
    BY <1>1, <1>3, <2>1, PushedInOrder DEF ClauseStep
  <2> QED
    BY <2>2 DEF ClauseStep
<1>5. ASSUME Waiting({"selectList"}) # {}
      PROVE  Waiting({"where"})' # {}
  <2>1. PICK j \in DOMAIN todo : todo[j].f = "selectList"
    BY <1>5 DEF Waiting
  <2>2. PICK m \in DOMAIN todo : todo[m].f = "where"
    BY <1>3, <1>5 DEF Waiting, WhereFollows
  <2>3. m # 1
    <3>1. ASSUME m = 1 PROVE FALSE
      <4>1. j # 1 /\ Head(todo).f = "where"
        BY <1>1, <2>1, <2>2, <3>1
      <4> QED
        BY <1>1, <1>2, <1>3, <2>1, <4>1, NextFirst
    <3> QED
      BY <3>1
  <2> QED
    BY <1>2, <2>2, <2>3, BehindNext
<1>6. WhereFollows'
  <2>1. Waiting({"selectList"})' # {} => Waiting({"selectList"}) # {}
    BY <1>2, BehindNext DEF Waiting
  <2> QED
    BY <1>5, <2>1 DEF WhereFollows
<1>7. ASSUME OutsideSelectList', ScopeTyped'
      PROVE  Typed(todo')
  <2>1. Head(todo).f # "selectList"
    <3>1. ASSUME Head(todo).f = "selectList" PROVE FALSE
      <4>1. Waiting({"where"})' # {}
        BY <1>1, <1>5, <3>1 DEF Waiting
      <4>2. PICK j \in DOMAIN todo : j # 1 /\ todo[j].f = "selectList"
        BY <1>2, <1>7, <4>1, BehindNext DEF OutsideSelectList
      <4> QED
        BY <1>1, <1>2, <1>3, <3>1, <4>2, NextFirst
    <3> QED
      BY <3>1
  <2>2. Head(todo).f # "where" => OutsideSelectList
    BY <1>7, <2>1, OutsideBefore
  <2>3. Typed(calls)
    BY <1>7, <2>1, <2>2
  <2>4. ASSUME NEW j \in DOMAIN todo, j # 1
        PROVE  todo[j].f # "expr" /\ (todo[j].f = "value" => todo[j].type \in KnownTypes)
    <3>1. CASE Head(todo).f = "where"
      <4>1. Stage(todo[j].f) # 0
        <5>1. \/ Stage(Head(todo).f) < Stage(todo[j].f)
              \/ Stage(Head(todo).f) = Stage(todo[j].f) /\ Stage(Head(todo).f) \in {0, 5}
          BY <1>1, <1>3, <2>4, NextFirst
        <5> QED
          BY <1>2, <3>1, <5>1
      <4> QED
        BY <4>1, Stages
    <3>2. CASE OutsideSelectList
      <4>1. Typed(todo)
        BY <1>3, <1>7, <3>2 DEF ConditionsTyped
      <4> QED
        BY <4>1 DEF Typed
    <3> QED
      BY <2>2, <3>1, <3>2
  <2>5. ASSUME NEW k \in DOMAIN todo'
        PROVE  todo'[k].f # "expr" /\ (todo'[k].f = "value" => todo'[k].type \in KnownTypes)
    <3>1. \/ k \in DOMAIN calls /\ todo'[k] = calls[k]
          \/ \E j \in DOMAIN todo : j # 1 /\ todo'[k] = todo[j]
      BY <1>1, <2>5, CallsPushed DEF ClauseStep
    <3>2. CASE k \in DOMAIN calls /\ todo'[k] = calls[k]
      BY <2>3, <3>2 DEF Typed
    <3>3. CASE \E j \in DOMAIN todo : j # 1 /\ todo'[k] = todo[j]
      BY <2>4, <3>3
    <3> QED
      BY <3>1, <3>2, <3>3
  <2> QED
    BY <2>5 DEF Typed
<1>8. ConditionsTyped'
  BY <1>7 DEF ConditionsTyped, Typed
<1> QED
  BY <1>4, <1>6, <1>8 DEF ComparisonInvariant, InOrder

\* Steps that begin a query, when only queries wait behind it.
LEMMA QueryCompares ==
    ASSUME TypeOK, ComparisonInvariant, todo # <<>>, Head(todo).f \in {"plain", "cte", "derived"},
           NEW calls \in Seq(Inner \cup Value \cup Outer), todo' = calls \o Tail(todo),
           InOrder(calls), \A k \in DOMAIN calls : Stage(calls[k].f) < 5,
           \A k \in DOMAIN calls : calls[k].f \notin {"expr", "value"},
           (\E k \in DOMAIN calls : calls[k].f = "selectList")
              => \E k \in DOMAIN calls : calls[k].f = "where"
    PROVE  ComparisonInvariant'
<1>1. todo \in Seq(Inner \cup Value \cup Outer)
  BY DEF TypeOK
<1>2. InOrder(todo)
  BY DEF ComparisonInvariant
<1>3. Stage(Head(todo).f) = 5
  BY Stages
<1>4. ASSUME NEW j \in DOMAIN todo, j # 1 PROVE Stage(todo[j].f) = 5
  <2>1. Stage(todo[j].f) \in 0 .. 5
    BY Stages
  <2> QED
    BY <1>2, <1>3, <1>4, <2>1, NextFirst
<1>5. InOrder(todo')
  <2>1. InOrder(calls \o Tail(todo))
    BY <1>1, <1>2, <1>4, PushedInOrder
  <2> QED
    BY <2>1
<1>6. ASSUME NEW k \in DOMAIN todo'
      PROVE  \/ k \in DOMAIN calls /\ todo'[k] = calls[k]
             \/ Stage(todo'[k].f) = 5
  BY <1>1, <1>4, <1>6, CallsPushed
<1>7. WhereFollows'
  <2>1. ASSUME NEW k \in DOMAIN todo', todo'[k].f = "selectList"
        PROVE  \E l \in DOMAIN todo' : todo'[l].f = "where"
    <3>1. Stage(todo'[k].f) = 1
      BY <2>1, Stages
    <3>2. k \in DOMAIN calls /\ calls[k].f = "selectList"
      BY <1>6, <2>1, <3>1
    <3>3. PICK l \in DOMAIN calls : calls[l].f = "where"
      BY <3>2
    <3>4. l \in DOMAIN todo' /\ todo'[l] = calls[l]
      <4>1. Tail(todo) \in Seq(Inner \cup Value \cup Outer)
        BY <1>1, HeadTailProperties
      <4>2. /\ DOMAIN calls = 1 .. Len(calls) /\ Len(calls) \in Nat /\ Len(Tail(todo)) \in Nat
            /\ DOMAIN todo' = 1 .. Len(calls) + Len(Tail(todo))
            /\ todo'[l] = IF l <= Len(calls) THEN calls[l] ELSE Tail(todo)[l - Len(calls)]
        BY <4>1, ConcatProperties, LenProperties
      <4> QED
        BY <4>2
    <3> QED
      BY <3>3, <3>4
  <2> QED
    BY <2>1 DEF WhereFollows, Waiting
<1>8. Typed(todo')
  <2>1. ASSUME NEW k \in DOMAIN todo' PROVE todo'[k].f \notin {"expr", "value"}
    BY <1>6, Stages
  <2> QED
    BY <2>1 DEF Typed
<1> QED
  BY <1>5, <1>7, <1>8 DEF ComparisonInvariant, ConditionsTyped, InOrder, Typed

-----------------------------------------------------------------------------
(* What each step calls and compares.                                      *)

\* What the sides of a comparison have to be.
Sound(sides) ==
    /\ sides[1] \in KnownTypes => Category(sides[1]) = Category(sides[2])
    /\ OutsideSelectList' /\ ScopeTyped' /\ sides # NothingCompared => sides[1] \in KnownTypes

\* Nothing is no type.
LEMMA NothingSound == Sound(NothingCompared)
BY DEF Sound, NothingCompared, KnownTypes, IntTypes, FloatTypes, StringTypes, Timestamps

\* No expression and no value at all.
LEMMA NoExpression ==
    ASSUME NEW calls, \A k \in DOMAIN calls : calls[k].f \notin {"expr", "value"}
    PROVE  Typed(calls)
BY DEF Typed

\* A step inside a clause that has checked its calls and its comparison.
LEMMA StepCompares ==
    ASSUME TypeOK, ComparisonInvariant, todo # <<>>, UNCHANGED columns,
           NEW calls \in Seq(Inner \cup Value), Push(calls),
           /\ Head(todo).f # "selectList"
           /\ ScopeTyped
           /\ Head(todo).f = "where" \/ OutsideSelectList
           => Typed(calls),
           Sound(compared')
    PROVE  ComparisonInvariant' /\ TypesComparable'
<1>1. \A k \in DOMAIN calls : calls[k] \in Inner \cup Value
  OBVIOUS
<1>2. ClauseStep(calls)
  <2>1. calls \in Seq(Inner \cup Value \cup Outer)
    OBVIOUS
  <2> QED
    BY <1>1, <2>1, InnerStage DEF ClauseStep, Push
<1>3. ScopeTyped' <=> ScopeTyped
  BY DEF ScopeTyped, scope
<1>4. ComparisonInvariant'
  BY <1>2, <1>3, ClauseCompares
<1>5. TypesComparable'
  BY DEF TypesComparable, Sound
<1> QED
  BY <1>4, <1>5

\* Conditions are written by calls of known types.
LEMMA ConditionCalls ==
    ASSUME TypeOK, ComparisonInvariant, todo # <<>>, OutsideSelectList, ScopeTyped
    PROVE  /\ ~At("expr")
           /\ At("value") => Head(todo).type \in KnownTypes
<1>1. 1 \in DOMAIN todo /\ Head(todo) = todo[1]
  BY HeadFirst DEF TypeOK
<1> QED
  BY <1>1 DEF ComparisonInvariant, ConditionsTyped, Typed, At

\* A type that matches a known one is of its category.
LEMMA MatchCategory ==
    ASSUME NEW actual, NEW type \in KnownTypes, typeMatch(actual, type)
    PROVE  Category(actual) = Category(type)
<1>1. CASE actual = type
  BY <1>1
<1>2. CASE actual \in OfCategory(type)
  <2>1. CASE type = "int"
    <3>1. actual \in IntTypes /\ type \in IntTypes
      BY <1>2, <2>1 DEF OfCategory, IntTypes
    <3> QED
      BY <3>1, CategoryOf
  <2>2. CASE type = "float"
    <3>1. actual \in FloatTypes /\ type \in FloatTypes
      BY <1>2, <2>2 DEF OfCategory, FloatTypes
    <3> QED
      BY <3>1, CategoryOf
  <2>3. type \notin {"string", "bool"}
    BY DEF KnownTypes, IntTypes, FloatTypes, StringTypes, Timestamps
  <2> QED
    BY <1>2, <2>1, <2>2, <2>3 DEF OfCategory
<1> QED
  BY <1>1, <1>2 DEF typeMatch

\* Keys are compared when their types match.
LEMMA JoinOnCompares ==
    TypeOK /\ ComparisonInvariant /\ generateJoinOnClause => ComparisonInvariant' /\ TypesComparable'
<1> SUFFICES ASSUME TypeOK, ComparisonInvariant, generateJoinOnClause
             PROVE  ComparisonInvariant' /\ TypesComparable'
  OBVIOUS
<1>1. todo # <<>> /\ UNCHANGED columns
  BY DEF generateJoinOnClause, At
<1>2. PICK calls \in {<<>>, <<Call("bool", 0)>>} : Push(calls)
  BY DEF generateJoinOnClause
<1>3. calls \in Seq(Inner \cup Value) /\ Typed(calls)
  <2>1. Call("bool", 0) \in Inner \cup Value /\ Call("bool", 0).f = "bool"
    BY DEF Call, Inner
  <2>2. CASE calls = <<>>
    BY <2>2 DEF Typed
  <2>3. CASE calls = <<Call("bool", 0)>>
    BY <2>1, <2>3 DEF Typed
  <2> QED
    BY <2>2, <2>3
<1>4. Sound(compared')
  <2>1. CASE Silent
    BY <2>1, NothingSound DEF Silent
  <2>2. ASSUME NEW p \in KeyPairs, compared' = <<columns[p[1]].type, columns[p[2]].type>>
        PROVE  Sound(compared')
    <3>1. /\ p[1] \in DOMAIN columns /\ p[2] \in DOMAIN columns
          /\ typeMatch(columns[p[2]].type, columns[p[1]].type)
      BY DEF KeyPairs
    <3>2. columns[p[1]].type \in KnownTypes
             => Category(columns[p[2]].type) = Category(columns[p[1]].type)
      BY <3>1, MatchCategory
    <3>3. ScopeTyped' => columns[p[1]].type \in KnownTypes
      BY <1>1, <3>1 DEF ScopeTyped, scope
    <3> QED
      BY <2>2, <3>2, <3>3 DEF Sound
  <2> QED
    BY <2>1, <2>2 DEF generateJoinOnClause
<1> QED
  BY <1>1, <1>2, <1>3, <1>4, StepCompares

\* The clauses but for the select list call no expression.
LEMMA ClauseCalls ==
    ASSUME TypeOK, GeneratorAssumption, NEW f \in {"where", "groupBy", "orderBy"},
           NEW calls \in Clause(f)
    PROVE  \A k \in DOMAIN calls : calls[k].f \notin {"expr", "value"}
<1>1. config.groupBy \in BOOLEAN /\ config.orderBy \in BOOLEAN
  BY DEF GeneratorAssumption, TypeOK, Config
<1>2. \A n \in UpTo(3) \cup UpTo(2) : n \in Nat
  BY DEF UpTo
<1> DEFINE C == {Call("column", 0), Call("bool", 0), Call("whereExpr", 0)}
<1>3. \A c \in C : c.f \notin {"expr", "value"}
  BY DEF Call
<1>4. <<>> \in Seq(C) /\ <<Call("bool", 0)>> \in Seq(C) /\ <<Call("whereExpr", 0)>> \in Seq(C)
  <2>1. Call("bool", 0) \in C /\ Call("whereExpr", 0) \in C
    OBVIOUS
  <2> HIDE DEF C
  <2> QED
    BY <2>1
<1>5. \A n \in UpTo(3) \cup UpTo(2) : Calls(n, "column", 0) \in Seq(C)
  <2>1. Call("column", 0) \in C
    OBVIOUS
  <2> HIDE DEF C
  <2> QED
    BY <1>2, <2>1 DEF Calls
<1> HIDE DEF C
<1>6. calls \in Seq(C)
  <2>1. CASE f = "where"
    <3>1. calls \in {<<>>, <<Call("whereExpr", 0)>>}
      BY <2>1, <1>1 DEF Clause, Perhaps
    <3> QED
      BY <1>4, <3>1
  <2>2. CASE f = "groupBy"
    <3>1. \/ calls = <<>>
          \/ \E keys \in generateGroupByClause, having \in {<<>>, <<Call("bool", 0)>>} :
                calls = keys \o having
      BY <2>2, <1>1 DEF Clause
    <3>2. \A keys \in generateGroupByClause : keys \in Seq(C)
      BY <1>5 DEF generateGroupByClause
    <3>3. ASSUME NEW keys \in Seq(C), NEW having \in Seq(C) PROVE keys \o having \in Seq(C)
      BY ConcatProperties
    <3>4. ASSUME NEW keys \in generateGroupByClause, NEW having \in {<<>>, <<Call("bool", 0)>>}
          PROVE  keys \o having \in Seq(C)
      <4>1. keys \in Seq(C) /\ having \in Seq(C)
        BY <1>4, <3>2
      <4> QED
        BY <3>3, <4>1
    <3> QED
      BY <1>4, <3>1, <3>4
  <2>3. CASE f = "orderBy"
    <3>1. calls = <<>> \/ calls \in generateOrderByClause
      BY <2>3, <1>1 DEF Clause
    <3> QED
      BY <1>4, <1>5, <3>1 DEF generateOrderByClause
  <2> QED
    BY <2>1, <2>2, <2>3
<1>7. \A k \in DOMAIN calls : calls[k] \in C
  BY <1>6
<1> QED
  BY <1>3, <1>7

\* Only the select list is written by expressions.
LEMMA ClauseKeepsTyped ==
    GeneratorAssumption /\ TypeOK /\ ComparisonInvariant /\ GenerateClause
        => ComparisonInvariant' /\ TypesComparable'
<1> SUFFICES ASSUME GeneratorAssumption, TypeOK, ComparisonInvariant, GenerateClause
             PROVE  ComparisonInvariant' /\ TypesComparable'
  OBVIOUS
<1>1. todo # <<>> /\ UNCHANGED columns /\ Silent
      /\ Head(todo).f \in {"selectList", "where", "groupBy", "orderBy"}
  BY DEF GenerateClause
<1>2. PICK calls \in Clause(Head(todo).f) : Push(calls)
  BY DEF GenerateClause
<1>3. calls \in Seq(Inner)
  BY <1>1, ClausesInner
<1>4. Head(todo).f # "selectList" => Typed(calls)
  BY <1>1, ClauseCalls, NoExpression
<1>5. Sound(compared')
  BY <1>1, NothingSound DEF Silent
<1> QED
  BY <1>1, <1>2, <1>3, <1>4, <1>5, InnerCalls, StepCompares

\* Conditions call no expression.
LEMMA BranchCalls ==
    ASSUME GeneratorAssumption, NEW d \in Nat, NEW f \in {"leaf", "bool", "whereExpr", "boolLeaf"},
           NEW calls \in Branches(f, d)
    PROVE  \A k \in DOMAIN calls : calls[k].f \notin {"expr", "value"}
<1> DEFINE Fs == {"bool", "boolLeaf", "column", "isNull", "comparison", "in", "between", "like"}
<1>1. \A g \in Fs : \A e : Call(g, e).f = g
  BY DEF Call
<1>2. ASSUME NEW g \in Fs, NEW e
      PROVE  \A k \in DOMAIN <<Call(g, e)>> : <<Call(g, e)>>[k].f \notin {"expr", "value"}
  BY <1>1
<1>3. \A k \in DOMAIN Calls(2, "bool", d + 1) : Calls(2, "bool", d + 1)[k].f \notin {"expr", "value"}
  BY DEF Calls, Call
<1>4. \/ calls = <<>>
      \/ calls = Calls(2, "bool", d + 1)
      \/ \E g \in Fs, e \in {d, MaxDepth} : calls = <<Call(g, e)>>
  <2>1. CASE f = "leaf"
    BY <2>1 DEF Branches, generateLeaf, Perhaps
  <2>2. CASE f = "boolLeaf"
    BY <2>2 DEF Branches, generateBoolLeaf, Perhaps
  <2>3. CASE f = "bool"
    <3>1. \/ calls = <<Call("boolLeaf", d)>>
          \/ calls \in {<<Call(g, d)>> : g \in {"comparison", "isNull", "between", "like", "boolLeaf"}}
          \/ calls = Calls(2, "bool", d + 1)
      BY <2>3 DEF Branches, generateBoolExpr, generateBoolBinaryOp
    <3> QED
      BY <3>1
  <2>4. CASE f = "whereExpr"
    <3>1. \/ calls = <<Call("boolLeaf", d)>>
          \/ calls \in {<<Call(g, d)>> : g \in {"comparison", "isNull", "between", "like", "in"}}
          \/ calls = Calls(2, "bool", d + 1)
      BY <2>4 DEF Branches, generateWhereExpr, generateBoolBinaryOp
    <3> QED
      BY <3>1
  <2> QED
    BY <2>1, <2>2, <2>3, <2>4
<1>5. CASE calls = <<>>
  BY <1>5
<1>6. CASE calls = Calls(2, "bool", d + 1)
  BY <1>3, <1>6
<1>7. CASE \E g \in Fs, e \in {d, MaxDepth} : calls = <<Call(g, e)>>
  BY <1>2, <1>7
<1> QED
  BY <1>4, <1>5, <1>6, <1>7

\* Expressions call expressions, conditions do not.
LEMMA BranchCompares ==
    GeneratorAssumption /\ TypeOK /\ ComparisonInvariant /\ Branch
        => ComparisonInvariant' /\ TypesComparable'
<1> SUFFICES ASSUME GeneratorAssumption, TypeOK, ComparisonInvariant, Branch
             PROVE  ComparisonInvariant' /\ TypesComparable'
  OBVIOUS
<1>1. todo # <<>> /\ UNCHANGED columns /\ Silent
      /\ Head(todo).f \in {"expr", "leaf", "bool", "whereExpr", "boolLeaf"}
  BY DEF Branch
<1>2. PICK calls \in Branches(Head(todo).f, depth) : Push(calls)
  BY DEF Branch
<1>3. depth \in Nat
  BY <1>1, NextCall
<1>4. calls \in Seq(Inner)
  BY <1>1, <1>2, <1>3, BranchesInner
<1>5. ScopeTyped /\ OutsideSelectList => Typed(calls)
  <2> SUFFICES ASSUME ScopeTyped, OutsideSelectList PROVE Typed(calls)
    OBVIOUS
  <2>1. Head(todo).f # "expr"
    BY <1>1, ConditionCalls DEF At
  <2> QED
    BY <1>1, <1>2, <1>3, <2>1, BranchCalls, NoExpression
<1>6. Sound(compared')
  BY <1>1, NothingSound DEF Silent
<1> QED
  BY <1>1, <1>2, <1>4, <1>5, <1>6, InnerCalls, StepCompares

\* The comparisons of any two expressions stand in the select list.
LEMMA AnyCompares ==
    TypeOK /\ ComparisonInvariant /\ CompareAny => ComparisonInvariant' /\ TypesComparable'
<1> SUFFICES ASSUME TypeOK, ComparisonInvariant, CompareAny
             PROVE  ComparisonInvariant' /\ TypesComparable'
  OBVIOUS
<1>1. todo # <<>> /\ UNCHANGED columns /\ At("expr") /\ Head(todo).f = "expr"
      /\ compared' = <<"any", "any">>
  BY DEF CompareAny, At
<1>2. PICK calls \in Seq(Inner \cup Value) : Push(calls)
  BY AnyInner DEF InnerStep
<1>3. ~(ScopeTyped /\ OutsideSelectList)
  BY <1>1, ConditionCalls
<1>4. ~(ScopeTyped' /\ OutsideSelectList')
  <2>1. ScopeTyped' <=> ScopeTyped
    BY <1>1 DEF ScopeTyped, scope
  <2>2. ClauseStep(calls)
    <3>1. calls \in Seq(Inner \cup Value \cup Outer) /\ \A k \in DOMAIN calls : calls[k] \in Inner \cup Value
      OBVIOUS
    <3> QED
      BY <1>1, <1>2, <3>1, InnerStage DEF ClauseStep, Push
  <2>3. OutsideSelectList' => OutsideSelectList
    BY <1>1, <2>2, OutsideBefore
  <2> QED
    BY <1>3, <2>1, <2>3
<1>5. Sound(compared')
  <2>1. "any" \notin KnownTypes
    BY DEF KnownTypes, IntTypes, FloatTypes, StringTypes, Timestamps
  <2> QED
    BY <1>1, <1>4, <2>1 DEF Sound
<1> QED
  BY <1>1, <1>2, <1>3, <1>5, StepCompares

\* A column by itself is compared with nothing.
LEMMA ColumnCompares ==
    TypeOK /\ ComparisonInvariant /\ generateColumnRefExpr => ComparisonInvariant' /\ TypesComparable'
<1> SUFFICES ASSUME TypeOK, ComparisonInvariant, generateColumnRefExpr
             PROVE  ComparisonInvariant' /\ TypesComparable'
  OBVIOUS
<1>1. todo # <<>> /\ UNCHANGED columns /\ Push(<<>>) /\ compared' = NothingCompared
  BY DEF generateColumnRefExpr, At
<1>2. <<>> \in Seq(Inner \cup Value) /\ Typed(<<>>)
  BY DEF Typed
<1> QED
  BY <1>1, <1>2, NothingSound, StepCompares

\* The values a column is compared with have its type.
LEMMA ComparisonCompares ==
    TypeOK /\ ComparisonInvariant /\ generateComparison => ComparisonInvariant' /\ TypesComparable'
<1> SUFFICES ASSUME TypeOK, ComparisonInvariant, generateComparison
             PROVE  ComparisonInvariant' /\ TypesComparable'
  OBVIOUS
<1>1. todo # <<>> /\ UNCHANGED columns /\ compared' = NothingCompared
  BY DEF generateComparison, At
<1>2. InnerStep
  BY ComparisonInner
<1>3. PICK c \in scope :
         \/ Push(<<ValueCall(c.type, depth)>>)
         \/ \E n \in 2 .. 4 : Push([k \in 1 .. n |-> ValueCall(c.type, depth + 1)])
  BY DEF generateComparison
<1>4. /\ ValueCall(c.type, depth) \in Value /\ ValueCall(c.type, depth + 1) \in Value
      /\ ValueCall(c.type, depth).type = c.type /\ ValueCall(c.type, depth + 1).type = c.type
      /\ ValueCall(c.type, depth).f = "value" /\ ValueCall(c.type, depth + 1).f = "value"
  BY <1>1, NextCall, ScopeTypes DEF ValueCall, Value
<1>5. \E calls \in Seq(Inner \cup Value) :
         Push(calls) /\ \A k \in DOMAIN calls : calls[k].f = "value" /\ calls[k].type = c.type
  <2>1. CASE Push(<<ValueCall(c.type, depth)>>)
    <3> DEFINE calls == <<ValueCall(c.type, depth)>>
    <3>1. calls \in Seq(Inner \cup Value)
          /\ \A k \in DOMAIN calls : calls[k].f = "value" /\ calls[k].type = c.type
      BY <1>4
    <3> QED
      BY <2>1, <3>1
  <2>2. ASSUME NEW n \in 2 .. 4, Push([k \in 1 .. n |-> ValueCall(c.type, depth + 1)])
        PROVE  \E calls \in Seq(Inner \cup Value) :
                  Push(calls) /\ \A k \in DOMAIN calls : calls[k].f = "value" /\ calls[k].type = c.type
    <3> DEFINE calls == [k \in 1 .. n |-> ValueCall(c.type, depth + 1)]
    <3>1. calls \in Seq(Inner \cup Value)
          /\ \A k \in DOMAIN calls : calls[k].f = "value" /\ calls[k].type = c.type
      BY <1>4
    <3> QED
      BY <2>2, <3>1
  <2> QED
    BY <1>3, <2>1, <2>2
<1>6. PICK calls \in Seq(Inner \cup Value) :
         Push(calls) /\ \A k \in DOMAIN calls : calls[k].f = "value" /\ calls[k].type = c.type
  BY <1>5
<1>7. ScopeTyped => Typed(calls)
  BY <1>6 DEF ScopeTyped, Typed
<1> QED
  BY <1>1, <1>6, <1>7, NothingSound, StepCompares

\* A column is compared with bounds of its type.
LEMMA BetweenCompares ==
    TypeOK /\ ComparisonInvariant /\ generateBetweenPredicate => ComparisonInvariant' /\ TypesComparable'
<1> SUFFICES ASSUME TypeOK, ComparisonInvariant, generateBetweenPredicate
             PROVE  ComparisonInvariant' /\ TypesComparable'
  OBVIOUS
<1>1. todo # <<>> /\ UNCHANGED columns /\ Push(<<>>)
  BY DEF generateBetweenPredicate, At
<1>2. <<>> \in Seq(Inner \cup Value) /\ Typed(<<>>)
  BY DEF Typed
<1>3. PICK c \in scope : compared' = <<c.type, Bound(c.type)>>
  BY DEF generateBetweenPredicate
<1>4. c.type \in KnownTypes => Category(Bound(c.type)) = Category(c.type)
  BY ConstantCategory
<1>5. ScopeTyped' => c.type \in KnownTypes
  BY <1>1 DEF ScopeTyped, scope
<1>6. Sound(compared')
  BY <1>3, <1>4, <1>5 DEF Sound
<1> QED
  BY <1>1, <1>2, <1>6, StepCompares

\* Strings are compared with patterns.
LEMMA LikeCompares ==
    TypeOK /\ ComparisonInvariant /\ generateLikePredicate => ComparisonInvariant' /\ TypesComparable'
<1> SUFFICES ASSUME TypeOK, ComparisonInvariant, generateLikePredicate
             PROVE  ComparisonInvariant' /\ TypesComparable'
  OBVIOUS
<1>1. todo # <<>> /\ UNCHANGED columns /\ Push(<<>>)
  BY DEF generateLikePredicate, At
<1>2. <<>> \in Seq(Inner \cup Value) /\ Typed(<<>>)
  BY DEF Typed
<1>3. Category("string") = "string" /\ Category("char") = "string" /\ "char" \in KnownTypes
  BY CategoryOf DEF StringTypes, KnownTypes
<1>4. CASE \E c \in ColumnsOfType("string") : compared' = <<c.type, "string">>
  <2>1. PICK c \in ColumnsOfType("string") : compared' = <<c.type, "string">>
    BY <1>4
  <2>2. c \in scope /\ c.type \in StringTypes \cup {"string"}
    BY DEF ColumnsOfType, typeMatch, OfCategory, StringTypes
  <2>3. Category(c.type) = "string"
    BY <2>2, CategoryOf
  <2>4. ScopeTyped' => c.type \in KnownTypes
    BY <1>1, <2>2 DEF ScopeTyped, scope
  <2>5. Sound(compared')
    BY <1>3, <2>1, <2>3, <2>4 DEF Sound
  <2> QED
    BY <1>1, <1>2, <2>5, StepCompares
<1>5. CASE compared' = <<"char", "string">>
  <2>1. Sound(compared')
    BY <1>3, <1>5 DEF Sound
  <2> QED
    BY <1>1, <1>2, <2>1, StepCompares
<1> QED
  BY <1>4, <1>5 DEF generateLikePredicate

\* Values are of the category of the column; an expression stands for one of a type
\* that is not known.
LEMMA ValueCompares ==
    GeneratorAssumption /\ TypeOK /\ ComparisonInvariant /\ generateTypeCompatibleValue
        => ComparisonInvariant' /\ TypesComparable'
<1> SUFFICES ASSUME GeneratorAssumption, TypeOK, ComparisonInvariant, generateTypeCompatibleValue
             PROVE  ComparisonInvariant' /\ TypesComparable'
  OBVIOUS
<1> DEFINE type == Head(todo).type
<1>1. todo # <<>> /\ UNCHANGED columns /\ At("value") /\ Head(todo).f = "value"
  BY DEF generateTypeCompatibleValue, At
<1>2. PICK calls \in {<<>>, <<Call("expr", Deeper(depth))>>} :
         /\ Push(calls)
         /\ type \in KnownTypes => calls = <<>>
  BY ConstantCategory DEF generateTypeCompatibleValue
<1>3. calls \in Seq(Inner \cup Value)
  <2>1. Call("expr", Deeper(depth)) \in Inner \cup Value
    BY <1>1, NextCall DEF Deeper, Call, Inner
  <2>2. CASE calls = <<>>
    BY <2>2
  <2>3. CASE calls = <<Call("expr", Deeper(depth))>>
    BY <2>1, <2>3
  <2> QED
    BY <1>2, <2>2, <2>3
<1>4. OutsideSelectList /\ ScopeTyped => type \in KnownTypes
  BY <1>1, ConditionCalls
<1>5. OutsideSelectList' /\ ScopeTyped' => type \in KnownTypes
  <2>1. ScopeTyped' <=> ScopeTyped
    BY <1>1 DEF ScopeTyped, scope
  <2>2. ClauseStep(calls)
    <3>1. calls \in Seq(Inner \cup Value \cup Outer)
      BY <1>3, SeqMonotonic
    <3>2. \A k \in DOMAIN calls : calls[k] \in Inner \cup Value
      BY <1>3
    <3> QED
      BY <1>1, <1>2, <3>1, <3>2, InnerStage DEF ClauseStep, Push
  <2>3. OutsideSelectList' => OutsideSelectList
    BY <1>1, <2>2, OutsideBefore
  <2> QED
    BY <1>4, <2>1, <2>3
<1>6. Sound(compared')
  <2>1. PICK other : /\ compared' = <<type, other>>
                     /\ type \in KnownTypes => Category(other) = Category(type)
    <3>1. CASE compared' = <<type, Constant(type)>>
      BY <3>1, ConstantCategory
    <3>2. CASE \E c \in Partners(type) : compared' = <<type, c.type>>
      BY <3>2, PartnerCategory
    <3>3. CASE Constant(type) = "none" /\ compared' = <<type, "expression">>
      BY <3>3, ConstantCategory
    <3> QED
      BY <3>1, <3>2, <3>3 DEF generateTypeCompatibleValue
  <2> QED
    BY <1>5, <2>1 DEF Sound
<1>7. Head(todo).f = "where" \/ OutsideSelectList => OutsideSelectList
  BY <1>1
<1>8. ScopeTyped /\ OutsideSelectList => Typed(calls)
  BY <1>2, <1>4 DEF Typed
<1> QED
  BY <1>1, <1>2, <1>3, <1>6, <1>7, <1>8, StepCompares

\* The columns of further tables do not make types known.
LEMMA TableCompares ==
    ASSUME GeneratorAssumption, GeneratorInvariant, ComparisonInvariant,
           generateFromClause \/ Join \/ SelfJoin
    PROVE  ComparisonInvariant' /\ TypesComparable'
<1>1. TypeOK /\ todo # <<>> /\ UNCHANGED input /\ Silent /\ ~At("plain")
      /\ Head(todo).f \in {"from", "join", "selfJoin"}
  BY DEF generateFromClause, Join, SelfJoin, At, GeneratorInvariant
<1>2. PICK t \in DOMAIN tables : AddTable(t)
  <2>1. CASE generateFromClause \/ Join
    BY <2>1 DEF generateFromClause, Join
  <2>2. CASE SelfJoin
    <3>1. PICK k \in DOMAIN from : AddTable(from[k].table)
      BY <2>2 DEF SelfJoin
    <3>2. 1 \in Waiting({"from", "join", "selfJoin"})
      BY <1>1, <2>2, HeadFirst DEF Waiting, SelfJoin, At, TypeOK
    <3> QED
      BY <3>1, <3>2 DEF GeneratorInvariant, TablesDiscovered
  <2> QED
    BY <2>1, <2>2
<1>3. PICK calls \in Seq(Inner \cup Outer) :
         Push(calls) /\ \A k \in DOMAIN calls : calls[k].f \in {"on", "join", "selfJoin"}
  <2>1. CASE generateFromClause
    BY <2>1, FromCalls
  <2>2. CASE Join \/ SelfJoin
    <3>1. Push(<<>>) \/ Push(<<Call("on", 0)>>)
      BY <2>2 DEF Join, SelfJoin
    <3>2. \A k \in DOMAIN <<>> : <<>>[k].f \in {"on", "join", "selfJoin"}
      OBVIOUS
    <3> QED
      BY <3>1, <3>2, OnCall
  <2> QED
    BY <2>1, <2>2
<1>4. ClauseStep(calls) /\ Typed(calls)
  <2>1. calls \in Seq(Inner \cup Value \cup Outer)
    BY <1>3, SeqMonotonic
  <2>2. \A k \in DOMAIN calls : Stage(calls[k].f) = 0
    BY <1>3 DEF Stage
  <2> QED
    BY <1>1, <1>3, <2>1, <2>2 DEF ClauseStep, Push, Typed
<1>5. ScopeTyped' => ScopeTyped
  <2> DEFINE new == [k \in DOMAIN tables[t] |->
                      [alias |-> tableAliasSeq, name |-> tables[t][k].name,
                       type |-> tables[t][k].type, key |-> tables[t][k].key]]
  <2>1. columns' = columns \o new /\ columns \in Seq(ScopeColumn) /\ columns' \in Seq(ScopeColumn)
    BY <1>1, <1>2, TableAdded DEF AddTable, TypeOK
  <2>2. tables[t] \in Seq(Column) /\ tableAliasSeq \in Nat
    BY <1>1 DEF GeneratorAssumption, tables, TypeOK
  <2>3. new \in Seq(ScopeColumn)
    <3>1. \A k \in DOMAIN tables[t] : tables[t][k] \in Column
      BY <2>2
    <3>2. \A k \in DOMAIN tables[t] : new[k] \in ScopeColumn
      BY <2>2, <3>1 DEF ScopeColumn, Column
    <3>3. DOMAIN tables[t] = 1 .. Len(tables[t]) /\ Len(tables[t]) \in Nat
      BY <2>2
    <3>4. new \in [1 .. Len(tables[t]) -> ScopeColumn]
      BY <3>2, <3>3
    <3> HIDE DEF new
    <3> QED
      BY <3>3, <3>4
  <2> HIDE DEF new
  <2>4. \A k \in DOMAIN columns : k \in DOMAIN columns' /\ columns'[k] = columns[k]
    BY <2>1, <2>3, SMTT(30)
  <2> QED
    BY <2>4 DEF ScopeTyped, scope
<1>6. ComparisonInvariant'
  BY <1>1, <1>4, <1>5, ClauseCompares
<1>7. TypesComparable'
  BY <1>1, NothingSound DEF Silent, TypesComparable, Sound
<1> QED
  BY <1>6, <1>7

\* The clauses of a SELECT are begun in their order.
LEMMA PlainCompares ==
    TypeOK /\ ComparisonInvariant /\ generatePlainSelect => ComparisonInvariant' /\ TypesComparable'
<1> SUFFICES ASSUME TypeOK, ComparisonInvariant, generatePlainSelect
             PROVE  ComparisonInvariant' /\ TypesComparable'
  OBVIOUS
<1>1. todo # <<>> /\ Head(todo).f = "plain" /\ Silent
  BY DEF generatePlainSelect, At
<1> DEFINE clauses == <<Call("from", 0), Call("selectList", 0), Call("where", 0), Call("groupBy", 0),
                        Call("orderBy", 0)>>
<1>2. PICK calls \in {<<>>, clauses} : todo' = calls \o Tail(todo)
  BY DEF generatePlainSelect, Push
<1>3. /\ calls \in Seq(Inner \cup Value \cup Outer)
      /\ InOrder(calls)
      /\ \A k \in DOMAIN calls : Stage(calls[k].f) < 5
      /\ \A k \in DOMAIN calls : calls[k].f \notin {"expr", "value"}
      /\ (\E k \in DOMAIN calls : calls[k].f = "selectList")
            => \E k \in DOMAIN calls : calls[k].f = "where"
  <2>1. CASE calls = <<>>
    BY <2>1 DEF InOrder
  <2>2. CASE calls = clauses
    <3>1. /\ DOMAIN calls = 1 .. 5
          /\ calls[1].f = "from" /\ calls[2].f = "selectList" /\ calls[3].f = "where"
          /\ calls[4].f = "groupBy" /\ calls[5].f = "orderBy"
      BY <2>2 DEF Call
    <3>2. calls \in Seq(Inner \cup Value \cup Outer)
      BY <2>2 DEF Call, Outer
    <3>3. /\ Stage("from") = 0 /\ Stage("selectList") = 1 /\ Stage("where") = 2
          /\ Stage("groupBy") = 3 /\ Stage("orderBy") = 4
      BY DEF Stage
    <3>4. /\ Stage(calls[1].f) = 0 /\ Stage(calls[2].f) = 1 /\ Stage(calls[3].f) = 2
          /\ Stage(calls[4].f) = 3 /\ Stage(calls[5].f) = 4
      BY <3>1, <3>3
    <3>5. \A k \in DOMAIN calls : Stage(calls[k].f) = k - 1
      BY <3>1, <3>4
    <3>6. InOrder(calls) /\ \A k \in DOMAIN calls : Stage(calls[k].f) < 5
      BY <3>1, <3>5 DEF InOrder
    <3>7. \A k \in DOMAIN calls : calls[k].f \notin {"expr", "value"}
      BY <3>1
    <3>8. \E k \in DOMAIN calls : calls[k].f = "where"
      BY <3>1
    <3> QED
      BY <3>2, <3>6, <3>7, <3>8
  <2> QED
    BY <2>1, <2>2
<1>4. ComparisonInvariant'
  BY <1>1, <1>2, <1>3, QueryCompares
<1>5. TypesComparable'
  BY <1>1, NothingSound DEF Silent, TypesComparable, Sound
<1> QED
  BY <1>4, <1>5

\* A query around another has no clause but perhaps a condition.
LEMMA OuterQueryCompares ==
    TypeOK /\ ComparisonInvariant /\ (generateCTESelect \/ generateDerivedSelect)
        => ComparisonInvariant' /\ TypesComparable'
<1> SUFFICES ASSUME TypeOK, ComparisonInvariant, generateCTESelect \/ generateDerivedSelect
             PROVE  ComparisonInvariant' /\ TypesComparable'
  OBVIOUS
<1>1. todo # <<>> /\ Head(todo).f \in {"cte", "derived"} /\ Silent
  BY DEF generateCTESelect, generateDerivedSelect, At
<1>2. PICK calls \in {<<>>, <<Call("bool", 0)>>} : todo' = calls \o Tail(todo)
  BY DEF generateCTESelect, generateDerivedSelect, Push
<1>3. /\ calls \in Seq(Inner \cup Value \cup Outer)
      /\ \A k \in DOMAIN calls : k = 1 /\ calls[k].f = "bool"
  <2>1. Call("bool", 0) \in Inner \cup Value \cup Outer /\ Call("bool", 0).f = "bool"
    BY DEF Call, Inner
  <2>2. CASE calls = <<>>
    BY <2>2
  <2>3. CASE calls = <<Call("bool", 0)>>
    BY <2>1, <2>3
  <2> QED
    BY <2>2, <2>3
<1>4. InOrder(calls) /\ \A k \in DOMAIN calls : Stage(calls[k].f) < 5
  BY <1>3 DEF InOrder, Stage
<1>5. ComparisonInvariant'
  BY <1>1, <1>2, <1>3, <1>4, QueryCompares
<1>6. TypesComparable'
  BY <1>1, NothingSound DEF Silent, TypesComparable, Sound
<1> QED
  BY <1>5, <1>6

\* The SELECTs of a query come one after another.
LEMMA SelectCompares ==
    GeneratorAssumption /\ TypeOK /\ GenerateSelect => ComparisonInvariant' /\ TypesComparable'
<1> SUFFICES ASSUME GeneratorAssumption, TypeOK, GenerateSelect
             PROVE  ComparisonInvariant' /\ TypesComparable'
  OBVIOUS
<1>1. \A s \in {"plain", "union", "cte", "derived"} :
         \A k \in DOMAIN Shape(s) : Shape(s)[k].f \in {"plain", "cte", "derived"}
  <2>1. config.union \in BOOLEAN /\ config.cte \in BOOLEAN /\ config.subquery \in BOOLEAN
    BY DEF TypeOK, GeneratorAssumption, Config
  <2>2. Call("plain", 0).f = "plain" /\ Call("cte", 0).f = "cte" /\ Call("derived", 0).f = "derived"
    BY DEF Call
  <2> QED
    BY <2>1, <2>2 DEF Shape
<1>2. \A k \in DOMAIN todo' : todo'[k].f \in {"plain", "cte", "derived"}
  BY <1>1 DEF GenerateSelect
<1>3. \A k \in DOMAIN todo' : Stage(todo'[k].f) = 5
  BY <1>2, Stages
<1>4. InOrder(todo)' /\ WhereFollows' /\ Typed(todo)'
  BY <1>2, <1>3 DEF InOrder, WhereFollows, Waiting, Typed
<1>5. TypesComparable'
  BY NothingSound DEF GenerateSelect, Silent, TypesComparable, Sound
<1> QED
  BY <1>4, <1>5 DEF ComparisonInvariant, ConditionsTyped

(* Wherever a column of a known type is compared, the other side is of its *)
(* category, and ON, WHERE and HAVING compare nothing else when all        *)
(* columns in scope are of known types: in every query over every schema.  *)
THEOREM ComparisonsTyped == Spec => []TypesComparable
<1> USE GeneratorAssumption
<1>1. Init => ComparisonInvariant /\ TypesComparable
  <2> SUFFICES ASSUME Init PROVE ComparisonInvariant /\ TypesComparable
    OBVIOUS
  <2>1. DOMAIN todo = {} /\ compared = NothingCompared
    BY DEF Init
  <2>2. "none" \notin KnownTypes
    BY DEF KnownTypes, IntTypes, FloatTypes, StringTypes, Timestamps
  <2> QED
    BY <2>1, <2>2 DEF ComparisonInvariant, InOrder, WhereFollows, ConditionsTyped, Typed, Waiting,
                      TypesComparable, NothingCompared
<1>2. ASSUME GeneratorInvariant, ComparisonInvariant, TypesComparable, [Next]_vars
      PROVE  ComparisonInvariant' /\ TypesComparable'
  <2>1. TypeOK
    BY <1>2 DEF GeneratorInvariant
  <2>2. CASE GenerateSelect
    BY <2>1, <2>2, SelectCompares
  <2>3. CASE generatePlainSelect
    BY <1>2, <2>1, <2>3, PlainCompares
  <2>4. CASE generateFromClause \/ Join \/ SelfJoin
    BY <1>2, <2>4, TableCompares
  <2>5. CASE generateJoinOnClause
    BY <1>2, <2>1, <2>5, JoinOnCompares
  <2>6. CASE GenerateClause
    BY <1>2, <2>1, <2>6, ClauseKeepsTyped
  <2>7. CASE generateCTESelect \/ generateDerivedSelect
    BY <1>2, <2>1, <2>7, OuterQueryCompares
  <2>8. CASE Branch
    BY <1>2, <2>1, <2>8, BranchCompares
  <2>9. CASE CompareAny
    BY <1>2, <2>1, <2>9, AnyCompares
  <2>10. CASE generateColumnRefExpr
    BY <1>2, <2>1, <2>10, ColumnCompares
  <2>11. CASE generateComparison
    BY <1>2, <2>1, <2>11, ComparisonCompares
  <2>12. CASE generateBetweenPredicate
    BY <1>2, <2>1, <2>12, BetweenCompares
  <2>13. CASE generateLikePredicate
    BY <1>2, <2>1, <2>13, LikeCompares
  <2>14. CASE generateTypeCompatibleValue
    BY <1>2, <2>1, <2>14, ValueCompares
  <2>15. CASE UNCHANGED vars
    BY <1>2, <2>15 DEF vars, ComparisonInvariant, InOrder, WhereFollows, ConditionsTyped, Typed,
         Waiting, OutsideSelectList, ScopeTyped, scope, TypesComparable
  <2> QED
    BY <1>2, <2>2, <2>3, <2>4, <2>5, <2>6, <2>7, <2>8, <2>9, <2>10, <2>11, <2>12, <2>13, <2>14, <2>15
       DEF Next
<1> QED
  BY <1>1, <1>2, GeneratorInvariance, PTL DEF Spec
=============================================================================
