----------------------------- MODULE StageProofs -----------------------------
(***************************************************************************)
(* The two stages that a query goes through.  Stage 1 cleans every syntax  *)
(* tree: the walk reaches all that is printed, although it changes the     *)
(* tree on its way.                                                        *)
(*                                                                         *)
(* Stage 2: where the contexts that the visitor goes through keep the      *)
(* order (every function, table expression and scalar subquery grows with  *)
(* its argument, and EXCEPT does not occur), the flag is the polarity of   *)
(* the path, for any integers, maps and mutations.  Without empty          *)
(* quantified subqueries, the direction claimed for every candidate but    *)
(* <=> to = is right.                                                      *)
(***************************************************************************)
EXTENDS Stage1, MutateVisitor, TLAPS

Follows == IF mode = "postgresql" THEN FromSlots ELSE Slots

TakenFrom(n) == IF mode = "postgresql" THEN TakenPg(n) ELSE Taken(n)

\* The walk is closed but for what it has still to enter ...
Progress ==
    /\ pc \in {"filter", "parse"} => entered = {}
    /\ pc \in {"visit", "exec", "done"} => Root \in entered \cup todo
    /\ pc \in {"exec", "done"} => todo = {}
    /\ \A n \in entered : ChildrenIn(n, Follows) \ cut \subseteq entered \cup todo
    /\ \A n \in entered \cup todo : n = Root \/ tree[n].parent \in entered

\* ... and what it has entered is clean.
Entered ==
    \A n \in entered :
        /\ TakenFrom(n) \subseteq cut
        /\ Kind(n) \in ClearedKinds => n \in cleared

WalkInvariant == StageTypeOK /\ Progress /\ Entered /\ NothingLost

(* What a step takes from its node is in the tree, and may go.             *)
LEMMA TakenMayGo ==
    ASSUME StageTypeOK, NEW n \in DOMAIN tree
    PROVE  TakenFrom(n) \subseteq DOMAIN tree /\ \A m \in TakenFrom(n) : MayGo(m)
<1>1. \A slots : \A p \in DOMAIN tree : \A m \in ChildrenIn(p, slots) :
          m \in DOMAIN tree /\ tree[m].parent = p /\ Slot(m) \in slots
  BY DEF ChildrenIn, Children
<1>2. \A m \in Children(n) : m \in DOMAIN tree /\ tree[m].parent = n
  BY DEF Children
<1>3. ASSUME mode = "postgresql", NEW m \in TakenPg(n)
      PROVE  m \in DOMAIN tree /\ MayGo(m)
  BY <1>1, <1>3 DEF TakenPg, PgClauses, MayGo
<1>4. ASSUME mode # "postgresql", NEW m \in RmAgg(n) PROVE m \in DOMAIN tree /\ MayGo(m)
  BY <1>1, <1>4 DEF RmAgg, MayGo
<1>5. ASSUME NEW m \in RmWindow(n) PROVE m \in DOMAIN tree /\ MayGo(m)
  <2>1. CASE Kind(n) = "select"
    BY <1>1, <1>5, <2>1 DEF RmWindow, MayGo
  <2>2. CASE Kind(n) = "fields"
    <3>1. PICK w \in Children(n) : m \in ChildrenIn(w, {"spec"})
      BY <1>5, <2>2 DEF RmWindow
    <3> QED BY <1>1, <1>2, <3>1 DEF MayGo
  <2> QED BY <1>5, <2>1, <2>2 DEF RmWindow
<1>6. ASSUME NEW m \in RmLimit(n) PROVE m \in DOMAIN tree /\ MayGo(m)
  BY <1>1, <1>6 DEF RmLimit, MayGo
<1>7. ASSUME mode # "postgresql", NEW m \in RmUncertain(n) PROVE m \in DOMAIN tree /\ MayGo(m)
  BY <1>2, <1>7 DEF RmUncertain, MayGo
<1> QED BY <1>3, <1>4, <1>5, <1>6, <1>7 DEF TakenFrom, Taken

(* The operators on the tree do not depend on what the walk changes.       *)
LEMMA TreeFixed ==
    ASSUME UNCHANGED <<mode, tree>>
    PROVE  /\ Follows' = Follows /\ ClearedKinds' = ClearedKinds
           /\ \A n : TakenFrom(n)' = TakenFrom(n) /\ Kind(n)' = Kind(n) /\ MayGo(n)' = MayGo(n)
           /\ \A n, slots : ChildrenIn(n, slots)' = ChildrenIn(n, slots)
BY DEF Follows, ClearedKinds, TakenFrom, TakenPg, Taken, RmAgg, RmWindow, RmLimit, RmUncertain,
       Kind, Slot, MayGo, Children, ChildrenIn, FromSlots, Slots, PgClauses

(* A step of the walk, of either visitor, keeps the invariant.             *)
LEMMA WalkStep ==
    ASSUME WalkInvariant, NEW n \in todo,
           pc = "visit", UNCHANGED <<mode, tree, pc>>,
           Change(n, TakenFrom(n)),
           todo' = (todo \ {n}) \cup (ChildrenIn(n, Follows) \ cut')
    PROVE  WalkInvariant'
<1> USE TreeFixed
<1>1. n \in DOMAIN tree
  BY DEF WalkInvariant, StageTypeOK
<1>2. /\ TakenFrom(n) \subseteq DOMAIN tree
      /\ \A m \in TakenFrom(n) : MayGo(m)
  BY <1>1, TakenMayGo DEF WalkInvariant
<1>3. cut' = cut \cup TakenFrom(n) /\ entered' = entered \cup {n}
  BY DEF Change
<1>4. StageTypeOK'
  BY <1>1, <1>2, <1>3 DEF WalkInvariant, StageTypeOK, Change, ChildrenIn, Children, IsTree
<1>5. Progress'
  <2>1. \A k \in entered : ChildrenIn(k, Follows) \ cut' \subseteq entered' \cup todo'
    BY <1>3 DEF WalkInvariant, Progress
  <2>2. ChildrenIn(n, Follows) \ cut' \subseteq entered' \cup todo'
    OBVIOUS
  <2>3. \A k \in entered' \cup todo' : k = Root \/ tree[k].parent \in entered'
    <3>1. \A k \in ChildrenIn(n, Follows) : tree[k].parent = n
      BY DEF ChildrenIn, Children
    <3> QED BY <1>3, <3>1 DEF WalkInvariant, Progress
  <2>4. Root \in entered' \cup todo'
    BY <1>3 DEF WalkInvariant, Progress
  <2> QED BY <1>3, <2>1, <2>2, <2>3, <2>4 DEF Progress
<1>6. Entered'
  BY <1>3 DEF WalkInvariant, Entered, Change
<1>7. NothingLost'
  <2>1. \A m \in cut' : MayGo(m)'
    BY <1>2, <1>3 DEF WalkInvariant, NothingLost
  <2>2. \A k \in cleared' : Kind(k) \in {"outerJoin", "agg", "uncertain"}
    BY DEF WalkInvariant, NothingLost, Change, ClearedKinds
  <2> QED BY <2>1, <2>2 DEF NothingLost
<1> QED BY <1>4, <1>5, <1>6, <1>7 DEF WalkInvariant

\* Nothing is entered or taken away at first.
LEMMA WalkInvariantInit == StageInit => WalkInvariant
<1> SUFFICES ASSUME StageInit PROVE WalkInvariant
  OBVIOUS
<1>1. StageTypeOK
  BY Stage1Assumption DEF StageInit, StageTypeOK
<1> QED BY <1>1 DEF StageInit, WalkInvariant, Progress, Entered, NothingLost

\* Every step of the walk keeps its invariant.
LEMMA WalkInvariantNext == WalkInvariant /\ [StageNext]_stageVars => WalkInvariant'
<1> SUFFICES ASSUME WalkInvariant, [StageNext]_stageVars PROVE WalkInvariant'
  OBVIOUS
<1> USE TreeFixed
<1>1. CASE Filter
  BY <1>1 DEF Filter, Unchanged, WalkInvariant, StageTypeOK, Progress, Entered, NothingLost
<1>2. CASE Parse
  BY <1>2 DEF Parse, WalkInvariant, StageTypeOK, Progress, Entered, NothingLost, IsTree
<1>3. ASSUME NEW n \in DOMAIN tree, Enter(n) PROVE WalkInvariant'
  <2>1. ChildrenIn(n, Follows) = Children(n)
    BY <1>3 DEF Enter, Follows, ChildrenIn, Children, Slot, WalkInvariant, StageTypeOK, IsTree
  <2> QED BY <1>3, <2>1, WalkStep DEF Enter, TakenFrom
<1>4. ASSUME NEW n \in DOMAIN tree, Transform(n) PROVE WalkInvariant'
  <2>1. Follows = FromSlots
    BY <1>4 DEF Transform, Follows
  <2>2. ChildrenIn(n, FromSlots) \cap cut = {}
    BY <1>4 DEF Transform, WalkInvariant, NothingLost, MayGo, ChildrenIn, Children, FromSlots
  <2>3. ChildrenIn(n, FromSlots) \cap TakenPg(n) = {}
    BY DEF TakenPg, ChildrenIn, FromSlots, PgClauses
  <2> QED BY <1>4, <2>1, <2>2, <2>3, WalkStep DEF Transform, Change, TakenFrom
<1>5. CASE Restore
  BY <1>5 DEF Restore, Unchanged, WalkInvariant, StageTypeOK, Progress, Entered, NothingLost
<1>6. CASE ExecSQL
  BY <1>6 DEF ExecSQL, Unchanged, WalkInvariant, StageTypeOK, Progress, Entered, NothingLost
<1>7. CASE UNCHANGED stageVars
  BY <1>7 DEF stageVars, WalkInvariant, StageTypeOK, Progress, Entered, NothingLost
<1> QED BY <1>1, <1>2, <1>3, <1>4, <1>5, <1>6, <1>7 DEF StageNext

(* The scope of the walk is within every closed set that holds the root.   *)
LEMMA ScopeEntered ==
    ASSUME WalkInvariant, pc \in {"exec", "done"}
    PROVE  Scope \subseteq entered
<1>1. Root \in entered /\ ClosedUnder(entered, Follows)
  BY DEF WalkInvariant, Progress, ClosedUnder
<1>2. entered \in SUBSET DOMAIN tree
  BY DEF WalkInvariant, StageTypeOK
<1>3. Scope = Reachable(Follows)
  BY DEF Scope, Follows
<1> QED BY <1>1, <1>2, <1>3 DEF Reachable

\* When there is nothing left to enter, all that can be reached is clean.
LEMMA CleanedHolds == WalkInvariant => Cleaned
<1> SUFFICES ASSUME WalkInvariant, pc \in {"exec", "done"} PROVE NothingUnwanted /\ NothingLost
  BY DEF Cleaned
<1>1. NothingUnwanted
  <2> SUFFICES ASSUME NEW n \in entered
               PROVE  /\ Kind(n) = "outerJoin" => n \in cleared
                      /\ Kind(n) = "select" => Without(n, {"windowSpecs", "limit"})
                      /\ Kind(n) = "select" /\ mode # "aggregate" => Without(n, {"groupBy"})
                      /\ mode = "postgresql" /\ Kind(n) \in {"select", "setOpr"} =>
                            Without(n, {"orderBy", "limit"})
                      /\ mode # "postgresql" =>
                            /\ Kind(n) = "uncertain" => n \in cleared /\ Children(n) \subseteq cut
                            /\ Kind(n) = "agg" /\ mode # "aggregate" =>
                                  n \in cleared /\ Without(n, {"moreArgs", "order"})
                            /\ Kind(n) = "window" /\ Kind(tree[n].parent) = "fields" =>
                                  Without(n, {"spec"})
    BY ScopeEntered DEF NothingUnwanted
  <2> DEFINE p == tree[n].parent
  <2>1. TakenFrom(n) \subseteq cut /\ (Kind(n) \in ClearedKinds => n \in cleared)
    BY DEF WalkInvariant, Entered
  <2>2. n = Root \/ (p \in entered /\ TakenFrom(p) \subseteq cut)
    <3>1. n = Root \/ p \in entered
      BY DEF WalkInvariant, Progress
    <3>2. \A k \in entered : TakenFrom(k) \subseteq cut
      BY DEF WalkInvariant, Entered
    <3> QED BY <3>1, <3>2
  <2>3. n \in DOMAIN tree /\ Kind(Root) \in {"select", "setOpr"}
    BY DEF WalkInvariant, StageTypeOK, IsTree, Kind
  <2>4. (Kind(n) = "outerJoin" => n \in cleared)
    BY <2>1 DEF ClearedKinds
  <2>5. CASE mode = "postgresql"
    <3>1. TakenPg(n) \subseteq cut
      BY <2>1, <2>5 DEF TakenFrom
    <3> QED BY <2>4, <2>5, <3>1 DEF TakenPg, PgClauses, Without, ChildrenIn
  <2>6. CASE mode # "postgresql"
    <3>1. RmWindow(n) \subseteq cut /\ RmLimit(n) \subseteq cut /\ RmUncertain(n) \subseteq cut
      BY <2>1, <2>6 DEF TakenFrom, Taken
    <3>2. mode # "aggregate" => RmAgg(n) \subseteq cut
      BY <2>1, <2>6 DEF TakenFrom, Taken
    <3>3. Kind(n) = "select" => Without(n, {"windowSpecs", "limit"})
      BY <3>1 DEF RmWindow, RmLimit, Without, ChildrenIn
    <3>4. Kind(n) = "select" /\ mode # "aggregate" => Without(n, {"groupBy"})
      BY <3>2 DEF RmAgg, Without
    <3>5. Kind(n) = "uncertain" => n \in cleared /\ Children(n) \subseteq cut
      BY <2>1, <2>6, <3>1 DEF RmUncertain, ClearedKinds
    <3>6. Kind(n) = "agg" /\ mode # "aggregate" => n \in cleared /\ Without(n, {"moreArgs", "order"})
      BY <2>1, <2>6, <3>2 DEF RmAgg, ClearedKinds, Without
    <3>7. ASSUME Kind(n) = "window", Kind(p) = "fields" PROVE Without(n, {"spec"})
      <4>1. n # Root
        BY <2>3, <3>7
      <4>2. n \in {m \in Children(p) : Kind(m) = "window"}
        BY <2>3, <3>7, <4>1 DEF Children
      <4>3. ChildrenIn(n, {"spec"}) \subseteq RmWindow(p)
        BY <3>7, <4>2 DEF RmWindow
      <4>4. RmWindow(p) \subseteq cut
        BY <2>2, <2>6, <4>1 DEF TakenFrom, Taken
      <4> QED BY <4>3, <4>4 DEF Without
    <3> QED BY <2>4, <2>6, <3>3, <3>4, <3>5, <3>6, <3>7
  <2> QED BY <2>5, <2>6
<1> QED BY <1>1 DEF WalkInvariant

(* The state of stage 1 keeps its types, in every mode (stage1.go,         *)
(* stage1_aggregate.go, stage1_a.go, stage1_pg.go).                        *)
THEOREM Stage1Types == StageSpec => []StageTypeOK
<1>1. WalkInvariant => StageTypeOK
  BY DEF WalkInvariant
<1> QED BY <1>1, WalkInvariantInit, WalkInvariantNext, PTL DEF StageSpec

(* The query that stage 1 executes has nothing of what the visitors take   *)
(* out, wherever it stood in the statement, and lacks nothing else         *)
(* (stage1.go:28-66, stage1_pg.go:89-194).                                 *)
THEOREM StageCleans == StageSpec => []Cleaned
<1> QED BY CleanedHolds, WalkInvariantInit, WalkInvariantNext, PTL DEF StageSpec

-----------------------------------------------------------------------------
(* The visitor of stage 2.                                                 *)

OrderedContexts ==
    /\ \A f \in FuncMaps \cup CteUses \cup ScalarMaps : Grows(f)
    /\ "EXCEPT" \notin SetOps

\* The mutations of a right direction.
Directed(name) == EmptyRows = FALSE /\ name # "FixMNullEqToLowerL"

-----------------------------------------------------------------------------
(* Values.                                                                 *)

\* A comparison is false, unknown or true.
LEMMA CompareValues ==
    ASSUME NEW op \in CompareOps \cup {"<=>"}, NEW a \in Vals, NEW b \in Vals
    PROVE  Compare(op, a, b) \in D
  BY DEF Compare, CompareOps, Truth, D, F, N, T

\* So is a quantified comparison, over any rows,
LEMMA QuantifierValues ==
    ASSUME NEW op \in CompareOps, NEW x \in Vals, NEW rows \in SUBSET Vals
    PROVE  CompareAny(op, x, rows) \in D /\ CompareAll(op, x, rows) \in D
  BY DEF CompareAny, CompareAll, D, F, N, T

\* and IN.
LEMMA InValues ==
    ASSUME NEW x \in Vals, NEW rows \in SUBSET Vals
    PROVE  In(x, rows) \in D
  BY QuantifierValues DEF In, CompareOps

\* More rows make ANY larger and ALL smaller, for every comparison.
LEMMA QuantifierOrder ==
    ASSUME NEW op \in CompareOps, NEW x \in Vals,
           NEW rows \in SUBSET Vals, NEW more \in SUBSET Vals, rows \subseteq more
    PROVE  /\ CompareAny(op, x, rows) <= CompareAny(op, x, more)
           /\ CompareAll(op, x, more) <= CompareAll(op, x, rows)
  <1>1. \A r \in more : Compare(op, x, r) \in D
    BY CompareValues
  <1>2. CompareAny(op, x, rows) <= CompareAny(op, x, more)
    BY <1>1 DEF CompareAny, D, F, N, T
  <1>3. CompareAll(op, x, more) <= CompareAll(op, x, rows)
    BY <1>1 DEF CompareAll, D, F, N, T
  <1> QED
    BY <1>2, <1>3

-----------------------------------------------------------------------------
(* Paths.                                                                  *)

\* What a visit must bring for the flag to stay right: a step that grows with
\* the same flag, or one that shrinks with the other flag.
Polarity(f, step) ==
    /\ step \in Maps
    /\ \/ f = flag /\ Grows(step)
       \/ f = flip(flag) /\ Shrinks(step)

\* A step that keeps or turns the order, with the flag kept or turned, keeps the flag right.
LEMMA VisitKeepsPolarity ==
    ASSUME TypeOK, PolaritySound, NEW kind, NEW f, NEW step,
           Visit(kind, f, step), Polarity(f, step)
    PROVE  PolaritySound'
  <1>1. flag \in {0, 1} /\ ctx \in [D -> D] /\ step \in [D -> D]
    BY DEF TypeOK, Polarity, Maps
  <1>2. flag' = f /\ ctx' = [d \in D |-> ctx[step[d]]]
    BY DEF Visit
  <1>3. CASE f = flag /\ Grows(step)
    BY <1>1, <1>2, <1>3 DEF PolaritySound, Grows, Shrinks
  <1>4. CASE f = flip(flag) /\ Shrinks(step)
    BY <1>1, <1>2, <1>4 DEF PolaritySound, Grows, Shrinks, flip
  <1> QED
    BY <1>3, <1>4 DEF Polarity

\* Such a step keeps the types.
LEMMA VisitTypes ==
    ASSUME TypeOK, NEW kind \in NodeKinds, NEW f, NEW step,
           Visit(kind, f, step), Polarity(f, step)
    PROVE  TypeOK'
  <1>1. flag' \in {0, 1}
    BY DEF TypeOK, Visit, Polarity, flip
  <1>2. ctx' \in Maps
    <2>1. \A d \in D : ctx[step[d]] \in D
      BY DEF TypeOK, Polarity, Maps
    <2> QED
      BY <2>1 DEF Visit, Maps
  <1> QED
    BY <1>1, <1>2 DEF TypeOK, Visit

\* Every visit goes to a node with the polarity of the step.
PolarVisit ==
    \E kind \in NodeKinds, f \in {0, 1}, step \in Maps : Visit(kind, f, step) /\ Polarity(f, step)

\* What makes a visit such a step.
LEMMA PolarVisitIntro ==
    ASSUME TypeOK, NEW kind \in NodeKinds, NEW f, NEW step,
           Visit(kind, f, step), Polarity(f, step)
    PROVE  PolarVisit
  <1>1. f \in {0, 1} /\ step \in Maps
    BY DEF TypeOK, Polarity, flip
  <1> QED
    BY <1>1 DEF PolarVisit

-----------------------------------------------------------------------------
(* Each visit of the code is such a step.                                  *)

\* Copies are counted up to a bound, and the count keeps the order.
LEMMA CopiesOrder ==
    ASSUME NEW m \in Int, NEW n \in Int, 0 <= m, m <= n
    PROVE  /\ Several(m) \in D /\ Several(m) <= Several(n)
           /\ DistinctCopies(m) \in D /\ DistinctCopies(m) <= DistinctCopies(n)
  <1>1. Several(m) \in D /\ Several(m) <= Several(n)
    BY DEF Several, D
  <1>2. DistinctCopies(m) \in D /\ DistinctCopies(m) <= DistinctCopies(n)
    BY DEF DistinctCopies, D
  <1> QED
    BY <1>1, <1>2

Lesser(l, r) == IF l <= r THEN l ELSE r

\* Sums and minima of numbers of copies grow with either side.
LEMMA SumAndLesserOrder ==
    ASSUME NEW a \in D, NEW b \in D, NEW other \in D, a <= b
    PROVE  /\ a + other \in Int /\ b + other \in Int /\ 0 <= a + other /\ a + other <= b + other
           /\ other + a \in Int /\ other + b \in Int /\ 0 <= other + a /\ other + a <= other + b
           /\ Lesser(a, other) \in Int /\ Lesser(b, other) \in Int
           /\ 0 <= Lesser(a, other) /\ Lesser(a, other) <= Lesser(b, other)
           /\ Lesser(other, a) \in Int /\ Lesser(other, b) \in Int
           /\ 0 <= Lesser(other, a) /\ Lesser(other, a) <= Lesser(other, b)
  BY DEF D, Lesser

\* A set operation other than EXCEPT grows with both of its sides.
LEMMA SetOperationOrder ==
    ASSUME NEW op \in {"UNION", "UNION ALL", "INTERSECT"},
           NEW a \in D, NEW b \in D, NEW other \in D, a <= b
    PROVE  /\ SetOperation(op, a, other) \in D /\ SetOperation(op, other, a) \in D
           /\ SetOperation(op, a, other) <= SetOperation(op, b, other)
           /\ SetOperation(op, other, a) <= SetOperation(op, other, b)
  <1>1. /\ a + other \in Int /\ b + other \in Int /\ 0 <= a + other /\ a + other <= b + other
        /\ other + a \in Int /\ other + b \in Int /\ 0 <= other + a /\ other + a <= other + b
        /\ Lesser(a, other) \in Int /\ Lesser(b, other) \in Int
        /\ 0 <= Lesser(a, other) /\ Lesser(a, other) <= Lesser(b, other)
        /\ Lesser(other, a) \in Int /\ Lesser(other, b) \in Int
        /\ 0 <= Lesser(other, a) /\ Lesser(other, a) <= Lesser(other, b)
    BY SumAndLesserOrder
  <1>2. CASE op = "UNION"
    <2>1. \A l, r : SetOperation(op, l, r) = DistinctCopies(l + r)
      BY <1>2 DEF SetOperation
    <2> QED
      BY <1>1, <2>1, CopiesOrder
  <1>3. CASE op = "UNION ALL"
    <2>1. \A l, r : SetOperation(op, l, r) = Several(l + r)
      BY <1>3 DEF SetOperation
    <2> QED
      BY <1>1, <2>1, CopiesOrder
  <1>4. CASE op = "INTERSECT"
    <2>1. \A l, r : SetOperation(op, l, r) = DistinctCopies(Lesser(l, r))
      BY <1>4 DEF SetOperation, Lesser
    <2> QED
      BY <1>1, <2>1, CopiesOrder
  <1> QED
    BY <1>2, <1>3, <1>4

\* The operands of UNION and INTERSECT keep the order (visitSetOprSelectList).
LEMMA SetOprVisit ==
    ASSUME TypeOK, OrderedContexts, visitSetOprSelectList
    PROVE  PolarVisit
  <1>1. PICK kind \in Query, op \in SetOps, other \in D :
            \/ Visit(kind, flag, [d \in D |-> SetOperation(op, d, other)])
            \/ Visit(kind, flag, [d \in D |-> SetOperation(op, other, d)])
    BY DEF visitSetOprSelectList
  <1>2. op \in {"UNION", "UNION ALL", "INTERSECT"}
    BY ContextAssumption DEF OrderedContexts
  <1>3. Polarity(flag, [d \in D |-> SetOperation(op, d, other)])
    <2>1. \A d \in D : d <= d
      BY DEF D
    <2> QED
      BY <1>2, <2>1, SetOperationOrder DEF Polarity, Maps, Grows
  <1>4. Polarity(flag, [d \in D |-> SetOperation(op, other, d)])
    <2>1. \A d \in D : d <= d
      BY DEF D
    <2> QED
      BY <1>2, <2>1, SetOperationOrder DEF Polarity, Maps, Grows
  <1>5. kind \in NodeKinds
    BY DEF Query, NodeKinds
  <1> QED
    BY <1>1, <1>3, <1>4, <1>5, PolarVisitIntro

\* So do table expressions, functions and scalar subqueries that grow with what is in them.
LEMMA ContextVisit ==
    ASSUME TypeOK, OrderedContexts, visitWithClause \/ visitFuncCallExpr \/ visitSubqueryExpr
    PROVE  PolarVisit
  <1>1. PICK kind \in NodeKinds, f \in FuncMaps \cup CteUses \cup ScalarMaps : Visit(kind, flag, f)
    BY DEF visitWithClause, visitFuncCallExpr, visitSubqueryExpr, Query, NodeKinds
  <1>2. Polarity(flag, f)
    BY ContextAssumption DEF OrderedContexts, Polarity
  <1> QED
    BY <1>1, <1>2, PolarVisitIntro

\* FROM, WHERE, HAVING, joins and ON keep it.
LEMMA QueryVisit ==
    ASSUME TypeOK, visitTableRefClause \/ visitWhereHaving \/ visitJoin \/ visitOnCondition
    PROVE  PolarVisit
  <1>1. CASE visitTableRefClause
    <2>1. PICK kept, distinct \in BOOLEAN :
              Visit("join", flag,
                [d \in D |-> IF ~kept THEN 0 ELSE IF distinct THEN DistinctCopies(d) ELSE d])
      BY <1>1 DEF visitTableRefClause
    <2>2. Polarity(flag,
                [d \in D |-> IF ~kept THEN 0 ELSE IF distinct THEN DistinctCopies(d) ELSE d])
      BY DEF Polarity, Maps, Grows, DistinctCopies, D
    <2> QED
      BY <2>1, <2>2, PolarVisitIntro DEF NodeKinds
  <1>2. CASE visitWhereHaving
    <2>1. PICK without, with \in D :
              /\ without <= with
              /\ Visit("expr", flag, [d \in D |-> IF d = T THEN with ELSE without])
      BY <1>2 DEF visitWhereHaving
    <2>2. Polarity(flag, [d \in D |-> IF d = T THEN with ELSE without])
      BY <2>1 DEF Polarity, Maps, Grows, D, T
    <2> QED
      BY <2>1, <2>2, PolarVisitIntro DEF NodeKinds
  <1>3. CASE visitJoin
    <2>1. PICK kind \in NodeKinds, other \in D : Visit(kind, flag, [d \in D |-> Several(d * other)])
      BY <1>3 DEF visitJoin, Query, NodeKinds
    <2>2. Polarity(flag, [d \in D |-> Several(d * other)])
      <3>1. other = 0 \/ other = 1 \/ other = 2
        BY DEF D
      <3>2. \A d \in D : d * 0 = 0 /\ d * 1 = d /\ d * 2 = d + d
        BY DEF D
      <3> QED
        BY <3>1, <3>2 DEF Polarity, Maps, Grows, Several, D
    <2> QED
      BY <2>1, <2>2, PolarVisitIntro
  <1>4. CASE visitOnCondition
    <2>1. PICK rows \in D : Visit("expr", flag, [d \in D |-> IF d = T THEN rows ELSE 0])
      BY <1>4 DEF visitOnCondition
    <2>2. Polarity(flag, [d \in D |-> IF d = T THEN rows ELSE 0])
      BY DEF Polarity, Maps, Grows, D, T
    <2> QED
      BY <2>1, <2>2, PolarVisitIntro DEF NodeKinds
  <1> QED
    BY <1>1, <1>2, <1>3, <1>4

\* AND, OR and truth tests keep it, NOT turns it with the flag.
LEMMA ConditionVisit ==
    ASSUME TypeOK, \/ visitBinaryOperationExpr \/ visitUnaryOperationExpr
                   \/ visitIsTruthExpr \/ visitParenthesesExpr
    PROVE  PolarVisit
  <1>1. CASE visitBinaryOperationExpr
    <2>1. PICK other \in D :
              \/ Visit("expr", flag, [d \in D |-> And3(d, other)])
              \/ Visit("expr", flag, [d \in D |-> Or3(d, other)])
      BY <1>1 DEF visitBinaryOperationExpr
    <2>2. /\ Polarity(flag, [d \in D |-> And3(d, other)])
          /\ Polarity(flag, [d \in D |-> Or3(d, other)])
      BY DEF Polarity, Maps, Grows, And3, Or3, D
    <2> QED
      BY <2>1, <2>2, PolarVisitIntro DEF NodeKinds
  <1>2. CASE visitUnaryOperationExpr
    <2>1. Polarity(flip(flag), [d \in D |-> Not3(d)])
      BY DEF Polarity, Maps, Shrinks, Not3, D
    <2> QED
      BY <1>2, <2>1, PolarVisitIntro DEF visitUnaryOperationExpr, NodeKinds
  <1>3. CASE visitIsTruthExpr
    <2>1. PICK not, true \in BOOLEAN :
              Visit("expr", IF not = true THEN flip(flag) ELSE flag,
                    [d \in D |-> Truth((d = (IF true THEN T ELSE F)) # not)])
      BY <1>3 DEF visitIsTruthExpr
    <2>2. Polarity(IF not = true THEN flip(flag) ELSE flag,
                   [d \in D |-> Truth((d = (IF true THEN T ELSE F)) # not)])
      <3> DEFINE step == [d \in D |-> Truth((d = (IF true THEN T ELSE F)) # not)]
      <3>1. step = [d \in D |-> step[d]]
        OBVIOUS
      <3>2. CASE not /\ true
        <4>1. \A d \in D : step[d] = IF d = T THEN F ELSE T
          BY <3>2 DEF Truth
        <4> HIDE DEF step
        <4>2. Shrinks(step)
          BY <4>1 DEF Shrinks, D, T, F
        <4>3. step \in Maps
          BY <3>1, <4>1 DEF Maps, D, T, F
        <4>4. (IF not = true THEN flip(flag) ELSE flag) = flip(flag)
          BY <3>2
        <4> QED
          BY <4>2, <4>3, <4>4 DEF Polarity, step
      <3>3. CASE not /\ ~true
        <4>1. \A d \in D : step[d] = IF d = F THEN F ELSE T
          BY <3>3 DEF Truth
        <4> HIDE DEF step
        <4>2. Grows(step)
          BY <4>1 DEF Grows, D, T, F
        <4>3. step \in Maps
          BY <3>1, <4>1 DEF Maps, D, T, F
        <4>4. (IF not = true THEN flip(flag) ELSE flag) = flag
          BY <3>3
        <4> QED
          BY <4>2, <4>3, <4>4 DEF Polarity, step
      <3>4. CASE ~not /\ true
        <4>1. \A d \in D : step[d] = IF d = T THEN T ELSE F
          BY <3>4 DEF Truth
        <4> HIDE DEF step
        <4>2. Grows(step)
          BY <4>1 DEF Grows, D, T, F
        <4>3. step \in Maps
          BY <3>1, <4>1 DEF Maps, D, T, F
        <4>4. (IF not = true THEN flip(flag) ELSE flag) = flag
          BY <3>4
        <4> QED
          BY <4>2, <4>3, <4>4 DEF Polarity, step
      <3>5. CASE ~not /\ ~true
        <4>1. \A d \in D : step[d] = IF d = F THEN T ELSE F
          BY <3>5 DEF Truth
        <4> HIDE DEF step
        <4>2. Shrinks(step)
          BY <4>1 DEF Shrinks, D, T, F
        <4>3. step \in Maps
          BY <3>1, <4>1 DEF Maps, D, T, F
        <4>4. (IF not = true THEN flip(flag) ELSE flag) = flip(flag)
          BY <3>5
        <4> QED
          BY <4>2, <4>3, <4>4 DEF Polarity, step
      <3> QED
        BY <3>2, <3>3, <3>4, <3>5
    <2> QED
      BY <2>1, <2>2, PolarVisitIntro DEF NodeKinds
  <1>4. CASE visitParenthesesExpr
    <2>1. Polarity(flag, [d \in D |-> d])
      BY DEF Polarity, Maps, Grows
    <2> QED
      BY <1>4, <2>1, PolarVisitIntro DEF visitParenthesesExpr, NodeKinds
  <1> QED
    BY <1>1, <1>2, <1>3, <1>4

\* In a chain, a larger result of the subquery has all the rows of a smaller one.
LEMMA ChainOrder ==
    ASSUME NEW rows \in Chains
    PROVE  /\ \A d \in D : rows[d] \in SUBSET Vals
           /\ \A c, d \in D : c <= d => rows[c] \subseteq rows[d]
  BY DEF Chains, D

\* ANY, IN and EXISTS keep it, ALL and what is negated turn it with the flag.
LEMMA SubqueryVisit ==
    ASSUME TypeOK, visitCompareSubqueryExpr \/ visitPatternInExpr \/ visitExistsSubqueryExpr
    PROVE  PolarVisit
  <1>1. CASE visitCompareSubqueryExpr
    <2>1. PICK kind \in Query, op \in CompareOps, x \in Vals, rows \in Chains :
              \/ Visit(kind, flip(flag), [d \in D |-> CompareAll(op, x, rows[d])])
              \/ Visit(kind, flag, [d \in D |-> CompareAny(op, x, rows[d])])
      BY <1>1 DEF visitCompareSubqueryExpr
    <2>2. Polarity(flip(flag), [d \in D |-> CompareAll(op, x, rows[d])])
      BY ChainOrder, QuantifierValues, QuantifierOrder DEF Polarity, Maps, Shrinks
    <2>3. Polarity(flag, [d \in D |-> CompareAny(op, x, rows[d])])
      BY ChainOrder, QuantifierValues, QuantifierOrder DEF Polarity, Maps, Grows
    <2> QED
      BY <2>1, <2>2, <2>3, PolarVisitIntro DEF Query, NodeKinds
  <1>2. CASE visitPatternInExpr
    <2>1. PICK kind \in Query, x \in Vals, rows \in Chains :
              \/ Visit(kind, flag, [d \in D |-> In(x, rows[d])])
              \/ Visit(kind, flip(flag), [d \in D |-> Not3(In(x, rows[d]))])
      BY <1>2 DEF visitPatternInExpr
    <2>2. "=" \in CompareOps
      BY DEF CompareOps
    <2>3. /\ \A d \in D : In(x, rows[d]) \in D
          /\ \A c, d \in D : c <= d => In(x, rows[c]) <= In(x, rows[d])
      BY <2>2, ChainOrder, InValues, QuantifierOrder DEF In
    <2>4. Polarity(flag, [d \in D |-> In(x, rows[d])])
      BY <2>3 DEF Polarity, Maps, Grows
    <2>5. Polarity(flip(flag), [d \in D |-> Not3(In(x, rows[d]))])
      BY <2>3 DEF Polarity, Maps, Shrinks, Not3, D
    <2> QED
      BY <2>1, <2>4, <2>5, PolarVisitIntro DEF Query, NodeKinds
  <1>3. CASE visitExistsSubqueryExpr
    <2>1. PICK kind \in Query, rows \in Chains :
              \/ Visit(kind, flag, [d \in D |-> Truth(rows[d] # {})])
              \/ Visit(kind, flip(flag), [d \in D |-> Truth(rows[d] = {})])
      BY <1>3 DEF visitExistsSubqueryExpr
    <2>2. \A c, d \in D : c <= d /\ rows[c] # {} => rows[d] # {}
      BY ChainOrder
    <2>3. Polarity(flag, [d \in D |-> Truth(rows[d] # {})])
      BY <2>2 DEF Polarity, Maps, Grows, Truth, D, T, F
    <2>4. Polarity(flip(flag), [d \in D |-> Truth(rows[d] = {})])
      BY <2>2 DEF Polarity, Maps, Shrinks, Truth, D, T, F
    <2> QED
      BY <2>1, <2>3, <2>4, PolarVisitIntro DEF Query, NodeKinds
  <1> QED
    BY <1>1, <1>2, <1>3

\* Every call of the visitor is such a step.
LEMMA VisitIsPolar ==
    ASSUME TypeOK, OrderedContexts, visit
    PROVE  PolarVisit
  BY SetOprVisit, ContextVisit, QueryVisit, ConditionVisit, SubqueryVisit DEF visit

-----------------------------------------------------------------------------
(* Mutations.                                                              *)

\* The three values of a comparison, one operator at a time.
LEMMA CompareCases ==
    ASSUME NEW a \in Vals, NEW b \in Vals
    PROVE  /\ a = NULL \/ b = NULL => \A op \in CompareOps : Compare(op, a, b) = N
           /\ a # NULL /\ b # NULL =>
                /\ Compare("=", a, b) = Truth(a = b)
                /\ Compare("<", a, b) = Truth(a < b)
                /\ Compare("<=", a, b) = Truth(a <= b)
                /\ Compare(">", a, b) = Truth(a > b)
                /\ Compare(">=", a, b) = Truth(a >= b)
  BY DEF Compare, CompareOps

\* A comparison grows or shrinks as the mutation claims.
LEMMA CompareOrder ==
    ASSUME NEW a \in Vals, NEW b \in Vals
    PROVE  /\ Compare("=", a, b) <= Compare(">=", a, b)
           /\ Compare("=", a, b) <= Compare("<=", a, b)
           /\ Compare("<", a, b) <= Compare("<=", a, b)
           /\ Compare(">", a, b) <= Compare(">=", a, b)
  <1>1. CASE a = NULL \/ b = NULL
    BY <1>1, CompareCases DEF CompareOps, N
  <1>2. CASE a # NULL /\ b # NULL
    <2>1. a \in Int /\ b \in Int
      BY <1>2, ValuesAssumption DEF Vals
    <2> QED
      BY <1>2, <2>1, CompareCases DEF Truth, F, T
  <1> QED
    BY <1>1, <1>2

\* The pairs of operators that the mutations exchange.
LEMMA CmpOpUOperators ==
    ASSUME NEW op \in DOMAIN CmpOpU
    PROVE  /\ op \in CompareOps /\ CmpOpU[op] \in CompareOps
           /\ \/ op = "=" /\ CmpOpU[op] = ">="
              \/ op = "<" /\ CmpOpU[op] = "<="
              \/ op = ">" /\ CmpOpU[op] = ">="
  BY DEF CmpOpU, CompareOps

\* The same operators the other way round: = becomes <=.
LEMMA CmpOpULEOperators ==
    ASSUME NEW op \in DOMAIN CmpOpULE
    PROVE  op \in CompareOps /\ CmpOpULE[op] \in CompareOps /\ op = "=" /\ CmpOpULE[op] = "<="
  BY DEF CmpOpULE, CompareOps

\* A lower mutation takes equality from <= and >=.
LEMMA CmpOpLOperators ==
    ASSUME NEW op \in DOMAIN CmpOpL
    PROVE  /\ op \in CompareOps /\ CmpOpL[op] \in CompareOps
           /\ \/ op = "<=" /\ CmpOpL[op] = "<"
              \/ op = ">=" /\ CmpOpL[op] = ">"
  BY DEF CmpOpL, CompareOps

\* From a comparison to the quantified one.
LEMMA QuantifiedOrder ==
    ASSUME NEW weak \in CompareOps, NEW strong \in CompareOps,
           NEW x \in Vals, NEW rows \in SUBSET Vals, NEW all \in BOOLEAN,
           \A r \in rows : Compare(strong, x, r) <= Compare(weak, x, r)
    PROVE  CompareSubquery(all, strong, x, rows) <= CompareSubquery(all, weak, x, rows)
  <1>1. \A r \in rows : Compare(strong, x, r) \in D /\ Compare(weak, x, r) \in D
    BY CompareValues
  <1>2. CompareAny(strong, x, rows) <= CompareAny(weak, x, rows)
    BY <1>1 DEF CompareAny, D, F, N, T
  <1>3. CompareAll(strong, x, rows) <= CompareAll(weak, x, rows)
    BY <1>1 DEF CompareAll, D, F, N, T
  <1> QED
    BY <1>2, <1>3 DEF CompareSubquery

\* Over rows, ALL is below ANY.
LEMMA AllBelowAny ==
    ASSUME NEW op \in CompareOps, NEW x \in Vals, NEW rows \in SUBSET Vals, rows # {}
    PROVE  CompareAll(op, x, rows) <= CompareAny(op, x, rows)
  <1>1. \A r \in rows : Compare(op, x, r) \in D
    BY CompareValues
  <1> QED
    BY <1>1 DEF CompareAll, CompareAny, D, F, N, T

\* The direction claimed, relative to the flag of the visit.
Ordered(U, f, before, after) ==
    IF (U = f) = (flag = 1) THEN before <= after ELSE after <= before

\* What is true (a row with several copies) on the smaller side is so on the larger.
Keeps(U, f, before, after) ==
    IF (U = f) = (flag = 1) THEN before = T => after = T ELSE after = T => before = T

\* A candidate of the right types and, where subqueries have rows, of the right
\* direction: of what is kept, and unless the mutation is not ordered of the order.
Mined ==
    \E name \in Mutations, U, f \in {0, 1}, before, after \in D :
        /\ addCandidate(name, U, f, before, after)
        /\ Directed(name) => Ordered(U, f, before, after)
        /\ EmptyRows = FALSE => Keeps(U, f, before, after)

\* What a candidate must show: that it keeps the order, and what it contains.
LEMMA MinedIntro ==
    ASSUME TypeOK, NEW name, NEW U \in {0, 1}, NEW f \in {flag, flip(flag)},
           NEW before \in D, NEW after \in D,
           addCandidate(name, U, f, before, after),
           Directed(name) => Ordered(U, f, before, after),
           EmptyRows = FALSE => Keeps(U, f, before, after)
    PROVE  Mined
  <1>1. name \in Mutations
    BY DEF addCandidate
  <1>2. f \in {0, 1}
    BY DEF TypeOK, flip
  <1> QED
    BY <1>1, <1>2 DEF Mined

\* An upper mutation grows under flag 1, a lower one shrinks, and the reverse under a turned flag.
LEMMA OrderedIntro ==
    ASSUME TypeOK, NEW before, NEW after
    PROVE  /\ before <= after => Ordered(1, flag, before, after)
           /\ after <= before => Ordered(0, flag, before, after)
           /\ after <= before => Ordered(1, flip(flag), before, after)
           /\ before <= after => Ordered(0, flip(flag), before, after)
  BY DEF TypeOK, Ordered, flip

\* What moves in its direction keeps what it had.
LEMMA OrderedKeeps ==
    ASSUME NEW U, NEW f, NEW before \in D, NEW after \in D, Ordered(U, f, before, after)
    PROVE  Keeps(U, f, before, after)
  BY DEF Ordered, Keeps, D, T

\* The four forms in which candidates are added.
LEMMA UpperMined ==
    ASSUME TypeOK, NEW name, NEW before \in D, NEW after \in D,
           addCandidate(name, 1, flag, before, after), EmptyRows = FALSE => before <= after
    PROVE  Mined
  BY MinedIntro, OrderedIntro, OrderedKeeps DEF Directed

\* A lower mutation is right when its node shrinks.
LEMMA LowerMined ==
    ASSUME TypeOK, NEW name, NEW before \in D, NEW after \in D,
           addCandidate(name, 0, flag, before, after), EmptyRows = FALSE => after <= before
    PROVE  Mined
  BY MinedIntro, OrderedIntro, OrderedKeeps DEF Directed

\* Under a turned flag an upper mutation is right when its node shrinks,
LEMMA NegatedMined ==
    ASSUME TypeOK, NEW name, NEW before \in D, NEW after \in D,
           addCandidate(name, 1, flip(flag), before, after), EmptyRows = FALSE => after <= before
    PROVE  Mined
  BY MinedIntro, OrderedIntro, OrderedKeeps DEF Directed

\* and a lower one when it grows.
LEMMA NegatedLowerMined ==
    ASSUME TypeOK, NEW name, NEW before \in D, NEW after \in D,
           addCandidate(name, 0, flip(flag), before, after), EmptyRows = FALSE => before <= after
    PROVE  Mined
  BY MinedIntro, OrderedIntro, OrderedKeeps DEF Directed

\* UNION ALL has all copies of UNION and of its left side.
LEMMA UnionOrder ==
    ASSUME NEW l \in D, NEW r \in D
    PROVE  /\ SetOperation("UNION", l, r) \in D /\ SetOperation("UNION ALL", l, r) \in D
           /\ l <= SetOperation("UNION ALL", l, r)
           /\ SetOperation("UNION", l, r) <= SetOperation("UNION ALL", l, r)
  <1>1. /\ SetOperation("UNION", l, r) = DistinctCopies(l + r)
        /\ SetOperation("UNION ALL", l, r) = Several(l + r)
    BY DEF SetOperation
  <1>2. /\ DistinctCopies(l + r) \in D /\ Several(l + r) \in D
        /\ l <= Several(l + r) /\ DistinctCopies(l + r) <= Several(l + r)
    BY DEF DistinctCopies, Several, D
  <1> QED
    BY <1>1, <1>2

\* The mutations of set operations.
LEMMA SetOprMined ==
    ASSUME TypeOK, miningSetOpr
    PROVE  Mined
  <1>1. PICK l \in D, r \in D :
          LET union == SetOperation("UNION", l, r)
              all == SetOperation("UNION ALL", l, r)
          IN \/ addCandidate("FixMRmUnionAllL", 0, flag, all, l)
             \/ addCandidate("FixMUnionAllU", 1, flag, union, all)
             \/ addCandidate("FixMUnionAllL", 0, flag, all, union)
    BY DEF miningSetOpr
  <1> QED
    BY <1>1, UnionOrder, UpperMined, LowerMined

\* The rows of a select grow with its conditions, and DISTINCT takes copies away.
LEMMA SelectOrder ==
    ASSUME NEW n \in D, NEW where \in D, NEW having \in D, NEW distinct \in BOOLEAN
    PROVE  /\ SelectRows(n, where, having, distinct) \in D
           /\ SelectRows(n, where, having, distinct) <= SelectRows(n, T, having, distinct)
           /\ SelectRows(n, where, having, distinct) <= SelectRows(n, where, T, distinct)
           /\ SelectRows(n, F, having, distinct) <= SelectRows(n, where, having, distinct)
           /\ SelectRows(n, where, F, distinct) <= SelectRows(n, where, having, distinct)
           /\ SelectRows(n, where, having, TRUE) <= SelectRows(n, where, having, FALSE)
  BY DEF SelectRows, DistinctCopies, D, T, F

\* Those of a select: DISTINCT, WHERE and HAVING.
LEMMA SelectMined ==
    ASSUME TypeOK, miningSelectStmt
    PROVE  Mined
  <1>1. PICK n \in D, where \in D, having \in D, distinct \in BOOLEAN, orderByOrWith \in BOOLEAN :
          LET rows == SelectRows(n, where, having, distinct)
          IN \/ /\ distinct
                /\ addCandidate("FixMDistinctU", 1, flag, rows, SelectRows(n, where, having, FALSE))
             \/ /\ ~distinct /\ ~orderByOrWith
                /\ addCandidate("FixMDistinctL", 0, flag, rows, SelectRows(n, where, having, TRUE))
             \/ addCandidate("FixMWhere1U", 1, flag, rows, SelectRows(n, T, having, distinct))
             \/ addCandidate("FixMWhere0L", 0, flag, rows, SelectRows(n, F, having, distinct))
             \/ addCandidate("FixMHaving1U", 1, flag, rows, SelectRows(n, where, T, distinct))
             \/ addCandidate("FixMHaving0L", 0, flag, rows, SelectRows(n, where, F, distinct))
    BY DEF miningSelectStmt
  <1> DEFINE rows == SelectRows(n, where, having, distinct)
  <1>2. T \in D /\ F \in D
    BY DEF D, T, F
  <1>3. /\ rows \in D
        /\ SelectRows(n, T, having, distinct) \in D /\ SelectRows(n, F, having, distinct) \in D
        /\ SelectRows(n, where, T, distinct) \in D /\ SelectRows(n, where, F, distinct) \in D
        /\ SelectRows(n, where, having, TRUE) \in D /\ SelectRows(n, where, having, FALSE) \in D
    BY <1>2, SelectOrder
  <1>4. CASE distinct /\ addCandidate("FixMDistinctU", 1, flag, rows, SelectRows(n, where, having, FALSE))
    <2>1. rows = SelectRows(n, where, having, TRUE)
      BY <1>4
    <2> QED
      BY <1>3, <1>4, <2>1, SelectOrder, UpperMined
  <1>5. CASE ~distinct /\ addCandidate("FixMDistinctL", 0, flag, rows, SelectRows(n, where, having, TRUE))
    <2>1. rows = SelectRows(n, where, having, FALSE)
      BY <1>5
    <2> QED
      BY <1>3, <1>5, <2>1, SelectOrder, LowerMined
  <1>6. CASE \/ addCandidate("FixMWhere1U", 1, flag, rows, SelectRows(n, T, having, distinct))
             \/ addCandidate("FixMHaving1U", 1, flag, rows, SelectRows(n, where, T, distinct))
    <2>1. /\ rows <= SelectRows(n, T, having, distinct)
          /\ rows <= SelectRows(n, where, T, distinct)
      BY SelectOrder
    <2> HIDE DEF rows
    <2> QED
      BY <1>3, <1>6, <2>1, UpperMined
  <1>7. CASE \/ addCandidate("FixMWhere0L", 0, flag, rows, SelectRows(n, F, having, distinct))
             \/ addCandidate("FixMHaving0L", 0, flag, rows, SelectRows(n, where, F, distinct))
    <2>1. /\ SelectRows(n, F, having, distinct) <= rows
          /\ SelectRows(n, where, F, distinct) <= rows
      BY SelectOrder
    <2> HIDE DEF rows
    <2> QED
      BY <1>3, <1>7, <2>1, LowerMined
  <1> QED
    BY <1>1, <1>4, <1>5, <1>6, <1>7

\* Those of ON.
LEMMA JoinMined ==
    ASSUME TypeOK, miningJoin
    PROVE  Mined
  <1>1. PICK n \in D, on \in D :
          LET rows == SelectRows(n, on, T, FALSE)
          IN \/ addCandidate("FixMOn1U", 1, flag, rows, n)
             \/ addCandidate("FixMOn0L", 0, flag, rows, 0)
    BY DEF miningJoin
  <1>2. /\ SelectRows(n, on, T, FALSE) \in D /\ 0 \in D
        /\ SelectRows(n, on, T, FALSE) <= n /\ 0 <= SelectRows(n, on, T, FALSE)
    BY DEF SelectRows, D, T
  <1> QED
    BY <1>1, <1>2, UpperMined, LowerMined

\* Those of comparison operators.
LEMMA ComparisonMined ==
    ASSUME TypeOK, miningBinaryOperationExpr
    PROVE  Mined
  <1>1. PICK a \in Vals, b \in Vals :
          \/ \E op \in DOMAIN CmpOpU :
                addCandidate("FixMCmpOpU", 1, flag, Compare(op, a, b), Compare(CmpOpU[op], a, b))
          \/ \E op \in DOMAIN CmpOpULE :
                addCandidate("FixMCmpOpULE", 1, flag, Compare(op, a, b), Compare(CmpOpULE[op], a, b))
          \/ \E op \in DOMAIN CmpOpL :
                addCandidate("FixMCmpOpL", 0, flag, Compare(op, a, b), Compare(CmpOpL[op], a, b))
          \/ addCandidate("FixMNullEqToLowerL", 0, flag, Compare("<=>", a, b), Compare("=", a, b))
    BY DEF miningBinaryOperationExpr
  <1>2. \A op \in CompareOps \cup {"<=>"} : Compare(op, a, b) \in D
    BY CompareValues
  <1>3. ASSUME NEW op \in DOMAIN CmpOpU,
               addCandidate("FixMCmpOpU", 1, flag, Compare(op, a, b), Compare(CmpOpU[op], a, b))
        PROVE  Mined
    <2>1. /\ op \in CompareOps /\ CmpOpU[op] \in CompareOps
          /\ Compare(op, a, b) <= Compare(CmpOpU[op], a, b)
      BY CompareOrder, CmpOpUOperators
    <2> QED
      BY <1>2, <1>3, <2>1, UpperMined
  <1>4. ASSUME NEW op \in DOMAIN CmpOpULE,
               addCandidate("FixMCmpOpULE", 1, flag, Compare(op, a, b), Compare(CmpOpULE[op], a, b))
        PROVE  Mined
    <2>1. /\ op \in CompareOps /\ CmpOpULE[op] \in CompareOps
          /\ Compare(op, a, b) <= Compare(CmpOpULE[op], a, b)
      BY CompareOrder, CmpOpULEOperators
    <2> QED
      BY <1>2, <1>4, <2>1, UpperMined
  <1>5. ASSUME NEW op \in DOMAIN CmpOpL,
               addCandidate("FixMCmpOpL", 0, flag, Compare(op, a, b), Compare(CmpOpL[op], a, b))
        PROVE  Mined
    <2>1. /\ op \in CompareOps /\ CmpOpL[op] \in CompareOps
          /\ Compare(CmpOpL[op], a, b) <= Compare(op, a, b)
      BY CompareOrder, CmpOpLOperators
    <2> QED
      BY <1>2, <1>5, <2>1, LowerMined
  <1>6. CASE addCandidate("FixMNullEqToLowerL", 0, flag, Compare("<=>", a, b), Compare("=", a, b))
    <2>1. ~Directed("FixMNullEqToLowerL")
      BY DEF Directed
    <2>2. Compare("<=>", a, b) \in D /\ Compare("=", a, b) \in D
      BY <1>2 DEF CompareOps
    <2>3. Compare("=", a, b) = T => Compare("<=>", a, b) = T
      BY DEF Compare, Truth, T, F, N
    <2>4. Keeps(0, flag, Compare("<=>", a, b), Compare("=", a, b))
      BY <2>3 DEF Keeps, TypeOK
    <2> QED
      BY <1>6, <2>1, <2>2, <2>4, MinedIntro
  <1> QED
    BY <1>1, <1>3, <1>4, <1>5, <1>6

\* ANY and ALL are false, unknown or true.
LEMMA SubqueryValues ==
    ASSUME NEW all \in BOOLEAN, NEW op \in CompareOps, NEW x \in Vals, NEW rows \in SUBSET Vals
    PROVE  CompareSubquery(all, op, x, rows) \in D
  BY QuantifierValues DEF CompareSubquery

\* The mutations of quantified comparisons, and of ALL to ANY.
LEMMA QuantifiedMined ==
    ASSUME TypeOK, miningCompareSubqueryExpr
    PROVE  Mined
  <1>1. PICK x \in Vals, rows \in SUBSET Vals, all \in BOOLEAN :
          /\ rows # {} \/ EmptyRows
          /\ \/ \E op \in DOMAIN CmpOpU :
                   addCandidate("FixMCmpOpU", 1, flag, CompareSubquery(all, op, x, rows),
                                CompareSubquery(all, CmpOpU[op], x, rows))
             \/ \E op \in DOMAIN CmpOpULE :
                   addCandidate("FixMCmpOpULE", 1, flag, CompareSubquery(all, op, x, rows),
                                CompareSubquery(all, CmpOpULE[op], x, rows))
             \/ \E op \in DOMAIN CmpOpL :
                   addCandidate("FixMCmpOpL", 0, flag, CompareSubquery(all, op, x, rows),
                                CompareSubquery(all, CmpOpL[op], x, rows))
             \/ \E op \in CompareOps :
                   IF all
                   THEN addCandidate("FixMAllToAnyU", 1, flag, CompareAll(op, x, rows),
                                     CompareAny(op, x, rows))
                   ELSE addCandidate("FixMAnyToAllL", 0, flag, CompareAny(op, x, rows),
                                     CompareAll(op, x, rows))
    BY DEF miningCompareSubqueryExpr
  <1>2. ASSUME NEW op \in DOMAIN CmpOpU,
               addCandidate("FixMCmpOpU", 1, flag, CompareSubquery(all, op, x, rows),
                            CompareSubquery(all, CmpOpU[op], x, rows))
        PROVE  Mined
    <2>1. op \in CompareOps /\ CmpOpU[op] \in CompareOps
      BY CmpOpUOperators
    <2>2. \A r \in rows : Compare(op, x, r) <= Compare(CmpOpU[op], x, r)
      BY CompareOrder, CmpOpUOperators
    <2>3. CompareSubquery(all, op, x, rows) <= CompareSubquery(all, CmpOpU[op], x, rows)
      BY <2>1, <2>2, QuantifiedOrder
    <2> QED
      BY <1>2, <2>1, <2>3, SubqueryValues, UpperMined
  <1>3. ASSUME NEW op \in DOMAIN CmpOpULE,
               addCandidate("FixMCmpOpULE", 1, flag, CompareSubquery(all, op, x, rows),
                            CompareSubquery(all, CmpOpULE[op], x, rows))
        PROVE  Mined
    <2>1. op \in CompareOps /\ CmpOpULE[op] \in CompareOps
      BY CmpOpULEOperators
    <2>2. \A r \in rows : Compare(op, x, r) <= Compare(CmpOpULE[op], x, r)
      BY CompareOrder, CmpOpULEOperators
    <2>3. CompareSubquery(all, op, x, rows) <= CompareSubquery(all, CmpOpULE[op], x, rows)
      BY <2>1, <2>2, QuantifiedOrder
    <2> QED
      BY <1>3, <2>1, <2>3, SubqueryValues, UpperMined
  <1>4. ASSUME NEW op \in DOMAIN CmpOpL,
               addCandidate("FixMCmpOpL", 0, flag, CompareSubquery(all, op, x, rows),
                            CompareSubquery(all, CmpOpL[op], x, rows))
        PROVE  Mined
    <2>1. op \in CompareOps /\ CmpOpL[op] \in CompareOps
      BY CmpOpLOperators
    <2>2. \A r \in rows : Compare(CmpOpL[op], x, r) <= Compare(op, x, r)
      BY CompareOrder, CmpOpLOperators
    <2>3. CompareSubquery(all, CmpOpL[op], x, rows) <= CompareSubquery(all, op, x, rows)
      BY <2>1, <2>2, QuantifiedOrder
    <2> QED
      BY <1>4, <2>1, <2>3, SubqueryValues, LowerMined
  <1>5. ASSUME NEW op \in CompareOps,
               \/ addCandidate("FixMAllToAnyU", 1, flag, CompareAll(op, x, rows),
                               CompareAny(op, x, rows))
               \/ addCandidate("FixMAnyToAllL", 0, flag, CompareAny(op, x, rows),
                               CompareAll(op, x, rows))
        PROVE  Mined
    <2>1. EmptyRows = FALSE => CompareAll(op, x, rows) <= CompareAny(op, x, rows)
      BY <1>1, AllBelowAny
    <2>2. CompareAll(op, x, rows) \in D /\ CompareAny(op, x, rows) \in D
      BY QuantifierValues
    <2> QED
      BY <1>5, <2>1, <2>2, UpperMined, LowerMined
  <1> QED
    BY <1>1, <1>2, <1>3, <1>4, <1>5

\* BETWEEN lies below both of its comparisons, whose negations are comparisons again.
LEMMA BetweenOrder ==
    ASSUME NEW x \in Vals, NEW lo \in Vals, NEW hi \in Vals
    PROVE  /\ Between(x, lo, hi) \in D
           /\ Between(x, lo, hi) <= Compare(">=", x, lo)
           /\ Between(x, lo, hi) <= Compare("<=", x, hi)
           /\ Compare("<", x, lo) = Not3(Compare(">=", x, lo))
           /\ Compare(">", x, hi) = Not3(Compare("<=", x, hi))
  <1>1. Compare(">=", x, lo) \in D /\ Compare("<=", x, hi) \in D
    BY CompareValues DEF CompareOps
  <1>2. /\ Between(x, lo, hi) \in D
        /\ Between(x, lo, hi) <= Compare(">=", x, lo)
        /\ Between(x, lo, hi) <= Compare("<=", x, hi)
    BY <1>1 DEF Between, And3, D
  <1>3. Compare("<", x, lo) = Not3(Compare(">=", x, lo))
    <2>1. CASE x = NULL \/ lo = NULL
      BY <2>1, CompareCases DEF CompareOps, Not3, N
    <2>2. CASE x # NULL /\ lo # NULL
      <3>1. x \in Int /\ lo \in Int
        BY <2>2, ValuesAssumption DEF Vals
      <3> QED
        BY <2>2, <3>1, CompareCases DEF Truth, Not3, F, T
    <2> QED
      BY <2>1, <2>2
  <1>4. Compare(">", x, hi) = Not3(Compare("<=", x, hi))
    <2>1. CASE x = NULL \/ hi = NULL
      BY <2>1, CompareCases DEF CompareOps, Not3, N
    <2>2. CASE x # NULL /\ hi # NULL
      <3>1. x \in Int /\ hi \in Int
        BY <2>2, ValuesAssumption DEF Vals
      <3> QED
        BY <2>2, <3>1, CompareCases DEF Truth, Not3, F, T
    <2> QED
      BY <2>1, <2>2
  <1> QED
    BY <1>2, <1>3, <1>4

\* NOT turns the order.
LEMMA NotOrder ==
    ASSUME NEW v \in D, NEW w \in D, v <= w
    PROVE  Not3(v) \in D /\ Not3(w) \in D /\ Not3(w) <= Not3(v)
  BY DEF Not3, D

\* The mutations of BETWEEN, which drop one of its sides.
LEMMA BetweenMined ==
    ASSUME TypeOK, miningBetweenExpr
    PROVE  Mined
  <1>1. PICK x \in Vals, lo \in Vals, hi \in Vals :
          \/ addCandidate("FixMBetweenDropUpperU", 1, flag, Between(x, lo, hi),
                          Compare(">=", x, lo))
          \/ addCandidate("FixMBetweenDropLowerU", 1, flag, Between(x, lo, hi),
                          Compare("<=", x, hi))
          \/ addCandidate("FixMBetweenDropUpperU", 1, flip(flag), Not3(Between(x, lo, hi)),
                          Compare("<", x, lo))
          \/ addCandidate("FixMBetweenDropLowerU", 1, flip(flag), Not3(Between(x, lo, hi)),
                          Compare(">", x, hi))
    BY DEF miningBetweenExpr
  <1>2. /\ Compare(">=", x, lo) \in D /\ Compare("<=", x, hi) \in D
    BY CompareValues DEF CompareOps
  <1>3. /\ Between(x, lo, hi) \in D
        /\ Between(x, lo, hi) <= Compare(">=", x, lo)
        /\ Between(x, lo, hi) <= Compare("<=", x, hi)
    BY BetweenOrder
  <1>4. /\ Not3(Between(x, lo, hi)) \in D
        /\ Compare("<", x, lo) \in D /\ Compare("<", x, lo) <= Not3(Between(x, lo, hi))
        /\ Compare(">", x, hi) \in D /\ Compare(">", x, hi) <= Not3(Between(x, lo, hi))
    BY <1>2, <1>3, BetweenOrder, NotOrder
  <1> QED
    BY <1>1, <1>2, <1>3, <1>4, UpperMined, NegatedMined

\* That of IN, whose list gets NULL added.
LEMMA InMined ==
    ASSUME TypeOK, miningPatternInExpr
    PROVE  Mined
  <1>1. PICK x \in Vals, list \in SUBSET Vals :
          \/ addCandidate("FixMInNullU", 1, flag, In(x, list), In(x, list \cup {NULL}))
          \/ addCandidate("FixMInNullU", 1, flip(flag), Not3(In(x, list)),
                          Not3(In(x, list \cup {NULL})))
    BY DEF miningPatternInExpr
  <1>2. list \cup {NULL} \in SUBSET Vals
    BY DEF Vals
  <1>3. /\ In(x, list) \in D /\ In(x, list \cup {NULL}) \in D
        /\ In(x, list) <= In(x, list \cup {NULL})
    BY <1>2, InValues, QuantifierOrder DEF In, CompareOps
  <1> QED
    BY <1>1, <1>3, NotOrder, UpperMined, NegatedMined

\* Those of LIKE and REGEXP, whose patterns match more or less.
LEMMA PatternMined ==
    ASSUME TypeOK, NEW upper, NEW lower, miningPattern(upper, lower)
    PROVE  Mined
  <1>1. PICK less \in {F, T}, more \in {F, T} :
          /\ less <= more
          /\ \/ addCandidate(upper, 1, flag, less, more)
             \/ addCandidate(lower, 0, flag, more, less)
             \/ addCandidate(upper, 1, flip(flag), Not3(less), Not3(more))
             \/ addCandidate(lower, 0, flip(flag), Not3(more), Not3(less))
    BY DEF miningPattern
  <1>2. less \in D /\ more \in D
    BY DEF D, F, T
  <1>3. Not3(less) \in D /\ Not3(more) \in D /\ Not3(more) <= Not3(less)
    BY <1>1, <1>2, NotOrder
  <1> QED
    BY <1>1, <1>2, <1>3, UpperMined, LowerMined, NegatedMined, NegatedLowerMined

\* Those of IS NULL.
LEMMA IsNullMined ==
    ASSUME TypeOK, visitIsNullExpr
    PROVE  Mined
  <1>1. PICK isNull \in BOOLEAN :
          \/ addCandidate("FixMIsNullToFalseL", 0, flag, Truth(isNull), F)
          \/ addCandidate("FixMIsNotNullToTrueU", 1, flag, Truth(~isNull), T)
    BY DEF visitIsNullExpr
  <1>2. /\ T \in D /\ F \in D /\ Truth(isNull) \in D /\ Truth(~isNull) \in D
        /\ F <= Truth(isNull) /\ Truth(~isNull) <= T
    BY DEF Truth, T, F, D
  <1> QED
    BY <1>1, <1>2, UpperMined, LowerMined

\* Every candidate the visitor adds moves as its mutation says.
LEMMA MiningIsMined ==
    ASSUME TypeOK, mining
    PROVE  Mined
  BY SetOprMined, SelectMined, JoinMined, ComparisonMined, QuantifiedMined, BetweenMined,
     InMined, PatternMined, IsNullMined
  DEF mining, miningPatternLikeExpr, miningPatternRegexpExpr

-----------------------------------------------------------------------------
(* Theorems.                                                               *)

\* At the root the flag is 1, and the result is the node itself.
LEMMA InitVisitor ==
    ASSUME Init
    PROVE  TypeOK /\ PolaritySound /\ at # "none"
  BY DEF Init, TypeOK, PolaritySound, Grows, Maps, NodeKinds, NoCandidate, D

\* A set operation yields a number of copies.
LEMMA SetOperationValues ==
    ASSUME NEW op \in SetOps, NEW l \in D, NEW r \in D
    PROVE  SetOperation(op, l, r) \in D
  <1>1. CASE op = "EXCEPT"
    <2>1. SetOperation(op, l, r) = IF r > 0 THEN 0 ELSE DistinctCopies(l)
      BY <1>1 DEF SetOperation
    <2>2. DistinctCopies(l) \in D /\ 0 \in D
      BY DEF DistinctCopies, D
    <2> QED
      BY <2>1, <2>2
  <1>2. CASE op # "EXCEPT"
    <2>1. op \in {"UNION", "UNION ALL", "INTERSECT"}
      BY <1>2, ContextAssumption
    <2>2. l <= l
      BY DEF D
    <2> QED
      BY <2>1, <2>2, SetOperationOrder
  <1> QED
    BY <1>1, <1>2

\* Every step keeps the types,
LEMMA StepTypes ==
    ASSUME TypeOK, [Next]_vars
    PROVE  TypeOK'
  <1> DEFINE Typed == \E kind \in NodeKinds, f \in {flag, flip(flag)}, step \in Maps :
                          Visit(kind, f, step)
  <1>1. ASSUME Typed
        PROVE  TypeOK'
    <2>1. PICK kind \in NodeKinds, f \in {flag, flip(flag)}, step \in Maps : Visit(kind, f, step)
      BY <1>1
    <2>2. flag' \in {0, 1}
      BY <2>1 DEF TypeOK, Visit, flip
    <2>3. \A d \in D : ctx[step[d]] \in D
      BY <2>1 DEF TypeOK, Maps
    <2>4. ctx' \in Maps
      BY <2>1, <2>3 DEF Visit, Maps
    <2> QED
      BY <2>1, <2>2, <2>4 DEF TypeOK, Visit
  <1>2. ASSUME PolarVisit
        PROVE  TypeOK'
    <2>1. Typed
      BY <1>2 DEF PolarVisit, Polarity
    <2> QED
      BY <1>1, <2>1
  <1>3. CASE visitSetOprSelectList
    <2>1. PICK kind \in Query, op \in SetOps, other \in D :
            \/ Visit(kind, flag, [d \in D |-> SetOperation(op, d, other)])
            \/ Visit(kind, flag, [d \in D |-> SetOperation(op, other, d)])
      BY <1>3 DEF visitSetOprSelectList
    <2>2. /\ [d \in D |-> SetOperation(op, d, other)] \in Maps
          /\ [d \in D |-> SetOperation(op, other, d)] \in Maps
      BY SetOperationValues DEF Maps
    <2>3. Typed
      BY <2>1, <2>2 DEF Query, NodeKinds
    <2> QED
      BY <1>1, <2>3
  <1>4. CASE visitWithClause \/ visitFuncCallExpr \/ visitSubqueryExpr
    <2>1. PICK kind \in NodeKinds, f \in FuncMaps \cup CteUses \cup ScalarMaps : Visit(kind, flag, f)
      BY <1>4 DEF visitWithClause, visitFuncCallExpr, visitSubqueryExpr, Query, NodeKinds
    <2>2. f \in Maps
      BY ContextAssumption
    <2>3. Typed
      BY <2>1, <2>2
    <2> QED
      BY <1>1, <2>3
  <1>5. CASE visitTableRefClause \/ visitWhereHaving \/ visitJoin \/ visitOnCondition
    BY <1>2, <1>5, QueryVisit
  <1>6. CASE \/ visitBinaryOperationExpr \/ visitUnaryOperationExpr
             \/ visitIsTruthExpr \/ visitParenthesesExpr
    BY <1>2, <1>6, ConditionVisit
  <1>7. CASE visitCompareSubqueryExpr \/ visitPatternInExpr \/ visitExistsSubqueryExpr
    BY <1>2, <1>7, SubqueryVisit
  <1>8. CASE mining
    <2>1. PICK name \in Mutations, U \in {0, 1}, f \in {0, 1}, before \in D, after \in D :
              addCandidate(name, U, f, before, after)
      BY <1>8, MiningIsMined DEF Mined
    <2> QED
      BY <2>1 DEF addCandidate, TypeOK, NodeKinds
  <1>9. CASE UNCHANGED vars
    BY <1>9 DEF vars, TypeOK
  <1> QED
    BY <1>3, <1>4, <1>5, <1>6, <1>7, <1>8, <1>9 DEF Next, visit, Recorded

\* Type correctness of the walk, whatever the maps and mutations.
THEOREM VisitorTypes == Spec => []TypeOK
  <1>1. Init => TypeOK
    BY InitVisitor
  <1>2. TypeOK /\ [Next]_vars => TypeOK'
    BY StepTypes
  <1> QED
    BY <1>1, <1>2, PTL DEF Spec

\* the flag that is the polarity,
LEMMA StepPolarity ==
    ASSUME OrderedContexts, TypeOK, PolaritySound, [Next]_vars
    PROVE  PolaritySound'
  <1>1. CASE visit
    <2>1. PICK kind \in NodeKinds, f \in {0, 1}, step \in Maps : Visit(kind, f, step) /\ Polarity(f, step)
      BY <1>1, VisitIsPolar DEF PolarVisit
    <2> QED
      BY <2>1, VisitKeepsPolarity
  <1>2. CASE mining
    <2>1. UNCHANGED <<flag, ctx>>
      BY <1>2, MiningIsMined DEF Mined, addCandidate
    <2> QED
      BY <2>1 DEF PolaritySound, Grows, Shrinks
  <1>3. CASE UNCHANGED vars
    BY <1>3 DEF vars, PolaritySound, Grows, Shrinks
  <1> QED
    BY <1>1, <1>2, <1>3 DEF Next, Recorded

\* The flag that visit passes down is the polarity of the path: with flag 1 the
\* result of the query grows with the node, with flag 0 it shrinks.
THEOREM FlagIsPolarity ==
    ASSUME OrderedContexts
    PROVE  Spec => []PolaritySound
  <1>1. Init => TypeOK /\ PolaritySound
    BY InitVisitor
  <1>2. TypeOK /\ PolaritySound /\ [Next]_vars => PolaritySound'
    BY StepPolarity
  <1> QED
    BY <1>1, <1>2, VisitorTypes, PTL DEF Spec

\* A candidate moves its own node's value as its U and flag say.
CandidateOrdered ==
    at = "none" /\ ~WeakensNullEq(cand) => Ordered(cand.U, cand.flag, cand.before, cand.after)

\* the direction of the candidate,
LEMMA StepCandidate ==
    ASSUME EmptyRows = FALSE, TypeOK, CandidateOrdered, [Next]_vars
    PROVE  CandidateOrdered'
  <1>1. CASE visit
    <2>1. at' # "none"
      BY <1>1 DEF visit, visitSetOprSelectList, visitWithClause, visitTableRefClause,
         visitWhereHaving, visitJoin, visitOnCondition, visitBinaryOperationExpr,
         visitUnaryOperationExpr, visitIsTruthExpr, visitFuncCallExpr, visitParenthesesExpr,
         visitSubqueryExpr, visitCompareSubqueryExpr, visitPatternInExpr,
         visitExistsSubqueryExpr, Visit, Query
    <2> QED
      BY <2>1 DEF CandidateOrdered
  <1>2. CASE mining
    <2>1. PICK name \in Mutations, U \in {0, 1}, f \in {0, 1}, before \in D, after \in D :
              /\ addCandidate(name, U, f, before, after)
              /\ Directed(name) => Ordered(U, f, before, after)
      BY <1>2, MiningIsMined DEF Mined
    <2> QED
      BY <2>1 DEF CandidateOrdered, addCandidate, Ordered, Directed, WeakensNullEq
  <1>3. CASE UNCHANGED vars
    BY <1>3 DEF vars, CandidateOrdered, WeakensNullEq, Ordered
  <1> QED
    BY <1>1, <1>2, <1>3 DEF Next, Recorded

\* The direction of the node and the polarity of its path are that of the query.
LEMMA DirectionFollows ==
    ASSUME TypeOK, PolaritySound, CandidateOrdered
    PROVE  ImplicationHolds
  <1>1. CASE at = "none" /\ ~WeakensNullEq(cand)
    <2>1. /\ cand.U \in {0, 1} /\ cand.flag \in {0, 1}
          /\ cand.before \in D /\ cand.after \in D /\ flag \in {0, 1}
      BY DEF TypeOK
    <2>2. Ordered(cand.U, cand.flag, cand.before, cand.after)
      BY <1>1 DEF CandidateOrdered
    <2>3. CASE flag = 1
      BY <2>1, <2>2, <2>3 DEF PolaritySound, Grows, Ordered, ImplicationHolds, IsUpper
    <2>4. CASE flag = 0
      BY <2>1, <2>2, <2>4 DEF PolaritySound, Shrinks, Ordered, ImplicationHolds, IsUpper
    <2> QED
      BY <2>1, <2>3, <2>4
  <1>2. CASE at # "none" \/ WeakensNullEq(cand)
    BY <1>2 DEF ImplicationHolds
  <1> QED
    BY <1>1, <1>2

\* So does what is kept, for every mutation.
CandidateKeeps == at = "none" => Keeps(cand.U, cand.flag, cand.before, cand.after)

\* Every step keeps what a candidate contains.
LEMMA StepKeeps ==
    ASSUME EmptyRows = FALSE, TypeOK, CandidateKeeps, [Next]_vars
    PROVE  CandidateKeeps'
  <1>1. CASE visit
    <2>1. at' # "none"
      BY <1>1 DEF visit, visitSetOprSelectList, visitWithClause, visitTableRefClause,
         visitWhereHaving, visitJoin, visitOnCondition, visitBinaryOperationExpr,
         visitUnaryOperationExpr, visitIsTruthExpr, visitFuncCallExpr, visitParenthesesExpr,
         visitSubqueryExpr, visitCompareSubqueryExpr, visitPatternInExpr,
         visitExistsSubqueryExpr, Visit, Query
    <2> QED
      BY <2>1 DEF CandidateKeeps
  <1>2. CASE mining
    <2>1. PICK name \in Mutations, U \in {0, 1}, f \in {0, 1}, before \in D, after \in D :
              addCandidate(name, U, f, before, after) /\ Keeps(U, f, before, after)
      BY <1>2, MiningIsMined DEF Mined
    <2> QED
      BY <2>1 DEF CandidateKeeps, addCandidate, Keeps
  <1>3. CASE UNCHANGED vars
    BY <1>3 DEF vars, CandidateKeeps, Keeps
  <1> QED
    BY <1>1, <1>2, <1>3 DEF Next, Recorded

\* What a node kept its mutation keeps, on the side that is claimed to be the larger:
\* for every mutation and any context, where quantified subqueries have rows.
THEOREM NodesContained ==
    ASSUME EmptyRows = FALSE
    PROVE  Spec => []MutationContained
  <1>1. Init => CandidateKeeps
    BY InitVisitor DEF CandidateKeeps
  <1>2. TypeOK /\ CandidateKeeps /\ [Next]_vars => CandidateKeeps'
    BY StepKeeps
  <1>3. CandidateKeeps => MutationContained
    BY DEF CandidateKeeps, Keeps, MutationContained, IsUpper
  <1> QED
    BY <1>1, <1>2, <1>3, VisitorTypes, PTL DEF Spec

\* The implication oracle is sound: where the contexts keep the order and
\* quantified subqueries have rows, for every mutation but <=> to = the result of every mutated
\* query moves as IsUpper says, so a result that does not is the database's.
THEOREM OracleSound ==
    ASSUME OrderedContexts, EmptyRows = FALSE
    PROVE  Spec => []ImplicationHolds
  <1>1. Init => CandidateOrdered
    BY InitVisitor DEF CandidateOrdered
  <1>2. TypeOK /\ CandidateOrdered /\ [Next]_vars => CandidateOrdered'
    BY StepCandidate
  <1>3. TypeOK /\ PolaritySound /\ CandidateOrdered => ImplicationHolds
    BY DirectionFollows
  <1> QED
    BY <1>1, <1>2, <1>3, VisitorTypes, FlagIsPolarity, PTL DEF Spec
=============================================================================
