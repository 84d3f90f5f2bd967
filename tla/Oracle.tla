------------------------------- MODULE Oracle -------------------------------
(***************************************************************************)
(* mutation/oracle and the routing between its two checks in               *)
(* task/runner.go.  Of a row's columns the numeric check looks at the      *)
(* first: NumberOf[r] is its value, NaN, or NotNumber when it is NULL or   *)
(* text.  NumericRows are the rows in which every column is a number or    *)
(* NULL.                                                                   *)
(***************************************************************************)
EXTENDS Results

CONSTANTS NumberOf, NumericRows, NaN, NotNumber

ASSUME NumberAssumption ==
    /\ NumberOf \in [Rows -> Int \cup {NaN, NotNumber}]
    /\ NumericRows \subseteq Rows

IsNumber(r) == NumberOf[r] # NotNumber

\* >= on floats: never true of NaN.
AtLeast(x, y) == x # NaN /\ y # NaN /\ x >= y

\* A single row of numbers is taken for the result of an aggregate query.
isAggregateResult(result) ==
    Len(result.rows) = 1 /\ result.rows[1] \in NumericRows

SingleNumbers(origin, mutated) ==
    /\ Len(origin.rows) = 1 /\ IsNumber(origin.rows[1])
    /\ Len(mutated.rows) = 1 /\ IsNumber(mutated.rows[1])

\* A mutant: equal values are no containment.
CheckAggregate_Strict(origin, mutated, isUpper) ==
    \/ origin.rows = <<>>
    \/ mutated.rows = <<>>
    \/ /\ SingleNumbers(origin, mutated)
       /\ LET orig == NumberOf[origin.rows[1]]
              mut == NumberOf[mutated.rows[1]]
          IN  IF isUpper THEN ~AtLeast(orig, mut) ELSE ~AtLeast(mut, orig)
    \/ /\ ~SingleNumbers(origin, mutated)
       /\ Check(origin, mutated, isUpper)

\* A mutant: the direction of the mutation is ignored.
CheckAggregate_AnyDirection(origin, mutated, isUpper) ==
    \/ origin.rows = <<>>
    \/ mutated.rows = <<>>
    \/ SingleNumbers(origin, mutated)
    \/ Check(origin, mutated, isUpper)

\* oracle.CheckAggregate: no logical bug.
CheckAggregate(origin, mutated, isUpper) ==
    \/ origin.rows = <<>>
    \/ mutated.rows = <<>>
    \/ /\ SingleNumbers(origin, mutated)
       /\ LET orig == NumberOf[origin.rows[1]]
              mut == NumberOf[mutated.rows[1]]
          IN  IF isUpper THEN AtLeast(mut, orig) ELSE AtLeast(orig, mut)
    \/ /\ ~SingleNumbers(origin, mutated)
       /\ Check(origin, mutated, isUpper)

\* The check of processMutationUnit.
TaskCheck(origin, mutated, isUpper, aggregateMode) ==
    IF aggregateMode \/ isAggregateResult(origin)
      THEN CheckAggregate(origin, mutated, isUpper)
      ELSE Check(origin, mutated, isUpper)

-----------------------------------------------------------------------------
(* What a mutation that makes a query's rows grow (isUpper) or shrink does *)
(* to the result of a correct DBMS, by the kind of query.  MIN and MAX are *)
(* NULL when there is no row to aggregate.                                 *)

Kinds == {"plain", "COUNT", "MAX", "MIN"}

Grows(kind, small, large) ==
    CASE kind = "plain" -> Contained(FlatRows(small), FlatRows(large))
      [] kind = "COUNT" -> AtLeast(NumberOf[large.rows[1]], NumberOf[small.rows[1]])
      [] kind = "MAX" ->
            \/ ~IsNumber(small.rows[1])
            \/ /\ IsNumber(large.rows[1])
               /\ AtLeast(NumberOf[large.rows[1]], NumberOf[small.rows[1]])
      [] kind = "MIN" ->
            \/ ~IsNumber(small.rows[1])
            \/ /\ IsNumber(large.rows[1])
               /\ AtLeast(NumberOf[small.rows[1]], NumberOf[large.rows[1]])

Expected(kind, origin, mutated, isUpper) ==
    IF isUpper THEN Grows(kind, origin, mutated) ELSE Grows(kind, mutated, origin)

\* The results a query of the kind can have.
ResultOf(kind, result) ==
    kind # "plain" =>
        /\ Len(result.rows) = 1
        /\ result.rows[1] \in NumericRows
        /\ kind = "COUNT" => IsNumber(result.rows[1])
=============================================================================
