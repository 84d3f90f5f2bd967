---------------------------- MODULE FalsePositive ----------------------------
(***************************************************************************)
(* AnalyzePotentialFalsePositive of mutation/oracle/false_positive.go: a   *)
(* bug just detected is looked at again.  Both queries run once for a      *)
(* baseline and ReExecutions times more, and the bug is suspected when it  *)
(* does not come back often enough, when the row counts differ by little,  *)
(* or when the mutation is known for such differences.  Every execution    *)
(* may return something else, or fail.                                     *)
(***************************************************************************)
EXTENDS Results

CONSTANTS
    Outcomes,             \* the results of executed queries
    ReExecutions,
    SmallDiff,            \* smallDiffThreshold
    ThresholdPercent,     \* consistencyThreshold
    Mutations

ASSUME FalsePositiveAssumption ==
    /\ Outcomes \subseteq ResultSet
    /\ ReExecutions \in Nat /\ SmallDiff \in Nat /\ ThresholdPercent \in 0 .. 100

VARIABLES
    detector,     \* the query executed next: "baseOrig", "baseMut", "orig", "mut";
                  \* or "done", "failed"
    mutationName,
    isUpper,
    baseline,     \* the results of the baseline
    origin,       \* the original query's result in this round
    round,        \* rounds of re-execution begun
    consistent,   \* consistentBugCount
    suspected,    \* IsPotentialFalsePositive
    seen          \* history: the pairs of results of the complete rounds

detectorVars ==
    <<detector, mutationName, isUpper, baseline, origin, round, consistent, suspected, seen>>

DetectorInit ==
    /\ detector = "baseOrig"
    /\ mutationName \in Mutations
    /\ isUpper \in BOOLEAN
    /\ baseline = <<>>
    /\ origin = <<>>
    /\ round = 0
    /\ consistent = 0
    /\ suspected = FALSE
    /\ seen = <<>>

abs(x) == IF x < 0 THEN -x ELSE x

isKnownEdgeCase(name, originalRows, mutatedRows) ==
    \/ /\ name \in {"FixMAllToAnyU", "FixMAnyToAllL"}
       /\ (originalRows > 0) # (mutatedRows > 0)
    \/ /\ name = "FixMNullEqToLowerL"
       /\ abs(originalRows - mutatedRows) <= 2

SmallDifference(originalRows, mutatedRows) ==
    abs(originalRows - mutatedRows) \in 1 .. SmallDiff

BaselineOriginal ==
    /\ detector = "baseOrig"
    /\ \E r \in Outcomes :
          /\ baseline' = <<r>>
          /\ detector' = IF r.err THEN "failed" ELSE "baseMut"
    /\ UNCHANGED <<mutationName, isUpper, origin, round, consistent, suspected, seen>>

BaselineMutated ==
    /\ detector = "baseMut"
    /\ \E r \in Outcomes :
          /\ baseline' = Append(baseline, r)
          /\ detector' = IF r.err THEN "failed" ELSE "orig"
          /\ LET originalRows == Len(baseline[1].rows)
                 mutatedRows == Len(r.rows)
             IN  suspected' = (/\ ~r.err
                               /\ \/ SmallDifference(originalRows, mutatedRows)
                                  \/ isKnownEdgeCase(mutationName, originalRows, mutatedRows))
    /\ UNCHANGED <<mutationName, isUpper, origin, round, consistent, seen>>

\* A round whose query fails is skipped.
ReExecuteOriginal ==
    /\ detector = "orig"
    /\ round < ReExecutions
    /\ round' = round + 1
    /\ \E r \in Outcomes :
          IF r.err THEN UNCHANGED <<detector, origin>> ELSE detector' = "mut" /\ origin' = <<r>>
    /\ UNCHANGED <<mutationName, isUpper, baseline, consistent, suspected, seen>>

ReExecuteMutated ==
    /\ detector = "mut"
    /\ \E r \in Outcomes :
          IF r.err
            THEN UNCHANGED <<consistent, seen>>
            ELSE /\ consistent' = IF Check(origin[1], r, isUpper) THEN consistent ELSE consistent + 1
                 /\ seen' = Append(seen, <<origin[1], r>>)
    /\ detector' = "orig"
    /\ origin' = <<>>
    /\ UNCHANGED <<mutationName, isUpper, baseline, round, suspected>>

ConsistentCount == 1 + consistent
TotalExecutions == 1 + ReExecutions

\* A mutant: the first detection is not counted.
Inconsistent_WithoutFirst == 100 * consistent < ThresholdPercent * TotalExecutions

Inconsistent == 100 * ConsistentCount < ThresholdPercent * TotalExecutions

Decide ==
    /\ detector = "orig"
    /\ round = ReExecutions
    /\ suspected' = (suspected \/ Inconsistent)
    /\ detector' = "done"
    /\ UNCHANGED <<mutationName, isUpper, baseline, origin, round, consistent, seen>>

DetectorNext ==
    \/ BaselineOriginal
    \/ BaselineMutated
    \/ ReExecuteOriginal
    \/ ReExecuteMutated
    \/ Decide

DetectorSpec == DetectorInit /\ [][DetectorNext]_detectorVars

-----------------------------------------------------------------------------

Contradicts(pair) == ~Check(pair[1], pair[2], isUpper)

Back == Cardinality({k \in DOMAIN seen : Contradicts(seen[k])})

\* What the baseline shows.
BaselineReason ==
    LET originalRows == Len(baseline[1].rows)
        mutatedRows == Len(baseline[2].rows)
    IN  \/ SmallDifference(originalRows, mutatedRows)
        \/ isKnownEdgeCase(mutationName, originalRows, mutatedRows)

(* A bug that is not suspected came back in two thirds of the executions,  *)
(* failed rounds counting against it, and a suspected one has a reason     *)
(* that its executions show (false_positive.go:10-14).                     *)
SuspicionJustified ==
    detector = "done" =>
        (suspected <=> 3 * (1 + Back) < 2 * (1 + ReExecutions) \/ BaselineReason)

\* With so many executions the percentage stands for two thirds.
ThresholdIsTwoThirds ==
    \A k \in 0 .. ReExecutions :
        100 * (1 + k) < ThresholdPercent * (1 + ReExecutions) <=> 3 * (1 + k) < 2 * (1 + ReExecutions)

-----------------------------------------------------------------------------
(* Why: the inductive invariant.  Until the last decision the suspicion is *)
(* the baseline's, and the rounds that were completed have been counted.   *)

Past == [baseOrig |-> 0, baseMut |-> 1, orig |-> 2, mut |-> 2, done |-> 2]

DetectorInvariant ==
    /\ detector \in DOMAIN Past \cup {"failed"}
    /\ isUpper \in BOOLEAN /\ suspected \in BOOLEAN
    /\ baseline \in Seq(Outcomes) /\ seen \in Seq(Outcomes \X Outcomes)
    /\ detector # "failed" => Len(baseline) = Past[detector]
    /\ detector = "mut" => origin \in Seq(Outcomes) /\ Len(origin) = 1
    /\ round \in 0 .. ReExecutions
    /\ IF detector = "mut" THEN Len(seen) < round ELSE Len(seen) <= round
    /\ consistent = Back
    /\ detector \in {"orig", "mut"} => (suspected <=> BaselineReason)
    /\ SuspicionJustified
=============================================================================
