---------------------------- MODULE MCBugPipeline ----------------------------
(* An instance of BugPipeline: each task has found a bug of its own.    *)
EXTENDS BugPipeline, TLC

CONSTANTS b1, b2

\* The bug of the first task is reported last.
Times == [p \in {1, 2} \X {b1, b2} |-> IF p[1] = 1 THEN 2 ELSE 1]

TwoTasks == << {b1}, {b2} >>
=============================================================================
