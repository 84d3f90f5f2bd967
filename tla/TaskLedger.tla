----------------------------- MODULE TaskLedger -----------------------------
(***************************************************************************)
(* What a task pool promises to whoever reads its result.json, with no     *)
(* connectors, goroutines or locks: tasks are started under fresh ids,     *)
(* never more at once than there are threads and never more in all than    *)
(* the limit allows; each one ends with one verdict; the report is written *)
(* once, when nothing is running, and lists exactly the verdicts.          *)
(* TaskPool implements this specification.                                 *)
(***************************************************************************)
EXTENDS Integers, FiniteSets

CONSTANTS
    TaskIds,     \* the ids a pool may hand out
    Width,       \* the number of tasks that may run at the same time
    StartLimit   \* the number of tasks that may be started in all

VARIABLES
    started,     \* ids of the tasks handed to a goroutine
    ended,       \* ids of the tasks that are counted as finished
    failed,      \* ids of the tasks that ended with an error
    buggy,       \* ids of the tasks that reported bugs
    report       \* the written reports: none, or one

ledgerVars == <<started, ended, failed, buggy, report>>

Running == started \ ended

LedgerInit ==
    /\ started = {}
    /\ ended = {}
    /\ failed = {}
    /\ buggy = {}
    /\ report = {}

Start ==
    /\ report = {}
    /\ \E t \in TaskIds \ started :
          /\ started' = started \cup {t}
          /\ Cardinality(Running') <= Width
          /\ Cardinality(started') <= StartLimit
    /\ UNCHANGED <<ended, failed, buggy, report>>

\* A running task gets at most one verdict.
Fail ==
    /\ \E t \in Running \ (failed \cup buggy) : failed' = failed \cup {t}
    /\ UNCHANGED <<started, ended, buggy, report>>

FindBugs ==
    /\ \E t \in Running \ (failed \cup buggy) : buggy' = buggy \cup {t}
    /\ UNCHANGED <<started, ended, failed, report>>

End ==
    /\ \E t \in Running : ended' = ended \cup {t}
    /\ UNCHANGED <<started, failed, buggy, report>>

Publish ==
    /\ report = {}
    /\ Running = {}
    /\ report' = {[finished |-> Cardinality(ended), failed |-> failed, buggy |-> buggy]}
    /\ UNCHANGED <<started, ended, failed, buggy>>

LedgerNext == Start \/ Fail \/ FindBugs \/ End \/ Publish

LedgerSpec == LedgerInit /\ [][LedgerNext]_ledgerVars
=============================================================================
