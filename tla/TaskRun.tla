------------------------------- MODULE TaskRun -------------------------------
(***************************************************************************)
(* The four task runners - RunTask, RunTaskPostgreSQL, RunTaskGaussDB and  *)
(* RunTaskGaussDBA of task/ - with processMutationUnit of task/runner.go   *)
(* and the mutation statistics of mutation/stage2/mutation_stats.go.       *)
(*                                                                         *)
(* A task sets up a directory, a connection and a database, and then takes *)
(* one statement after the other, has every mutation of it executed, and   *)
(* goes through the results: it counts errors, asks the oracle about the   *)
(* others, and writes a report for every bug to its directory.  Tasks that *)
(* run at the same time share nothing but the statistics, which order the  *)
(* mutations of a statement.                                               *)
(*                                                                         *)
(* A step is what a task does between two calls of the DBMS.               *)
(***************************************************************************)
EXTENDS Oracle

CONSTANTS
    Tasks,
    Lone,            \* the task that runs without a pool
    Names,           \* the mutations
    QueryKinds,      \* the kinds of query that occur
    MaxDml,          \* statements of a task
    Configs,         \* the configurations that a session may have
    \* for each of them:
    Outcomes,        \* the results of executed queries
    Units,           \* the mutated queries and their results
    MaxUnits         \* mutations of a statement

DBMSs == {"mysql", "postgresql", "gaussdb_m", "gaussdb_a"}

\* publicConn: the task is given a connection of a pool; removable: the operating
\* system lets the task remove the directory of an earlier run and make its own.
Config == [dbms : DBMSs, genMode : BOOLEAN, publicConn : BOOLEAN, aggregateMode : BOOLEAN,
           removable : BOOLEAN]

Unit == [name : Names, isUpper : BOOLEAN, err : BOOLEAN, exec : ResultSet, expected : BOOLEAN]

ASSUME TaskRunAssumption ==
    /\ IsFiniteSet(Tasks) /\ Lone \in Tasks
    /\ IsFiniteSet(Names)
    /\ Outcomes \in [Configs -> SUBSET ResultSet]
    /\ Units \in [Configs -> SUBSET Unit]
    /\ QueryKinds \subseteq Kinds
    /\ Configs \subseteq Config
    /\ \A c \in Configs : c.publicConn =>
          c.dbms = "mysql" \/ (c.dbms = "postgresql" /\ ~c.genMode)
    /\ MaxDml \in Nat
    /\ MaxUnits \in [Configs -> Nat]

VARIABLES
    pc,         \* where each task is
    sqlId,      \* the statement it is at
    kind,       \* the kind of that statement's query
    original,   \* the result of the statement before mutation
    units,      \* its mutations that are not dealt with yet, the current one first
    check,      \* what the oracle said of the current one
    taskResult, \* TaskResult
    bugs,       \* the reports in the task's directory
    resultFile, \* whether the directory has result.json, and its content
    stats,      \* GlobalMutationStats
    conn,       \* the connection of each task
    database,   \* its database: "old" tables, or what its DDL statements have made: "new"
                \* tables if none failed, else "partial", or each was "tried"
    config      \* TaskConfig, the same for all tasks

setup == <<conn, database, config>>
local == <<sqlId, kind, original, units, check>>
vars == <<pc, local, taskResult, bugs, resultFile, stats, setup>>

NoResult == [err |-> FALSE, cols |-> 0, rows |-> <<>>]

NewTaskResult ==
    [Stage1ErrNum |-> 0, Stage1ExecErrNum |-> 0, Stage1SkippedNum |-> 0, Stage2ErrNum |-> 0,
     Stage2UnitNum |-> 0, Stage2UnitErrNum |-> 0, Stage2UnitExecErrNum |-> 0, ImpoBugsNum |-> 0, SaveBugErrNum |-> 0,
     ErrorOracleBugsNum |-> 0, FalsePositiveDetails |-> <<>>]

\* A report of an earlier run of the task.
OldReport == [bugId |-> 0, sqlId |-> 0, name |-> "old", kind |-> "plain", isUpper |-> TRUE,
              original |-> NoResult, mutated |-> NoResult, isErrorOracle |-> FALSE]

Init ==
    /\ pc = [t \in Tasks |-> "start"]
    /\ sqlId = [t \in Tasks |-> 0]
    /\ kind = [t \in Tasks |-> "plain"]
    /\ original = [t \in Tasks |-> NoResult]
    /\ units = [t \in Tasks |-> <<>>]
    /\ check = [t \in Tasks |-> TRUE]
    /\ taskResult = [t \in Tasks |-> NewTaskResult]
    /\ bugs = [t \in Tasks |-> {OldReport}]
    /\ resultFile = [t \in Tasks |-> {NewTaskResult}]
    /\ stats = [n \in Names |-> [TotalRuns |-> 0, BugsFound |-> 0, ExecErrors |-> 0]]
    /\ conn = [t \in Tasks |-> "none"]
    /\ database = [t \in Tasks |-> "unknown"]
    /\ config \in Configs

Goto(t, label) == pc' = [pc EXCEPT ![t] = label]

Count(t, result) == taskResult' = [taskResult EXCEPT ![t] = result]

-----------------------------------------------------------------------------
(* The statistics.                                                         *)

One(condition) == IF condition THEN 1 ELSE 0

RecordResult(n, foundBug, execError) ==
    stats' = [stats EXCEPT ![n] =
        [TotalRuns |-> @.TotalRuns + 1,
         BugsFound |-> @.BugsFound + One(foundBug),
         ExecErrors |-> @.ExecErrors + One(execError)]]

Unknown(n) == stats[n].TotalRuns = 0

\* A mutant: an equal rate goes before.
HitsMore_OrEqual(m, n) ==
    stats[m].BugsFound * stats[n].TotalRuns >= stats[n].BugsFound * stats[m].TotalRuns

HitsMore(m, n) == stats[m].BugsFound * stats[n].TotalRuns > stats[n].BugsFound * stats[m].TotalRuns

\* The comparison PrioritizeUnits sorts by.
Before(u, v) ==
    \/ ~u.err /\ v.err
    \/ /\ u.err = v.err
       /\ \/ Unknown(u.name) /\ ~Unknown(v.name)
          \/ /\ ~Unknown(u.name) /\ ~Unknown(v.name)
             /\ \/ HitsMore(u.name, v.name)
                \/ /\ ~HitsMore(v.name, u.name)
                   /\ stats[u.name].ExecErrors < stats[v.name].ExecErrors

\* A stable sort: the place of us[j] is one after everything that goes before it.
PrioritizeUnits(us) ==
    LET place(j) == 1 + Cardinality({k \in DOMAIN us :
                            Before(us[k], us[j]) \/ (k < j /\ ~Before(us[j], us[k]))})
    IN  [p \in DOMAIN us |-> us[CHOOSE j \in DOMAIN us : place(j) = p]]

-----------------------------------------------------------------------------
(* The set-up.                                                             *)

\* A mutant: the directory of an earlier run is kept.
NewDirectory_Kept(t) == UNCHANGED <<bugs, resultFile>>

\* RemoveAll and MkdirAll of the task's directory, whose errors are discarded:
\* any of the old files may then still be there.
NewDirectory(t) ==
    \E kept \in SUBSET bugs[t], file \in SUBSET resultFile[t] :
        /\ config.removable => kept = {} /\ file = {}
        /\ bugs' = [bugs EXCEPT ![t] = kept]
        /\ resultFile' = [resultFile EXCEPT ![t] = file]

\* The tasks of a pool share its connections; a task without a pool is alone.
Running == IF config.publicConn THEN Tasks ELSE {Lone}

\* The log file or the connection may fail.
StartTask(t) ==
    /\ t \in Running
    /\ pc[t] = "start"
    /\ NewDirectory(t)
    /\ \/ /\ conn' = [conn EXCEPT ![t] = IF config.publicConn THEN "public" ELSE "own"]
          /\ Goto(t, "setup")
       \/ /\ Goto(t, "failed")
          /\ UNCHANGED conn
    /\ UNCHANGED <<local, taskResult, stats, database, config>>

Ready(t, contents) ==
    /\ database' = [database EXCEPT ![t] = contents]
    /\ Goto(t, "statement")

\* Before the statements that build the tables, or after some or all of them.
Failed(t) ==
    /\ Goto(t, "failed")
    /\ \E contents \in {"unknown", "partial"} : database' = [database EXCEPT ![t] = contents]

\* Every statement is tried, and a failure logged.
LoadDefaultTestData(t) == Ready(t, "tried")

\* The first DDL statement that fails ends the task.
InitMysql(t) ==
    \/ config.genMode /\ (Ready(t, "old") \/ LoadDefaultTestData(t))
    \/ ~config.genMode /\ Ready(t, "new")

\* A DDL statement that fails is logged.
ExecDDL(t) == Ready(t, "tried")

\* There must be tables to generate queries for.
InitPostgreSQL(t) ==
    \/ config.genMode /\ Ready(t, "old")
    \/ ~config.genMode /\ ExecDDL(t)

\* GenMode is not looked at.
InitGaussDB(t) == config.dbms \in {"gaussdb_m", "gaussdb_a"} /\ ExecDDL(t)

\* Any file may be missing, and any query that must not fail may fail.
SetUpDatabase(t) ==
    /\ pc[t] = "setup"
    /\ \/ Failed(t)
       \/ config.dbms = "mysql" /\ InitMysql(t)
       \/ config.dbms = "postgresql" /\ InitPostgreSQL(t)
       \/ InitGaussDB(t)
    /\ UNCHANGED <<local, taskResult, bugs, resultFile, stats, conn, config>>

-----------------------------------------------------------------------------
(* The loop over the statements.                                           *)

HasStatement(t) == pc[t] = "statement" /\ sqlId[t] < MaxDml

\* A statement that cannot be parsed, executed or mutated, or, for GaussDB-A,
\* is not looked at.
SkipCounters ==
    {"Stage1ErrNum", "Stage1ExecErrNum", "Stage2ErrNum"}
        \cup (IF config.dbms = "gaussdb_a" THEN {"Stage1SkippedNum"} ELSE {})

SkipStatement(t) ==
    /\ HasStatement(t)
    /\ \E counter \in SkipCounters :
          Count(t, [taskResult[t] EXCEPT ![counter] = @ + 1])
    /\ sqlId' = [sqlId EXCEPT ![t] = @ + 1]
    /\ UNCHANGED <<setup, pc, kind, original, units, check, bugs, resultFile, stats>>

\* Only units whose query is of the kind of the original's.
UnitsOf(k) == {u \in Units[config] : u.err \/ u.exec.err \/ ResultOf(k, u.exec)}

MutateStatement(t) ==
    /\ HasStatement(t)
    /\ \E k \in QueryKinds :
       \E o \in {r \in Outcomes[config] : ~r.err /\ ResultOf(k, r)}, n \in 0 .. MaxUnits[config] :
       \E us \in [1 .. n -> UnitsOf(k)] :
          /\ kind' = [kind EXCEPT ![t] = k]
          /\ original' = [original EXCEPT ![t] = o]
          /\ units' = [units EXCEPT ![t] = PrioritizeUnits(us)]
          /\ Count(t, [taskResult[t] EXCEPT !.Stage2UnitNum = @ + n])
    /\ sqlId' = [sqlId EXCEPT ![t] = @ + 1]
    /\ Goto(t, "unit")
    /\ UNCHANGED <<setup, check, bugs, resultFile, stats>>

EndStatement(t) ==
    /\ pc[t] = "unit"
    /\ units[t] = <<>>
    /\ Goto(t, "statement")
    /\ UNCHANGED <<setup, local, taskResult, bugs, resultFile, stats>>

\* A mutant: the connection of a pool is closed too.
Closes_Always(t) == config.dbms # "mysql"

\* A connection of a pool is left open, and so is one to MySQL.
Closes(t) == conn[t] = "own" /\ config.dbms # "mysql"

\* A mutant: the loop expects a statement more than there are.
FinishTask_OffByOne(t) ==
    /\ pc[t] = "statement"
    /\ sqlId[t] = MaxDml + 1
    /\ resultFile' = [resultFile EXCEPT ![t] = {taskResult[t]}]
    /\ conn' = [conn EXCEPT ![t] = IF Closes(t) THEN "closed" ELSE @]
    /\ Goto(t, "done")
    /\ UNCHANGED <<database, config, local, taskResult, bugs, stats>>

\* SaveTaskResult, of which a failure is only logged and leaves what was there or
\* an empty file, and Close.
FinishTask(t) ==
    /\ pc[t] = "statement"
    /\ sqlId[t] = MaxDml
    /\ \E content \in {{}, resultFile[t], {taskResult[t]}} : resultFile' = [resultFile EXCEPT ![t] = content]
    /\ conn' = [conn EXCEPT ![t] = IF Closes(t) THEN "closed" ELSE @]
    /\ Goto(t, "done")
    /\ UNCHANGED <<database, config, local, taskResult, bugs, stats>>

-----------------------------------------------------------------------------
(* processMutationUnit.                                                    *)

AtUnit(t) == pc[t] = "unit" /\ units[t] # <<>>

unit(t) == Head(units[t])

\* Done with the current unit.
NextUnit(t) ==
    /\ units' = [units EXCEPT ![t] = Tail(@)]
    /\ Goto(t, "unit")

Report(t, bugId, isErrorOracle) ==
    [bugId |-> bugId, sqlId |-> sqlId[t], name |-> unit(t).name, kind |-> kind[t],
     isUpper |-> unit(t).isUpper, original |-> original[t], mutated |-> unit(t).exec,
     isErrorOracle |-> isErrorOracle]

\* SaveBugReport, and what is counted when it fails.
SaveBugReport(t, report, result) ==
    \/ /\ bugs' = [bugs EXCEPT ![t] = @ \cup {report}]
       /\ Count(t, result)
    \/ /\ Count(t, [result EXCEPT !.SaveBugErrNum = @ + 1])
       /\ UNCHANGED bugs

UnitError(t) ==
    /\ AtUnit(t)
    /\ unit(t).err
    /\ Count(t, [taskResult[t] EXCEPT !.Stage2UnitErrNum = @ + 1])
    /\ NextUnit(t)
    /\ UNCHANGED <<setup, sqlId, kind, original, check, bugs, resultFile, stats>>

Suspicious(u) == u.isUpper /\ ~u.expected

UnitExecError(t) ==
    /\ AtUnit(t)
    /\ ~unit(t).err /\ unit(t).exec.err
    /\ Count(t, [taskResult[t] EXCEPT !.Stage2UnitExecErrNum = @ + 1])
    /\ RecordResult(unit(t).name, FALSE, TRUE)
    /\ IF Suspicious(unit(t))
         THEN Goto(t, "reexec") /\ UNCHANGED units
         ELSE NextUnit(t)
    /\ UNCHANGED <<setup, sqlId, kind, original, check, bugs, resultFile>>

\* A mutant: the error that comes back is not recorded.
ReExecute_Unrecorded(t) ==
    /\ pc[t] = "reexec"
    /\ LET bugId == taskResult[t].ImpoBugsNum
       IN  \/ SaveBugReport(t, Report(t, bugId, TRUE),
                    [taskResult[t] EXCEPT !.ImpoBugsNum = @ + 1, !.ErrorOracleBugsNum = @ + 1])
           \/ UNCHANGED <<taskResult, bugs>>
    /\ NextUnit(t)
    /\ UNCHANGED <<setup, sqlId, kind, original, check, resultFile, stats>>

\* The error comes back, an expected one or none does.
ReExecute(t) ==
    /\ pc[t] = "reexec"
    /\ LET bugId == taskResult[t].ImpoBugsNum
       IN  \/ /\ RecordResult(unit(t).name, TRUE, TRUE)
              /\ SaveBugReport(t, Report(t, bugId, TRUE),
                    [taskResult[t] EXCEPT !.ImpoBugsNum = @ + 1, !.ErrorOracleBugsNum = @ + 1])
           \/ UNCHANGED <<taskResult, bugs, stats>>
    /\ NextUnit(t)
    /\ UNCHANGED <<setup, sqlId, kind, original, check, resultFile>>

\* Only RunTask hands the mode on.
AggregateMode == config.dbms = "mysql" /\ config.aggregateMode

CheckUnit(t) ==
    /\ AtUnit(t)
    /\ ~unit(t).err /\ ~unit(t).exec.err
    /\ check' = [check EXCEPT ![t] =
                    TaskCheck(original[t], unit(t).exec, unit(t).isUpper, AggregateMode)]
    /\ Goto(t, "checked")
    /\ UNCHANGED <<setup, sqlId, kind, original, units, taskResult, bugs, resultFile, stats>>

NoBug(t) ==
    /\ pc[t] = "checked"
    /\ check[t]
    /\ RecordResult(unit(t).name, FALSE, FALSE)
    /\ NextUnit(t)
    /\ UNCHANGED <<setup, sqlId, kind, original, check, taskResult, bugs, resultFile>>

LogicalBug(t) ==
    /\ pc[t] = "checked"
    /\ ~check[t]
    /\ Count(t, [taskResult[t] EXCEPT !.ImpoBugsNum = @ + 1])
    /\ RecordResult(unit(t).name, TRUE, FALSE)
    /\ Goto(t, "analyse")
    /\ UNCHANGED <<setup, local, bugs, resultFile>>

\* A mutant: the record takes the number of the next bug.
AnalyseAndSave_NextId(t) ==
    /\ pc[t] = "analyse"
    /\ LET bugId == taskResult[t].ImpoBugsNum - 1
           record == [bugId |-> bugId + 1, sqlId |-> sqlId[t], name |-> unit(t).name]
       IN  \E details \in {taskResult[t].FalsePositiveDetails,
                           Append(taskResult[t].FalsePositiveDetails, record)} :
              SaveBugReport(t, Report(t, bugId, FALSE),
                    [taskResult[t] EXCEPT !.FalsePositiveDetails = details])
    /\ NextUnit(t)
    /\ UNCHANGED <<setup, sqlId, kind, original, check, resultFile, stats>>

\* The false-positive detector fails, suspects the bug or does not.
AnalyseAndSave(t) ==
    /\ pc[t] = "analyse"
    /\ LET bugId == taskResult[t].ImpoBugsNum - 1
           record == [bugId |-> bugId, sqlId |-> sqlId[t], name |-> unit(t).name]
       IN  \E details \in {taskResult[t].FalsePositiveDetails,
                           Append(taskResult[t].FalsePositiveDetails, record)} :
              SaveBugReport(t, Report(t, bugId, FALSE),
                    [taskResult[t] EXCEPT !.FalsePositiveDetails = details])
    /\ NextUnit(t)
    /\ UNCHANGED <<setup, sqlId, kind, original, check, resultFile, stats>>

TaskStep(t) ==
    \/ StartTask(t)
    \/ SetUpDatabase(t)
    \/ SkipStatement(t)
    \/ MutateStatement(t)
    \/ EndStatement(t)
    \/ UnitError(t)
    \/ UnitExecError(t)
    \/ ReExecute(t)
    \/ CheckUnit(t)
    \/ NoBug(t)
    \/ LogicalBug(t)
    \/ AnalyseAndSave(t)
    \/ FinishTask(t)

Next == \E t \in Tasks : TaskStep(t)

\* Every query returns or runs into its timeout, so no task stays where it is.
Fairness == \A t \in Tasks : WF_vars(TaskStep(t))

Spec == Init /\ [][Next]_vars /\ Fairness

-----------------------------------------------------------------------------

\* The task began with an empty directory.
Fresh(t) == config.removable /\ pc[t] # "start"

(* Every bug counted has a report of its own under its number, unless      *)
(* saving it failed and was counted (runner.go:86-107, 135-189): no report *)
(* is overwritten, and none is left from an earlier run of the task, if    *)
(* its directory could be emptied.                                         *)
ReportsNumbered ==
    \A t \in Tasks : Fresh(t) =>
        LET result == taskResult[t]
        IN  /\ Cardinality({r.bugId : r \in bugs[t]}) = Cardinality(bugs[t])
            /\ \A r \in bugs[t] : r.bugId \in 0 .. result.ImpoBugsNum - 1
            /\ Cardinality(bugs[t]) + result.SaveBugErrNum + One(pc[t] = "analyse")
                   = result.ImpoBugsNum

\* The sum of a function's values: as many pairs as its arguments have units.
SumOf(f) == Cardinality(UNION {{x} \X (1 .. f[x]) : x \in DOMAIN f})

Recorded(field) == [n \in Names |-> stats[n][field]]

BugsOf == [t \in Tasks |-> taskResult[t].ImpoBugsNum]

ErrorsOf == [t \in Tasks |-> taskResult[t].Stage2UnitExecErrNum + taskResult[t].ErrorOracleBugsNum]

\* Its run is recorded, but it is still the first of the units.
Underway(t) == IF pc[t] \in {"reexec", "analyse"} THEN 1 ELSE 0

RunsOf ==
    [t \in Tasks |-> taskResult[t].Stage2UnitNum - Len(units[t]) - taskResult[t].Stage2UnitErrNum
                         + taskResult[t].ErrorOracleBugsNum + Underway(t)]

(* The shared statistics agree with what all tasks have counted, however   *)
(* the tasks interleave: the bugs, the errors and the runs recorded are    *)
(* those of the units dealt with so far, an error that came back being     *)
(* recorded twice (runner.go:74-87, 136, 192).  No unit of a statement is  *)
(* dropped or dealt with twice.                                            *)
StatsMatchResults ==
    /\ SumOf(Recorded("BugsFound")) = SumOf(BugsOf)
    /\ SumOf(Recorded("ExecErrors")) = SumOf(ErrorsOf)
    /\ SumOf(Recorded("TotalRuns")) = SumOf(RunsOf)

(* Whatever the tasks record, PrioritizeUnits sorts by a strict weak       *)
(* order, as sort.SliceStable requires (mutation_stats.go:69-101).         *)
UnitsSortable ==
    \A u, v \in [name : Names, err : BOOLEAN] :
        Before(u, v) =>
            /\ ~Before(v, u)
            /\ \A w \in [name : Names, err : BOOLEAN] : Before(u, w) \/ Before(w, v)

(* A record of a suspected false positive names a logical bug of the       *)
(* containment check, by the number its report has (runner.go:152-167).    *)
FalsePositivesAreReports ==
    \A t \in Tasks : \A k \in DOMAIN taskResult[t].FalsePositiveDetails :
        LET record == taskResult[t].FalsePositiveDetails[k]
        IN  /\ record.bugId < taskResult[t].ImpoBugsNum
            /\ \A r \in bugs[t] : Fresh(t) /\ r.bugId = record.bugId =>
                  ~r.isErrorOracle /\ r.sqlId = record.sqlId /\ r.name = record.name

(* result.json is there only after the task has dealt with every           *)
(* statement, and then it counts the reports beside it: a task that is     *)
(* running, or that gave up, has no result.json of an earlier run          *)
(* (task.go:269, 549-555).  Such a task had a database to ask: with MySQL  *)
(* no DDL statement had failed (task.go:438), with PostgreSQL there were   *)
(* tables to generate queries for (postgresql_task.go:68); and the         *)
(* connection, if it came from a pool, is still open for the next task.    *)
ResultMeansFinished ==
    \A t \in Tasks : Fresh(t) /\ resultFile[t] # {} =>
        /\ pc[t] = "done"
        /\ \A result \in resultFile[t] :
              result.ImpoBugsNum - result.SaveBugErrNum = Cardinality(bugs[t])
        /\ config.dbms = "mysql" /\ ~config.genMode => database[t] = "new"
        /\ config.dbms = "postgresql" /\ config.genMode => database[t] = "old"
        /\ config.publicConn <=> conn[t] = "public"

(* Nothing a correct DBMS does is reported: every report of the            *)
(* implication oracle shows two results that contradict the direction of   *)
(* the mutation, for the kind of query it is (oracle.go:9-12 and          *)
(* aggregate_check.go:13-19).                                              *)
NoFalseAlarm ==
    \A t \in Tasks : \A r \in bugs[t] :
        Fresh(t) /\ ~r.isErrorOracle =>
            ~Expected(r.kind, r.original, r.mutated, r.isUpper)

\* Where NoFalseAlarm holds: no MIN and MAX, whose numbers are compared like counts
\* (aggregate_check.go:47); no NaN, which is not even as large as itself; a mutation
\* keeps the columns of its query, and the text of a number, which has no comma, is
\* the first column of its row.
QueriesAreComparable ==
    /\ QueryKinds \subseteq {"plain", "COUNT"}
    /\ \A r \in Rows : NumberOf[r] # NaN
    /\ \A r, s \in Rows :
          IsNumber(r) /\ IsNumber(s) /\ FlatOf[r] = FlatOf[s] => NumberOf[r] = NumberOf[s]
    /\ \A c \in Configs : \A o \in Outcomes[c], u \in Units[c] :
          ~u.err /\ ~u.exec.err /\ ~o.err /\ ~IsEmpty(o) /\ ~IsEmpty(u.exec) => o.cols = u.exec.cols

(* Two results that contradict the direction of the mutation do not pass   *)
(* the oracle (oracle.go:9-12).                                           *)
NoMissedBug ==
    \A t \in Tasks :
        pc[t] = "checked" /\ check[t] =>
            Expected(kind[t], original[t], unit(t).exec, unit(t).isUpper)

(* No COUNT passes that goes the wrong way (aggregate_check.go:13-19).     *)
NoMissedCount ==
    \A t \in Tasks :
        pc[t] = "checked" /\ check[t] /\ kind[t] = "COUNT" =>
            Expected(kind[t], original[t], unit(t).exec, unit(t).isUpper)

(* Every task gets through its statements and stops, unless its set-up     *)
(* fails.                                                                  *)
AllFinish == <>(\A t \in Running : pc[t] \in {"done", "failed"})

-----------------------------------------------------------------------------
(* The inductive invariant: what is known of a task wherever it is.        *)

Pcs == {"start", "setup", "statement", "unit", "reexec", "checked", "analyse", "done", "failed"}

Dealing == {"unit", "reexec", "checked", "analyse"}

Statistics == [TotalRuns : Nat, BugsFound : Nat, ExecErrors : Nat]

FalsePositive == [bugId : Int, sqlId : Nat, name : Names]

TaskResult ==
    [Stage1ErrNum : Nat, Stage1ExecErrNum : Nat, Stage1SkippedNum : Nat, Stage2ErrNum : Nat,
     Stage2UnitNum : Nat, Stage2UnitErrNum : Nat, Stage2UnitExecErrNum : Nat, ImpoBugsNum : Nat,
     SaveBugErrNum : Nat, ErrorOracleBugsNum : Nat, FalsePositiveDetails : Seq(FalsePositive)]

BugReport ==
    [bugId : Int, sqlId : Nat, name : Names \cup {"old"}, kind : Kinds, isUpper : BOOLEAN,
     original : ResultSet, mutated : ResultSet, isErrorOracle : BOOLEAN]

RunTypes ==
    /\ pc \in [Tasks -> Pcs]
    /\ sqlId \in [Tasks -> Nat]
    /\ kind \in [Tasks -> Kinds]
    /\ original \in [Tasks -> ResultSet]
    /\ units \in [Tasks -> Seq(Unit)]
    /\ check \in [Tasks -> BOOLEAN]
    /\ taskResult \in [Tasks -> TaskResult]
    /\ bugs \in [Tasks -> SUBSET BugReport]
    /\ resultFile \in [Tasks -> SUBSET TaskResult]
    /\ stats \in [Names -> Statistics]
    /\ conn \in [Tasks -> {"none", "public", "own", "closed"}]
    /\ database \in [Tasks -> {"unknown", "partial", "tried", "new", "old"}]
    /\ config \in Configs

\* Units are dealt with one at a time, and each label stands for what has been
\* found out about the current one.
AtLabel(t) ==
    /\ pc[t] \in {"start", "setup"} => taskResult[t] = NewTaskResult
    /\ pc[t] \notin Dealing => units[t] = <<>>
    /\ pc[t] \in Dealing \ {"unit"} => units[t] # <<>> /\ ~unit(t).err
    /\ pc[t] = "reexec" => unit(t).exec.err
    /\ pc[t] \in {"checked", "analyse"} =>
           /\ ~unit(t).exec.err
           /\ check[t] = TaskCheck(original[t], unit(t).exec, unit(t).isUpper, AggregateMode)
    /\ pc[t] = "analyse" => ~check[t]
    /\ pc[t] \in Dealing =>
           /\ original[t] \in Outcomes[config] /\ ~original[t].err
           /\ kind[t] \in QueryKinds /\ ResultOf(kind[t], original[t])
           /\ \A k \in DOMAIN units[t] : units[t][k] \in UnitsOf(kind[t])
    /\ Len(units[t]) + taskResult[t].Stage2UnitErrNum <= taskResult[t].Stage2UnitNum

\* No two reports have a number, and the bug that is analysed has none yet.
Numbered(t) ==
    Fresh(t) =>
        /\ IsFiniteSet(bugs[t])
        /\ \A r, s \in bugs[t] : r.bugId = s.bugId => r = s
        /\ \A r \in bugs[t] : r.bugId \in 0 .. taskResult[t].ImpoBugsNum - 1
        /\ pc[t] = "analyse" =>
               /\ taskResult[t].ImpoBugsNum > 0
               /\ \A r \in bugs[t] : r.bugId # taskResult[t].ImpoBugsNum - 1
        /\ Cardinality(bugs[t]) + taskResult[t].SaveBugErrNum + One(pc[t] = "analyse")
               = taskResult[t].ImpoBugsNum

\* A record is about a bug that has been analysed.
Suspected(t) ==
    \A k \in DOMAIN taskResult[t].FalsePositiveDetails :
        LET record == taskResult[t].FalsePositiveDetails[k]
        IN  /\ record.bugId < taskResult[t].ImpoBugsNum - One(pc[t] = "analyse")
            /\ \A r \in bugs[t] : Fresh(t) /\ r.bugId = record.bugId =>
                  ~r.isErrorOracle /\ r.sqlId = record.sqlId /\ r.name = record.name

Finished(t) ==
    pc[t] # "start" =>
        /\ config.removable => /\ resultFile[t] \subseteq {taskResult[t]}
                               /\ pc[t] # "done" => resultFile[t] = {}
        /\ pc[t] \in {"statement", "done"} \cup Dealing =>
               /\ config.dbms = "mysql" /\ ~config.genMode => database[t] = "new"
               /\ config.dbms = "postgresql" /\ config.genMode => database[t] = "old"
        /\ pc[t] # "failed" => (config.publicConn <=> conn[t] = "public")

\* What a report of the implication oracle shows.
Shown(t) ==
    \A r \in bugs[t] : Fresh(t) /\ ~r.isErrorOracle =>
        /\ r.original \in Outcomes[config] /\ ~r.original.err
        /\ r.kind \in QueryKinds /\ ResultOf(r.kind, r.original)
        /\ \E u \in UnitsOf(r.kind) :
               ~u.err /\ u.exec = r.mutated /\ ~u.exec.err /\ u.isUpper = r.isUpper
        /\ ~TaskCheck(r.original, r.mutated, r.isUpper, AggregateMode)

RunInvariant ==
    /\ RunTypes
    /\ \A t \in Tasks : AtLabel(t) /\ Numbered(t) /\ Suspected(t) /\ Finished(t) /\ Shown(t)
    /\ StatsMatchResults
=============================================================================
