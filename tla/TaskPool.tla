------------------------------ MODULE TaskPool ------------------------------
(***************************************************************************)
(* task/taskpool.go and the connector pools it runs on.                    *)
(*                                                                         *)
(* RunTaskPool (MySQL, MariaDB, TiDB, OceanBase) and                       *)
(* RunTaskPoolForPostgreSQL are the same dispatcher loop; the variable pg  *)
(* selects what differs between them: what happens to the connector the    *)
(* dispatcher holds when it leaves the loop, whether the pool is closed,   *)
(* and how a failed creation of the pool is cleaned up.                    *)
(*                                                                         *)
(* The dispatcher takes a connector from the pool's channel, tests the two *)
(* limits, and hands connector and task id to a new goroutine, which runs  *)
(* PrepareAndRunTask and puts the connector back.  Each connector owns one *)
(* database (DbPrefix + thread id).  A MySQL task drops it and runs its own *)
(* DDL; in GenMode, and in PostgreSQL always, a task runs on what is there *)
(* and may add to it.  Two tasks on one connector would mix their data.    *)
(*                                                                         *)
(* A critical section of taskPoolResult.lock is one step.                  *)
(***************************************************************************)
EXTENDS Integers, Sequences, FiniteSets

CONSTANTS
    ThreadNum,   \* config.ThreadNum: number of connectors
    MaxTasks,    \* config.MaxTasks, <= 0: no limit
    HasMaxTime,  \* config.MaxTimeS > 0
    IdBound,     \* bound: the clock runs out before IdBound ids are used
    MaxBugs      \* bound: largest ImpoBugsNum of one task

\* InitTaskPoolConfig rejects threadNum <= 0.
ASSUME ConfigAssumption ==
    /\ ThreadNum \in Nat \ {0}
    /\ MaxTasks \in Int
    /\ HasMaxTime \in BOOLEAN
    /\ IdBound \in Nat
    /\ MaxBugs \in Nat

VARIABLES
    pg,              \* TRUE: RunTaskPoolForPostgreSQL, FALSE: RunTaskPool
    genMode,         \* config.GenMode # "", which the PostgreSQL pool does not pass on
    threadPool,      \* ConnectorPool.ThreadPool: a FIFO channel of capacity ThreadNum
    open,            \* connectors with an open connection
    closes,          \* iterations of ConnectorPool.Close
    pc,              \* where the dispatcher is
    conn,            \* the dispatcher's local conn
    expired,         \* time.Since(startTime) >= MaxTimeS
    wg,              \* counter of the WaitGroup
    tpc,             \* where each task's goroutine is
    tconn,           \* the conn each goroutine was started with
    bugs,            \* ImpoBugsNum of the task's result
    db,              \* the tasks that ran DDL in each connector's database since its creation
    TotalTaskNum,    \* TaskPoolResult ...
    FinishedTaskNum,
    ErrorTaskNum,
    ErrorTaskIds,
    BugsNum,
    BugTaskIds,
    resultJson       \* result.json: <<>> before it is written

poolVars == <<pg, genMode, threadPool, open, closes>>
dispVars == <<pc, conn, expired, wg>>
taskVars == <<tpc, tconn, bugs, db>>
resultVars == <<TotalTaskNum, FinishedTaskNum, ErrorTaskNum, ErrorTaskIds, BugsNum, BugTaskIds>>
vars == <<poolVars, dispVars, taskVars, resultVars, resultJson>>

TaskIds == 0 .. (IdBound - 1)
Conns == 0 .. (ThreadNum - 1)
NoConn == -1

DispatcherPcs == {"create", "wait", "time", "limit", "start", "break", "join",
                  "save", "close", "done", "failed"}
TaskPcs == {"idle", "config", "initdb", "exec", "fail", "record", "count",
            "return", "exit", "ended"}

-----------------------------------------------------------------------------
Init ==
    /\ pg \in BOOLEAN
    /\ genMode \in BOOLEAN
    /\ pg => ~genMode
    /\ threadPool = <<>>
    /\ open = {}
    /\ closes = 0
    /\ pc = "create"
    /\ conn = NoConn
    /\ expired = FALSE
    /\ wg = 0
    /\ tpc = [t \in TaskIds |-> "idle"]
    /\ tconn = [t \in TaskIds |-> NoConn]
    /\ bugs = [t \in TaskIds |-> 0]
    /\ db = [c \in Conns |-> {}]
    /\ TotalTaskNum = 0
    /\ FinishedTaskNum = 0
    /\ ErrorTaskNum = 0
    /\ ErrorTaskIds = <<>>
    /\ BugsNum = 0
    /\ BugTaskIds = <<>>
    /\ resultJson = <<>>

-----------------------------------------------------------------------------
(* The dispatcher: NewConnectorPool, the loop, wg.Wait, save, Close.       *)

\* NewConnectorPool / NewPgConnectorPool: connector i is opened and sent to
\* the channel, in the order of i.
NewConnector ==
    /\ pc = "create"
    /\ Len(threadPool) < ThreadNum
    /\ threadPool' = Append(threadPool, Len(threadPool))
    /\ open' = open \cup {Len(threadPool)}
    /\ pc' = IF Len(threadPool) + 1 = ThreadNum THEN "wait" ELSE "create"
    /\ UNCHANGED <<pg, genMode, closes, conn, expired, wg, taskVars, resultVars, resultJson>>

\* Mutant: the connectors opened so far are forgotten.
NewConnectorFails_NoCleanup ==
    /\ pc = "create"
    /\ pc' = "failed"
    /\ UNCHANGED <<poolVars, conn, expired, wg, taskVars, resultVars, resultJson>>

\* An error of NewConnector (or of CREATE DATABASE): the pool runner returns
\* it; NewPgConnectorPool first closes what it had opened.
NewConnectorFails ==
    /\ pc = "create"
    /\ pc' = "failed"
    /\ threadPool' = IF pg THEN <<>> ELSE threadPool
    /\ open' = IF pg THEN {} ELSE open
    /\ UNCHANGED <<pg, genMode, closes, conn, expired, wg, taskVars, resultVars, resultJson>>

\* The channel receive of WaitForFree (the bound stands in for the clock:
\* once IdBound ids are used the loop goes on only after the time limit).
WaitForFree ==
    /\ pc = "wait"
    /\ threadPool # <<>>
    /\ TotalTaskNum < IdBound \/ expired
    /\ conn' = Head(threadPool)
    /\ threadPool' = Tail(threadPool)
    /\ pc' = "time"
    /\ UNCHANGED <<pg, genMode, open, closes, expired, wg, taskVars, resultVars, resultJson>>

\* Mutant: the connector goes back at once, and again when the loop is left.
CheckMaxTime_ReturnsTwice ==
    /\ pc = "time"
    /\ pc' = IF expired THEN "break" ELSE "limit"
    /\ threadPool' = IF expired THEN Append(threadPool, conn) ELSE threadPool
    /\ UNCHANGED <<pg, genMode, open, closes, conn, expired, wg, taskVars, resultVars, resultJson>>

\* Mutant: continue instead of break.
CheckMaxTime_Continues ==
    /\ pc = "time"
    /\ pc' = IF expired THEN "wait" ELSE "limit"
    /\ threadPool' = IF expired THEN Append(threadPool, conn) ELSE threadPool
    /\ conn' = IF expired THEN NoConn ELSE conn
    /\ UNCHANGED <<pg, genMode, open, closes, expired, wg, taskVars, resultVars, resultJson>>

CheckMaxTime ==
    /\ pc = "time"
    /\ pc' = IF expired THEN "break" ELSE "limit"
    /\ UNCHANGED <<poolVars, conn, expired, wg, taskVars, resultVars, resultJson>>

\* Mutant: > for >=.
CheckMaxTasks_OffByOne ==
    /\ pc = "limit"
    /\ pc' = IF MaxTasks > 0 /\ FinishedTaskNum > MaxTasks THEN "break" ELSE "start"
    /\ UNCHANGED <<poolVars, conn, expired, wg, taskVars, resultVars, resultJson>>

\* FinishedTaskNum is read under the lock and used after the unlock.
CheckMaxTasks ==
    /\ pc = "limit"
    /\ pc' = IF MaxTasks > 0 /\ FinishedTaskNum >= MaxTasks THEN "break" ELSE "start"
    /\ UNCHANGED <<poolVars, conn, expired, wg, taskVars, resultVars, resultJson>>

\* Mutant: the loop goes on with the same conn instead of waiting for a free one.
StartTask_KeepsConn ==
    /\ pc = "start"
    /\ tpc' = [tpc EXCEPT ![TotalTaskNum] = "config"]
    /\ tconn' = [tconn EXCEPT ![TotalTaskNum] = conn]
    /\ TotalTaskNum' = TotalTaskNum + 1
    /\ wg' = wg + 1
    /\ pc' = IF TotalTaskNum + 1 < IdBound THEN "time" ELSE "join"
    /\ UNCHANGED <<poolVars, conn, expired, bugs, db, FinishedTaskNum, ErrorTaskNum,
                   ErrorTaskIds, BugsNum, BugTaskIds, resultJson>>

\* Mutant: wg.Add is missing here (it was moved into the goroutine).
StartTask_NoAdd ==
    /\ pc = "start"
    /\ tpc' = [tpc EXCEPT ![TotalTaskNum] = "config"]
    /\ tconn' = [tconn EXCEPT ![TotalTaskNum] = conn]
    /\ TotalTaskNum' = TotalTaskNum + 1
    /\ conn' = NoConn
    /\ pc' = "wait"
    /\ UNCHANGED <<poolVars, expired, wg, bugs, db, FinishedTaskNum, ErrorTaskNum,
                   ErrorTaskIds, BugsNum, BugTaskIds, resultJson>>

\* SELECT 1 succeeds: wg.Add(1) and a goroutine with this conn and taskId.
StartTask ==
    /\ pc = "start"
    /\ tpc' = [tpc EXCEPT ![TotalTaskNum] = "config"]
    /\ tconn' = [tconn EXCEPT ![TotalTaskNum] = conn]
    /\ TotalTaskNum' = TotalTaskNum + 1
    /\ wg' = wg + 1
    /\ conn' = NoConn
    /\ pc' = "wait"
    /\ UNCHANGED <<poolVars, expired, bugs, db, FinishedTaskNum, ErrorTaskNum,
                   ErrorTaskIds, BugsNum, BugTaskIds, resultJson>>

\* SELECT 1 fails: the id is used up, no goroutine runs it.
PingFails ==
    /\ pc = "start"
    /\ TotalTaskNum' = TotalTaskNum + 1
    /\ pc' = "break"
    /\ UNCHANGED <<poolVars, conn, expired, wg, taskVars, FinishedTaskNum, ErrorTaskNum,
                   ErrorTaskIds, BugsNum, BugTaskIds, resultJson>>

\* Mutant: neither runner puts the connector back.
BreakLoop_KeepsConn ==
    /\ pc = "break"
    /\ pc' = "join"
    /\ UNCHANGED <<poolVars, conn, expired, wg, taskVars, resultVars, resultJson>>

\* Leaving the loop: the PostgreSQL runner puts the connector back (a send
\* that blocks while the channel is full), the other one keeps it.
BreakLoop ==
    /\ pc = "break"
    /\ pc' = "join"
    /\ IF pg
         THEN /\ Len(threadPool) < ThreadNum
              /\ threadPool' = Append(threadPool, conn)
              /\ conn' = NoConn
         ELSE UNCHANGED <<threadPool, conn>>
    /\ UNCHANGED <<pg, genMode, open, closes, expired, wg, taskVars, resultVars, resultJson>>

\* Mutant: no wg.Wait before the save.
JoinTasks_NoWait ==
    /\ pc = "join"
    /\ pc' = "save"
    /\ UNCHANGED <<poolVars, conn, expired, wg, taskVars, resultVars, resultJson>>

\* wg.Wait()
JoinTasks ==
    /\ pc = "join"
    /\ wg = 0
    /\ pc' = "save"
    /\ UNCHANGED <<poolVars, conn, expired, wg, taskVars, resultVars, resultJson>>

\* SaveTaskPoolResult; an error is only logged.
SaveTaskPoolResult ==
    /\ pc = "save"
    /\ pc' = IF pg THEN "close" ELSE "done"
    /\ \/ resultJson' = <<[total |-> TotalTaskNum,
                           finished |-> FinishedTaskNum,
                           errors |-> ErrorTaskNum,
                           errorIds |-> ErrorTaskIds,
                           bugs |-> BugsNum,
                           bugIds |-> BugTaskIds]>>
       \/ UNCHANGED resultJson
    /\ UNCHANGED <<poolVars, conn, expired, wg, taskVars, resultVars>>

\* PgConnectorPool.Close: one receive and conn.Close per iteration, ThreadNum
\* of them; the channel is closed after the last.
CloseConnector ==
    /\ pc = "close"
    /\ threadPool # <<>>
    /\ threadPool' = Tail(threadPool)
    /\ open' = open \ {Head(threadPool)}
    /\ closes' = closes + 1
    /\ pc' = IF closes + 1 = ThreadNum THEN "done" ELSE "close"
    /\ UNCHANGED <<pg, genMode, conn, expired, wg, taskVars, resultVars, resultJson>>

-----------------------------------------------------------------------------
(* The goroutine of a task: PrepareAndRunTask[ForPostgreSQL].              *)

Goto(t, from, to) ==
    /\ tpc[t] = from
    /\ tpc' = [tpc EXCEPT ![t] = to]

\* InitTaskConfig and SaveConfig; an error of either returns at once.
PrepareTask(t) ==
    /\ Goto(t, "config", "initdb") \/ Goto(t, "config", "count")
    /\ UNCHANGED <<poolVars, dispVars, tconn, bugs, db, resultVars, resultJson>>

\* InitDBWithDDL is what empties the database before the DDL.
Refills == ~pg /\ ~genMode

\* Who has written to the database after task t prepared it.  InitDBWithDDL
\* drops it first, unless the task fails before that.  In GenMode nothing is
\* dropped, and the default data is loaded only if no table is found; the
\* PostgreSQL task drops nothing and tries each statement of its DDL.
Prepared(t, old, failed) ==
    CASE Refills -> IF failed THEN {old, {t}} ELSE {{t}}
      [] genMode -> {old, old \cup {t}}
      [] pg      -> IF failed THEN {old, old \cup {t}} ELSE {old \cup {t}}

\* RunTask[PostgreSQL] up to the reading of the DML.
InitDB(t) ==
    /\ \E failed \in BOOLEAN :
          /\ Goto(t, "initdb", IF failed THEN "fail" ELSE "exec")
          /\ \E data \in Prepared(t, db[tconn[t]], failed) :
                db' = [db EXCEPT ![tconn[t]] = data]
    /\ UNCHANGED <<poolVars, dispVars, tconn, bugs, resultVars, resultJson>>

\* The rest of RunTask: reading the DML may fail, else some number of bugs.
ExecTask(t) ==
    /\ \/ /\ Goto(t, "exec", "record")
          /\ \E n \in 0 .. MaxBugs : bugs' = [bugs EXCEPT ![t] = n]
       \/ /\ Goto(t, "exec", "fail")
          /\ UNCHANGED bugs
    /\ UNCHANGED <<poolVars, dispVars, tconn, db, resultVars, resultJson>>

\* Mutant: no return after the error, the task is listed as a task with bugs too.
RecordError_FallsThrough(t) ==
    /\ Goto(t, "fail", "count")
    /\ ErrorTaskNum' = ErrorTaskNum + 1
    /\ ErrorTaskIds' = Append(ErrorTaskIds, t)
    /\ BugTaskIds' = Append(BugTaskIds, t)
    /\ UNCHANGED <<poolVars, dispVars, tconn, bugs, db, TotalTaskNum, FinishedTaskNum,
                   BugsNum, resultJson>>

RecordError(t) ==
    /\ Goto(t, "fail", "count")
    /\ ErrorTaskNum' = ErrorTaskNum + 1
    /\ ErrorTaskIds' = Append(ErrorTaskIds, t)
    /\ UNCHANGED <<poolVars, dispVars, tconn, bugs, db, TotalTaskNum, FinishedTaskNum,
                   BugsNum, BugTaskIds, resultJson>>

RecordBugs(t) ==
    /\ Goto(t, "record", "count")
    /\ IF bugs[t] > 0
         THEN /\ BugsNum' = BugsNum + bugs[t]
              /\ BugTaskIds' = Append(BugTaskIds, t)
         ELSE UNCHANGED <<BugsNum, BugTaskIds>>
    /\ UNCHANGED <<poolVars, dispVars, tconn, bugs, db, TotalTaskNum, FinishedTaskNum,
                   ErrorTaskNum, ErrorTaskIds, resultJson>>

\* Mutant: the task is not counted.
CountFinished_NotCounted(t) ==
    /\ Goto(t, "count", "return")
    /\ UNCHANGED <<poolVars, dispVars, tconn, bugs, db, resultVars, resultJson>>

\* The deferred function: count the task, then put the connector back.
CountFinished(t) ==
    /\ Goto(t, "count", "return")
    /\ FinishedTaskNum' = FinishedTaskNum + 1
    /\ UNCHANGED <<poolVars, dispVars, tconn, bugs, db, TotalTaskNum, ErrorTaskNum,
                   ErrorTaskIds, BugsNum, BugTaskIds, resultJson>>

BackToPool(t) ==
    /\ Goto(t, "return", "exit")
    /\ Len(threadPool) < ThreadNum
    /\ threadPool' = Append(threadPool, tconn[t])
    /\ UNCHANGED <<pg, genMode, open, closes, dispVars, tconn, bugs, db, resultVars, resultJson>>

\* wg.Done(), deferred in the goroutine outside PrepareAndRunTask.
WgDone(t) ==
    /\ Goto(t, "exit", "ended")
    /\ wg' = wg - 1
    /\ UNCHANGED <<poolVars, pc, conn, expired, tconn, bugs, db, resultVars, resultJson>>

-----------------------------------------------------------------------------
\* The wall clock passes the time limit.
TimePasses ==
    /\ HasMaxTime
    /\ ~expired
    /\ pc \notin {"done", "failed"}
    /\ expired' = TRUE
    /\ UNCHANGED <<poolVars, pc, conn, wg, taskVars, resultVars, resultJson>>

Dispatcher ==
    \/ NewConnector \/ NewConnectorFails
    \/ WaitForFree \/ CheckMaxTime \/ CheckMaxTasks \/ StartTask \/ PingFails
    \/ BreakLoop \/ JoinTasks \/ SaveTaskPoolResult \/ CloseConnector

Goroutine(t) ==
    \/ PrepareTask(t) \/ InitDB(t) \/ ExecTask(t) \/ RecordError(t)
    \/ RecordBugs(t) \/ CountFinished(t) \/ BackToPool(t) \/ WgDone(t)

\* The runner has returned.
Returned == pc \in {"done", "failed"} /\ UNCHANGED vars

Next ==
    \/ Dispatcher
    \/ \E t \in TaskIds : Goroutine(t)
    \/ TimePasses
    \/ Returned

Spec == Init /\ [][Next]_vars

\* The Go scheduler runs every goroutine that can run, every statement ends
\* (ExecSQL has a timeout), and time passes.
Fairness ==
    /\ WF_vars(Dispatcher)
    /\ \A t \in TaskIds : WF_vars(Goroutine(t))
    /\ WF_vars(TimePasses)

FairSpec == Spec /\ Fairness

-----------------------------------------------------------------------------
(* Properties.                                                             *)

Reports == [total : Nat, finished : Nat, errors : Nat, errorIds : Seq(TaskIds),
            bugs : Nat, bugIds : Seq(TaskIds)]

PoolTypes ==
    /\ pg \in BOOLEAN
    /\ genMode \in BOOLEAN
    /\ threadPool \in Seq(Conns)
    /\ open \in SUBSET Conns
    /\ closes \in 0 .. ThreadNum
    /\ pc \in DispatcherPcs
    /\ conn \in Conns \cup {NoConn}
    /\ expired \in BOOLEAN

TaskTypes ==
    /\ wg \in Int
    /\ tpc \in [TaskIds -> TaskPcs]
    /\ tconn \in [TaskIds -> Conns \cup {NoConn}]
    /\ bugs \in [TaskIds -> 0 .. MaxBugs]
    /\ db \in [Conns -> SUBSET TaskIds]

ResultTypes ==
    /\ TotalTaskNum \in 0 .. IdBound
    /\ FinishedTaskNum \in Nat
    /\ ErrorTaskNum \in Nat
    /\ ErrorTaskIds \in Seq(TaskIds)
    /\ BugsNum \in Nat
    /\ BugTaskIds \in Seq(TaskIds)
    /\ resultJson \in Seq(Reports)

TypeOK == PoolTypes /\ TaskTypes /\ ResultTypes

Elements(s) == {s[i] : i \in 1 .. Len(s)}
NoDuplicates(s) == \A i, j \in 1 .. Len(s) : s[i] = s[j] => i = j

\* The goroutines that still hold their connector.
HoldingPcs == {"config", "initdb", "exec", "fail", "record", "count", "return"}
Holding(t) == tpc[t] \in HoldingPcs

\* "Each thread can only perform one task at the same time": a connector is in
\* the channel once, or with the dispatcher, or with one goroutine, never with
\* two of them.
ConnectorExclusive ==
    /\ NoDuplicates(threadPool)
    /\ conn \notin Elements(threadPool)
    /\ \A t \in TaskIds : Holding(t) => tconn[t] \notin Elements(threadPool) \cup {conn}
    /\ \A t, u \in TaskIds :
          Holding(t) /\ Holding(u) /\ tconn[t] = tconn[u] => t = u

\* While a task executes its statements and until its result is recorded, the
\* database behind its connector is its own: whoever else has written to it came
\* earlier and has given the connector back, and where InitDBWithDDL refills
\* the database nobody else has.
OwnDatabase ==
    \A t \in TaskIds : tpc[t] \in {"exec", "record"} =>
        /\ \A u \in db[tconn[t]] \ {t} : u < t /\ ~Holding(u)
        /\ Refills => db[tconn[t]] = {t}

\* A send of BackToPool finds room: the deferred function of a goroutine and
\* the break of the PostgreSQL dispatcher never block on the channel.
BackToPoolNeverBlocks ==
    (\E t \in TaskIds : tpc[t] = "return") \/ (pg /\ pc = "break")
        => Len(threadPool) < ThreadNum

\* How far the task limit may be overshot.  FinishedTaskNum is compared, not
\* TotalTaskNum, so tasks that are still running do not count (README.md:331:
\* "Maximum number of tasks").
StartBound ==
    MaxTasks > 0 => TotalTaskNum <= MaxTasks + ThreadNum - 1

\* result.json is complete: every goroutine is counted, only an id lost to a
\* failed SELECT 1 is missing, the lists hold an id once and no id twice, and
\* the tasks with bugs are exactly the ones listed.
SavedResultIsComplete ==
    \A i \in 1 .. Len(resultJson) :
        LET r == resultJson[i] IN
        /\ r.finished = Cardinality({t \in TaskIds : tpc[t] # "idle"})
        /\ r.total - r.finished \in {0, 1}
        /\ r.errors = Len(r.errorIds)
        /\ NoDuplicates(r.errorIds \o r.bugIds)
        /\ Elements(r.bugIds) = {t \in TaskIds : bugs[t] > 0}

\* Once result.json is written no late goroutine changes the result it
\* reports (the reason for wg.Wait before the save).
ResultFrozen ==
    [][resultJson # <<>> => UNCHANGED <<resultVars, resultJson>>]_vars

\* Close meets no empty channel: when it starts, every connector is back, and
\* no goroutine is left that could send on the closed channel.
CloseFindsAll ==
    pc = "close" =>
        /\ Len(threadPool) + closes = ThreadNum
        /\ \A t \in TaskIds : tpc[t] \in {"idle", "ended"}

\* RunTaskPoolForPostgreSQL returns with every connection closed, on the error
\* path of the pool's creation too.
PgClosesConnections ==
    pg /\ pc \in {"done", "failed"} => open = {}

-----------------------------------------------------------------------------
(* The inductive invariant from which the safety properties follow.        *)

InLoop == pc \in {"create", "wait", "time", "limit", "start"}

\* What is known at each point of the dispatcher.
Control ==
    /\ pc = "create" => /\ Len(threadPool) < ThreadNum
                        /\ \A i \in 1 .. Len(threadPool) : threadPool[i] < Len(threadPool)
    /\ pc \in {"create", "wait"} => conn = NoConn
    /\ pc \in {"time", "limit", "start", "break"} => conn \in Conns
    /\ pc \notin {"close", "done"} => closes = 0
    /\ pc = "close" => closes < ThreadNum
    /\ pc = "time" => TotalTaskNum < IdBound \/ expired
    /\ pc \in {"limit", "start"} => TotalTaskNum < IdBound
    /\ pc = "create" => TotalTaskNum = 0

\* Ids are handed out in order, and each one handed out has its goroutine
\* (until a failed SELECT 1 ends the loop).
IdsInOrder ==
    /\ \A t \in TaskIds : t >= TotalTaskNum => tpc[t] = "idle"
    /\ InLoop => \A t \in TaskIds : t < TotalTaskNum => tpc[t] # "idle"
    /\ \A t \in TaskIds : tpc[t] # "idle" => tconn[t] \in Conns

\* Only tasks that had the connector have written to its database, and the task
\* that holds the connector is the latest of them.
Writers ==
    \A c \in Conns : \A u \in db[c] : tpc[u] # "idle" /\ tconn[u] = c

HolderIsLatest ==
    \A t, u \in TaskIds :
        Holding(t) /\ tpc[u] # "idle" /\ tconn[u] = tconn[t] => u <= t

Unended == {t \in TaskIds : tpc[t] \notin {"idle", "ended"}}
Counted == {t \in TaskIds : tpc[t] \in {"return", "exit", "ended"}}

\* The two counters that other steps wait on count what they stand for.
CountersExact ==
    /\ wg = Cardinality(Unended)
    /\ FinishedTaskNum = Cardinality(Counted)

\* The task limit, at the points where the stale FinishedTaskNum is used.
StartRoom ==
    /\ StartBound
    /\ MaxTasks > 0 /\ pc = "start" => TotalTaskNum < MaxTasks + ThreadNum - 1

\* All parts of the invariant; PoolInvariant /\ [Next]_vars => PoolInvariant'.
PoolInvariant ==
    /\ TypeOK
    /\ Control
    /\ IdsInOrder
    /\ ConnectorExclusive
    /\ Writers
    /\ HolderIsLatest
    /\ OwnDatabase
    /\ CountersExact
    /\ StartRoom

(* What has become of connectors, goroutines and verdicts by the time the  *)
(* result is saved: the second half of the inductive invariant.            *)

\* No connector is lost: it is in the channel, with the dispatcher or with a
\* goroutine, until Close takes one after the other.
Accounted ==
    /\ pc = "create" => \A i \in 1 .. Len(threadPool) : threadPool[i] = i - 1
    /\ pc \in {"wait", "time", "limit", "start", "break", "join", "save"} =>
          \A c \in Conns : \/ c \in Elements(threadPool) \cup {conn}
                           \/ \E t \in TaskIds : Holding(t) /\ tconn[t] = c
    /\ pg /\ pc \in {"join", "save"} => conn = NoConn
    /\ pc = "close" => /\ Len(threadPool) + closes = ThreadNum
                       /\ open \subseteq Elements(threadPool)
    /\ pc = "close" => pg
    /\ pg /\ pc \in {"done", "failed"} => open = {}

\* At most the last id has no goroutine, and once the dispatcher has waited
\* every goroutine has ended.
Joined ==
    /\ \A t \in TaskIds : t < TotalTaskNum - 1 => tpc[t] # "idle"
    /\ pc \in {"save", "close", "done"} => \A t \in TaskIds : tpc[t] \in {"idle", "ended"}

Recorded(t) == tpc[t] \in {"count", "return", "exit", "ended"}

\* A task is in one list at most, once, and in the list of tasks with bugs
\* exactly if it has recorded bugs.
Verdicts ==
    /\ ErrorTaskNum = Len(ErrorTaskIds)
    /\ NoDuplicates(ErrorTaskIds) /\ NoDuplicates(BugTaskIds)
    /\ \A t \in Elements(ErrorTaskIds) : Recorded(t) /\ bugs[t] = 0
    /\ \A t \in Elements(BugTaskIds) : Recorded(t) /\ bugs[t] > 0
    /\ \A t \in TaskIds : bugs[t] > 0 =>
          tpc[t] = "record" \/ (Recorded(t) /\ t \in Elements(BugTaskIds))

\* What result.json says is still so.
ReportCurrent ==
    resultJson # <<>> =>
        /\ pc \in {"close", "done"}
        /\ resultJson = <<[total |-> TotalTaskNum,
                           finished |-> FinishedTaskNum,
                           errors |-> ErrorTaskNum,
                           errorIds |-> ErrorTaskIds,
                           bugs |-> BugsNum,
                           bugIds |-> BugTaskIds]>>

ResultInvariant ==
    /\ PoolInvariant
    /\ Accounted
    /\ Joined
    /\ Verdicts
    /\ ReportCurrent

\* With a task limit or a time limit the pool runner returns.
PoolReturns == <>(pc \in {"done", "failed"})

\* The pool keeps the promise of TaskLedger.
Ledger == INSTANCE TaskLedger WITH
    TaskIds <- TaskIds,
    Width <- ThreadNum,
    StartLimit <- IF MaxTasks > 0 THEN MaxTasks + ThreadNum - 1 ELSE IdBound,
    started <- {t \in TaskIds : tpc[t] # "idle"},
    ended <- {t \in TaskIds : tpc[t] \in {"return", "exit", "ended"}},
    failed <- Elements(ErrorTaskIds),
    buggy <- Elements(BugTaskIds),
    report <- {[finished |-> r.finished,
                failed |-> Elements(r.errorIds),
                buggy |-> Elements(r.bugIds)] : r \in Elements(resultJson)}

\* Every behaviour of the pool is, seen through started, finished and recorded
\* tasks, a behaviour of the ledger.
ImplementsLedger == Ledger!LedgerSpec
=============================================================================
