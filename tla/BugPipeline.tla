----------------------------- MODULE BugPipeline -----------------------------
(***************************************************************************)
(* What happens to the bugs that tasks have reported: tool/ckstable sorts  *)
(* them by whether they come back, tool/sqlsim simplifies the stable ones, *)
(* tool/affversion verifies these on versions of the DBMS and records the  *)
(* outcome in a database - affdbdeployer one version after the other -,    *)
(* and affclassify looks for the version that introduced each bug.         *)
(*                                                                         *)
(* A tool is a process of its own, started on the directory of a task      *)
(* pool.  Its goroutines take one task each, as many at a time as there    *)
(* are connectors, and go through the files of the task.  What they leave  *)
(* behind is all that the next tool sees, also when the process dies.      *)
(*                                                                         *)
(* A step is what a goroutine does with one bug.                           *)
(***************************************************************************)
EXTENDS Integers, FiniteSets, Sequences

CONSTANTS
    Tasks,       \* numbered in the order of their configuration files
    Bugs,
    Found,       \* the bugs each task has reported
    Newest,      \* versions are 1 to Newest, old to new
    ThreadNum,
    WhereStatuses, \* statuses the commands ask for with whereVersionStatus
    ReportTime,  \* when each bug of each task was reported
    MaxCommands, \* bound on the commands given
    NoDir        \* in place of the content of a directory that does not exist

Versions == 1 .. Newest
Kinds == {"logical", "flaky", "error"}

ASSUME BugPipelineAssumption ==
    /\ Tasks \subseteq Nat
    /\ Found \in [Tasks -> SUBSET Bugs]
    /\ Newest \in Nat \ {0}
    /\ ThreadNum \in Nat \ {0}
    /\ WhereStatuses \subseteq {-1, 0, 1}
    /\ ReportTime \in [Tasks \X Bugs -> Nat]
    /\ MaxCommands \in Nat
    /\ \A S \in SUBSET Bugs : NoDir # S

VARIABLES
    command,     \* the command that runs, Idle when none does
    pc,          \* of the goroutine of each task: "waiting", emptying its directories
                 \* ("clearing", "making"), "running", "done"
    todo,        \* the bugs it still has to look at
    failed,      \* whether it has logged an error
    maystable, unstable, sqlsim, \* the task's directories
    records,     \* the rows of affversion.db: their status, by task, bug and version
    vListPairs,  \* affClassify.json: the bugs of each version
    affPack,     \* the directory affclassify: a report for each version
    emptied,     \* whether it has been emptied since affClassify.json was written
    commands,    \* how many commands have been given
    kind,        \* of each bug: whether it is a wrong result, does not always
                 \* come back, or is an unexpected error
    introduced   \* the version that introduced it, for a wrong result

directories == <<maystable, unstable, sqlsim>>
truth == <<kind, introduced>>
classes == <<vListPairs, affPack, emptied>>
vars == <<command, pc, todo, failed, directories, records, classes, commands, truth>>

NoWhere == [version |-> 0, status |-> 0]
Idle == [tool |-> "none", version |-> 0, oldest |-> 0, where |-> NoWhere]
WhereVersionStatus == {NoWhere} \cup [version : Versions, status : WhereStatuses]

\* affdbdeployer is affversion on every version from version to oldest.
Commands ==
    [tool : {"ckstable", "sqlsim"}, version : {Newest}, oldest : {Newest}, where : {NoWhere}]
    \cup {c \in [tool : {"affversion"}, version : Versions, oldest : Versions,
                 where : WhereVersionStatus] :
            c.oldest = c.version \/ (c.oldest < c.version /\ c.where = NoWhere)}

AffClassifyCommand ==
    [tool |-> "affclassify", version |-> Newest, oldest |-> Newest, where |-> NoWhere]

Init ==
    /\ command = Idle
    /\ pc = [t \in Tasks |-> "done"]
    /\ todo = [t \in Tasks |-> {}]
    /\ failed = [t \in Tasks |-> FALSE]
    /\ maystable = [t \in Tasks |-> NoDir]
    /\ unstable = [t \in Tasks |-> NoDir]
    /\ sqlsim = [t \in Tasks |-> NoDir]
    /\ records = [k \in Tasks \X Bugs \X Versions |-> <<>>]
    /\ vListPairs = [v \in Versions |-> {}]
    /\ affPack = [v \in Versions |-> {}]
    /\ emptied = TRUE
    /\ commands = 0
    /\ kind \in [Bugs -> Kinds]
    /\ introduced \in [Bugs -> Versions]
    /\ \A b \in Bugs : kind[b] # "logical" => introduced[b] = 1

(* What executing a bug's two statements on a version may show.  A wrong   *)
(* result does so on every version since the one that introduced it; any   *)
(* statement may run into the timeout or a lost connection.                *)
Outcomes(b, v) ==
    CASE kind[b] = "error" -> {"error"}
      [] kind[b] = "flaky" -> {"bug", "ok", "error"}
      [] kind[b] = "logical" -> {IF v >= introduced[b] THEN "bug" ELSE "ok", "error"}

-----------------------------------------------------------------------------
(* The process.                                                            *)

\* affclassify has nothing more to save for version v.
Saved(v) == vListPairs[v] = {} \/ affPack[v] # {}

Start(c) ==
    /\ command = Idle
    /\ commands < MaxCommands
    /\ commands' = commands + 1
    /\ command' = c
    /\ pc' = [t \in Tasks |-> "waiting"]
    /\ UNCHANGED <<todo, failed, directories, records, classes, truth>>

\* The process ends, whatever its goroutines are doing.
Die ==
    /\ command' = Idle
    /\ pc' = [t \in Tasks |-> "done"]
    /\ todo' = [t \in Tasks |-> {}]
    /\ failed' = [t \in Tasks |-> FALSE]
    /\ UNCHANGED <<directories, records, classes, commands, truth>>

AllDone == command # Idle /\ \A t \in Tasks : pc[t] = "done"

\* Versions that affdbdeployer has not come to cannot be deployed.
Finish ==
    /\ AllDone
    /\ command.tool = "affclassify" => emptied /\ \A v \in Versions : Saved(v)
    /\ Die

\* affdbdeployer goes on to the next older version that can be deployed.
NextImage ==
    /\ AllDone
    /\ \E v \in command.oldest .. command.version - 1 : command' = [command EXCEPT !.version = v]
    /\ pc' = [t \in Tasks |-> "waiting"]
    /\ todo' = [t \in Tasks |-> {}]
    /\ failed' = [t \in Tasks |-> FALSE]
    /\ UNCHANGED <<directories, records, classes, commands, truth>>

Killed == command # Idle /\ Die

\* The tasks before it have been started, and WaitForFree finds a connector.
Waiting(tool, t) ==
    /\ command.tool = tool
    /\ pc[t] = "waiting"
    /\ \A u \in Tasks : u < t => pc[u] # "waiting"
    /\ Cardinality({u \in Tasks : pc[u] \notin {"waiting", "done"}}) < ThreadNum

GoTo(t, label, bugs) ==
    /\ pc' = [pc EXCEPT ![t] = label]
    /\ todo' = [todo EXCEPT ![t] = bugs]
    /\ UNCHANGED <<command, failed, records, classes, commands, truth>>

Begin(t, bugs) == GoTo(t, "running", bugs)

\* What is left of a directory while it is removed, one file after the other:
\* this is what a process that dies then leaves.
Remains(dir) == {NoDir} \cup IF dir = NoDir THEN {} ELSE SUBSET dir

\* The task has nothing for the tool.
Skip(t) ==
    /\ pc' = [pc EXCEPT ![t] = "done"]
    /\ UNCHANGED <<command, todo, failed, directories, records, classes, commands, truth>>

At(tool, label, t) == command.tool = tool /\ pc[t] = label
Running(tool, t) == At(tool, "running", t)

EndTask(t) ==
    /\ pc[t] = "running"
    /\ todo[t] = {}
    /\ Skip(t)

Done(t, b) == todo' = [todo EXCEPT ![t] = @ \ {b}]

\* Any error in a goroutine of ckstable or sqlsim is a panic.
Panic(t) ==
    /\ command.tool \in {"ckstable", "sqlsim"}
    /\ pc[t] \notin {"waiting", "done"}
    /\ Die

-----------------------------------------------------------------------------
(* ckstable.                                                               *)

CheckStableTask(t) ==
    /\ Waiting("ckstable", t)
    /\ \E left \in Remains(maystable[t]) : maystable' = [maystable EXCEPT ![t] = left]
    /\ UNCHANGED <<unstable, sqlsim>>
    /\ GoTo(t, "clearing", {})

MakeMayStable(t) ==
    /\ At("ckstable", "clearing", t)
    /\ maystable' = [maystable EXCEPT ![t] = {}]
    /\ \E left \in Remains(unstable[t]) : unstable' = [unstable EXCEPT ![t] = left]
    /\ UNCHANGED sqlsim
    /\ GoTo(t, "making", {})

\* A mutant: unstable keeps what an earlier run put there.
MakeUnstable_Keeps(t) ==
    /\ At("ckstable", "making", t)
    /\ unstable' = [unstable EXCEPT ![t] = IF @ = NoDir THEN {} ELSE @]
    /\ UNCHANGED <<maystable, sqlsim>>
    /\ Begin(t, Found[t])

MakeUnstable(t) ==
    /\ At("ckstable", "making", t)
    /\ unstable' = [unstable EXCEPT ![t] = {}]
    /\ UNCHANGED <<maystable, sqlsim>>
    /\ Begin(t, Found[t])

\* A mutant: a statement that fails counts as the bug coming back.
CheckStable_ErrorIsStable(t) ==
    /\ Running("ckstable", t)
    /\ \E b \in todo[t] :
          /\ \/ /\ Outcomes(b, Newest) \cap {"bug", "error"} # {}
                /\ maystable' = [maystable EXCEPT ![t] = @ \cup {b}]
                /\ UNCHANGED unstable
             \/ /\ "ok" \in Outcomes(b, Newest)
                /\ unstable' = [unstable EXCEPT ![t] = @ \cup {b}]
                /\ UNCHANGED maystable
          /\ Done(t, b)
    /\ UNCHANGED <<command, pc, failed, sqlsim, records, classes, commands, truth>>

\* The bug comes back every time, or some execution shows no bug or fails.
CheckStable(t) ==
    /\ Running("ckstable", t)
    /\ \E b \in todo[t] :
          /\ \/ /\ "bug" \in Outcomes(b, Newest)
                /\ maystable' = [maystable EXCEPT ![t] = @ \cup {b}]
                /\ UNCHANGED unstable
             \/ /\ Outcomes(b, Newest) # {"bug"}
                /\ unstable' = [unstable EXCEPT ![t] = @ \cup {b}]
                /\ UNCHANGED maystable
          /\ Done(t, b)
    /\ UNCHANGED <<command, pc, failed, sqlsim, records, classes, commands, truth>>

-----------------------------------------------------------------------------
(* sqlsim.                                                                 *)

SqlSimTask(t) ==
    /\ Waiting("sqlsim", t)
    /\ IF maystable[t] = NoDir
         THEN Skip(t)
         ELSE /\ \E left \in Remains(sqlsim[t]) : sqlsim' = [sqlsim EXCEPT ![t] = left]
              /\ UNCHANGED <<maystable, unstable>>
              /\ GoTo(t, "clearing", {})

MakeSqlSim(t) ==
    /\ At("sqlsim", "clearing", t)
    /\ sqlsim' = [sqlsim EXCEPT ![t] = {}]
    /\ UNCHANGED <<maystable, unstable>>
    /\ Begin(t, maystable[t])

\* A bug one of whose statements fails now is left out.
SqlSim(t) ==
    /\ Running("sqlsim", t)
    /\ \E b \in todo[t] :
          /\ \/ "error" \in Outcomes(b, Newest) /\ UNCHANGED sqlsim
             \/ /\ Outcomes(b, Newest) # {"error"}
                /\ sqlsim' = [sqlsim EXCEPT ![t] = @ \cup {b}]
          /\ Done(t, b)
    /\ UNCHANGED <<command, pc, failed, maystable, unstable, records, classes, commands, truth>>

-----------------------------------------------------------------------------
(* affversion.                                                             *)

StatusOf(t, b, v) == {records[<<t, b, v>>][k] : k \in DOMAIN records[<<t, b, v>>]}

getBugsFromDB(t, where) == {b \in Bugs : where.status \in StatusOf(t, b, where.version)}

\* A mutant: bugs that have a record are not left out.
filterExists_All(t, version, bugs) == bugs

filterExists(t, version, bugs) == {b \in bugs : records[<<t, b, version>>] = <<>>}

\* With whereVersionStatus the error of the query is lost (it is assigned to
\* a variable of the inner scope) and no bug is verified.
AffVersionTask(t) ==
    /\ Waiting("affversion", t)
    /\ IF sqlsim[t] = NoDir
         THEN Skip(t)
         ELSE /\ \E bugs \in IF command.where = NoWhere THEN {sqlsim[t]}
                             ELSE {getBugsFromDB(t, command.where), {}} :
                    Begin(t, filterExists(t, command.version, bugs))
              /\ UNCHANGED directories

Fail(t) ==
    /\ failed' = [failed EXCEPT ![t] = TRUE]
    /\ pc' = [pc EXCEPT ![t] = "done"]
    /\ UNCHANGED <<command, todo, directories, records, classes, commands, truth>>

\* The database cannot be read or initialised.
AffVersionFails(t) ==
    /\ Running("affversion", t)
    /\ Fail(t)

Status(outcome) == CASE outcome = "bug" -> 1 [] outcome = "ok" -> 0 [] outcome = "error" -> -1

\* A mutant: no record is made of a statement that fails.
doVerify_SkipsErrors(t) ==
    /\ Running("affversion", t)
    /\ \E b \in todo[t] :
          IF b \notin sqlsim[t]
            THEN Fail(t)
            ELSE /\ \E outcome \in Outcomes(b, command.version) :
                       records' = IF outcome = "error" THEN records
                                  ELSE [records EXCEPT ![<<t, b, command.version>>] =
                                            Append(@, Status(outcome))]
                 /\ Done(t, b)
                 /\ UNCHANGED <<command, pc, failed, directories, classes, commands, truth>>

\* A report that is no longer there ends the task.
doVerify(t) ==
    /\ Running("affversion", t)
    /\ \E b \in todo[t] :
          IF b \notin sqlsim[t]
            THEN Fail(t)
            ELSE /\ \E outcome \in Outcomes(b, command.version) :
                       records' = [records EXCEPT ![<<t, b, command.version>>] =
                                       Append(@, Status(outcome))]
                 /\ Done(t, b)
                 /\ UNCHANGED <<command, pc, failed, directories, classes, commands, truth>>

-----------------------------------------------------------------------------
(* affclassify: a query of the database, and a report for each version.    *)

Affected(t, b) == {v \in Versions : 1 \in StatusOf(t, b, v)}

\* A mutant: the version before is not looked at.
Classified_AnyOldest(t, b) ==
    {v \in Affected(t, b) : \A w \in Affected(t, b) : v <= w}

\* The version a bug is classified by, if it is.
Classified(t, b) ==
    {v \in Affected(t, b) :
        /\ \A w \in Affected(t, b) : v <= w
        /\ v = 1 \/ 0 \in StatusOf(t, b, v - 1)}

AffClassify ==
    /\ command = Idle
    /\ commands < MaxCommands
    /\ commands' = commands + 1
    /\ command' = AffClassifyCommand
    /\ vListPairs' = [v \in Versions |-> {p \in Tasks \X Bugs : v \in Classified(p[1], p[2])}]
    /\ emptied' = FALSE
    /\ UNCHANGED <<pc, todo, failed, directories, records, affPack, truth>>

\* The reports of an earlier run are removed, one after the other.
EmptyAffPack ==
    /\ command.tool = "affclassify" /\ ~emptied
    /\ \E kept \in SUBSET Versions :
          /\ affPack' = [v \in Versions |-> IF v \in kept THEN affPack[v] ELSE {}]
          /\ emptied' = (kept = {})
    /\ UNCHANGED <<command, pc, todo, failed, directories, records, vListPairs, commands, truth>>

\* The first of the reports in the directories of sqlsim; one that is not
\* there any more is a panic.
SaveFirstBug(v) ==
    /\ command.tool = "affclassify" /\ emptied /\ ~Saved(v)
    /\ \A p \in vListPairs[v] : sqlsim[p[1]] # NoDir /\ p[2] \in sqlsim[p[1]]
    /\ \E p \in vListPairs[v] :
          /\ \A q \in vListPairs[v] : ReportTime[p] <= ReportTime[q]
          /\ affPack' = [affPack EXCEPT ![v] = {p}]
    /\ UNCHANGED <<command, pc, todo, failed, directories, records, vListPairs, emptied, commands,
                   truth>>

-----------------------------------------------------------------------------

TaskStep(t) ==
    \/ CheckStableTask(t)
    \/ MakeMayStable(t)
    \/ MakeUnstable(t)
    \/ CheckStable(t)
    \/ SqlSimTask(t)
    \/ MakeSqlSim(t)
    \/ SqlSim(t)
    \/ AffVersionTask(t)
    \/ AffVersionFails(t)
    \/ doVerify(t)
    \/ EndTask(t)
    \/ Panic(t)

Next ==
    \/ \E c \in Commands : Start(c)
    \/ \E t \in Tasks : TaskStep(t)
    \/ AffClassify
    \/ EmptyAffPack
    \/ \E v \in Versions : SaveFirstBug(v)
    \/ Finish
    \/ NextImage
    \/ Killed

Spec == Init /\ [][Next]_vars

-----------------------------------------------------------------------------

(* A bug is verified once for a version, whatever commands are given, die  *)
(* and are given again (affversion.go:194-221).                            *)
VerifiedOnce == \A k \in DOMAIN records : Len(records[k]) <= 1

(* ckstable sorts the reports of this run only: none is in both            *)
(* directories, also when it died between making the one and the other,    *)
(* those of an earlier run are gone, and a task that is through has sorted *)
(* all of them (ckstable.go:42-108).                                       *)
SortedOnce ==
    \A t \in Tasks :
        /\ maystable[t] # NoDir /\ unstable[t] # NoDir => maystable[t] \cap unstable[t] = {}
        /\ command.tool = "ckstable" /\ pc[t] \in {"running", "done"} =>
              maystable[t] \cup unstable[t] = Found[t] \ todo[t]

(* An affversion command that goes through a task without an error has     *)
(* verified every simplified bug on that version, itself or before         *)
(* (affversion.go:35-45).                                                  *)
VerifiedAll ==
    \A t \in Tasks :
        /\ command.tool = "affversion" /\ command.where = NoWhere
        /\ pc[t] = "done" /\ ~failed[t] /\ sqlsim[t] # NoDir
        => \A b \in sqlsim[t] : records[<<t, b, command.version>>] # <<>>

(* "calculate the oldest reproducible version and use it for               *)
(* classification if the bug can not be reproduced on the previous         *)
(* version" (affclassify.go:24-27): where the bug depends on the version   *)
(* only, that is the version that introduced it, in whatever order the     *)
(* versions were verified and whatever failed in between.  The reports in  *)
(* affclassify are the first of the bugs that the last run listed (:190),  *)
(* unless that run died before it had emptied the directory.               *)
ClassifiedRight ==
    \A v \in Versions :
        /\ \A p \in vListPairs[v] : kind[p[2]] = "logical" => introduced[p[2]] = v
        /\ emptied => \A p \in affPack[v] :
              p \in vListPairs[v] /\ \A q \in vListPairs[v] : ReportTime[p] <= ReportTime[q]

(* A report of an error is never taken for a wrong result: ckstable calls  *)
(* it unstable, so that it is neither simplified nor verified              *)
(* (ckstable.go:119-126).                                                  *)
OnlyResultsPass ==
    \A t \in Tasks, b \in Bugs :
        kind[b] = "error" =>
            /\ maystable[t] = NoDir \/ b \notin maystable[t]
            /\ sqlsim[t] = NoDir \/ b \notin sqlsim[t]
            /\ \A v \in Versions : records[<<t, b, v>>] = <<>>

-----------------------------------------------------------------------------
(* The inductive invariant from which the properties follow.               *)

Contents == (SUBSET Bugs) \cup {NoDir}
Tools == {"ckstable", "sqlsim", "affversion"}

PipelineTypes ==
    /\ command \in [tool : Tools \cup {"none", "affclassify"}, version : Nat, oldest : Nat,
                    where : {NoWhere} \cup [version : Versions, status : WhereStatuses]]
    /\ pc \in [Tasks -> {"waiting", "clearing", "making", "running", "done"}]
    /\ todo \in [Tasks -> SUBSET Bugs]
    /\ failed \in [Tasks -> BOOLEAN]
    /\ maystable \in [Tasks -> Contents]
    /\ unstable \in [Tasks -> Contents]
    /\ sqlsim \in [Tasks -> Contents]
    /\ records \in [Tasks \X Bugs \X Versions -> Seq({-1, 0, 1})]
    /\ vListPairs \in [Versions -> SUBSET (Tasks \X Bugs)]
    /\ affPack \in [Versions -> SUBSET (Tasks \X Bugs)]
    /\ emptied \in BOOLEAN
    /\ commands \in Nat
    /\ kind \in [Bugs -> Kinds]
    /\ introduced \in [Bugs -> Versions]

\* Between two commands no goroutine is left, and only one that runs, or has
\* given up, has bugs to look at.
ProcessControl ==
    /\ command.tool \in Tools => command.version \in Versions /\ command.oldest \in Versions
    /\ command.tool \notin Tools =>
          command.version = command.oldest /\ \A t \in Tasks : pc[t] = "done" /\ ~failed[t]
    /\ \A t \in Tasks : pc[t] # "running" /\ ~failed[t] => todo[t] = {}

\* The directories of ckstable never have a report in common, and while a task
\* is sorted every bug is to be done or in one of them.  Simplified bugs have a
\* directory to come from and one to go to.
Sorting ==
    \A t \in Tasks :
        /\ maystable[t] # NoDir /\ unstable[t] # NoDir => maystable[t] \cap unstable[t] = {}
        /\ At("ckstable", "making", t) => maystable[t] = {}
        /\ command.tool = "ckstable" /\ pc[t] \in {"running", "done"} =>
              /\ maystable[t] # NoDir
              /\ unstable[t] # NoDir
              /\ todo[t] \subseteq Found[t]
              /\ maystable[t] \cup unstable[t] = Found[t] \ todo[t]
        /\ At("sqlsim", "clearing", t) => maystable[t] # NoDir
        /\ command.tool \in {"sqlsim", "affversion"} /\ pc[t] = "running" => sqlsim[t] # NoDir

\* A bug affversion still has to verify on a version has no record for it, and
\* one it no longer has to has one.
Verifying ==
    \A t \in Tasks : command.tool = "affversion" /\ pc[t] # "waiting" =>
        /\ pc[t] = "running" => \A b \in todo[t] : records[<<t, b, command.version>>] = <<>>
        /\ command.where = NoWhere /\ ~failed[t] /\ sqlsim[t] # NoDir =>
              \A b \in sqlsim[t] \ todo[t] : records[<<t, b, command.version>>] # <<>>

\* The records of a wrong result say of a version what it does.
RecordsTrue ==
    \A t \in Tasks, b \in Bugs, v \in Versions :
        kind[b] = "logical" =>
            /\ 1 \in StatusOf(t, b, v) => v >= introduced[b]
            /\ 0 \in StatusOf(t, b, v) => v < introduced[b]

PipelineInvariant ==
    /\ PipelineTypes
    /\ ProcessControl
    /\ Sorting
    /\ Verifying
    /\ RecordsTrue
    /\ VerifiedOnce
    /\ ClassifiedRight
    /\ OnlyResultsPass
=============================================================================
