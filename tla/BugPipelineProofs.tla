-------------------------- MODULE BugPipelineProofs --------------------------
(***************************************************************************)
(* Proofs about BugPipeline, for every number of tasks, bugs, versions,    *)
(* connectors and commands.                                                *)
(***************************************************************************)
EXTENDS BugPipeline, SequenceTheorems, TLAPS

(***************************************************************************)
(* Types.                                                                  *)
(***************************************************************************)

\* What a command line gives to a tool.
LEMMA CommandTypes ==
    ASSUME NEW c \in Commands
    PROVE  /\ c \in [tool : Tools, version : Versions, oldest : Versions,
                     where : {NoWhere} \cup [version : Versions, status : WhereStatuses]]
BY BugPipelineAssumption DEF Commands, Tools, Versions, WhereVersionStatus

\* The initial state has the types.
LEMMA TypesInit == Init => PipelineTypes
<1> SUFFICES ASSUME Init PROVE PipelineTypes
  OBVIOUS
<1>1. <<>> \in Seq({-1, 0, 1})
  BY EmptySeq
<1> QED
  BY <1>1 DEF Init, PipelineTypes, Idle, Contents

\* A directory made anew is the content of a directory.
LEMMA DirMade ==
    ASSUME NEW d \in [Tasks -> Contents], NEW t \in Tasks
    PROVE  [d EXCEPT ![t] = {}] \in [Tasks -> Contents]
BY DEF Contents

\* So is one that is being removed.
LEMMA DirGoes ==
    ASSUME NEW d \in [Tasks -> Contents], NEW t \in Tasks, NEW left \in Remains(d[t])
    PROVE  [d EXCEPT ![t] = left] \in [Tasks -> Contents]
<1>1. left \in Contents
  BY DEF Remains, Contents
<1> QED
  BY <1>1

\* So is one with a report more.
LEMMA DirGrows ==
    ASSUME NEW d \in [Tasks -> Contents], NEW t \in Tasks, NEW b \in Bugs, d[t] # NoDir
    PROVE  [d EXCEPT ![t] = @ \cup {b}] \in [Tasks -> Contents]
BY DEF Contents

\* A record more of a bug.
LEMMA RecordTypes ==
    ASSUME PipelineTypes, NEW t \in Tasks, NEW b \in Bugs, NEW v \in Versions,
           NEW s \in {-1, 0, 1}
    PROVE  [records EXCEPT ![<<t, b, v>>] = Append(@, s)]
              \in [Tasks \X Bugs \X Versions -> Seq({-1, 0, 1})]
<1>1. records[<<t, b, v>>] \in Seq({-1, 0, 1})
  BY DEF PipelineTypes
<1>2. Append(records[<<t, b, v>>], s) \in Seq({-1, 0, 1})
  BY <1>1, AppendProperties
<1> QED
  BY <1>2 DEF PipelineTypes

\* What a verification may show, and its status.
LEMMA OutcomeTypes ==
    ASSUME PipelineTypes, NEW b \in Bugs, NEW v, NEW outcome \in Outcomes(b, v)
    PROVE  /\ outcome \in {"bug", "ok", "error"}
           /\ Status(outcome) \in {-1, 0, 1}
           /\ Status(outcome) = 1 => outcome = "bug"
           /\ Status(outcome) = 0 => outcome = "ok"
<1>1. kind[b] \in Kinds
  BY DEF PipelineTypes
<1> QED
  BY <1>1 DEF Outcomes, Status, Kinds

\* A process that ends leaves the types.
LEMMA TypesDie ==
    ASSUME PipelineTypes, Die
    PROVE  PipelineTypes'
<1>1. command' \in [tool : Tools \cup {"none", "affclassify"}, version : Nat, oldest : Nat,
                    where : {NoWhere} \cup [version : Versions, status : WhereStatuses]]
  BY DEF Die, Idle
<1>2. /\ pc' \in [Tasks -> {"waiting", "clearing", "making", "running", "done"}]
      /\ todo' \in [Tasks -> SUBSET Bugs]
      /\ failed' \in [Tasks -> BOOLEAN]
  BY DEF Die
<1>3. UNCHANGED <<directories, records, classes, commands, truth>>
  BY DEF Die
<1> QED
  BY <1>1, <1>2, <1>3 DEF PipelineTypes, directories, classes, truth

\* Every step of a goroutine keeps the types.
LEMMA TypesTask ==
    ASSUME PipelineTypes, ProcessControl, Sorting, NEW t \in Tasks, TaskStep(t)
    PROVE  PipelineTypes'
<1> USE DEF PipelineTypes, directories, classes, truth
<1>1. CASE CheckStableTask(t)
  <2>1. PICK left \in Remains(maystable[t]) : maystable' = [maystable EXCEPT ![t] = left]
    BY <1>1 DEF CheckStableTask
  <2>2. maystable' \in [Tasks -> Contents]
    BY <2>1, DirGoes
  <2> QED
    BY <1>1, <2>2 DEF CheckStableTask, GoTo
<1>10. CASE MakeMayStable(t)
  <2>1. PICK left \in Remains(unstable[t]) : unstable' = [unstable EXCEPT ![t] = left]
    BY <1>10 DEF MakeMayStable
  <2>2. unstable' \in [Tasks -> Contents]
    BY <2>1, DirGoes
  <2>3. [maystable EXCEPT ![t] = {}] \in [Tasks -> Contents]
    BY DirMade
  <2> QED
    BY <1>10, <2>2, <2>3 DEF MakeMayStable, GoTo
<1>11. CASE MakeUnstable(t)
  <2>1. [unstable EXCEPT ![t] = {}] \in [Tasks -> Contents]
    BY DirMade
  <2>2. Found[t] \in SUBSET Bugs
    BY BugPipelineAssumption
  <2> QED
    BY <1>11, <2>1, <2>2 DEF MakeUnstable, Begin, GoTo
<1>2. CASE CheckStable(t)
  <2>1. PICK b \in todo[t] :
           /\ \/ maystable' = [maystable EXCEPT ![t] = @ \cup {b}] /\ unstable' = unstable
              \/ unstable' = [unstable EXCEPT ![t] = @ \cup {b}] /\ maystable' = maystable
           /\ todo' = [todo EXCEPT ![t] = @ \ {b}]
    BY <1>2 DEF CheckStable, Done
  <2>2. b \in Bugs /\ maystable[t] # NoDir /\ unstable[t] # NoDir
    BY <1>2 DEF CheckStable, Running, Sorting, At
  <2>3. /\ [maystable EXCEPT ![t] = @ \cup {b}] \in [Tasks -> Contents]
        /\ [unstable EXCEPT ![t] = @ \cup {b}] \in [Tasks -> Contents]
    BY <2>2, DirGrows
  <2> QED
    BY <1>2, <2>1, <2>3 DEF CheckStable
<1>3. CASE SqlSimTask(t)
  <2>1. CASE maystable[t] = NoDir
    BY <1>3, <2>1 DEF SqlSimTask, Skip
  <2>2. CASE maystable[t] # NoDir
    <3>1. PICK left \in Remains(sqlsim[t]) : sqlsim' = [sqlsim EXCEPT ![t] = left]
      BY <1>3, <2>2 DEF SqlSimTask
    <3>2. sqlsim' \in [Tasks -> Contents]
      BY <3>1, DirGoes
    <3> QED
      BY <1>3, <2>2, <3>2 DEF SqlSimTask, GoTo
  <2> QED
    BY <2>1, <2>2
<1>12. CASE MakeSqlSim(t)
  <2>1. [sqlsim EXCEPT ![t] = {}] \in [Tasks -> Contents]
    BY DirMade
  <2>2. maystable[t] \in SUBSET Bugs
    BY <1>12 DEF MakeSqlSim, At, Sorting, Contents
  <2> QED
    BY <1>12, <2>1, <2>2 DEF MakeSqlSim, Begin, GoTo
<1>4. CASE SqlSim(t)
  <2>1. PICK b \in todo[t] :
           /\ sqlsim' = sqlsim \/ sqlsim' = [sqlsim EXCEPT ![t] = @ \cup {b}]
           /\ todo' = [todo EXCEPT ![t] = @ \ {b}]
    BY <1>4 DEF SqlSim, Done
  <2>2. b \in Bugs /\ sqlsim[t] # NoDir
    BY <1>4 DEF SqlSim, Running, Sorting, At
  <2>3. [sqlsim EXCEPT ![t] = @ \cup {b}] \in [Tasks -> Contents]
    BY <2>2, DirGrows
  <2> QED
    BY <1>4, <2>1, <2>3 DEF SqlSim
<1>5. CASE AffVersionTask(t)
  <2>1. CASE sqlsim[t] = NoDir
    BY <1>5, <2>1 DEF AffVersionTask, Skip
  <2>2. CASE sqlsim[t] # NoDir
    <3>1. PICK bugs \in SUBSET Bugs : Begin(t, filterExists(t, command.version, bugs))
      BY <1>5, <2>2 DEF AffVersionTask, getBugsFromDB, Contents
    <3>2. filterExists(t, command.version, bugs) \in SUBSET Bugs
      BY DEF filterExists
    <3> QED
      BY <1>5, <2>2, <3>1, <3>2 DEF AffVersionTask, Begin, GoTo
  <2> QED
    BY <2>1, <2>2
<1>6. CASE AffVersionFails(t)
  BY <1>6 DEF AffVersionFails, Fail
<1>7. CASE doVerify(t)
  <2>1. PICK b \in todo[t] : doVerify(t)!2!(b)
    BY <1>7 DEF doVerify
  <2>2. CASE b \notin sqlsim[t]
    BY <2>1, <2>2 DEF Fail
  <2>3. CASE b \in sqlsim[t]
    <3>1. PICK outcome \in Outcomes(b, command.version) :
             records' = [records EXCEPT ![<<t, b, command.version>>] = Append(@, Status(outcome))]
      BY <2>1, <2>3
    <3>2. b \in Bugs /\ command.version \in Versions
      BY <1>7 DEF doVerify, Running, ProcessControl, Tools, At
    <3>3. Status(outcome) \in {-1, 0, 1}
      BY <3>2, OutcomeTypes
    <3>4. records' \in [Tasks \X Bugs \X Versions -> Seq({-1, 0, 1})]
      BY <3>1, <3>2, <3>3, RecordTypes
    <3>5. /\ todo' = [todo EXCEPT ![t] = @ \ {b}]
          /\ UNCHANGED <<command, pc, failed, directories, classes, commands, truth>>
      BY <2>1, <2>3 DEF Done
    <3> QED
      BY <3>4, <3>5
  <2> QED
    BY <2>2, <2>3
<1>8. CASE EndTask(t)
  BY <1>8 DEF EndTask, Skip
<1>9. CASE Panic(t)
  BY <1>9, TypesDie DEF Panic
<1> QED
  BY <1>1, <1>2, <1>3, <1>4, <1>5, <1>6, <1>7, <1>8, <1>9, <1>10, <1>11, <1>12 DEF TaskStep

\* Every step of the specification keeps the types.
LEMMA TypesNext ==
    ASSUME PipelineTypes, ProcessControl, Sorting, [Next]_vars
    PROVE  PipelineTypes'
<1> USE DEF PipelineTypes, directories, classes, truth
<1>1. ASSUME NEW c \in Commands, Start(c) PROVE PipelineTypes'
  <2>1. command' \in [tool : Tools \cup {"none", "affclassify"}, version : Nat, oldest : Nat,
                      where : {NoWhere} \cup [version : Versions, status : WhereStatuses]]
    BY <1>1, CommandTypes DEF Start, Versions
  <2> QED
    BY <1>1, <2>1 DEF Start
<1>2. CASE \E t \in Tasks : TaskStep(t)
  BY <1>2, TypesTask
<1>3. CASE AffClassify
  <2>1. command' \in [tool : Tools \cup {"none", "affclassify"}, version : Nat, oldest : Nat,
                      where : {NoWhere} \cup [version : Versions, status : WhereStatuses]]
    BY <1>3, BugPipelineAssumption DEF AffClassify, AffClassifyCommand
  <2>2. vListPairs' \in [Versions -> SUBSET (Tasks \X Bugs)] /\ emptied' \in BOOLEAN
    BY <1>3 DEF AffClassify
  <2>3. UNCHANGED <<pc, todo, failed, maystable, unstable, sqlsim, records, affPack, kind,
                    introduced>>
        /\ commands' \in Nat
    BY <1>3 DEF AffClassify
  <2> HIDE DEF PipelineTypes
  <2> QED
    BY <2>1, <2>2, <2>3 DEF PipelineTypes
<1>4. ASSUME NEW v \in Versions, SaveFirstBug(v) PROVE PipelineTypes'
  <2>1. PICK p \in vListPairs[v] : affPack' = [affPack EXCEPT ![v] = {p}]
    BY <1>4 DEF SaveFirstBug
  <2>2. affPack' \in [Versions -> SUBSET (Tasks \X Bugs)]
    BY <2>1
  <2> QED
    BY <1>4, <2>2 DEF SaveFirstBug
<1>8. CASE EmptyAffPack
  <2>1. PICK kept \in SUBSET Versions :
           /\ affPack' = [v \in Versions |-> IF v \in kept THEN affPack[v] ELSE {}]
           /\ emptied' = (kept = {})
    BY <1>8 DEF EmptyAffPack
  <2>2. affPack' \in [Versions -> SUBSET (Tasks \X Bugs)] /\ emptied' \in BOOLEAN
    BY <2>1
  <2> QED
    BY <1>8, <2>2 DEF EmptyAffPack
<1>5. CASE Finish \/ Killed
  BY <1>5, TypesDie DEF Finish, Killed
<1>6. CASE NextImage
  <2>1. PICK v \in command.oldest .. command.version - 1 : command' = [command EXCEPT !.version = v]
    BY <1>6 DEF NextImage
  <2>2. v \in Nat
    OBVIOUS
  <2> QED
    BY <1>6, <2>1, <2>2 DEF NextImage
<1>7. CASE UNCHANGED vars
  BY <1>7 DEF vars
<1> QED
  BY <1>1, <1>2, <1>3, <1>4, <1>5, <1>6, <1>7, <1>8 DEF Next

(***************************************************************************)
(* The process and its goroutines.                                         *)
(***************************************************************************)

\* A process that ends leaves nothing running.
LEMMA ControlDie ==
    ASSUME Die
    PROVE  ProcessControl'
BY DEF Die, Idle, ProcessControl, Tools

\* Every step keeps the control of the process.
LEMMA ControlNext ==
    ASSUME PipelineTypes, ProcessControl, [Next]_vars
    PROVE  ProcessControl'
<1> USE DEF ProcessControl, PipelineTypes
<1>1. ASSUME NEW c \in Commands, Start(c) PROVE ProcessControl'
  <2>1. c.tool \in Tools /\ c.version \in Versions /\ c.oldest \in Versions
    BY CommandTypes
  <2>2. \A t \in Tasks : todo[t] = {}
    BY <1>1 DEF Start, Idle, Tools
  <2> QED
    BY <1>1, <2>1, <2>2 DEF Start
<1>2. ASSUME NEW t \in Tasks, TaskStep(t) PROVE ProcessControl'
  <2>1. command.tool \in Tools
    <3>1. ~EndTask(t) => command.tool \in Tools
      BY <1>2 DEF TaskStep, CheckStableTask, MakeMayStable, MakeUnstable, CheckStable,
         SqlSimTask, MakeSqlSim, SqlSim, AffVersionTask, AffVersionFails, doVerify, Panic,
         Waiting, Running, At, Tools
    <3>2. EndTask(t) => command.tool \in Tools
      BY DEF EndTask
    <3> QED
      BY <3>1, <3>2
  <2>2. CASE Panic(t)
    BY <2>2, ControlDie DEF Panic
  <2>3. CASE CheckStableTask(t)
    BY <2>1, <2>3 DEF CheckStableTask, GoTo
  <2>11. CASE MakeMayStable(t)
    BY <2>1, <2>11 DEF MakeMayStable, GoTo
  <2>12. CASE MakeUnstable(t)
    BY <2>1, <2>12 DEF MakeUnstable, Begin, GoTo
  <2>13. CASE MakeSqlSim(t)
    BY <2>1, <2>13 DEF MakeSqlSim, Begin, GoTo
  <2>4. CASE CheckStable(t)
    BY <2>1, <2>4 DEF CheckStable, Running, Done, At
  <2>5. CASE SqlSimTask(t)
    BY <2>1, <2>5 DEF SqlSimTask, GoTo, Skip, Waiting
  <2>6. CASE SqlSim(t)
    BY <2>1, <2>6 DEF SqlSim, Running, Done, At
  <2>7. CASE AffVersionTask(t)
    <3>1. CASE sqlsim[t] = NoDir
      BY <2>1, <2>7, <3>1 DEF AffVersionTask, Waiting, Skip
    <3>2. CASE sqlsim[t] # NoDir
      <4>1. PICK bugs : Begin(t, bugs)
        BY <2>7, <3>2 DEF AffVersionTask
      <4> QED
        BY <2>1, <4>1 DEF Begin, GoTo
    <3> QED
      BY <3>1, <3>2
  <2>8. CASE AffVersionFails(t)
    BY <2>1, <2>8 DEF AffVersionFails, Fail
  <2>9. CASE doVerify(t)
    <3>1. PICK b \in todo[t] : Fail(t) \/ (Done(t, b) /\ UNCHANGED <<command, pc, failed>>)
      BY <2>9 DEF doVerify
    <3>2. CASE Fail(t)
      BY <2>1, <3>2 DEF Fail
    <3>3. CASE Done(t, b) /\ UNCHANGED <<command, pc, failed>>
      BY <2>1, <2>9, <3>3 DEF Done, doVerify, Running, At
    <3> QED
      BY <3>1, <3>2, <3>3
  <2>10. CASE EndTask(t)
    BY <2>1, <2>10 DEF EndTask, Skip
  <2> QED
    BY <1>2, <2>2, <2>3, <2>4, <2>5, <2>6, <2>7, <2>8, <2>9, <2>10, <2>11,
       <2>12, <2>13 DEF TaskStep
<1>3. CASE AffClassify
  BY <1>3 DEF AffClassify, AffClassifyCommand, Idle, Tools
<1>4. ASSUME NEW v \in Versions, SaveFirstBug(v) PROVE ProcessControl'
  BY <1>4 DEF SaveFirstBug
<1>8. CASE EmptyAffPack
  BY <1>8 DEF EmptyAffPack
<1>5. CASE Finish \/ Killed
  BY <1>5, ControlDie DEF Finish, Killed
<1>6. CASE NextImage
  <2>1. PICK v \in command.oldest .. command.version - 1 : command' = [command EXCEPT !.version = v]
    BY <1>6 DEF NextImage
  <2>2. command'.tool = command.tool /\ command'.version = v /\ command'.oldest = command.oldest
    BY <2>1
  <2>3. command.tool \in Tools => v \in Versions
    BY BugPipelineAssumption DEF Versions
  <2>4. command.tool \in Tools
    <3>1. v \in Int /\ v <= command.version - 1 /\ command.oldest <= v
      OBVIOUS
    <3> QED
      BY <3>1
  <2> QED
    BY <1>6, <2>2, <2>3, <2>4 DEF NextImage
<1>7. CASE UNCHANGED vars
  BY <1>7 DEF vars
<1> QED
  BY <1>1, <1>2, <1>3, <1>4, <1>5, <1>6, <1>7, <1>8 DEF Next

(***************************************************************************)
(* What ckstable sorts.                                                    *)
(***************************************************************************)

\* A directory is not the absence of one.
LEMMA NoDirFacts ==
    /\ {} # NoDir
    /\ \A S \in SUBSET Bugs, b \in Bugs : S \cup {b} # NoDir
BY BugPipelineAssumption

\* A task of which nothing changes stays sorted, and so does every task when
\* no goroutine runs or all wait.
LEMMA SortingFrame ==
    ASSUME Sorting, UNCHANGED <<maystable, unstable, sqlsim>>,
           \A u \in Tasks :
              \/ command'.tool = command.tool /\ pc'[u] = pc[u] /\ todo'[u] = todo[u]
              \/ pc'[u] = "waiting"
              \/ command'.tool \notin Tools
    PROVE  Sorting'
BY DEF Sorting, Tools, At

\* Every step of ckstable keeps its directories sorted.
LEMMA SortingCheck ==
    ASSUME PipelineTypes, Sorting, NEW t \in Tasks,
           \/ CheckStableTask(t) \/ MakeMayStable(t)
           \/ MakeUnstable(t) \/ CheckStable(t)
    PROVE  Sorting'
<1> USE DEF PipelineTypes
<1>1. CASE CheckStableTask(t)
  <2>1. PICK left \in Remains(maystable[t]) : maystable' = [maystable EXCEPT ![t] = left]
    BY <1>1 DEF CheckStableTask
  <2>2. /\ UNCHANGED <<command, unstable, sqlsim>>
        /\ todo' = [todo EXCEPT ![t] = {}]
        /\ pc' = [pc EXCEPT ![t] = "clearing"]
        /\ command.tool = "ckstable"
    BY <1>1 DEF CheckStableTask, GoTo, Waiting
  <2>3. left # NoDir => maystable[t] # NoDir /\ left \subseteq maystable[t]
    BY <2>1 DEF Remains
  <2>4. \A u \in Tasks : u # t => /\ maystable'[u] = maystable[u] /\ todo'[u] = todo[u]
                                  /\ pc'[u] = pc[u]
    BY <2>1, <2>2
  <2>5. maystable'[t] = left /\ pc'[t] = "clearing"
    BY <2>1, <2>2
  <2>6. left # NoDir /\ unstable[t] # NoDir => left \cap unstable[t] = {}
    BY <2>3 DEF Sorting, At
  <2> QED
    BY <2>2, <2>4, <2>5, <2>6 DEF Sorting, At
<1>3. CASE MakeMayStable(t)
  <2>1. PICK left \in Remains(unstable[t]) : unstable' = [unstable EXCEPT ![t] = left]
    BY <1>3 DEF MakeMayStable
  <2>2. /\ UNCHANGED <<command, sqlsim>>
        /\ maystable' = [maystable EXCEPT ![t] = {}]
        /\ todo' = [todo EXCEPT ![t] = {}]
        /\ pc' = [pc EXCEPT ![t] = "making"]
        /\ command.tool = "ckstable"
    BY <1>3 DEF MakeMayStable, GoTo, At
  <2> QED
    BY <2>1, <2>2 DEF Sorting, At
<1>4. CASE MakeUnstable(t)
  <2>1. /\ UNCHANGED <<command, maystable, sqlsim>>
        /\ unstable' = [unstable EXCEPT ![t] = {}]
        /\ todo' = [todo EXCEPT ![t] = Found[t]]
        /\ pc' = [pc EXCEPT ![t] = "running"]
        /\ command.tool = "ckstable"
        /\ maystable[t] = {}
    BY <1>4 DEF MakeUnstable, Begin, GoTo, At, Sorting
  <2> QED
    BY <2>1, NoDirFacts DEF Sorting, At
<1>2. CASE CheckStable(t)
  <2>1. PICK b \in todo[t] :
           /\ \/ maystable' = [maystable EXCEPT ![t] = @ \cup {b}] /\ unstable' = unstable
              \/ unstable' = [unstable EXCEPT ![t] = @ \cup {b}] /\ maystable' = maystable
           /\ todo' = [todo EXCEPT ![t] = @ \ {b}]
    BY <1>2 DEF CheckStable, Done
  <2>2. /\ command' = command /\ pc' = pc /\ sqlsim' = sqlsim
        /\ command.tool = "ckstable" /\ pc[t] = "running"
    BY <1>2 DEF CheckStable, Running, At
  <2>3. /\ maystable[t] \in SUBSET Bugs /\ unstable[t] \in SUBSET Bugs /\ b \in Bugs
        /\ maystable[t] \cap unstable[t] = {}
        /\ b \in Found[t] /\ b \notin maystable[t] /\ b \notin unstable[t]
        /\ maystable[t] \cup unstable[t] = Found[t] \ todo[t]
        /\ todo[t] \subseteq Found[t]
    BY <2>1, <2>2 DEF Sorting, Contents, At
  <2>4. /\ maystable[t] \cup {b} # NoDir /\ unstable[t] \cup {b} # NoDir
        /\ maystable[t] # NoDir /\ unstable[t] # NoDir
    BY <2>3, NoDirFacts, BugPipelineAssumption
  <2>5. /\ maystable'[t] # NoDir /\ unstable'[t] # NoDir
        /\ maystable'[t] \cap unstable'[t] = {}
        /\ todo'[t] \subseteq Found[t]
        /\ maystable'[t] \cup unstable'[t] = Found[t] \ todo'[t]
    BY <2>1, <2>3, <2>4
  <2>6. \A u \in Tasks : u # t => /\ maystable'[u] = maystable[u] /\ unstable'[u] = unstable[u]
                                  /\ todo'[u] = todo[u]
    BY <2>1
  <2> QED
    BY <2>2, <2>5, <2>6 DEF Sorting, At
<1> QED
  BY <1>1, <1>2, <1>3, <1>4

\* Every step keeps what ckstable has sorted.
LEMMA SortingNext ==
    ASSUME PipelineTypes, ProcessControl, Sorting, [Next]_vars
    PROVE  Sorting'
<1> USE DEF PipelineTypes
<1>1. ASSUME NEW c \in Commands, Start(c) PROVE Sorting'
  BY <1>1, SortingFrame DEF Start, directories
<1>2. ASSUME NEW t \in Tasks, TaskStep(t) PROVE Sorting'
  <2>1. CASE \/ CheckStableTask(t) \/ MakeMayStable(t)
             \/ MakeUnstable(t) \/ CheckStable(t)
    BY <2>1, SortingCheck
  <2>2. CASE SqlSimTask(t)
    <3>1. CASE maystable[t] = NoDir
      BY <2>2, <3>1 DEF SqlSimTask, Skip, directories, Sorting, Waiting, At
    <3>2. CASE maystable[t] # NoDir
      <4>1. PICK left \in Remains(sqlsim[t]) : sqlsim' = [sqlsim EXCEPT ![t] = left]
        BY <2>2, <3>2 DEF SqlSimTask
      <4>2. /\ UNCHANGED <<maystable, unstable, command>> /\ command.tool = "sqlsim"
            /\ pc' = [pc EXCEPT ![t] = "clearing"]
        BY <2>2, <3>2 DEF SqlSimTask, GoTo, Waiting
      <4> QED
        BY <3>2, <4>1, <4>2 DEF Sorting, At
    <3> QED
      BY <3>1, <3>2
  <2>9. CASE MakeSqlSim(t)
    <3>1. /\ sqlsim' = [sqlsim EXCEPT ![t] = {}] /\ maystable' = maystable
          /\ unstable' = unstable /\ command' = command /\ command.tool = "sqlsim"
          /\ pc' = [pc EXCEPT ![t] = "running"]
      BY <2>9 DEF MakeSqlSim, Begin, GoTo, At
    <3> QED
      BY <3>1, NoDirFacts DEF Sorting, At
  <2>3. CASE SqlSim(t)
    <3>1. PICK b \in todo[t] : sqlsim' = sqlsim \/ sqlsim' = [sqlsim EXCEPT ![t] = @ \cup {b}]
      BY <2>3 DEF SqlSim
    <3>2. /\ UNCHANGED <<command, pc, maystable, unstable>>
          /\ command.tool = "sqlsim" /\ pc[t] = "running"
      BY <2>3 DEF SqlSim, Running, At
    <3>3. sqlsim[t] \in SUBSET Bugs /\ b \in Bugs /\ sqlsim[t] # NoDir
      BY <3>2 DEF Sorting, Contents, At
    <3>4. sqlsim'[t] # NoDir /\ \A u \in Tasks : u # t => sqlsim'[u] = sqlsim[u]
      <4>1. sqlsim[t] \cup {b} # NoDir
        BY <3>3, NoDirFacts
      <4> QED
        BY <3>1, <3>3, <4>1
    <3> QED
      BY <3>2, <3>4 DEF Sorting, At
  <2>4. CASE AffVersionTask(t)
    <3>1. CASE sqlsim[t] = NoDir
      BY <2>4, <3>1 DEF AffVersionTask, Skip, directories, Sorting, Waiting, At
    <3>2. CASE sqlsim[t] # NoDir
      <4>1. /\ UNCHANGED <<maystable, unstable, sqlsim, command>>
            /\ command.tool = "affversion"
            /\ \A u \in Tasks : u # t => pc'[u] = pc[u]
        BY <2>4, <3>2 DEF AffVersionTask, Begin, directories, Waiting, GoTo
      <4> QED
        BY <3>2, <4>1 DEF Sorting, At
    <3> QED
      BY <3>1, <3>2
  <2>5. CASE AffVersionFails(t)
    BY <2>5 DEF AffVersionFails, Fail, Running, directories, Sorting, At
  <2>6. CASE doVerify(t)
    <3>1. PICK b \in todo[t] : Fail(t) \/ UNCHANGED <<command, pc, failed, directories>>
      BY <2>6 DEF doVerify
    <3>2. command.tool = "affversion" /\ command' = command /\ UNCHANGED directories
          /\ \A u \in Tasks : pc'[u] = pc[u] \/ pc'[u] = "done"
      BY <2>6, <3>1 DEF doVerify, Running, Fail, At
    <3> QED
      BY <3>2 DEF Sorting, directories, At
  <2>7. CASE EndTask(t)
    BY <2>7 DEF EndTask, Skip, directories, Sorting, At
  <2>8. CASE Panic(t)
    BY <2>8, SortingFrame DEF Panic, Die, Idle, Tools, directories
  <2> QED
    BY <1>2, <2>1, <2>2, <2>3, <2>4, <2>5, <2>6, <2>7, <2>8, <2>9 DEF TaskStep
<1>3. CASE AffClassify
  BY <1>3, SortingFrame DEF AffClassify, AffClassifyCommand, Tools, directories
<1>4. ASSUME NEW v \in Versions, SaveFirstBug(v) PROVE Sorting'
  BY <1>4, SortingFrame DEF SaveFirstBug, directories
<1>8. CASE EmptyAffPack
  BY <1>8, SortingFrame DEF EmptyAffPack, directories
<1>5. CASE Finish \/ Killed
  BY <1>5, SortingFrame DEF Finish, Killed, Die, Idle, Tools, directories
<1>6. CASE NextImage
  BY <1>6, SortingFrame DEF NextImage, directories
<1>7. CASE UNCHANGED vars
  BY <1>7, SortingFrame DEF vars, directories
<1> QED
  BY <1>1, <1>2, <1>3, <1>4, <1>5, <1>6, <1>7, <1>8 DEF Next

(***************************************************************************)
(* What affversion records.                                                *)
(***************************************************************************)

\* A step of doVerify: the task gives up, or makes the first record of one bug
\* and one version, with what executing it shows.
LEMMA VerifyStep ==
    ASSUME PipelineTypes, ProcessControl, Verifying, NEW t \in Tasks, doVerify(t)
    PROVE  \/ Fail(t)
           \/ \E b \in todo[t] : \E outcome \in Outcomes(b, command.version) :
                /\ b \in Bugs /\ b \in sqlsim[t]
                /\ records[<<t, b, command.version>>] = <<>>
                /\ records' = [records EXCEPT ![<<t, b, command.version>>] = <<Status(outcome)>>]
                /\ todo' = [todo EXCEPT ![t] = @ \ {b}]
                /\ UNCHANGED <<command, pc, failed, directories, classes, commands, truth>>
<1> USE DEF PipelineTypes
<1>1. PICK b \in todo[t] :
         IF b \notin sqlsim[t]
           THEN Fail(t)
           ELSE /\ \E outcome \in Outcomes(b, command.version) :
                      records' = [records EXCEPT ![<<t, b, command.version>>] =
                                      Append(@, Status(outcome))]
                /\ Done(t, b)
                /\ UNCHANGED <<command, pc, failed, directories, classes, commands, truth>>
  BY DEF doVerify
<1>2. CASE b \notin sqlsim[t]
  BY <1>1, <1>2
<1>3. CASE b \in sqlsim[t]
  <2>1. PICK outcome \in Outcomes(b, command.version) :
           records' = [records EXCEPT ![<<t, b, command.version>>] = Append(@, Status(outcome))]
    BY <1>1, <1>3
  <2>2. b \in Bugs /\ records[<<t, b, command.version>>] = <<>>
    BY DEF doVerify, Running, Verifying, At
  <2>3. Append(<<>>, Status(outcome)) = <<Status(outcome)>>
    OBVIOUS
  <2>4. records' = [records EXCEPT ![<<t, b, command.version>>] = <<Status(outcome)>>]
    BY <2>1, <2>2, <2>3
  <2> QED
    BY <1>1, <1>3, <2>2, <2>4 DEF Done
<1> QED
  BY <1>2, <1>3

\* A step of any other action leaves the records alone.
LEMMA RecordsFrame ==
    ASSUME [Next]_vars, \A t \in Tasks : ~doVerify(t)
    PROVE  UNCHANGED records
BY DEF Next, vars, TaskStep, Start, CheckStableTask, CheckStable, SqlSimTask, SqlSim,
   AffVersionTask, AffVersionFails, EndTask, Panic, AffClassify, SaveFirstBug, Finish,
   NextImage, Killed, Die, Begin, Skip, Fail, GoTo, MakeMayStable, MakeUnstable,
   MakeSqlSim, EmptyAffPack

\* No step changes what the bugs are.
LEMMA TruthFrame ==
    ASSUME [Next]_vars
    PROVE  UNCHANGED <<kind, introduced>>
BY DEF Next, vars, TaskStep, Start, CheckStableTask, CheckStable, SqlSimTask, SqlSim,
   AffVersionTask, AffVersionFails, doVerify, EndTask, Panic, AffClassify, SaveFirstBug,
   Finish, NextImage, Killed, Die, Begin, Skip, Fail, truth, GoTo, MakeMayStable,
   MakeUnstable, MakeSqlSim, EmptyAffPack

\* A bug is verified once for a version.
LEMMA VerifiedOnceNext ==
    ASSUME PipelineTypes, ProcessControl, Verifying, VerifiedOnce, [Next]_vars
    PROVE  VerifiedOnce'
<1>1. ASSUME NEW t \in Tasks, doVerify(t) PROVE VerifiedOnce'
  <2>1. CASE Fail(t)
    BY <2>1 DEF Fail, VerifiedOnce
  <2>2. ASSUME NEW k, NEW s, records' = [records EXCEPT ![k] = <<s>>] PROVE VerifiedOnce'
    BY <2>2 DEF VerifiedOnce
  <2> QED
    BY <1>1, <2>1, <2>2, VerifyStep
<1>2. CASE \A t \in Tasks : ~doVerify(t)
  BY <1>2, RecordsFrame DEF VerifiedOnce
<1> QED
  BY <1>1, <1>2

\* The records of a wrong result stay true.
LEMMA RecordsTrueNext ==
    ASSUME PipelineTypes, ProcessControl, Verifying, RecordsTrue, [Next]_vars
    PROVE  RecordsTrue'
<1>1. ASSUME NEW t \in Tasks, doVerify(t) PROVE RecordsTrue'
  <2>1. CASE Fail(t)
    <3>1. records' = records /\ kind' = kind /\ introduced' = introduced
      BY <2>1 DEF Fail, truth
    <3>2. ASSUME NEW u \in Tasks, NEW b \in Bugs, NEW v \in Versions
          PROVE  StatusOf(u, b, v)' = StatusOf(u, b, v)
      BY <3>1 DEF StatusOf
    <3> QED
      BY <3>1, <3>2 DEF RecordsTrue
  <2>2. ASSUME NEW b \in Bugs, NEW outcome \in Outcomes(b, command.version),
               records' = [records EXCEPT ![<<t, b, command.version>>] = <<Status(outcome)>>],
               UNCHANGED truth
        PROVE  RecordsTrue'
    <3>1. kind' = kind /\ introduced' = introduced
      BY <2>2 DEF truth
    <3> SUFFICES ASSUME NEW u \in Tasks, NEW c \in Bugs, NEW v \in Versions, kind[c] = "logical"
                 PROVE  /\ 1 \in StatusOf(u, c, v)' => v >= introduced[c]
                        /\ 0 \in StatusOf(u, c, v)' => v < introduced[c]
      BY <3>1 DEF RecordsTrue
    <3>2. CASE <<u, c, v>> = <<t, b, command.version>>
      <4>1. records'[<<u, c, v>>] = <<Status(outcome)>>
        BY <2>2, <3>2 DEF PipelineTypes
      <4>2. StatusOf(u, c, v)' = {Status(outcome)}
        BY <4>1 DEF StatusOf
      <4>3. c = b /\ v = command.version
        BY <3>2
      <4>4. outcome \in {IF v >= introduced[c] THEN "bug" ELSE "ok", "error"}
        BY <2>2, <4>3 DEF Outcomes
      <4>5. /\ Status(outcome) = 1 => outcome = "bug"
            /\ Status(outcome) = 0 => outcome = "ok"
        BY <2>2, OutcomeTypes
      <4>6. v \in Int /\ introduced[c] \in Int
        BY DEF PipelineTypes, Versions
      <4> QED
        BY <4>2, <4>4, <4>5, <4>6
    <3>3. CASE <<u, c, v>> # <<t, b, command.version>>
      <4>1. records'[<<u, c, v>>] = records[<<u, c, v>>]
        BY <2>2, <3>3 DEF PipelineTypes
      <4> QED
        BY <4>1 DEF StatusOf, RecordsTrue
    <3> QED
      BY <3>2, <3>3
  <2>3. CASE ~Fail(t)
    <3>1. PICK b \in todo[t] : \E outcome \in Outcomes(b, command.version) :
             /\ b \in Bugs /\ b \in sqlsim[t]
             /\ records[<<t, b, command.version>>] = <<>>
             /\ records' = [records EXCEPT ![<<t, b, command.version>>] = <<Status(outcome)>>]
             /\ todo' = [todo EXCEPT ![t] = @ \ {b}]
             /\ UNCHANGED <<command, pc, failed, directories, classes, commands, truth>>
      BY <1>1, <2>3, VerifyStep
    <3> QED
      BY <2>2, <3>1
  <2> QED
    BY <2>1, <2>3
<1>2. CASE \A t \in Tasks : ~doVerify(t)
  <2>1. UNCHANGED <<records, kind, introduced>>
    BY <1>2, RecordsFrame, TruthFrame
  <2>2. \A t \in Tasks, b \in Bugs, v \in Versions : StatusOf(t, b, v)' = StatusOf(t, b, v)
    BY <2>1 DEF StatusOf
  <2> QED
    BY <2>1, <2>2 DEF RecordsTrue
<1> QED
  BY <1>1, <1>2

\* A verification leaves what affversion has to do in order.
LEMMA VerifyingVerify ==
    ASSUME PipelineTypes, ProcessControl, Verifying, NEW t \in Tasks, doVerify(t)
    PROVE  Verifying'
<1> USE DEF PipelineTypes
<1>1. CASE Fail(t)
  BY <1>1 DEF Fail, Verifying, directories
<1>2. CASE ~Fail(t)
  <2>1. PICK b \in todo[t] : \E outcome \in Outcomes(b, command.version) :
           /\ b \in Bugs /\ b \in sqlsim[t]
           /\ records[<<t, b, command.version>>] = <<>>
           /\ records' = [records EXCEPT ![<<t, b, command.version>>] = <<Status(outcome)>>]
           /\ todo' = [todo EXCEPT ![t] = @ \ {b}]
           /\ UNCHANGED <<command, pc, failed, directories, classes, commands, truth>>
    BY <1>2, VerifyStep
  <2>2. PICK s : records' = [records EXCEPT ![<<t, b, command.version>>] = <<s>>]
    BY <2>1
  <2>3. command.tool = "affversion" /\ pc[t] = "running" /\ command.version \in Versions
    BY DEF doVerify, Running, ProcessControl, Tools, At
  <2>4. <<s>> # <<>>
    OBVIOUS
  <2>5. /\ records'[<<t, b, command.version>>] = <<s>>
        /\ \A u \in Tasks, c \in Bugs : <<u, c>> # <<t, b>> =>
              records'[<<u, c, command.version>>] = records[<<u, c, command.version>>]
    BY <2>1, <2>2, <2>3
  <2>6. /\ todo'[t] = todo[t] \ {b}
        /\ \A u \in Tasks : u # t => todo'[u] = todo[u]
    BY <2>1
  <2>7. command' = command /\ pc' = pc /\ failed' = failed /\ sqlsim' = sqlsim
    BY <2>1 DEF directories
  <2> SUFFICES ASSUME NEW u \in Tasks, pc[u] # "waiting"
               PROVE  /\ pc[u] = "running" =>
                            \A c \in todo'[u] : records'[<<u, c, command.version>>] = <<>>
                      /\ command.where = NoWhere /\ ~failed[u] /\ sqlsim[u] # NoDir =>
                            \A c \in sqlsim[u] \ todo'[u] :
                               records'[<<u, c, command.version>>] # <<>>
    BY <2>3, <2>7 DEF Verifying
  <2>8. /\ pc[u] = "running" => \A c \in todo[u] : records[<<u, c, command.version>>] = <<>>
        /\ command.where = NoWhere /\ ~failed[u] /\ sqlsim[u] # NoDir =>
              \A c \in sqlsim[u] \ todo[u] : records[<<u, c, command.version>>] # <<>>
    BY <2>3 DEF Verifying
  <2>9. \A c \in todo'[u] : c \in todo[u] /\ c \in Bugs /\ <<u, c>> # <<t, b>>
    BY <2>6
  <2>10. sqlsim[u] # NoDir => \A c \in sqlsim[u] : c \in Bugs
    BY DEF Contents
  <2>11. \A c \in sqlsim[u] \ todo'[u] : <<u, c>> # <<t, b>> => c \notin todo[u]
    BY <2>6
  <2> QED
    BY <2>4, <2>5, <2>8, <2>9, <2>10, <2>11
<1> QED
  BY <1>1, <1>2

\* Every step keeps what affversion has to do.
LEMMA VerifyingNext ==
    ASSUME PipelineTypes, ProcessControl, Sorting, Verifying, [Next]_vars
    PROVE  Verifying'
<1> USE DEF PipelineTypes
<1>1. ASSUME NEW t \in Tasks, doVerify(t) PROVE Verifying'
  BY <1>1, VerifyingVerify
<1>2. ASSUME NEW t \in Tasks, AffVersionTask(t) PROVE Verifying'
  <2>1. /\ command' = command /\ UNCHANGED <<failed, directories, records>>
        /\ pc[t] = "waiting"
        /\ \A u \in Tasks : u # t => pc'[u] = pc[u] /\ todo'[u] = todo[u]
    BY <1>2 DEF AffVersionTask, Begin, Skip, Waiting, GoTo
  <2>2. CASE sqlsim[t] = NoDir
    <3>1. pc'[t] = "done" /\ todo'[t] = todo[t]
      BY <1>2, <2>2 DEF AffVersionTask, Skip
    <3> QED
      BY <2>1, <2>2, <3>1, ZenonT(60) DEF Verifying, directories
  <2>3. CASE sqlsim[t] # NoDir
    <3>1. PICK bugs : /\ command.where = NoWhere => bugs = sqlsim[t]
                      /\ Begin(t, filterExists(t, command.version, bugs))
      BY <1>2, <2>3 DEF AffVersionTask
    <3>2. todo'[t] = {b \in bugs : records[<<t, b, command.version>>] = <<>>}
      BY <3>1 DEF Begin, filterExists, GoTo
    <3>3. \A b \in sqlsim[t] \ todo'[t] :
             command.where = NoWhere => records[<<t, b, command.version>>] # <<>>
      BY <3>1, <3>2
    <3>4. SUFFICES ASSUME NEW u \in Tasks, command.tool = "affversion", pc'[u] # "waiting"
                   PROVE  /\ pc'[u] = "running" =>
                                \A b \in todo'[u] : records[<<u, b, command.version>>] = <<>>
                          /\ command.where = NoWhere /\ ~failed[u] /\ sqlsim[u] # NoDir =>
                                \A b \in sqlsim[u] \ todo'[u] :
                                    records[<<u, b, command.version>>] # <<>>
      BY <2>1 DEF Verifying, directories
    <3>5. CASE u = t
      BY <3>2, <3>3, <3>5
    <3>6. CASE u # t
      BY <2>1, <3>4, <3>6 DEF Verifying
    <3> QED
      BY <3>5, <3>6
  <2> QED
    BY <2>2, <2>3
<1>3. ASSUME NEW t \in Tasks, AffVersionFails(t) PROVE Verifying'
  BY <1>3 DEF AffVersionFails, Fail, Verifying, directories
<1>4. ASSUME NEW t \in Tasks, EndTask(t) PROVE Verifying'
  BY <1>4 DEF EndTask, Skip, Verifying, directories
<1>5. ASSUME NEW t \in Tasks, Panic(t) PROVE Verifying'
  BY <1>5 DEF Panic, Die, Idle, Verifying
<1>6. ASSUME NEW t \in Tasks,
             \/ CheckStableTask(t) \/ MakeMayStable(t) \/ MakeUnstable(t) \/ CheckStable(t)
             \/ SqlSimTask(t) \/ MakeSqlSim(t) \/ SqlSim(t)
      PROVE  Verifying'
  <2>1. command' = command /\ command.tool \in {"ckstable", "sqlsim"}
    BY <1>6 DEF CheckStableTask, CheckStable, SqlSimTask, SqlSim, Waiting, Running, Begin,
       Skip, At, GoTo, MakeMayStable, MakeUnstable, MakeSqlSim
  <2> QED
    BY <2>1 DEF Verifying
<1>7. ASSUME NEW c \in Commands, Start(c) PROVE Verifying'
  BY <1>7 DEF Start, Verifying
<1>8. CASE AffClassify
  BY <1>8 DEF AffClassify, AffClassifyCommand, Verifying
<1>9. ASSUME NEW v \in Versions, SaveFirstBug(v) PROVE Verifying'
  BY <1>9 DEF SaveFirstBug, Verifying, directories
<1>13. CASE EmptyAffPack
  BY <1>13 DEF EmptyAffPack, Verifying, directories
<1>10. CASE Finish \/ Killed
  BY <1>10 DEF Finish, Killed, Die, Idle, Verifying
<1>11. CASE NextImage
  BY <1>11 DEF NextImage, Verifying
<1>12. CASE UNCHANGED vars
  BY <1>12 DEF vars, directories, Verifying
<1> QED
  BY <1>1, <1>2, <1>3, <1>4, <1>5, <1>6, <1>7, <1>8, <1>9, <1>10, <1>11, <1>12,
     <1>13
     DEF Next, TaskStep

\* A bug is affected from the version that introduced it on, and it is
\* classified by that version only.
LEMMA ClassifiedVersion ==
    ASSUME PipelineTypes, RecordsTrue, NEW t \in Tasks, NEW b \in Bugs, kind[b] = "logical",
           NEW v \in Classified(t, b)
    PROVE  introduced[b] = v
<1>1. v \in Versions /\ v \in Int /\ introduced[b] \in Int /\ introduced[b] >= 1
  BY DEF Classified, Affected, PipelineTypes, Versions
<1>2. v >= introduced[b]
  BY <1>1 DEF Classified, Affected, RecordsTrue
<1>3. v = 1 \/ 0 \in StatusOf(t, b, v - 1)
  BY DEF Classified
<1>4. CASE v = 1
  BY <1>1, <1>2, <1>4
<1>5. CASE v # 1
  <2>1. v - 1 \in Versions
    BY <1>1, <1>5, BugPipelineAssumption DEF Versions
  <2>2. v - 1 < introduced[b]
    BY <1>3, <1>5, <2>1 DEF RecordsTrue
  <2> QED
    BY <1>1, <1>2, <2>2
<1> QED
  BY <1>4, <1>5

\* Every step keeps the classification right.
LEMMA ClassifiedRightNext ==
    ASSUME PipelineTypes, RecordsTrue, ClassifiedRight, [Next]_vars
    PROVE  ClassifiedRight'
<1>1. CASE AffClassify
  <2>1. /\ vListPairs' = [v \in Versions |-> {p \in Tasks \X Bugs : v \in Classified(p[1], p[2])}]
        /\ emptied' = FALSE
        /\ kind' = kind /\ introduced' = introduced
    BY <1>1 DEF AffClassify, truth
  <2>2. ASSUME NEW v \in Versions, NEW p \in vListPairs'[v], kind[p[2]] = "logical"
        PROVE  introduced[p[2]] = v
    <3>1. p[1] \in Tasks /\ p[2] \in Bugs /\ v \in Classified(p[1], p[2])
      BY <2>1, <2>2
    <3> QED
      BY <2>2, <3>1, ClassifiedVersion
  <2> QED
    BY <2>1, <2>2 DEF ClassifiedRight
<1>2. ASSUME NEW v \in Versions, SaveFirstBug(v) PROVE ClassifiedRight'
  <2>1. PICK p \in vListPairs[v] :
           /\ \A q \in vListPairs[v] : ReportTime[p] <= ReportTime[q]
           /\ affPack' = [affPack EXCEPT ![v] = {p}]
    BY <1>2 DEF SaveFirstBug
  <2>2. vListPairs' = vListPairs /\ kind' = kind /\ introduced' = introduced
        /\ emptied' = emptied
    BY <1>2 DEF SaveFirstBug, truth
  <2> QED
    BY <2>1, <2>2 DEF ClassifiedRight, PipelineTypes
<1>4. CASE EmptyAffPack
  <2>1. PICK kept \in SUBSET Versions :
           /\ affPack' = [v \in Versions |-> IF v \in kept THEN affPack[v] ELSE {}]
           /\ emptied' = (kept = {})
    BY <1>4 DEF EmptyAffPack
  <2>2. vListPairs' = vListPairs /\ kind' = kind /\ introduced' = introduced
    BY <1>4 DEF EmptyAffPack, truth
  <2>3. emptied' => \A v \in Versions : affPack'[v] = {}
    BY <2>1
  <2> QED
    BY <2>2, <2>3 DEF ClassifiedRight
<1>3. CASE ~AffClassify /\ ~EmptyAffPack /\ \A v \in Versions : ~SaveFirstBug(v)
  <2>1. UNCHANGED classes
    BY <1>3 DEF Next, vars, TaskStep, Start, CheckStableTask, CheckStable, SqlSimTask,
       SqlSim, AffVersionTask, AffVersionFails, doVerify, EndTask, Panic, Finish,
       NextImage, Killed, Die, Begin, Skip, Fail, GoTo, MakeMayStable, MakeUnstable, MakeSqlSim
  <2> QED
    BY <2>1, TruthFrame DEF ClassifiedRight, classes
<1> QED
  BY <1>1, <1>2, <1>3, <1>4

(***************************************************************************)
(* Reports of errors.                                                      *)
(***************************************************************************)

\* Every step keeps reports of errors out of the later tools.
LEMMA OnlyResultsNext ==
    ASSUME PipelineTypes, ProcessControl, Verifying, Sorting, OnlyResultsPass, [Next]_vars
    PROVE  OnlyResultsPass'
<1> USE DEF PipelineTypes
<1>1. kind' = kind
  BY TruthFrame
<1>2. \A v : \A b \in Bugs : kind[b] = "error" => Outcomes(b, v) = {"error"}
  BY DEF Outcomes
<1>3. ASSUME NEW t \in Tasks, CheckStable(t) PROVE OnlyResultsPass'
  <2>1. PICK b \in todo[t] :
           \/ "bug" \in Outcomes(b, Newest) /\ maystable' = [maystable EXCEPT ![t] = @ \cup {b}]
           \/ maystable' = maystable
    BY <1>3 DEF CheckStable
  <2>2. UNCHANGED <<sqlsim, records>> /\ b \in Bugs /\ maystable[t] # NoDir
    BY <1>3 DEF CheckStable, Running, Sorting, At
  <2>3. maystable' # maystable => kind[b] # "error"
    BY <1>2, <2>1, <2>2
  <2> QED
    BY <1>1, <2>1, <2>2, <2>3, SMTT(60) DEF OnlyResultsPass
<1>4. ASSUME NEW t \in Tasks, SqlSim(t) PROVE OnlyResultsPass'
  <2>1. PICK b \in todo[t] :
           \/ Outcomes(b, Newest) # {"error"} /\ sqlsim' = [sqlsim EXCEPT ![t] = @ \cup {b}]
           \/ sqlsim' = sqlsim
    BY <1>4 DEF SqlSim
  <2>2. UNCHANGED <<maystable, records>> /\ b \in Bugs /\ sqlsim[t] # NoDir
    BY <1>4 DEF SqlSim, Running, Sorting, At
  <2>3. CASE sqlsim' = sqlsim
    BY <1>1, <2>2, <2>3 DEF OnlyResultsPass
  <2>4. CASE sqlsim' # sqlsim
    <3>1. kind[b] # "error" /\ sqlsim' = [sqlsim EXCEPT ![t] = @ \cup {b}]
      BY <1>2, <2>1, <2>2, <2>4
    <3> QED
      BY <1>1, <2>2, <3>1 DEF OnlyResultsPass
  <2> QED
    BY <2>3, <2>4
<1>5. ASSUME NEW t \in Tasks, doVerify(t) PROVE OnlyResultsPass'
  <2>1. CASE Fail(t)
    BY <1>1, <2>1 DEF Fail, OnlyResultsPass, directories
  <2>2. CASE ~Fail(t)
    <3>1. PICK b \in todo[t] : \E outcome \in Outcomes(b, command.version) :
             /\ b \in Bugs /\ b \in sqlsim[t]
             /\ records[<<t, b, command.version>>] = <<>>
             /\ records' = [records EXCEPT ![<<t, b, command.version>>] = <<Status(outcome)>>]
             /\ todo' = [todo EXCEPT ![t] = @ \ {b}]
             /\ UNCHANGED <<command, pc, failed, directories, classes, commands, truth>>
      BY <1>5, <2>2, VerifyStep
    <3>2. UNCHANGED <<maystable, sqlsim>> /\ sqlsim[t] # NoDir
      BY <1>5, <3>1 DEF doVerify, Running, Sorting, directories, At
    <3>3. kind[b] # "error"
      BY <3>1, <3>2 DEF OnlyResultsPass
    <3>4. \A u \in Tasks, c \in Bugs, v \in Versions :
             kind[c] = "error" => records'[<<u, c, v>>] = records[<<u, c, v>>]
      BY <3>1, <3>3
    <3> QED
      BY <1>1, <3>2, <3>4 DEF OnlyResultsPass
  <2> QED
    BY <2>1, <2>2
<1>6. ASSUME NEW t \in Tasks, CheckStableTask(t) PROVE OnlyResultsPass'
  <2>1. PICK left \in Remains(maystable[t]) : maystable' = [maystable EXCEPT ![t] = left]
    BY <1>6 DEF CheckStableTask
  <2>2. UNCHANGED <<sqlsim, records>>
    BY <1>6 DEF CheckStableTask, GoTo
  <2>3. left = NoDir \/ (maystable[t] # NoDir /\ left \subseteq maystable[t])
    BY <2>1 DEF Remains
  <2> QED
    BY <1>1, <2>1, <2>2, <2>3 DEF OnlyResultsPass
<1>10. ASSUME NEW t \in Tasks, MakeMayStable(t) PROVE OnlyResultsPass'
  <2>1. maystable' = [maystable EXCEPT ![t] = {}] /\ UNCHANGED <<sqlsim, records>>
    BY <1>10 DEF MakeMayStable, GoTo
  <2> QED
    BY <1>1, <2>1 DEF OnlyResultsPass
<1>11. ASSUME NEW t \in Tasks, MakeUnstable(t) PROVE OnlyResultsPass'
  <2>1. UNCHANGED <<maystable, sqlsim, records>>
    BY <1>11 DEF MakeUnstable, Begin, GoTo
  <2> QED
    BY <1>1, <2>1 DEF OnlyResultsPass
<1>12. ASSUME NEW t \in Tasks, MakeSqlSim(t) PROVE OnlyResultsPass'
  <2>1. sqlsim' = [sqlsim EXCEPT ![t] = {}] /\ UNCHANGED <<maystable, records>>
    BY <1>12 DEF MakeSqlSim, Begin, GoTo
  <2> QED
    BY <1>1, <2>1 DEF OnlyResultsPass
<1>7. ASSUME NEW t \in Tasks, SqlSimTask(t) PROVE OnlyResultsPass'
  <2>1. UNCHANGED <<maystable, records>>
    BY <1>7 DEF SqlSimTask, GoTo, Skip, directories
  <2>2. CASE sqlsim' = sqlsim
    BY <1>1, <2>1, <2>2 DEF OnlyResultsPass
  <2>3. CASE sqlsim' # sqlsim
    <3>1. PICK left \in Remains(sqlsim[t]) : sqlsim' = [sqlsim EXCEPT ![t] = left]
      BY <1>7, <2>3 DEF SqlSimTask, Skip, directories
    <3>2. left = NoDir \/ (sqlsim[t] # NoDir /\ left \subseteq sqlsim[t])
      BY <3>1 DEF Remains
    <3> QED
      BY <1>1, <2>1, <3>1, <3>2 DEF OnlyResultsPass
  <2> QED
    BY <2>2, <2>3
<1>8. ASSUME NEW t \in Tasks,
             AffVersionTask(t) \/ AffVersionFails(t) \/ EndTask(t) \/ Panic(t)
      PROVE  OnlyResultsPass'
  <2>1. UNCHANGED <<records, directories>>
    BY <1>8 DEF AffVersionTask, AffVersionFails, EndTask, Panic, Die, Begin, Skip, Fail, GoTo
  <2> QED
    BY <1>1, <2>1 DEF OnlyResultsPass, directories
<1>9. CASE ~\E t \in Tasks : TaskStep(t)
  <2>1. UNCHANGED <<records, directories>>
    BY <1>9 DEF Next, vars, Start, AffClassify, SaveFirstBug, Finish, NextImage, Killed,
       Die, EmptyAffPack
  <2> QED
    BY <1>1, <2>1 DEF OnlyResultsPass, directories
<1> QED
  BY <1>3, <1>4, <1>5, <1>6, <1>7, <1>8, <1>9, <1>10, <1>11, <1>12 DEF TaskStep

(***************************************************************************)
(* The theorems.                                                           *)
(***************************************************************************)

\* The invariant of the pipeline holds initially and is kept by every step.
THEOREM PipelineInvariance == Spec => []PipelineInvariant
<1>1. Init => PipelineInvariant
  <2> SUFFICES ASSUME Init PROVE PipelineInvariant
    OBVIOUS
  <2>1. PipelineTypes
    BY TypesInit
  <2>2. ProcessControl
    BY DEF Init, Idle, ProcessControl, Tools
  <2>3. Sorting /\ Verifying
    BY DEF Init, Idle, Sorting, Verifying, At
  <2>4. RecordsTrue
    BY DEF Init, RecordsTrue, StatusOf
  <2>5. VerifiedOnce
    BY DEF Init, VerifiedOnce
  <2>6. ClassifiedRight
    BY DEF Init, ClassifiedRight
  <2>7. OnlyResultsPass
    BY DEF Init, OnlyResultsPass
  <2> QED
    BY <2>1, <2>2, <2>3, <2>4, <2>5, <2>6, <2>7 DEF PipelineInvariant
<1>2. PipelineInvariant /\ [Next]_vars => PipelineInvariant'
  BY TypesNext, ControlNext, SortingNext, VerifyingNext, RecordsTrueNext, VerifiedOnceNext,
     ClassifiedRightNext, OnlyResultsNext DEF PipelineInvariant
<1> QED
  BY <1>1, <1>2, PTL DEF Spec

\* Whatever commands are given, killed and given again, no version of a DBMS is
\* tested twice for a bug.
THEOREM PipelineVerifiedOnce == Spec => []VerifiedOnce
<1>1. PipelineInvariant => VerifiedOnce
  BY DEF PipelineInvariant
<1> QED
  BY <1>1, PipelineInvariance, PTL

\* ckstable leaves the reports of one run, each in one directory, also when an
\* earlier run was killed.
THEOREM PipelineSortedOnce == Spec => []SortedOnce
<1>1. PipelineInvariant => SortedOnce
  BY DEF PipelineInvariant, Sorting, SortedOnce, At
<1> QED
  BY <1>1, PipelineInvariance, PTL

\* An affversion command without errors leaves no simplified bug unverified.
THEOREM PipelineVerifiedAll == Spec => []VerifiedAll
<1>1. PipelineInvariant => VerifiedAll
  BY DEF PipelineInvariant, ProcessControl, Verifying, VerifiedAll, Tools
<1> QED
  BY <1>1, PipelineInvariance, PTL

\* affclassify names the version that introduced a wrong result, whatever
\* failed or died before.
THEOREM PipelineClassifiedRight == Spec => []ClassifiedRight
<1>1. PipelineInvariant => ClassifiedRight
  BY DEF PipelineInvariant
<1> QED
  BY <1>1, PipelineInvariance, PTL

\* No report of an error is simplified or verified.
THEOREM PipelineOnlyResults == Spec => []OnlyResultsPass
<1>1. PipelineInvariant => OnlyResultsPass
  BY DEF PipelineInvariant
<1> QED
  BY <1>1, PipelineInvariance, PTL
=============================================================================
