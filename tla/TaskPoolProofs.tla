--------------------------- MODULE TaskPoolProofs ---------------------------
(***************************************************************************)
(* Proofs about TaskPool, for every number of threads, limit and bound.    *)
(***************************************************************************)
EXTENDS TaskPool, FiniteSetTheorems, SequenceTheorems, TLAPS

\* What a channel send does to the sequence that stands for the channel.
LEMMA AppendFacts ==
    ASSUME NEW S, NEW s \in Seq(S), NEW e \in S
    PROVE  /\ Append(s, e) \in Seq(S)
           /\ Len(Append(s, e)) = Len(s) + 1
           /\ \A i \in 1 .. Len(s) + 1 :
                Append(s, e)[i] = IF i <= Len(s) THEN s[i] ELSE e
OBVIOUS

\* What a channel receive does to it.
LEMMA TailFacts ==
    ASSUME NEW S, NEW s \in Seq(S), s # <<>>
    PROVE  /\ Tail(s) \in Seq(S)
           /\ Head(s) = s[1]
           /\ Head(s) \in S
           /\ Len(s) > 0
           /\ Len(Tail(s)) = Len(s) - 1
           /\ \A i \in 1 .. Len(s) - 1 : Tail(s)[i] = s[i + 1]
OBVIOUS

\* A send on ThreadPool, with the types of the specification.
LEMMA SendFacts ==
    ASSUME PoolTypes, NEW c \in Conns, threadPool' = Append(threadPool, c)
    PROVE  /\ threadPool' \in Seq(Conns)
           /\ Len(threadPool') = Len(threadPool) + 1
           /\ \A i \in 1 .. Len(threadPool') :
                threadPool'[i] = IF i <= Len(threadPool) THEN threadPool[i] ELSE c
<1>1. threadPool \in Seq(Conns)
  BY DEF PoolTypes
<1> QED
  BY <1>1, AppendFacts

(***************************************************************************)
(* Types and the dispatcher's control.                                     *)
(***************************************************************************)

\* The part of the invariant that does not mention who holds which connector.
Skeleton == TypeOK /\ Control /\ IdsInOrder

\* The initial state of the pool satisfies the skeleton.
LEMMA SkeletonInit == Init => Skeleton
<1> SUFFICES ASSUME Init PROVE Skeleton
  OBVIOUS
<1> USE ConfigAssumption DEF Init, TaskIds, Conns, NoConn
<1>0. ASSUME NEW S PROVE <<>> \in Seq(S)
  BY EmptySeq
<1>1. PoolTypes /\ TaskTypes /\ ResultTypes
  <2>1. PoolTypes
    BY <1>0, 0 \in 0 .. ThreadNum, FALSE \in BOOLEAN DEF PoolTypes, DispatcherPcs
  <2>2. TaskTypes
    BY DEF TaskTypes, TaskPcs
  <2>3. ResultTypes
    BY <1>0 DEF ResultTypes
  <2> QED
    BY <2>1, <2>2, <2>3
<1>2. Control
  BY DEF Control
<1>3. IdsInOrder
  BY DEF IdsInOrder, InLoop
<1> QED
  BY <1>1, <1>2, <1>3 DEF Skeleton, TypeOK

\* Every step of the dispatcher keeps the skeleton.
LEMMA SkeletonDispatcher ==
    ASSUME Skeleton, Dispatcher
    PROVE  Skeleton'
<1> USE ConfigAssumption DEF Skeleton, TypeOK, PoolTypes, TaskTypes, ResultTypes, Control, IdsInOrder, InLoop, TaskIds, Conns,
        NoConn, DispatcherPcs, TaskPcs, taskVars, resultVars, poolVars
<1>1. CASE NewConnector
  <2>0. Len(threadPool) \in Conns /\ threadPool' = Append(threadPool, Len(threadPool))
    BY <1>1 DEF NewConnector
  <2>1. PoolTypes'
    <3>1. threadPool' \in Seq(Conns)
      BY <2>0
    <3>2. pg' \in BOOLEAN /\ genMode' \in BOOLEAN /\ open' \in SUBSET Conns /\ closes' \in 0 .. ThreadNum
      BY <1>1, <2>0 DEF NewConnector
    <3>3. pc' \in DispatcherPcs /\ conn' \in Conns \cup {NoConn} /\ expired' \in BOOLEAN
      BY <1>1 DEF NewConnector
    <3> QED
      BY <3>1, <3>2, <3>3
  <2>2. TaskTypes'
    BY <1>1 DEF NewConnector
  <2>3. ResultTypes'
    BY <1>1 DEF NewConnector
  <2>4. Control'
    <3>1. /\ Len(threadPool') = Len(threadPool) + 1
          /\ \A i \in 1 .. Len(threadPool') :
               threadPool'[i] = IF i <= Len(threadPool) THEN threadPool[i] ELSE Len(threadPool)
      BY <2>0, SendFacts
    <3>2. \A i \in 1 .. Len(threadPool') : threadPool'[i] < Len(threadPool')
      <4> SUFFICES ASSUME NEW i \in 1 .. Len(threadPool')
                   PROVE  threadPool'[i] < Len(threadPool')
        OBVIOUS
      <4>1. pc = "create" /\ Len(threadPool) \in Nat
        BY <1>1 DEF NewConnector
      <4>2. CASE i <= Len(threadPool)
        <5>1. i \in 1 .. Len(threadPool)
          BY <4>1, <4>2
        <5>2. threadPool[i] \in Int /\ threadPool[i] < Len(threadPool)
          BY <4>1, <5>1
        <5> QED
          BY <3>1, <4>1, <4>2, <5>2
      <4>3. CASE ~(i <= Len(threadPool))
        BY <3>1, <4>1, <4>3
      <4> QED
        BY <4>2, <4>3
    <3>3. /\ pc = "create"
          /\ pc' = IF Len(threadPool) + 1 = ThreadNum THEN "wait" ELSE "create"
          /\ UNCHANGED <<conn, closes, TotalTaskNum>>
      BY <1>1 DEF NewConnector
    <3>4. pc' = "create" => Len(threadPool') < ThreadNum
      <4>1. Len(threadPool) \in Int /\ Len(threadPool) <= ThreadNum - 1 /\ ThreadNum \in Int
        BY <2>0
      <4>2. Len(threadPool') = Len(threadPool) + 1
        BY <3>1
      <4>3. Len(threadPool) + 1 = ThreadNum => pc' # "create"
        BY <3>3
      <4> QED
        BY <4>1, <4>2, <4>3
    <3> QED
      BY <3>2, <3>3, <3>4
  <2>5. IdsInOrder'
    BY <1>1 DEF NewConnector
  <2> QED
    BY <2>1, <2>2, <2>3, <2>4, <2>5
<1>2. CASE NewConnectorFails
  <2>1. PoolTypes'
    <3>1. threadPool' \in Seq(Conns)
      BY <1>2, EmptySeq DEF NewConnectorFails
    <3>2. pg' \in BOOLEAN /\ genMode' \in BOOLEAN /\ open' \in SUBSET Conns /\ closes' \in 0 .. ThreadNum
      BY <1>2 DEF NewConnectorFails
    <3>3. pc' \in DispatcherPcs /\ conn' \in Conns \cup {NoConn} /\ expired' \in BOOLEAN
      BY <1>2 DEF NewConnectorFails
    <3> QED
      BY <3>1, <3>2, <3>3
  <2>2. TaskTypes'
    BY <1>2 DEF NewConnectorFails
  <2>3. ResultTypes'
    BY <1>2 DEF NewConnectorFails
  <2>4. Control'
    BY <1>2 DEF NewConnectorFails
  <2>5. IdsInOrder'
    BY <1>2 DEF NewConnectorFails
  <2> QED
    BY <2>1, <2>2, <2>3, <2>4, <2>5
<1>3. CASE WaitForFree
  <2>1. PoolTypes'
    BY <1>3, SMTT(20) DEF WaitForFree
  <2>2. TaskTypes'
    BY <1>3 DEF WaitForFree
  <2>3. ResultTypes'
    BY <1>3 DEF WaitForFree
  <2>4. Control'
    BY <1>3 DEF WaitForFree
  <2>5. IdsInOrder'
    BY <1>3 DEF WaitForFree
  <2> QED
    BY <2>1, <2>2, <2>3, <2>4, <2>5
<1>4. CASE CheckMaxTime
  <2>1. PoolTypes'
    BY <1>4 DEF CheckMaxTime
  <2>2. TaskTypes'
    BY <1>4 DEF CheckMaxTime
  <2>3. ResultTypes'
    BY <1>4 DEF CheckMaxTime
  <2>4. Control'
    BY <1>4 DEF CheckMaxTime
  <2>5. IdsInOrder'
    BY <1>4 DEF CheckMaxTime
  <2> QED
    BY <2>1, <2>2, <2>3, <2>4, <2>5
<1>5. CASE CheckMaxTasks
  <2>1. PoolTypes'
    BY <1>5 DEF CheckMaxTasks
  <2>2. TaskTypes'
    BY <1>5 DEF CheckMaxTasks
  <2>3. ResultTypes'
    BY <1>5 DEF CheckMaxTasks
  <2>4. Control'
    BY <1>5 DEF CheckMaxTasks
  <2>5. IdsInOrder'
    BY <1>5 DEF CheckMaxTasks
  <2> QED
    BY <2>1, <2>2, <2>3, <2>4, <2>5
<1>6. CASE StartTask
  <2>1. PoolTypes'
    BY <1>6 DEF StartTask
  <2>2. TaskTypes'
    BY <1>6 DEF StartTask
  <2>3. ResultTypes'
    BY <1>6 DEF StartTask
  <2>4. Control'
    BY <1>6 DEF StartTask
  <2>5. IdsInOrder'
    BY <1>6 DEF StartTask
  <2> QED
    BY <2>1, <2>2, <2>3, <2>4, <2>5
<1>7. CASE PingFails
  <2>1. PoolTypes'
    BY <1>7 DEF PingFails
  <2>2. TaskTypes'
    BY <1>7 DEF PingFails
  <2>3. ResultTypes'
    BY <1>7 DEF PingFails
  <2>4. Control'
    BY <1>7 DEF PingFails
  <2>5. IdsInOrder'
    BY <1>7 DEF PingFails
  <2> QED
    BY <2>1, <2>2, <2>3, <2>4, <2>5
<1>8. CASE BreakLoop
  <2>1. PoolTypes'
    <3>1. threadPool' \in Seq(Conns) /\ conn' \in Conns \cup {NoConn}
      <4>1. CASE pg
        BY <1>8, <4>1, SendFacts DEF BreakLoop
      <4>2. CASE ~pg
        BY <1>8, <4>2 DEF BreakLoop
      <4> QED
        BY <4>1, <4>2
    <3>2. pg' \in BOOLEAN /\ genMode' \in BOOLEAN /\ open' \in SUBSET Conns /\ closes' \in 0 .. ThreadNum
      BY <1>8 DEF BreakLoop
    <3>3. pc' \in DispatcherPcs /\ expired' \in BOOLEAN
      BY <1>8 DEF BreakLoop
    <3> QED
      BY <3>1, <3>2, <3>3
  <2>2. TaskTypes'
    BY <1>8 DEF BreakLoop
  <2>3. ResultTypes'
    BY <1>8 DEF BreakLoop
  <2>4. Control'
    BY <1>8 DEF BreakLoop
  <2>5. IdsInOrder'
    BY <1>8 DEF BreakLoop
  <2> QED
    BY <2>1, <2>2, <2>3, <2>4, <2>5
<1>9. CASE JoinTasks
  <2>1. PoolTypes'
    BY <1>9 DEF JoinTasks
  <2>2. TaskTypes'
    BY <1>9 DEF JoinTasks
  <2>3. ResultTypes'
    BY <1>9 DEF JoinTasks
  <2>4. Control'
    BY <1>9 DEF JoinTasks
  <2>5. IdsInOrder'
    BY <1>9 DEF JoinTasks
  <2> QED
    BY <2>1, <2>2, <2>3, <2>4, <2>5
<1>10. CASE SaveTaskPoolResult
  <2>1. PoolTypes'
    BY <1>10 DEF SaveTaskPoolResult
  <2>2. TaskTypes'
    BY <1>10 DEF SaveTaskPoolResult
  <2>3. ResultTypes'
    <3>1. resultJson' \in Seq(Reports)
      <4>1. [total |-> TotalTaskNum, finished |-> FinishedTaskNum, errors |-> ErrorTaskNum,
             errorIds |-> ErrorTaskIds, bugs |-> BugsNum, bugIds |-> BugTaskIds] \in Reports
        BY DEF Reports
      <4>2. ASSUME NEW r \in Reports PROVE <<r>> \in Seq(Reports)
        OBVIOUS
      <4> QED
        BY <1>10, <4>1, <4>2 DEF SaveTaskPoolResult
    <3>2. UNCHANGED resultVars
      BY <1>10 DEF SaveTaskPoolResult
    <3> QED
      BY <3>1, <3>2
  <2>4. Control'
    BY <1>10 DEF SaveTaskPoolResult
  <2>5. IdsInOrder'
    BY <1>10 DEF SaveTaskPoolResult
  <2> QED
    BY <2>1, <2>2, <2>3, <2>4, <2>5
<1>11. CASE CloseConnector
  <2>1. PoolTypes'
    <3>1. threadPool' \in Seq(Conns)
      BY <1>11, HeadTailProperties DEF CloseConnector
    <3>2. pg' \in BOOLEAN /\ genMode' \in BOOLEAN /\ open' \in SUBSET Conns
      BY <1>11 DEF CloseConnector
    <3>3. closes' \in 0 .. ThreadNum
      BY <1>11 DEF CloseConnector
    <3>4. pc' \in DispatcherPcs /\ conn' \in Conns \cup {NoConn} /\ expired' \in BOOLEAN
      BY <1>11 DEF CloseConnector
    <3> QED
      BY <3>1, <3>2, <3>3, <3>4
  <2>2. TaskTypes'
    BY <1>11 DEF CloseConnector
  <2>3. ResultTypes'
    BY <1>11 DEF CloseConnector
  <2>4. Control'
    BY <1>11 DEF CloseConnector
  <2>5. IdsInOrder'
    BY <1>11 DEF CloseConnector
  <2> QED
    BY <2>1, <2>2, <2>3, <2>4, <2>5
<1> QED
  BY <1>1, <1>2, <1>3, <1>4, <1>5, <1>6, <1>7, <1>8, <1>9, <1>10, <1>11 DEF Dispatcher

\* InitDB leads on to one of two points.
LEMMA InitDBGoes ==
    ASSUME NEW t \in TaskIds, InitDB(t)
    PROVE  Goto(t, "initdb", "exec") \/ Goto(t, "initdb", "fail")
<1>1. PICK failed \in BOOLEAN : Goto(t, "initdb", IF failed THEN "fail" ELSE "exec")
  BY DEF InitDB
<1>2. CASE failed
  BY <1>1, <1>2
<1>3. CASE ~failed
  BY <1>1, <1>3
<1> QED
  BY <1>2, <1>3

\* Every step of a goroutine keeps the skeleton.
LEMMA SkeletonGoroutine ==
    ASSUME Skeleton, NEW t \in TaskIds, Goroutine(t)
    PROVE  Skeleton'
<1> USE ConfigAssumption DEF Skeleton, TypeOK, PoolTypes, TaskTypes, ResultTypes, Control, IdsInOrder, InLoop, TaskIds, Conns,
        NoConn, DispatcherPcs, TaskPcs, dispVars, resultVars, poolVars, Goto
<1>1. CASE PrepareTask(t)
  <2>1. PoolTypes'
    BY <1>1 DEF PrepareTask
  <2>2. TaskTypes'
    BY <1>1 DEF PrepareTask
  <2>3. ResultTypes'
    BY <1>1 DEF PrepareTask
  <2>4. Control'
    BY <1>1 DEF PrepareTask
  <2>5. IdsInOrder'
    BY <1>1 DEF PrepareTask
  <2> QED
    BY <2>1, <2>2, <2>3, <2>4, <2>5
<1>2. CASE InitDB(t)
  <2>1. PoolTypes'
    BY <1>2 DEF InitDB
  <2>2. TaskTypes'
    <3>1. PICK data \in SUBSET TaskIds : db' = [db EXCEPT ![tconn[t]] = data]
      <4>1. PICK failed \in BOOLEAN :
              \E data \in Prepared(t, db[tconn[t]], failed) : db' = [db EXCEPT ![tconn[t]] = data]
        BY <1>2 DEF InitDB
      <4>2. tconn[t] \in Conns
        BY <1>2 DEF InitDB
      <4>3. db[tconn[t]] \in SUBSET TaskIds /\ t \in TaskIds
        BY <4>2
      <4>4. Prepared(t, db[tconn[t]], failed) \subseteq SUBSET TaskIds
        BY <4>3 DEF Prepared, Refills
      <4> QED
        BY <4>1, <4>4
    <3>2. db' \in [Conns -> SUBSET TaskIds]
      BY <3>1
    <3>3. tpc' \in [TaskIds -> TaskPcs]
      BY <1>2 DEF InitDB
    <3> QED
      BY <1>2, <3>2, <3>3 DEF InitDB
  <2>3. ResultTypes'
    BY <1>2 DEF InitDB
  <2>4. Control'
    BY <1>2 DEF InitDB
  <2>5. IdsInOrder'
    BY <1>2 DEF InitDB
  <2> QED
    BY <2>1, <2>2, <2>3, <2>4, <2>5
<1>3. CASE ExecTask(t)
  <2>1. PoolTypes'
    BY <1>3 DEF ExecTask
  <2>2. TaskTypes'
    BY <1>3 DEF ExecTask
  <2>3. ResultTypes'
    BY <1>3 DEF ExecTask
  <2>4. Control'
    BY <1>3 DEF ExecTask
  <2>5. IdsInOrder'
    BY <1>3 DEF ExecTask
  <2> QED
    BY <2>1, <2>2, <2>3, <2>4, <2>5
<1>4. CASE RecordError(t)
  <2>1. PoolTypes'
    BY <1>4 DEF RecordError
  <2>2. TaskTypes'
    BY <1>4 DEF RecordError
  <2>3. ResultTypes'
    BY <1>4 DEF RecordError
  <2>4. Control'
    BY <1>4 DEF RecordError
  <2>5. IdsInOrder'
    BY <1>4 DEF RecordError
  <2> QED
    BY <2>1, <2>2, <2>3, <2>4, <2>5
<1>5. CASE RecordBugs(t)
  <2>1. PoolTypes'
    BY <1>5 DEF RecordBugs
  <2>2. TaskTypes'
    BY <1>5 DEF RecordBugs
  <2>3. ResultTypes'
    <3>1. BugsNum' \in Nat /\ BugTaskIds' \in Seq(TaskIds)
      <4>1. CASE bugs[t] > 0
        <5>1. BugsNum' = BugsNum + bugs[t] /\ BugTaskIds' = Append(BugTaskIds, t)
          BY <1>5, <4>1 DEF RecordBugs
        <5>2. bugs[t] \in Nat
          OBVIOUS
        <5> QED
          BY <5>1, <5>2
      <4>2. CASE ~(bugs[t] > 0)
        BY <1>5, <4>2 DEF RecordBugs
      <4> QED
        BY <4>1, <4>2
    <3> QED
      BY <1>5, <3>1 DEF RecordBugs
  <2>4. Control'
    BY <1>5 DEF RecordBugs
  <2>5. IdsInOrder'
    BY <1>5 DEF RecordBugs
  <2> QED
    BY <2>1, <2>2, <2>3, <2>4, <2>5
<1>6. CASE CountFinished(t)
  <2>1. PoolTypes'
    BY <1>6 DEF CountFinished
  <2>2. TaskTypes'
    BY <1>6 DEF CountFinished
  <2>3. ResultTypes'
    BY <1>6 DEF CountFinished
  <2>4. Control'
    BY <1>6 DEF CountFinished
  <2>5. IdsInOrder'
    BY <1>6 DEF CountFinished
  <2> QED
    BY <2>1, <2>2, <2>3, <2>4, <2>5
<1>7. CASE BackToPool(t)
  <2>1. PoolTypes'
    BY <1>7 DEF BackToPool
  <2>2. TaskTypes'
    BY <1>7 DEF BackToPool
  <2>3. ResultTypes'
    BY <1>7 DEF BackToPool
  <2>4. Control'
    BY <1>7 DEF BackToPool
  <2>5. IdsInOrder'
    BY <1>7 DEF BackToPool
  <2> QED
    BY <2>1, <2>2, <2>3, <2>4, <2>5
<1>8. CASE WgDone(t)
  <2>1. PoolTypes'
    BY <1>8 DEF WgDone
  <2>2. TaskTypes'
    BY <1>8 DEF WgDone
  <2>3. ResultTypes'
    BY <1>8 DEF WgDone
  <2>4. Control'
    BY <1>8 DEF WgDone
  <2>5. IdsInOrder'
    BY <1>8 DEF WgDone
  <2> QED
    BY <2>1, <2>2, <2>3, <2>4, <2>5
<1> QED
  BY <1>1, <1>2, <1>3, <1>4, <1>5, <1>6, <1>7, <1>8 DEF Goroutine

\* Every step of the specification keeps the skeleton.
LEMMA SkeletonNext ==
    ASSUME Skeleton, [Next]_vars
    PROVE  Skeleton'
<1>1. CASE Dispatcher
  BY <1>1, SkeletonDispatcher
<1>2. CASE \E t \in TaskIds : Goroutine(t)
  BY <1>2, SkeletonGoroutine
<1>3. CASE TimePasses
  BY <1>3 DEF TimePasses, Skeleton, TypeOK, PoolTypes, TaskTypes, ResultTypes, Control,
              IdsInOrder, InLoop, poolVars, taskVars, resultVars
<1>4. CASE Returned \/ UNCHANGED vars
  BY <1>4, SMTT(20)
  DEF Returned, Skeleton, TypeOK, PoolTypes, TaskTypes, ResultTypes, Control,
      IdsInOrder, InLoop, vars, poolVars, dispVars, taskVars, resultVars
<1> QED
  BY <1>1, <1>2, <1>3, <1>4 DEF Next

\* Every variable keeps its type: in particular no step uses a connector or a
\* task id outside the ones the pool created.
THEOREM TaskPoolTypes == Spec => []TypeOK
<1>1. Init => Skeleton
  BY SkeletonInit
<1>2. Skeleton /\ [Next]_vars => Skeleton'
  BY SkeletonNext
<1>3. Skeleton => TypeOK
  BY DEF Skeleton
<1> QED
  BY <1>1, <1>2, <1>3, PTL DEF Spec

(***************************************************************************)
(* A connector has one holder.                                             *)
(***************************************************************************)

\* Steps that move no connector: no new holder appears.
LEMMA ExclusiveShrinks ==
    ASSUME ConnectorExclusive,
           UNCHANGED <<threadPool, conn, tconn>>,
           \A u \in TaskIds : Holding(u)' => Holding(u)
    PROVE  ConnectorExclusive'
BY DEF ConnectorExclusive, NoDuplicates, Elements

\* A receive takes an element out of the channel that stays nowhere else in it.
LEMMA ReceiveFacts ==
    ASSUME PoolTypes, NoDuplicates(threadPool), threadPool # <<>>,
           threadPool' = Tail(threadPool)
    PROVE  /\ NoDuplicates(threadPool')
           /\ Head(threadPool) \in Elements(threadPool)
           /\ Elements(threadPool') = Elements(threadPool) \ {Head(threadPool)}
<1>1. /\ Len(threadPool) \in Nat \ {0}
      /\ Len(threadPool') = Len(threadPool) - 1
      /\ Head(threadPool) = threadPool[1]
      /\ \A i \in 1 .. Len(threadPool) - 1 : threadPool'[i] = threadPool[i + 1]
  BY TailFacts DEF PoolTypes
<1>2. NoDuplicates(threadPool')
  BY <1>1 DEF NoDuplicates
<1>3. Head(threadPool) \in Elements(threadPool)
  BY <1>1 DEF Elements
<1>4. ASSUME NEW x \in Elements(threadPool')
      PROVE  x \in Elements(threadPool) \ {Head(threadPool)}
  <2>1. PICK i \in 1 .. Len(threadPool) - 1 : x = threadPool[i + 1]
    BY <1>1, <1>4 DEF Elements
  <2> QED
    BY <1>1, <2>1 DEF Elements, NoDuplicates
<1>5. ASSUME NEW x \in Elements(threadPool), x # Head(threadPool)
      PROVE  x \in Elements(threadPool')
  <2>1. PICK i \in 1 .. Len(threadPool) : x = threadPool[i]
    BY <1>5 DEF Elements
  <2>2. i - 1 \in 1 .. Len(threadPool) - 1
    BY <1>1, <1>5, <2>1
  <2>3. threadPool'[i - 1] = x
    BY <1>1, <2>1, <2>2
  <2> QED
    BY <1>1, <2>2, <2>3 DEF Elements
<1> QED
  BY <1>2, <1>3, <1>4, <1>5

\* A send of a connector that was not in the channel.
LEMMA SendFresh ==
    ASSUME PoolTypes, NoDuplicates(threadPool), NEW c \in Conns,
           c \notin Elements(threadPool), threadPool' = Append(threadPool, c)
    PROVE  /\ NoDuplicates(threadPool')
           /\ Elements(threadPool') = Elements(threadPool) \cup {c}
<1>1. /\ Len(threadPool) \in Nat
      /\ Len(threadPool') = Len(threadPool) + 1
      /\ \A i \in 1 .. Len(threadPool') :
           threadPool'[i] = IF i <= Len(threadPool) THEN threadPool[i] ELSE c
  BY SendFacts DEF PoolTypes
<1>2. NoDuplicates(threadPool')
  BY <1>1 DEF NoDuplicates, Elements
<1>3. Elements(threadPool') \subseteq Elements(threadPool) \cup {c}
  BY <1>1 DEF Elements
<1>4. Elements(threadPool) \subseteq Elements(threadPool')
  BY <1>1 DEF Elements
<1>5. c \in Elements(threadPool')
  <2>1. threadPool'[Len(threadPool')] = c
    BY <1>1
  <2> QED
    BY <1>1, <2>1 DEF Elements
<1> QED
  BY <1>2, <1>3, <1>4, <1>5

\* No step gives a connector a second holder.
LEMMA ExclusiveNext ==
    ASSUME Skeleton, ConnectorExclusive, [Next]_vars
    PROVE  ConnectorExclusive'
<1> USE DEF Skeleton, TypeOK
<1>0. NoDuplicates(threadPool)
  BY DEF ConnectorExclusive
<1>1. CASE NewConnector
  <2>1. \A t \in TaskIds : tpc[t] = "idle"
    BY <1>1 DEF NewConnector, IdsInOrder, Control, TaskIds
  <2>2. Len(threadPool) \in Conns /\ Len(threadPool) \notin Elements(threadPool)
    BY <1>1, ConfigAssumption DEF NewConnector, Control, Conns, Elements, PoolTypes
  <2>3. conn' = NoConn /\ NoConn \notin Elements(threadPool')
    <3>1. conn' = NoConn
      BY <1>1 DEF NewConnector, Control
    <3>2. Elements(threadPool') = Elements(threadPool) \cup {Len(threadPool)}
      BY <1>0, <1>1, <2>2, SendFresh DEF NewConnector
    <3>3. NoConn \notin Elements(threadPool) /\ NoConn \notin Conns
      BY ConfigAssumption DEF PoolTypes, Elements, Conns, NoConn
    <3> QED
      BY <2>2, <3>1, <3>2, <3>3
  <2>4. NoDuplicates(threadPool')
    BY <1>0, <1>1, <2>2, SendFresh DEF NewConnector
  <2> QED
    BY <1>1, <2>1, <2>3, <2>4 DEF NewConnector, ConnectorExclusive, Holding, HoldingPcs, taskVars
<1>2. CASE NewConnectorFails
  <2>1. \A t \in TaskIds : tpc[t] = "idle"
    BY <1>2 DEF NewConnectorFails, IdsInOrder, Control, TaskIds
  <2>2. NoDuplicates(threadPool') /\ Elements(threadPool') \subseteq Elements(threadPool)
    BY <1>0, <1>2 DEF NewConnectorFails, NoDuplicates, Elements
  <2> QED
    BY <1>2, <2>1, <2>2 DEF NewConnectorFails, ConnectorExclusive, Holding, HoldingPcs, taskVars
<1>3. CASE WaitForFree
  <2>1. /\ NoDuplicates(threadPool')
        /\ conn' \in Elements(threadPool)
        /\ Elements(threadPool') = Elements(threadPool) \ {conn'}
    BY <1>0, <1>3, ReceiveFacts DEF WaitForFree
  <2> QED
    BY <1>3, <2>1 DEF WaitForFree, ConnectorExclusive, Holding, taskVars
<1>4. CASE StartTask
  <2>1. TotalTaskNum \in TaskIds /\ tpc[TotalTaskNum] = "idle" /\ conn \in Conns
    BY <1>4, ConfigAssumption DEF StartTask, IdsInOrder, Control, TaskIds, ResultTypes
  <2>2. \A u \in TaskIds \ {TotalTaskNum} : tpc'[u] = tpc[u] /\ tconn'[u] = tconn[u]
    BY <1>4 DEF StartTask, TaskTypes
  <2>3. tconn'[TotalTaskNum] = conn /\ conn' = NoConn /\ threadPool' = threadPool
    BY <1>4, <2>1 DEF StartTask, TaskTypes, poolVars
  <2>4. NoConn \notin Conns /\ NoConn \notin Elements(threadPool)
    BY ConfigAssumption DEF Conns, NoConn, Elements, PoolTypes
  <2>5. \A u \in TaskIds \ {TotalTaskNum} : Holding(u)' => Holding(u)
    BY <2>2 DEF Holding
  <2>6. \A u \in TaskIds : Holding(u)' => tconn'[u] \notin Elements(threadPool')
    BY <2>2, <2>3, <2>5 DEF ConnectorExclusive
  <2>7. \A u \in TaskIds : Holding(u)' => tconn'[u] \in Conns
    BY <2>1, <2>2, <2>3, <2>5 DEF IdsInOrder, Holding, HoldingPcs
  <2>8. \A u, v \in TaskIds :
          Holding(u)' /\ Holding(v)' /\ tconn'[u] = tconn'[v] => u = v
    BY <2>1, <2>2, <2>3, <2>5 DEF ConnectorExclusive
  <2> QED
    BY <1>0, <2>3, <2>4, <2>6, <2>7, <2>8 DEF ConnectorExclusive
<1>5. CASE BreakLoop
  <2>1. CASE pg
    <3>1. conn \in Conns /\ conn \notin Elements(threadPool)
      BY <1>5 DEF BreakLoop, Control, ConnectorExclusive
    <3>2. /\ NoDuplicates(threadPool')
          /\ Elements(threadPool') = Elements(threadPool) \cup {conn}
      BY <1>0, <1>5, <2>1, <3>1, SendFresh DEF BreakLoop
    <3>3. conn' = NoConn /\ NoConn \notin Conns /\ NoConn \notin Elements(threadPool)
      BY <1>5, <2>1, ConfigAssumption DEF BreakLoop, Conns, NoConn, Elements, PoolTypes
    <3>4. \A u \in TaskIds : Holding(u) => tconn[u] \in Conns
      BY DEF IdsInOrder, Holding, HoldingPcs
    <3> QED
      BY <1>5, <3>1, <3>2, <3>3, <3>4 DEF BreakLoop, ConnectorExclusive, Holding, taskVars
  <2>2. CASE ~pg
    BY <1>5, <2>2, ExclusiveShrinks DEF BreakLoop, Holding, taskVars
  <2> QED
    BY <2>1, <2>2
<1>6. CASE CloseConnector
  <2>1. /\ NoDuplicates(threadPool')
        /\ Elements(threadPool') \subseteq Elements(threadPool)
    BY <1>0, <1>6, ReceiveFacts DEF CloseConnector
  <2> QED
    BY <1>6, <2>1 DEF CloseConnector, ConnectorExclusive, Holding, taskVars
<1>7. CASE CheckMaxTime \/ CheckMaxTasks \/ PingFails \/ JoinTasks \/ SaveTaskPoolResult
           \/ TimePasses
  BY <1>7, ExclusiveShrinks DEF CheckMaxTime, CheckMaxTasks, PingFails, JoinTasks,
     SaveTaskPoolResult, TimePasses, Holding, taskVars, poolVars
<1>8. ASSUME NEW t \in TaskIds, Goroutine(t) PROVE ConnectorExclusive'
  <2>1. CASE BackToPool(t)
    <3>1. tpc[t] = "return" /\ tpc' = [tpc EXCEPT ![t] = "exit"] /\ tpc'[t] = "exit"
      BY <2>1 DEF BackToPool, Goto, TaskTypes
    <3>2. tconn[t] \in Conns /\ tconn[t] \notin Elements(threadPool) \cup {conn}
      BY <3>1 DEF IdsInOrder, ConnectorExclusive, Holding, HoldingPcs
    <3>3. /\ NoDuplicates(threadPool')
          /\ Elements(threadPool') = Elements(threadPool) \cup {tconn[t]}
      BY <1>0, <2>1, <3>2, SendFresh DEF BackToPool
    <3>4. conn' = conn /\ tconn' = tconn
      BY <2>1 DEF BackToPool, dispVars
    <3>5. \A u \in TaskIds : Holding(u)' => Holding(u) /\ u # t
      BY <3>1 DEF Holding, HoldingPcs, TaskTypes
    <3>6. Holding(t)
      BY <3>1 DEF Holding, HoldingPcs
    <3> QED
      BY <3>2, <3>3, <3>4, <3>5, <3>6 DEF ConnectorExclusive
  <2>2. CASE ~BackToPool(t)
    <3>1. UNCHANGED <<threadPool, conn, tconn>>
      BY <1>8, <2>2 DEF Goroutine, PrepareTask, InitDB, ExecTask, RecordError, RecordBugs,
         CountFinished, WgDone, poolVars, dispVars
    <3>2. PICK from \in TaskPcs, to \in TaskPcs :
             Goto(t, from, to) /\ (to \in HoldingPcs => from \in HoldingPcs)
      BY <1>8, <2>2 DEF Goroutine, PrepareTask, InitDB, ExecTask, RecordError, RecordBugs,
         CountFinished, WgDone, TaskPcs, HoldingPcs, Goto
    <3>3. \A u \in TaskIds : Holding(u)' => Holding(u)
      BY <3>2 DEF Goto, Holding, TaskTypes
    <3> QED
      BY <3>1, <3>3, ExclusiveShrinks
  <2> QED
    BY <2>1, <2>2
<1>9. CASE Returned \/ UNCHANGED vars
  BY <1>9, ExclusiveShrinks DEF Returned, vars, Holding, poolVars, dispVars, taskVars
<1> QED
  BY <1>1, <1>2, <1>3, <1>4, <1>5, <1>6, <1>7, <1>8, <1>9 DEF Next, Dispatcher

\* What is known of the databases: who wrote to them, that the holder of a
\* connector is the latest of its tasks, and the property itself.
Ownership == Writers /\ HolderIsLatest /\ OwnDatabase

\* A task's database stays its own while the task executes: only the holder of
\* a connector writes to its database.
LEMMA OwnershipNext ==
    ASSUME Skeleton, ConnectorExclusive, Skeleton', ConnectorExclusive', Ownership, [Next]_vars
    PROVE  Ownership'
<1> USE DEF Skeleton, TypeOK
<1>0. SUFFICES /\ Writers' /\ HolderIsLatest'
               /\ \A t \in TaskIds : tpc'[t] \in {"exec", "record"} /\ Refills' => db'[tconn'[t]] = {t}
  <2> SUFFICES ASSUME Writers', HolderIsLatest',
                      \A t \in TaskIds : tpc'[t] \in {"exec", "record"} /\ Refills' =>
                            db'[tconn'[t]] = {t}
               PROVE  OwnDatabase'
    BY DEF Ownership
  <2>1. \A t \in TaskIds : Holding(t)' =>
           \A u \in (db[tconn[t]] \ {t})' : u < t /\ ~Holding(u)'
    <3> SUFFICES ASSUME NEW t \in TaskIds, Holding(t)', NEW u \in (db[tconn[t]] \ {t})'
                 PROVE  u < t /\ ~Holding(u)'
      OBVIOUS
    <3>1. tconn'[t] \in Conns
      BY DEF IdsInOrder, Holding, HoldingPcs
    <3>2. u \in TaskIds /\ tpc'[u] # "idle" /\ tconn'[u] = tconn'[t]
      BY <3>1 DEF Writers, TaskTypes
    <3>3. u <= t
      BY <3>2 DEF HolderIsLatest
    <3>4. ~Holding(u)'
      BY <3>2 DEF ConnectorExclusive
    <3> QED
      BY <3>2, <3>3, <3>4, ConfigAssumption DEF TaskIds
  <2> QED
    BY <2>1 DEF OwnDatabase, Holding, HoldingPcs
<1>1. CASE StartTask
  <2>1. TotalTaskNum \in TaskIds /\ tpc[TotalTaskNum] = "idle" /\ conn \in Conns
    BY <1>1, ConfigAssumption DEF StartTask, IdsInOrder, Control, TaskIds, ResultTypes
  <2>2. \A u \in TaskIds \ {TotalTaskNum} : tpc'[u] = tpc[u] /\ tconn'[u] = tconn[u]
    BY <1>1 DEF StartTask, TaskTypes
  <2>3. /\ tconn'[TotalTaskNum] = conn /\ tpc'[TotalTaskNum] = "config" /\ db' = db
        /\ Refills' = Refills
    BY <1>1, <2>1 DEF StartTask, TaskTypes, poolVars, Refills
  <2>4. Writers'
    BY <2>1, <2>2, <2>3 DEF Ownership, Writers, TaskTypes
  <2>5. HolderIsLatest'
    <3> SUFFICES ASSUME NEW t \in TaskIds, NEW u \in TaskIds,
                        Holding(t)', tpc'[u] # "idle", tconn'[u] = tconn'[t]
                 PROVE  u <= t
      BY DEF HolderIsLatest
    <3>1. CASE t = TotalTaskNum
      <4>1. u < TotalTaskNum \/ u = TotalTaskNum
        <5>1. CASE u # TotalTaskNum
          <6>1. tpc[u] # "idle"
            BY <2>2, <5>1
          <6>2. ~(u >= TotalTaskNum)
            BY <6>1 DEF IdsInOrder
          <6> QED
            BY <6>2, ConfigAssumption DEF TaskIds, ResultTypes
        <5> QED
          BY <5>1
      <4> QED
        BY <3>1, <4>1, ConfigAssumption DEF TaskIds, ResultTypes
    <3>2. CASE t # TotalTaskNum
      <4>1. Holding(t) /\ tconn[t] = tconn'[t]
        BY <2>2, <3>2 DEF Holding
      <4>2. u # TotalTaskNum
        BY <2>3, <4>1 DEF ConnectorExclusive
      <4> QED
        BY <2>2, <4>1, <4>2 DEF Ownership, HolderIsLatest
    <3> QED
      BY <3>1, <3>2
  <2>6. \A t \in TaskIds : tpc'[t] \in {"exec", "record"} /\ Refills' => db'[tconn'[t]] = {t}
    BY <2>2, <2>3 DEF Ownership, OwnDatabase
  <2> QED
    BY <2>4, <2>5, <2>6
<1>2. CASE \/ Dispatcher /\ ~StartTask
           \/ TimePasses \/ Returned \/ UNCHANGED vars
  <2>1. UNCHANGED <<db, tconn, tpc, pg, genMode>>
    BY <1>2 DEF Dispatcher, NewConnector, NewConnectorFails, WaitForFree, CheckMaxTime,
       CheckMaxTasks, PingFails, BreakLoop, JoinTasks, SaveTaskPoolResult,
       CloseConnector, TimePasses, Returned, vars, taskVars, poolVars
  <2> QED
    BY <2>1 DEF Ownership, Writers, HolderIsLatest, OwnDatabase, Holding, Refills
<1>3. ASSUME NEW t \in TaskIds, Goroutine(t)
      PROVE  /\ Writers' /\ HolderIsLatest'
             /\ \A u \in TaskIds : tpc'[u] \in {"exec", "record"} /\ Refills' => db'[tconn'[u]] = {u}
  <2>1. UNCHANGED <<tconn, pg, genMode>> /\ Refills' = Refills
    BY <1>3 DEF Goroutine, PrepareTask, InitDB, ExecTask, RecordError, RecordBugs,
       CountFinished, BackToPool, WgDone, poolVars, Refills
  <2>2. PICK from \in TaskPcs \ {"idle"}, to \in TaskPcs \ {"idle"} :
           Goto(t, from, to) /\ (to \in HoldingPcs => from \in HoldingPcs)
    <3>1. CASE InitDB(t)
      <4>1. \E next \in {"exec", "fail"} : Goto(t, "initdb", next)
        BY <3>1, InitDBGoes
      <4> QED
        BY <4>1 DEF TaskPcs, HoldingPcs
    <3>2. CASE ~InitDB(t)
      BY <1>3, <3>2 DEF Goroutine, PrepareTask, ExecTask, RecordError, RecordBugs,
         CountFinished, BackToPool, WgDone, TaskPcs, HoldingPcs, Goto
    <3> QED
      BY <3>1, <3>2
  <2>3. \A u \in TaskIds : /\ Holding(u)' => Holding(u)
                           /\ tpc'[u] # "idle" <=> tpc[u] # "idle"
    BY <2>2 DEF Goto, Holding, TaskTypes
  <2>4. HolderIsLatest'
    BY <2>1, <2>3 DEF Ownership, HolderIsLatest
  <2>5. CASE InitDB(t)
    <3>0. PICK failed \in BOOLEAN :
            /\ tpc[t] = "initdb"
            /\ tpc' = [tpc EXCEPT ![t] = IF failed THEN "fail" ELSE "exec"]
            /\ \E data \in Prepared(t, db[tconn[t]], failed) :
                  db' = [db EXCEPT ![tconn[t]] = data]
      BY <2>5 DEF InitDB, Goto
    <3>1. tconn[t] \in Conns /\ Holding(t)
      BY <3>0 DEF IdsInOrder, Holding, HoldingPcs
    <3>2. PICK data \in Prepared(t, db[tconn[t]], failed) : db' = [db EXCEPT ![tconn[t]] = data]
      BY <3>0
    <3>3. data \subseteq db[tconn[t]] \cup {t}
      BY <3>2 DEF Prepared, Refills, PoolTypes
    <3>4. Writers'
      BY <2>1, <2>3, <3>0, <3>1, <3>2, <3>3 DEF Ownership, Writers, TaskTypes
    <3>5. ASSUME NEW u \in TaskIds, tpc'[u] \in {"exec", "record"}, Refills
          PROVE  db'[tconn[u]] = {u}
      <4>1. CASE u = t
        <5>1. ~failed
          BY <3>0, <3>5, <4>1 DEF TaskTypes
        <5>2. data = {t}
          BY <3>2, <3>5, <5>1 DEF Prepared, Refills
        <5> QED
          BY <3>1, <3>2, <4>1, <5>2 DEF TaskTypes
      <4>2. CASE u # t
        <5>1. tpc[u] \in {"exec", "record"}
          BY <3>0, <3>5, <4>2 DEF TaskTypes
        <5>2. tconn[u] # tconn[t] /\ tconn[u] \in Conns
          BY <3>1, <4>2, <5>1 DEF ConnectorExclusive, Holding, HoldingPcs, IdsInOrder
        <5>3. db[tconn[u]] = {u}
          BY <3>5, <5>1 DEF Ownership, OwnDatabase
        <5> QED
          BY <3>2, <5>2, <5>3 DEF TaskTypes
      <4> QED
        BY <4>1, <4>2
    <3> QED
      BY <2>1, <2>4, <3>4, <3>5
  <2>6. CASE ~InitDB(t)
    <3>1. db' = db
      BY <1>3, <2>6 DEF Goroutine, PrepareTask, ExecTask, RecordError, RecordBugs,
         CountFinished, BackToPool, WgDone
    <3>2. PICK from2 \in TaskPcs, to2 \in TaskPcs :
             Goto(t, from2, to2) /\ (to2 \in {"exec", "record"} => from2 = "exec")
      BY <1>3, <2>6 DEF Goroutine, PrepareTask, ExecTask, RecordError, RecordBugs,
         CountFinished, BackToPool, WgDone, TaskPcs, Goto
    <3>3. Writers'
      BY <2>1, <2>3, <3>1 DEF Ownership, Writers, TaskTypes
    <3>4. \A u \in TaskIds : tpc'[u] \in {"exec", "record"} => tpc[u] \in {"exec", "record"}
      BY <3>2 DEF Goto, TaskTypes
    <3> QED
      BY <2>1, <2>4, <3>1, <3>3, <3>4 DEF Ownership, OwnDatabase
  <2> QED
    BY <2>5, <2>6
<1> QED
  BY <1>1, <1>2, <1>3 DEF Next

\* Nobody holds a connector and nobody has written to a database initially.
LEMMA OwnershipInit == Init => ConnectorExclusive /\ Ownership
BY DEF Init, ConnectorExclusive, Ownership, Writers, HolderIsLatest, OwnDatabase,
   NoDuplicates, Elements, Holding, HoldingPcs, NoConn

\* Two tasks never work in the same database at a time: a connector is with one
\* holder, whoever else wrote to a running task's database came earlier and is
\* gone, and a database that InitDBWithDDL refills holds that task's data only.
THEOREM TaskIsolation == Spec => [](ConnectorExclusive /\ OwnDatabase)
<1> DEFINE Inv == Skeleton /\ ConnectorExclusive /\ Ownership
<1>1. Init => Inv
  BY SkeletonInit, OwnershipInit
<1>2. Inv /\ [Next]_vars => Inv'
  BY SkeletonNext, ExclusiveNext, OwnershipNext
<1>3. Inv => ConnectorExclusive /\ OwnDatabase
  BY DEF Ownership
<1> QED
  BY <1>1, <1>2, <1>3, PTL DEF Spec

(***************************************************************************)
(* Counting: the channel has room, the limit is overshot by less than      *)
(* ThreadNum.                                                              *)
(***************************************************************************)

\* The connectors without one of them number ThreadNum - 1.
LEMMA OtherConns ==
    ASSUME NEW c \in Conns
    PROVE  IsFiniteSet(Conns \ {c}) /\ Cardinality(Conns \ {c}) = ThreadNum - 1
<1>1. IsFiniteSet(Conns) /\ Cardinality(Conns) = ThreadNum
  BY FS_Interval, ConfigAssumption DEF Conns
<1> QED
  BY <1>1, FS_RemoveElement

\* Counting positions, and counting ids.
LEMMA IntervalCard ==
    ASSUME NEW n \in Nat
    PROVE  /\ IsFiniteSet(1 .. n) /\ Cardinality(1 .. n) = n
           /\ IsFiniteSet(0 .. n - 1) /\ Cardinality(0 .. n - 1) = n
<1>1. IsFiniteSet(1 .. n) /\ Cardinality(1 .. n) = IF 1 > n THEN 0 ELSE n - 1 + 1
  BY FS_Interval
<1>2. IsFiniteSet(0 .. n - 1)
      /\ Cardinality(0 .. n - 1) = IF 0 > n - 1 THEN 0 ELSE (n - 1) - 0 + 1
  BY n - 1 \in Int, FS_Interval
<1> QED
  BY <1>1, <1>2

\* A connector that is outside the channel leaves room in it.
LEMMA RoomInPool ==
    ASSUME PoolTypes, NoDuplicates(threadPool), NEW c \in Conns, c \notin Elements(threadPool)
    PROVE  Len(threadPool) < ThreadNum
<1> DEFINE S == 1 .. Len(threadPool)
<1> DEFINE f == [i \in S |-> threadPool[i]]
<1>1. Len(threadPool) \in Nat /\ \A i \in S : threadPool[i] \in Conns
  BY DEF PoolTypes
<1>2. f \in Injection(S, Conns \ {c})
  BY <1>1 DEF Injection, IsInjective, Elements, NoDuplicates
<1>3. Cardinality(S) <= Cardinality(Conns \ {c})
  BY <1>2, OtherConns, FS_Injection
<1>4. Cardinality(S) = Len(threadPool)
  BY <1>1, IntervalCard
<1> QED
  <2>1. Cardinality(Conns \ {c}) = ThreadNum - 1
    BY OtherConns
  <2>2. Len(threadPool) <= ThreadNum - 1
    BY <1>3, <1>4, <2>1
  <2> QED
    BY <1>1, <2>2, ConfigAssumption

\* A send of BackToPool never blocks.
LEMMA SendHasRoom ==
    ASSUME Skeleton, ConnectorExclusive
    PROVE  BackToPoolNeverBlocks
<1>1. ASSUME NEW t \in TaskIds, tpc[t] = "return"
      PROVE  Len(threadPool) < ThreadNum
  <2>1. tconn[t] \in Conns /\ tconn[t] \notin Elements(threadPool)
    BY <1>1 DEF Skeleton, IdsInOrder, ConnectorExclusive, Holding, HoldingPcs
  <2> QED
    BY <2>1, RoomInPool DEF Skeleton, TypeOK, ConnectorExclusive
<1>2. ASSUME pc = "break"
      PROVE  Len(threadPool) < ThreadNum
  BY <1>2, RoomInPool DEF Skeleton, TypeOK, Control, ConnectorExclusive
<1> QED
  BY <1>1, <1>2 DEF BackToPoolNeverBlocks

\* The ids are a finite set, so every set of tasks has a cardinality.
LEMMA TasksFinite ==
    ASSUME NEW S \in SUBSET TaskIds
    PROVE  IsFiniteSet(S) /\ Cardinality(S) \in Nat
<1>1. IsFiniteSet(TaskIds)
  BY IntervalCard, ConfigAssumption DEF TaskIds
<1>2. IsFiniteSet(S)
  BY <1>1, FS_Subset
<1> QED
  BY <1>2, FS_CardinalityType

\* A step that changes no goroutine's place and neither counter.
LEMMA CountersFrame ==
    ASSUME CountersExact, UNCHANGED <<tpc, wg, FinishedTaskNum>>
    PROVE  CountersExact'
BY DEF CountersExact, Unended, Counted

\* wg and FinishedTaskNum count goroutines through every step.
LEMMA CountersNext ==
    ASSUME Skeleton, CountersExact, [Next]_vars
    PROVE  CountersExact'
<1> USE DEF Skeleton, TypeOK
<1>0. /\ IsFiniteSet(Unended) /\ Cardinality(Unended) \in Nat
      /\ IsFiniteSet(Counted) /\ Cardinality(Counted) \in Nat
  BY TasksFinite DEF Unended, Counted
<1>1. CASE StartTask
  <2>1. TotalTaskNum \in TaskIds /\ tpc[TotalTaskNum] = "idle"
    BY <1>1, ConfigAssumption DEF StartTask, IdsInOrder, Control, TaskIds, ResultTypes
  <2>2. Unended' = Unended \cup {TotalTaskNum} /\ TotalTaskNum \notin Unended
    BY <1>1, <2>1 DEF StartTask, Unended, TaskTypes
  <2>3. Counted' = Counted
    BY <1>1, <2>1 DEF StartTask, Counted, TaskTypes
  <2>4. Cardinality(Unended') = Cardinality(Unended) + 1
    BY <1>0, <2>2, FS_AddElement
  <2> QED
    BY <1>1, <2>3, <2>4 DEF StartTask, CountersExact
<1>2. CASE Dispatcher /\ ~StartTask
  BY <1>2, CountersFrame DEF Dispatcher, NewConnector, NewConnectorFails, WaitForFree,
     CheckMaxTime, CheckMaxTasks, PingFails, BreakLoop, JoinTasks, SaveTaskPoolResult,
     CloseConnector, taskVars, resultVars
<1>3. ASSUME NEW t \in TaskIds, CountFinished(t) PROVE CountersExact'
  <2>1. /\ Counted' = Counted \cup {t} /\ t \notin Counted
        /\ Unended' = Unended
    BY <1>3 DEF CountFinished, Goto, Counted, Unended, TaskTypes
  <2>2. Cardinality(Counted') = Cardinality(Counted) + 1
    BY <1>0, <2>1, FS_AddElement
  <2> QED
    BY <1>3, <2>1, <2>2 DEF CountFinished, CountersExact, dispVars
<1>4. ASSUME NEW t \in TaskIds, WgDone(t) PROVE CountersExact'
  <2>1. /\ Unended' = Unended \ {t} /\ t \in Unended
        /\ Counted' = Counted
    BY <1>4 DEF WgDone, Goto, Counted, Unended, TaskTypes
  <2>2. Cardinality(Unended') = Cardinality(Unended) - 1
    BY <1>0, <2>1, FS_RemoveElement
  <2> QED
    BY <1>4, <2>1, <2>2 DEF WgDone, CountersExact, resultVars
<1>5. ASSUME NEW t \in TaskIds, Goroutine(t), ~CountFinished(t), ~WgDone(t)
      PROVE  CountersExact'
  <2>1. UNCHANGED <<wg, FinishedTaskNum>>
    BY <1>5 DEF Goroutine, PrepareTask, InitDB, ExecTask, RecordError, RecordBugs,
       BackToPool, dispVars, resultVars
  <2>2. PICK from \in TaskPcs \ {"idle", "ended"}, to \in TaskPcs \ {"idle", "ended"} :
           /\ Goto(t, from, to)
           /\ from \in {"return", "exit", "ended"} <=> to \in {"return", "exit", "ended"}
    <3>1. CASE InitDB(t)
      <4>1. \E to \in {"exec", "fail"} : Goto(t, "initdb", to)
        BY <3>1, InitDBGoes
      <4> QED
        BY <4>1 DEF TaskPcs
    <3>2. CASE ~InitDB(t)
      BY <1>5, <3>2 DEF Goroutine, PrepareTask, ExecTask, RecordError, RecordBugs,
         BackToPool, TaskPcs, Goto
    <3> QED
      BY <3>1, <3>2
  <2>3. Unended' = Unended /\ Counted' = Counted
    BY <2>2 DEF Goto, Unended, Counted, TaskTypes
  <2> QED
    BY <2>1, <2>3 DEF CountersExact
<1>6. CASE TimePasses \/ Returned \/ UNCHANGED vars
  BY <1>6, CountersFrame DEF TimePasses, Returned, vars, dispVars, taskVars, resultVars
<1> QED
  BY <1>1, <1>2, <1>3, <1>4, <1>5, <1>6 DEF Next

\* At the test of the task limit every id handed out is counted or belongs to
\* one of at most ThreadNum - 1 goroutines, as the dispatcher has a connector.
LEMMA StartedAtLimit ==
    ASSUME Skeleton, ConnectorExclusive, CountersExact, pc = "limit"
    PROVE  TotalTaskNum <= FinishedTaskNum + ThreadNum - 1
<1> USE DEF Skeleton, TypeOK
<1> DEFINE Uncounted == {t \in TaskIds : Holding(t)} \ Counted
<1> DEFINE f == [t \in Uncounted |-> tconn[t]]
<1>1. conn \in Conns
  BY DEF Control
<1>2. f \in Injection(Uncounted, Conns \ {conn})
  BY DEF Injection, IsInjective, ConnectorExclusive, IdsInOrder, Holding, HoldingPcs
<1>3. Cardinality(Uncounted) <= ThreadNum - 1
  <2>1. /\ IsFiniteSet(Conns \ {conn})
        /\ Cardinality(Conns \ {conn}) = ThreadNum - 1
    BY <1>1, OtherConns
  <2>2. Cardinality(Uncounted) <= Cardinality(Conns \ {conn})
    BY <1>2, <2>1, FS_Injection
  <2> QED
    BY <2>1, <2>2
<1>4. 0 .. TotalTaskNum - 1 = Counted \cup Uncounted
  <2>1. \A t \in TaskIds : t < TotalTaskNum <=> tpc[t] # "idle"
    BY ConfigAssumption DEF IdsInOrder, InLoop, TaskIds, ResultTypes
  <2>2. \A t \in TaskIds : tpc[t] # "idle" <=> t \in Counted \cup Uncounted
    BY DEF Counted, Holding, HoldingPcs, TaskTypes, TaskPcs
  <2>3. 0 .. TotalTaskNum - 1 = {t \in TaskIds : t < TotalTaskNum}
    BY ConfigAssumption DEF TaskIds, ResultTypes
  <2> QED
    BY <2>1, <2>2, <2>3 DEF Counted
<1>5. /\ IsFiniteSet(Counted) /\ Cardinality(Counted) \in Nat
      /\ IsFiniteSet(Uncounted) /\ Cardinality(Uncounted) \in Nat
  BY TasksFinite DEF Counted
<1>6. Counted \cap Uncounted = {}
  OBVIOUS
<1>7. Cardinality(Counted \cup Uncounted) = Cardinality(Counted) + Cardinality(Uncounted)
  <2>1. Cardinality(Counted \cup Uncounted)
          = Cardinality(Counted) + Cardinality(Uncounted) - Cardinality(Counted \cap Uncounted)
    BY <1>5, FS_Union
  <2>2. Cardinality(Counted \cap Uncounted) = 0
    BY <1>6, FS_EmptySet
  <2> QED
    BY <1>5, <2>1, <2>2
<1>8. TotalTaskNum \in Nat /\ Cardinality(0 .. TotalTaskNum - 1) = TotalTaskNum
  BY IntervalCard DEF ResultTypes
<1>9. FinishedTaskNum = Cardinality(Counted)
  BY DEF CountersExact
<1>10. TotalTaskNum = FinishedTaskNum + Cardinality(Uncounted)
  BY <1>4, <1>7, <1>8, <1>9
<1> QED
  BY <1>3, <1>5, <1>9, <1>10, ConfigAssumption

\* The limit is overshot by fewer than ThreadNum tasks.
LEMMA StartRoomNext ==
    ASSUME Skeleton, ConnectorExclusive, CountersExact, StartRoom, [Next]_vars
    PROVE  StartRoom'
<1> USE ConfigAssumption DEF Skeleton, TypeOK, StartRoom, StartBound, ResultTypes
<1>1. CASE CheckMaxTasks
  <2>1. pc' = "start" => ~(MaxTasks > 0 /\ FinishedTaskNum >= MaxTasks)
    BY <1>1 DEF CheckMaxTasks
  <2>2. TotalTaskNum <= FinishedTaskNum + ThreadNum - 1
    BY <1>1, StartedAtLimit DEF CheckMaxTasks
  <2>3. TotalTaskNum' = TotalTaskNum
    BY <1>1 DEF CheckMaxTasks, resultVars
  <2>4. MaxTasks > 0 /\ pc' = "start" => TotalTaskNum < MaxTasks + ThreadNum - 1
    BY <2>1, <2>2
  <2> QED
    BY <2>3, <2>4
<1>2. CASE StartTask \/ PingFails
  BY <1>2 DEF StartTask, PingFails
<1>3. CASE Dispatcher /\ ~(CheckMaxTasks \/ StartTask \/ PingFails)
  BY <1>3 DEF Dispatcher, NewConnector, NewConnectorFails, WaitForFree, CheckMaxTime,
     BreakLoop, JoinTasks, SaveTaskPoolResult, CloseConnector, resultVars
<1>4. ASSUME NEW t \in TaskIds, Goroutine(t) PROVE StartRoom'
  BY <1>4 DEF Goroutine, PrepareTask, InitDB, ExecTask, RecordError, RecordBugs,
     CountFinished, BackToPool, WgDone, dispVars, resultVars
<1>5. CASE TimePasses \/ Returned \/ UNCHANGED vars
  BY <1>5 DEF TimePasses, Returned, vars, dispVars, resultVars
<1> QED
  BY <1>1, <1>2, <1>3, <1>4, <1>5 DEF Next

\* The invariant of the pool holds initially and is kept by every step.
THEOREM PoolInvariance == Spec => []PoolInvariant
<1>1. Init => PoolInvariant
  <2> SUFFICES ASSUME Init PROVE PoolInvariant
    OBVIOUS
  <2>1. Skeleton
    BY SkeletonInit
  <2>2. ConnectorExclusive /\ Ownership
    BY OwnershipInit
  <2>3. CountersExact
    <3>1. Unended = {} /\ Counted = {}
      BY DEF Init, Unended, Counted
    <3> QED
      BY <3>1, FS_EmptySet DEF Init, CountersExact
  <2>4. StartRoom
    BY ConfigAssumption DEF Init, StartRoom, StartBound
  <2> QED
    BY <2>1, <2>2, <2>3, <2>4 DEF Skeleton, PoolInvariant, Ownership
<1>2. PoolInvariant /\ [Next]_vars => PoolInvariant'
  <2> SUFFICES ASSUME PoolInvariant, [Next]_vars PROVE PoolInvariant'
    OBVIOUS
  <2>1. Skeleton
    BY DEF PoolInvariant, Skeleton
  <2>2. Skeleton'
    BY <2>1, SkeletonNext
  <2>3. ConnectorExclusive' /\ Ownership'
    BY <2>1, <2>2, ExclusiveNext, OwnershipNext DEF PoolInvariant, Ownership
  <2>4. CountersExact' /\ StartRoom'
    BY <2>1, CountersNext, StartRoomNext DEF PoolInvariant
  <2> QED
    BY <2>2, <2>3, <2>4 DEF Skeleton, PoolInvariant, Ownership
<1> QED
  BY <1>1, <1>2, PTL DEF Spec

\* A task limit is overshot by at most ThreadNum - 1 tasks, whatever the
\* interleaving: FinishedTaskNum is stale only by what still runs.
THEOREM TaskLimit == Spec => []StartBound
<1>1. PoolInvariant => StartBound
  BY DEF PoolInvariant, StartRoom
<1> QED
  BY <1>1, PoolInvariance, PTL

\* No goroutine, and no dispatcher leaving its loop, ever blocks in BackToPool.
THEOREM SendNeverBlocks == Spec => []BackToPoolNeverBlocks
<1>1. PoolInvariant => BackToPoolNeverBlocks
  BY SendHasRoom DEF PoolInvariant, Skeleton
<1> QED
  BY <1>1, PoolInvariance, PTL

-----------------------------------------------------------------------------
(***************************************************************************)
(* Where connectors, goroutines and verdicts are when the result is saved. *)
(***************************************************************************)

\* A list with an element more.
LEMMA ListGrows ==
    ASSUME NEW S, NEW s \in Seq(S), NEW e \in S, NoDuplicates(s), e \notin Elements(s)
    PROVE  /\ NoDuplicates(Append(s, e))
           /\ Elements(Append(s, e)) = Elements(s) \cup {e}
<1>1. /\ Len(s) \in Nat /\ Len(Append(s, e)) = Len(s) + 1
      /\ \A i \in 1 .. Len(s) + 1 : Append(s, e)[i] = IF i <= Len(s) THEN s[i] ELSE e
  BY AppendFacts
<1>2. NoDuplicates(Append(s, e))
  BY <1>1 DEF NoDuplicates, Elements
<1>3. Elements(Append(s, e)) \subseteq Elements(s) \cup {e}
  BY <1>1 DEF Elements
<1>4. Elements(s) \subseteq Elements(Append(s, e))
  BY <1>1 DEF Elements
<1>5. e \in Elements(Append(s, e))
  <2>1. Append(s, e)[Len(s) + 1] = e /\ Len(s) + 1 \in 1 .. Len(s) + 1
    BY <1>1
  <2> QED
    BY <1>1, <2>1 DEF Elements
<1> QED
  BY <1>2, <1>3, <1>4, <1>5

\* Without duplicates, a channel of as many elements as there are connectors
\* holds all of them, and only such a one does.
LEMMA FullPool ==
    ASSUME PoolTypes, NoDuplicates(threadPool), Conns \subseteq Elements(threadPool)
    PROVE  Len(threadPool) = ThreadNum
<1> DEFINE S == 1 .. Len(threadPool)
<1> DEFINE f == [i \in S |-> threadPool[i]]
<1>1. Len(threadPool) \in Nat /\ \A i \in S : threadPool[i] \in Conns
  BY DEF PoolTypes
<1>2. f \in Bijection(S, Conns)
  <2>1. f \in [S -> Conns]
    BY <1>1
  <2>2. f \in Injection(S, Conns)
    BY <1>1, <2>1 DEF Injection, IsInjective, NoDuplicates
  <2>3. \A c \in Conns : \E i \in S : f[i] = c
    BY <1>1 DEF Elements
  <2>4. f \in Surjection(S, Conns)
    BY <2>1, <2>3 DEF Surjection
  <2> QED
    BY <2>2, <2>4 DEF Bijection
<1>3. Cardinality(S) = Cardinality(Conns)
  <2>1. IsFiniteSet(S)
    BY <1>1, IntervalCard
  <2> QED
    BY <1>2, <2>1, FS_Bijection DEF ExistsBijection
<1>4. Cardinality(Conns) = ThreadNum
  BY IntervalCard, ConfigAssumption DEF Conns
<1> QED
  BY <1>1, <1>3, <1>4, IntervalCard

\* After wg.Wait no goroutine is left.
LEMMA NoneLeft ==
    ASSUME TypeOK, CountersExact, wg = 0
    PROVE  \A t \in TaskIds : tpc[t] \in {"idle", "ended"}
<1>1. IsFiniteSet(Unended)
  BY TasksFinite DEF Unended
<1>2. Unended = {}
  BY <1>1, FS_EmptySet DEF CountersExact
<1> QED
  BY <1>2 DEF Unended

\* A goroutine that takes a step is neither idle nor ended.
LEMMA GoroutineActive ==
    ASSUME TypeOK, Joined, NEW t \in TaskIds, Goroutine(t)
    PROVE  /\ tpc[t] \notin {"idle", "ended"}
           /\ pc \notin {"save", "close", "done"}
           /\ pc' = pc /\ resultJson' = resultJson /\ tconn' = tconn
           /\ UNCHANGED <<pg, open, closes, conn, expired, TotalTaskNum>>
           /\ tpc'[t] \in TaskPcs \ {"idle"}
           /\ \A u \in TaskIds : u # t => tpc'[u] = tpc[u]
<1> USE DEF TypeOK, PoolTypes, TaskTypes, Goto, poolVars, dispVars, resultVars
<1>1. PICK from, to : /\ Goto(t, from, to)
                      /\ from \notin {"idle", "ended"} /\ to \in TaskPcs \ {"idle"}
  BY DEF Goroutine, PrepareTask, InitDB, ExecTask, RecordError, RecordBugs, CountFinished,
     BackToPool, WgDone, TaskPcs
<1>2. /\ pc' = pc /\ resultJson' = resultJson /\ tconn' = tconn
      /\ UNCHANGED <<pg, open, closes, conn, expired, TotalTaskNum>>
  BY DEF Goroutine, PrepareTask, InitDB, ExecTask, RecordError, RecordBugs, CountFinished,
     BackToPool, WgDone
<1> QED
  BY <1>1, <1>2 DEF Joined

\* Every step keeps the ids without a goroutine and the goroutines after
\* wg.Wait as they are.
LEMMA JoinedNext ==
    ASSUME Skeleton, CountersExact, Joined, [Next]_vars
    PROVE  Joined'
<1> USE DEF Skeleton, TypeOK
<1>1. CASE StartTask
  <2>1. TotalTaskNum \in TaskIds /\ TotalTaskNum \in Int
    BY <1>1, ConfigAssumption DEF StartTask, Control, TaskIds, ResultTypes
  <2>2. \A t \in TaskIds : t < TotalTaskNum => tpc[t] # "idle"
    BY <1>1 DEF StartTask, IdsInOrder, InLoop
  <2>3. pc' = "wait" /\ TotalTaskNum' = TotalTaskNum + 1
    BY <1>1 DEF StartTask
  <2>4. \A t \in TaskIds : t < TotalTaskNum => tpc'[t] # "idle"
    BY <1>1, <2>1, <2>2 DEF StartTask, TaskTypes, TaskIds
  <2> QED
    BY <2>1, <2>3, <2>4 DEF Joined, TaskIds
<1>2. CASE PingFails
  <2>1. \A t \in TaskIds : t < TotalTaskNum => tpc[t] # "idle"
    BY <1>2 DEF PingFails, IdsInOrder, InLoop
  <2>2. pc' = "break" /\ TotalTaskNum' = TotalTaskNum + 1 /\ tpc' = tpc
    BY <1>2 DEF PingFails, taskVars
  <2> QED
    BY <2>1, <2>2 DEF Joined, ResultTypes, TaskIds
<1>3. CASE JoinTasks
  <2>1. \A t \in TaskIds : tpc[t] \in {"idle", "ended"}
    BY <1>3, NoneLeft DEF JoinTasks
  <2>2. tpc' = tpc /\ TotalTaskNum' = TotalTaskNum
    BY <1>3 DEF JoinTasks, taskVars, resultVars
  <2> QED
    BY <2>1, <2>2 DEF Joined
<1>4. CASE Dispatcher /\ ~(StartTask \/ PingFails \/ JoinTasks)
  <2>1. tpc' = tpc /\ TotalTaskNum' = TotalTaskNum
    BY <1>4 DEF Dispatcher, NewConnector, NewConnectorFails, WaitForFree, CheckMaxTime,
       CheckMaxTasks, BreakLoop, SaveTaskPoolResult, CloseConnector, taskVars, resultVars
  <2>2. pc' \in {"save", "close", "done"} => pc \in {"save", "close", "done"}
    BY <1>4 DEF Dispatcher, NewConnector, NewConnectorFails, WaitForFree, CheckMaxTime,
       CheckMaxTasks, BreakLoop, SaveTaskPoolResult, CloseConnector
  <2> QED
    BY <2>1, <2>2 DEF Joined
<1>5. ASSUME NEW t \in TaskIds, Goroutine(t) PROVE Joined'
  BY <1>5, GoroutineActive DEF Joined
<1>6. CASE TimePasses \/ Returned \/ UNCHANGED vars
  BY <1>6 DEF TimePasses, Returned, vars, dispVars, taskVars, resultVars, Joined
<1> QED
  BY <1>1, <1>2, <1>3, <1>4, <1>5, <1>6 DEF Next

\* A step that moves no connector and does not reach a new part of the
\* dispatcher.
LEMMA AccountedFrame ==
    ASSUME Accounted, UNCHANGED <<pg, threadPool, conn, closes, open, pc, tconn>>,
           \A u \in TaskIds : Holding(u) => Holding(u)'
    PROVE  Accounted'
BY DEF Accounted, Elements

\* Opening the connectors: the last one completes the channel.
LEMMA AccountedCreate ==
    ASSUME Skeleton, Accounted, NewConnector \/ NewConnectorFails
    PROVE  Accounted'
<1> USE DEF Skeleton, TypeOK
<1>1. CASE NewConnector
  <2>1. /\ pc = "create" /\ Len(threadPool) \in Conns /\ Len(threadPool) \in Nat
        /\ threadPool' = Append(threadPool, Len(threadPool))
        /\ pc' = IF Len(threadPool) + 1 = ThreadNum THEN "wait" ELSE "create"
    BY <1>1, ConfigAssumption DEF NewConnector, Control, Conns, PoolTypes
  <2>2. /\ Len(threadPool') = Len(threadPool) + 1
        /\ \A i \in 1 .. Len(threadPool') :
             threadPool'[i] = IF i <= Len(threadPool) THEN threadPool[i] ELSE Len(threadPool)
    BY <2>1, SendFacts
  <2>3. \A i \in 1 .. Len(threadPool') : threadPool'[i] = i - 1
    BY <2>1, <2>2 DEF Accounted
  <2>4. pc' = "wait" => \A c \in Conns : c \in Elements(threadPool')
    <3> SUFFICES ASSUME pc' = "wait", NEW c \in Conns PROVE c \in Elements(threadPool')
      OBVIOUS
    <3>1. c + 1 \in 1 .. Len(threadPool')
      BY <2>1, <2>2, ConfigAssumption DEF Conns
    <3>2. threadPool'[c + 1] = c
      BY <2>3, <3>1 DEF Conns
    <3> QED
      BY <3>1, <3>2 DEF Elements
  <2> QED
    BY <2>1, <2>3, <2>4 DEF Accounted
<1>2. CASE NewConnectorFails
  BY <1>2 DEF NewConnectorFails, Accounted
<1> QED
  BY <1>1, <1>2

\* The loop: a connector goes from the channel to the dispatcher and from it
\* to a goroutine or back.
LEMMA AccountedLoop ==
    ASSUME Skeleton, ConnectorExclusive, Accounted,
           WaitForFree \/ CheckMaxTime \/ CheckMaxTasks \/ StartTask \/ PingFails \/ BreakLoop
    PROVE  Accounted'
<1> USE DEF Skeleton, TypeOK
<1>0. NoDuplicates(threadPool) /\ NoConn \notin Conns
  BY ConfigAssumption DEF ConnectorExclusive, NoConn, Conns
<1>1. CASE WaitForFree
  <2>1. /\ Head(threadPool) \in Elements(threadPool)
        /\ Elements(threadPool') = Elements(threadPool) \ {Head(threadPool)}
    BY <1>0, <1>1, ReceiveFacts DEF WaitForFree
  <2>2. /\ pc = "wait" /\ conn = NoConn /\ pc' = "time" /\ conn' = Head(threadPool)
        /\ tpc' = tpc /\ tconn' = tconn
    BY <1>1 DEF WaitForFree, Control, taskVars
  <2>3. \A c \in Conns : \/ c \in Elements(threadPool') \cup {conn'}
                         \/ \E t \in TaskIds : Holding(t) /\ tconn[t] = c
    BY <1>0, <2>1, <2>2 DEF Accounted
  <2> QED
    BY <2>2, <2>3 DEF Accounted, Holding
<1>2. CASE CheckMaxTime \/ CheckMaxTasks \/ PingFails
  <2>1. /\ pc \in {"time", "limit", "start"} /\ pc' \in {"limit", "start", "break"}
        /\ UNCHANGED <<pg, threadPool, conn, closes, open, tconn, tpc>>
    BY <1>2 DEF CheckMaxTime, CheckMaxTasks, PingFails, poolVars, taskVars
  <2> QED
    BY <2>1 DEF Accounted, Elements, Holding
<1>3. CASE StartTask
  <2>1. PICK n \in TaskIds : n = TotalTaskNum /\ tpc[n] = "idle"
    BY <1>3, ConfigAssumption DEF StartTask, IdsInOrder, Control, TaskIds, ResultTypes
  <2>2. /\ pc = "start" /\ pc' = "wait" /\ threadPool' = threadPool
        /\ tpc'[n] = "config" /\ tconn'[n] = conn
        /\ \A u \in TaskIds \ {n} : tpc'[u] = tpc[u] /\ tconn'[u] = tconn[u]
    BY <1>3, <2>1 DEF StartTask, TaskTypes, poolVars
  <2>3. Holding(n)' /\ ~Holding(n)
    BY <2>1, <2>2 DEF Holding, HoldingPcs
  <2>4. ASSUME NEW c \in Conns, c \notin Elements(threadPool)
        PROVE  \E t \in TaskIds : Holding(t)' /\ tconn'[t] = c
    <3>1. CASE c = conn
      BY <2>1, <2>2, <2>3, <3>1
    <3>2. CASE c # conn
      <4>1. PICK t \in TaskIds : Holding(t) /\ tconn[t] = c
        BY <2>2, <2>4, <3>2 DEF Accounted
      <4>2. Holding(t)' /\ tconn'[t] = c
        BY <2>2, <2>3, <4>1 DEF Holding
      <4> QED
        BY <4>2
    <3> QED
      BY <3>1, <3>2
  <2>5. \A c \in Conns : \/ c \in Elements(threadPool') \cup {conn'}
                         \/ \E t \in TaskIds : Holding(t)' /\ tconn'[t] = c
    BY <2>2, <2>4
  <2> QED
    BY <2>2, <2>5 DEF Accounted
<1>4. CASE BreakLoop
  <2>1. /\ pc = "break" /\ pc' = "join" /\ pg' = pg
        /\ tpc' = tpc /\ tconn' = tconn
    BY <1>4 DEF BreakLoop, taskVars
  <2>2. CASE pg
    <3>1. conn \in Conns /\ conn \notin Elements(threadPool)
      BY <2>1 DEF Control, ConnectorExclusive
    <3>2. Elements(threadPool') = Elements(threadPool) \cup {conn} /\ conn' = NoConn
      BY <1>0, <1>4, <2>2, <3>1, SendFresh DEF BreakLoop
    <3>3. \A c \in Conns : \/ c \in Elements(threadPool') \cup {conn'}
                           \/ \E t \in TaskIds : Holding(t) /\ tconn[t] = c
      BY <2>1, <3>2 DEF Accounted
    <3> QED
      BY <2>1, <3>2, <3>3 DEF Accounted, Holding
  <2>3. CASE ~pg
    <3>1. threadPool' = threadPool /\ conn' = conn
      BY <1>4, <2>3 DEF BreakLoop
    <3> QED
      BY <2>1, <2>3, <3>1 DEF Accounted, Holding, Elements
  <2> QED
    BY <2>2, <2>3
<1> QED
  BY <1>1, <1>2, <1>3, <1>4

\* After the loop: when Close begins the channel is full, and each of its
\* iterations finds a connector.
LEMMA AccountedClose ==
    ASSUME Skeleton, ConnectorExclusive, Joined, Accounted,
           JoinTasks \/ SaveTaskPoolResult \/ CloseConnector
    PROVE  Accounted'
<1> USE DEF Skeleton, TypeOK
<1>0. NoDuplicates(threadPool) /\ NoConn \notin Conns
  BY ConfigAssumption DEF ConnectorExclusive, NoConn, Conns
<1>1. CASE JoinTasks
  <2>1. /\ pc = "join" /\ pc' = "save"
        /\ UNCHANGED <<pg, threadPool, conn, closes, open, tconn, tpc>>
    BY <1>1 DEF JoinTasks, poolVars, taskVars
  <2> QED
    BY <2>1 DEF Accounted, Elements, Holding
<1>2. CASE SaveTaskPoolResult
  <2>1. /\ pc = "save" /\ pc' = IF pg THEN "close" ELSE "done"
        /\ UNCHANGED <<pg, threadPool, conn, closes, open>>
    BY <1>2 DEF SaveTaskPoolResult, poolVars
  <2>2. CASE pg
    <3>1. conn = NoConn /\ \A t \in TaskIds : ~Holding(t)
      BY <2>1, <2>2 DEF Accounted, Joined, Holding, HoldingPcs
    <3>2. Conns \subseteq Elements(threadPool)
      BY <1>0, <2>1, <3>1 DEF Accounted
    <3>3. Len(threadPool) = ThreadNum /\ closes = 0
      BY <1>0, <2>1, <3>2, FullPool DEF Control
    <3>4. open \subseteq Elements(threadPool)
      BY <3>2 DEF PoolTypes
    <3> QED
      BY <2>1, <2>2, <3>3, <3>4, ConfigAssumption DEF Accounted, Elements
  <2>3. CASE ~pg
    BY <2>1, <2>3 DEF Accounted
  <2> QED
    BY <2>2, <2>3
<1>3. CASE CloseConnector
  <2>1. /\ pc = "close" /\ pg /\ pg' = pg
        /\ pc' = IF closes + 1 = ThreadNum THEN "done" ELSE "close"
        /\ closes' = closes + 1 /\ closes \in Nat
        /\ open' = open \ {Head(threadPool)}
    BY <1>3, ConfigAssumption DEF CloseConnector, Accounted, PoolTypes
  <2>2. /\ Len(threadPool) \in Nat /\ Len(threadPool') = Len(threadPool) - 1
        /\ Head(threadPool) = threadPool[1]
    BY <1>3, TailFacts DEF CloseConnector, PoolTypes
  <2>3. Elements(threadPool') = Elements(threadPool) \ {Head(threadPool)}
    BY <1>0, <1>3, ReceiveFacts DEF CloseConnector
  <2>4. open' \subseteq Elements(threadPool')
    BY <2>1, <2>3 DEF Accounted
  <2>5. Len(threadPool') + closes' = ThreadNum
    BY <2>1, <2>2, ConfigAssumption DEF Accounted
  <2>6. pc' = "done" => open' = {}
    <3> SUFFICES ASSUME pc' = "done" PROVE open' = {}
      OBVIOUS
    <3>1. Len(threadPool') = 0
      BY <2>1, <2>2, <2>5
    <3>2. Elements(threadPool') = {}
      BY <3>1 DEF Elements
    <3> QED
      BY <2>4, <3>2
  <2> QED
    BY <2>1, <2>4, <2>5, <2>6 DEF Accounted
<1> QED
  BY <1>1, <1>2, <1>3

\* A goroutine keeps its connector until it sends it back.
LEMMA AccountedGoroutine ==
    ASSUME Skeleton, ConnectorExclusive, Joined, Accounted, NEW t \in TaskIds, Goroutine(t)
    PROVE  Accounted'
<1> USE DEF Skeleton, TypeOK
<1>1. CASE BackToPool(t)
  <2>1. /\ tpc[t] = "return" /\ tpc' = [tpc EXCEPT ![t] = "exit"]
        /\ threadPool' = Append(threadPool, tconn[t])
        /\ UNCHANGED <<pg, conn, closes, open, pc, tconn>>
    BY <1>1 DEF BackToPool, Goto, dispVars
  <2>2. /\ Holding(t) /\ tconn[t] \in Conns /\ tconn[t] \notin Elements(threadPool)
        /\ NoDuplicates(threadPool)
    BY <2>1 DEF ConnectorExclusive, IdsInOrder, Holding, HoldingPcs
  <2>3. Elements(threadPool') = Elements(threadPool) \cup {tconn[t]}
    BY <2>1, <2>2, SendFresh
  <2>4. \A u \in TaskIds : u # t /\ Holding(u) => Holding(u)'
    BY <2>1 DEF Holding, TaskTypes
  <2>5. pc \notin {"create", "save", "close", "done"}
    <3>1. pc \notin {"save", "close", "done"} /\ tpc[t] # "idle"
      BY GoroutineActive
    <3>2. pc # "create"
      BY <3>1 DEF Control, IdsInOrder, TaskIds
    <3> QED
      BY <3>1, <3>2
  <2>6. pc \in {"wait", "time", "limit", "start", "break", "join", "save"} =>
          \A c \in Conns : \/ c \in Elements(threadPool') \cup {conn}
                           \/ \E u \in TaskIds : Holding(u)' /\ tconn[u] = c
    BY <2>3, <2>4 DEF Accounted
  <2> QED
    BY <2>1, <2>5, <2>6 DEF Accounted
<1>2. CASE ~BackToPool(t)
  <2>1. UNCHANGED <<pg, threadPool, conn, closes, open, pc, tconn>>
    BY <1>2 DEF Goroutine, PrepareTask, InitDB, ExecTask, RecordError, RecordBugs,
       CountFinished, WgDone, poolVars, dispVars
  <2>2. PICK from, to : Goto(t, from, to) /\ (from \in HoldingPcs => to \in HoldingPcs)
    BY <1>2 DEF Goroutine, PrepareTask, InitDB, ExecTask, RecordError, RecordBugs,
       CountFinished, WgDone, HoldingPcs
  <2>3. \A u \in TaskIds : Holding(u) => Holding(u)'
    BY <2>2 DEF Goto, Holding, TaskTypes
  <2> QED
    BY <2>1, <2>3, AccountedFrame
<1> QED
  BY <1>1, <1>2

\* No step loses a connector.
LEMMA AccountedNext ==
    ASSUME Skeleton, ConnectorExclusive, Joined, Accounted, [Next]_vars
    PROVE  Accounted'
<1>1. CASE Dispatcher
  BY <1>1, AccountedCreate, AccountedLoop, AccountedClose DEF Dispatcher
<1>2. CASE \E t \in TaskIds : Goroutine(t)
  BY <1>2, AccountedGoroutine
<1>3. CASE TimePasses \/ Returned \/ UNCHANGED vars
  BY <1>3, AccountedFrame DEF TimePasses, Returned, vars, poolVars, dispVars, taskVars, Holding
<1> QED
  BY <1>1, <1>2, <1>3 DEF Next

\* A goroutine that has not recorded its verdict is in neither list.
LEMMA Unlisted ==
    ASSUME TaskTypes, Verdicts, NEW t \in TaskIds, ~Recorded(t)
    PROVE  /\ t \notin Elements(ErrorTaskIds)
           /\ t \notin Elements(BugTaskIds)
           /\ tpc[t] # "record" => bugs[t] = 0
BY ConfigAssumption DEF TaskTypes, Verdicts

\* A step that writes neither list and no bugs, and after which the verdicts of
\* the same goroutines are in.
LEMMA VerdictsFrame ==
    ASSUME Verdicts, UNCHANGED <<bugs, ErrorTaskNum, ErrorTaskIds, BugTaskIds>>,
           \A u \in TaskIds : /\ Recorded(u) => Recorded(u)'
                              /\ tpc[u] = "record" => tpc'[u] = "record",
           ErrorTaskIds \in Seq(TaskIds), BugTaskIds \in Seq(TaskIds)
    PROVE  Verdicts'
<1>1. Elements(ErrorTaskIds) \subseteq TaskIds /\ Elements(BugTaskIds) \subseteq TaskIds
  BY DEF Elements
<1> QED
  BY <1>1 DEF Verdicts, Elements, NoDuplicates

\* The lists keep one verdict for each task, through every step of a goroutine.
LEMMA VerdictsGoroutine ==
    ASSUME TypeOK, Verdicts, NEW t \in TaskIds, Goroutine(t)
    PROVE  Verdicts'
<1> USE DEF TypeOK, TaskTypes, ResultTypes, Goto
<1>0. /\ Elements(ErrorTaskIds) \subseteq TaskIds /\ Elements(BugTaskIds) \subseteq TaskIds
      /\ ErrorTaskIds \in Seq(TaskIds) /\ BugTaskIds \in Seq(TaskIds)
  BY SMTT(20) DEF Elements
<1>1. CASE PrepareTask(t) \/ InitDB(t) \/ CountFinished(t) \/ BackToPool(t) \/ WgDone(t)
  <2>1. UNCHANGED <<bugs, ErrorTaskNum, ErrorTaskIds, BugTaskIds>>
    BY <1>1 DEF PrepareTask, InitDB, CountFinished, BackToPool, WgDone, resultVars
  <2>2. PICK from, to : /\ Goto(t, from, to) /\ from # "record"
                        /\ from \in {"count", "return", "exit", "ended"}
                              => to \in {"count", "return", "exit", "ended"}
    BY <1>1 DEF PrepareTask, InitDB, CountFinished, BackToPool, WgDone
  <2>3. \A u \in TaskIds : /\ Recorded(u) => Recorded(u)'
                           /\ tpc[u] = "record" => tpc'[u] = "record"
    BY <2>2 DEF Recorded
  <2> QED
    BY <1>0, <2>1, <2>3, VerdictsFrame
<1>2. CASE ExecTask(t)
  <2>1. /\ tpc[t] = "exec" /\ ~Recorded(t)
        /\ UNCHANGED <<ErrorTaskNum, ErrorTaskIds, BugTaskIds>>
    BY <1>2 DEF ExecTask, resultVars, Recorded
  <2>2. t \notin Elements(ErrorTaskIds) /\ t \notin Elements(BugTaskIds) /\ bugs[t] = 0
    BY <2>1, Unlisted
  <2>3. /\ \A u \in TaskIds : u # t => tpc'[u] = tpc[u] /\ bugs'[u] = bugs[u]
        /\ tpc'[t] = "record" \/ (tpc'[t] = "fail" /\ bugs'[t] = bugs[t])
    BY <1>2 DEF ExecTask
  <2>4. /\ Elements(ErrorTaskIds)' = Elements(ErrorTaskIds) /\ NoDuplicates(ErrorTaskIds)'
        /\ Elements(BugTaskIds)' = Elements(BugTaskIds) /\ NoDuplicates(BugTaskIds)'
    <3>1. ErrorTaskIds' = ErrorTaskIds /\ BugTaskIds' = BugTaskIds
      BY <2>1
    <3>2. NoDuplicates(ErrorTaskIds) /\ NoDuplicates(BugTaskIds)
      BY DEF Verdicts
    <3> QED
      BY <3>1, <3>2
  <2>5. \A u \in TaskIds : Recorded(u)' <=> Recorded(u)
    BY <2>1, <2>3 DEF Recorded
  <2>6. ErrorTaskNum' = Len(ErrorTaskIds')
    BY <2>1 DEF Verdicts
  <2>7. \A u \in TaskIds : bugs'[u] > 0 =>
           tpc'[u] = "record" \/ (Recorded(u)' /\ u \in Elements(BugTaskIds)')
    BY <2>1, <2>2, <2>3, <2>4, <2>5 DEF Verdicts
  <2>8. \A u \in Elements(ErrorTaskIds)' : Recorded(u)' /\ bugs'[u] = 0
    BY <1>0, <2>2, <2>3, <2>4, <2>5 DEF Verdicts
  <2>9. \A u \in Elements(BugTaskIds)' : Recorded(u)' /\ bugs'[u] > 0
    BY <1>0, <2>2, <2>3, <2>4, <2>5 DEF Verdicts
  <2> QED
    BY <2>4, <2>6, <2>7, <2>8, <2>9 DEF Verdicts
<1>3. CASE RecordError(t)
  <2>1. /\ tpc[t] = "fail" /\ ~Recorded(t) /\ tpc'[t] = "count"
        /\ ErrorTaskNum' = ErrorTaskNum + 1 /\ ErrorTaskIds' = Append(ErrorTaskIds, t)
        /\ UNCHANGED <<bugs, BugTaskIds>>
        /\ \A u \in TaskIds : u # t => tpc'[u] = tpc[u]
    BY <1>3 DEF RecordError, Recorded
  <2>2. t \notin Elements(ErrorTaskIds) /\ t \notin Elements(BugTaskIds) /\ bugs[t] = 0
    BY <2>1, Unlisted
  <2>3. /\ NoDuplicates(ErrorTaskIds')
        /\ Elements(ErrorTaskIds') = Elements(ErrorTaskIds) \cup {t}
    BY <1>0, <2>1, <2>2, ListGrows DEF Verdicts
  <2>4. ErrorTaskNum' = Len(ErrorTaskIds')
    BY <1>0, <2>1, AppendFacts DEF Verdicts
  <2>5. Elements(BugTaskIds)' = Elements(BugTaskIds) /\ NoDuplicates(BugTaskIds)'
    <3>1. BugTaskIds' = BugTaskIds
      BY <2>1
    <3> QED
      BY <3>1 DEF Verdicts
  <2>6. \A u \in TaskIds : Recorded(u)' <=> Recorded(u) \/ u = t
    BY <2>1 DEF Recorded
  <2> QED
    BY <1>0, <2>1, <2>2, <2>3, <2>4, <2>5, <2>6 DEF Verdicts
<1>4. CASE RecordBugs(t)
  <2>1. /\ tpc[t] = "record" /\ ~Recorded(t) /\ tpc'[t] = "count"
        /\ UNCHANGED <<bugs, ErrorTaskNum, ErrorTaskIds>>
        /\ \A u \in TaskIds : u # t => tpc'[u] = tpc[u]
    BY <1>4 DEF RecordBugs, Recorded
  <2>2. t \notin Elements(ErrorTaskIds) /\ t \notin Elements(BugTaskIds)
    BY <2>1, Unlisted
  <2>3. /\ NoDuplicates(BugTaskIds')
        /\ Elements(BugTaskIds') =
             IF bugs[t] > 0 THEN Elements(BugTaskIds) \cup {t} ELSE Elements(BugTaskIds)
    <3>1. CASE bugs[t] > 0
      <4>1. BugTaskIds' = Append(BugTaskIds, t) /\ NoDuplicates(BugTaskIds)
        BY <1>4, <3>1 DEF RecordBugs, Verdicts
      <4> QED
        BY <1>0, <2>2, <3>1, <4>1, ListGrows
    <3>2. CASE ~(bugs[t] > 0)
      BY <1>4, <3>2 DEF RecordBugs, Verdicts
    <3> QED
      BY <3>1, <3>2
  <2>4. Elements(ErrorTaskIds)' = Elements(ErrorTaskIds) /\ NoDuplicates(ErrorTaskIds)'
    BY <2>1 DEF Elements, Verdicts, NoDuplicates
  <2>5. \A u \in TaskIds : Recorded(u)' <=> Recorded(u) \/ u = t
    BY <2>1 DEF Recorded
  <2> QED
    BY <1>0, <2>1, <2>2, <2>3, <2>4, <2>5 DEF Verdicts
<1> QED
  BY <1>1, <1>2, <1>3, <1>4 DEF Goroutine

\* Every step keeps one verdict for each task.
LEMMA VerdictsNext ==
    ASSUME Skeleton, Verdicts, [Next]_vars
    PROVE  Verdicts'
<1> USE DEF Skeleton, TypeOK
<1>0. ErrorTaskIds \in Seq(TaskIds) /\ BugTaskIds \in Seq(TaskIds)
  BY DEF ResultTypes
<1>1. CASE StartTask
  <2>1. PICK n \in TaskIds : n = TotalTaskNum /\ tpc[n] = "idle"
    BY <1>1, ConfigAssumption DEF StartTask, IdsInOrder, Control, TaskIds, ResultTypes
  <2>2. /\ tpc' = [tpc EXCEPT ![n] = "config"]
        /\ UNCHANGED <<bugs, ErrorTaskNum, ErrorTaskIds, BugTaskIds>>
    BY <1>1, <2>1 DEF StartTask
  <2>3. \A u \in TaskIds : /\ Recorded(u) => Recorded(u)'
                           /\ tpc[u] = "record" => tpc'[u] = "record"
    BY <2>1, <2>2 DEF Recorded, TaskTypes
  <2> QED
    BY <1>0, <2>2, <2>3, VerdictsFrame
<1>2. CASE (Dispatcher /\ ~StartTask) \/ TimePasses \/ Returned \/ UNCHANGED vars
  <2>1. UNCHANGED <<tpc, bugs, ErrorTaskNum, ErrorTaskIds, BugTaskIds>>
    BY <1>2 DEF Dispatcher, NewConnector, NewConnectorFails, WaitForFree, CheckMaxTime,
       CheckMaxTasks, PingFails, BreakLoop, JoinTasks, SaveTaskPoolResult, CloseConnector,
       TimePasses, Returned, vars, taskVars, resultVars
  <2>2. \A u \in TaskIds : /\ Recorded(u) => Recorded(u)'
                           /\ tpc[u] = "record" => tpc'[u] = "record"
    BY <2>1 DEF Recorded
  <2> QED
    BY <1>0, <2>1, <2>2, VerdictsFrame
<1>3. ASSUME NEW t \in TaskIds, Goroutine(t) PROVE Verdicts'
  BY <1>3, VerdictsGoroutine
<1> QED
  BY <1>1, <1>2, <1>3 DEF Next

\* With a result written, a step leaves all that it reports as it is.
LEMMA ResultKept ==
    ASSUME TypeOK, Joined, ReportCurrent, resultJson # <<>>, [Next]_vars
    PROVE  UNCHANGED <<resultVars, resultJson>> /\ pc' \in {"close", "done"}
<1>1. pc \in {"close", "done"}
  BY DEF ReportCurrent
<1>2. \A t \in TaskIds : ~Goroutine(t)
  BY <1>1, GoroutineActive
<1>3. CloseConnector \/ TimePasses \/ Returned \/ UNCHANGED vars
  BY <1>1, <1>2 DEF Next, Dispatcher, NewConnector, NewConnectorFails, WaitForFree,
     CheckMaxTime, CheckMaxTasks, StartTask, PingFails, BreakLoop, JoinTasks, SaveTaskPoolResult
<1> QED
  BY <1>1, <1>3 DEF CloseConnector, TimePasses, Returned, vars, dispVars, resultVars

\* Every step keeps the written result current.
LEMMA ReportCurrentNext ==
    ASSUME TypeOK, Joined, ReportCurrent, [Next]_vars
    PROVE  ReportCurrent'
<1>1. CASE resultJson # <<>>
  <2>1. UNCHANGED <<resultVars, resultJson>> /\ pc' \in {"close", "done"}
    BY <1>1, ResultKept
  <2> QED
    BY <1>1, <2>1 DEF ReportCurrent, resultVars
<1>2. CASE resultJson = <<>>
  <2>1. CASE SaveTaskPoolResult
    BY <1>2, <2>1 DEF SaveTaskPoolResult, ReportCurrent, resultVars
  <2>2. CASE ~SaveTaskPoolResult
    <3>1. resultJson' = resultJson
      BY <2>2 DEF Next, Dispatcher, NewConnector, NewConnectorFails, WaitForFree,
         CheckMaxTime, CheckMaxTasks, StartTask, PingFails, BreakLoop, JoinTasks, CloseConnector,
         Goroutine, PrepareTask, InitDB, ExecTask, RecordError, RecordBugs, CountFinished,
         BackToPool, WgDone, TimePasses, Returned, vars
    <3> QED
      BY <1>2, <3>1 DEF ReportCurrent
  <2> QED
    BY <2>1, <2>2
<1> QED
  BY <1>1, <1>2

\* The whole invariant holds initially and is kept by every step.
THEOREM ResultInvariance == Spec => []ResultInvariant
<1>1. Init => Accounted /\ Joined /\ Verdicts /\ ReportCurrent
  <2> SUFFICES ASSUME Init PROVE Accounted /\ Joined /\ Verdicts /\ ReportCurrent
    OBVIOUS
  <2>1. Accounted
    BY DEF Init, Accounted
  <2>2. Joined
    BY ConfigAssumption DEF Init, Joined, TaskIds
  <2>3. Verdicts
    BY DEF Init, Verdicts, Elements, NoDuplicates
  <2>4. ReportCurrent
    BY DEF Init, ReportCurrent
  <2> QED
    BY <2>1, <2>2, <2>3, <2>4
<1>2. PoolInvariant /\ Accounted /\ Joined /\ Verdicts /\ ReportCurrent /\ [Next]_vars
        => (Accounted /\ Joined /\ Verdicts /\ ReportCurrent)'
  BY AccountedNext, JoinedNext, VerdictsNext, ReportCurrentNext
     DEF PoolInvariant, Skeleton
<1> QED
  BY <1>1, <1>2, PoolInvariance, PTL DEF Spec, ResultInvariant

\* The ids that have a goroutine are the ones handed out, or all but the last.
LEMMA StartedIds ==
    ASSUME Skeleton, Joined
    PROVE  LET started == {t \in TaskIds : tpc[t] # "idle"}
           IN  /\ Cardinality(started) \in Nat
               /\ TotalTaskNum - Cardinality(started) \in {0, 1}
<1> DEFINE started == {t \in TaskIds : tpc[t] # "idle"}
<1>1. TotalTaskNum \in Nat /\ TotalTaskNum <= IdBound
  BY DEF Skeleton, TypeOK, ResultTypes
<1>2. \A t \in TaskIds : tpc[t] # "idle" => t < TotalTaskNum
  BY <1>1 DEF Skeleton, IdsInOrder, TaskIds
<1>3. \A t \in 0 .. TotalTaskNum - 1 : t \in TaskIds
  BY <1>1, ConfigAssumption DEF TaskIds
<1>4. CASE TotalTaskNum = 0 \/ TotalTaskNum - 1 \in started
  <2>1. started = 0 .. TotalTaskNum - 1
    BY <1>1, <1>2, <1>3, <1>4 DEF Joined, TaskIds
  <2>2. Cardinality(started) = TotalTaskNum
    BY <1>1, <2>1, IntervalCard
  <2> QED
    BY <1>1, <2>2
<1>5. CASE TotalTaskNum > 0 /\ TotalTaskNum - 1 \notin started
  <2>1. started = 0 .. (TotalTaskNum - 1) - 1
    BY <1>1, <1>2, <1>3, <1>5 DEF Joined, TaskIds
  <2>2. TotalTaskNum - 1 \in Nat
    BY <1>1, <1>5
  <2>3. Cardinality(started) = TotalTaskNum - 1
    BY <2>1, <2>2, IntervalCard
  <2>4. Cardinality(started) \in Nat /\ TotalTaskNum - Cardinality(started) = 1
    BY <1>1, <2>2, <2>3
  <2> QED
    BY <2>4
<1> QED
  BY <1>1, <1>4, <1>5

\* Concatenating two lists with nothing in common.
LEMMA ConcatNoDuplicates ==
    ASSUME NEW S, NEW s \in Seq(S), NEW r \in Seq(S), NoDuplicates(s), NoDuplicates(r),
           Elements(s) \cap Elements(r) = {}
    PROVE  NoDuplicates(s \o r)
<1>1. /\ Len(s) \in Nat /\ Len(r) \in Nat /\ Len(s \o r) = Len(s) + Len(r)
      /\ \A i \in 1 .. Len(s) + Len(r) :
            (s \o r)[i] = IF i <= Len(s) THEN s[i] ELSE r[i - Len(s)]
  OBVIOUS
<1>2. \A i \in 1 .. Len(s) : s[i] \in Elements(s)
  BY DEF Elements
<1>3. \A i \in 1 .. Len(r) : r[i] \in Elements(r)
  BY DEF Elements
<1> SUFFICES ASSUME NEW i \in 1 .. Len(s) + Len(r), NEW j \in 1 .. Len(s) + Len(r),
                    (s \o r)[i] = (s \o r)[j]
             PROVE  i = j
  BY <1>1 DEF NoDuplicates
<1>4. CASE i <= Len(s) /\ j <= Len(s)
  BY <1>1, <1>4 DEF NoDuplicates
<1>5. CASE ~(i <= Len(s)) /\ ~(j <= Len(s))
  <2>1. /\ i - Len(s) \in 1 .. Len(r) /\ j - Len(s) \in 1 .. Len(r)
        /\ r[i - Len(s)] = r[j - Len(s)]
    BY <1>1, <1>5
  <2>2. i - Len(s) = j - Len(s)
    BY <2>1 DEF NoDuplicates
  <2> QED
    BY <1>1, <2>2
<1>6. CASE i <= Len(s) /\ ~(j <= Len(s))
  <2>1. /\ i \in 1 .. Len(s) /\ j - Len(s) \in 1 .. Len(r)
        /\ (s \o r)[i] = s[i] /\ (s \o r)[j] = r[j - Len(s)]
    BY <1>1, <1>6
  <2>2. s[i] \in Elements(s) /\ r[j - Len(s)] \in Elements(r)
    BY <1>2, <1>3, <2>1
  <2>3. s[i] = r[j - Len(s)]
    BY <2>1
  <2> QED
    BY <2>2, <2>3
<1>7. CASE ~(i <= Len(s)) /\ j <= Len(s)
  <2>1. /\ j \in 1 .. Len(s) /\ i - Len(s) \in 1 .. Len(r)
        /\ (s \o r)[j] = s[j] /\ (s \o r)[i] = r[i - Len(s)]
    BY <1>1, <1>7
  <2>2. s[j] \in Elements(s) /\ r[i - Len(s)] \in Elements(r)
    BY <1>2, <1>3, <2>1
  <2>3. s[j] = r[i - Len(s)]
    BY <2>1
  <2> QED
    BY <2>2, <2>3
<1> QED
  BY <1>4, <1>5, <1>6, <1>7

\* result.json counts every task that was started and names every task with an
\* error or with bugs, once, whatever the interleaving was.
THEOREM SavedResult == Spec => []SavedResultIsComplete
<1>1. ResultInvariant => SavedResultIsComplete
  <2> SUFFICES ASSUME ResultInvariant, NEW i \in 1 .. Len(resultJson)
               PROVE  LET r == resultJson[i] IN
                      /\ r.finished = Cardinality({t \in TaskIds : tpc[t] # "idle"})
                      /\ r.total - r.finished \in {0, 1}
                      /\ r.errors = Len(r.errorIds)
                      /\ NoDuplicates(r.errorIds \o r.bugIds)
                      /\ Elements(r.bugIds) = {t \in TaskIds : bugs[t] > 0}
    BY DEF SavedResultIsComplete
  <2> USE DEF ResultInvariant, PoolInvariant, TypeOK
  <2>1. Skeleton
    BY DEF Skeleton
  <2>2. /\ pc \in {"close", "done"}
        /\ resultJson[i] = [total |-> TotalTaskNum, finished |-> FinishedTaskNum,
                            errors |-> ErrorTaskNum, errorIds |-> ErrorTaskIds,
                            bugs |-> BugsNum, bugIds |-> BugTaskIds]
    BY DEF ReportCurrent
  <2>3. Counted = {t \in TaskIds : tpc[t] # "idle"}
    BY <2>2 DEF Joined, Counted
  <2>4. FinishedTaskNum = Cardinality({t \in TaskIds : tpc[t] # "idle"})
    BY <2>3 DEF CountersExact
  <2>5. TotalTaskNum - FinishedTaskNum \in {0, 1}
    BY <2>1, <2>4, StartedIds
  <2>6. Elements(BugTaskIds) = {t \in TaskIds : bugs[t] > 0}
    <3>1. Elements(BugTaskIds) \subseteq TaskIds
      BY DEF ResultTypes, Elements
    <3>2. \A t \in TaskIds : tpc[t] # "record"
      BY <2>2 DEF Joined
    <3> QED
      BY <3>1, <3>2 DEF Verdicts
  <2>7. NoDuplicates(ErrorTaskIds \o BugTaskIds)
    <3>1. Elements(ErrorTaskIds) \cap Elements(BugTaskIds) = {}
      BY DEF Verdicts
    <3>2. ErrorTaskIds \in Seq(TaskIds) /\ BugTaskIds \in Seq(TaskIds)
      BY DEF ResultTypes
    <3> QED
      BY <3>1, <3>2, ConcatNoDuplicates DEF Verdicts
  <2> QED
    BY <2>2, <2>4, <2>5, <2>6, <2>7 DEF Verdicts
<1> QED
  BY <1>1, ResultInvariance, PTL

\* When Close starts every connector is back and nobody is left who could send
\* on the channel it closes.
THEOREM CloseMeetsAll == Spec => []CloseFindsAll
<1>1. ResultInvariant => CloseFindsAll
  BY DEF ResultInvariant, Accounted, Joined, CloseFindsAll
<1> QED
  BY <1>1, ResultInvariance, PTL

\* The PostgreSQL runner leaves no connection open.
THEOREM PgLeavesNoneOpen == Spec => []PgClosesConnections
<1>1. ResultInvariant => PgClosesConnections
  BY DEF ResultInvariant, Accounted, PgClosesConnections
<1> QED
  BY <1>1, ResultInvariance, PTL

\* Nothing that result.json reports changes after it is written.
THEOREM ResultStaysFrozen == Spec => ResultFrozen
<1>1. ResultInvariant /\ [Next]_vars
        => [resultJson # <<>> => UNCHANGED <<resultVars, resultJson>>]_vars
  BY ResultKept DEF ResultInvariant, PoolInvariant
<1> QED
  BY <1>1, ResultInvariance, PTL DEF Spec, ResultFrozen

(***************************************************************************)
(* The pool implements the ledger.                                         *)
(***************************************************************************)

\* The tasks the ledger calls started; Counted are the ones it calls ended.
Started == {t \in TaskIds : tpc[t] # "idle"}

\* The ledger counts as the pool does.
LEMMA LedgerCardinality == \A S : Ledger!Cardinality(S) = Cardinality(S)
BY DEF Ledger!Cardinality, Cardinality

\* A step that changes none of the ledger's variables is a stuttering step of the ledger.
LEMMA LedgerStutters ==
    ASSUME UNCHANGED <<ErrorTaskIds, BugTaskIds, resultJson>>,
           \A t \in TaskIds : /\ tpc'[t] = "idle" <=> tpc[t] = "idle"
                              /\ tpc'[t] \in {"return", "exit", "ended"}
                                    <=> tpc[t] \in {"return", "exit", "ended"}
    PROVE  UNCHANGED Ledger!ledgerVars
BY DEF Ledger!ledgerVars, Elements

\* Next to a dispatcher that holds a connector, one connector fewer is left for
\* goroutines.
LEMMA HoldersFit ==
    ASSUME IdsInOrder, ConnectorExclusive, conn \in Conns
    PROVE  LET S == {t \in TaskIds : Holding(t)}
           IN  IsFiniteSet(S) /\ Cardinality(S) \in Nat /\ Cardinality(S) <= ThreadNum - 1
<1> DEFINE S == {t \in TaskIds : Holding(t)}
<1> DEFINE f == [t \in S |-> tconn[t]]
<1>1. f \in Injection(S, Conns \ {conn})
  BY DEF Injection, IsInjective, ConnectorExclusive, IdsInOrder, Holding, HoldingPcs
<1>2. IsFiniteSet(Conns \ {conn}) /\ Cardinality(Conns \ {conn}) = ThreadNum - 1
  BY OtherConns
<1>3. Cardinality(S) <= Cardinality(Conns \ {conn})
  BY <1>1, <1>2, FS_Injection
<1> QED
  BY <1>2, <1>3, TasksFinite

\* The ids handed out bound the tasks that are started.
LEMMA StartedFit ==
    ASSUME Skeleton
    PROVE  IsFiniteSet(Started) /\ Cardinality(Started) \in Nat
           /\ Cardinality(Started) <= TotalTaskNum
<1>1. TotalTaskNum \in Nat
  BY DEF Skeleton, TypeOK, ResultTypes
<1>2. Started \in SUBSET (0 .. TotalTaskNum - 1)
  BY <1>1 DEF Started, Skeleton, IdsInOrder, TaskIds
<1>3. IsFiniteSet(0 .. TotalTaskNum - 1) /\ Cardinality(0 .. TotalTaskNum - 1) = TotalTaskNum
  BY <1>1, IntervalCard
<1>4. Cardinality(Started) <= Cardinality(0 .. TotalTaskNum - 1)
  BY <1>2, <1>3, FS_Subset
<1> QED
  BY <1>3, <1>4, TasksFinite DEF Started

\* A goroutine is started while nothing is reported, within both limits.
LEMMA LedgerStarts ==
    ASSUME ResultInvariant, StartTask
    PROVE  Ledger!Start
<1> USE DEF ResultInvariant, PoolInvariant, TypeOK
<1>1. PICK n \in TaskIds : n = TotalTaskNum /\ tpc[n] = "idle"
  BY ConfigAssumption DEF StartTask, IdsInOrder, Control, TaskIds, ResultTypes
<1>2. /\ tpc' = [tpc EXCEPT ![n] = "config"]
      /\ UNCHANGED <<ErrorTaskIds, BugTaskIds, resultJson>>
      /\ pc = "start"
  BY <1>1 DEF StartTask
<1>3. resultJson = <<>>
  BY <1>2 DEF ReportCurrent
<1>4. Elements(resultJson) = {}
  BY <1>3 DEF Elements
<1>5. /\ n \in TaskIds \ Started
      /\ Started' = Started \cup {n}
      /\ Counted' = Counted
  BY <1>1, <1>2 DEF Started, Counted, TaskTypes
<1>6. Cardinality(Started' \ Counted') <= ThreadNum
  <2> DEFINE S == {t \in TaskIds : Holding(t)}
  <2>1. Started' \ Counted' \subseteq S \cup {n} /\ n \notin S
    <3>1. \A t \in TaskIds : t \in Started /\ t \notin Counted => Holding(t)
      <4>1. SUFFICES ASSUME NEW t \in TaskIds, t \in Started, t \notin Counted
                      PROVE  Holding(t)
        OBVIOUS
      <4>2. tpc[t] \in TaskPcs
        BY DEF TaskTypes
      <4>3. tpc[t] # "idle" /\ tpc[t] \notin {"return", "exit", "ended"}
        BY <4>1 DEF Started, Counted
      <4> HIDE DEF ResultInvariant, PoolInvariant, TypeOK
      <4> QED
        BY <4>2, <4>3 DEF Holding, HoldingPcs, TaskPcs
    <3>2. n \notin S
      BY <1>1 DEF Holding, HoldingPcs
    <3>3. Started \ Counted \subseteq S
      BY <3>1 DEF Started
    <3> QED
      BY <1>5, <3>2, <3>3
  <2>2. IsFiniteSet(S) /\ Cardinality(S) \in Nat /\ Cardinality(S) <= ThreadNum - 1
    BY <1>2, HoldersFit DEF Control
  <2>3. IsFiniteSet(S \cup {n}) /\ Cardinality(S \cup {n}) = Cardinality(S) + 1
    BY <2>1, <2>2, FS_AddElement
  <2>4. Cardinality(S \cup {n}) <= ThreadNum
    BY <2>2, <2>3, ConfigAssumption
  <2>5. /\ Cardinality(Started' \ Counted') \in Nat
        /\ Cardinality(Started' \ Counted') <= Cardinality(S \cup {n})
    BY <2>1, <2>3, FS_Subset, FS_CardinalityType
  <2>6. Cardinality(S \cup {n}) \in Nat /\ ThreadNum \in Nat
    BY <2>2, <2>3, ConfigAssumption
  <2> QED
    BY <2>4, <2>5, <2>6
<1>7. Cardinality(Started') <= IF MaxTasks > 0 THEN MaxTasks + ThreadNum - 1 ELSE IdBound
  <2>1. /\ IsFiniteSet(Started) /\ Cardinality(Started) \in Nat
        /\ Cardinality(Started) <= TotalTaskNum
    BY StartedFit DEF Skeleton
  <2>2. Cardinality(Started') = Cardinality(Started) + 1
    BY <1>5, <2>1, FS_AddElement
  <2>3. TotalTaskNum \in Nat /\ TotalTaskNum < IdBound
    BY <1>2 DEF Control, ResultTypes
  <2>4. MaxTasks > 0 => TotalTaskNum < MaxTasks + ThreadNum - 1
    BY <1>2 DEF StartRoom
  <2> QED
    BY <2>1, <2>2, <2>3, <2>4, ConfigAssumption
<1>8. /\ Elements(resultJson)' = Elements(resultJson)
      /\ Elements(ErrorTaskIds)' = Elements(ErrorTaskIds)
      /\ Elements(BugTaskIds)' = Elements(BugTaskIds)
  BY <1>2 DEF Elements
<1>9. Ledger!Cardinality(Ledger!Running') <= ThreadNum
  BY <1>6, LedgerCardinality DEF Ledger!Running, Started, Counted
<1>10. Ledger!Cardinality(Started')
         <= IF MaxTasks > 0 THEN MaxTasks + ThreadNum - 1 ELSE IdBound
  BY <1>7, LedgerCardinality
<1> QED
  BY <1>4, <1>5, <1>8, <1>9, <1>10 DEF Ledger!Start, Started, Counted

\* A goroutine's verdict, and its end, are steps of the ledger.
LEMMA LedgerEnds ==
    ASSUME ResultInvariant, NEW t \in TaskIds, Goroutine(t)
    PROVE  Ledger!LedgerNext \/ UNCHANGED Ledger!ledgerVars
<1> USE DEF ResultInvariant, PoolInvariant, TypeOK, Goto
<1>1. CASE RecordError(t) \/ RecordBugs(t)
  <2>1. /\ tpc[t] \in {"fail", "record"} /\ ~Recorded(t)
        /\ tpc' = [tpc EXCEPT ![t] = "count"]
        /\ UNCHANGED resultJson
    BY <1>1 DEF RecordError, RecordBugs, Recorded
  <2>2. t \notin Elements(ErrorTaskIds) /\ t \notin Elements(BugTaskIds)
    BY <2>1, Unlisted
  <2>3. t \in Started \ Counted /\ Started' = Started /\ Counted' = Counted
    BY <2>1 DEF Started, Counted, TaskTypes
  <2>4. Elements(resultJson)' = Elements(resultJson)
    BY <2>1 DEF Elements
  <2>5. CASE RecordError(t)
    <3>1. /\ Elements(ErrorTaskIds)' = Elements(ErrorTaskIds) \cup {t}
          /\ Elements(BugTaskIds)' = Elements(BugTaskIds)
      <4>1. ErrorTaskIds' = Append(ErrorTaskIds, t) /\ BugTaskIds' = BugTaskIds
        BY <2>5 DEF RecordError
      <4>2. ErrorTaskIds \in Seq(TaskIds) /\ NoDuplicates(ErrorTaskIds)
        BY DEF ResultTypes, Verdicts
      <4>3. Elements(Append(ErrorTaskIds, t)) = Elements(ErrorTaskIds) \cup {t}
        BY <2>2, <4>2, ListGrows
      <4> QED
        BY <4>1, <4>3 DEF Elements
    <3>2. Ledger!Fail
      BY <2>2, <2>3, <2>4, <3>1 DEF Ledger!Fail, Ledger!Running, Started, Counted
    <3> QED
      BY <3>2 DEF Ledger!LedgerNext
  <2>6. CASE RecordBugs(t) /\ bugs[t] > 0
    <3>1. /\ Elements(BugTaskIds)' = Elements(BugTaskIds) \cup {t}
          /\ Elements(ErrorTaskIds)' = Elements(ErrorTaskIds)
      <4>1. BugTaskIds' = Append(BugTaskIds, t) /\ ErrorTaskIds' = ErrorTaskIds
        BY <2>6 DEF RecordBugs
      <4>2. BugTaskIds \in Seq(TaskIds) /\ NoDuplicates(BugTaskIds)
        BY DEF ResultTypes, Verdicts
      <4>3. Elements(Append(BugTaskIds, t)) = Elements(BugTaskIds) \cup {t}
        BY <2>2, <4>2, ListGrows
      <4> QED
        BY <4>1, <4>3 DEF Elements
    <3>2. Ledger!FindBugs
      BY <2>2, <2>3, <2>4, <3>1 DEF Ledger!FindBugs, Ledger!Running, Started, Counted
    <3> QED
      BY <3>2 DEF Ledger!LedgerNext
  <2>7. CASE RecordBugs(t) /\ ~(bugs[t] > 0)
    <3>1. UNCHANGED <<ErrorTaskIds, BugTaskIds, resultJson>>
      BY <2>7 DEF RecordBugs
    <3> QED
      BY <2>1, <3>1, LedgerStutters DEF TaskTypes
  <2> QED
    BY <1>1, <2>5, <2>6, <2>7
<1>2. CASE CountFinished(t)
  <2>1. /\ tpc[t] = "count" /\ tpc' = [tpc EXCEPT ![t] = "return"]
        /\ UNCHANGED <<ErrorTaskIds, BugTaskIds, resultJson>>
    BY <1>2 DEF CountFinished
  <2>2. /\ t \in Started \ Counted /\ Started' = Started
        /\ Counted' = Counted \cup {t}
    BY <2>1 DEF Started, Counted, TaskTypes
  <2>3. /\ Elements(resultJson)' = Elements(resultJson)
        /\ Elements(ErrorTaskIds)' = Elements(ErrorTaskIds)
        /\ Elements(BugTaskIds)' = Elements(BugTaskIds)
    BY <2>1 DEF Elements
  <2>4. Ledger!End
    BY <2>2, <2>3 DEF Ledger!End, Ledger!Running, Started, Counted
  <2> QED
    BY <2>4 DEF Ledger!LedgerNext
<1>3. CASE PrepareTask(t) \/ InitDB(t) \/ ExecTask(t) \/ BackToPool(t) \/ WgDone(t)
  <2>1. UNCHANGED <<ErrorTaskIds, BugTaskIds, resultJson>>
    BY <1>3 DEF PrepareTask, InitDB, ExecTask, BackToPool, WgDone, resultVars
  <2>2. PICK from, to : /\ Goto(t, from, to) /\ from # "idle" /\ to # "idle"
                        /\ from \in {"return", "exit", "ended"}
                              <=> to \in {"return", "exit", "ended"}
    <3>1. CASE InitDB(t)
      <4>1. \E to \in {"exec", "fail"} : Goto(t, "initdb", to)
        BY <3>1, InitDBGoes
      <4> QED
        BY <4>1
    <3>2. CASE ~InitDB(t)
      BY <1>3, <3>2, ZenonT(60) DEF PrepareTask, ExecTask, BackToPool, WgDone
    <3> QED
      BY <3>1, <3>2
  <2> QED
    BY <2>1, <2>2, LedgerStutters, SMTT(20) DEF TaskTypes
<1> QED
  BY <1>1, <1>2, <1>3 DEF Goroutine

\* The report is published when nothing runs, and says what the ledger says.
LEMMA LedgerPublishes ==
    ASSUME ResultInvariant, SaveTaskPoolResult
    PROVE  Ledger!LedgerNext \/ UNCHANGED Ledger!ledgerVars
<1> USE DEF ResultInvariant, PoolInvariant, TypeOK
<1>1. /\ pc = "save" /\ UNCHANGED <<tpc, ErrorTaskIds, BugTaskIds>>
  BY DEF SaveTaskPoolResult, taskVars, resultVars
<1>2. CASE resultJson' = resultJson
  BY <1>1, <1>2, LedgerStutters
<1>3. CASE resultJson' # resultJson
  <2> DEFINE r0 == [total |-> TotalTaskNum, finished |-> FinishedTaskNum,
                    errors |-> ErrorTaskNum, errorIds |-> ErrorTaskIds,
                    bugs |-> BugsNum, bugIds |-> BugTaskIds]
  <2>1. resultJson = <<>> /\ resultJson' = <<r0>>
    BY <1>1, <1>3 DEF SaveTaskPoolResult, ReportCurrent
  <2>2. Elements(resultJson) = {} /\ Elements(resultJson') = {r0}
    BY <2>1 DEF Elements
  <2>3. Started \ Counted = {}
    BY <1>1 DEF Joined, Started, Counted
  <2>4. r0.finished = Ledger!Cardinality(Counted)
    BY LedgerCardinality DEF CountersExact
  <2>5. /\ Started' = Started /\ Counted' = Counted
        /\ Elements(ErrorTaskIds)' = Elements(ErrorTaskIds)
        /\ Elements(BugTaskIds)' = Elements(BugTaskIds)
    BY <1>1 DEF Started, Counted, Elements
  <2>6. {[finished |-> r.finished, failed |-> Elements(r.errorIds),
          buggy |-> Elements(r.bugIds)] : r \in Elements(resultJson')}
          = {[finished |-> Ledger!Cardinality(Counted), failed |-> Elements(ErrorTaskIds),
              buggy |-> Elements(BugTaskIds)]}
    BY <2>2, <2>4
  <2>7. Ledger!Publish
    BY <2>2, <2>3, <2>5, <2>6 DEF Ledger!Publish, Ledger!Running, Started, Counted, Elements
  <2> QED
    BY <2>7 DEF Ledger!LedgerNext
<1> QED
  BY <1>2, <1>3

\* Whatever the pool does is, seen through the tasks that are started, ended
\* and recorded, what the ledger allows.
THEOREM PoolImplementsLedger == Spec => ImplementsLedger
<1>1. Init => Ledger!LedgerInit
  BY DEF Init, Ledger!LedgerInit, Elements
<1>2. ResultInvariant /\ [Next]_vars => [Ledger!LedgerNext]_(Ledger!ledgerVars)
  <2> SUFFICES ASSUME ResultInvariant, [Next]_vars
               PROVE  Ledger!LedgerNext \/ UNCHANGED Ledger!ledgerVars
    OBVIOUS
  <2>1. CASE StartTask
    BY <2>1, LedgerStarts DEF Ledger!LedgerNext
  <2>2. CASE SaveTaskPoolResult
    BY <2>2, LedgerPublishes
  <2>3. ASSUME NEW t \in TaskIds, Goroutine(t)
        PROVE  Ledger!LedgerNext \/ UNCHANGED Ledger!ledgerVars
    BY <2>3, LedgerEnds
  <2>4. CASE (Dispatcher /\ ~StartTask /\ ~SaveTaskPoolResult)
             \/ TimePasses \/ Returned \/ UNCHANGED vars
    <3>1. UNCHANGED <<tpc, ErrorTaskIds, BugTaskIds, resultJson>>
      BY <2>4 DEF Dispatcher, NewConnector, NewConnectorFails, WaitForFree, CheckMaxTime,
         CheckMaxTasks, PingFails, BreakLoop, JoinTasks, CloseConnector, TimePasses, Returned,
         vars, taskVars, resultVars
    <3> QED
      BY <3>1, LedgerStutters
  <2> QED
    BY <2>1, <2>2, <2>3, <2>4 DEF Next
<1> QED
  BY <1>1, <1>2, ResultInvariance, PTL DEF Spec, ImplementsLedger, Ledger!LedgerSpec
=============================================================================
