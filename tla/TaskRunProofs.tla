---------------------------- MODULE TaskRunProofs ----------------------------
(***************************************************************************)
(* Proofs about TaskRun, for every number of tasks, mutations, statements  *)
(* and results.                                                            *)
(***************************************************************************)
EXTENDS TaskRun, FiniteSetTheorems, FunctionTheorems, SequenceTheorems, TLAPS

-----------------------------------------------------------------------------
(* The order PrioritizeUnits sorts by.                                     *)

\* Rates compared by cross-multiplication: a/p <= b/q and b/q <= c/r.
LEMMA RatesTransitive ==
    ASSUME NEW a \in Nat, NEW b \in Nat, NEW c \in Nat,
           NEW p \in Nat \ {0}, NEW q \in Nat \ {0}, NEW r \in Nat \ {0},
           a * q <= b * p, b * r <= c * q
    PROVE  a * r <= c * p
<1>1. (a * q) * r <= (b * p) * r
  OBVIOUS
<1>2. (b * r) * p <= (c * q) * p
  OBVIOUS
<1>3. (a * r) * q <= (c * p) * q
  BY <1>1, <1>2
<1>4. ASSUME a * r > c * p PROVE FALSE
  <2>1. a * r \in Nat /\ c * p \in Nat
    OBVIOUS
  <2>2. PICK d \in Nat \ {0} : a * r = c * p + d
    <3>1. a * r - c * p \in Nat \ {0} /\ a * r = c * p + (a * r - c * p)
      BY <1>4, <2>1
    <3> QED
      BY <3>1
  <2>3. (a * r) * q = (c * p) * q + d * q
    BY <2>1, <2>2
  <2>4. d * q > 0
    OBVIOUS
  <2> QED
    BY <1>3, <2>1, <2>3, <2>4
<1> QED
  BY <1>4

\* A mutation whose rate is at least another's is not beaten by it.
LEMMA HitsOrder ==
    ASSUME stats \in [Names -> Statistics],
           NEW l \in Names, NEW m \in Names, NEW n \in Names,
           ~Unknown(l), ~Unknown(m), ~Unknown(n)
    PROVE  /\ ~(HitsMore(l, m) /\ HitsMore(m, l))
           /\ HitsMore(l, n) => HitsMore(l, m) \/ HitsMore(m, n)
<1>1. \A i \in Names : stats[i].BugsFound \in Nat /\ stats[i].TotalRuns \in Nat
  BY DEF Statistics
<1>2. \A i, j \in Names : stats[i].BugsFound * stats[j].TotalRuns \in Nat
  BY <1>1
<1>3. stats[l].TotalRuns # 0 /\ stats[m].TotalRuns # 0 /\ stats[n].TotalRuns # 0
  BY DEF Unknown
<1>4. ASSUME ~HitsMore(l, m), ~HitsMore(m, n) PROVE ~HitsMore(l, n)
  <2>1. /\ stats[l].BugsFound * stats[m].TotalRuns <= stats[m].BugsFound * stats[l].TotalRuns
        /\ stats[m].BugsFound * stats[n].TotalRuns <= stats[n].BugsFound * stats[m].TotalRuns
    BY <1>2, <1>4 DEF HitsMore
  <2>2. stats[l].BugsFound * stats[n].TotalRuns <= stats[n].BugsFound * stats[l].TotalRuns
    BY <1>1, <1>3, <2>1, RatesTransitive
  <2> QED
    BY <1>2, <2>2 DEF HitsMore
<1>5. ~(HitsMore(l, m) /\ HitsMore(m, l))
  BY <1>2 DEF HitsMore
<1> QED
  BY <1>4, <1>5

Sortable == [name : Names, err : BOOLEAN]

\* Before is a strict weak order.
LEMMA BeforeOrders ==
    ASSUME stats \in [Names -> Statistics],
           NEW u, NEW v, NEW w,
           u.name \in Names, v.name \in Names, w.name \in Names,
           u.err \in BOOLEAN, v.err \in BOOLEAN, w.err \in BOOLEAN
    PROVE  /\ ~(Before(u, v) /\ Before(v, u))
           /\ Before(u, w) => Before(u, v) \/ Before(v, w)
<1>1. \A i \in Names : stats[i].ExecErrors \in Nat
  BY DEF Statistics
<1>2. \A i, j \in Names : ~Unknown(i) /\ ~Unknown(j) => ~(HitsMore(i, j) /\ HitsMore(j, i))
  BY HitsOrder
<1>3. \A i, j, k \in Names : ~Unknown(i) /\ ~Unknown(j) /\ ~Unknown(k) =>
          (HitsMore(i, k) => HitsMore(i, j) \/ HitsMore(j, k))
  BY HitsOrder
<1>4. ~(Before(u, v) /\ Before(v, u))
  BY <1>1, <1>2 DEF Before
<1>5. Before(u, w) => Before(u, v) \/ Before(v, w)
  BY <1>1, <1>2, <1>3 DEF Before
<1> QED
  BY <1>4, <1>5

(* PrioritizeUnits only changes the order of the units: what comes first   *)
(* never goes after a unit further on, units that tie keep their order,    *)
(* and every unit has one place (mutation_stats.go:62-103).                *)
THEOREM SortPermutes ==
    ASSUME stats \in [Names -> Statistics], NEW us \in Seq(Unit)
    PROVE  \E f \in Bijection(DOMAIN us, DOMAIN us) :
              /\ PrioritizeUnits(us) = [p \in DOMAIN us |-> us[f[p]]]
              /\ \A p, q \in DOMAIN us :
                    p < q => /\ ~Before(us[f[q]], us[f[p]])
                             /\ Before(us[f[p]], us[f[q]]) \/ f[p] < f[q]
<1>1. /\ Len(us) \in Nat /\ DOMAIN us = 1 .. Len(us)
      /\ \A i \in DOMAIN us : us[i] \in Unit
  <2>1. /\ Len(us) \in Nat /\ DOMAIN us = 1 .. Len(us)
        /\ us \in [1 .. Len(us) -> Unit]
    BY LenProperties
  <2> QED
    BY <2>1
<1> DEFINE D == DOMAIN us
           first(k, j) == Before(us[k], us[j]) \/ (k < j /\ ~Before(us[j], us[k]))
           pred(j) == {k \in D : first(k, j)}
           place(j) == 1 + Cardinality(pred(j))
<1>2. IsFiniteSet(D) /\ Cardinality(D) = Len(us)
  <2>1. IsFiniteSet(1 .. Len(us)) /\ Cardinality(1 .. Len(us)) = Len(us)
    <3>1. Len(us) \in Int /\ 1 \in Int /\ Len(us) \in Nat
      BY <1>1
    <3>2. /\ IsFiniteSet(1 .. Len(us))
          /\ Cardinality(1 .. Len(us)) = IF 1 > Len(us) THEN 0 ELSE Len(us) - 1 + 1
      BY <3>1, FS_Interval
    <3> QED
      BY <3>1, <3>2
  <2> QED
    BY <1>1, <2>1
<1>3. \A i, j, k \in D :
         /\ ~(Before(us[i], us[j]) /\ Before(us[j], us[i]))
         /\ Before(us[i], us[k]) => Before(us[i], us[j]) \/ Before(us[j], us[k])
  <2>1. \A i \in D : us[i].name \in Names /\ us[i].err \in BOOLEAN
    BY <1>1 DEF Unit
  <2> HIDE DEF D
  <2> QED
    BY <2>1, BeforeOrders
<1>4. \A i, j \in D : i # j => first(i, j) \/ first(j, i)
  BY <1>1
<1>5. \A i, j \in D : ~(first(i, j) /\ first(j, i))
  BY <1>1, <1>3
<1>6. \A i, j, k \in D : first(i, j) /\ first(j, k) => first(i, k)
  BY <1>1, <1>3
<1> HIDE DEF D, first
<1>7. \A j \in D : /\ IsFiniteSet(pred(j)) /\ Cardinality(pred(j)) \in Nat
                   /\ Cardinality(pred(j)) < Len(us)
  <2> SUFFICES ASSUME NEW j \in D
               PROVE  /\ IsFiniteSet(pred(j)) /\ Cardinality(pred(j)) \in Nat
                      /\ Cardinality(pred(j)) < Len(us)
    OBVIOUS
  <2>1. pred(j) \in SUBSET D /\ j \notin pred(j)
    BY <1>5
  <2>2. /\ IsFiniteSet(pred(j))
        /\ Cardinality(pred(j)) <= Cardinality(D)
        /\ Cardinality(pred(j)) = Cardinality(D) => pred(j) = D
    <3> HIDE DEF pred
    <3> QED
      BY <1>2, <2>1, FS_Subset
  <2>3. Cardinality(pred(j)) \in Nat
    BY <2>2, FS_CardinalityType
  <2> QED
    BY <1>1, <1>2, <2>1, <2>2, <2>3
<1>8. \A i, j \in D : first(i, j) => place(i) < place(j)
  <2> SUFFICES ASSUME NEW i \in D, NEW j \in D, first(i, j)
               PROVE  place(i) < place(j)
    OBVIOUS
  <2>1. pred(i) \in SUBSET pred(j)
    BY <1>6
  <2>2. i \in pred(j) /\ i \notin pred(i)
    BY <1>5
  <2>3. /\ Cardinality(pred(i)) <= Cardinality(pred(j))
        /\ Cardinality(pred(i)) = Cardinality(pred(j)) => pred(i) = pred(j)
    <3>1. IsFiniteSet(pred(j))
      BY <1>7
    <3> HIDE DEF pred
    <3> QED
      BY <2>1, <3>1, FS_Subset
  <2> HIDE DEF pred
  <2> QED
    BY <1>7, <2>2, <2>3
<1> DEFINE at == [j \in D |-> place(j)]
<1>9. /\ at \in Injection(D, D)
      /\ \A j \in D : at[j] = place(j)
  <2>1. \A j \in D : place(j) \in D
    <3> HIDE DEF pred
    <3> QED
      BY <1>1, <1>7 DEF D
  <2>2. \A i, j \in D : i # j => place(i) # place(j)
    <3>1. \A i \in D : place(i) \in Int
      BY <1>1, <2>1 DEF D
    <3> HIDE DEF place
    <3> QED
      BY <1>4, <1>8, <3>1
  <2> HIDE DEF place
  <2> QED
    BY <2>1, <2>2 DEF Injection, IsInjective
<1>10. at \in Surjection(D, D)
  <2> HIDE DEF at
  <2> QED
    BY <1>2, <1>9, FS_Injection
<1>11. \A p \in D : \E j \in D : place(j) = p
  BY <1>9, <1>10 DEF Surjection
<1> DEFINE f == [p \in D |-> CHOOSE j \in D : place(j) = p]
<1>12. \A p \in D : f[p] \in D /\ place(f[p]) = p
  <2> HIDE DEF place
  <2> QED
    BY <1>11
<1>13. \A j \in D : place(j) \in D /\ f[place(j)] = j
  <2>1. \A j \in D : place(j) \in D
    <3> HIDE DEF pred
    <3> QED
      BY <1>1, <1>7 DEF D
  <2>2. \A i, j \in D : place(i) = place(j) => i = j
    BY <1>9 DEF Injection, IsInjective
  <2> HIDE DEF place, f
  <2> QED
    BY <1>12, <2>1, <2>2
<1>14. f \in Bijection(D, D)
  <2>1. f \in [D -> D]
    BY <1>12
  <2>2. \A p, q \in D : f[p] = f[q] => p = q
    BY <1>12
  <2>3. \A j \in D : \E p \in D : f[p] = j
    BY <1>13
  <2> HIDE DEF f, place
  <2> QED
    BY <2>1, <2>2, <2>3 DEF Bijection, Injection, Surjection, IsInjective
<1>15. PrioritizeUnits(us) = [p \in DOMAIN us |-> us[f[p]]]
  BY DEF PrioritizeUnits, D, first
<1>16. \A p, q \in D : p < q => /\ ~Before(us[f[q]], us[f[p]])
                                /\ Before(us[f[p]], us[f[q]]) \/ f[p] < f[q]
  <2> SUFFICES ASSUME NEW p \in D, NEW q \in D, p < q
               PROVE  /\ ~Before(us[f[q]], us[f[p]])
                      /\ Before(us[f[p]], us[f[q]]) \/ f[p] < f[q]
    OBVIOUS
  <2>1. /\ f[p] \in D /\ place(f[p]) = p
        /\ f[q] \in D /\ place(f[q]) = q
    BY <1>12
  <2> HIDE DEF f, place
  <2>2. ~first(f[q], f[p])
    <3>1. p \in Nat /\ q \in Nat
      BY <1>1 DEF D
    <3>2. \A i, j \in D : place(i) = q /\ place(j) = p => ~first(i, j)
      <4>1. SUFFICES ASSUME NEW i \in D, NEW j \in D, place(i) = q, place(j) = p, first(i, j)
                     PROVE  FALSE
        OBVIOUS
      <4>2. place(i) < place(j)
        BY <1>8, <4>1
      <4> QED
        BY <3>1, <4>1, <4>2
    <3> QED
      BY <2>1, <3>2
  <2>3. first(f[p], f[q])
    <3>1. f[p] # f[q]
      BY <1>1, <2>1 DEF D
    <3> QED
      BY <1>4, <2>1, <2>2, <3>1
  <2> QED
    BY <1>1, <1>3, <2>1, <2>2, <2>3 DEF first
<1> QED
  BY <1>14, <1>15, <1>16 DEF D

-----------------------------------------------------------------------------
(* Types.                                                                  *)

\* The unit that is dealt with, and those after it.
LEMMA UnitTypes ==
    ASSUME RunTypes, NEW t \in Tasks, units[t] # <<>>
    PROVE  /\ unit(t) \in Unit
           /\ Tail(units[t]) \in Seq(Unit)
           /\ Len(units[t]) \in Nat /\ Len(Tail(units[t])) = Len(units[t]) - 1
           /\ 1 \in DOMAIN units[t] /\ unit(t) = units[t][1]
           /\ \A k \in DOMAIN Tail(units[t]) :
                 k + 1 \in DOMAIN units[t] /\ Tail(units[t])[k] = units[t][k + 1]
<1>1. units[t] \in Seq(Unit)
  BY DEF RunTypes
<1>2. /\ Len(units[t]) \in Nat /\ Len(units[t]) # 0
      /\ units[t] \in [1 .. Len(units[t]) -> Unit] /\ DOMAIN units[t] = 1 .. Len(units[t])
  BY <1>1, LenProperties, EmptySeq
<1>3. /\ Head(units[t]) = units[t][1]
      /\ Tail(units[t]) \in Seq(Unit)
      /\ Len(Tail(units[t])) = Len(units[t]) - 1
      /\ \A k \in 1 .. Len(Tail(units[t])) : Tail(units[t])[k] = units[t][k + 1]
  BY <1>1
<1>4. DOMAIN Tail(units[t]) = 1 .. Len(Tail(units[t]))
  BY <1>3, LenProperties
<1>5. 1 \in 1 .. Len(units[t])
  BY <1>2
<1> QED
  BY <1>2, <1>3, <1>4, <1>5 DEF unit

\* The sorted units are the units.
LEMMA SortTypes ==
    ASSUME stats \in [Names -> Statistics], NEW n \in Nat, NEW S \in SUBSET Unit,
           NEW us \in [1 .. n -> S]
    PROVE  /\ PrioritizeUnits(us) \in Seq(Unit)
           /\ Len(PrioritizeUnits(us)) = n
           /\ \A k \in DOMAIN PrioritizeUnits(us) : PrioritizeUnits(us)[k] \in S
<1>1. us \in Seq(Unit) /\ DOMAIN us = 1 .. n
  OBVIOUS
<1>2. PICK f \in Bijection(DOMAIN us, DOMAIN us) :
         PrioritizeUnits(us) = [p \in DOMAIN us |-> us[f[p]]]
  BY <1>1, SortPermutes
<1>3. \A p \in 1 .. n : f[p] \in 1 .. n
  BY <1>1, <1>2 DEF Bijection, Injection
<1>4. PrioritizeUnits(us) \in [1 .. n -> S]
  BY <1>1, <1>2, <1>3
<1>5. PrioritizeUnits(us) \in [1 .. n -> Unit]
  BY <1>4
<1>6. PrioritizeUnits(us) \in Seq(Unit) /\ Len(PrioritizeUnits(us)) = n
  BY <1>5
<1> QED
  BY <1>4, <1>6

\* An action changes no more than its own task's state and the statistics.
LEMMA OtherTasks ==
    ASSUME RunTypes, NEW t \in Tasks, TaskStep(t), NEW u \in Tasks, u # t
    PROVE  /\ pc'[u] = pc[u] /\ sqlId'[u] = sqlId[u] /\ kind'[u] = kind[u]
           /\ original'[u] = original[u] /\ units'[u] = units[u] /\ check'[u] = check[u]
           /\ taskResult'[u] = taskResult[u] /\ bugs'[u] = bugs[u]
           /\ resultFile'[u] = resultFile[u] /\ conn'[u] = conn[u] /\ database'[u] = database[u]
<1> USE DEF RunTypes, Goto, Count, NextUnit, local, setup
<1>1. CASE StartTask(t)
  BY <1>1 DEF StartTask, NewDirectory
<1>2. CASE SetUpDatabase(t)
  BY <1>2 DEF SetUpDatabase, Failed, InitMysql, InitPostgreSQL, InitGaussDB, ExecDDL,
              LoadDefaultTestData, Ready
<1>3. CASE SkipStatement(t)
  BY <1>3 DEF SkipStatement
<1>4. CASE MutateStatement(t)
  BY <1>4 DEF MutateStatement
<1>5. CASE EndStatement(t)
  BY <1>5 DEF EndStatement
<1>6. CASE UnitError(t)
  BY <1>6 DEF UnitError
<1>7. CASE UnitExecError(t)
  BY <1>7 DEF UnitExecError
<1>8. CASE ReExecute(t)
  BY <1>8 DEF ReExecute, SaveBugReport
<1>9. CASE CheckUnit(t)
  BY <1>9 DEF CheckUnit
<1>10. CASE NoBug(t)
  BY <1>10 DEF NoBug
<1>11. CASE LogicalBug(t)
  BY <1>11 DEF LogicalBug
<1>12. CASE AnalyseAndSave(t)
  BY <1>12 DEF AnalyseAndSave, SaveBugReport
<1>13. CASE FinishTask(t)
  BY <1>13 DEF FinishTask
<1> QED
  BY <1>1, <1>2, <1>3, <1>4, <1>5, <1>6, <1>7, <1>8, <1>9, <1>10, <1>11, <1>12, <1>13
     DEF TaskStep

\* The configuration is read only.
LEMMA ConfigKept == ASSUME NEW t \in Tasks, TaskStep(t) PROVE config' = config
BY DEF TaskStep, StartTask, SetUpDatabase, SkipStatement, MutateStatement, EndStatement,
       UnitError, UnitExecError, ReExecute, CheckUnit, NoBug, LogicalBug, AnalyseAndSave,
       FinishTask, setup

\* What is recorded of a mutation is again three numbers.
LEMMA RecordTypes ==
    ASSUME stats \in [Names -> Statistics], NEW n \in Names, NEW b \in BOOLEAN, NEW e \in BOOLEAN,
           RecordResult(n, b, e)
    PROVE  /\ stats' \in [Names -> Statistics]
           /\ \A m \in Names \ {n} : stats'[m] = stats[m]
           /\ stats'[n] = [TotalRuns |-> stats[n].TotalRuns + 1,
                           BugsFound |-> stats[n].BugsFound + One(b),
                           ExecErrors |-> stats[n].ExecErrors + One(e)]
<1>1. stats[n] \in Statistics /\ One(b) \in Nat /\ One(e) \in Nat
  BY DEF One
<1>2. stats' = [stats EXCEPT ![n] = [TotalRuns |-> stats[n].TotalRuns + 1,
                                     BugsFound |-> stats[n].BugsFound + One(b),
                                     ExecErrors |-> stats[n].ExecErrors + One(e)]]
  BY DEF RecordResult
<1>3. [TotalRuns |-> stats[n].TotalRuns + 1, BugsFound |-> stats[n].BugsFound + One(b),
       ExecErrors |-> stats[n].ExecErrors + One(e)] \in Statistics
  BY <1>1 DEF Statistics
<1> QED
  BY <1>2, <1>3

\* What a report and a record of the current unit are made of.
LEMMA ReportTypes ==
    ASSUME RunTypes, NEW t \in Tasks, units[t] # <<>>, NEW id \in Int, NEW e \in BOOLEAN
    PROVE  /\ Report(t, id, e) \in BugReport
           /\ [bugId |-> id, sqlId |-> sqlId[t], name |-> unit(t).name] \in FalsePositive
           /\ Report(t, id, e).bugId = id /\ Report(t, id, e).isErrorOracle = e
           /\ Report(t, id, e).sqlId = sqlId[t] /\ Report(t, id, e).name = unit(t).name
           /\ Report(t, id, e).kind = kind[t] /\ Report(t, id, e).isUpper = unit(t).isUpper
           /\ Report(t, id, e).original = original[t] /\ Report(t, id, e).mutated = unit(t).exec
<1>1. unit(t) \in Unit
  BY UnitTypes
<1>2. /\ unit(t).name \in Names /\ unit(t).isUpper \in BOOLEAN /\ unit(t).exec \in ResultSet
      /\ sqlId[t] \in Nat /\ kind[t] \in Kinds /\ original[t] \in ResultSet
  BY <1>1 DEF Unit, RunTypes
<1> QED
  BY <1>2 DEF Report, FalsePositive, BugReport

\* The statement loop deals only with units of the task.
LEMMA StatementTypes ==
    ASSUME RunTypes, NEW t \in Tasks, MutateStatement(t)
    PROVE  \E k \in QueryKinds, o \in Outcomes[config], n \in Nat, us \in Seq(Unit) :
              /\ ~o.err /\ ResultOf(k, o) /\ o \in ResultSet
              /\ Len(us) = n /\ \A i \in DOMAIN us : us[i] \in UnitsOf(k)
              /\ kind' = [kind EXCEPT ![t] = k]
              /\ original' = [original EXCEPT ![t] = o]
              /\ units' = [units EXCEPT ![t] = us]
              /\ taskResult' = [taskResult EXCEPT ![t] =
                                   [taskResult[t] EXCEPT !.Stage2UnitNum = @ + n]]
<1>1. PICK k \in QueryKinds :
           \E o \in {r \in Outcomes[config] : ~r.err /\ ResultOf(k, r)}, n \in 0 .. MaxUnits[config] :
           \E us \in [1 .. n -> UnitsOf(k)] :
              /\ kind' = [kind EXCEPT ![t] = k]
              /\ original' = [original EXCEPT ![t] = o]
              /\ units' = [units EXCEPT ![t] = PrioritizeUnits(us)]
              /\ Count(t, [taskResult[t] EXCEPT !.Stage2UnitNum = @ + n])
  BY DEF MutateStatement
<1>2. PICK o \in {r \in Outcomes[config] : ~r.err /\ ResultOf(k, r)}, n \in 0 .. MaxUnits[config] :
           \E us \in [1 .. n -> UnitsOf(k)] :
              /\ kind' = [kind EXCEPT ![t] = k]
              /\ original' = [original EXCEPT ![t] = o]
              /\ units' = [units EXCEPT ![t] = PrioritizeUnits(us)]
              /\ Count(t, [taskResult[t] EXCEPT !.Stage2UnitNum = @ + n])
  BY <1>1
<1>3. PICK us \in [1 .. n -> UnitsOf(k)] :
              /\ kind' = [kind EXCEPT ![t] = k]
              /\ original' = [original EXCEPT ![t] = o]
              /\ units' = [units EXCEPT ![t] = PrioritizeUnits(us)]
              /\ Count(t, [taskResult[t] EXCEPT !.Stage2UnitNum = @ + n])
  BY <1>2
<1>4. config \in Configs /\ stats \in [Names -> Statistics]
  BY DEF RunTypes
<1>5. Outcomes[config] \subseteq ResultSet /\ Units[config] \subseteq Unit /\ MaxUnits[config] \in Nat
  BY <1>4, TaskRunAssumption
<1>6. n \in Nat /\ UnitsOf(k) \in SUBSET Unit
  BY <1>5, TaskRunAssumption DEF UnitsOf
<1>7. /\ PrioritizeUnits(us) \in Seq(Unit) /\ Len(PrioritizeUnits(us)) = n
      /\ \A i \in DOMAIN PrioritizeUnits(us) : PrioritizeUnits(us)[i] \in UnitsOf(k)
  BY <1>4, <1>6, SortTypes
<1> QED
  BY <1>3, <1>5, <1>6, <1>7 DEF Count

\* The types of the task's counters.
LEMMA CounterTypes ==
    ASSUME NEW r \in TaskResult, NEW n \in Nat
    PROVE  /\ [r EXCEPT !.Stage1ErrNum = @ + 1] \in TaskResult
           /\ [r EXCEPT !.Stage1ExecErrNum = @ + 1] \in TaskResult
           /\ [r EXCEPT !.Stage1SkippedNum = @ + 1] \in TaskResult
           /\ [r EXCEPT !.Stage2ErrNum = @ + 1] \in TaskResult
           /\ [r EXCEPT !.Stage2UnitNum = @ + n] \in TaskResult
           /\ [r EXCEPT !.Stage2UnitErrNum = @ + 1] \in TaskResult
           /\ [r EXCEPT !.Stage2UnitExecErrNum = @ + 1] \in TaskResult
           /\ [r EXCEPT !.ImpoBugsNum = @ + 1] \in TaskResult
           /\ [r EXCEPT !.SaveBugErrNum = @ + 1] \in TaskResult
           /\ [r EXCEPT !.ImpoBugsNum = @ + 1, !.ErrorOracleBugsNum = @ + 1] \in TaskResult
           /\ \A d \in Seq(FalsePositive) : [r EXCEPT !.FalsePositiveDetails = d] \in TaskResult
<1>1. /\ r.Stage1ErrNum + 1 \in Nat
      /\ r.Stage1ExecErrNum + 1 \in Nat
      /\ r.Stage1SkippedNum + 1 \in Nat
      /\ r.Stage2ErrNum + 1 \in Nat
      /\ r.Stage2UnitErrNum + 1 \in Nat
      /\ r.Stage2UnitExecErrNum + 1 \in Nat
      /\ r.ImpoBugsNum + 1 \in Nat
      /\ r.SaveBugErrNum + 1 \in Nat
      /\ r.ErrorOracleBugsNum + 1 \in Nat
      /\ r.Stage2UnitNum + n \in Nat
  <2>1. /\ r.Stage1ErrNum \in Nat
        /\ r.Stage1ExecErrNum \in Nat
        /\ r.Stage1SkippedNum \in Nat
        /\ r.Stage2ErrNum \in Nat
        /\ r.Stage2UnitNum \in Nat
        /\ r.Stage2UnitErrNum \in Nat
        /\ r.Stage2UnitExecErrNum \in Nat
        /\ r.ImpoBugsNum \in Nat
        /\ r.SaveBugErrNum \in Nat
        /\ r.ErrorOracleBugsNum \in Nat
    BY DEF TaskResult
  <2> QED
    BY <2>1
<1>2. [r EXCEPT !.Stage1ErrNum = @ + 1] \in TaskResult
  BY <1>1 DEF TaskResult
<1>3. [r EXCEPT !.Stage1ExecErrNum = @ + 1] \in TaskResult
  BY <1>1 DEF TaskResult
<1>4. [r EXCEPT !.Stage1SkippedNum = @ + 1] \in TaskResult
  BY <1>1 DEF TaskResult
<1>5. [r EXCEPT !.Stage2ErrNum = @ + 1] \in TaskResult
  BY <1>1 DEF TaskResult
<1>6. [r EXCEPT !.Stage2UnitNum = @ + n] \in TaskResult
  BY <1>1 DEF TaskResult
<1>7. [r EXCEPT !.Stage2UnitErrNum = @ + 1] \in TaskResult
  BY <1>1 DEF TaskResult
<1>8. [r EXCEPT !.Stage2UnitExecErrNum = @ + 1] \in TaskResult
  BY <1>1 DEF TaskResult
<1>9. [r EXCEPT !.ImpoBugsNum = @ + 1] \in TaskResult
  BY <1>1 DEF TaskResult
<1>10. [r EXCEPT !.SaveBugErrNum = @ + 1] \in TaskResult
  BY <1>1 DEF TaskResult
<1>11. [r EXCEPT !.ImpoBugsNum = @ + 1, !.ErrorOracleBugsNum = @ + 1] \in TaskResult
  BY <1>1 DEF TaskResult
<1>12. \A d \in Seq(FalsePositive) : [r EXCEPT !.FalsePositiveDetails = d] \in TaskResult
  BY <1>1 DEF TaskResult
<1> QED
  BY <1>2, <1>3, <1>4, <1>5, <1>6, <1>7, <1>8, <1>9, <1>10, <1>11, <1>12

\* A report is kept, or its loss is counted.
LEMMA SaveTypes ==
    ASSUME RunTypes, NEW t \in Tasks, NEW report \in BugReport, NEW result \in TaskResult,
           SaveBugReport(t, report, result)
    PROVE  /\ taskResult' \in [Tasks -> TaskResult]
           /\ bugs' \in [Tasks -> SUBSET BugReport]
           /\ \/ bugs'[t] = bugs[t] \cup {report} /\ taskResult'[t] = result
              \/ bugs'[t] = bugs[t] /\ taskResult'[t] = [result EXCEPT !.SaveBugErrNum = @ + 1]
<1>1. [result EXCEPT !.SaveBugErrNum = @ + 1] \in TaskResult
  BY CounterTypes
<1>2. bugs \in [Tasks -> SUBSET BugReport] /\ taskResult \in [Tasks -> TaskResult]
  BY DEF RunTypes
<1>3. CASE /\ bugs' = [bugs EXCEPT ![t] = @ \cup {report}]
           /\ Count(t, result)
  BY <1>2, <1>3 DEF Count
<1>4. CASE /\ Count(t, [result EXCEPT !.SaveBugErrNum = @ + 1])
           /\ UNCHANGED bugs
  BY <1>1, <1>2, <1>4 DEF Count
<1> QED
  BY <1>3, <1>4 DEF SaveBugReport

\* The types at the start.
LEMMA TypesInit == ASSUME Init PROVE RunTypes
<1>1. NoResult \in ResultSet
  BY DEF NoResult, ResultSet
<1>2. NewTaskResult \in TaskResult
  BY DEF NewTaskResult, TaskResult
<1>3. OldReport \in BugReport
  BY <1>1 DEF OldReport, Kinds, BugReport
<1> QED
  BY <1>1, <1>2, <1>3 DEF Init, local, setup, RunTypes, Pcs, Kinds, Statistics

\* The analysis leaves the records as they are or appends one of the current bug.
LEMMA AnalyseFacts ==
    ASSUME RunTypes, NEW t \in Tasks, AtLabel(t), AnalyseAndSave(t)
    PROVE  \E d \in Seq(FalsePositive) :
              /\ \/ d = taskResult[t].FalsePositiveDetails
                 \/ d = Append(taskResult[t].FalsePositiveDetails,
                               [bugId |-> taskResult[t].ImpoBugsNum - 1, sqlId |-> sqlId[t],
                                name |-> unit(t).name])
              /\ [taskResult[t] EXCEPT !.FalsePositiveDetails = d] \in TaskResult
              /\ SaveBugReport(t, Report(t, taskResult[t].ImpoBugsNum - 1, FALSE),
                               [taskResult[t] EXCEPT !.FalsePositiveDetails = d])
<1> DEFINE id == taskResult[t].ImpoBugsNum - 1
           record == [bugId |-> id, sqlId |-> sqlId[t], name |-> unit(t).name]
           old == taskResult[t].FalsePositiveDetails
<1>1. units[t] # <<>>
  BY DEF AnalyseAndSave, AtLabel, Dealing
<1>2. id \in Int /\ old \in Seq(FalsePositive)
  BY DEF RunTypes, TaskResult
<1>3. Append(old, record) \in Seq(FalsePositive)
  <2>1. record \in FalsePositive
    BY <1>1, <1>2, ReportTypes
  <2> QED
    BY <1>2, <2>1
<1>4. PICK d \in {old, Append(old, record)} :
         SaveBugReport(t, Report(t, id, FALSE), [taskResult[t] EXCEPT !.FalsePositiveDetails = d])
  BY DEF AnalyseAndSave
<1>5. [taskResult[t] EXCEPT !.FalsePositiveDetails = d] \in TaskResult
  BY <1>2, <1>3, CounterTypes DEF RunTypes
<1> QED
  BY <1>2, <1>3, <1>4, <1>5

\* Every step keeps the types.
LEMMA TypesNext ==
    ASSUME RunTypes, NEW t \in Tasks, AtLabel(t), TaskStep(t)
    PROVE  RunTypes'
<1>1. CASE StartTask(t)
  <2>1. PICK kept \in SUBSET bugs[t], file \in SUBSET resultFile[t] :
           /\ bugs' = [bugs EXCEPT ![t] = kept]
           /\ resultFile' = [resultFile EXCEPT ![t] = file]
    BY <1>1 DEF StartTask, NewDirectory
  <2>2. bugs' \in [Tasks -> SUBSET BugReport] /\ resultFile' \in [Tasks -> SUBSET TaskResult]
    BY <2>1 DEF RunTypes
  <2> QED
    BY <1>1, <2>2 DEF StartTask, RunTypes, Goto, local, Pcs
<1>2. CASE SetUpDatabase(t)
  <2>1. PICK label \in {"statement", "failed"}, contents \in {"unknown", "partial", "tried", "new", "old"} :
           /\ pc' = [pc EXCEPT ![t] = label]
           /\ database' = [database EXCEPT ![t] = contents]
    BY <1>2 DEF SetUpDatabase, Failed, InitMysql, InitPostgreSQL, InitGaussDB, ExecDDL,
                LoadDefaultTestData, Ready, Goto
  <2>2. UNCHANGED <<local, taskResult, bugs, resultFile, stats, conn, config>>
    BY <1>2 DEF SetUpDatabase
  <2> QED
    BY <2>1, <2>2 DEF RunTypes, local, Pcs
<1>3. CASE SkipStatement(t)
  <2>1. taskResult[t] \in TaskResult
    BY DEF RunTypes
  <2>2. PICK counter \in SkipCounters :
           taskResult' = [taskResult EXCEPT ![t] = [taskResult[t] EXCEPT ![counter] = @ + 1]]
    BY <1>3 DEF SkipStatement, Count
  <2>3. counter \in {"Stage1ErrNum", "Stage1ExecErrNum", "Stage2ErrNum", "Stage1SkippedNum"}
    BY DEF SkipCounters
  <2>4. [taskResult[t] EXCEPT ![counter] = @ + 1] \in TaskResult
    BY <2>1, <2>3, CounterTypes
  <2>5. taskResult' \in [Tasks -> TaskResult]
    BY <2>2, <2>4 DEF RunTypes
  <2>6. sqlId' \in [Tasks -> Nat]
    BY <1>3 DEF SkipStatement, RunTypes
  <2>7. UNCHANGED <<setup, pc, kind, original, units, check, bugs, resultFile, stats>>
    BY <1>3 DEF SkipStatement
  <2> QED
    BY <2>5, <2>6, <2>7 DEF RunTypes, setup
<1>4. CASE MutateStatement(t)
  <2>1. PICK k \in QueryKinds, o \in Outcomes[config], n \in Nat, us \in Seq(Unit) :
              /\ o \in ResultSet
              /\ kind' = [kind EXCEPT ![t] = k]
              /\ original' = [original EXCEPT ![t] = o]
              /\ units' = [units EXCEPT ![t] = us]
              /\ taskResult' = [taskResult EXCEPT ![t] =
                                   [taskResult[t] EXCEPT !.Stage2UnitNum = @ + n]]
    BY <1>4, StatementTypes
  <2>2. [taskResult[t] EXCEPT !.Stage2UnitNum = @ + n] \in TaskResult
    BY CounterTypes DEF RunTypes
  <2>3. taskResult' \in [Tasks -> TaskResult]
    BY <2>1, <2>2 DEF RunTypes
  <2>4. k \in Kinds
    BY TaskRunAssumption
  <2> QED
    BY <1>4, <2>1, <2>3, <2>4 DEF MutateStatement, RunTypes, setup, Goto, Pcs
<1>5. CASE EndStatement(t)
  BY <1>5 DEF EndStatement, RunTypes, Goto, local, setup, Pcs
<1>6. CASE UnitError(t)
  <2>1. Tail(units[t]) \in Seq(Unit)
    BY <1>6, UnitTypes DEF UnitError, AtUnit
  <2>2. [taskResult[t] EXCEPT !.Stage2UnitErrNum = @ + 1] \in TaskResult
    BY CounterTypes DEF RunTypes
  <2> QED
    BY <1>6, <2>1, <2>2 DEF UnitError, NextUnit, Goto, Count, RunTypes, setup, Pcs
<1>7. CASE UnitExecError(t)
  <2>1. Tail(units[t]) \in Seq(Unit) /\ unit(t).name \in Names
    BY <1>7, UnitTypes DEF UnitExecError, AtUnit, Unit
  <2>2. [taskResult[t] EXCEPT !.Stage2UnitExecErrNum = @ + 1] \in TaskResult
    BY CounterTypes DEF RunTypes
  <2>3. stats' \in [Names -> Statistics]
    BY <1>7, <2>1, RecordTypes DEF UnitExecError, RunTypes
  <2> QED
    BY <1>7, <2>1, <2>2, <2>3 DEF UnitExecError, NextUnit, Goto, Count, RunTypes, setup, Pcs
<1>8. CASE ReExecute(t)
  <2>1. units[t] # <<>>
    BY <1>8 DEF ReExecute, AtLabel, Dealing
  <2>2. Tail(units[t]) \in Seq(Unit) /\ unit(t).name \in Names
    BY <2>1, UnitTypes DEF Unit
  <2>3. [taskResult[t] EXCEPT !.ImpoBugsNum = @ + 1, !.ErrorOracleBugsNum = @ + 1] \in TaskResult
    BY CounterTypes DEF RunTypes
  <2>4. taskResult[t].ImpoBugsNum \in Int
    BY DEF RunTypes, TaskResult
  <2>5. CASE /\ RecordResult(unit(t).name, TRUE, TRUE)
             /\ SaveBugReport(t, Report(t, taskResult[t].ImpoBugsNum, TRUE),
                    [taskResult[t] EXCEPT !.ImpoBugsNum = @ + 1, !.ErrorOracleBugsNum = @ + 1])
    <3>1. stats' \in [Names -> Statistics]
      BY <2>2, <2>5, RecordTypes DEF RunTypes
    <3>2. Report(t, taskResult[t].ImpoBugsNum, TRUE) \in BugReport
      BY <2>1, <2>4, ReportTypes
    <3>3. /\ taskResult' \in [Tasks -> TaskResult]
          /\ bugs' \in [Tasks -> SUBSET BugReport]
      BY <2>3, <2>5, <3>2, SaveTypes
    <3> QED
      BY <1>8, <2>2, <3>1, <3>3 DEF ReExecute, NextUnit, Goto, RunTypes, setup, Pcs
  <2>6. CASE UNCHANGED <<taskResult, bugs, stats>>
    BY <1>8, <2>2, <2>6 DEF ReExecute, NextUnit, Goto, RunTypes, setup, Pcs
  <2> QED
    BY <1>8, <2>5, <2>6 DEF ReExecute
<1>9. CASE CheckUnit(t)
  <2>1. TaskCheck(original[t], unit(t).exec, unit(t).isUpper, AggregateMode) \in BOOLEAN
    <3>1. \A o, m, up : Check(o, m, up) \in BOOLEAN
      BY DEF Check
    <3>2. \A o, m, up : CheckAggregate(o, m, up) \in BOOLEAN
      BY DEF CheckAggregate
    <3> QED
      BY <3>1, <3>2 DEF TaskCheck
  <2> QED
    BY <1>9, <2>1 DEF CheckUnit, Goto, RunTypes, setup, Pcs
<1>10. CASE NoBug(t)
  <2>1. units[t] # <<>>
    BY <1>10 DEF NoBug, AtLabel, Dealing
  <2>2. Tail(units[t]) \in Seq(Unit) /\ unit(t).name \in Names
    BY <2>1, UnitTypes DEF Unit
  <2>3. stats' \in [Names -> Statistics]
    BY <1>10, <2>2, RecordTypes DEF NoBug, RunTypes
  <2> QED
    BY <1>10, <2>2, <2>3 DEF NoBug, NextUnit, Goto, RunTypes, setup, Pcs
<1>11. CASE LogicalBug(t)
  <2>1. units[t] # <<>>
    BY <1>11 DEF LogicalBug, AtLabel, Dealing
  <2>2. unit(t).name \in Names
    BY <2>1, UnitTypes DEF Unit
  <2>3. stats' \in [Names -> Statistics]
    BY <1>11, <2>2, RecordTypes DEF LogicalBug, RunTypes
  <2>4. [taskResult[t] EXCEPT !.ImpoBugsNum = @ + 1] \in TaskResult
    BY CounterTypes DEF RunTypes
  <2> QED
    BY <1>11, <2>3, <2>4 DEF LogicalBug, Goto, Count, RunTypes, setup, local, Pcs
<1>12. CASE AnalyseAndSave(t)
  <2>1. units[t] # <<>>
    BY <1>12 DEF AnalyseAndSave, AtLabel, Dealing
  <2>2. Tail(units[t]) \in Seq(Unit)
    BY <2>1, UnitTypes
  <2> DEFINE id == taskResult[t].ImpoBugsNum - 1
  <2>3. PICK d \in Seq(FalsePositive) :
           /\ [taskResult[t] EXCEPT !.FalsePositiveDetails = d] \in TaskResult
           /\ SaveBugReport(t, Report(t, id, FALSE), [taskResult[t] EXCEPT !.FalsePositiveDetails = d])
    BY <1>12, AnalyseFacts
  <2>4. id \in Int
    BY DEF RunTypes, TaskResult
  <2>5. Report(t, id, FALSE) \in BugReport
    BY <2>1, <2>4, ReportTypes
  <2>6. /\ taskResult' \in [Tasks -> TaskResult]
        /\ bugs' \in [Tasks -> SUBSET BugReport]
    BY <2>3, <2>5, SaveTypes
  <2> QED
    BY <1>12, <2>2, <2>6 DEF AnalyseAndSave, NextUnit, Goto, RunTypes, setup, Pcs
<1>13. CASE FinishTask(t)
  BY <1>13 DEF FinishTask, RunTypes, Goto, local, Pcs
<1> QED
  BY <1>1, <1>2, <1>3, <1>4, <1>5, <1>6, <1>7, <1>8, <1>9, <1>10, <1>11, <1>12, <1>13
     DEF TaskStep

-----------------------------------------------------------------------------
(* Where a task is, and what is known there.                               *)

\* What saving a report leaves of the counters.
LEMMA SavedCounters ==
    ASSUME RunTypes, NEW t \in Tasks, AtLabel(t), ReExecute(t) \/ AnalyseAndSave(t)
    PROVE  /\ taskResult'[t].Stage2UnitErrNum = taskResult[t].Stage2UnitErrNum
           /\ taskResult'[t].Stage2UnitNum = taskResult[t].Stage2UnitNum
           /\ taskResult'[t].Stage2UnitExecErrNum = taskResult[t].Stage2UnitExecErrNum
<1>1. taskResult[t] \in TaskResult /\ taskResult \in [Tasks -> TaskResult]
  BY DEF RunTypes
<1> DEFINE Same(r) == /\ r.Stage2UnitErrNum = taskResult[t].Stage2UnitErrNum
                      /\ r.Stage2UnitNum = taskResult[t].Stage2UnitNum
                      /\ r.Stage2UnitExecErrNum = taskResult[t].Stage2UnitExecErrNum
<1>2. ASSUME NEW r \in TaskResult, Same(r), NEW report, SaveBugReport(t, report, r)
      PROVE  Same(taskResult'[t])
  <2>1. taskResult'[t] = r \/ taskResult'[t] = [r EXCEPT !.SaveBugErrNum = @ + 1]
    BY <1>1, <1>2 DEF SaveBugReport, Count
  <2> QED
    BY <1>2, <2>1 DEF TaskResult
<1>3. CASE ReExecute(t)
  <2> DEFINE r == [taskResult[t] EXCEPT !.ImpoBugsNum = @ + 1, !.ErrorOracleBugsNum = @ + 1]
  <2>1. r \in TaskResult /\ Same(r)
    BY <1>1, CounterTypes DEF TaskResult
  <2>2. SaveBugReport(t, Report(t, taskResult[t].ImpoBugsNum, TRUE), r) \/ UNCHANGED taskResult
    BY <1>3 DEF ReExecute
  <2> HIDE DEF r
  <2> QED
    BY <1>2, <2>1, <2>2
<1>4. CASE AnalyseAndSave(t)
  <2>1. PICK d \in Seq(FalsePositive) :
           /\ [taskResult[t] EXCEPT !.FalsePositiveDetails = d] \in TaskResult
           /\ SaveBugReport(t, Report(t, taskResult[t].ImpoBugsNum - 1, FALSE),
                            [taskResult[t] EXCEPT !.FalsePositiveDetails = d])
    BY <1>4, AnalyseFacts
  <2>2. Same([taskResult[t] EXCEPT !.FalsePositiveDetails = d])
    BY <1>1 DEF TaskResult
  <2> QED
    BY <1>2, <2>1, <2>2
<1> QED
  BY <1>3, <1>4

\* The step of one task leaves what is known of the others.
LEMMA LabelOfOthers ==
    ASSUME RunTypes, NEW t \in Tasks, TaskStep(t), NEW u \in Tasks, u # t, AtLabel(u)
    PROVE  AtLabel(u)'
<1>1. /\ pc'[u] = pc[u] /\ kind'[u] = kind[u] /\ original'[u] = original[u]
      /\ units'[u] = units[u] /\ check'[u] = check[u] /\ taskResult'[u] = taskResult[u]
      /\ config' = config
  BY OtherTasks, ConfigKept
<1>2. unit(u)' = unit(u) /\ AggregateMode' = AggregateMode
  BY <1>1 DEF unit, AggregateMode
<1>3. \A k : UnitsOf(k)' = UnitsOf(k)
  BY <1>1 DEF UnitsOf
<1>4. UnitsOf(kind[u])' = UnitsOf(kind[u])
  BY <1>1 DEF UnitsOf
<1> QED
  BY <1>1, <1>2, <1>4 DEF AtLabel

\* Every step of a task finds out what its next label stands for.
LEMMA LabelNext ==
    ASSUME RunTypes, NEW t \in Tasks, AtLabel(t), TaskStep(t)
    PROVE  AtLabel(t)'
<1>1. /\ config' = config /\ AggregateMode' = AggregateMode
      /\ \A k : UnitsOf(k)' = UnitsOf(k)
  <2>1. config' = config
    BY ConfigKept
  <2> QED
    BY <2>1 DEF AggregateMode, UnitsOf
<1>2. /\ taskResult[t] \in TaskResult /\ units[t] \in Seq(Unit) /\ Len(units[t]) \in Nat
      /\ taskResult[t].Stage2UnitErrNum \in Nat /\ taskResult[t].Stage2UnitNum \in Nat
  BY LenProperties DEF RunTypes, TaskResult
<1>3. CASE StartTask(t)
  <2>1. /\ pc'[t] \in {"setup", "failed"} /\ units'[t] = units[t] /\ taskResult'[t] = taskResult[t]
        /\ pc[t] = "start"
    BY <1>3 DEF StartTask, Goto, RunTypes, local
  <2> QED
    BY <1>2, <2>1 DEF AtLabel, Dealing
<1>4. CASE SetUpDatabase(t)
  <2>1. /\ pc'[t] \in {"statement", "failed"} /\ units'[t] = units[t] /\ taskResult'[t] = taskResult[t]
        /\ pc[t] = "setup"
    BY <1>4 DEF SetUpDatabase, Failed, InitMysql, InitPostgreSQL, InitGaussDB, ExecDDL,
                LoadDefaultTestData, Ready, Goto, RunTypes, local
  <2> QED
    BY <1>2, <2>1 DEF AtLabel, Dealing
<1>5. CASE SkipStatement(t)
  <2>1. PICK counter \in SkipCounters :
           taskResult' = [taskResult EXCEPT ![t] = [taskResult[t] EXCEPT ![counter] = @ + 1]]
    BY <1>5 DEF SkipStatement, Count
  <2>2. counter \in {"Stage1ErrNum", "Stage1ExecErrNum", "Stage2ErrNum", "Stage1SkippedNum"}
    BY DEF SkipCounters
  <2>3. taskResult'[t] = [taskResult[t] EXCEPT ![counter] = @ + 1]
    BY <2>1 DEF RunTypes
  <2>4. /\ taskResult'[t].Stage2UnitErrNum = taskResult[t].Stage2UnitErrNum
        /\ taskResult'[t].Stage2UnitNum = taskResult[t].Stage2UnitNum
    BY <1>2, <2>2, <2>3 DEF TaskResult
  <2>5. pc'[t] = "statement" /\ pc[t] = "statement" /\ units'[t] = units[t]
    BY <1>5 DEF SkipStatement, HasStatement
  <2> QED
    BY <1>2, <2>4, <2>5 DEF AtLabel, Dealing
<1>6. CASE MutateStatement(t)
  <2>1. PICK k \in QueryKinds, o \in Outcomes[config], n \in Nat, us \in Seq(Unit) :
              /\ ~o.err /\ ResultOf(k, o) /\ o \in ResultSet
              /\ Len(us) = n /\ \A i \in DOMAIN us : us[i] \in UnitsOf(k)
              /\ kind' = [kind EXCEPT ![t] = k]
              /\ original' = [original EXCEPT ![t] = o]
              /\ units' = [units EXCEPT ![t] = us]
              /\ taskResult' = [taskResult EXCEPT ![t] =
                                   [taskResult[t] EXCEPT !.Stage2UnitNum = @ + n]]
    BY <1>6, StatementTypes
  <2>2. /\ kind'[t] = k /\ original'[t] = o /\ units'[t] = us
        /\ taskResult'[t] = [taskResult[t] EXCEPT !.Stage2UnitNum = @ + n]
    BY <2>1 DEF RunTypes
  <2>3. /\ taskResult'[t].Stage2UnitErrNum = taskResult[t].Stage2UnitErrNum
        /\ taskResult'[t].Stage2UnitNum = taskResult[t].Stage2UnitNum + n
    BY <1>2, <2>2 DEF TaskResult
  <2>4. pc'[t] = "unit" /\ pc[t] = "statement"
    BY <1>6 DEF MutateStatement, HasStatement, Goto, RunTypes
  <2>5. Len(units[t]) = 0
    BY <2>4 DEF AtLabel, Dealing
  <2>6. UnitsOf(kind[t])' = UnitsOf(k)
    BY <1>1, <2>2 DEF UnitsOf
  <2> QED
    BY <1>1, <1>2, <2>1, <2>2, <2>3, <2>4, <2>5, <2>6 DEF AtLabel, Dealing
<1>7. CASE EndStatement(t)
  <2>1. /\ pc'[t] = "statement" /\ units'[t] = <<>> /\ taskResult'[t] = taskResult[t]
        /\ units[t] = <<>>
    BY <1>7 DEF EndStatement, Goto, RunTypes, local
  <2> QED
    BY <1>2, <2>1 DEF AtLabel, Dealing
<1>8. ASSUME pc[t] \in Dealing, units[t] # <<>>, pc'[t] = "unit", units'[t] = Tail(units[t]),
             kind'[t] = kind[t], original'[t] = original[t],
             taskResult'[t].Stage2UnitNum = taskResult[t].Stage2UnitNum,
             \/ taskResult'[t].Stage2UnitErrNum = taskResult[t].Stage2UnitErrNum
             \/ taskResult'[t].Stage2UnitErrNum = taskResult[t].Stage2UnitErrNum + 1
      PROVE  AtLabel(t)'
  <2>1. /\ Len(Tail(units[t])) = Len(units[t]) - 1
        /\ \A k \in DOMAIN Tail(units[t]) :
              k + 1 \in DOMAIN units[t] /\ Tail(units[t])[k] = units[t][k + 1]
    BY <1>8, UnitTypes
  <2>2. UnitsOf(kind[t])' = UnitsOf(kind[t])
    BY <1>1, <1>8 DEF UnitsOf
  <2>3. \A k \in DOMAIN Tail(units[t]) : Tail(units[t])[k] \in UnitsOf(kind[t])
    BY <1>8, <2>1 DEF AtLabel
  <2>4. Len(Tail(units[t])) + taskResult'[t].Stage2UnitErrNum <= taskResult'[t].Stage2UnitNum
    BY <1>2, <1>8, <2>1 DEF AtLabel
  <2> QED
    BY <1>1, <1>8, <2>2, <2>3, <2>4 DEF AtLabel, Dealing
<1>9. CASE UnitError(t)
  <2>1. /\ pc[t] \in Dealing /\ units[t] # <<>> /\ pc'[t] = "unit" /\ units'[t] = Tail(units[t])
        /\ kind'[t] = kind[t] /\ original'[t] = original[t]
        /\ taskResult'[t] = [taskResult[t] EXCEPT !.Stage2UnitErrNum = @ + 1]
    BY <1>9 DEF UnitError, AtUnit, NextUnit, Goto, Count, RunTypes, Dealing
  <2>2. /\ taskResult'[t].Stage2UnitErrNum = taskResult[t].Stage2UnitErrNum + 1
        /\ taskResult'[t].Stage2UnitNum = taskResult[t].Stage2UnitNum
    BY <1>2, <2>1 DEF TaskResult
  <2> QED
    BY <1>8, <2>1, <2>2
<1>10. CASE UnitExecError(t)
  <2>1. /\ pc[t] = "unit" /\ units[t] # <<>> /\ ~unit(t).err /\ unit(t).exec.err
        /\ kind'[t] = kind[t] /\ original'[t] = original[t]
        /\ taskResult'[t] = [taskResult[t] EXCEPT !.Stage2UnitExecErrNum = @ + 1]
    BY <1>10 DEF UnitExecError, AtUnit, Count, RunTypes
  <2>2. /\ taskResult'[t].Stage2UnitErrNum = taskResult[t].Stage2UnitErrNum
        /\ taskResult'[t].Stage2UnitNum = taskResult[t].Stage2UnitNum
    BY <1>2, <2>1 DEF TaskResult
  <2>3. CASE Goto(t, "reexec") /\ UNCHANGED units
    <3>1. pc'[t] = "reexec" /\ units'[t] = units[t] /\ unit(t)' = unit(t)
      BY <2>3 DEF Goto, RunTypes, unit
    <3>2. UnitsOf(kind[t])' = UnitsOf(kind[t])
      BY <1>1, <2>1 DEF UnitsOf
    <3> QED
      BY <1>1, <2>1, <2>2, <3>1, <3>2 DEF AtLabel, Dealing
  <2>4. CASE NextUnit(t)
    <3>1. pc'[t] = "unit" /\ units'[t] = Tail(units[t])
      BY <2>4 DEF NextUnit, Goto, RunTypes
    <3> QED
      BY <1>8, <2>1, <2>2, <3>1 DEF Dealing
  <2> QED
    BY <1>10, <2>3, <2>4 DEF UnitExecError
<1>11. CASE ReExecute(t)
  <2>1. /\ pc[t] \in Dealing /\ units[t] # <<>> /\ pc'[t] = "unit" /\ units'[t] = Tail(units[t])
        /\ kind'[t] = kind[t] /\ original'[t] = original[t]
    BY <1>11 DEF ReExecute, AtLabel, NextUnit, Goto, RunTypes, Dealing
  <2>2. /\ taskResult'[t].Stage2UnitErrNum = taskResult[t].Stage2UnitErrNum
        /\ taskResult'[t].Stage2UnitNum = taskResult[t].Stage2UnitNum
    BY <1>2, <1>11, SavedCounters DEF ReExecute
  <2> QED
    BY <1>8, <2>1, <2>2
<1>12. CASE CheckUnit(t)
  <2>1. /\ pc[t] = "unit" /\ units[t] # <<>> /\ ~unit(t).err /\ ~unit(t).exec.err
        /\ kind'[t] = kind[t] /\ original'[t] = original[t] /\ taskResult'[t] = taskResult[t]
        /\ pc'[t] = "checked" /\ units'[t] = units[t] /\ unit(t)' = unit(t)
        /\ check'[t] = TaskCheck(original[t], unit(t).exec, unit(t).isUpper, AggregateMode)
    BY <1>12 DEF CheckUnit, AtUnit, Goto, RunTypes, unit
  <2>2. UnitsOf(kind[t])' = UnitsOf(kind[t])
    BY <1>1, <2>1 DEF UnitsOf
  <2> QED
    BY <1>1, <2>1, <2>2 DEF AtLabel, Dealing
<1>13. CASE NoBug(t)
  <2>1. /\ pc[t] \in Dealing /\ units[t] # <<>> /\ pc'[t] = "unit" /\ units'[t] = Tail(units[t])
        /\ kind'[t] = kind[t] /\ original'[t] = original[t] /\ taskResult'[t] = taskResult[t]
    BY <1>13 DEF NoBug, AtLabel, NextUnit, Goto, RunTypes, Dealing
  <2> QED
    BY <1>8, <2>1
<1>14. CASE LogicalBug(t)
  <2>1. /\ pc[t] = "checked" /\ pc'[t] = "analyse" /\ units'[t] = units[t] /\ unit(t)' = unit(t)
        /\ kind'[t] = kind[t] /\ original'[t] = original[t] /\ check'[t] = check[t] /\ ~check[t]
        /\ taskResult'[t] = [taskResult[t] EXCEPT !.ImpoBugsNum = @ + 1]
    BY <1>14 DEF LogicalBug, Goto, Count, RunTypes, local, unit
  <2>2. /\ taskResult'[t].Stage2UnitErrNum = taskResult[t].Stage2UnitErrNum
        /\ taskResult'[t].Stage2UnitNum = taskResult[t].Stage2UnitNum
    BY <1>2, <2>1 DEF TaskResult
  <2>3. UnitsOf(kind[t])' = UnitsOf(kind[t])
    BY <1>1, <2>1 DEF UnitsOf
  <2> QED
    BY <1>1, <2>1, <2>2, <2>3 DEF AtLabel, Dealing
<1>15. CASE AnalyseAndSave(t)
  <2>1. /\ pc[t] \in Dealing /\ units[t] # <<>> /\ pc'[t] = "unit" /\ units'[t] = Tail(units[t])
        /\ kind'[t] = kind[t] /\ original'[t] = original[t]
    BY <1>15 DEF AnalyseAndSave, AtLabel, NextUnit, Goto, RunTypes, Dealing
  <2>2. /\ taskResult'[t].Stage2UnitErrNum = taskResult[t].Stage2UnitErrNum
        /\ taskResult'[t].Stage2UnitNum = taskResult[t].Stage2UnitNum
    BY <1>2, <1>15, SavedCounters DEF AnalyseAndSave
  <2> QED
    BY <1>8, <2>1, <2>2
<1>16. CASE FinishTask(t)
  <2>1. pc[t] = "statement" /\ pc'[t] = "done" /\ units'[t] = units[t] /\ taskResult'[t] = taskResult[t]
    BY <1>16 DEF FinishTask, Goto, RunTypes, local
  <2> QED
    BY <1>2, <2>1 DEF AtLabel, Dealing
<1> QED
  BY <1>3, <1>4, <1>5, <1>6, <1>7, <1>9, <1>10, <1>11, <1>12, <1>13, <1>14, <1>15, <1>16
     DEF TaskStep

-----------------------------------------------------------------------------
(* The reports in a task's directory.                                      *)

\* Most steps have nothing to do with reports.
LEMMA QuietSteps ==
    ASSUME RunTypes, NEW t \in Tasks, TaskStep(t),
           ~StartTask(t), ~ReExecute(t), ~LogicalBug(t), ~AnalyseAndSave(t)
    PROVE  /\ bugs'[t] = bugs[t]
           /\ taskResult'[t].ImpoBugsNum = taskResult[t].ImpoBugsNum
           /\ taskResult'[t].SaveBugErrNum = taskResult[t].SaveBugErrNum
           /\ taskResult'[t].ErrorOracleBugsNum = taskResult[t].ErrorOracleBugsNum
           /\ taskResult'[t].FalsePositiveDetails = taskResult[t].FalsePositiveDetails
           /\ pc[t] \notin {"start", "analyse"} /\ pc'[t] \notin {"start", "analyse"}
<1> DEFINE Same(r) == /\ r.ImpoBugsNum = taskResult[t].ImpoBugsNum
                      /\ r.SaveBugErrNum = taskResult[t].SaveBugErrNum
                      /\ r.ErrorOracleBugsNum = taskResult[t].ErrorOracleBugsNum
                      /\ r.FalsePositiveDetails = taskResult[t].FalsePositiveDetails
<1>1. taskResult[t] \in TaskResult /\ taskResult \in [Tasks -> TaskResult] /\ pc \in [Tasks -> Pcs]
  BY DEF RunTypes
<1>2. CASE SetUpDatabase(t)
  <2>1. bugs' = bugs /\ taskResult' = taskResult /\ pc[t] = "setup"
    BY <1>2 DEF SetUpDatabase
  <2>2. pc'[t] \in {"statement", "failed"}
    BY <1>1, <1>2 DEF SetUpDatabase, Failed, InitMysql, InitPostgreSQL, InitGaussDB, ExecDDL,
                      LoadDefaultTestData, Ready, Goto
  <2> QED
    BY <2>1, <2>2
<1>3. CASE SkipStatement(t)
  <2>1. PICK counter \in SkipCounters :
           taskResult' = [taskResult EXCEPT ![t] = [taskResult[t] EXCEPT ![counter] = @ + 1]]
    BY <1>3 DEF SkipStatement, Count
  <2>2. counter \in {"Stage1ErrNum", "Stage1ExecErrNum", "Stage2ErrNum", "Stage1SkippedNum"}
    BY DEF SkipCounters
  <2>3. taskResult'[t] = [taskResult[t] EXCEPT ![counter] = @ + 1]
    BY <1>1, <2>1
  <2>4. Same(taskResult'[t])
    BY <1>1, <2>2, <2>3 DEF TaskResult
  <2> QED
    BY <1>3, <2>4 DEF SkipStatement, HasStatement
<1>4. CASE MutateStatement(t)
  <2>1. PICK n \in Nat : taskResult' = [taskResult EXCEPT ![t] =
                             [taskResult[t] EXCEPT !.Stage2UnitNum = @ + n]]
    BY <1>4, StatementTypes
  <2>2. taskResult'[t] = [taskResult[t] EXCEPT !.Stage2UnitNum = @ + n]
    BY <1>1, <2>1
  <2>3. Same(taskResult'[t])
    BY <1>1, <2>2 DEF TaskResult
  <2> QED
    BY <1>1, <1>4, <2>3 DEF MutateStatement, HasStatement, Goto
<1>5. CASE EndStatement(t)
  BY <1>1, <1>5 DEF EndStatement, Goto
<1>6. CASE UnitError(t)
  <2>1. taskResult'[t] = [taskResult[t] EXCEPT !.Stage2UnitErrNum = @ + 1]
    BY <1>1, <1>6 DEF UnitError, Count
  <2>2. Same(taskResult'[t])
    BY <1>1, <2>1 DEF TaskResult
  <2> QED
    BY <1>1, <1>6, <2>2 DEF UnitError, AtUnit, NextUnit, Goto
<1>7. CASE UnitExecError(t)
  <2>1. taskResult'[t] = [taskResult[t] EXCEPT !.Stage2UnitExecErrNum = @ + 1]
    BY <1>1, <1>7 DEF UnitExecError, Count
  <2>2. Same(taskResult'[t])
    BY <1>1, <2>1 DEF TaskResult
  <2> QED
    BY <1>1, <1>7, <2>2 DEF UnitExecError, AtUnit, NextUnit, Goto
<1>8. CASE CheckUnit(t)
  BY <1>1, <1>8 DEF CheckUnit, AtUnit, Goto
<1>9. CASE NoBug(t)
  BY <1>1, <1>9 DEF NoBug, NextUnit, Goto
<1>10. CASE FinishTask(t)
  BY <1>1, <1>10 DEF FinishTask, Goto, local
<1> QED
  BY <1>2, <1>3, <1>4, <1>5, <1>6, <1>7, <1>8, <1>9, <1>10 DEF TaskStep

\* What the other steps do to the reports and to the bugs counted.
LEMMA StartedTask ==
    ASSUME RunTypes, NEW t \in Tasks, AtLabel(t), StartTask(t)
    PROVE  /\ config.removable => bugs'[t] = {} /\ resultFile'[t] = {}
           /\ pc'[t] \in {"setup", "failed"}
           /\ taskResult'[t] = NewTaskResult
           /\ pc'[t] # "failed" => conn'[t] = IF config.publicConn THEN "public" ELSE "own"
<1>1. config.removable => bugs'[t] = {} /\ resultFile'[t] = {}
  BY DEF StartTask, NewDirectory, RunTypes
<1> QED
  BY <1>1 DEF StartTask, AtLabel, RunTypes, Goto

\* An error that comes again is counted, recorded, and reported if it can be saved.
LEMMA ErrorReported ==
    ASSUME RunTypes, NEW t \in Tasks, AtLabel(t), ReExecute(t)
    PROVE  /\ pc[t] = "reexec" /\ pc'[t] = "unit"
           /\ taskResult'[t].FalsePositiveDetails = taskResult[t].FalsePositiveDetails
           /\ \/ /\ taskResult'[t] = taskResult[t] /\ bugs'[t] = bugs[t] /\ stats' = stats
              \/ /\ taskResult'[t].ImpoBugsNum = taskResult[t].ImpoBugsNum + 1
                 /\ taskResult'[t].ErrorOracleBugsNum = taskResult[t].ErrorOracleBugsNum + 1
                 /\ RecordResult(unit(t).name, TRUE, TRUE)
                 /\ \/ /\ bugs'[t] = bugs[t] \cup {Report(t, taskResult[t].ImpoBugsNum, TRUE)}
                       /\ taskResult'[t].SaveBugErrNum = taskResult[t].SaveBugErrNum
                    \/ /\ bugs'[t] = bugs[t]
                       /\ taskResult'[t].SaveBugErrNum = taskResult[t].SaveBugErrNum + 1
<1>1. /\ taskResult[t] \in TaskResult /\ taskResult \in [Tasks -> TaskResult] /\ pc \in [Tasks -> Pcs]
      /\ taskResult[t].ImpoBugsNum \in Int /\ units[t] # <<>>
  BY DEF RunTypes, TaskResult, AtLabel, Dealing, ReExecute
<1>2. pc[t] = "reexec" /\ pc'[t] = "unit"
  BY <1>1 DEF ReExecute, NextUnit, Goto
<1> DEFINE r == [taskResult[t] EXCEPT !.ImpoBugsNum = @ + 1, !.ErrorOracleBugsNum = @ + 1]
<1>3. /\ r \in TaskResult
      /\ r.ImpoBugsNum = taskResult[t].ImpoBugsNum + 1
      /\ r.ErrorOracleBugsNum = taskResult[t].ErrorOracleBugsNum + 1
      /\ r.SaveBugErrNum = taskResult[t].SaveBugErrNum
      /\ r.FalsePositiveDetails = taskResult[t].FalsePositiveDetails
  BY <1>1, CounterTypes DEF TaskResult
<1> HIDE DEF r
<1>4. \/ /\ RecordResult(unit(t).name, TRUE, TRUE)
         /\ SaveBugReport(t, Report(t, taskResult[t].ImpoBugsNum, TRUE), r)
      \/ UNCHANGED <<taskResult, bugs, stats>>
  BY DEF ReExecute, r
<1> DEFINE report == Report(t, taskResult[t].ImpoBugsNum, TRUE)
<1>5. report \in BugReport
  BY <1>1, ReportTypes
<1> HIDE DEF report
<1>6. SaveBugReport(t, report, r) =>
         \/ bugs'[t] = bugs[t] \cup {report} /\ taskResult'[t] = r
         \/ bugs'[t] = bugs[t] /\ taskResult'[t] = [r EXCEPT !.SaveBugErrNum = @ + 1]
  BY <1>3, <1>5, SaveTypes
<1>7. LET q == [r EXCEPT !.SaveBugErrNum = @ + 1]
      IN  /\ q.ImpoBugsNum = r.ImpoBugsNum /\ q.ErrorOracleBugsNum = r.ErrorOracleBugsNum
          /\ q.FalsePositiveDetails = r.FalsePositiveDetails
          /\ q.SaveBugErrNum = r.SaveBugErrNum + 1
  BY <1>3 DEF TaskResult
<1> QED
  BY <1>2, <1>3, <1>4, <1>6, <1>7 DEF report

\* The analysis ends with a report under the last number, or a failure counted.
LEMMA BugAnalysed ==
    ASSUME RunTypes, NEW t \in Tasks, AtLabel(t), AnalyseAndSave(t)
    PROVE  /\ pc[t] = "analyse" /\ pc'[t] = "unit"
           /\ taskResult'[t].ImpoBugsNum = taskResult[t].ImpoBugsNum
           /\ taskResult'[t].ErrorOracleBugsNum = taskResult[t].ErrorOracleBugsNum
           /\ \/ /\ bugs'[t] = bugs[t] \cup {Report(t, taskResult[t].ImpoBugsNum - 1, FALSE)}
                 /\ taskResult'[t].SaveBugErrNum = taskResult[t].SaveBugErrNum
              \/ /\ bugs'[t] = bugs[t]
                 /\ taskResult'[t].SaveBugErrNum = taskResult[t].SaveBugErrNum + 1
           /\ \/ taskResult'[t].FalsePositiveDetails = taskResult[t].FalsePositiveDetails
              \/ taskResult'[t].FalsePositiveDetails =
                    Append(taskResult[t].FalsePositiveDetails,
                           [bugId |-> taskResult[t].ImpoBugsNum - 1, sqlId |-> sqlId[t],
                            name |-> unit(t).name])
<1>1. /\ taskResult[t] \in TaskResult /\ taskResult \in [Tasks -> TaskResult] /\ pc \in [Tasks -> Pcs]
      /\ taskResult[t].ImpoBugsNum - 1 \in Int /\ units[t] # <<>>
  <2>1. pc[t] = "analyse"
    BY DEF AnalyseAndSave
  <2>2. units[t] # <<>>
    BY <2>1 DEF AtLabel, Dealing
  <2> QED
    BY <2>2 DEF RunTypes, TaskResult
<1>2. pc[t] = "analyse" /\ pc'[t] = "unit"
  BY <1>1 DEF AnalyseAndSave, NextUnit, Goto
<1>3. PICK d \in Seq(FalsePositive) :
         /\ \/ d = taskResult[t].FalsePositiveDetails
            \/ d = Append(taskResult[t].FalsePositiveDetails,
                          [bugId |-> taskResult[t].ImpoBugsNum - 1, sqlId |-> sqlId[t],
                           name |-> unit(t).name])
         /\ [taskResult[t] EXCEPT !.FalsePositiveDetails = d] \in TaskResult
         /\ SaveBugReport(t, Report(t, taskResult[t].ImpoBugsNum - 1, FALSE),
                          [taskResult[t] EXCEPT !.FalsePositiveDetails = d])
  BY AnalyseFacts
<1> DEFINE r == [taskResult[t] EXCEPT !.FalsePositiveDetails = d]
<1>4. /\ r \in TaskResult
      /\ r.ImpoBugsNum = taskResult[t].ImpoBugsNum
      /\ r.ErrorOracleBugsNum = taskResult[t].ErrorOracleBugsNum
      /\ r.SaveBugErrNum = taskResult[t].SaveBugErrNum
      /\ r.FalsePositiveDetails = d
  BY <1>1, <1>3 DEF TaskResult
<1> HIDE DEF r
<1>5. \/ /\ bugs'[t] = bugs[t] \cup {Report(t, taskResult[t].ImpoBugsNum - 1, FALSE)}
         /\ taskResult'[t] = r
      \/ bugs'[t] = bugs[t] /\ taskResult'[t] = [r EXCEPT !.SaveBugErrNum = @ + 1]
  <2>1. SaveBugReport(t, Report(t, taskResult[t].ImpoBugsNum - 1, FALSE), r)
    BY <1>3 DEF r
  <2>2. Report(t, taskResult[t].ImpoBugsNum - 1, FALSE) \in BugReport
    BY <1>1, ReportTypes
  <2> QED
    BY <1>4, <2>1, <2>2, SaveTypes, ZenonT(60)
<1>6. LET q == [r EXCEPT !.SaveBugErrNum = @ + 1]
      IN  /\ q.ImpoBugsNum = r.ImpoBugsNum /\ q.ErrorOracleBugsNum = r.ErrorOracleBugsNum
          /\ q.FalsePositiveDetails = r.FalsePositiveDetails
          /\ q.SaveBugErrNum = r.SaveBugErrNum + 1
  BY <1>4 DEF TaskResult
<1> QED
  BY <1>2, <1>3, <1>4, <1>5, <1>6

\* A logical bug is counted and recorded before it is analysed.
LEMMA BugCounted ==
    ASSUME RunTypes, NEW t \in Tasks, LogicalBug(t)
    PROVE  /\ pc[t] = "checked" /\ pc'[t] = "analyse" /\ bugs'[t] = bugs[t] /\ ~check[t]
           /\ taskResult'[t].ImpoBugsNum = taskResult[t].ImpoBugsNum + 1
           /\ taskResult'[t].SaveBugErrNum = taskResult[t].SaveBugErrNum
           /\ taskResult'[t].ErrorOracleBugsNum = taskResult[t].ErrorOracleBugsNum
           /\ taskResult'[t].Stage2UnitErrNum = taskResult[t].Stage2UnitErrNum
           /\ taskResult'[t].Stage2UnitNum = taskResult[t].Stage2UnitNum
           /\ taskResult'[t].Stage2UnitExecErrNum = taskResult[t].Stage2UnitExecErrNum
           /\ taskResult'[t].FalsePositiveDetails = taskResult[t].FalsePositiveDetails
<1>1. /\ taskResult[t] \in TaskResult /\ taskResult \in [Tasks -> TaskResult] /\ pc \in [Tasks -> Pcs]
  BY DEF RunTypes
<1>2. /\ pc[t] = "checked" /\ pc'[t] = "analyse" /\ bugs'[t] = bugs[t] /\ ~check[t]
      /\ taskResult'[t] = [taskResult[t] EXCEPT !.ImpoBugsNum = @ + 1]
  BY <1>1 DEF LogicalBug, Goto, Count
<1> QED
  BY <1>1, <1>2 DEF TaskResult

\* A report more has a number of its own.
LEMMA NumberedNext ==
    ASSUME RunTypes, NEW t \in Tasks, AtLabel(t), Numbered(t), TaskStep(t)
    PROVE  Numbered(t)'
<1>0. config' = config
  BY ConfigKept
<1> SUFFICES ASSUME config.removable PROVE Numbered(t)'
  BY <1>0 DEF Numbered, Fresh
<1> USE <1>0 DEF Fresh
<1>1. /\ taskResult[t].ImpoBugsNum \in Nat /\ taskResult[t].SaveBugErrNum \in Nat
      /\ \A r \in bugs[t] : r.bugId \in Int
  BY DEF RunTypes, TaskResult, BugReport
<1>2. IsFiniteSet(bugs[t]) => Cardinality(bugs[t]) \in Nat
  BY FS_CardinalityType
<1>3. CASE StartTask(t)
  <2>1. /\ bugs'[t] = {} /\ pc'[t] \in {"setup", "failed"}
        /\ taskResult'[t].ImpoBugsNum = 0 /\ taskResult'[t].SaveBugErrNum = 0
    BY <1>3, StartedTask DEF NewTaskResult
  <2>2. IsFiniteSet({}) /\ Cardinality({}) = 0
    BY FS_EmptySet
  <2> QED
    BY <2>1, <2>2 DEF Numbered, One
<1>4. CASE ReExecute(t)
  <2> DEFINE id == taskResult[t].ImpoBugsNum
             report == Report(t, id, TRUE)
  <2>1. /\ pc[t] = "reexec" /\ pc'[t] = "unit"
        /\ \/ taskResult'[t] = taskResult[t] /\ bugs'[t] = bugs[t]
           \/ /\ taskResult'[t].ImpoBugsNum = id + 1
              /\ \/ /\ bugs'[t] = bugs[t] \cup {report}
                    /\ taskResult'[t].SaveBugErrNum = taskResult[t].SaveBugErrNum
                 \/ /\ bugs'[t] = bugs[t]
                    /\ taskResult'[t].SaveBugErrNum = taskResult[t].SaveBugErrNum + 1
    BY <1>4, ErrorReported
  <2>2. report.bugId = id
    BY DEF Report
  <2> HIDE DEF report
  <2>3. report \notin bugs[t]
    BY <1>1, <2>1, <2>2 DEF Numbered
  <2>4. /\ IsFiniteSet(bugs[t] \cup {report})
        /\ Cardinality(bugs[t] \cup {report}) = Cardinality(bugs[t]) + 1
    <3>1. IsFiniteSet(bugs[t])
      BY <2>1 DEF Numbered
    <3> QED
      BY <2>3, <3>1, FS_AddElement
  <2>5. CASE bugs'[t] = bugs[t] \cup {report}
    <3>1. /\ taskResult'[t].ImpoBugsNum = id + 1
          /\ taskResult'[t].SaveBugErrNum = taskResult[t].SaveBugErrNum
      BY <2>1, <2>3, <2>5
    <3>2. \A r, q \in bugs'[t] : r.bugId = q.bugId => r = q
      BY <1>1, <2>1, <2>2, <2>5 DEF Numbered
    <3>3. \A r \in bugs'[t] : r.bugId \in 0 .. taskResult'[t].ImpoBugsNum - 1
      BY <1>1, <2>1, <2>2, <2>5, <3>1 DEF Numbered
    <3>4. Cardinality(bugs'[t]) + taskResult'[t].SaveBugErrNum = taskResult'[t].ImpoBugsNum
      BY <1>1, <1>2, <2>1, <2>4, <2>5, <3>1 DEF Numbered, One
    <3> QED
      BY <1>1, <1>2, <2>1, <2>4, <2>5, <3>1, <3>2, <3>3, <3>4 DEF Numbered, One
  <2>6. CASE bugs'[t] = bugs[t]
    BY <1>1, <1>2, <2>1, <2>3, <2>6 DEF Numbered, One
  <2> QED
    BY <2>1, <2>5, <2>6
<1>5. CASE LogicalBug(t)
  <2>1. /\ pc[t] = "checked" /\ pc'[t] = "analyse" /\ bugs'[t] = bugs[t]
        /\ taskResult'[t].ImpoBugsNum = taskResult[t].ImpoBugsNum + 1
        /\ taskResult'[t].SaveBugErrNum = taskResult[t].SaveBugErrNum
    BY <1>5, BugCounted
  <2> QED
    BY <1>1, <1>2, <2>1 DEF Numbered, One
<1>6. CASE AnalyseAndSave(t)
  <2> DEFINE id == taskResult[t].ImpoBugsNum - 1
             report == Report(t, id, FALSE)
  <2>1. /\ pc[t] = "analyse" /\ pc'[t] = "unit"
        /\ taskResult'[t].ImpoBugsNum = taskResult[t].ImpoBugsNum
        /\ \/ /\ bugs'[t] = bugs[t] \cup {report}
              /\ taskResult'[t].SaveBugErrNum = taskResult[t].SaveBugErrNum
           \/ /\ bugs'[t] = bugs[t]
              /\ taskResult'[t].SaveBugErrNum = taskResult[t].SaveBugErrNum + 1
    BY <1>6, BugAnalysed
  <2>2. report.bugId = id
    <3>1. units[t] # <<>> /\ id \in Int
      BY <1>1, <2>1 DEF AtLabel, Dealing
    <3> QED
      BY <3>1, ReportTypes
  <2> HIDE DEF report
  <2>3. report \notin bugs[t]
    BY <1>1, <2>1, <2>2 DEF Numbered
  <2>4. /\ IsFiniteSet(bugs[t] \cup {report})
        /\ Cardinality(bugs[t] \cup {report}) = Cardinality(bugs[t]) + 1
    <3>1. IsFiniteSet(bugs[t])
      BY <2>1 DEF Numbered
    <3> QED
      BY <2>3, <3>1, FS_AddElement
  <2>5. CASE bugs'[t] = bugs[t] \cup {report}
    <3>1. taskResult'[t].SaveBugErrNum = taskResult[t].SaveBugErrNum
      BY <2>1, <2>3, <2>5
    <3>2. \A r, q \in bugs'[t] : r.bugId = q.bugId => r = q
      BY <1>1, <2>1, <2>2, <2>5 DEF Numbered
    <3>3. \A r \in bugs'[t] : r.bugId \in 0 .. taskResult'[t].ImpoBugsNum - 1
      BY <1>1, <2>1, <2>2, <2>5 DEF Numbered
    <3>4. Cardinality(bugs'[t]) + taskResult'[t].SaveBugErrNum = taskResult'[t].ImpoBugsNum
      BY <1>1, <1>2, <2>1, <2>4, <2>5, <3>1 DEF Numbered, One
    <3> QED
      BY <1>1, <1>2, <2>1, <2>4, <2>5, <3>1, <3>2, <3>3, <3>4 DEF Numbered, One
  <2>6. CASE bugs'[t] = bugs[t]
    BY <1>1, <1>2, <2>1, <2>3, <2>6 DEF Numbered, One
  <2> QED
    BY <2>1, <2>5, <2>6
<1>7. CASE ~StartTask(t) /\ ~ReExecute(t) /\ ~LogicalBug(t) /\ ~AnalyseAndSave(t)
  <2>1. /\ bugs'[t] = bugs[t]
        /\ taskResult'[t].ImpoBugsNum = taskResult[t].ImpoBugsNum
        /\ taskResult'[t].SaveBugErrNum = taskResult[t].SaveBugErrNum
        /\ pc[t] \notin {"start", "analyse"} /\ pc'[t] \notin {"start", "analyse"}
    BY <1>7, QuietSteps
  <2> QED
    BY <2>1 DEF Numbered, One
<1> QED
  BY <1>3, <1>4, <1>5, <1>6, <1>7

\* The elements of a list with one more.
LEMMA AppendElements ==
    ASSUME NEW S, NEW s \in Seq(S), NEW e \in S
    PROVE  \A k \in DOMAIN Append(s, e) :
              (k \in DOMAIN s /\ Append(s, e)[k] = s[k]) \/ Append(s, e)[k] = e
<1>1. /\ Len(s) \in Nat /\ DOMAIN s = 1 .. Len(s)
      /\ DOMAIN Append(s, e) = 1 .. Len(s) + 1
      /\ \A i \in 1 .. Len(s) + 1 : Append(s, e)[i] = IF i <= Len(s) THEN s[i] ELSE e
  OBVIOUS
<1> QED
  BY <1>1

\* A record stays right: no report takes the number of an analysed bug.
LEMMA SuspectedNext ==
    ASSUME RunTypes, NEW t \in Tasks, AtLabel(t), Numbered(t), Suspected(t), TaskStep(t)
    PROVE  Suspected(t)'
<1>0. config' = config
  BY ConfigKept
<1> USE <1>0 DEF Fresh
<1>1. /\ taskResult[t].ImpoBugsNum \in Nat
      /\ \A r \in bugs[t] : r.bugId \in Int
      /\ taskResult[t].FalsePositiveDetails \in Seq(FalsePositive)
      /\ \A k \in DOMAIN taskResult[t].FalsePositiveDetails :
            taskResult[t].FalsePositiveDetails[k].bugId \in Int
  <2>1. /\ taskResult[t].ImpoBugsNum \in Nat
        /\ \A r \in bugs[t] : r.bugId \in Int
        /\ taskResult[t].FalsePositiveDetails \in Seq(FalsePositive)
    BY DEF RunTypes, TaskResult, BugReport
  <2>2. \A k \in DOMAIN taskResult[t].FalsePositiveDetails :
            taskResult[t].FalsePositiveDetails[k] \in FalsePositive
    BY <2>1
  <2> QED
    BY <2>1, <2>2 DEF FalsePositive
<1>2. CASE StartTask(t)
  <2>1. taskResult'[t].FalsePositiveDetails = <<>>
    BY <1>2, StartedTask DEF NewTaskResult
  <2> QED
    BY <2>1 DEF Suspected
<1>3. CASE ReExecute(t)
  <2> DEFINE id == taskResult[t].ImpoBugsNum
             report == Report(t, id, TRUE)
  <2>1. /\ pc[t] = "reexec" /\ pc'[t] = "unit"
        /\ taskResult'[t].FalsePositiveDetails = taskResult[t].FalsePositiveDetails
        /\ taskResult'[t].ImpoBugsNum \in {id, id + 1}
        /\ bugs'[t] = bugs[t] \/ bugs'[t] = bugs[t] \cup {report}
    BY <1>3, ErrorReported
  <2>2. report.bugId = id
    BY DEF Report
  <2> HIDE DEF report
  <2> QED
    BY <1>1, <2>1, <2>2 DEF Suspected, One
<1>4. CASE LogicalBug(t)
  <2>1. /\ pc[t] = "checked" /\ pc'[t] = "analyse" /\ bugs'[t] = bugs[t]
        /\ taskResult'[t].ImpoBugsNum = taskResult[t].ImpoBugsNum + 1
        /\ taskResult'[t].FalsePositiveDetails = taskResult[t].FalsePositiveDetails
    BY <1>4, BugCounted
  <2> QED
    BY <1>1, <2>1 DEF Suspected, One
<1>5. CASE AnalyseAndSave(t)
  <2> DEFINE id == taskResult[t].ImpoBugsNum - 1
             report == Report(t, id, FALSE)
             record == [bugId |-> id, sqlId |-> sqlId[t], name |-> unit(t).name]
             old == taskResult[t].FalsePositiveDetails
  <2>1. /\ pc[t] = "analyse" /\ pc'[t] = "unit"
        /\ taskResult'[t].ImpoBugsNum = taskResult[t].ImpoBugsNum
        /\ bugs'[t] = bugs[t] \/ bugs'[t] = bugs[t] \cup {report}
        /\ \/ taskResult'[t].FalsePositiveDetails = old
           \/ taskResult'[t].FalsePositiveDetails = Append(old, record)
    BY <1>5, BugAnalysed
  <2>2. units[t] # <<>> /\ id \in Int
    BY <1>1, <2>1 DEF AtLabel, Dealing
  <2>3. /\ report.bugId = id /\ ~report.isErrorOracle
        /\ report.sqlId = record.sqlId /\ report.name = record.name
        /\ record \in FalsePositive /\ record.bugId = id
    BY <2>2, ReportTypes
  <2>4. /\ \A r \in bugs'[t] : r \in bugs[t] \/ r = report
        /\ config.removable => \A r \in bugs[t] : r.bugId # id
        /\ \A k \in DOMAIN old :
              /\ old[k].bugId < id
              /\ \A r \in bugs[t] : config.removable /\ r.bugId = old[k].bugId =>
                    ~r.isErrorOracle /\ r.sqlId = old[k].sqlId /\ r.name = old[k].name
    BY <1>1, <2>1 DEF Numbered, Suspected, One
  <2>5. \A k \in DOMAIN taskResult'[t].FalsePositiveDetails :
           \/ k \in DOMAIN old /\ taskResult'[t].FalsePositiveDetails[k] = old[k]
           \/ taskResult'[t].FalsePositiveDetails[k] = record
    <3>1. old \in Seq(FalsePositive)
      BY <1>1
    <3> HIDE DEF old, record
    <3>2. \A k \in DOMAIN Append(old, record) :
             \/ k \in DOMAIN old /\ Append(old, record)[k] = old[k]
             \/ Append(old, record)[k] = record
      BY <2>3, <3>1, AppendElements
    <3> QED
      BY <2>1, <3>2
  <2> HIDE DEF report, record, old
  <2>6. \A k \in DOMAIN old : old[k].bugId \in Int
    BY <1>1 DEF old
  <2>7. id < taskResult'[t].ImpoBugsNum /\ taskResult'[t].ImpoBugsNum \in Int
    BY <1>1, <2>1
  <2>8. ASSUME NEW k \in DOMAIN taskResult'[t].FalsePositiveDetails
        PROVE  LET q == taskResult'[t].FalsePositiveDetails[k]
               IN  /\ q.bugId < taskResult'[t].ImpoBugsNum
                   /\ \A r \in bugs'[t] : config.removable /\ r.bugId = q.bugId =>
                         ~r.isErrorOracle /\ r.sqlId = q.sqlId /\ r.name = q.name
    <3> DEFINE q == taskResult'[t].FalsePositiveDetails[k]
    <3>1. CASE k \in DOMAIN old /\ q = old[k]
      <4>1. q.bugId \in Int /\ q.bugId < id
        BY <2>4, <2>6, <3>1
      <4>2. q.bugId < taskResult'[t].ImpoBugsNum
        BY <2>2, <2>7, <4>1
      <4>3. \A r \in bugs'[t] : config.removable /\ r.bugId = q.bugId => r \in bugs[t]
        BY <2>2, <2>3, <2>4, <4>1
      <4> QED
        BY <2>4, <3>1, <4>2, <4>3
    <3>2. CASE q = record
      BY <2>3, <2>4, <2>7, <3>2
    <3> QED
      BY <2>5, <3>1, <3>2
  <2> QED
    BY <2>1, <2>7, <2>8 DEF Suspected, One
<1>6. CASE ~StartTask(t) /\ ~ReExecute(t) /\ ~LogicalBug(t) /\ ~AnalyseAndSave(t)
  <2>1. /\ bugs'[t] = bugs[t]
        /\ taskResult'[t].ImpoBugsNum = taskResult[t].ImpoBugsNum
        /\ taskResult'[t].FalsePositiveDetails = taskResult[t].FalsePositiveDetails
        /\ pc[t] \notin {"start", "analyse"} /\ pc'[t] \notin {"start", "analyse"}
    BY <1>6, QuietSteps
  <2> QED
    BY <2>1 DEF Suspected, One
<1> QED
  BY <1>2, <1>3, <1>4, <1>5, <1>6

\* The loop over statements and units leaves connection, database and result.json.
LEMMA LoopSteps ==
    ASSUME RunTypes, NEW t \in Tasks, TaskStep(t),
           ~StartTask(t), ~SetUpDatabase(t), ~FinishTask(t)
    PROVE  /\ pc[t] \in {"statement"} \cup Dealing /\ pc'[t] \in {"statement"} \cup Dealing
           /\ resultFile'[t] = resultFile[t] /\ conn'[t] = conn[t] /\ database'[t] = database[t]
<1>1. pc \in [Tasks -> Pcs]
  BY DEF RunTypes
<1> USE <1>1 DEF setup, Dealing
<1>2. CASE SkipStatement(t)
  BY <1>2 DEF SkipStatement, HasStatement
<1>3. CASE MutateStatement(t)
  BY <1>3 DEF MutateStatement, HasStatement, Goto
<1>4. CASE EndStatement(t)
  BY <1>4 DEF EndStatement, Goto
<1>5. CASE UnitError(t)
  BY <1>5 DEF UnitError, AtUnit, NextUnit, Goto
<1>6. CASE UnitExecError(t)
  BY <1>6 DEF UnitExecError, AtUnit, NextUnit, Goto
<1>7. CASE ReExecute(t)
  BY <1>7 DEF ReExecute, NextUnit, Goto
<1>8. CASE CheckUnit(t)
  BY <1>8 DEF CheckUnit, AtUnit, Goto
<1>9. CASE NoBug(t)
  BY <1>9 DEF NoBug, NextUnit, Goto
<1>10. CASE LogicalBug(t)
  BY <1>10 DEF LogicalBug, Goto
<1>11. CASE AnalyseAndSave(t)
  BY <1>11 DEF AnalyseAndSave, NextUnit, Goto
<1> QED
  BY <1>2, <1>3, <1>4, <1>5, <1>6, <1>7, <1>8, <1>9, <1>10, <1>11 DEF TaskStep

\* The result is written when the loop is over.
LEMMA FinishedNext ==
    ASSUME RunTypes, NEW t \in Tasks, AtLabel(t), Finished(t), TaskStep(t)
    PROVE  Finished(t)'
<1>1. config' = config /\ config \in Configs
  BY ConfigKept DEF RunTypes
<1>2. config.publicConn \in BOOLEAN /\ config.genMode \in BOOLEAN /\ config.removable \in BOOLEAN
  BY <1>1, TaskRunAssumption DEF Config
<1>3. CASE StartTask(t)
  <2>1. /\ config.removable => resultFile'[t] = {}
        /\ pc'[t] \in {"setup", "failed"}
        /\ pc'[t] # "failed" => conn'[t] = IF config.publicConn THEN "public" ELSE "own"
    BY <1>3, StartedTask
  <2> QED
    BY <1>1, <1>2, <2>1 DEF Finished, Dealing
<1>4. CASE SetUpDatabase(t)
  <2>1. /\ pc[t] = "setup" /\ resultFile'[t] = resultFile[t] /\ conn'[t] = conn[t]
    BY <1>4 DEF SetUpDatabase
  <2>2. \/ pc'[t] = "failed"
        \/ /\ pc'[t] = "statement"
           /\ config.dbms = "mysql" /\ ~config.genMode => database'[t] = "new"
           /\ config.dbms = "postgresql" /\ config.genMode => database'[t] = "old"
    <3>1. pc \in [Tasks -> Pcs] /\ database \in [Tasks -> {"unknown", "partial", "tried", "new", "old"}]
      BY DEF RunTypes
    <3>2. CASE Failed(t)
      BY <3>1, <3>2 DEF Failed, Goto
    <3>3. CASE config.dbms = "mysql" /\ InitMysql(t)
      BY <3>1, <3>3 DEF InitMysql, LoadDefaultTestData, Ready, Goto
    <3>4. CASE config.dbms = "postgresql" /\ InitPostgreSQL(t)
      BY <3>1, <3>4 DEF InitPostgreSQL, ExecDDL, Ready, Goto
    <3>5. CASE InitGaussDB(t)
      BY <3>1, <3>5 DEF InitGaussDB, ExecDDL, Ready, Goto
    <3> QED
      BY <1>4, <3>2, <3>3, <3>4, <3>5 DEF SetUpDatabase
  <2> QED
    BY <1>1, <1>2, <2>1, <2>2 DEF Finished, Dealing
<1>5. CASE FinishTask(t)
  <2>1. /\ pc[t] = "statement" /\ pc'[t] = "done"
        /\ resultFile'[t] \subseteq resultFile[t] \cup {taskResult[t]}
        /\ taskResult'[t] = taskResult[t] /\ database'[t] = database[t]
        /\ conn'[t] = IF Closes(t) THEN "closed" ELSE conn[t]
    BY <1>5 DEF FinishTask, Goto, RunTypes, local
  <2>2. config.publicConn <=> conn'[t] = "public"
    BY <2>1 DEF Finished, Closes
  <2> QED
    <3>1. config.removable => resultFile'[t] \subseteq {taskResult'[t]}
      BY <2>1 DEF Finished
    <3> QED
      BY <1>1, <2>1, <2>2, <3>1 DEF Finished, Dealing
<1>6. CASE ~StartTask(t) /\ ~SetUpDatabase(t) /\ ~FinishTask(t)
  <2>1. /\ pc[t] \in {"statement"} \cup Dealing /\ pc'[t] \in {"statement"} \cup Dealing
        /\ resultFile'[t] = resultFile[t] /\ conn'[t] = conn[t] /\ database'[t] = database[t]
    BY <1>6, LoopSteps
  <2>2. pc[t] \notin {"start", "done", "failed"} /\ pc'[t] \notin {"start", "done", "failed"}
    BY <2>1 DEF Dealing
  <2>3. config.removable => resultFile[t] = {}
    BY <2>2 DEF Finished
  <2> QED
    BY <1>1, <2>1, <2>2, <2>3 DEF Finished
<1> QED
  BY <1>3, <1>4, <1>5, <1>6

\* A report is written of what the oracle saw.
LEMMA ShownNext ==
    ASSUME RunTypes, NEW t \in Tasks, AtLabel(t), Shown(t), TaskStep(t)
    PROVE  Shown(t)'
<1>1. /\ config' = config /\ AggregateMode' = AggregateMode
      /\ \A k : UnitsOf(k)' = UnitsOf(k)
  <2>1. config' = config
    BY ConfigKept
  <2> QED
    BY <2>1 DEF AggregateMode, UnitsOf
<1> DEFINE Sound(r) ==
              ~r.isErrorOracle =>
                 /\ r.original \in Outcomes[config] /\ ~r.original.err
                 /\ r.kind \in QueryKinds /\ ResultOf(r.kind, r.original)
                 /\ \E u \in UnitsOf(r.kind) :
                       ~u.err /\ u.exec = r.mutated /\ ~u.exec.err /\ u.isUpper = r.isUpper
                 /\ ~TaskCheck(r.original, r.mutated, r.isUpper, AggregateMode)
<1>2. ASSUME config.removable => \A r \in bugs'[t] : Sound(r) PROVE Shown(t)'
  <2>1. \A k : UnitsOf(k) = {u \in Units[config] : u.err \/ u.exec.err \/ ResultOf(k, u.exec)}
    BY DEF UnitsOf
  <2> QED
    BY <1>1, <1>2, <2>1 DEF Shown, UnitsOf, Fresh
<1>3. Fresh(t) => \A r \in bugs[t] : Sound(r)
  BY DEF Shown
<1> USE DEF Fresh
<1> HIDE DEF Sound
<1>4. CASE StartTask(t)
  BY <1>2, <1>4, StartedTask
<1>5. CASE ReExecute(t)
  <2>1. /\ pc[t] = "reexec"
        /\ \/ bugs'[t] = bugs[t]
           \/ bugs'[t] = bugs[t] \cup {Report(t, taskResult[t].ImpoBugsNum, TRUE)}
    BY <1>5, ErrorReported
  <2>2. Sound(Report(t, taskResult[t].ImpoBugsNum, TRUE))
    BY DEF Sound, Report
  <2> QED
    BY <1>2, <1>3, <2>1, <2>2
<1>6. CASE LogicalBug(t)
  BY <1>2, <1>3, <1>6, BugCounted
<1>7. CASE AnalyseAndSave(t)
  <2> DEFINE report == Report(t, taskResult[t].ImpoBugsNum - 1, FALSE)
  <2>1. /\ pc[t] = "analyse"
        /\ bugs'[t] = bugs[t] \/ bugs'[t] = bugs[t] \cup {report}
    BY <1>7, BugAnalysed
  <2>2. /\ units[t] # <<>> /\ ~unit(t).err /\ ~unit(t).exec.err
        /\ ~TaskCheck(original[t], unit(t).exec, unit(t).isUpper, AggregateMode)
        /\ original[t] \in Outcomes[config] /\ ~original[t].err
        /\ kind[t] \in QueryKinds /\ ResultOf(kind[t], original[t])
        /\ \A k \in DOMAIN units[t] : units[t][k] \in UnitsOf(kind[t])
    BY <2>1 DEF AtLabel, Dealing
  <2>3. unit(t) \in UnitsOf(kind[t])
    BY <2>2, UnitTypes
  <2>4. /\ report.kind = kind[t] /\ report.original = original[t] /\ report.mutated = unit(t).exec
        /\ report.isUpper = unit(t).isUpper
    BY DEF Report
  <2> HIDE DEF report
  <2>5. Sound(report)
    BY <2>2, <2>3, <2>4 DEF Sound
  <2> QED
    BY <1>2, <1>3, <2>1, <2>5
<1>8. CASE ~StartTask(t) /\ ~ReExecute(t) /\ ~LogicalBug(t) /\ ~AnalyseAndSave(t)
  BY <1>2, <1>3, <1>8, QuietSteps
<1> QED
  BY <1>4, <1>5, <1>6, <1>7, <1>8

\* The other tasks' reports and files are their own.
LEMMA ReportsOfOthers ==
    ASSUME RunTypes, NEW t \in Tasks, TaskStep(t), NEW u \in Tasks, u # t,
           Numbered(u), Suspected(u), Finished(u), Shown(u)
    PROVE  Numbered(u)' /\ Suspected(u)' /\ Finished(u)' /\ Shown(u)'
<1>1. /\ pc'[u] = pc[u] /\ taskResult'[u] = taskResult[u] /\ bugs'[u] = bugs[u]
      /\ resultFile'[u] = resultFile[u] /\ conn'[u] = conn[u] /\ database'[u] = database[u]
      /\ config' = config
  BY OtherTasks, ConfigKept
<1> USE DEF Fresh
<1>2. Numbered(u)'
  BY <1>1 DEF Numbered
<1>3. Suspected(u)'
  BY <1>1 DEF Suspected
<1>4. Finished(u)'
  BY <1>1 DEF Finished
<1>5. Shown(u)'
  BY <1>1 DEF Shown, UnitsOf, AggregateMode
<1> QED
  BY <1>2, <1>3, <1>4, <1>5

-----------------------------------------------------------------------------
(* Sums.                                                                   *)

PairsOf(f) == UNION {{x} \X (1 .. f[x]) : x \in DOMAIN f}

\* The sum of finitely many numbers is the number of their pairs.
LEMMA PairsFinite ==
    ASSUME NEW S, IsFiniteSet(S), NEW f \in [S -> Nat]
    PROVE  IsFiniteSet(PairsOf(f)) /\ SumOf(f) = Cardinality(PairsOf(f)) /\ SumOf(f) \in Nat
<1> DEFINE g == [x \in S |-> {x} \X (1 .. f[x])]
           T == {{x} \X (1 .. f[x]) : x \in S}
<1>1. g \in Surjection(S, T)
  BY DEF Surjection
<1>2. IsFiniteSet(T)
  <2> HIDE DEF g, T
  <2> QED
    BY <1>1, FS_Surjection
<1>3. \A x \in S : IsFiniteSet({x} \X (1 .. f[x]))
  <2> SUFFICES ASSUME NEW x \in S PROVE IsFiniteSet({x} \X (1 .. f[x]))
    OBVIOUS
  <2>1. f[x] \in Int /\ 1 \in Int
    OBVIOUS
  <2>2. IsFiniteSet(1 .. f[x])
    BY <2>1, FS_Interval
  <2>3. IsFiniteSet({x})
    BY FS_Singleton
  <2> QED
    BY <2>2, <2>3, FS_Product
<1>4. IsFiniteSet(UNION T)
  <2>1. \A R \in T : IsFiniteSet(R)
    BY <1>3
  <2> HIDE DEF T
  <2> QED
    BY <1>2, <2>1, FS_UNION
<1>5. PairsOf(f) = UNION T
  BY DEF PairsOf
<1>6. SumOf(f) = Cardinality(PairsOf(f))
  BY DEF SumOf, PairsOf
<1> QED
  BY <1>4, <1>5, <1>6, FS_CardinalityType

\* Nothing sums up to nothing.
LEMMA SumOfZeros ==
    ASSUME NEW S, IsFiniteSet(S), NEW f \in [S -> Nat], \A x \in S : f[x] = 0
    PROVE  SumOf(f) = 0
<1>1. PairsOf(f) = {}
  BY DEF PairsOf
<1> QED
  BY <1>1, PairsFinite, FS_EmptySet

\* A sum grows by what one of its terms grows by.
LEMMA SumGrows ==
    ASSUME NEW S, IsFiniteSet(S), NEW f \in [S -> Nat], NEW g \in [S -> Nat],
           NEW x \in S, NEW d \in {0, 1},
           g[x] = f[x] + d, \A y \in S \ {x} : g[y] = f[y]
    PROVE  SumOf(g) = SumOf(f) + d
<1>1. SumOf(f) = Cardinality(PairsOf(f)) /\ IsFiniteSet(PairsOf(f)) /\ SumOf(f) \in Nat
  BY PairsFinite
<1>2. CASE d = 0
  <2>1. g = f
    BY <1>2
  <2> QED
    BY <1>1, <1>2, <2>1
<1>3. CASE d = 1
  <2> DEFINE p == <<x, f[x] + 1>>
  <2>1. f[x] \in Nat /\ g[x] = f[x] + 1
    BY <1>3
  <2>2. PairsOf(g) = PairsOf(f) \cup {p}
    <3>1. \A y, i : <<y, i>> \in PairsOf(g) <=> y \in S /\ i \in 1 .. g[y]
      BY DEF PairsOf
    <3>2. \A y, i : <<y, i>> \in PairsOf(f) <=> y \in S /\ i \in 1 .. f[y]
      BY DEF PairsOf
    <3>3. \A y, i : <<y, i>> \in PairsOf(g) <=> <<y, i>> \in PairsOf(f) \/ <<y, i>> = p
      <4> SUFFICES ASSUME NEW y, NEW i
                   PROVE  <<y, i>> \in PairsOf(g) <=> <<y, i>> \in PairsOf(f) \/ <<y, i>> = p
        OBVIOUS
      <4>1. CASE y = x
        <5>1. i \in 1 .. f[x] + 1 <=> i \in 1 .. f[x] \/ i = f[x] + 1
          BY <2>1
        <5> QED
          BY <2>1, <3>1, <3>2, <4>1, <5>1
      <4>2. CASE y # x
        BY <3>1, <3>2, <4>2
      <4> QED
        BY <4>1, <4>2
    <3>4. \A q \in PairsOf(g) : \E y, i : q = <<y, i>>
      BY DEF PairsOf
    <3>5. \A q \in PairsOf(f) : \E y, i : q = <<y, i>>
      BY DEF PairsOf
    <3> QED
      BY <3>3, <3>4, <3>5
  <2>3. p \notin PairsOf(f)
    BY <2>1 DEF PairsOf
  <2>4. Cardinality(PairsOf(f) \cup {p}) = Cardinality(PairsOf(f)) + 1
    <3> HIDE DEF p
    <3> QED
      BY <1>1, <2>3, FS_AddElement
  <2>5. SumOf(g) = Cardinality(PairsOf(g))
    BY PairsFinite
  <2> QED
    BY <1>1, <1>3, <2>2, <2>4, <2>5
<1> QED
  BY <1>2, <1>3

-----------------------------------------------------------------------------
(* The statistics.                                                         *)

Bugs(t) == taskResult[t].ImpoBugsNum

Errors(t) == taskResult[t].Stage2UnitExecErrNum + taskResult[t].ErrorOracleBugsNum

Runs(t) ==
    taskResult[t].Stage2UnitNum - Len(units[t]) - taskResult[t].Stage2UnitErrNum
        + taskResult[t].ErrorOracleBugsNum + Underway(t)

\* The terms are natural numbers: no more units wait or have failed than there were.
LEMMA TermTypes ==
    ASSUME RunTypes, NEW t \in Tasks, AtLabel(t)
    PROVE  /\ Bugs(t) \in Nat /\ Errors(t) \in Nat /\ Runs(t) \in Nat
           /\ taskResult[t].Stage2UnitErrNum \in Nat /\ taskResult[t].Stage2UnitNum \in Nat
           /\ taskResult[t].Stage2UnitExecErrNum \in Nat /\ taskResult[t].ErrorOracleBugsNum \in Nat
           /\ Len(units[t]) \in Nat
<1>1. taskResult[t] \in TaskResult /\ units[t] \in Seq(Unit)
  BY DEF RunTypes
<1>2. /\ taskResult[t].ImpoBugsNum \in Nat /\ taskResult[t].Stage2UnitExecErrNum \in Nat
      /\ taskResult[t].ErrorOracleBugsNum \in Nat /\ taskResult[t].Stage2UnitNum \in Nat
      /\ taskResult[t].Stage2UnitErrNum \in Nat
  BY <1>1 DEF TaskResult
<1>3. Len(units[t]) \in Nat
  BY <1>1, LenProperties
<1>4. Len(units[t]) + taskResult[t].Stage2UnitErrNum <= taskResult[t].Stage2UnitNum
  BY DEF AtLabel
<1>5. Underway(t) \in {0, 1}
  BY DEF Underway
<1>6. Runs(t) \in Nat
  <2>1. \A a, b, c, d, i \in Nat : a + b <= c => c - a - b + d + i \in Nat
    OBVIOUS
  <2>2. Underway(t) \in Nat
    BY <1>5
  <2>3. taskResult[t].Stage2UnitNum - Len(units[t]) - taskResult[t].Stage2UnitErrNum
            + taskResult[t].ErrorOracleBugsNum + Underway(t) \in Nat
    BY <1>2, <1>3, <1>4, <2>1, <2>2
  <2> QED
    BY <2>3 DEF Runs
<1>7. Bugs(t) \in Nat /\ Errors(t) \in Nat
  BY <1>2 DEF Bugs, Errors
<1> QED
  BY <1>2, <1>3, <1>6, <1>7

\* What of the counters a step leaves alone.
LEMMA CountersKept ==
    ASSUME RunTypes, NEW t \in Tasks, TaskStep(t), ~MutateStatement(t), ~UnitError(t),
           ~UnitExecError(t), ~ReExecute(t), ~NoBug(t), ~LogicalBug(t), ~AnalyseAndSave(t)
    PROVE  /\ taskResult'[t].ImpoBugsNum = taskResult[t].ImpoBugsNum
           /\ taskResult'[t].ErrorOracleBugsNum = taskResult[t].ErrorOracleBugsNum
           /\ taskResult'[t].Stage2UnitNum = taskResult[t].Stage2UnitNum
           /\ taskResult'[t].Stage2UnitErrNum = taskResult[t].Stage2UnitErrNum
           /\ taskResult'[t].Stage2UnitExecErrNum = taskResult[t].Stage2UnitExecErrNum
           /\ units'[t] = units[t] /\ stats' = stats
           /\ pc[t] \notin {"reexec", "analyse"} /\ pc'[t] \notin {"reexec", "analyse"}
<1>1. taskResult[t] \in TaskResult /\ taskResult \in [Tasks -> TaskResult] /\ pc \in [Tasks -> Pcs]
  BY DEF RunTypes
<1>2. CASE StartTask(t)
  BY <1>1, <1>2 DEF StartTask, Goto, local
<1>3. CASE SetUpDatabase(t)
  <2>1. pc'[t] \in {"statement", "failed"}
    BY <1>1, <1>3 DEF SetUpDatabase, Failed, InitMysql, InitPostgreSQL, InitGaussDB, ExecDDL,
                      LoadDefaultTestData, Ready, Goto
  <2> QED
    BY <1>3, <2>1 DEF SetUpDatabase, local
<1>4. CASE SkipStatement(t)
  <2>1. PICK counter \in SkipCounters :
           taskResult' = [taskResult EXCEPT ![t] = [taskResult[t] EXCEPT ![counter] = @ + 1]]
    BY <1>4 DEF SkipStatement, Count
  <2>2. counter \in {"Stage1ErrNum", "Stage1ExecErrNum", "Stage2ErrNum", "Stage1SkippedNum"}
    BY DEF SkipCounters
  <2>3. taskResult'[t] = [taskResult[t] EXCEPT ![counter] = @ + 1]
    BY <1>1, <2>1
  <2>4. /\ taskResult'[t].ImpoBugsNum = taskResult[t].ImpoBugsNum
        /\ taskResult'[t].ErrorOracleBugsNum = taskResult[t].ErrorOracleBugsNum
        /\ taskResult'[t].Stage2UnitNum = taskResult[t].Stage2UnitNum
        /\ taskResult'[t].Stage2UnitErrNum = taskResult[t].Stage2UnitErrNum
        /\ taskResult'[t].Stage2UnitExecErrNum = taskResult[t].Stage2UnitExecErrNum
    BY <1>1, <2>2, <2>3 DEF TaskResult
  <2> QED
    BY <1>4, <2>4 DEF SkipStatement, HasStatement
<1>5. CASE EndStatement(t)
  BY <1>1, <1>5 DEF EndStatement, Goto, local
<1>6. CASE CheckUnit(t)
  BY <1>1, <1>6 DEF CheckUnit, AtUnit, Goto
<1>7. CASE FinishTask(t)
  BY <1>1, <1>7 DEF FinishTask, Goto, local
<1> QED
  BY <1>2, <1>3, <1>4, <1>5, <1>6, <1>7 DEF TaskStep

\* What a step records of a run: bugs and errors are numbers here.
Recording(n, b, e) ==
    stats' = [stats EXCEPT ![n] =
        [TotalRuns |-> @.TotalRuns + 1, BugsFound |-> @.BugsFound + b, ExecErrors |-> @.ExecErrors + e]]

\* What RecordResult adds, as numbers of pairs.
LEMMA RecordingResults ==
    ASSUME NEW n
    PROVE  /\ RecordResult(n, TRUE, TRUE) => Recording(n, 1, 1)
           /\ RecordResult(n, TRUE, FALSE) => Recording(n, 1, 0)
           /\ RecordResult(n, FALSE, TRUE) => Recording(n, 0, 1)
           /\ RecordResult(n, FALSE, FALSE) => Recording(n, 0, 0)
BY DEF RecordResult, Recording, One

\* A step that counts a bug, an error or a run records it with the same step, for
\* one mutation.
LEMMA CountedAndRecorded ==
    ASSUME RunTypes, NEW t \in Tasks, AtLabel(t), TaskStep(t)
    PROVE  \/ /\ stats' = stats
              /\ Bugs(t)' = Bugs(t) /\ Errors(t)' = Errors(t) /\ Runs(t)' = Runs(t)
           \/ \E n \in Names, b \in {0, 1}, e \in {0, 1} :
                 /\ Recording(n, b, e)
                 /\ Bugs(t)' = Bugs(t) + b
                 /\ Errors(t)' = Errors(t) + e
                 /\ Runs(t)' = Runs(t) + 1
<1>1. /\ taskResult[t] \in TaskResult /\ taskResult \in [Tasks -> TaskResult] /\ pc \in [Tasks -> Pcs]
      /\ units \in [Tasks -> Seq(Unit)]
  BY DEF RunTypes
<1>2. /\ Bugs(t) \in Nat /\ Errors(t) \in Nat /\ Runs(t) \in Nat
      /\ taskResult[t].Stage2UnitErrNum \in Nat /\ taskResult[t].Stage2UnitNum \in Nat
      /\ taskResult[t].Stage2UnitExecErrNum \in Nat /\ taskResult[t].ErrorOracleBugsNum \in Nat
      /\ Len(units[t]) \in Nat
  BY TermTypes
<1>3. /\ taskResult'[t].Stage2UnitErrNum \in Nat /\ taskResult'[t].Stage2UnitNum \in Nat
      /\ taskResult'[t].Stage2UnitExecErrNum \in Nat /\ taskResult'[t].ErrorOracleBugsNum \in Nat
      /\ Len(units'[t]) \in Nat
  <2>1. RunTypes'
    BY TypesNext
  <2>2. taskResult'[t] \in TaskResult /\ units'[t] \in Seq(Unit)
    BY <2>1 DEF RunTypes
  <2>3. Len(units'[t]) \in Nat
    BY <2>2, LenProperties
  <2> QED
    BY <2>2, <2>3 DEF TaskResult
<1>4. pc[t] \in {"unit", "reexec", "checked", "analyse"} /\ units[t] # <<>> =>
          unit(t).name \in Names /\ Len(Tail(units[t])) = Len(units[t]) - 1
  BY UnitTypes DEF Unit
<1>5. pc[t] \in {"reexec", "checked", "analyse"} => units[t] # <<>>
  BY DEF AtLabel, Dealing
<1> DEFINE num == taskResult[t].Stage2UnitNum
           len == Len(units[t])
           err == taskResult[t].Stage2UnitErrNum
           oracle == taskResult[t].ErrorOracleBugsNum
           exec == taskResult[t].Stage2UnitExecErrNum
           num2 == taskResult'[t].Stage2UnitNum
           len2 == Len(units'[t])
           err2 == taskResult'[t].Stage2UnitErrNum
           oracle2 == taskResult'[t].ErrorOracleBugsNum
           exec2 == taskResult'[t].Stage2UnitExecErrNum
           under == Underway(t)
           under2 == Underway(t)'
<1>6. /\ num \in Nat /\ len \in Nat /\ err \in Nat /\ oracle \in Nat /\ exec \in Nat
      /\ num2 \in Nat /\ len2 \in Nat /\ err2 \in Nat /\ oracle2 \in Nat /\ exec2 \in Nat
      /\ under \in Nat /\ under2 \in Nat
  BY <1>2, <1>3 DEF Underway
<1>7. /\ Bugs(t) = taskResult[t].ImpoBugsNum /\ Bugs(t)' = taskResult'[t].ImpoBugsNum
      /\ Errors(t) = exec + oracle /\ Errors(t)' = exec2 + oracle2
      /\ Runs(t) = num - len - err + oracle + under
      /\ Runs(t)' = num2 - len2 - err2 + oracle2 + under2
  BY DEF Bugs, Errors, Runs
<1>8. CASE MutateStatement(t)
  <2>1. PICK n \in Nat, us \in Seq(Unit) :
           /\ Len(us) = n
           /\ units' = [units EXCEPT ![t] = us]
           /\ taskResult' = [taskResult EXCEPT ![t] = [taskResult[t] EXCEPT !.Stage2UnitNum = @ + n]]
    BY <1>8, StatementTypes
  <2>2. units'[t] = us /\ taskResult'[t] = [taskResult[t] EXCEPT !.Stage2UnitNum = @ + n]
    BY <1>1, <2>1
  <2>3. /\ taskResult'[t].ImpoBugsNum = taskResult[t].ImpoBugsNum
        /\ oracle2 = oracle /\ num2 = num + n /\ err2 = err /\ exec2 = exec
    BY <1>1, <2>2 DEF TaskResult
  <2>4. pc[t] = "statement" /\ pc'[t] = "unit" /\ stats' = stats
    BY <1>1, <1>8 DEF MutateStatement, HasStatement, Goto
  <2>5. len = 0 /\ len2 = n
    BY <2>1, <2>2, <2>4 DEF AtLabel, Dealing
  <2>6. under = 0 /\ under2 = 0
    BY <2>4 DEF Underway
  <2> HIDE DEF num, len, err, oracle, exec, under, num2, len2, err2, oracle2, exec2, under2
  <2>7. Runs(t)' = Runs(t)
    BY <1>6, <1>7, <2>3, <2>5, <2>6
  <2>8. Errors(t)' = Errors(t)
    BY <1>7, <2>3
  <2> QED
    BY <1>7, <2>3, <2>4, <2>7, <2>8
<1>9. CASE UnitError(t)
  <2>1. /\ pc[t] = "unit" /\ pc'[t] = "unit" /\ units[t] # <<>> /\ units'[t] = Tail(units[t])
        /\ stats' = stats /\ taskResult'[t] = [taskResult[t] EXCEPT !.Stage2UnitErrNum = @ + 1]
    BY <1>1, <1>9 DEF UnitError, AtUnit, NextUnit, Goto, Count
  <2>2. /\ taskResult'[t].ImpoBugsNum = taskResult[t].ImpoBugsNum
        /\ oracle2 = oracle /\ num2 = num /\ err2 = err + 1 /\ exec2 = exec
    BY <1>1, <2>1 DEF TaskResult
  <2>3. under = 0 /\ under2 = 0
    BY <2>1 DEF Underway
  <2>4. len2 = len - 1
    BY <1>4, <2>1
  <2> HIDE DEF num, len, err, oracle, exec, under, num2, len2, err2, oracle2, exec2, under2
  <2>5. Runs(t)' = Runs(t)
    BY <1>6, <1>7, <2>2, <2>3, <2>4
  <2>6. Errors(t)' = Errors(t)
    BY <1>7, <2>2
  <2> QED
    BY <1>7, <2>1, <2>2, <2>5, <2>6
<1>10. CASE UnitExecError(t)
  <2>1. /\ pc[t] = "unit" /\ units[t] # <<>> /\ RecordResult(unit(t).name, FALSE, TRUE)
        /\ taskResult'[t] = [taskResult[t] EXCEPT !.Stage2UnitExecErrNum = @ + 1]
        /\ \/ pc'[t] = "reexec" /\ units'[t] = units[t]
           \/ pc'[t] = "unit" /\ units'[t] = Tail(units[t])
    BY <1>1, <1>10 DEF UnitExecError, AtUnit, NextUnit, Goto, Count
  <2>2. /\ taskResult'[t].ImpoBugsNum = taskResult[t].ImpoBugsNum
        /\ oracle2 = oracle /\ num2 = num /\ err2 = err /\ exec2 = exec + 1
    BY <1>1, <2>1 DEF TaskResult
  <2>3. unit(t).name \in Names /\ Recording(unit(t).name, 0, 1)
    BY <1>4, <2>1, RecordingResults
  <2>4. \/ under = 0 /\ under2 = 1 /\ len2 = len
        \/ under = 0 /\ under2 = 0 /\ len2 = len - 1
    BY <1>4, <2>1 DEF Underway
  <2> HIDE DEF num, len, err, oracle, exec, under, num2, len2, err2, oracle2, exec2, under2
  <2>5. Runs(t)' = Runs(t) + 1
    BY <1>6, <1>7, <2>2, <2>4
  <2>6. Errors(t)' = Errors(t) + 1
    BY <1>6, <1>7, <2>2
  <2>7. Bugs(t)' = Bugs(t) + 0
    BY <1>2, <1>7, <2>2
  <2> QED
    BY <2>3, <2>5, <2>6, <2>7
<1>11. CASE ReExecute(t)
  <2>1. /\ pc[t] = "reexec" /\ pc'[t] = "unit"
        /\ \/ taskResult'[t] = taskResult[t] /\ stats' = stats
           \/ /\ taskResult'[t].ImpoBugsNum = taskResult[t].ImpoBugsNum + 1
              /\ taskResult'[t].ErrorOracleBugsNum = taskResult[t].ErrorOracleBugsNum + 1
              /\ RecordResult(unit(t).name, TRUE, TRUE)
    BY <1>11, ErrorReported
  <2>2. err2 = err /\ num2 = num /\ exec2 = exec
    BY <1>11, SavedCounters
  <2>3. units[t] # <<>> /\ units'[t] = Tail(units[t])
    BY <1>1, <1>5, <1>11, <2>1 DEF ReExecute, NextUnit
  <2>4. under = 1 /\ under2 = 0 /\ len2 = len - 1
    BY <1>4, <2>1, <2>3 DEF Underway
  <2>5. CASE taskResult'[t] = taskResult[t] /\ stats' = stats
    <3>1. oracle2 = oracle /\ taskResult'[t].ImpoBugsNum = taskResult[t].ImpoBugsNum
      BY <2>5
    <3> HIDE DEF num, len, err, oracle, exec, under, num2, len2, err2, oracle2, exec2, under2
    <3>2. Runs(t)' = Runs(t)
      BY <1>6, <1>7, <2>2, <2>4, <3>1
    <3>3. Errors(t)' = Errors(t)
      BY <1>7, <2>2, <3>1
    <3> QED
      BY <1>7, <2>5, <3>1, <3>2, <3>3
  <2>6. CASE /\ taskResult'[t].ImpoBugsNum = taskResult[t].ImpoBugsNum + 1
             /\ taskResult'[t].ErrorOracleBugsNum = taskResult[t].ErrorOracleBugsNum + 1
             /\ RecordResult(unit(t).name, TRUE, TRUE)
    <3>1. oracle2 = oracle + 1 /\ Bugs(t)' = Bugs(t) + 1
      BY <1>7, <2>6
    <3>2. unit(t).name \in Names /\ Recording(unit(t).name, 1, 1)
      BY <1>4, <2>1, <2>3, <2>6, RecordingResults
    <3> HIDE DEF num, len, err, oracle, exec, under, num2, len2, err2, oracle2, exec2, under2
    <3>3. Runs(t)' = Runs(t) + 1
      BY <1>6, <1>7, <2>2, <2>4, <3>1
    <3>4. Errors(t)' = Errors(t) + 1
      BY <1>6, <1>7, <2>2, <3>1
    <3> QED
      BY <3>1, <3>2, <3>3, <3>4
  <2> QED
    BY <2>1, <2>5, <2>6
<1>12. CASE NoBug(t)
  <2>1. /\ pc[t] = "checked" /\ pc'[t] = "unit" /\ units'[t] = Tail(units[t])
        /\ taskResult'[t] = taskResult[t] /\ RecordResult(unit(t).name, FALSE, FALSE)
    BY <1>1, <1>12 DEF NoBug, NextUnit, Goto
  <2>2. under = 0 /\ under2 = 0 /\ len2 = len - 1
    BY <1>4, <1>5, <2>1 DEF Underway
  <2>3. unit(t).name \in Names /\ Recording(unit(t).name, 0, 0)
    BY <1>4, <1>5, <2>1, RecordingResults
  <2>4. /\ taskResult'[t].ImpoBugsNum = taskResult[t].ImpoBugsNum
        /\ oracle2 = oracle /\ num2 = num /\ err2 = err /\ exec2 = exec
    BY <2>1
  <2> HIDE DEF num, len, err, oracle, exec, under, num2, len2, err2, oracle2, exec2, under2
  <2>5. Runs(t)' = Runs(t) + 1
    BY <1>6, <1>7, <2>2, <2>4
  <2>6. Errors(t)' = Errors(t) + 0 /\ Bugs(t)' = Bugs(t) + 0
    BY <1>2, <1>7, <2>4
  <2> QED
    BY <2>3, <2>5, <2>6
<1>13. CASE LogicalBug(t)
  <2>1. /\ pc[t] = "checked" /\ pc'[t] = "analyse"
        /\ taskResult'[t].ImpoBugsNum = taskResult[t].ImpoBugsNum + 1
        /\ oracle2 = oracle /\ num2 = num /\ err2 = err /\ exec2 = exec
    BY <1>13, BugCounted
  <2>2. units'[t] = units[t] /\ RecordResult(unit(t).name, TRUE, FALSE)
    BY <1>13 DEF LogicalBug, local
  <2>3. under = 0 /\ under2 = 1 /\ len2 = len
    BY <2>1, <2>2 DEF Underway
  <2>4. unit(t).name \in Names /\ Recording(unit(t).name, 1, 0)
    BY <1>4, <1>5, <2>1, <2>2, RecordingResults
  <2> HIDE DEF num, len, err, oracle, exec, under, num2, len2, err2, oracle2, exec2, under2
  <2>5. Runs(t)' = Runs(t) + 1
    BY <1>6, <1>7, <2>1, <2>3
  <2>6. Errors(t)' = Errors(t) + 0 /\ Bugs(t)' = Bugs(t) + 1
    BY <1>2, <1>7, <2>1
  <2> QED
    BY <2>4, <2>5, <2>6
<1>14. CASE AnalyseAndSave(t)
  <2>1. /\ pc[t] = "analyse" /\ pc'[t] = "unit"
        /\ taskResult'[t].ImpoBugsNum = taskResult[t].ImpoBugsNum /\ oracle2 = oracle
    BY <1>14, BugAnalysed
  <2>2. err2 = err /\ num2 = num /\ exec2 = exec
    BY <1>14, SavedCounters
  <2>3. units'[t] = Tail(units[t]) /\ stats' = stats
    BY <1>1, <1>14 DEF AnalyseAndSave, NextUnit
  <2>4. under = 1 /\ under2 = 0 /\ len2 = len - 1
    BY <1>4, <1>5, <2>1, <2>3 DEF Underway
  <2> HIDE DEF num, len, err, oracle, exec, under, num2, len2, err2, oracle2, exec2, under2
  <2>5. Runs(t)' = Runs(t)
    BY <1>6, <1>7, <2>1, <2>2, <2>4
  <2>6. Errors(t)' = Errors(t) /\ Bugs(t)' = Bugs(t)
    BY <1>7, <2>1, <2>2
  <2> QED
    BY <2>3, <2>5, <2>6
<1>15. CASE /\ ~MutateStatement(t) /\ ~UnitError(t) /\ ~UnitExecError(t) /\ ~ReExecute(t)
            /\ ~NoBug(t) /\ ~LogicalBug(t) /\ ~AnalyseAndSave(t)
  <2>1. /\ taskResult'[t].ImpoBugsNum = taskResult[t].ImpoBugsNum /\ stats' = stats
        /\ oracle2 = oracle /\ num2 = num /\ err2 = err /\ exec2 = exec /\ len2 = len
        /\ under = 0 /\ under2 = 0
    BY <1>15, CountersKept DEF Underway
  <2> HIDE DEF num, len, err, oracle, exec, under, num2, len2, err2, oracle2, exec2, under2
  <2>2. Runs(t)' = Runs(t)
    BY <1>7, <2>1
  <2> QED
    BY <1>7, <2>1, <2>2
<1> QED
  BY <1>8, <1>9, <1>10, <1>11, <1>12, <1>13, <1>14, <1>15

\* No other step counts anything for a task.
LEMMA TermsOfOthers ==
    ASSUME NEW t \in Tasks, TaskStep(t), RunTypes, NEW u \in Tasks \ {t}
    PROVE  Bugs(u)' = Bugs(u) /\ Errors(u)' = Errors(u) /\ Runs(u)' = Runs(u)
<1>1. pc'[u] = pc[u] /\ taskResult'[u] = taskResult[u] /\ units'[u] = units[u]
  BY OtherTasks
<1> QED
  BY <1>1 DEF Bugs, Errors, Runs, Underway

\* The sums that agree, by the names the lemmas give their terms.
LEMMA SumsOfTerms ==
    /\ BugsOf = [t \in Tasks |-> Bugs(t)]
    /\ ErrorsOf = [t \in Tasks |-> Errors(t)]
    /\ RunsOf = [t \in Tasks |-> Runs(t)]
BY DEF BugsOf, ErrorsOf, RunsOf, Bugs, Errors, Runs

\* Recording grows a sum of the statistics by what is recorded.
LEMMA RecordingGrows ==
    ASSUME RunTypes, NEW n \in Names, NEW b \in {0, 1}, NEW e \in {0, 1}, Recording(n, b, e)
    PROVE  /\ SumOf(Recorded("BugsFound"))' = SumOf(Recorded("BugsFound")) + b
           /\ SumOf(Recorded("ExecErrors"))' = SumOf(Recorded("ExecErrors")) + e
           /\ SumOf(Recorded("TotalRuns"))' = SumOf(Recorded("TotalRuns")) + 1
<1>1. stats \in [Names -> Statistics] /\ IsFiniteSet(Names)
  BY TaskRunAssumption DEF RunTypes
<1>2. /\ \A m \in Names : stats[m].TotalRuns \in Nat /\ stats[m].BugsFound \in Nat
                            /\ stats[m].ExecErrors \in Nat
      /\ stats'[n].TotalRuns = stats[n].TotalRuns + 1
      /\ stats'[n].BugsFound = stats[n].BugsFound + b
      /\ stats'[n].ExecErrors = stats[n].ExecErrors + e
      /\ \A m \in Names \ {n} : stats'[m] = stats[m]
  BY <1>1 DEF Recording, Statistics
<1> DEFINE bugs1 == [m \in Names |-> stats[m].BugsFound]
           bugs2 == [m \in Names |-> stats'[m].BugsFound]
           errors1 == [m \in Names |-> stats[m].ExecErrors]
           errors2 == [m \in Names |-> stats'[m].ExecErrors]
           runs1 == [m \in Names |-> stats[m].TotalRuns]
           runs2 == [m \in Names |-> stats'[m].TotalRuns]
<1>3. /\ Recorded("BugsFound") = bugs1 /\ Recorded("BugsFound")' = bugs2
      /\ Recorded("ExecErrors") = errors1 /\ Recorded("ExecErrors")' = errors2
      /\ Recorded("TotalRuns") = runs1 /\ Recorded("TotalRuns")' = runs2
  BY DEF Recorded
<1>4. \A m \in Names : /\ stats'[m].TotalRuns \in Nat /\ stats'[m].BugsFound \in Nat
                       /\ stats'[m].ExecErrors \in Nat
  BY <1>2
<1>5. /\ bugs1 \in [Names -> Nat] /\ bugs2 \in [Names -> Nat]
      /\ bugs2[n] = bugs1[n] + b /\ \A m \in Names \ {n} : bugs2[m] = bugs1[m]
  BY <1>2, <1>4
<1>6. /\ errors1 \in [Names -> Nat] /\ errors2 \in [Names -> Nat]
      /\ errors2[n] = errors1[n] + e /\ \A m \in Names \ {n} : errors2[m] = errors1[m]
  BY <1>2, <1>4
<1>7. /\ runs1 \in [Names -> Nat] /\ runs2 \in [Names -> Nat]
      /\ runs2[n] = runs1[n] + 1 /\ \A m \in Names \ {n} : runs2[m] = runs1[m]
  BY <1>2, <1>4
<1> HIDE DEF bugs1, bugs2, errors1, errors2, runs1, runs2
<1>8. SumOf(bugs2) = SumOf(bugs1) + b
  BY <1>1, <1>5, SumGrows
<1>9. SumOf(errors2) = SumOf(errors1) + e
  BY <1>1, <1>6, SumGrows
<1>10. SumOf(runs2) = SumOf(runs1) + 1
  BY <1>1, <1>7, SumGrows
<1>11. /\ SumOf(Recorded("BugsFound"))' = SumOf(bugs2)
       /\ SumOf(Recorded("ExecErrors"))' = SumOf(errors2)
       /\ SumOf(Recorded("TotalRuns"))' = SumOf(runs2)
  BY <1>3 DEF SumOf
<1> QED
  BY <1>3, <1>8, <1>9, <1>10, <1>11

\* The statistics and the tasks' counters grow together.
LEMMA SumsNext ==
    ASSUME RunTypes, \A u \in Tasks : AtLabel(u), StatsMatchResults, NEW t \in Tasks, TaskStep(t)
    PROVE  StatsMatchResults'
<1> DEFINE bugs1 == [u \in Tasks |-> Bugs(u)]
           bugs2 == [u \in Tasks |-> Bugs(u)']
           errors1 == [u \in Tasks |-> Errors(u)]
           errors2 == [u \in Tasks |-> Errors(u)']
           runs1 == [u \in Tasks |-> Runs(u)]
           runs2 == [u \in Tasks |-> Runs(u)']
<1>1. /\ BugsOf = bugs1 /\ BugsOf' = bugs2
      /\ ErrorsOf = errors1 /\ ErrorsOf' = errors2
      /\ RunsOf = runs1 /\ RunsOf' = runs2
  BY DEF BugsOf, ErrorsOf, RunsOf, Bugs, Errors, Runs
<1>2. /\ SumOf(BugsOf)' = SumOf(bugs2) /\ SumOf(ErrorsOf)' = SumOf(errors2)
      /\ SumOf(RunsOf)' = SumOf(runs2)
  BY <1>1 DEF SumOf
<1>3. \A u \in Tasks : Bugs(u) \in Nat /\ Errors(u) \in Nat /\ Runs(u) \in Nat
  BY TermTypes
<1>4. \A u \in Tasks \ {t} : Bugs(u)' = Bugs(u) /\ Errors(u)' = Errors(u) /\ Runs(u)' = Runs(u)
  BY TermsOfOthers
<1>5. CASE /\ stats' = stats
           /\ Bugs(t)' = Bugs(t) /\ Errors(t)' = Errors(t) /\ Runs(t)' = Runs(t)
  <2>1. bugs2 = bugs1 /\ errors2 = errors1 /\ runs2 = runs1
    BY <1>4, <1>5
  <2>2. \A field : SumOf(Recorded(field))' = SumOf(Recorded(field))
    BY <1>5 DEF Recorded, SumOf
  <2> HIDE DEF bugs1, bugs2, errors1, errors2, runs1, runs2
  <2> QED
    BY <1>1, <1>2, <2>1, <2>2 DEF StatsMatchResults
<1>6. ASSUME NEW n \in Names, NEW b \in {0, 1}, NEW e \in {0, 1}, Recording(n, b, e),
             Bugs(t)' = Bugs(t) + b, Errors(t)' = Errors(t) + e, Runs(t)' = Runs(t) + 1
      PROVE  StatsMatchResults'
  <2>1. /\ SumOf(Recorded("BugsFound"))' = SumOf(Recorded("BugsFound")) + b
        /\ SumOf(Recorded("ExecErrors"))' = SumOf(Recorded("ExecErrors")) + e
        /\ SumOf(Recorded("TotalRuns"))' = SumOf(Recorded("TotalRuns")) + 1
    BY <1>6, RecordingGrows
  <2>2. /\ bugs1 \in [Tasks -> Nat] /\ bugs2 \in [Tasks -> Nat]
        /\ bugs2[t] = bugs1[t] + b /\ \A u \in Tasks \ {t} : bugs2[u] = bugs1[u]
    <3>1. \A u \in Tasks : Bugs(u)' \in Nat
      BY <1>3, <1>4, <1>6
    <3> QED
      BY <1>3, <1>4, <1>6, <3>1
  <2>3. /\ errors1 \in [Tasks -> Nat] /\ errors2 \in [Tasks -> Nat]
        /\ errors2[t] = errors1[t] + e /\ \A u \in Tasks \ {t} : errors2[u] = errors1[u]
    <3>1. \A u \in Tasks : Errors(u)' \in Nat
      BY <1>3, <1>4, <1>6
    <3> QED
      BY <1>3, <1>4, <1>6, <3>1
  <2>4. /\ runs1 \in [Tasks -> Nat] /\ runs2 \in [Tasks -> Nat]
        /\ runs2[t] = runs1[t] + 1 /\ \A u \in Tasks \ {t} : runs2[u] = runs1[u]
    <3>1. \A u \in Tasks : Runs(u)' \in Nat
      BY <1>3, <1>4, <1>6
    <3> QED
      BY <1>3, <1>4, <1>6, <3>1
  <2>5. IsFiniteSet(Tasks)
    BY TaskRunAssumption
  <2> HIDE DEF bugs1, bugs2, errors1, errors2, runs1, runs2
  <2>6. SumOf(bugs2) = SumOf(bugs1) + b
    BY <2>2, <2>5, SumGrows
  <2>7. SumOf(errors2) = SumOf(errors1) + e
    BY <2>3, <2>5, SumGrows
  <2>8. SumOf(runs2) = SumOf(runs1) + 1
    BY <2>4, <2>5, SumGrows
  <2> QED
    BY <1>1, <1>2, <2>1, <2>6, <2>7, <2>8 DEF StatsMatchResults
<1> QED
  BY <1>5, <1>6, CountedAndRecorded

\* Nothing is recorded and nothing counted at first.
LEMMA SumsInit == ASSUME Init PROVE StatsMatchResults
<1>1. /\ Recorded("BugsFound") \in [Names -> Nat] /\ Recorded("ExecErrors") \in [Names -> Nat]
      /\ Recorded("TotalRuns") \in [Names -> Nat]
      /\ \A n \in Names : /\ Recorded("BugsFound")[n] = 0 /\ Recorded("ExecErrors")[n] = 0
                          /\ Recorded("TotalRuns")[n] = 0
  <2>1. \A n \in Names : /\ stats[n].BugsFound = 0 /\ stats[n].ExecErrors = 0
                         /\ stats[n].TotalRuns = 0
    BY DEF Init
  <2> QED
    BY <2>1 DEF Recorded
<1>2. \A t \in Tasks : Bugs(t) = 0 /\ Errors(t) = 0 /\ Runs(t) = 0
  <2> SUFFICES ASSUME NEW t \in Tasks PROVE Bugs(t) = 0 /\ Errors(t) = 0 /\ Runs(t) = 0
    OBVIOUS
  <2>1. taskResult[t] = NewTaskResult /\ units[t] = <<>> /\ pc[t] = "start"
    BY DEF Init
  <2>2. Underway(t) = 0 /\ Len(units[t]) = 0
    BY <2>1 DEF Underway
  <2> QED
    BY <2>1, <2>2 DEF Bugs, Errors, Runs, NewTaskResult
<1>3. /\ BugsOf \in [Tasks -> Nat] /\ ErrorsOf \in [Tasks -> Nat] /\ RunsOf \in [Tasks -> Nat]
      /\ \A t \in Tasks : BugsOf[t] = 0 /\ ErrorsOf[t] = 0 /\ RunsOf[t] = 0
  BY <1>2, SumsOfTerms
<1>4. IsFiniteSet(Names) /\ IsFiniteSet(Tasks)
  BY TaskRunAssumption
<1>5. /\ SumOf(Recorded("BugsFound")) = 0 /\ SumOf(Recorded("ExecErrors")) = 0
      /\ SumOf(Recorded("TotalRuns")) = 0
  BY <1>1, <1>4, SumOfZeros
<1>6. SumOf(BugsOf) = 0 /\ SumOf(ErrorsOf) = 0 /\ SumOf(RunsOf) = 0
  BY <1>3, <1>4, SumOfZeros
<1> QED
  BY <1>5, <1>6 DEF StatsMatchResults

-----------------------------------------------------------------------------
(* The invariant.                                                          *)

\* The invariant holds before any task has started.
LEMMA RunInit == ASSUME Init PROVE RunInvariant
<1>1. RunTypes
  BY TypesInit
<1>2. StatsMatchResults
  BY SumsInit
<1>3. ASSUME NEW t \in Tasks PROVE AtLabel(t) /\ Numbered(t) /\ Suspected(t) /\ Finished(t) /\ Shown(t)
  <2>1. /\ pc[t] = "start" /\ taskResult[t] = NewTaskResult /\ units[t] = <<>>
        /\ NewTaskResult.FalsePositiveDetails = <<>> /\ NewTaskResult.Stage2UnitErrNum = 0
        /\ NewTaskResult.Stage2UnitNum = 0
    BY DEF Init, NewTaskResult
  <2>2. AtLabel(t)
    BY <2>1 DEF AtLabel, Dealing
  <2>3. Suspected(t)
    BY <2>1 DEF Suspected
  <2> QED
    BY <2>1, <2>2, <2>3 DEF Numbered, Finished, Shown, Fresh
<1> QED
  BY <1>1, <1>2, <1>3 DEF RunInvariant

\* Every step of every task keeps the invariant.
LEMMA RunNext == ASSUME RunInvariant, [Next]_vars PROVE RunInvariant'
<1>1. CASE UNCHANGED vars
  <2>1. /\ \A t \in Tasks : unit(t)' = unit(t) /\ Underway(t)' = Underway(t)
        /\ \A k : UnitsOf(k)' = UnitsOf(k)
        /\ AggregateMode' = AggregateMode
    BY <1>1 DEF vars, local, setup, unit, Underway, UnitsOf, AggregateMode
  <2>2. RunTypes'
    BY <1>1 DEF RunInvariant, RunTypes, vars, local, setup
  <2>3. ASSUME NEW t \in Tasks
        PROVE  (AtLabel(t) /\ Numbered(t) /\ Suspected(t) /\ Finished(t) /\ Shown(t))'
    <3>1. /\ AtLabel(t) /\ Numbered(t) /\ Suspected(t) /\ Finished(t) /\ Shown(t)
          /\ UnitsOf(kind[t])' = UnitsOf(kind[t])
      BY <1>1 DEF RunInvariant, UnitsOf, vars, local, setup
    <3>2. AtLabel(t)'
      BY <1>1, <2>1, <3>1 DEF AtLabel, vars, local, setup
    <3>3. Numbered(t)' /\ Suspected(t)' /\ Finished(t)'
      BY <1>1, <3>1 DEF Numbered, Suspected, Finished, Fresh, vars, local, setup
    <3>4. Shown(t)'
      BY <1>1, <2>1, <3>1 DEF Shown, Fresh, UnitsOf, vars, local, setup
    <3> QED
      BY <3>2, <3>3, <3>4
  <2>4. StatsMatchResults'
    <3>1. /\ SumOf(Recorded("BugsFound"))' = SumOf(Recorded("BugsFound"))
          /\ SumOf(Recorded("ExecErrors"))' = SumOf(Recorded("ExecErrors"))
          /\ SumOf(Recorded("TotalRuns"))' = SumOf(Recorded("TotalRuns"))
      BY <1>1 DEF Recorded, SumOf, vars
    <3>2. BugsOf' = BugsOf /\ ErrorsOf' = ErrorsOf /\ RunsOf' = RunsOf
      BY <1>1 DEF BugsOf, ErrorsOf, RunsOf, Underway, vars, local
    <3>3. /\ SumOf(BugsOf)' = SumOf(BugsOf) /\ SumOf(ErrorsOf)' = SumOf(ErrorsOf)
          /\ SumOf(RunsOf)' = SumOf(RunsOf)
      BY <3>2 DEF SumOf
    <3> QED
      BY <3>1, <3>3 DEF RunInvariant, StatsMatchResults
  <2> QED
    BY <2>2, <2>3, <2>4 DEF RunInvariant
<1>2. CASE Next
  <2>1. PICK t \in Tasks : TaskStep(t)
    BY <1>2 DEF Next
  <2>2. RunTypes /\ \A u \in Tasks : AtLabel(u) /\ Numbered(u) /\ Suspected(u) /\ Finished(u) /\ Shown(u)
    BY DEF RunInvariant
  <2>3. RunTypes'
    BY <2>1, <2>2, TypesNext
  <2>4. ASSUME NEW u \in Tasks
        PROVE  (AtLabel(u) /\ Numbered(u) /\ Suspected(u) /\ Finished(u) /\ Shown(u))'
    <3>1. CASE u = t
      BY <2>1, <2>2, <3>1, LabelNext, NumberedNext, SuspectedNext, FinishedNext, ShownNext
    <3>2. CASE u # t
      <4>1. AtLabel(u) /\ Numbered(u) /\ Suspected(u) /\ Finished(u) /\ Shown(u)
        BY <2>2
      <4>2. AtLabel(u)'
        BY <2>1, <2>2, <3>2, <4>1, LabelOfOthers
      <4>3. Numbered(u)' /\ Suspected(u)' /\ Finished(u)' /\ Shown(u)'
        BY <2>1, <2>2, <3>2, <4>1, ReportsOfOthers
      <4> QED
        BY <4>2, <4>3
    <3> QED
      BY <3>1, <3>2
  <2>5. StatsMatchResults'
    BY <2>1, <2>2, SumsNext DEF RunInvariant
  <2> QED
    BY <2>3, <2>4, <2>5 DEF RunInvariant
<1> QED
  BY <1>1, <1>2

(* What is known of a task at each label, of its directory and of the      *)
(* statistics holds in every state, whatever the tasks are and however     *)
(* their steps interleave (task/*.go, runner.go and mutation_stats.go).    *)
THEOREM RunInvariance == Spec => []RunInvariant
BY RunInit, RunNext, PTL DEF Spec

(* The statistics add up to the counters of all tasks                      *)
(* (runner.go:74-87, 136, 192).                                            *)
THEOREM StatisticsExact == Spec => []StatsMatchResults
<1>1. RunInvariant => StatsMatchResults
  BY DEF RunInvariant
<1> QED
  BY <1>1, RunInvariance, PTL

(* PrioritizeUnits sorts by a strict weak order, whatever has been         *)
(* recorded (mutation_stats.go:69-101).                                    *)
THEOREM SortedByOrder == Spec => []UnitsSortable
<1>1. RunInvariant => UnitsSortable
  BY BeforeOrders DEF RunInvariant, RunTypes, UnitsSortable, Sortable
<1> QED
  BY <1>1, RunInvariance, PTL

(* A record of a false positive names the report with its number           *)
(* (runner.go:152-167).                                                    *)
THEOREM RecordsNameReports == Spec => []FalsePositivesAreReports
<1>1. RunInvariant => FalsePositivesAreReports
  <2> SUFFICES ASSUME RunInvariant, NEW t \in Tasks, NEW k \in DOMAIN taskResult[t].FalsePositiveDetails
               PROVE  LET record == taskResult[t].FalsePositiveDetails[k]
                      IN  /\ record.bugId < taskResult[t].ImpoBugsNum
                          /\ \A r \in bugs[t] : Fresh(t) /\ r.bugId = record.bugId =>
                                ~r.isErrorOracle /\ r.sqlId = record.sqlId /\ r.name = record.name
    BY DEF FalsePositivesAreReports
  <2> DEFINE record == taskResult[t].FalsePositiveDetails[k]
  <2>1. Suspected(t) /\ RunTypes
    BY DEF RunInvariant
  <2>2. /\ record.bugId < taskResult[t].ImpoBugsNum - One(pc[t] = "analyse")
        /\ \A r \in bugs[t] : Fresh(t) /\ r.bugId = record.bugId =>
              ~r.isErrorOracle /\ r.sqlId = record.sqlId /\ r.name = record.name
    BY <2>1 DEF Suspected
  <2>3. taskResult[t] \in TaskResult
    BY <2>1 DEF RunTypes
  <2>4. taskResult[t].ImpoBugsNum \in Nat /\ taskResult[t].FalsePositiveDetails \in Seq(FalsePositive)
    BY <2>3 DEF TaskResult
  <2>5. record.bugId \in Int
    <3>1. record \in FalsePositive
      BY <2>4
    <3> QED
      BY <3>1 DEF FalsePositive
  <2>6. One(pc[t] = "analyse") \in {0, 1}
    BY DEF One
  <2>7. \A a, b, c \in Int : c \in {0, 1} /\ a < b - c => a < b
    OBVIOUS
  <2>8. record.bugId < taskResult[t].ImpoBugsNum
    <3> HIDE DEF record
    <3> QED
      BY <2>2, <2>4, <2>5, <2>6, <2>7
  <2> QED
    BY <2>2, <2>8
<1> QED
  BY <1>1, RunInvariance, PTL

(* Every bug has a report of its own under its number, or its failure      *)
(* counted, whichever calls fail (runner.go:86-107, 135-189).              *)
THEOREM NumbersUnique == Spec => []ReportsNumbered
<1>1. RunInvariant => ReportsNumbered
  <2> SUFFICES ASSUME RunInvariant, NEW t \in Tasks, Fresh(t)
               PROVE  /\ Cardinality({r.bugId : r \in bugs[t]}) = Cardinality(bugs[t])
                      /\ \A r \in bugs[t] : r.bugId \in 0 .. taskResult[t].ImpoBugsNum - 1
                      /\ Cardinality(bugs[t]) + taskResult[t].SaveBugErrNum + One(pc[t] = "analyse")
                             = taskResult[t].ImpoBugsNum
    BY DEF ReportsNumbered
  <2> DEFINE ids == {r.bugId : r \in bugs[t]}
             id == [r \in bugs[t] |-> r.bugId]
  <2>1. /\ IsFiniteSet(bugs[t])
        /\ \A r, s \in bugs[t] : r.bugId = s.bugId => r = s
        /\ \A r \in bugs[t] : r.bugId \in 0 .. taskResult[t].ImpoBugsNum - 1
        /\ Cardinality(bugs[t]) + taskResult[t].SaveBugErrNum + One(pc[t] = "analyse")
               = taskResult[t].ImpoBugsNum
    BY DEF RunInvariant, Numbered
  <2>2. id \in Bijection(bugs[t], ids)
    <3>1. id \in Injection(bugs[t], ids)
      BY <2>1 DEF Injection, IsInjective
    <3>2. id \in Surjection(bugs[t], ids)
      BY DEF Surjection
    <3> QED
      BY <3>1, <3>2 DEF Bijection
  <2>3. Cardinality(ids) = Cardinality(bugs[t])
    <3> HIDE DEF id, ids
    <3>1. ExistsBijection(bugs[t], ids)
      BY <2>2 DEF ExistsBijection
    <3> QED
      BY <2>1, <3>1, FS_Bijection
  <2> QED
    BY <2>1, <2>3
<1> QED
  BY <1>1, RunInvariance, PTL

(* result.json means that the task is through, and counts the reports      *)
(* beside it (task.go:269, 438, 549-555, postgresql_task.go:68).           *)
THEOREM ResultLast == Spec => []ResultMeansFinished
<1>1. RunInvariant => ResultMeansFinished
  <2> SUFFICES ASSUME RunInvariant, NEW t \in Tasks, Fresh(t), resultFile[t] # {}
               PROVE  /\ pc[t] = "done"
                      /\ \A result \in resultFile[t] :
                            result.ImpoBugsNum - result.SaveBugErrNum = Cardinality(bugs[t])
                      /\ config.dbms = "mysql" /\ ~config.genMode => database[t] = "new"
                      /\ config.dbms = "postgresql" /\ config.genMode => database[t] = "old"
                      /\ config.publicConn <=> conn[t] = "public"
    BY DEF ResultMeansFinished
  <2>1. Finished(t) /\ Numbered(t) /\ RunTypes
    BY DEF RunInvariant
  <2>2. pc[t] = "done" /\ resultFile[t] \subseteq {taskResult[t]}
    BY <2>1 DEF Finished, Fresh
  <2>3. taskResult[t].ImpoBugsNum - taskResult[t].SaveBugErrNum = Cardinality(bugs[t])
    <3>1. taskResult[t] \in TaskResult
      BY <2>1 DEF RunTypes
    <3>2. taskResult[t].ImpoBugsNum \in Nat /\ taskResult[t].SaveBugErrNum \in Nat
      BY <3>1 DEF TaskResult
    <3>3. /\ IsFiniteSet(bugs[t])
          /\ Cardinality(bugs[t]) + taskResult[t].SaveBugErrNum + 0 = taskResult[t].ImpoBugsNum
      BY <2>1, <2>2 DEF Numbered, One
    <3>4. Cardinality(bugs[t]) \in Nat
      BY <3>3, FS_CardinalityType
    <3> QED
      BY <3>2, <3>3, <3>4
  <2> QED
    BY <2>1, <2>2, <2>3 DEF Finished, Fresh
<1> QED
  BY <1>1, RunInvariance, PTL

-----------------------------------------------------------------------------
(* What the oracle says.                                                   *)

\* Two counts are compared by their values, in the direction of the mutation.
LEMMA CountsCompared ==
    ASSUME NEW o, NEW m, NEW up \in BOOLEAN, NEW mode, ResultOf("COUNT", o), ResultOf("COUNT", m)
    PROVE  TaskCheck(o, m, up, mode) <=> Expected("COUNT", o, m, up)
<1>1. /\ Len(o.rows) = 1 /\ o.rows[1] \in NumericRows /\ IsNumber(o.rows[1])
      /\ Len(m.rows) = 1 /\ m.rows[1] \in NumericRows /\ IsNumber(m.rows[1])
  BY DEF ResultOf
<1>2. o.rows # <<>> /\ m.rows # <<>>
  BY <1>1
<1>3. isAggregateResult(o) /\ SingleNumbers(o, m)
  BY <1>1 DEF isAggregateResult, SingleNumbers
<1>4. TaskCheck(o, m, up, mode) <=> CheckAggregate(o, m, up)
  BY <1>3 DEF TaskCheck
<1>5. CheckAggregate(o, m, up) <=>
         IF up THEN AtLeast(NumberOf[m.rows[1]], NumberOf[o.rows[1]])
               ELSE AtLeast(NumberOf[o.rows[1]], NumberOf[m.rows[1]])
  BY <1>2, <1>3 DEF CheckAggregate
<1>6. Expected("COUNT", o, m, up) <=>
         IF up THEN AtLeast(NumberOf[m.rows[1]], NumberOf[o.rows[1]])
               ELSE AtLeast(NumberOf[o.rows[1]], NumberOf[m.rows[1]])
  BY DEF Expected, Grows
<1> QED
  BY <1>4, <1>5, <1>6

(* No COUNT passes that goes the wrong way, whatever the results are       *)
(* (aggregate_check.go:13-19).                                             *)
THEOREM CountsNotMissed == Spec => []NoMissedCount
<1>1. RunInvariant => NoMissedCount
  <2> SUFFICES ASSUME RunInvariant, NEW t \in Tasks,
                      pc[t] = "checked", check[t], kind[t] = "COUNT"
               PROVE  Expected(kind[t], original[t], unit(t).exec, unit(t).isUpper)
    BY DEF NoMissedCount
  <2>1. AtLabel(t) /\ RunTypes
    BY DEF RunInvariant
  <2>2. /\ units[t] # <<>> /\ ~unit(t).err /\ ~unit(t).exec.err
        /\ TaskCheck(original[t], unit(t).exec, unit(t).isUpper, AggregateMode)
        /\ ResultOf("COUNT", original[t])
        /\ \A k \in DOMAIN units[t] : units[t][k] \in UnitsOf("COUNT")
    BY <2>1 DEF AtLabel, Dealing
  <2>3. unit(t) \in UnitsOf("COUNT") /\ unit(t) \in Unit
    BY <2>1, <2>2, UnitTypes
  <2>4. ResultOf("COUNT", unit(t).exec) /\ unit(t).isUpper \in BOOLEAN
    BY <2>2, <2>3 DEF UnitsOf, Unit
  <2> QED
    BY <2>2, <2>4, CountsCompared
<1> QED
  BY <1>1, RunInvariance, PTL

\* Of two single rows, one is contained in the other only if their texts are equal.
LEMMA SingleContained ==
    ASSUME NEW s \in ResultSet, NEW r \in ResultSet, Len(s.rows) = 1, Len(r.rows) = 1,
           Contained(FlatRows(s), FlatRows(r))
    PROVE  FlatOf[s.rows[1]] = FlatOf[r.rows[1]]
<1> DEFINE x == FlatOf[s.rows[1]]
           y == FlatOf[r.rows[1]]
<1>1. x \in Texts
  BY DEF ResultSet, Texts
<1>2. FlatRows(s) = [j \in 1 .. 1 |-> FlatOf[s.rows[j]]] /\ FlatRows(r) = [j \in 1 .. 1 |-> FlatOf[r.rows[j]]]
  BY DEF FlatRows
<1>3. Len(FlatRows(s)) = 1 /\ Len(FlatRows(r)) = 1 /\ FlatRows(s)[1] = x /\ FlatRows(r)[1] = y
  BY <1>2
<1>4. Occurrences(FlatRows(s), x) = Cardinality({j \in 1 .. 1 : FlatRows(s)[j] = x})
  BY <1>3 DEF Occurrences, Occ
<1>5. Occurrences(FlatRows(r), x) = Cardinality({j \in 1 .. 1 : FlatRows(r)[j] = x})
  BY <1>3 DEF Occurrences, Occ
<1>6. {j \in 1 .. 1 : FlatRows(s)[j] = x} = {1}
  BY <1>3
<1>7. ASSUME x # y PROVE FALSE
  <2>1. {j \in 1 .. 1 : FlatRows(r)[j] = x} = {}
    BY <1>3, <1>7
  <2>2. Cardinality({}) = 0 /\ Cardinality({1}) = 1
    BY FS_EmptySet, FS_Singleton
  <2>3. Occurrences(FlatRows(s), x) <= Occurrences(FlatRows(r), x)
    BY <1>1 DEF Contained
  <2>4. Occurrences(FlatRows(s), x) = 1 /\ Occurrences(FlatRows(r), x) = 0
    BY <1>4, <1>5, <1>6, <2>1, <2>2
  <2> HIDE DEF x, y
  <2> QED
    BY <2>3, <2>4
<1> QED
  BY <1>7

\* What a correct DBMS returns for a mutation of an ordinary query passes.
LEMMA CorrectPasses ==
    ASSUME QueriesAreComparable,
           NEW o \in ResultSet, NEW m \in ResultSet, NEW up \in BOOLEAN, NEW mode,
           ~o.err, ~m.err, ~IsEmpty(o) /\ ~IsEmpty(m) => o.cols = m.cols,
           Expected("plain", o, m, up)
    PROVE  TaskCheck(o, m, up, mode)
<1>1. IF up THEN Contained(FlatRows(o), FlatRows(m)) ELSE Contained(FlatRows(m), FlatRows(o))
  BY DEF Expected, Grows
<1>2. Check(o, m, up)
  <2>1. CMP(o, m) = BagOrder(FlatRows(o), FlatRows(m))
    BY DEF CMP
  <2> QED
    BY <1>1, <2>1 DEF Check, BagOrder
<1>3. CheckAggregate(o, m, up)
  <2>1. ASSUME SingleNumbers(o, m)
        PROVE  /\ AtLeast(NumberOf[m.rows[1]], NumberOf[o.rows[1]])
               /\ AtLeast(NumberOf[o.rows[1]], NumberOf[m.rows[1]])
    <3>1. /\ Len(o.rows) = 1 /\ Len(m.rows) = 1
          /\ IsNumber(o.rows[1]) /\ IsNumber(m.rows[1])
      BY <2>1 DEF SingleNumbers
    <3>2. FlatOf[o.rows[1]] = FlatOf[m.rows[1]]
      BY <1>1, <3>1, SingleContained
    <3>3. o.rows[1] \in Rows /\ m.rows[1] \in Rows
      BY <3>1 DEF ResultSet
    <3>4. /\ NumberOf[o.rows[1]] = NumberOf[m.rows[1]]
          /\ NumberOf[o.rows[1]] # NaN /\ NumberOf[o.rows[1]] # NotNumber
      BY <3>1, <3>2, <3>3 DEF QueriesAreComparable, IsNumber
    <3>5. NumberOf[o.rows[1]] \in Int
      BY <3>3, <3>4, NumberAssumption
    <3> QED
      BY <3>4, <3>5 DEF AtLeast
  <2>2. CASE SingleNumbers(o, m)
    BY <2>1, <2>2 DEF CheckAggregate
  <2>3. CASE ~SingleNumbers(o, m)
    BY <1>2, <2>3 DEF CheckAggregate
  <2> QED
    BY <2>2, <2>3
<1> QED
  BY <1>2, <1>3 DEF TaskCheck

(* Every report of the implication oracle shows two results that           *)
(* contradict the direction of the mutation, as long as the results can    *)
(* be told apart by the comparison (oracle.go:9-12, aggregate_check.go:13-19). *)
THEOREM ReportsJustified == ASSUME QueriesAreComparable PROVE Spec => []NoFalseAlarm
<1>1. RunInvariant => NoFalseAlarm
  <2> SUFFICES ASSUME RunInvariant, NEW t \in Tasks, NEW r \in bugs[t],
                      Fresh(t), ~r.isErrorOracle
               PROVE  ~Expected(r.kind, r.original, r.mutated, r.isUpper)
    BY DEF NoFalseAlarm
  <2>1. Shown(t) /\ RunTypes
    BY DEF RunInvariant
  <2>2. /\ r.original \in Outcomes[config] /\ ~r.original.err
        /\ r.kind \in QueryKinds /\ ResultOf(r.kind, r.original)
        /\ \E u \in UnitsOf(r.kind) :
               ~u.err /\ u.exec = r.mutated /\ ~u.exec.err /\ u.isUpper = r.isUpper
        /\ ~TaskCheck(r.original, r.mutated, r.isUpper, AggregateMode)
    BY <2>1 DEF Shown
  <2>3. PICK u \in UnitsOf(r.kind) :
           ~u.err /\ u.exec = r.mutated /\ ~u.exec.err /\ u.isUpper = r.isUpper
    BY <2>2
  <2>4. /\ config \in Configs /\ u \in Units[config] /\ ResultOf(r.kind, r.mutated)
        /\ Units[config] \subseteq Unit /\ Outcomes[config] \subseteq ResultSet
    BY <2>1, <2>3, TaskRunAssumption DEF RunTypes, UnitsOf
  <2>5. r.original \in ResultSet /\ r.mutated \in ResultSet /\ r.isUpper \in BOOLEAN
    BY <2>2, <2>3, <2>4 DEF Unit
  <2>6. CASE r.kind = "COUNT"
    BY <2>2, <2>4, <2>5, <2>6, CountsCompared
  <2>7. CASE r.kind = "plain"
    <3>1. ~IsEmpty(r.original) /\ ~IsEmpty(r.mutated) => r.original.cols = r.mutated.cols
      BY <2>2, <2>3, <2>4 DEF QueriesAreComparable
    <3>2. ~r.mutated.err
      BY <2>3
    <3> QED
      BY <2>2, <2>5, <2>7, <3>1, <3>2, CorrectPasses
  <2>8. r.kind \in {"plain", "COUNT"}
    BY <2>2 DEF QueriesAreComparable
  <2> QED
    BY <2>6, <2>7, <2>8
<1> QED
  BY <1>1, RunInvariance, PTL

=============================================================================
