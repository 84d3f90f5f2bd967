# TLA+ verification of impomysql (PINOLO)

impomysql looks for wrong results of database systems. It takes a query, mutates
it so that the new result must contain the old one (or be contained in it),
executes both, and reports a bug when the results contradict that. This directory
models the tool itself: if its own directions, comparisons or bookkeeping are
wrong, it reports correct databases or lets wrong ones pass.

Run `tlc -config X.cfg M` for the runs and `tlapm M.tla` for the proofs below.
`PROJECT.json` lists both, the source lines each definition stands for, and the
hazards the properties are for.

## 1. The system

| Component | Source | State it keeps | Operations | Modelled in |
|---|---|---|---|---|
| Task pool | `task/taskpool.go` | counters and lists of `TaskPoolResult` under a lock, a WaitGroup | take a connector, test limits, start a goroutine, count, save `result.json` | `TaskPool` |
| Connector pools | `connector/connectorpool.go`, `pg_connectorpool.go` | a buffered channel of connectors | create, `WaitForFree`, `BackToPool`, `Close` | `TaskPool` |
| Connectors | `connector/*.go` | a connection | `ExecSQL` (60 s timeout), `InitDBWithDDL` | as results in `Results` |
| Task | `task/task.go`, `postgresql_task.go`, `gaussdb_task.go`, `gaussdb_a_task.go` (four runners), `runner.go`, `bugreport.go` | `TaskResult`, the task's directory, its connection and database | set-up, statement loop, mutation units, reports | `TaskRun` |
| Stage 1 | `mutation/stage1` | syntax tree | removes what breaks the oracle: aggregates, LIMIT, outer joins, windows, random functions | `Stage1` |
| Stage 2, MySQL | `mutation/stage2/mutatevisitor.go` and one file per mutation | list of candidates | walk with a direction flag, mutate, restore | `MutateVisitor` |
| Stage 2, PostgreSQL | `mutation/stage2/pg_*.go` | candidates, one shared syntax tree | the same | `PgMutate` |
| Stage 2, GaussDB-M | `gaussdb_m_*.go` | hands everything on to the MySQL code | the same | `MutateVisitor` |
| LIKE and REGEXP patterns | `mutation/stage2/rdm*.go` | the pattern, rewritten in place | widen or narrow, coin by coin | `Patterns` |
| Mutation statistics | `mutation/stage2/mutation_stats.go` | runs, bugs, errors by mutation, shared by all tasks | `RecordResult`, `PrioritizeUnits` | `TaskRun` |
| Oracle | `mutation/oracle/oracle.go`, `aggregate_check.go` | none | `Check`, `CheckAggregate` | `Oracle` |
| False-positive detector | `mutation/oracle/false_positive.go` | counts of re-executions | `AnalyzePotentialFalsePositive` | `FalsePositive` |
| Results | `connector/result.go` | rows as texts | `CMP`, `FlatRows`, `normalizeNumeric` | `Results`, `ResultCMP`, `Numerals` |
| ckstable | `tool/ckstable` | directories `maystable`, `unstable` | re-execute and sort reports | `BugPipeline` |
| sqlsim | `tool/sqlsim` | directory `sqlsim`; the report in hand | simplify stable reports with eight functions | `BugPipeline` (which reports), `SqlSim` (how one is simplified) |
| sqlsimx | `tool/sqlsimx` | syntax tree of one statement | replace operands, remove fields; cut down the script of its database | `SqlSimX` |
| affversion, affclassify, affdbdeployer | `tool/affversion` | `affversion.db` | verify on one version or on all, classify, copy a report per version | `BugPipeline` |
| SQL extraction | `connector/extractsqls.go` | index, open quote | cut a file into statements | `ExtractSQL` |
| Query generator | `generator` | a scope per SELECT, alias numbers | queries over the tables found | `Generator` |
| Oracle preprocessor, schema discovery, EnhancedCMP, command line, data generators | `parser`, `connector/schema*.go`, `enhanced_cmp.go`, `main.go`, `tools` | - | text in, text out | not modelled (section 7) |

How they interact. The dispatcher of a **pool** receives connectors from the
channel and starts one goroutine per task; the goroutine owns the connector, and
with it one database, until it sends it back. A **task** reads statements, has
stage 1 clean each one, executes it, has stage 2 list and execute all mutations,
and goes through their results: errors may be executed again, results go to the
**oracle**, contradictions to the **detector** and then to a report file. Tasks
share the lock-protected pool result and the mutation statistics, nothing else.
The **tools** are separate processes that see only what the others left in the
task directories and in `affversion.db`.

What is hard:

- *concurrency*: the pool's goroutines, the stale test of the task limit, the
  order of counting, returning the connector and `wg.Done`; shared statistics;
- *semantics*: one wrong flip of a flag in a recursive visitor turns every result
  into a false alarm, in three-valued logic and over duplicated rows;
- *failure*: pool creation, statements and saves that fail half way; tools that
  panic or are killed and run again on what they left;
- *sequence*: mutations tried one after the other on one tree; a pair of statements
  simplified by one function after the other; a scope filled while the text that
  uses it grows;
- *boundaries*: empty results, duplicates, numerals with several spellings,
  subqueries without rows.

What makes each part correct:

| Part | It is correct when |
|---|---|
| pool | nobody writes to the database of a running task; the saved report is complete and final; nothing blocks for ever; all connections are closed |
| visitor and mutations | the direction claimed of a mutated query is the one its result takes |
| comparison | it tells containment of bags of rows, of numbers whatever their spelling |
| oracle | a correct database is never reported, a result that goes the wrong way always is |
| stage 1 | nothing the oracle cannot deal with is left at any depth, and nothing else is lost |
| task | every counted bug has its own report, the statistics add up, `result.json` means finished |
| detector | a bug is suspected for the documented reasons, and only for them |
| patterns | what matched still matches the wider pattern, whatever the coins |
| generator | each column named is one of the FROM clause at that point; a column is compared with what has the category of its type; a query ends |
| extraction | the statements of a file are those the DBMS would read |
| sqlsim | the simplified pair shows the same bug, and a correct DBMS would show none |
| sqlsimx | what is written has the result of what was given |
| tools | no bug is lost or verified twice, and a version is named only if it introduced the bug |

## 2. Modules

| Module | Contents |
|---|---|
| `TaskLedger` | abstract specification of a pool: fresh ids, one verdict each, one final report |
| `TaskPool` | dispatcher, goroutines, channel, lock, for both pool runners (variable `pg`) |
| `SqlLogic` | external: three-valued logic, quantified comparisons, copies of rows |
| `MutateVisitor` | one path of the MySQL visitor's walk and the candidate at its end |
| `PgMutate` | PostgreSQL statements, their candidates, and the loop that tries them on a shared tree |
| `PgAnswers` | what PostgreSQL answers to such a statement, and the direction of its mutations |
| `Results` | results, `FlatRows`, and what `CMP` and `Check` mean for bags |
| `ResultCMP` | `Result.CMP`, one loop iteration at a time |
| `Numerals` | `normalizeNumeric` on digits and exponents, and the number that a numeral stands for |
| `Oracle` | `Check`, `CheckAggregate` and the choice between them |
| `Stage1` | the walk over a syntax tree and what it takes out, for the four entry points |
| `TaskRun` | set-up of the four runners, units, reports, statistics |
| `Patterns` | the four pattern mutations, and matching by alignment |
| `Generator` | the generator's functions as a list of calls still to be made |
| `ExtractSQL` | the loop over the characters of a file of statements, and how the DBMS reads them |
| `SqlSim` | one report, the eight functions, and a DBMS with one bug |
| `SqlSimX` | one statement and its expression tree, one script, the database it builds and what that answers |
| `FalsePositive` | the detector, one execution at a time |
| `BugPipeline` | ckstable, sqlsim, affversion, affdbdeployer and affclassify as successive processes |
| `MC*` | instances; `MCBugReport` puts `FalsePositive`, `SqlSim` and `SqlSimX` side by side, `MCResultCMP` `ResultCMP` and `ExtractSQL` |
| `*Proofs` | theorems about the module they are named after; `StageProofs` is about `Stage1` and `MutateVisitor`, `ResultCMPProofs` about `Numerals`, `ExtractSQL` and `FalsePositive` as well, `PatternsProofs` about `PgMutate` and `PgAnswers` as well, `SqlSimProofs` about `SqlSimX` as well |

`MutateVisitor` and `PgMutate` extend `SqlLogic`; `Oracle`, `FalsePositive`,
`SqlSim` and `SqlSimX` extend `Results`, `TaskRun` extends `Oracle`, and `ResultCMP` implements the `CMP`
that `Results` defines for bags; `TaskPool` implements `TaskLedger`.

### State and actions

**TaskPool.** `pc` is the line of the dispatcher (`create`, `wait` on the channel,
`time` and `limit` tests, `start`, `join` = `wg.Wait`, `save`, `close`), `tpc[t]`
that of task t's goroutine (`initdb`, `exec`, `record`, `count`, `return` the
connector, `exit` = `wg.Done`). Each critical section of `taskPoolResult.lock` is
one step; the read of `FinishedTaskNum` and the test after the unlock are two.
`db[c]` are the tasks that ran DDL in connector c's database since it was created:
`InitDBWithDDL` drops it first, a task in `GenMode` (`genMode`, which only the MySQL pool
passes on) and a PostgreSQL task add to what is there. `IdBound` bounds the ids: once they are used up the loop goes on only when the time limit has expired.

**MutateVisitor.** A behaviour is one path from the root of a query to a
candidate. `flag` is the visitor's parameter; the ghost variable `ctx` is the
query's result as a function of the visited node, so "the flag is right" is
`ctx` growing or shrinking. Each `visit*` action is one recursive call of the
visitor, each `mining*` action the candidates added at a node, with the node's
value before and after the mutation. GaussDB-M's `CalCandidates` and mutations are
calls of the MySQL ones, so the module stands for both. A LIKE or REGEXP is a node
whose value can only grow (U) or shrink (L); that the rewriting of the pattern does
so is what `Patterns` shows.

**Patterns.** `new` is the pattern while it is rewritten and `i` the loop's index; a
step is one character with its coin, after the tests for a prefix and a suffix.
`Matches` cuts the text into one piece per character of the pattern and asks each
piece to fit; a quantifier belongs to the character before it.

**PgMutate.** Here the whole statement is state (`stmt`), because the PostgreSQL
code does not mutate the node it recorded: every `doFix*_Pg` searches the shared
tree (`root`) from the top and changes the first node that fits. `visitNode` is
the visitor; `doFix` the search and the change; `Deparses` whether the tree can be
printed; `PgImpoMutate` one iteration of the loop, including the mutations that
return the printer's error before they put the clause back; `NextName` the range
over a Go map, in any order. The visitor and the search are recursive functions on the
nodes of the trees (`Nodes`).

**PgAnswers.** What the database answers: `Meaning` of a condition is its value on each
row, of a query the copies of each value in its result. It is a recursive function over
the nodes, by one equation for each kind of node (`Answer`, `Result`) in terms of the
meaning of its parts. `Occurrences` gives each node of a statement the sign that the NOTs above it
make; a mutation is `Directed` if all nodes to which it applies, anywhere in the
statement, have one sign and none of them is an `Exception` (NOT IN and NULL, IS NOT
DISTINCT FROM NULL, ALL of a subquery without rows, BETWEEN SYMMETRIC with bounds out of
order, and ANY to ALL, which section 6 calls wrong), and if the three mutations that replace a WHERE by one of its nodes find that
node under ANDs, or under ORs, as the direction needs.

**Generator.** The functions call each other recursively; `todo` is the stack of
calls still to be made, so a step is what one function does between two calls.
`from` is the FROM clause as far as it is written, `columns` the scope, `written` the
reference and `compared` the comparison written last. `NULLIF` and `IN`, which compare
any two expressions, are an action of their own (`CompareAny`), with "any" on both sides.

**ExtractSQL.** `at` is the loop's index, `flag` the open quote; one action per case
of the switch. A script is a string of characters together with a reading of it
(`WellRead`): for each character what it is there for - outside of quotes, opening or
closing one, text, an escape or what is escaped, half of a doubled quote - and where the
statements end. The loop sees only the characters.

**Numerals.** A numeral is its sign, its digits before and after the point, and its
exponent. `Value` is the number in units of the last place looked at, `Printable` are
the spellings that a DBMS prints, `normalizeNumeric` the digits that are left.

**SqlSim.** `bug` is the report in memory; one action per function of
`SimDMLFuncs`, in that order. Statements are selects or set operations, with a table
expression or not, whose selects carry the features the functions remove. The
database has one wrong WHERE, which shows when certain features are present, and
may not know others: `ExecSQL` evaluates a statement on it. `SqlSim` executes the pair
anew before that, or leaves the report out.

**SqlSimX.** `tree` is the syntax tree a function works on, `positions` the nodes its
visitor still comes to: `EnterBinaryOperation` tries 1 (and 0) for each operand,
`EnterFieldList` each field, `EndFunction` compares once more and keeps all or
nothing. `rmtbcol` is one step for the whole script: `rmTable(n)` is what is left of its
statement n, `CutCreate` and `CutInsert` what is left of a CREATE TABLE and of an INSERT.
A CREATE TABLE has columns with or without a key of their own, keys apart from them, a
column that numbers the rows, IF NOT EXISTS, LIKE and AS SELECT; an INSERT has a list of
columns, rows from VALUES or from SET or SELECT, and something to do with duplicates. A
database is a function from the names of its tables to their columns, keys and rows, or
has failed; `InitDBWithDDL` goes through a script, `ExecX` through the choices of one row
of each table in FROM. What an INSERT does with duplicates is that of a table with one
key; with several keys only whether it fails is exact, which is all that `SameResult`
asks of the scripts it speaks of. The wildcard is the field that names nothing.

**ResultCMP.** `CountRow` and `ConsumeRow` are the two loops' iterations, `mp` the
map of counts.

**Stage1.** A tree is a function from its nodes to their kind, parent and the part
of the parent (`slot`) they stand in; it never changes. `cut` is the set of nodes
taken from their parents, `cleared` that of nodes turned into something harmless
(an outer join into an inner one, a function into a constant). `todo` is what the
walk has to enter, in any order. `Enter(n)` is one call of the TiDB visitors' `Enter`
with the `rm*` functions it calls, after which the children that are left are
visited; `Transform(n)` the recursion of `stage1_pg.go`, which follows FROM only;
`Filter` the two tests for which GaussDB-A skips a statement.

**TaskRun.** `Running` are the tasks that exist: both tasks of a pool, or `Lone`
alone, in any configuration. `config` is the task's configuration: the runner (`dbms`), whether
queries are generated, whether the connection is a pool's, whether aggregates are
kept, whether the operating system lets the task empty its directory (`removable`).
`StartTask` does that (`NewDirectory`: where it cannot, any of the old files remain) and
connects, `SetUpDatabase` builds the
tables as that runner does it - MySQL stops at the first DDL error, the others log
it, generated queries need tables to be there - and `database` says whether the
task's own DDL has been run there, in part, or tried without looking at its errors. `Closes` is the deferred `Close`. `MutateStatement` covers stage 1, the execution of the original and
`MutateAllAndExec`; then one unit after the other passes `UnitError`,
`UnitExecError`/`ReExecute`, or `CheckUnit`, `NoBug`/`LogicalBug`,
`AnalyseAndSave`. What the DBMS and the disk do is chosen freely.

**BugPipeline.** `Start` begins any command, `Killed` and `Panic` end the process
anywhere, each task goroutine handles one bug per step. A directory is made anew in
steps of its own, and removed file by file (`Remains`), so that a process may die with
any of its files left. `kind` and `introduced`
are the truth about a bug that the tools try to find out. `NextImage` is
affdbdeployer's loop: the pool of affversion again, on an older version, those that
cannot be deployed being passed over. `AffClassify` writes the JSON file
(`vListPairs`), `EmptyAffPack` empties the directory (`emptied`: since the file was
written), `SaveFirstBug` copies one report; a missing one is a panic, that is `Killed`.

## 3. Runs

| Run | Shows | Bounds |
|---|---|---|
| `taskpool` | both runners: the inductive invariant, types included; a running task's database is changed by nobody else, and where tasks refill it holds that task's data only; sends never block; the limit is overshot by at most ThreadNum - 1; `result.json` complete and final; `Close` finds every connector; connections closed; the pool implements `TaskLedger`; under fairness the runner returns and every goroutine ends | 2 connectors, 4 ids, limit 2, both limits |
| `visitor_sound` | the flag is the polarity of the path; each mutation keeps its containment; the claimed direction is right | integers 1, 2, NULL; all mutations; paths of any depth |
| `resultcmp` | the loop invariant; `CMP` is containment of bags; numbers are compared whatever their spelling; a file of statements is cut where each ends | up to 3 rows, numerals of up to 3 places before and after the point, with exponents, three kinds of connector; scripts of two statements and a rest, with every kind of quote, escape and doubled quote |
| `taskrun` | reports numbered, statistics exact, sort order lawful, records name their report; in every configuration of the four runners `result.json` means a finished task, if its directory could be emptied, and a pool's connection stays open; no false alarm and no missed COUNT, with and without `aggregateMode`; tasks end | two tasks of a pool with 1 statement of up to 2 mutations each; one task alone with results of up to 2 rows of numbers, NULL and text, in 18 configurations |
| `bugreport` | suspicion exactly for the stated reasons; the pair sqlsim saves shows the bug and a correct DBMS would not; sqlsimx keeps the result, and the script it cuts gives it | 3 re-executions (as all runners configure), up to 3 rows; tables of 2 rows, statements of up to 3 arms, with and without WITH, 30 faulty DBMSs; expressions of up to 3 operators, 20 scripts of up to three tables, with keys, duplicates, LIKE, SELECT, DROP and RENAME, fields with the wildcard |
| `patterns` | at no point of the rewriting does an upper mutation lose a text, or a lower one gain one | all patterns of up to 4 characters for LIKE and 3 for REGEXP, all texts of up to 3 letters, all coins |
| `generator` | each column named belongs to exactly one table of its FROM clause as written so far; a column of a known type is compared with what has its category, and conditions over such columns compare nothing else; every query ends | 5 databases (two tables of known types; with json, with bool, with uuid and jsonb; no columns; empty), expression depth 2, with and without JOIN |
| `pg_units` | each PostgreSQL query produced is one mutation of the original, in any order of names, although the shared tree may be left damaged; directions right wherever the mutation is `Directed` | 173 statements |
| `stage1` | what is executed is the statement without what stage 1 removes, at any depth, and with all the rest | all syntax trees of up to 4 nodes, and those with a fifth below the last; 4 entry points; any order of the walk |
| `bugpipeline` | reports sorted once, verified once and completely, classified by the right version, the first report of each version copied | 2 tasks, 2 versions, any 5 commands, each of which may be killed |
| `taskrun_missed` | **violated**: a lost row passes when the original result is one number | 1 mutation |
| `pg_candidate` | **violated**: the direction is the candidate's, the mutated node another one | 1 statement |

Why the bounds are enough. Two connectors are the least with concurrency and a
shared channel; with a limit of two and four ids the pool can overshoot the limit,
reuse a connector, and lose an id to a failed `SELECT 1`. The invariants are proved
for all values. The visitor's state does not grow with the depth of the path
(`ctx` ranges over 27 maps), so that run is complete for its integers; two integers
and NULL give every outcome of a comparison, and the theorems hold for any set of
integers. Three rows give `CMP` duplicates on both sides and a remainder; it is
proved for any length. Two tasks and two mutations make shared
statistics, reordering and a report number that could be reused. Five commands let
every tool run, one of them twice, and affversion run on both versions; two bugs in
two tasks on one connector let a process die between tasks. Two rows let a wrong
WHERE drop, add or exchange a row; with three features in a statement any of the
eight functions may be the one whose change hides the bug and is taken back. A
pattern of three or four characters holds a prefix, a suffix and a quantified
character between them; the theorem holds for any length. Depth two is the least at
which an expression is below one that is below a condition. A step of stage 1 looks
at a node, its children and, for windows in a select list, its grandchildren; trees
of five nodes have each of these below something that changes itself, and the
theorem holds for trees of any size. The 173 statements are
all combinations of one or two conditions of each kind, under AND, OR and NOT, with
joins, HAVING, set operations, common table expressions, subqueries, LIKE, SIMILAR TO and
BETWEEN, with and without SYMMETRIC.

Deadlock is checked except where processes really stop: the finished comparison,
task, detector, simplification and loop over a file, the walk of stage 1, and a
pipeline that gets no further command.

`visitor_sound` assumes contexts in which functions, scalar subqueries and uses of
a common table expression grow with their argument, set operations are unions, and
quantified subqueries have rows; `ImplicationHolds` excepts `<=>` to `=`. Each of
these is an assumption of the code that a database query can break (section 6).
`pg_units` asks for the direction of a unit only if its mutation is `Directed`, which
most are; for the others `pg_candidate`, with
`EveryImplicationHolds`, shows what happens. `PatternOrdered` speaks of
patterns in which nothing is escaped (`Plain`). `TypesComparable` holds of every
database, but it speaks of columns of `KnownTypes`, and of conditions in which all
columns are of such a type: columns of Boolean and of unknown types, and any two
expressions in the select list, are compared with what PostgreSQL may reject (section 6). `SimplifiedBug` leaves out the reports that the functions must
change out of step (`OutOfStep`), `SameResult` the scripts that cannot be cut, each of
which changes the result (`Reducible`, section 6);
`StatementsFound` is about MySQL's syntax, `NumbersCompared` about every printed number
but a floating-point "-0".

What the constants are assumed to be is stated by named `ASSUME`s, which hold of all
instances: scripts are read as MySQL reads them (`ScriptsAssumption`), rows are printed
numbers with their normal texts (`NumeralsAssumption`), trees have the shapes of the
parser (`StatementsAssumption`) and are finite (`TreesAssumption`), reports are a
statement and a mutation of it, one implying the other (`ReportsAssumption`), a script
does not fail and the statement names tables and columns of the database it builds
(`XAssumption`).

## 4. Fairness

`FairSpec` of `TaskPool`: weak fairness of the dispatcher and of each goroutine.
Go's scheduler runs every runnable goroutine; statements have a timeout of 60 s
(`connector.go`), so a task ends. The time limit expires eventually if there is
one: a clock. No fairness is assumed of choices (which task fails, which bug is
found). `TaskRun` assumes weak fairness of a task's next step for the same reason.
`Generator` has weak fairness of `Next`: it is sequential code that waits
for nothing, and `Generated` shows that its recursion ends whatever is chosen. All
other properties are safety.

## 5. Proofs

For every value of the constants, from the `ASSUME`s in the modules:

| Theorem | States |
|---|---|
| `TaskPoolTypes`, `PoolInvariance`, `ResultInvariance` | `TypeOK`; the two halves of the inductive invariant, `PoolInvariant` and `ResultInvariant` |
| `TaskIsolation` | one holder per connector; whoever else wrote to a running task's database came earlier and has given the connector back; a database that is refilled holds that task's data only |
| `TaskLimit` | at most `MaxTasks + ThreadNum - 1` tasks start |
| `SendNeverBlocks`, `CloseMeetsAll` | `BackToPool` finds room in the channel, `Close` every connector it waits for |
| `PgLeavesNoneOpen` | the PostgreSQL runner returns with no connection open |
| `SavedResult`, `ResultStaysFrozen` | the saved result counts every task started, each under the right verdict; no step changes it |
| `PoolImplementsLedger` | every behaviour of the pool is one of `TaskLedger` |
| `VisitorTypes`, `FlagIsPolarity` | the flag is 0 or 1, and is the polarity of the path |
| `NodesContained` | what a node had before its mutation it keeps on the larger side, in any context |
| `OracleSound` | the claimed direction is right for every mutation but `<=>` to `=` |
| `CMPLoops`, `CMPCorrect` | the loop invariant; `CMP` returns how the results compare as bags |
| `NumbersNormalized` | two printed numerals have one normal text exactly when they are one number |
| `NumbersComparedCorrect` | `CMP` compares bags of numbers, whatever their spelling |
| `ScriptRead` | the statements found are those of the script, for every script that MySQL can read |
| `SuspicionExplained` | the detector suspects a bug exactly for the stated reasons |
| `SortPermutes`, `SortedByOrder` | `PrioritizeUnits` permutes the units and sorts them stably, by a strict weak order |
| `RunInvariance` | the inductive invariant `RunInvariant` of the tasks |
| `NumbersUnique`, `RecordsNameReports` | each bug has a report of its own; records of false positives name theirs |
| `StatisticsExact` | the shared statistics add up to the counters of all tasks |
| `ResultLast` | in a directory that could be emptied, `result.json` means a task that is through, in all configurations of the runners |
| `ReportsJustified`, `CountsNotMissed` | every report shows a contradiction; no COUNT that goes the wrong way passes |
| `PipelineInvariance` | the inductive invariant `PipelineInvariant` of the tools |
| `PipelineSortedOnce`, `PipelineVerifiedOnce`, `PipelineVerifiedAll` | reports are sorted once, verified once and, without errors, all of them |
| `PipelineClassifiedRight`, `PipelineOnlyResults` | affclassify names the version that introduced a bug and copies the first report of each version it lists; errors are never taken for wrong results |
| `GeneratorInvariance`, `ReferencesResolve` | the inductive invariant `GeneratorInvariant`; each column named is one of exactly one entry of the FROM clause |
| `ComparisonsTyped` | for every schema, a column of a known type is compared with what has its category, and conditions over such columns compare nothing else |
| `UnitsAreIndependent` | each query that `PgMutate` produces is one mutation of the original, whatever was tried before on the tree |
| `UnitsKeepTheirPromise` | where a mutation is `Directed`, the query of each of its units has more or fewer rows than the statement, as the unit says |
| `LostNotWrong` | if a clause is left replaced in the tree, no query is produced any more |
| `SimplifiedReportsAreBugs` | the pair that sqlsim saves shows the bug, and a DBMS without it is consistent on it: for every statement, table and bug |
| `SimplifiedSameResult` | operands that sqlsimx replaces one by one, and what it writes, keep the result: for every script that can be cut, every statement and list of functions |
| `Stage1Types`, `StageCleans` | `StageTypeOK`; the executed statement has nothing of what stage 1 removes, and all the rest |
| `PatternSoundness` | what matched a plain pattern matches the widened one, at every point of the rewriting, and the reverse for L: for every alphabet, pattern and text |

*TaskPool.* Exclusiveness alone is not inductive. `PoolInvariant` adds what is known
at each line (`Control`), that ids are handed out in order and each has its
goroutine (`IdsInOrder`), that `wg` and `FinishedTaskNum` count exactly the
goroutines they stand for (`CountersExact`), and the room left under the limit at
the points where the stale counter is used (`StartRoom`). From exclusiveness and
the pigeonhole principle the channel has room at every send. From `CountersExact`
a task that passes the limit test leaves at most ThreadNum - 1 others unfinished.

*The pool's report.* What is saved is right only if nothing is lost before and nothing
happens after. `ResultInvariant` adds that every connector is in the channel, with
the dispatcher or with one goroutine (`Accounted`), that all ids but the last one have
a goroutine and that these have ended once the dispatcher has waited (`Joined`), and
that a task is in the list of its verdict, once, as soon as it has recorded one
(`Verdicts`); `ReportCurrent` says that the file still is what the variables say. With
the channel full when all goroutines have ended, `Close` finds `ThreadNum` connectors
there. For `TaskLedger` each action is mapped on its own: handing out an id, a verdict
under the lock and the report are the ledger's three steps, everything else
stutters, and that the ledger's guards hold is what `Joined` and `Verdicts` say.

*MutateVisitor.* Assumption `OrderedContexts` names the fragment. `FlagIsPolarity`
goes by induction on the walk: each visit composes `ctx` with a step that keeps the
order (flag kept) or reverses it (flag flipped), for which there is a lemma per
operator of `SqlLogic`. `OracleSound` adds that each mutation moves the value of its
node in its direction, and composes the two. For `NodesContained` the contexts do not
matter: a candidate is compared with its own node, mutation by mutation.

*ResultCMP.* The invariant states the map between two iterations by counting
occurrences: after counting, `mp[x]` is how often x occurs; while consuming, it is
the remainder not yet used up, and `allInAnother` says that no row was missing.
How often x occurs among the first rows is the cardinality of a set of positions;
`OccNext` is what one more row adds to it.

*FalsePositive.* While the detector runs, `suspected` is the verdict on the baseline and
`consistent` the number of rounds seen that went back; a round that failed is neither
seen nor back. The code compares with 0.67, the property speaks of two
thirds; that they are the same is the hypothesis `ThresholdIsTwoThirds`: it holds for the 3 re-executions and
0.67 of all runners (`task/task.go:477` and its likes; checked by the run), but would
not for 5, where 4 of 6 executions are 66.7 per cent.

*TaskRun.* `RunInvariant` says what is known at each label of a task (`AtLabel`),
that the numbers of its reports are below its counter and no two of them equal
(`Numbered`), what a record of a false positive is about (`Suspected`), what is in the
directory (`Finished`), and what every report shows (`Shown`). The statistics belong
to no task: their sums have to equal those of all tasks' counters. `SumOf` is not a fold but the size of a
set, in which each task (or mutation) has as many pairs as its counter says; a step
adds one pair, or none, and leaves those of the others. `PrioritizeUnits` is the stable sort by `Before`; that
`Before` is a strict weak order for any statistics is arithmetic on cross-multiplied
rates, and with it the places of the units are a bijection. `ReportsJustified` needs
`QueriesAreComparable`: no MIN and MAX, which the oracle compares like counts, no NaN,
a mutation keeps the number of columns, and rows with equal texts are equal numbers
(section 6 has what happens otherwise). The instance that is checked satisfies it.
`CountsNotMissed` needs no hypothesis.

*BugPipeline.* The tools share nothing but what they left on disk, and each may die
anywhere; so the invariant has a part about the disk alone (`RecordsTrue`, and that
maystable and unstable have no report in common) and a part about the process that
is running: while ckstable sorts, what is to be done and the two directories make up
the bugs of the task (`Sorting`); while affversion verifies, a bug to be done has no
record for this version and one that is done has (`Verifying`). A process that is
killed gives up the second part, and the next one gains it again when it starts, which
is why each tool may be run again on what was left. ckstable that dies between its two
directories leaves one of this run and one of the last: still without a common report,
because the new one is empty. `ClassifiedRight` follows because
records of a wrong result agree with the versions that have it: the lowest version
with a 1, if the one below it has a 0 or there is none, is the one that introduced it.

*Generator.* That a column resolves depends on aliases, and they are numbers that
begin again with each statement while the calls still to be made belong to the old
one or the new one. `GeneratorInvariant` says that aliases in FROM are different
(`AliasesUnique`) and below the counter while the statement is being written
(`AliasesUsed`), that each column in scope is one of an entry of FROM (`ScopeKnown`),
that before the outer query there are only tables of the schema in it
(`TablesDiscovered`), and that the query around a table expression is the last call
made (`OuterQueryLast`), for it begins a scope of its own. That conditions compare only
what they can (`ComparisonsTyped`) depends on where an expression may stand: any two
are compared by `NULLIF` and `IN`, and PostgreSQL may reject that, but conditions call
expressions only for columns of unknown types. `ComparisonInvariant` says that the calls of the
clauses wait in the order of the clauses (`InOrder`), that WHERE waits as long as the
select list does (`WhereFollows`), so that the calls that wait before another clause
can be told from those of the select list, and that those of a condition are no expressions and
no values of unknown types (`ConditionsTyped`).

*Stage1.* That nothing is left says something about every node that can be reached
from the root when the walk is over; the walk knows only where it has been. The
invariant therefore says that each node entered is clean, and that the nodes
entered and those still to enter are together closed under the children that are
left. When nothing is left to enter, the entered nodes alone are such a closed set,
and so contain all that is reachable. `cut` only grows, so a node found clean stays
clean, and a child taken away is no longer asked for.

*Patterns.* What a pattern matches is stated by an alignment: cut points of the text,
one for each character of the pattern. No induction over the text is needed: an
alignment of the old pattern is one of the new. `LikeFits` and `RegExpFits` say that
the piece a character fits is also one its replacement fits, `PrefixRemoved` and
`SuffixRemoved` that without an anchor the pattern gains a piece of text at its end.
The invariant carries the matching from step to step, together with the fact that
nothing is escaped, which every step keeps.

*Induction.* The library's induction theorems take the predicate as an operator, which
the provers cannot instantiate. Here the predicate is a set: `Induction` says that a set
with 0 and with the successor of each of its numbers contains `Nat`, and follows from
`LeastNumber`, which is the library's well-founded order of the numbers. That a recursive
function exists is proved in the same way (`BuildExists`, `CutExists`,
`AccumulationExists` and their likes), before its equation is used.

*Numerals.* The digits of a numeral, place by place, determine the number and are
determined by it (`MagnitudeSame`, by induction on the places). The normal text keeps the digits; and two normal texts with the
same digits are equal, because their first and last digits are not zeros that could be
dropped. What is left is the sign of zero, which `normalizeNumeric` takes away from
"-0.0" and `Printable` excludes otherwise. Equal texts are then equal numbers, and
`NumbersCompared` is what `CMPIsContainment` says of texts.

*ExtractSQL.* `LoopInvariant`, which the run's instance was checked for as well: the
statements found are the first n of the script, the next starts after the last end, and
the flag is what the last character leaves open (`LeftOpen`). Halfway through a doubled
quote the loop believes that the literal is closed; it opens it again with the next
character. That the loop never stands on an escaped character is part of the invariant,
for there it would take a quote for a real one.

*PgMutate.* The tree is as it was parsed, or a clause of it has been replaced by a constant
(`TreeIntactOrBroken`). No later mutation changes such a constant, because each goes for
nodes of another kind, and the printer prints no tree that has one: once a clause is
lost so are the remaining queries, and none of them is wrong (`LostNotWrong`).

*PgAnswers.* The unit's direction is computed from one node and the query is made by
changing another. Every induction is over the depth of the tree (`TreeInduction`): first,
that each candidate listed by the visitor has the sign of some node that its mutation
applies to (`CandidatesFound`; the invariant `CandidatesKnown` keeps that for the queue
and the units), so that in a `Directed` statement it is the sign of all such nodes; then,
that a changed node moves its condition up or down as its kind asks (`NodeMoves`), that
the clause moves with it or, under NOT, against it (`SearchMoves`, and `KeptMoves` where
the clause is replaced by the node), and that a query has more rows when one clause keeps
more (`ClauseMoves`). A query in which a clause was replaced by a constant is not printed,
so nothing is claimed for it. Recursive functions are shown to exist before they are used
(`VisitNode`, `SearchInExpr`, `OccurrencesOf`, `MeaningOf`), and every condition to be
true, false or unknown on a row (`AnswersHold`). Assumed are finitely many values and
nodes, parts less deep than what they are part of, and that a mutated condition is again a
condition (`TreesAssumption`).

*SqlSim.* That one result is contained in the other is stated by an embedding: each row
of the one has a row of its own, equal to it, in the other (`Within`). Embeddings go
through selection, fields, UNION ALL and the other set operations (`KeptWithin`,
`SetOperationWithin`), and through the accumulation of a list of arms, by induction on
it; so a pair of statements that are related node by node (`Below`, `Implies`) stays
related when both are changed alike (`Sync`). The invariant is that the pair still shows
its bug on this DBMS and is still related, or was to be changed out of step; a DBMS
without the bug answers related statements with contained results.

*SqlSimX.* For option dml the invariant is that the statement reached has the result, and
so has the syntax tree while `rmBinOp01` is under way: `TryOperand` keeps it for any
operand, whatever was replaced before.
For option ddl the databases that the two scripts build are `Related`, statement by
statement: each table that the statement names has, in the second one, the columns it
names (`SavedNames`), and the same rows with the values of those columns, in order
(`Projected`), and no key that the first one lacks, so that an INSERT which meets no
duplicate there meets none here. An INSERT finds the columns by the CREATE TABLE it
follows (`LastCreate`), which is why a renamed table and a list of columns are excepted;
with a wildcard the two tables are equal but for their keys. An
answer depends on nothing but the choices of rows and the values of named columns
(`AlikeAnswered`), and so the answers are equal.

Only model-checked:

- *liveness*: `AllFinish`, `Generated` and `PoolReturns`, which rest on fairness and thus
  on ENABLED, which the provers do not support.

## 6. Disagreements met while modelling

Shown by a run: `taskrun_missed`, `pg_candidate` (see
`PROJECT.json`, findings). Seen in the source, without a run:

- `task/taskpool.go:237` compares finished, not started tasks: more than "Maximum
  number of tasks" (`README.md:331`) are run. `StartBound` states by how many.
- A task does not start from its own data everywhere: `postgresql_task.go:146` runs the
  DDL on what earlier tasks of the connector left and only logs errors, a task in
  `GenMode` runs no DDL at all (`task.go:422`), and `PgConnectorPool.ResetDB`, "used when
  a task needs to reset its database state" (`pg_connectorpool.go:98`), has no caller.
- `mutatevisitor.go:497` visits function arguments, although `:73` says that the
  recursion stops at functions; `NULLIF` or `IF` reverse the order.
- `mutatevisitor.go:129` visits a table expression with the flag of its query,
  wherever it is used; `:239` a scalar subquery as if its value grew with its rows.
- `fixmcmpopl.go:77`: `<=>` to `=` makes NULL of FALSE; under NOT the direction is
  wrong. `alltoany.go:18` and `allmutations.go:66`: ALL is contained in ANY only
  when the subquery has rows.
- The right operand of EXCEPT keeps its flag in both visitors.
- `aggregate_check.go:47` expects MIN to grow, `:16` says that it decreases; `:56`
  reports a MAX that was NULL; NaN is never >= itself; SUM and AVG are called not
  sound there and compared nevertheless.
- `result.go:144` returns "-0" unchanged, `:170` means to handle it; `:79` joins
  columns with commas, so that different rows may get one text.
- `postgresql.go:248` prints a NUMERIC by way of a float64.
- `runner.go:87` records an error that came back a second time in the statistics.
- `false_positive.go:111` judges rounds by `Check` when `CheckAggregate` found the bug.
- `affversion.go:127` loses the error of `getBugsFromDB` in an inner scope.
- PostgreSQL: `pg_alltoany.go` and `pg_isnotdistinct.go` add mutations documented as
  lower with U = 1; `isNotAExpr` looks for "!" or "NOT" but NOT IN is named `<>`;
  BETWEEN and IS NOT DISTINCT FROM replace the whole WHERE; BETWEEN SYMMETRIC is treated
  like BETWEEN (`pg_between_drop.go:18`, `pg_mutatevisitor.go:278`), so that
  `x BETWEEN SYMMETRIC 2 AND 1` becomes `x >= 2`, which is said to have more rows; a WHERE, HAVING or ON
  constant never yields a query; DISTINCT candidates are never found. The suffix
  check in `addPgCandidate` applies to the pattern mutations only - the other names
  end in `_Pg` - and never fails there. SIMILAR TO is never mutated: the parser wraps
  the pattern in a call of `similar_to_escape`, and `pg_mutate_functions.go:1148`
  expects a constant.
- `pg_stage2.go:41` says that the tree is restored, but `makeTrueNode` builds a node
  that the deparser cannot print, and `doFixMWhere1U_Pg`, `doFixMWhere0L_Pg` and their
  HAVING twins return its error (`pg_mutate_functions.go:52`) before they put the
  clause back: the constant stays in the tree, and with it nothing prints any more.
- `stage1/doc.go:10` says "remove Limit": `rmlimit.go:9` removes it from a select, not
  from a set operation. `doc.go:6` says that window functions are removed;
  `rmwindow.go` removes the named windows and leaves `OVER w`, and a window inside an
  expression keeps its specification. The branch for `any_value` in
  `rmuncertain.go:89` cannot be reached.
- `stage1_pg.go:19-23` lists removals that the walk makes only in the query and the
  joins and subqueries of its FROM; aggregates, uncertain functions, subqueries in
  WHERE, table expressions and the operands of set operations stay as they are.
- `gaussdb_task.go:119` counts skipped statements, which `InitForMMode` never returns.
- `README.md:173` has the meaning of `IsUpper` reversed against `oracle.go:11`.
- Patterns: `rdmlikeu.go:65` and the like rewrite characters whatever stands before
  them. `\_` becomes `\%`, `\+` becomes `\*`, of `\$` a lone backslash is left, `[+]`
  becomes `[*]`; and bytes, not characters, so that a multi-byte character may become
  several. The comment says that a normal character becomes `_` or `%`; the code
  writes `%` only.
- Generator: `typeConstraint` is "any" everywhere, so the lists of functions for other
  types are dead. A PostgreSQL bool column is compared with 1 and 0, one of a type
  that `generateTypeCompatibleValue` does not know (uuid, jsonb) with any expression, or
  BETWEEN two integers, against `bool_expr_gen.go:9`. In the select list `IN`
  (`expr_gen.go:315`) and `NULLIF` (`expr_gen.go:240`) compare expressions of any two
  types, as in `(t0.id) IN ('str_7', t0.s)`, and arithmetic, COALESCE and CASE combine
  them; PostgreSQL rejects that. An int4 column finds no other column, because
  `typeMatch("int4", "int")` is false. The arms of a UNION get one to three columns
  each, independently; IFNULL may get one argument and REPLACE two; `from_gen.go:46`
  speaks of a list with commas, which the text has not when `EnableJoin` is false; the
  two columns of an ON may be of one table; `EnableSelfJoin` is never set by the
  tasks. A query of a table expression finds no columns and is `SELECT *`. The pool
  runners hand `GenDepth` and `GenQueries` on without the defaults of
  `NewTaskConfig`.
- `extractsqls.go:50` takes the character after a backslash within quotes of any kind:
  but in PostgreSQL's plain literals and in MySQL's backquotes it is a character like
  any other. A last statement without a semicolon is dropped.
- `sqlsim.go:131`: "must be synchronized". FixMRmUnionAllL turns `WITH c ... A UNION ALL
  B` into a select, and `frmWith`, which looks at selects only, replaces that one
  statement by the query of its table expression: a pair that has nothing in common
  is kept when it differs. The arms that `rmUnion` takes lose the WITH they may need
  (they then fail, and are not kept). A report whose statement fails once is left out
  (`sqlsim.go:105`).
- sqlsimx: the script that `rmtbcol` writes gives another result, or fails, in these
  cases. `:99` drops the column list of an INSERT but not the order of its values; `:101`
  and `:103` drop SET and SELECT, and the rows with them; `:167-176` looks for column
  names, and a wildcard has none (`SELECT * FROM company WHERE age > 25`,
  `test_dml.sql:3`, keeps `age` only); `:44-48` take LIKE, SELECT and the keys away: no
  column is left, or no key for IGNORE, REPLACE, ON DUPLICATE or AUTO_INCREMENT; a
  statement that names no column makes a CREATE TABLE without columns; `:41` drops a table
  that CREATE TABLE IF NOT EXISTS would leave; a DROP TABLE or RENAME TABLE stays although
  its table went (`:127`). `:116` panics when a row has too few values (`CannotCut`). The
  options that go (`:50`) may be a character set, which changes comparisons; the model
  has no texts. `rmfields.go` tries each field with all the others there, and loses the
  work if they cannot go together.
- `task.go:269` and its likes discard the errors of `RemoveAll` and `MkdirAll`: a
  directory that cannot be emptied keeps reports and `result.json` of an earlier run,
  which count as this run's. The same holds of the tools' directories
  (`ckstable.go:43`, `sqlsim.go:53`, `affclassify.go:192`), of which `BugPipeline` assumes
  that they can be emptied.
- `affclassify.go:184` writes the list before `:192` empties the directory of reports: a
  process that dies in between leaves reports of an earlier run beside the new list.
- `affclassify.go:202` panics when a report is gone that `affversion.db` still knows.

## 7. Not modelled

- *Drivers, schema discovery, the command line, data generators, the defaults and
  checks of the configuration file*: I/O and text without control that a property is
  about.
- *The Oracle preprocessor*: a rewriting of text by regular expressions, for the mode A
  of GaussDB only, whose result is another dialect.
- *EnhancedCMP*: not called by any runner or tool.
- *Parse errors in sqlsim*: they end the command like any other error (`Panic` in
  `BugPipeline`).

## 8. Plan

Done in this order: pool, visitor, results and oracle, task with the set-up of the
four runners, detector, tools, PostgreSQL mutations, stage 1; patterns, generator,
the simplifications, extraction; proofs for pool, visitor, comparison, stage 1 and
patterns; then for the pool's report and its refinement of `TaskLedger`, the tasks and
their statistics, the tools, the detector and the generator; then for numbers,
extraction, the shared tree of PostgreSQL and the directions of its mutations, and both
simplifications. What could follow:

1. `EnhancedCMP`, once a runner calls it.
2. `GenDepth`'s bound on the length of a generated query, as a variant that decreases.
