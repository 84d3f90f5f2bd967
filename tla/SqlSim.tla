-------------------------------- MODULE SqlSim --------------------------------
(***************************************************************************)
(* tool/sqlsim: one bug report is simplified, so that it can be executed   *)
(* on old versions of the DBMS.  Eight functions in a fixed order each     *)
(* change the original and the mutated statement in the same way, execute  *)
(* both, and keep the change if the oracle still sees the bug.             *)
(*                                                                         *)
(* A statement is a select or a set operation of two or more, of a table   *)
(* "t" or of the common table expression "c" that it declares (with, empty *)
(* or one long).  A select has a WHERE, which is the set of rows it keeps, *)
(* a function around its one field ("x" if there is none), and whatever    *)
(* else older versions do not know (has).                                  *)
(*                                                                         *)
(* A DBMS has one bug: when a statement has certain features, a certain    *)
(* WHERE keeps other rows.  It fails on statements with other features.    *)
(***************************************************************************)
EXTENDS Results, SequencesExt

CONSTANTS
    Table,       \* the rows of t
    Image,       \* Image[f][r]: what function f makes of row r
    Reports,     \* the reports: original, mutated, isUpper
    DBMSs        \* [when, where, instead, fails]

VARIABLES
    dbms,
    report,      \* the report that was read
    bug,         \* the report as simplified so far, with its results
    sqlsim,      \* "start", "running", "saved" or "left out"
    simDML       \* the function of SimDMLFuncs that is next

simVars == <<dbms, report, bug, sqlsim, simDML>>

-----------------------------------------------------------------------------
(* Statements.                                                             *)

IsSelect(q) == q = [kind |-> "select", with |-> q.with, from |-> q.from,
                    where |-> q.where, field |-> q.field, has |-> q.has]

IsSetOp(q) ==
    /\ q = [kind |-> "setop", with |-> q.with, op |-> q.op, sels |-> q.sels]
    /\ q.op \in {"UNION", "UNION ALL", "INTERSECT", "EXCEPT"}
    /\ q.sels \in Seq(ToSet(q.sels)) /\ q.sels # <<>>
    /\ \A i \in DOMAIN q.sels : IsSelect(q.sels[i]) /\ q.sels[i].with = <<>>

IsQuery(q) == IF q.kind = "select" THEN IsSelect(q) ELSE IsSetOp(q)

IsStatement(q) ==
    /\ IsQuery(q)
    /\ \/ q.with = <<>>
       \/ /\ q.with = <<[query |-> q.with[1].query, simple |-> q.with[1].simple]>>
          /\ IsQuery(q.with[1].query) /\ q.with[1].query.with = <<>>

\* The selects of a statement, without those of its table expression.
Arms(q) == IF q.kind = "select" THEN <<q>> ELSE q.sels

Selects(q) == ToSet(Arms(q)) \cup UNION {ToSet(Arms(q.with[i].query)) : i \in DOMAIN q.with}

Features(q) ==
    UNION {s.has \cup {s.field} : s \in Selects(q)}
    \cup (IF q.kind = "setop" THEN {q.op} ELSE {})
    \cup (IF q.with = <<>> THEN {} ELSE {"WITH"})

\* f[s] is what becomes of select s.
InArms(q, f) ==
    IF q.kind = "select" THEN f[q] ELSE [q EXCEPT !.sels = [i \in DOMAIN @ |-> f[@[i]]]]

InTable(cte, f) == [cte EXCEPT !.query = InArms(@, f)]

\* q after a visitor has been to every SelectStmt.
Visited(q, f) == [InArms(q, f) EXCEPT !.with = [i \in DOMAIN @ |-> InTable(@[i], f)]]

-----------------------------------------------------------------------------
(* Reports of the implication oracle: one of the two statements selects no *)
(* row more often than the other does.                                     *)

Narrower(s, t) ==
    s.from = t.from /\ s.field = t.field /\ s.has = t.has /\ s.where \subseteq t.where

\* A WHERE, UNION ALL, or the second arm of a UNION ALL has been changed; the
\* arms that EXCEPT takes away have not.
Below(p, q) ==
    IF p.kind = q.kind
    THEN /\ Len(Arms(p)) = Len(Arms(q))
         /\ \A i \in DOMAIN Arms(p) : Narrower(Arms(p)[i], Arms(q)[i])
         /\ p.kind = "setop" => p.op = q.op \/ (p.op = "UNION" /\ q.op = "UNION ALL")
         /\ p.kind = "setop" /\ p.op = "EXCEPT" =>
                \A i \in 2 .. Len(Arms(p)) : Arms(p)[i].where = Arms(q)[i].where
    ELSE /\ q.kind = "setop" /\ q.op = "UNION ALL" /\ Len(q.sels) = 2
         /\ Narrower(p, q.sels[1])

Implies(p, q) ==
    /\ Below(p, q)
    /\ Len(p.with) = Len(q.with)
    /\ \A i \in DOMAIN p.with : /\ p.with[i].simple = q.with[i].simple
                               /\ Below(p.with[i].query, q.with[i].query)
    /\ p.kind = "setop" /\ p.op = "EXCEPT" => \A i \in 2 .. Len(Arms(p)) : Arms(p)[i].from # "c"

ASSUME ReportsAssumption ==
    \A r \in Reports :
        /\ IsStatement(r.original) /\ IsStatement(r.mutated) /\ r.isUpper \in BOOLEAN
        /\ IF r.isUpper THEN Implies(r.original, r.mutated) ELSE Implies(r.mutated, r.original)

ASSUME TableAssumption == Table \in Seq(Rows)

ASSUME DBMSsAssumption ==
    \A d \in DBMSs :
        d = [when |-> d.when, where |-> d.where, instead |-> d.instead, fails |-> d.fails]

-----------------------------------------------------------------------------
(* What the DBMS answers.                                                  *)

\* Set operations are left-associative.
SetOperation2(op, l, r) ==
    CASE op = "UNION ALL" -> l \o r
      [] op = "UNION"     -> SetToSeq(ToSet(l \o r))
      [] op = "INTERSECT" -> SetToSeq(ToSet(l) \cap ToSet(r))
      [] op = "EXCEPT"    -> SetToSeq(ToSet(l) \ ToSet(r))

Kept(s, d, features) ==
    IF d.when \subseteq features /\ s.where = d.where THEN d.instead ELSE s.where

SelectRows(s, c, d, features) ==
    LET source == IF s.from = "c" THEN c ELSE Table
        kept == Ascending({j \in DOMAIN source : source[j] \in Kept(s, d, features)})
    IN  [k \in DOMAIN kept |-> Image[s.field][source[kept[k]]]]

QueryRows(q, c, d, features) ==
    LET rows[n \in DOMAIN Arms(q)] ==
            LET arm == SelectRows(Arms(q)[n], c, d, features)
            IN  IF n = 1 THEN arm ELSE SetOperation2(q.op, rows[n - 1], arm)
    IN  rows[Len(Arms(q))]

\* A statement that names the table expression without declaring it fails.
Fails(q, d) ==
    \/ Features(q) \cap d.fails # {}
    \/ q.with = <<>> /\ \E s \in Selects(q) : s.from = "c"

ExecSQL(q, d) ==
    IF Fails(q, d) THEN [err |-> TRUE, cols |-> 0, rows |-> <<>>]
    ELSE LET c == IF q.with = <<>> THEN <<>>
                  ELSE QueryRows(q.with[1].query, <<>>, d, Features(q))
             rows == QueryRows(q, c, d, Features(q))
         IN  [err |-> FALSE, cols |-> IF rows = <<>> THEN 0 ELSE 1, rows |-> rows]

\* A version of the DBMS without the bug.
Correct(d) == [d EXCEPT !.instead = d.where]

-----------------------------------------------------------------------------
(* The functions.                                                          *)

Contradict(r1, r2, isUpper) == ~r1.err /\ ~r2.err /\ ~Check(r1, r2, isUpper)

\* The oracle still sees the bug.
StillSeen(sql1, sql2) == Contradict(ExecSQL(sql1, dbms), ExecSQL(sql2, dbms), bug.isUpper)

With(sql1, sql2) ==
    [bug EXCEPT !.OriginalSql = sql1, !.OriginalResult = ExecSQL(sql1, dbms),
                !.MutatedSql = sql2, !.MutatedResult = ExecSQL(sql2, dbms)]

SimDMLFuncs == <<"frmWith", "rmUnion", "frmHint", "rmOrderBy",
                 "frmTimeFunc", "frmStrFunc", "frmInfoFunc", "frmCharset">>

Func(name) ==
    /\ sqlsim = "running" /\ SimDMLFuncs[simDML] = name
    /\ simDML' = simDML + 1
    /\ sqlsim' = IF simDML = Len(SimDMLFuncs) THEN "saved" ELSE sqlsim
    /\ UNCHANGED <<dbms, report>>

Synchronized(sql1, sql2) == bug' = IF StillSeen(sql1, sql2) THEN With(sql1, sql2) ELSE bug

\* The query of the only, non-recursive table expression of a select.
frmWithUnit(q) ==
    IF q.kind = "select" /\ q.with # <<>> /\ q.with[1].simple THEN q.with[1].query ELSE q

frmWith ==
    Func("frmWith") /\ Synchronized(frmWithUnit(bug.OriginalSql), frmWithUnit(bug.MutatedSql))

\* Mutant: the arms are taken from the two statements in the opposite order.
rmUnion_Crossed ==
    /\ Func("rmUnion")
    /\ IF Len(Arms(bug.OriginalSql)) = 2 /\ Len(Arms(bug.MutatedSql)) = 2
       THEN LET seen == {i \in 1 .. 2 :
                            StillSeen(Arms(bug.OriginalSql)[i], Arms(bug.MutatedSql)[3 - i])}
            IN  bug' = IF 1 \in seen THEN With(bug.OriginalSql.sels[1], bug.MutatedSql.sels[2])
                       ELSE IF 2 \in seen
                       THEN With(bug.OriginalSql.sels[2], bug.MutatedSql.sels[1])
                       ELSE bug
       ELSE UNCHANGED bug

\* The first or the second arm of both; WITH does not go with them.
rmUnion ==
    /\ Func("rmUnion")
    /\ IF Len(Arms(bug.OriginalSql)) = 2 /\ Len(Arms(bug.MutatedSql)) = 2
       THEN LET seen == {i \in 1 .. 2 :
                            StillSeen(bug.OriginalSql.sels[i], bug.MutatedSql.sels[i])}
            IN  bug' = IF 1 \in seen THEN With(bug.OriginalSql.sels[1], bug.MutatedSql.sels[1])
                       ELSE IF 2 \in seen
                       THEN With(bug.OriginalSql.sels[2], bug.MutatedSql.sels[2])
                       ELSE bug
       ELSE UNCHANGED bug

Without(feature, q) == Visited(q, [s \in Selects(q) |-> [s EXCEPT !.has = @ \ {feature}]])

Removes(feature) ==
    Synchronized(Without(feature, bug.OriginalSql), Without(feature, bug.MutatedSql))

frmHint == Func("frmHint") /\ Removes("hint")
rmOrderBy == Func("rmOrderBy") /\ Removes("ORDER BY")
frmCharset == Func("frmCharset") /\ Removes("charset")

Renamed(old, new, q) ==
    Visited(q, [s \in Selects(q) |-> [s EXCEPT !.field = IF @ = old THEN new ELSE @]])

Renames(old, new) ==
    Synchronized(Renamed(old, new, bug.OriginalSql), Renamed(old, new, bug.MutatedSql))

frmTimeFunc == Func("frmTimeFunc") /\ Renames("to_seconds", "unix_timestamp")
frmStrFunc == Func("frmStrFunc") /\ Renames("to_base64", "oct")
frmInfoFunc == Func("frmInfoFunc") /\ Renames("format_bytes", "charset")

-----------------------------------------------------------------------------
(* One report.                                                             *)

NoResult == [err |-> FALSE, cols |-> 0, rows |-> <<>>]

\* ckstable has kept the report because its results contradict each other.
SimInit ==
    /\ dbms \in DBMSs
    /\ report \in Reports
    /\ Contradict(ExecSQL(report.original, dbms), ExecSQL(report.mutated, dbms), report.isUpper)
    /\ bug = [OriginalSql |-> report.original, OriginalResult |-> NoResult,
              MutatedSql |-> report.mutated, MutatedResult |-> NoResult,
              isUpper |-> report.isUpper]
    /\ sqlsim = "start" /\ simDML = 1

\* A report is left out if one of its statements happens to fail now.
SqlSim ==
    /\ sqlsim = "start"
    /\ \/ sqlsim' = "left out" /\ UNCHANGED bug
       \/ sqlsim' = "running" /\ bug' = With(bug.OriginalSql, bug.MutatedSql)
    /\ UNCHANGED <<dbms, report, simDML>>

SimNext ==
    \/ SqlSim
    \/ frmWith \/ rmUnion \/ frmHint \/ rmOrderBy
    \/ frmTimeFunc \/ frmStrFunc \/ frmInfoFunc \/ frmCharset

SimSpec == SimInit /\ [][SimNext]_simVars

-----------------------------------------------------------------------------

\* Only one of the two statements is a select with a table expression: the
\* mutation (FixMRmUnionAllL) took the other one's second arm away.
OutOfStep == report.original.kind # report.mutated.kind /\ report.original.with # <<>>

(* What sqlsim writes is a bug, and the same kind of bug: the DBMS         *)
(* contradicts itself on the simplified pair, and a correct one would not, *)
(* however many of the changes were kept (sqlsim.go:90, :128: "must be     *)
(* synchronized").  Not if the functions change the pair out of step.      *)
SimplifiedBug ==
    sqlsim = "saved" =>
        /\ bug.OriginalResult = ExecSQL(bug.OriginalSql, dbms)
        /\ bug.MutatedResult = ExecSQL(bug.MutatedSql, dbms)
        /\ Contradict(bug.OriginalResult, bug.MutatedResult, bug.isUpper)
        /\ OutOfStep \/ Check(ExecSQL(bug.OriginalSql, Correct(dbms)),
                              ExecSQL(bug.MutatedSql, Correct(dbms)), bug.isUpper)
=============================================================================
