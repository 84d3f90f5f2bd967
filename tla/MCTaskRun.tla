------------------------------ MODULE MCTaskRun ------------------------------
(* Instances of TaskRun.  A row is its value; NULL and a text are rows     *)
(* too.  A task alone has results of up to two rows and one mutation of    *)
(* each statement; tasks of a pool have two mutations, one of which finds  *)
(* nothing or fails, while the other finds bugs only.                      *)
EXTENDS TaskRun

CONSTANTS NULLRow, TextRow, Errors

ValueOf == [r \in Rows |-> CASE r = NULLRow -> NotNumber
                             [] r = TextRow -> NotNumber
                             [] OTHER -> r]
RowText == [r \in Rows |-> r]
NumbersAndNulls == Rows \ {TextRow}

Result(rows) == [err |-> FALSE, cols |-> One(rows # <<>>), rows |-> rows]
ExecError == [err |-> TRUE, cols |-> 0, rows |-> <<>>]

ShortResults == {Result(rows) : rows \in UNION {[1 .. l -> Rows] : l \in 0 .. 2}}
OneText == Result(<<TextRow>>)
Nothing == Result(<<>>)

Executed(names, uppers, results) ==
    [name : names, isUpper : uppers, err : {FALSE}, exec : results, expected : {FALSE}]
Failing(uppers) ==
    [name : Errors, isUpper : uppers, err : {FALSE}, exec : {ExecError}, expected : BOOLEAN]
    \cup [name : Errors, isUpper : {TRUE}, err : {TRUE}, exec : {NoResult}, expected : {FALSE}]

ForAlone == Executed(Names \ Errors, BOOLEAN, ShortResults) \cup Failing(BOOLEAN)
ForPool ==
    Executed(Errors, {TRUE}, {OneText}) \cup Executed(Names \ Errors, {TRUE}, {Nothing})
    \cup Failing({TRUE})

OutcomesFor == [c \in Configs |-> IF c.publicConn THEN {OneText} ELSE ShortResults]
UnitsFor == [c \in Configs |-> IF c.publicConn THEN ForPool ELSE ForAlone]
MaxUnitsFor == [c \in Configs |-> IF c.publicConn THEN 2 ELSE 1]

Plain == {"plain"}
PlainAndCount == {"plain", "COUNT"}

Configuration(dbms, genMode, publicConn, aggregateMode) ==
    [dbms |-> dbms, genMode |-> genMode, publicConn |-> publicConn,
     aggregateMode |-> aggregateMode, removable |-> TRUE]

Mysql == {Configuration("mysql", FALSE, FALSE, FALSE)}
Pool == Configuration("postgresql", FALSE, TRUE, FALSE)
Everything ==
    {Configuration(dbms, genMode, FALSE, aggregateMode) :
        dbms \in DBMSs, genMode \in BOOLEAN, aggregateMode \in BOOLEAN}
    \cup {[Configuration("mysql", FALSE, FALSE, FALSE) EXCEPT !.removable = FALSE]}
    \cup {Pool}

ASSUME Comparable == QueriesAreComparable
=============================================================================
