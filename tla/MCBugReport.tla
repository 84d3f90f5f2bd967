---------------------------- MODULE MCBugReport ----------------------------
(***************************************************************************)
(* Whatever looks at a single report again, one of the three in each       *)
(* behaviour: the detector of false positives, sqlsim on a report, and     *)
(* sqlsimx on a statement.  They share results and their comparison only;  *)
(* sqlsimx leaves most scripts to option ddl.                              *)
(***************************************************************************)
EXTENDS FalsePositive, SqlSim, SqlSimX

CONSTANTS MaxRows, None

\* Three re-executions, and 0.67.
ASSUME Threshold == ThresholdIsTwoThirds

\* Rows are tuples of small numbers; 1, 2 are the rows of sqlsim's table.
Bits(n) == [1 .. n -> 0 .. 1]
AllRows ==
    {<<n>> : n \in 0 .. 6} \cup Bits(2) \cup Bits(3) \cup {r \in Bits(4) : r[3] + r[4] = 1}
RowText == [r \in Rows |-> r]

-----------------------------------------------------------------------------
(* sqlsimx: two tables that share a column's name.                         *)

Create(table, cols) ==
    [kind |-> "create", table |-> table, ifNotExists |-> FALSE, cols |-> cols, keys |-> {},
     auto |-> {}, refer |-> NoTable, select |-> NoTable]
Insert(table, columns, rows) ==
    [kind |-> "insert", table |-> table, columns |-> columns, values |-> TRUE, rows |-> rows,
     onDuplicate |-> "fail"]
Drop(table, ifExists) == [kind |-> "drop", table |-> table, ifExists |-> ifExists]

T0 == Create("t0", <<"a", "b">>)
T1 == Create("t1", <<"a", "b">>)
T2 == Create("t2", <<"c", "b">>)
Rows1 == <<<<1, 1>>, <<0, 0>>, <<1, 1>>>>
Rows2 == <<<<1, 0>>, <<0, 1>>>>
Fill0 == Insert("t0", NoColumns, Rows2)
Rename0 == [kind |-> "rename", old |-> "t0", table |-> "t1"]
Fill1 == Insert("t1", NoColumns, Rows1)
Fill2 == Insert("t2", NoColumns, <<<<1, 0>>>>)
More2 == Insert("t2", NoColumns, <<<<0, 1>>>>)
More1 == Insert("t1", NoColumns, Rows2)

\* Scripts for t2 and t1: with keys in and apart from the columns, tables that
\* are created again, and all that rmtbcol only has to take away.
InA == [of |-> {"a"}, inColumn |-> TRUE]
OnA == [of |-> {"a"}, inColumn |-> FALSE]
OnAB == [of |-> {"a", "b"}, inColumn |-> FALSE]
Numbered(keys) == [T1 EXCEPT !.keys = keys, !.auto = {"a"}]
Upsert(how) == <<[T1 EXCEPT !.keys = {OnA}], [Fill1 EXCEPT !.onDuplicate = how]>>

Scripts1 ==
    {<<T1, [kind |-> "other"], More1, Insert("t1", NoColumns, <<<<0, 0>>>>)>>,
     <<Drop("t1", TRUE), T1, Fill1, Drop("t1", FALSE), Drop("t2", FALSE), T2, Fill2, More2, T1, More1>>,
     <<T1, More1, [T1 EXCEPT !.ifNotExists = TRUE]>>,
     <<[T1 EXCEPT !.keys = {InA, OnAB}], More1>>,
     <<Numbered({InA}), More1>>,
     <<Numbered({OnA}), More1>>,
     <<[T1 EXCEPT !.keys = {InA}], [Fill1 EXCEPT !.onDuplicate = "ignore"]>>,
     <<T1, [Fill1 EXCEPT !.onDuplicate = "update"]>>,
     <<T1, Insert("t1", <<"b", "a">>, <<<<1, 0>>>>)>>,
     <<T1, Insert("t1", <<"a">>, <<<<1>>, <<0>>>>)>>,
     <<T1, [More1 EXCEPT !.values = FALSE]>>,
     <<T0, Fill0, [Create("t1", <<>>) EXCEPT !.refer = "t0"], Fill1>>,
     <<T0, Fill0, [Create("t1", <<>>) EXCEPT !.select = "t0"]>>,
     <<T0, Fill0, Rename0>>, <<T0, Rename0, Fill1>>}
    \cup {Upsert(how) : how \in {"ignore", "update", "replace"}}

AfterT2(s) == <<[T2 EXCEPT !.ifNotExists = TRUE], Fill2>> \o s

DmlScripts == {AfterT2(<<T1, Fill1>>), AfterT2(<<T1, More1, More2>>)}

DdlScripts == DmlScripts \cup {AfterT2(s) : s \in Scripts1}

-----------------------------------------------------------------------------
(* One of the three.                                                       *)

DetectorIdle ==
    /\ detector = "failed" /\ mutationName \in Mutations /\ isUpper = TRUE
    /\ baseline = <<>> /\ origin = <<>> /\ round = 0 /\ consistent = 0
    /\ suspected = FALSE /\ seen = <<>>

SimIdle == dbms = None /\ report = None /\ bug = None /\ sqlsim = "left out" /\ simDML = 1

XIdle ==
    /\ script = <<>> /\ input = None /\ opt = "dml" /\ sqlsimx = "panic" /\ funcs = <<>>
    /\ dml = None /\ tree = None /\ positions = <<>> /\ newDDLs = <<>>

MCInit ==
    \/ DetectorInit /\ SimIdle /\ XIdle
    \/ SimInit /\ DetectorIdle /\ XIdle
    \/ xInit /\ (opt = "dml" => script \in DmlScripts) /\ DetectorIdle /\ SimIdle

MCNext ==
    \/ DetectorNext /\ UNCHANGED simVars /\ UNCHANGED xVars
    \/ SimNext /\ UNCHANGED detectorVars /\ UNCHANGED xVars
    \/ xNext /\ UNCHANGED detectorVars /\ UNCHANGED simVars

MCSpec == MCInit /\ [][MCNext]_<<detectorVars, simVars, xVars>>

-----------------------------------------------------------------------------
(* The detector: results of up to MaxRows equal rows.                      *)

ReExecuted ==
    {[err |-> FALSE, cols |-> IF rows = <<>> THEN 0 ELSE 1, rows |-> rows] :
        rows \in UNION {[1 .. n -> {<<1>>}] : n \in 0 .. MaxRows}}
    \cup {[err |-> TRUE, cols |-> 0, rows |-> <<>>]}

-----------------------------------------------------------------------------
(* sqlsim: reports of statements with zero or one table expression and up  *)
(* to three arms.                                                          *)

TwoRows == <<<<1>>, <<2>>>>
Everything == {<<1>>, <<2>>}

\* to_seconds swaps the rows, unix_timestamp makes them equal.
Images ==
    [x |-> [r \in Everything |-> r],
     to_seconds |-> [r \in Everything |-> <<3 - r[1]>>],
     unix_timestamp |-> [r \in Everything |-> <<1>>]]

Plain(from, where) ==
    [kind |-> "select", with |-> <<>>, from |-> from, where |-> where, field |-> "x", has |-> {}]
New(from, where) ==
    [Plain(from, where) EXCEPT !.field = "to_seconds", !.has = {"hint", "ORDER BY", "charset"}]

Wheres == {{<<1>>}, Everything}
FromT == {Plain("t", w) : w \in Wheres} \cup {New("t", w) : w \in Wheres}
FromC == {Plain("c", w) : w \in Wheres} \cup {New("c", {<<1>>})}

SetOp(op, sels) == [kind |-> "setop", with |-> <<>>, op |-> op, sels |-> sels]

Unions ==
    {SetOp(op, <<a, b>>) : op \in {"UNION", "UNION ALL", "EXCEPT"}, a \in FromT, b \in FromT}
    \cup {SetOp("UNION ALL", <<a, a, a>>) : a \in FromT}

Queries == FromT \cup {SetOp("UNION ALL", <<a, a>>) : a \in FromT}

Declared(q, query, simple) == [q EXCEPT !.with = <<[query |-> query, simple |-> simple]>>]

WithC ==
    {Declared(q, query, simple) : q \in FromC, query \in Queries, simple \in BOOLEAN}
    \cup {Declared(SetOp(op, <<a, b>>), query, TRUE) :
            op \in {"UNION", "UNION ALL"}, a \in FromC, b \in FromT, query \in FromT}

\* A WHERE that becomes 1 or 0, UNION and UNION ALL; the right arm of EXCEPT
\* grows nothing and is left alone.
WhereMutations(s) ==
    {[mutated |-> [s EXCEPT !.where = Everything], isUpper |-> TRUE],
     [mutated |-> [s EXCEPT !.where = {}], isUpper |-> FALSE]}

Rest(q) == [q.sels[1] EXCEPT !.with = q.with]

QueryMutations(q) ==
    IF q.kind = "select" THEN WhereMutations(q)
    ELSE UNION {{[mutated |-> [q EXCEPT !.sels[i] = m.mutated], isUpper |-> m.isUpper] :
                    m \in WhereMutations(q.sels[i])} :
                i \in (IF q.op = "EXCEPT" THEN {1} ELSE DOMAIN q.sels)}
         \cup (IF q.op = "UNION"
               THEN {[mutated |-> [q EXCEPT !.op = "UNION ALL"], isUpper |-> TRUE]} ELSE {})
         \cup (IF q.op = "UNION ALL"
               THEN {[mutated |-> [q EXCEPT !.op = "UNION"], isUpper |-> FALSE]} ELSE {})
         \cup (IF q.op = "UNION ALL" /\ Len(q.sels) = 2
               THEN {[mutated |-> Rest(q), isUpper |-> FALSE]} ELSE {})

StatementMutations(q) ==
    QueryMutations(q)
    \cup (IF q.with = <<>> THEN {}
          ELSE {[mutated |-> [q EXCEPT !.with[1].query = m.mutated], isUpper |-> m.isUpper] :
                    m \in QueryMutations(q.with[1].query)})

BugReports ==
    UNION {{[original |-> q, mutated |-> m.mutated, isUpper |-> m.isUpper] :
                m \in StatementMutations(q)} : q \in FromT \cup Unions \cup WithC}

\* The bug shows in any statement, or in those with one feature.
BuggyDBMSs ==
    {[when |-> f, where |-> change[1], instead |-> change[2], fails |-> fails] :
        f \in {{}, {"WITH"}, {"UNION ALL"}, {"hint"}, {"to_seconds"}},
        change \in {<<Everything, {<<2>>}>>, <<{}, {<<2>>}>>, <<{<<1>>}, {}>>},
        fails \in {{}, {"unix_timestamp"}}}

-----------------------------------------------------------------------------
(* sqlsimx: its statements.                                                *)

ColA == <<"t1", "a">>
ColB == <<"t1", "b">>

All == <<>>

Leaf(v) == [p \in {<<>>} |-> [op |-> IF Len(v) = 1 THEN "const" ELSE "col", v |-> v]]

Node(op, l, r) ==
    LET below(k, e) == [p \in {<<k>> \o q : q \in DOMAIN e} |-> e[Tail(p)]]
    IN  [p \in {<<>>} |-> [op |-> op, v |-> <<>>]] @@ below(1, l) @@ below(2, r)

Equal == {Node("=", Leaf(ColA), Leaf(ColB)), Node("=", Leaf(ColB), Leaf(<<1>>))}
Simple == {Leaf(ColA), Leaf(<<1>>), Node("+", Leaf(ColA), Leaf(ColB))} \cup Equal

Expressions ==
    Simple \cup {Node(op, l, r) : op \in {"AND", "OR"}, l \in Simple, r \in Simple}
    \cup {Node("=", l, Leaf(ColB)) : l \in Simple}

Fields == {<<ColA>>, <<ColB, ColA>>, <<All>>, <<All, ColA>>}

Select(count, distinct, fields, from, where) ==
    [count |-> count, distinct |-> distinct, fields |-> fields, from |-> from, where |-> where]

Joins == {Node("=", Leaf(<<"t2", "c">>), w) : w \in Simple}

Selections ==
    {Select(FALSE, d, f, <<"t1">>, w) : d \in BOOLEAN, f \in Fields, w \in Expressions}
    \cup {Select(TRUE, TRUE, f, <<"t1">>, w) : f \in {<<ColA>>}, w \in Expressions}
    \cup {Select(c, TRUE, <<ColA, <<"t2", "b">>>>, <<"t1", "t2">>, w) : c \in BOOLEAN, w \in Joins}
    \cup {Select(FALSE, FALSE, <<All>>, <<"t1", "t2">>, w) : w \in Joins}

Functions2 == {<<"rmBinOp01", "rmFields">>, <<"rmFields">>}
=============================================================================
