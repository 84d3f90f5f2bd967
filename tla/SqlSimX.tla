------------------------------- MODULE SqlSimX -------------------------------
(***************************************************************************)
(* tool/sqlsimx: one statement is simplified as long as its result stays   *)
(* the same (option dml), or the script that builds its database is cut    *)
(* down to the tables and columns the statement names (option ddl).        *)
(*                                                                         *)
(* A statement selects fields from the product of some tables, or counts   *)
(* the rows of such a derived table.  An expression is a function from the *)
(* positions in its tree to nodes: <<>> is the root, and p \o <<1>> and    *)
(* p \o <<2>> are the operands of the node at p.  A column is              *)
(* <<table, name>>, the constant n is <<n>>, in expressions and fields;    *)
(* the field <<>> is the wildcard.                                         *)
(***************************************************************************)
EXTENDS Results, SequencesExt

CONSTANTS
    Scripts,     \* sequences of CREATE TABLE, INSERT, DROP TABLE, RENAME TABLE
                 \* and others, which change nothing here
    Statements,  \* [count, distinct, fields, from, where]
    DmlFuncs,    \* the functions that option dml may run, in order
    NoColumns,   \* an INSERT without a list of columns
    NoTable      \* a CREATE TABLE without LIKE, or without SELECT

VARIABLES
    script, input, opt,    \* what sqlsimx is given
    sqlsimx,               \* "running", "written" or "panic"
    funcs,                 \* functions still to run, the current one first
    dml,                   \* the statement as simplified by earlier functions
    tree,                  \* the syntax tree of the current function
    positions,             \* where its visitor goes next
    newDDLs                \* the script that is written

xVars == <<script, input, opt, sqlsimx, funcs, dml, tree, positions, newDDLs>>

-----------------------------------------------------------------------------
(* What the DBMS makes of a script.                                        *)

\* A database: its tables, and whether a statement failed.
NoTables == [failed |-> FALSE, tables |-> [t \in {} |-> <<>>]]
Fail(db) == [failed |-> TRUE, tables |-> db.tables]

\* db with one more table, or with that table instead of the one of its name.
WithTable(db, name, table) ==
    [db EXCEPT !.tables = [t \in DOMAIN @ \cup {name} |-> IF t = name THEN table ELSE @[t]]]

WithoutTable(tables, old) == [t \in DOMAIN tables \ {old} |-> tables[t]]

\* LIKE takes the columns and keys of a table, SELECT its columns and rows.
NewTableOf(db, ddl) ==
    IF ddl.refer # NoTable THEN [db.tables[ddl.refer] EXCEPT !.rows = <<>>]
    ELSE IF ddl.select # NoTable THEN [db.tables[ddl.select] EXCEPT !.keys = {}]
    ELSE [cols |-> ddl.cols, keys |-> ddl.keys, rows |-> <<>>]

\* A column that numbers the rows must be in a key.
CreateTable(db, ddl) ==
    LET new == NewTableOf(db, ddl)
    IN  IF ddl.table \in DOMAIN db.tables
        THEN IF ddl.ifNotExists THEN db ELSE Fail(db)
        ELSE IF \/ ~({ddl.refer, ddl.select} \subseteq DOMAIN db.tables \cup {NoTable})
                \/ new.cols = <<>> \/ ~IsInjective(new.cols)
                \/ ~(ddl.auto \subseteq UNION {key.of : key \in ddl.keys})
        THEN Fail(db)
        ELSE WithTable(db, ddl.table, new)

DropTable(db, ddl) ==
    IF ddl.table \notin DOMAIN db.tables /\ ~ddl.ifExists THEN Fail(db)
    ELSE [db EXCEPT !.tables = WithoutTable(@, ddl.table)]

RenameTable(db, ddl) ==
    IF ddl.old \notin DOMAIN db.tables \/ ddl.table \in DOMAIN db.tables THEN Fail(db)
    ELSE WithTable([db EXCEPT !.tables = WithoutTable(@, ddl.old)], ddl.table, db.tables[ddl.old])

\* Each value goes to the column of its name, the others get 0.
NamesIn(table, ddl) == IF ddl.columns = NoColumns THEN table.cols ELSE ddl.columns
Inserted(table, ddl) ==
    LET names == NamesIn(table, ddl)
    IN  [i \in DOMAIN ddl.rows |->
            [c \in DOMAIN table.cols |->
                IF table.cols[c] \in ToSet(names)
                THEN ddl.rows[i][CHOOSE j \in DOMAIN names : names[j] = table.cols[c]]
                ELSE 0]]

\* The same values in the columns of a key.
Duplicates(table, r, s) ==
    \E key \in table.keys : \A c \in DOMAIN table.cols : table.cols[c] \in key.of => r[c] = s[c]

\* IGNORE leaves the first row with a key, REPLACE and ON DUPLICATE KEY UPDATE
\* the last one.
OnePerKey(table, rows, onDuplicate) ==
    LET kept == Ascending({i \in DOMAIN rows :
                    \A j \in DOMAIN rows : Duplicates(table, rows[i], rows[j]) =>
                        IF onDuplicate = "ignore" THEN i <= j ELSE i >= j})
    IN  [k \in DOMAIN kept |-> rows[kept[k]]]

\* VALUES needs a row.
InsertInto(db, ddl) ==
    LET table == db.tables[ddl.table]
        names == NamesIn(table, ddl)
        all == table.rows \o Inserted(table, ddl)
        clash == \E i, j \in DOMAIN all : i # j /\ Duplicates(table, all[i], all[j])
    IN  IF \/ ddl.table \notin DOMAIN db.tables
           \/ ddl.values /\ ddl.rows = <<>>
           \/ ~(ToSet(names) \subseteq ToSet(table.cols))
           \/ \E i \in DOMAIN ddl.rows : Len(ddl.rows[i]) # Len(names)
           \/ clash /\ ddl.onDuplicate = "fail"
        THEN Fail(db)
        ELSE WithTable(db, ddl.table,
                [table EXCEPT !.rows = IF clash THEN OnePerKey(table, all, ddl.onDuplicate) ELSE all])

AfterDdl(db, ddl) ==
    CASE db.failed \/ ddl.kind = "other" -> db
      [] ~db.failed /\ ddl.kind = "create" -> CreateTable(db, ddl)
      [] ~db.failed /\ ddl.kind = "drop" -> DropTable(db, ddl)
      [] ~db.failed /\ ddl.kind = "rename" -> RenameTable(db, ddl)
      [] ~db.failed /\ ddl.kind = "insert" -> InsertInto(db, ddl)

InitDBWithDDL(ddls) ==
    LET after[n \in 0 .. Len(ddls)] ==
            IF n = 0 THEN NoTables ELSE AfterDdl(after[n - 1], ddls[n])
    IN  after[Len(ddls)]

-----------------------------------------------------------------------------
(* What the DBMS answers.                                                  *)

TableNames(sql) == ToSet(sql.from)

Columns(e) == {p \in DOMAIN e : e[p].op = "col"}

ColumnsNamed(sql) ==
    {f \in ToSet(sql.fields) : Len(f) = 2} \cup {sql.where[p].v : p \in Columns(sql.where)}

\* A row of the product: one row, by its number, of each table.
Product(sql, db) ==
    {choice \in [TableNames(sql) -> UNION {DOMAIN db.tables[t].rows : t \in TableNames(sql)}] :
        \A t \in TableNames(sql) : choice[t] \in DOMAIN db.tables[t].rows}

\* The value of a column there.
At(db, choice, column) ==
    LET table == db.tables[column[1]]
    IN  table.rows[choice[column[1]]][CHOOSE i \in DOMAIN table.cols : table.cols[i] = column[2]]

Binary == {"AND", "OR", "=", "+"}
Bit(b) == IF b THEN 1 ELSE 0

\* The value of an expression; column[p] is that of the column at p.
Value(e, column) ==
    LET value[p \in DOMAIN e] ==
            LET left == value[p \o <<1>>]
                right == value[p \o <<2>>]
            IN  CASE e[p].op = "col" -> column[p]
                  [] e[p].op = "const" -> e[p].v[1]
                  [] e[p].op = "AND" -> Bit(left # 0 /\ right # 0)
                  [] e[p].op = "OR" -> Bit(left # 0 \/ right # 0)
                  [] e[p].op = "=" -> Bit(left = right)
                  [] e[p].op = "+" -> left + right
    IN  value[<<>>]

Selected(sql, db) ==
    {choice \in Product(sql, db) :
        Value(sql.where, [p \in Columns(sql.where) |-> At(db, choice, sql.where[p].v)]) # 0}

\* The values of all columns of a table.
TableValues(table, db, choice) ==
    LET cols == db.tables[table].cols
    IN  [c \in DOMAIN cols |-> At(db, choice, <<table, cols[c]>>)]

\* The values of a field; only the wildcard has more than one.
FieldValues(field, sql, db, choice) ==
    IF field = <<>>
    THEN FlattenSeq([i \in DOMAIN sql.from |-> TableValues(sql.from[i], db, choice)])
    ELSE IF Len(field) = 1 THEN field ELSE <<At(db, choice, field)>>

RowOfFields(sql, db, choice) ==
    FlattenSeq([k \in DOMAIN sql.fields |-> FieldValues(sql.fields[k], sql, db, choice)])

\* The rows come in any order.
ExecX(sql, db) ==
    LET kept == SetToSeq(Selected(sql, db))
        all == [i \in DOMAIN kept |-> RowOfFields(sql, db, kept[i])]
        rows == IF sql.distinct THEN SetToSeq(ToSet(all)) ELSE all
    IN  IF sql.count THEN [err |-> FALSE, cols |-> 1, rows |-> <<<<Len(rows)>>>>]
        ELSE [err |-> FALSE, cols |-> IF rows = <<>> THEN 0 ELSE Len(rows[1]), rows |-> rows]

\* A key is of some columns, in the definition of its column or apart; auto are
\* the columns that number the rows.
IsCreate(d) ==
    /\ d = [kind |-> "create", table |-> d.table, ifNotExists |-> d.ifNotExists, cols |-> d.cols,
            keys |-> d.keys, auto |-> d.auto, refer |-> d.refer, select |-> d.select]
    /\ \A key \in d.keys : key = [of |-> key.of, inColumn |-> key.inColumn]
    /\ d.refer # NoTable \/ d.select # NoTable => d.cols = <<>>

\* The rows come from VALUES, or from SET or SELECT.
IsInsert(d) ==
    /\ d = [kind |-> "insert", table |-> d.table, columns |-> d.columns, values |-> d.values,
            rows |-> d.rows, onDuplicate |-> d.onDuplicate]
    /\ d.onDuplicate \in {"fail", "ignore", "update", "replace"}

\* A script or a statement that fails ends sqlsimx at once.
ASSUME XAssumption ==
    \A ddls \in Scripts :
        LET db == InitDBWithDDL(ddls)
        IN  /\ ddls \in Seq(ToSet(ddls)) /\ ~db.failed
            /\ \A n \in DOMAIN ddls :
                  /\ ddls[n].kind \in {"create", "insert", "drop", "rename", "other"}
                  /\ ddls[n].kind = "create" =>
                        IsCreate(ddls[n]) /\ ddls[n].cols \in Seq(ToSet(ddls[n].cols))
                  /\ ddls[n].kind = "insert" =>
                        IsInsert(ddls[n]) /\ ddls[n].rows \in Seq(ToSet(ddls[n].rows))
            /\ \A sql \in Statements :
                  /\ sql.from \in Seq(ToSet(sql.from))
                  /\ \A k \in DOMAIN sql.fields :
                        sql.fields[k] = <<>> \/ Len(sql.fields[k]) \in {1, 2}
                  /\ TableNames(sql) \subseteq DOMAIN db.tables
                  /\ \A column \in ColumnsNamed(sql) :
                        /\ column[1] \in TableNames(sql)
                        /\ column[2] \in ToSet(db.tables[column[1]].cols)

Database == InitDBWithDDL(script)
Result == ExecX(input, Database)

ResultKept(sql) == CMP(ExecX(sql, Database), Result) = 0

-----------------------------------------------------------------------------
(* Option dml.                                                             *)

Const(i) == [op |-> "const", v |-> <<i>>]

\* The expression with a constant at p.
Put(e, p, i) == [q \in {q \in DOMAIN e : ~IsStrictPrefix(p, q)} |->
                    IF q = p THEN Const(i) ELSE e[q]]

\* An operand becomes 1, or 0 if AND or OR has it, if the result allows that.
TryOperand(sql, p, k) ==
    LET logical == sql.where[p].op \in {"AND", "OR"}
        with(i) == [sql EXCEPT !.where = Put(@, p \o <<k>>, i)]
    IN  IF ResultKept(with(1)) THEN with(1)
        ELSE IF logical /\ ResultKept(with(0)) THEN with(0)
        ELSE sql

Current(name) == funcs # <<>> /\ Head(funcs) = name

\* Mutant: each operand is tried while the other one is still there.
EnterBinaryOperation_Apart ==
    /\ Current("rmBinOp01") /\ positions # <<>>
    /\ LET p == Head(positions)
           left == TryOperand(tree, p, 1).where
           right == TryOperand(tree, p, 2).where
           below(q) == IsPrefix(p \o <<2>>, q)
           both == {q \in DOMAIN left : ~below(q)} \cup {q \in DOMAIN right : below(q)}
       IN  IF tree.where[p].op \in Binary
           THEN /\ tree' = [tree EXCEPT !.where =
                               [q \in both |-> IF below(q) THEN right[q] ELSE left[q]]]
                /\ positions' = <<p \o <<1>>, p \o <<2>>>> \o Tail(positions)
           ELSE positions' = Tail(positions) /\ UNCHANGED tree
    /\ UNCHANGED <<script, input, opt, sqlsimx, funcs, dml, newDDLs>>

\* The right operand is tried with what the left one has become.
EnterBinaryOperation ==
    /\ Current("rmBinOp01") /\ positions # <<>>
    /\ LET p == Head(positions)
       IN  IF tree.where[p].op \in Binary
           THEN /\ tree' = TryOperand(TryOperand(tree, p, 1), p, 2)
                /\ positions' = <<p \o <<1>>, p \o <<2>>>> \o Tail(positions)
           ELSE positions' = Tail(positions) /\ UNCHANGED tree
    /\ UNCHANGED <<script, input, opt, sqlsimx, funcs, dml, newDDLs>>

\* Each field is tried with all the others still there.
EnterFieldList ==
    /\ Current("rmFields") /\ positions # <<>>
    /\ positions' = <<>>
    /\ tree' = IF Len(tree.fields) <= 1 THEN tree
               ELSE LET needed == {i \in DOMAIN tree.fields :
                                      ~ResultKept([tree EXCEPT !.fields = RemoveAt(@, i)])}
                        kept == [i \in DOMAIN tree.fields |->
                                    IF i \in needed THEN <<tree.fields[i]>> ELSE <<>>]
                    IN  [tree EXCEPT !.fields = IF needed = {} THEN <<<<1>>>> ELSE FlattenSeq(kept)]
    /\ UNCHANGED <<script, input, opt, sqlsimx, funcs, dml, newDDLs>>

\* Everything the function did is kept or nothing.
EndFunction ==
    /\ positions = <<>> /\ funcs # <<>>
    /\ funcs' = Tail(funcs)
    /\ LET next == IF ResultKept(tree) THEN tree ELSE dml
       IN  dml' = next /\ tree' = next
    /\ positions' = <<<<>>>>
    /\ UNCHANGED <<script, input, opt, sqlsimx, newDDLs>>

WriteDml ==
    /\ sqlsimx = "running" /\ opt = "dml" /\ funcs = <<>>
    /\ sqlsimx' = "written"
    /\ UNCHANGED <<script, input, opt, funcs, dml, tree, positions, newDDLs>>

-----------------------------------------------------------------------------
(* Option ddl.                                                             *)

\* The columns of the statement, by name only.
ColumnNames(sql) == {column[2] : column \in ColumnsNamed(sql)}

\* Indices of the columns of a CREATE TABLE that stay, in order.
SavedColumns(create) == Ascending({i \in DOMAIN create.cols : create.cols[i] \in ColumnNames(input)})

\* The CREATE TABLE before statement n whose columns an INSERT into t gets.
Creates(n, t) == {i \in 1 .. n - 1 : script[i].kind = "create" /\ script[i].table = t}
LastCreate(n, t) == script[CHOOSE i \in Creates(n, t) : \A j \in Creates(n, t) : j <= i]

\* Only what the definitions of the columns that stay say stays.
CutCreate(d) ==
    LET saved == SavedColumns(d)
    IN  [kind |-> "create", table |-> d.table, ifNotExists |-> d.ifNotExists,
         cols |-> [i \in DOMAIN saved |-> d.cols[saved[i]]],
         keys |-> {key \in d.keys : key.inColumn /\ key.of \subseteq ColumnNames(input)},
         auto |-> d.auto \cap ColumnNames(input), refer |-> NoTable, select |-> NoTable]

\* SET and SELECT go, and leave no row.
CutInsert(d, saved) ==
    [kind |-> "insert", table |-> d.table, columns |-> NoColumns, values |-> TRUE,
     rows |-> [r \in (IF d.values THEN DOMAIN d.rows ELSE {}) |->
                  [i \in DOMAIN saved |-> d.rows[r][saved[i]]]],
     onDuplicate |-> IF d.onDuplicate = "update" THEN "fail" ELSE d.onDuplicate]

rmTable(n) ==
    LET d == script[n]
    IN  IF d.kind \notin {"create", "insert"} THEN <<d>>
        ELSE IF d.table \notin TableNames(input) THEN <<>>
        ELSE IF d.kind = "create"
        THEN <<[kind |-> "drop", table |-> d.table, ifExists |-> TRUE], CutCreate(d)>>
        ELSE <<CutInsert(d, SavedColumns(LastCreate(n, d.table)))>>

\* An INSERT into a table that was not created is an error, and a row with too
\* few values is another one.
CannotCut(n) ==
    LET d == script[n]
    IN  /\ d.kind = "insert" /\ d.table \in TableNames(input)
        /\ \/ Creates(n, d.table) = {}
           \/ d.values /\ \E r \in DOMAIN d.rows :
                  \E i \in ToSet(SavedColumns(LastCreate(n, d.table))) : i > Len(d.rows[r])

rmtbcol ==
    /\ sqlsimx = "running" /\ opt = "ddl"
    /\ IF \E n \in DOMAIN script : CannotCut(n)
         THEN sqlsimx' = "panic" /\ UNCHANGED newDDLs
         ELSE /\ sqlsimx' = "written"
              /\ LET cut[n \in 0 .. Len(script)] ==
                         IF n = 0 THEN <<>> ELSE cut[n - 1] \o rmTable(n)
                 IN  newDDLs' = cut[Len(script)]
    /\ UNCHANGED <<script, input, opt, funcs, dml, tree, positions>>

-----------------------------------------------------------------------------
(* One call of SqlSimX.                                                    *)

\* A script or a statement that fails ends it at once.
xInit ==
    /\ script \in Scripts
    /\ input \in Statements
    /\ \/ opt = "ddl" /\ funcs = <<>>
       \/ opt = "dml" /\ funcs \in DmlFuncs
    /\ sqlsimx = "running"
    /\ dml = input
    /\ tree = input
    /\ positions = <<<<>>>>
    /\ newDDLs = <<>>

xNext == EnterBinaryOperation \/ EnterFieldList \/ EndFunction \/ WriteDml \/ rmtbcol

xSpec == xInit /\ [][xNext]_xVars

-----------------------------------------------------------------------------

\* The keys of t that its CREATE TABLEs declare.
KeysOf(t) ==
    UNION {script[n].keys : n \in {n \in DOMAIN script : script[n].kind = "create" /\ script[n].table = t}}

\* The scripts that can be cut, as far as the tables of the statement go: plain
\* CREATE TABLEs that keep a column, all of them if the wildcard shows them, and
\* the keys of the columns that number the rows; INSERTs of VALUES in the order
\* of the columns, into which no key comes.
Reducible ==
    \A n \in DOMAIN script :
        LET d == script[n]
            named == d.table \in TableNames(input)
        IN  /\ d.kind # "rename"
            /\ d.kind = "drop" => named \/ d.ifExists
            /\ d.kind = "insert" /\ named =>
                  d.columns = NoColumns /\ d.values /\ (d.onDuplicate = "fail" \/ KeysOf(d.table) = {})
            /\ d.kind = "create" /\ named =>
                  /\ ToSet(d.cols) \cap ColumnNames(input) # {}
                  /\ <<>> \in ToSet(input.fields) => ToSet(d.cols) \subseteq ColumnNames(input)
                  /\ \A column \in d.auto \cap ColumnNames(input) :
                        [of |-> {column}, inColumn |-> TRUE] \in d.keys
                  /\ d.ifNotExists => Creates(n, d.table) = {}

(* The operands that rmBinOp01 replaces one after the other keep the       *)
(* result together, whichever are replaced (rmbinop01.go:66-102).  What    *)
(* sqlsimx writes has the result of what it was given: the simplified      *)
(* statement on the same database, and the same statement on the database  *)
(* the shorter script builds (sqlsimx.go:17-18), unless the script is one  *)
(* of those that cannot be cut.                                            *)
SameResult ==
    /\ Current("rmBinOp01") => ResultKept(tree)
    /\ sqlsimx = "written" =>
          IF opt = "dml" THEN ResultKept(dml)
          ELSE Reducible => /\ ~InitDBWithDDL(newDDLs).failed
                            /\ CMP(ExecX(input, InitDBWithDDL(newDDLs)), Result) = 0
=============================================================================
