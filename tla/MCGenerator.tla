----------------------------- MODULE MCGenerator -----------------------------
(* Two small databases with a column of a type that is not in KnownTypes,  *)
(* a third of nothing else, one with a table without columns, an empty one.*)
EXTENDS Generator

Col(name, type, key) == [name |-> name, type |-> type, key |-> key]

SmallDatabases ==
    {[dialect |-> "mysql",
      tables |-> [t |-> <<Col("id", "int", TRUE), Col("s", "varchar", FALSE)>>,
                  u |-> <<Col("id", "bigint", TRUE), Col("j", "json", FALSE)>>]],
     [dialect |-> "postgresql",
      tables |-> [t |-> <<Col("id", "int4", TRUE), Col("s", "varchar", FALSE)>>,
                  u |-> <<Col("x", "numeric", FALSE), Col("d", "date", FALSE), Col("b", "bool", FALSE)>>]],
     [dialect |-> "postgresql",
      tables |-> [t |-> <<Col("k", "uuid", TRUE), Col("j", "jsonb", FALSE)>>]],
     [dialect |-> "postgresql", tables |-> [t |-> <<>>]],
     [dialect |-> "mysql", tables |-> <<>>]}

Features == {"join", "selfJoin", "subquery", "union", "cte", "groupBy", "orderBy"}
AllOrNoJoin == {[f \in Features |-> TRUE], [f \in Features |-> f # "join"]}
=============================================================================
