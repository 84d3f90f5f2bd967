------------------------------- MODULE Stage1 -------------------------------
(***************************************************************************)
(* Stage 1 (mutation/stage1): a statement is parsed, what would break the  *)
(* oracle is taken out of its syntax tree, and what is left is executed as *)
(* the original query.  Init (MySQL and GaussDB-M), InitForAggregate and   *)
(* InitForAMode (GaussDB-A) use one visitor that goes through the whole    *)
(* tree; InitForPostgreSQL follows FROM clauses only.                      *)
(*                                                                         *)
(* A tree is a function on its nodes: what a node is, its parent, and the  *)
(* part of the parent it belongs to.  The walk changes a node when it      *)
(* enters it and goes on with the children that are still there.           *)
(***************************************************************************)

CONSTANTS
    Nodes,
    Root,
    Trees,      \* the syntax trees that occur
    Modes       \* which of the four functions is called

AllModes == {"mysql", "aggregate", "gaussdb_a", "postgresql"}

\* fields is a select list, uncertain a call of one of the functions of
\* rmuncertain.go, outerJoin a LEFT, RIGHT or FULL join.
Kinds == {"select", "setOpr", "fields", "join", "outerJoin", "agg", "window", "uncertain", "other"}

\* spec: PARTITION BY, ORDER BY and the frame of a window.
Slots == {"root", "with", "fields", "from", "where", "groupBy", "having", "windowSpecs", "orderBy",
          "limit", "lockingInto", "arm", "left", "right", "on", "arg", "moreArgs", "order", "spec"}

IsTree(t) ==
    /\ Root \in DOMAIN t /\ DOMAIN t \subseteq Nodes
    /\ t \in [DOMAIN t -> [kind : Kinds, parent : DOMAIN t, slot : Slots]]
    /\ t[Root].kind \in {"select", "setOpr"}

ASSUME Stage1Assumption ==
    /\ Modes \subseteq AllModes
    /\ \A t \in Trees : IsTree(t)

VARIABLES
    mode,
    tree,       \* the statement as it was parsed
    pc,
    todo,       \* nodes that the walk has still to enter
    entered,    \* nodes it has entered
    cut,        \* nodes taken from their parents
    cleared     \* nodes turned into something harmless

stageVars == <<mode, tree, pc, todo, entered, cut, cleared>>

StageInit ==
    /\ tree \in Trees
    /\ mode \in Modes
    /\ pc = IF mode = "gaussdb_a" THEN "filter" ELSE "parse"
    /\ todo = {} /\ entered = {} /\ cut = {} /\ cleared = {}

Kind(n) == tree[n].kind
Slot(n) == tree[n].slot
Children(n) == {m \in DOMAIN tree \ {Root} : tree[m].parent = n}
ChildrenIn(n, slots) == {m \in Children(n) : Slot(m) \in slots}

Unchanged == UNCHANGED <<mode, tree, todo, entered, cut, cleared>>

\* RmConnectBy and RmPLSQL look for words in the text.
Filter ==
    /\ pc = "filter"
    /\ pc' \in {"parse", "skipped"}
    /\ Unchanged

\* Anything but a SELECT or a set operation is an error.
Parse ==
    /\ pc = "parse"
    /\ \/ pc' = "visit" /\ todo' = {Root}
       \/ pc' = "error" /\ UNCHANGED todo
    /\ UNCHANGED <<mode, tree, entered, cut, cleared>>

-----------------------------------------------------------------------------
(* Enter of InitVisitor and AggregateInitVisitor: what each function       *)
(* takes from node n, and whether it turns n into something else.          *)

\* The group, and all of an aggregate but its first argument.
RmAgg(n) ==
    CASE Kind(n) = "select" -> ChildrenIn(n, {"groupBy"})
      [] Kind(n) = "agg"    -> ChildrenIn(n, {"moreArgs", "order"})
      [] OTHER              -> {}

\* The named windows, and at a select list the specifications of the windows in it.
RmWindow(n) ==
    CASE Kind(n) = "select" -> ChildrenIn(n, {"windowSpecs"})
      [] Kind(n) = "fields" -> UNION {ChildrenIn(w, {"spec"}) : w \in {m \in Children(n) : Kind(m) = "window"}}
      [] OTHER              -> {}

RmLimit(n) == IF Kind(n) = "select" THEN ChildrenIn(n, {"limit"}) ELSE {}

\* A constant takes the place of the arguments.
RmUncertain(n) == IF Kind(n) = "uncertain" THEN Children(n) ELSE {}

Taken(n) ==
    (IF mode = "aggregate" THEN {} ELSE RmAgg(n)) \cup RmWindow(n) \cup RmLimit(n) \cup RmUncertain(n)

\* Aggregates and uncertain functions lose their names, outer joins become inner ones.
ClearedKinds ==
    CASE mode = "postgresql" -> {"outerJoin"}
      [] mode = "aggregate"  -> {"outerJoin", "uncertain"}
      [] OTHER               -> {"outerJoin", "uncertain", "agg"}

Change(n, taken) ==
    /\ cut' = cut \cup taken
    /\ cleared' = IF Kind(n) \in ClearedKinds THEN cleared \cup {n} ELSE cleared
    /\ entered' = entered \cup {n}

\* A mutant: the arguments of what was replaced are not visited.
Enter_SkipsChildren(n) ==
    /\ pc = "visit" /\ mode # "postgresql"
    /\ n \in todo
    /\ Change(n, Taken(n))
    /\ todo' = (todo \ {n}) \cup (IF Kind(n) \in ClearedKinds THEN {} ELSE Children(n) \ cut')
    /\ UNCHANGED <<mode, tree, pc>>

\* Children that are gone by now are not visited, and no others are skipped.
Enter(n) ==
    /\ pc = "visit" /\ mode # "postgresql"
    /\ n \in todo
    /\ Change(n, Taken(n))
    /\ todo' = (todo \ {n}) \cup (Children(n) \ cut')
    /\ UNCHANGED <<mode, tree, pc>>

-----------------------------------------------------------------------------
(* PostgreSQL.                                                             *)

PgClauses == {"groupBy", "windowSpecs", "limit", "orderBy", "lockingInto"}
FromSlots == {"from", "left", "right"}

TakenPg(n) == IF Kind(n) \in {"select", "setOpr"} THEN ChildrenIn(n, PgClauses) ELSE {}

\* Only joins and queries in FROM are visited.
Transform(n) ==
    /\ pc = "visit" /\ mode = "postgresql"
    /\ n \in todo
    /\ Change(n, TakenPg(n))
    /\ todo' = (todo \ {n}) \cup ChildrenIn(n, FromSlots)
    /\ UNCHANGED <<mode, tree, pc>>

-----------------------------------------------------------------------------

\* Restore or Deparse, which may fail.
Restore ==
    /\ pc = "visit"
    /\ todo = {}
    /\ pc' \in {"exec", "error"}
    /\ Unchanged

\* What it returns is for the task to look at.
ExecSQL ==
    /\ pc = "exec"
    /\ pc' = "done"
    /\ Unchanged

StageNext ==
    \/ Filter
    \/ Parse
    \/ \E n \in DOMAIN tree : Enter(n) \/ Transform(n)
    \/ Restore
    \/ ExecSQL

StageSpec == StageInit /\ [][StageNext]_stageVars

-----------------------------------------------------------------------------

StageTypeOK ==
    /\ mode \in Modes
    /\ IsTree(tree)
    /\ pc \in {"filter", "parse", "visit", "exec", "done", "error", "skipped"}
    /\ pc \in {"filter", "skipped"} => mode = "gaussdb_a"
    /\ todo \subseteq DOMAIN tree /\ entered \subseteq DOMAIN tree
    /\ cut \subseteq DOMAIN tree /\ cleared \subseteq DOMAIN tree

\* Closed under the children that are left in the given parts.
ClosedUnder(S, slots) == \A n \in S : ChildrenIn(n, slots) \ cut \subseteq S

\* The nodes one gets to from the root by these parts.
Reachable(slots) ==
    {n \in DOMAIN tree : \A S \in SUBSET DOMAIN tree : Root \in S /\ ClosedUnder(S, slots) => n \in S}

\* What the walk has to clean: all that is printed, or in PostgreSQL the
\* query with the joins and queries of its FROM clauses.
Scope == Reachable(IF mode = "postgresql" THEN FromSlots ELSE Slots)

Without(n, slots) == ChildrenIn(n, slots) \subseteq cut

(* Nothing is left in the query that is executed, at any depth, of what    *)
(* stage 1 takes out of a node (stage1.go:19 and stage1_pg.go:18-23),      *)
(* although the tree changes under the walk: no LIMIT, named window or     *)
(* group of a select, no outer join, no aggregate or uncertain function    *)
(* and none of the arguments they lose, and no specification of a window   *)
(* that stands by itself in a select list.                                 *)
NothingUnwanted ==
    \A n \in Scope :
        /\ Kind(n) = "outerJoin" => n \in cleared
        /\ Kind(n) = "select" => Without(n, {"windowSpecs", "limit"})
        /\ Kind(n) = "select" /\ mode # "aggregate" => Without(n, {"groupBy"})
        /\ mode = "postgresql" /\ Kind(n) \in {"select", "setOpr"} => Without(n, {"orderBy", "limit"})
        /\ mode # "postgresql" =>
              /\ Kind(n) = "uncertain" => n \in cleared /\ Children(n) \subseteq cut
              /\ Kind(n) = "agg" /\ mode # "aggregate" => n \in cleared /\ Without(n, {"moreArgs", "order"})
              /\ Kind(n) = "window" /\ Kind(tree[n].parent) = "fields" => Without(n, {"spec"})

\* What stage 1 may take out of a node.
MayGo(m) ==
    \/ Slot(m) \in {"groupBy", "windowSpecs", "limit", "spec"}
    \/ Slot(m) \in {"orderBy", "lockingInto"} /\ mode = "postgresql"
    \/ mode # "postgresql" /\ Slot(m) \in {"moreArgs", "order"} /\ Kind(tree[m].parent) = "agg"
    \/ mode # "postgresql" /\ Kind(tree[m].parent) = "uncertain"

(* Nothing else is lost or changed: every condition, table and operand of  *)
(* the query that was given is still there, unless it was part of what is  *)
(* taken out (the "conservative" strategy of rmagg.go:8, rmlrjoin.go:8 and *)
(* rmwindow.go:7).                                                         *)
NothingLost ==
    /\ \A m \in cut : MayGo(m)
    /\ \A n \in cleared : Kind(n) \in {"outerJoin", "agg", "uncertain"}

(* The query that is executed is the one that was given, cleaned           *)
(* (doc.go:4-14).                                                          *)
Cleaned == pc \in {"exec", "done"} => NothingUnwanted /\ NothingLost
=============================================================================
