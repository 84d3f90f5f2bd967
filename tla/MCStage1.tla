------------------------------ MODULE MCStage1 ------------------------------
(* Instances of Stage1: the syntax trees of up to FullSize nodes, and      *)
(* those that have one node more below the last of them.  A node has a     *)
(* greater number than its parent; siblings are in the order of SlotOrder, *)
(* and come after the children of the nodes before their parent.           *)
EXTENDS Stage1, Sequences, Naturals

CONSTANT FullSize

MCNodes == 1 .. FullSize + 1

Queries == {"select", "setOpr"}
Joins == {"join", "outerJoin"}

\* What may stand in a part of a node.  Tables, columns and constants are no nodes.
Fits ==
    [kind : {"select"}, slot : {"fields"}, child : {"fields"}]
    \cup [kind : {"select"}, slot : {"with"}, child : {"select"}]
    \cup [kind : {"select"}, slot : {"from"}, child : Queries \cup Joins]
    \cup [kind : {"select"}, slot : {"where", "lockingInto"}, child : {"other"}]
    \cup [kind : {"select"}, slot : {"having", "orderBy"}, child : {"agg"}]
    \cup [kind : {"select"}, slot : {"groupBy", "windowSpecs"}, child : {"uncertain"}]
    \cup [kind : Queries, slot : {"limit"}, child : {"other"}]
    \cup [kind : {"setOpr"}, slot : {"arm"}, child : {"select"}]
    \cup [kind : {"setOpr"}, slot : {"orderBy"}, child : {"other"}]
    \cup [kind : Joins, slot : {"left"}, child : {"outerJoin"}]
    \cup [kind : Joins, slot : {"right"}, child : {"select"}]
    \cup [kind : Joins, slot : {"on"}, child : {"uncertain"}]
    \cup [kind : {"fields"}, slot : {"arg"}, child : {"other", "agg", "window"}]
    \cup [kind : {"other"}, slot : {"arg"}, child : {"select", "window", "uncertain"}]
    \cup [kind : {"agg"}, slot : {"arg", "moreArgs", "order"}, child : {"uncertain"}]
    \cup [kind : {"window"}, slot : {"arg", "spec"}, child : {"uncertain"}]
    \cup [kind : {"uncertain"}, slot : {"arg"}, child : {"uncertain"}]

SlotOrder ==
    <<"root", "with", "fields", "from", "where", "groupBy", "having", "windowSpecs", "arm", "left", "right",
      "on", "arg", "moreArgs", "order", "spec", "orderBy", "limit", "lockingInto">>

Before(s1, s2) ==
    \E k1, k2 \in DOMAIN SlotOrder : SlotOrder[k1] = s1 /\ SlotOrder[k2] = s2 /\ k1 < k2

\* The trees that have one node more than t.
Grown(t, size, parents) ==
    {[n \in 1 .. size + 1 |->
        IF n <= size THEN t[n] ELSE [kind |-> g[2].child, parent |-> g[1], slot |-> g[2].slot]] :
     g \in {h \in parents \X Fits :
              /\ h[2].kind = t[h[1]].kind
              /\ ~(h[1] = t[size].parent /\ Before(h[2].slot, t[size].slot))}}

TreesOf[size \in MCNodes] ==
    IF size = 1
    THEN {[n \in {1} |-> [kind |-> k, parent |-> 1, slot |-> "root"]] : k \in Queries}
    ELSE LET n == size - 1
         IN  UNION {Grown(t, n, IF size <= FullSize THEN t[n].parent .. n ELSE {n}) : t \in TreesOf[n]}

MCTrees == UNION {TreesOf[size] : size \in MCNodes}
=============================================================================
