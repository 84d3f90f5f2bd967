----------------------------- MODULE MCPgMutate -----------------------------
(* Statements for PgMutate. *)
EXTENDS PgAnswers

TwoInts == {1, 2}

NotDistinct(rhs) == [kind |-> "notdistinct", col |-> 1, rhs |-> rhs]
InList(not, items) == [kind |-> "in", col |-> 1, not |-> not, items |-> items]
BetweenExpr(sym, not, lo, hi) ==
    [kind |-> "between", col |-> 1, sym |-> sym, not |-> not, lo |-> lo, hi |-> hi]
Like(not, has, narrower, matches, wider) ==
    [kind |-> "like", col |-> 1, not |-> not, has |-> has,
     narrower |-> narrower, matches |-> matches, wider |-> wider]
Similar(not, matches) == [kind |-> "similar", col |-> 1, not |-> not, matches |-> matches]
Bool(op, args) == [kind |-> "bool", op |-> op, args |-> args]
Cast(e) == [kind |-> "cast", arg |-> e]
SubLink(type, op, q) == [kind |-> "sublink", type |-> type, op |-> op, col |-> 1, subselect |-> q]

Select(from, where, having, cte) ==
    [kind |-> "select", from |-> from, where |-> where, having |-> having, cte |-> cte]
Where(e) == Select(None, e, None, None)
Join(type, quals) == [type |-> type, quals |-> quals]
SetOp(op, larg, rarg) == [kind |-> "setop", op |-> op, larg |-> larg, rarg |-> rarg]

Leaves == {Cmp(op, 1, rhs) : op \in CompareOps, rhs \in {1, NULL}}
TwoLeaves == {Cmp("=", 1, 1), Cmp(">", 1, 1), Cmp("<=", 1, 1)}
Flat == Leaves
        \cup {Bool(op, <<a, b>>) : op \in {"AND", "OR"}, a \in TwoLeaves, b \in TwoLeaves}
        \cup {InList(FALSE, {1})}
        \cup {Bool("OR", <<Cmp("<", 1, 2), InList(FALSE, {2, NULL})>>)}
\* What LIKE patterns match, narrowed and widened: text, text with % and % alone.
Likes(not) ==
    {Like(not, {"other"}, {1}, {1}, wider) : wider \in {{1}, {1, 2}}}
    \cup {Like(not, {"percent", "other"}, narrower, {1}, wider) :
             narrower \in {{}, {1}}, wider \in {{1}, {1, 2}}}
    \cup {Like(not, {"percent"}, narrower, {1, 2}, {1, 2}) : narrower \in SUBSET {1, 2}}
    \cup {Like(not, {}, {}, {1}, {1, 2})}
All == Where(None)
Some == Where(Cmp(">", 1, 1))
NoRows == Where(Cmp(">", 1, 2))

\* One flag for all the candidates of one name, and a search that finds what
\* the visitor saw or nothing.
OneFlag ==
    {Where(e) : e \in Flat}
    \cup {Where(Bool("NOT", <<e>>)) : e \in Flat}
    \cup {Where(Cast(e)) : e \in TwoLeaves}
    \cup {Where(e) : e \in Likes(TRUE) \cup Likes(FALSE)}
    \cup {Where(Bool("NOT", <<e>>)) : e \in Likes(TRUE)}
    \cup {Where(Bool("AND", <<Like(FALSE, {"percent"}, {1}, {1, 2}, {1, 2}), e>>)) :
             e \in Likes(FALSE)}
    \cup {Select(None, Cmp("<=", 1, 2), e, None) : e \in Likes(FALSE)}
    \cup {Where(Bool("OR", <<Similar(not, {1}), Cmp("<", 1, 1)>>)) : not \in BOOLEAN}
    \cup {Where(BetweenExpr(sym, not, 1, hi)) : sym \in BOOLEAN, not \in BOOLEAN, hi \in {1, 2}}
    \cup {Where(Bool("AND", <<Cmp("<=", 1, 2), BetweenExpr(sym, FALSE, 1, 1)>>)) : sym \in BOOLEAN}
    \cup {Where(SubLink("ALL", op, Some)) : op \in CompareOps}
    \cup {Where(SubLink("EXISTS", None, q)) : q \in {Some, NoRows}}
    \cup {Where(Bool("NOT", <<SubLink("EXISTS", None, q)>>)) : q \in {Some, NoRows}}
    \cup {Select(Join(type, Cmp(op, 2, 1)), where, None, None) :
             type \in {"INNER", "LEFT"}, op \in {"=", ">="}, where \in {None, Cmp("<=", 2, 1)}}
    \cup {Select(Join("INNER", Cmp(">", 2, 1)), None, Cmp("=", 1, 2), None)}
    \cup {Select(None, where, Cmp("<=", 1, 1), None) : where \in {None, Cmp("<", 1, 2)}}
    \cup {Select(None, Cmp("<", 1, 2), None, q) : q \in {Some, SetOp("UNION ALL", All, Some)}}
    \cup {SetOp(op, All, Some) : op \in {"UNION", "UNION ALL", "INTERSECT", "EXCEPT"}}
    \cup {SetOp("UNION", SetOp("UNION ALL", Some, All), Some)}

\* Statements of all kinds, the direction of whose mutations may be wrong.
Mixed ==
    {Where(Bool("AND", <<Bool("NOT", <<Cmp(">", 1, 1)>>), Cmp("<", 1, 2)>>)),
     Where(Bool("AND", <<Cmp("=", 1, 1), BetweenExpr(FALSE, FALSE, 1, 2)>>)),
     Where(BetweenExpr(TRUE, FALSE, 2, 1)),
     Where(Bool("NOT", <<BetweenExpr(TRUE, FALSE, 1, NULL)>>)),
     Where(InList(TRUE, {1})),
     Where(Bool("AND", <<Like(FALSE, {"other"}, {1}, {1}, {1, 2}), Cmp("<", 1, 2),
                         Like(TRUE, {"percent", "other"}, {}, {2}, {1, 2})>>)),
     Where(NotDistinct(1)),
     Where(Bool("OR", <<NotDistinct(NULL), Cmp(">=", 1, 2)>>)),
     Where(SubLink("ANY", ">", Some)),
     Where(Bool("AND", <<SubLink("ANY", None, Some), SubLink("ANY", "=", All)>>)),
     Where(Bool("AND", <<Cmp(">", 1, 1), Bool("NOT", <<SubLink("EXISTS", None, Some)>>)>>))}

EveryStatement == OneFlag \cup Mixed

\* The second of two comparisons is the candidate, the first is mutated.
UnderNot == {Where(Bool("AND", <<Cmp(">", 1, 1), Bool("NOT", <<Cmp("<", 1, 1)>>)>>))}

\* The nodes of a tree, and how deep it is.
RECURSIVE NodesOf(_), DepthOf(_)
NodesOf(n) == {n} \cup UNION {NodesOf(p) : p \in Subtrees(n)}
DepthOf(n) == IF Subtrees(n) = {} THEN 0 ELSE 1 + Max({DepthOf(p) : p \in Subtrees(n)})

\* e with one node of it changed.
RECURSIVE ChangesOf(_)
ChangesOf(e) ==
    ({Replacement(name, e) : name \in ConditionMutations} \ {None})
    \cup IF e.kind # "bool" THEN {}
         ELSE UNION {{[e EXCEPT !.args[i] = c] : c \in ChangesOf(e.args[i])} : i \in DOMAIN e.args}

\* The nodes of the trees as they are and while they are changed.
ParsedNodes == UNION {NodesOf(q) : q \in EveryStatement \cup UnderNot}
AllNodes == ParsedNodes \cup UNION {ChangesOf(e) : e \in ParsedNodes}
Depths == [n \in AllNodes |-> DepthOf(n)]

=============================================================================
