----------------------------- MODULE MCResultCMP -----------------------------
(***************************************************************************)
(* What every task reads by way of the package connector: the statements   *)
(* of a file, or the results of two queries, compared.  Each behaviour is  *)
(* one of the two.                                                         *)
(***************************************************************************)
EXTENDS Numerals, ExtractSQL

CONSTANTS
    MaxRows

Fixed == [neg : BOOLEAN, int : {<<0>>, <<1>>, <<1, 0>>},
          frac : {<<>>, <<0>>, <<5>>, <<0, 5>>, <<5, 0>>}, exp : {Plain}]

Scientific == [neg : BOOLEAN, int : {<<1>>, <<5>>}, frac : {<<>>, <<5>>},
               exp : {-2, -1, 0, 1}]

Printed == (Fixed \cup Scientific) \cap Printable

NormalText == [n \in Printed |-> normalizeNumeric(n)]

\* 0.0, -0.0 and 10.
FewNumerals ==
    {[neg |-> FALSE, int |-> <<0>>, frac |-> <<0>>, exp |-> Plain],
     [neg |-> TRUE, int |-> <<0>>, frac |-> <<0>>, exp |-> Plain],
     [neg |-> FALSE, int |-> <<1, 0>>, frac |-> <<>>, exp |-> Plain]}

Lists(rows, max) == UNION {[1 .. n -> rows] : n \in 0 .. max}

Returned(cols, lists) == [err : {FALSE}, cols : cols, rows : lists]

\* ... that fails, and that has no row.
Failed == [err |-> TRUE, cols |-> 0, rows |-> <<>>]
NoRows == [err |-> FALSE, cols |-> 0, rows |-> <<>>]

\* MySQL's connector; the others with one column or two; one that prints all numerals.
AllConnectors ==
    {Returned({1}, Lists(FewNumerals \cap Printed, MaxRows) \ {<<>>}) \cup {NoRows, Failed},
     Returned({1, 2}, Lists(FewNumerals \cap Printed, MaxRows - 1)) \cup {Failed},
     Returned({1}, Lists(Printed, 1))}

-----------------------------------------------------------------------------
(* Scripts in MySQL's syntax: literals with every quote, a semicolon, an   *)
(* escaped character or a doubled quote in them.  A character comes with   *)
(* what it is there for.                                                   *)

Mark(c, as, q) == [c |-> c, as |-> as, quote |-> q]

Inside(q) ==
    {<<Mark(c, "text", q)>> : c \in (Quotes \cup {"x", "semicolon"}) \ {q}}
    \cup {<<Mark(q, "first", q), Mark(q, "second", q)>>}
    \cup (IF q = "back" THEN {}
          ELSE {<<Mark("backslash", "escape", q), Mark(c, "escaped", q)>> :
                   c \in {q, "backslash", "x", "semicolon"}})

Enclosed(q, bodies) ==
    {<<Mark(q, "open", q)>> \o FlattenSeq(body) \o <<Mark(q, "close", q)>> : body \in bodies}

Literals(max) == UNION {Enclosed(q, Lists(Inside(q), max)) : q \in Quotes}

Plainly(c) == <<Mark(c, "out", "none")>>
Tokens == {Plainly("x"), Plainly("backslash")} \cup Literals(1)

FewTokens ==
    {Plainly("x")} \cup Enclosed("single", {<<<<Mark("semicolon", "text", "single")>>>>})
    \cup Enclosed("back", {<<<<Mark("double", "text", "back")>>>>})

Marked(st, rest) == FlattenSeq([k \in DOMAIN st |-> FlattenSeq(st[k]) \o Plainly("semicolon")]) \o FlattenSeq(rest)

Script(st, rest) ==
    LET marks == Marked(st, rest)
    IN  [s |-> [p \in DOMAIN marks |-> marks[p].c],
         as |-> [p \in DOMAIN marks |-> marks[p].as],
         quote |-> [p \in DOMAIN marks |-> marks[p].quote],
         ends |-> SetToSortSeq({p \in DOMAIN marks : marks[p] = Mark("semicolon", "out", "none")}, <)]

NoStatement == Script(<<>>, <<>>)

SomeScripts ==
    {Script(<<a, b>>, c) : a \in Lists(Tokens, 2), b \in Lists(FewTokens, 1), c \in {<<>>, <<Plainly("x")>>}}
    \cup {Script(<<<<a>>, <<Plainly("x")>>>>, <<>>) : a \in Literals(2)}
    \cup {NoStatement}

-----------------------------------------------------------------------------

Reading ==
    /\ this = Failed /\ another = Failed /\ pc = "done" /\ i = 0
    /\ mp = [x \in {} |-> 0] /\ allInAnother = TRUE /\ cmp = -2

Comparing ==
    /\ script = NoStatement
    /\ at = 1 /\ start = 1 /\ flag = "none" /\ res = <<>>

MCInit == (Init /\ Comparing) \/ (ExtractInit /\ Reading)

MCNext == (Next /\ UNCHANGED extractVars) \/ (ExtractNext /\ UNCHANGED vars)

MCSpec == MCInit /\ [][MCNext]_<<vars, extractVars>>
=============================================================================
