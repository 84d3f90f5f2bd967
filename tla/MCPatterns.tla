----------------------------- MODULE MCPatterns -----------------------------
(* Short patterns over every special character, and short texts. *)
EXTENDS Patterns

UpTo(n, chars) == UNION {[1 .. l -> chars] : l \in 0 .. n}

AllLetters == {"a", "b"}
ShortPatterns ==
    UpTo(4, {"a", "percent", "underscore"})
    \cup UpTo(2, {"a", "percent", "underscore", "backslash"})
    \cup UpTo(3, {"a", "dot"} \cup Quantifiers \cup {"caret", "dollar", "backslash"})
ShortTexts == UpTo(3, {"a", "b"})
=============================================================================
