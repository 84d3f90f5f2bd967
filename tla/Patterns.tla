------------------------------ MODULE Patterns ------------------------------
(***************************************************************************)
(* The random mutations of LIKE and REGEXP patterns: rdmlikeu.go,          *)
(* rdmlikel.go, rdmregexpu.go and rdmregexpl.go of mutation/stage2 for     *)
(* MySQL, and doRdMLikePgU and doRdMLikePgL of pg_mutate_functions.go,     *)
(* which rewrite a pattern in the same way.  Their counterparts for        *)
(* SIMILAR TO are never reached (see PgMutate).                            *)
(*                                                                         *)
(* A mutation goes over the pattern once and tosses a coin at each         *)
(* character it may change.  U is to widen the pattern: what matched must  *)
(* still match.  L is to narrow it.                                        *)
(*                                                                         *)
(* What a pattern matches is external, and stated by an alignment: cut     *)
(* points of the text, one after each character of the pattern, such that  *)
(* each character fits the piece of text between its cut points.           *)
(***************************************************************************)
EXTENDS Integers, Sequences

CONSTANTS
    Letters,      \* the characters without a meaning of their own
    OldPatterns,  \* the patterns that are mutated
    Texts         \* what they are matched against

\* % _ . * + ? ^ $ \
Special == {"percent", "underscore", "dot", "star", "plus", "question", "caret", "dollar",
            "backslash"}

Chars == Letters \cup Special

ASSUME PatternAssumption ==
    /\ Letters \cap Special = {}
    /\ OldPatterns \subseteq Seq(Chars)
    /\ Texts \subseteq Seq(Chars)

VARIABLES
    name,      \* the mutation
    pattern,   \* oldPattern
    new,       \* newPattern
    i,         \* the loop's index into newPattern, from 1
    pc         \* prefix, suffix (the tests before the loop), loop, done

vars == <<name, pattern, new, i, pc>>

Uppers == {"RdMLikeU", "RdMRegExpU"}
Likes == {"RdMLikeU", "RdMLikeL"}
Names == Likes \cup {"RdMRegExpU", "RdMRegExpL"}

\* The operator whose pattern it is.
kind == IF name \in Likes THEN "like" ELSE "regexp"

-----------------------------------------------------------------------------
(* The mutations.                                                          *)

HasPrefix(p, c) == p # <<>> /\ p[1] = c
HasSuffix(p, c) == p # <<>> /\ p[Len(p)] = c

\* checkRdM*: whether there is something to change.
check(m, p) ==
    CASE m = "RdMLikeU" -> \E j \in DOMAIN p : p[j] # "percent"
      [] m = "RdMLikeL" -> \E j \in DOMAIN p : p[j] = "percent"
      [] OTHER -> TRUE

Init ==
    /\ name \in Names
    /\ pattern \in {p \in OldPatterns : check(name, p)}
    /\ new = pattern
    /\ i = 1
    /\ pc = IF name = "RdMRegExpU" THEN "prefix" ELSE "loop"

\* if strings.HasPrefix(newPattern, "^") && rander.Intn(2) == 0
RemovePrefix ==
    /\ pc = "prefix"
    /\ pc' = "suffix"
    /\ \/ HasPrefix(new, "caret") /\ new' = Tail(new)
       \/ new' = new
    /\ UNCHANGED <<name, pattern, i>>

\* if strings.HasSuffix(newPattern, "$") && rander.Intn(2) == 0
RemoveSuffix ==
    /\ pc = "suffix"
    /\ pc' = "loop"
    /\ \/ HasSuffix(new, "dollar") /\ new' = SubSeq(new, 1, Len(new) - 1)
       \/ new' = new
    /\ UNCHANGED <<name, pattern, i>>

\* Mutant: + and ? are exchanged for one another, not for *.
Rewritten_KeepsOne(m, c) ==
    CASE m = "RdMLikeU" /\ c # "percent" -> {"percent", c}
      [] m = "RdMLikeL" /\ c = "percent" -> {"underscore", c}
      [] m = "RdMRegExpU" /\ c \in {"plus", "question"} -> {"plus", "question"}
      [] m = "RdMRegExpL" /\ c = "star" -> {"plus", "question", c}
      [] OTHER -> {c}

\* What a mutation may make of the character c, the coin included.
Rewritten(m, c) ==
    CASE m = "RdMLikeU" /\ c # "percent" -> {"percent", c}
      [] m = "RdMLikeL" /\ c = "percent" -> {"underscore", c}
      [] m = "RdMRegExpU" /\ c \in {"plus", "question"} -> {"star", c}
      [] m = "RdMRegExpL" /\ c = "star" -> {"plus", "question", c}
      [] OTHER -> {c}

\* One iteration of for i, c := range newPattern.
RewriteChar ==
    /\ pc = "loop"
    /\ i <= Len(new)
    /\ \E c \in Rewritten(name, new[i]) : new' = [new EXCEPT ![i] = c]
    /\ i' = i + 1
    /\ UNCHANGED <<name, pattern, pc>>

EndOfPattern ==
    /\ pc = "loop"
    /\ i > Len(new)
    /\ pc' = "done"
    /\ UNCHANGED <<name, pattern, new, i>>

\* The query with the new pattern has been printed.
Mutated == pc = "done" /\ UNCHANGED vars

Next == RemovePrefix \/ RemoveSuffix \/ RewriteChar \/ EndOfPattern \/ Mutated

Spec == Init /\ [][Next]_vars

-----------------------------------------------------------------------------
(* What a pattern matches.                                                 *)

\* Position j is the second of a pair that a backslash begins: an odd number
\* of backslashes stands before it.
Escaped(p, j) ==
    \E n \in 1 .. (j - 1) :
        /\ n % 2 = 1
        /\ \A h \in (j - n) .. (j - 1) : p[h] = "backslash"
        /\ j - n > 1 => p[j - n - 1] # "backslash"

Quantifiers == {"star", "plus", "question"}

\* What a character stands for, by itself and at position j.
CharRole(k, c) ==
    CASE c = "backslash" -> "escape"
      [] k = "like" /\ c = "percent" -> "any"
      [] k = "regexp" /\ c \in Quantifiers -> "quantifier"
      [] k = "regexp" /\ c \in {"caret", "dollar"} -> "anchor"
      [] c = (IF k = "like" THEN "underscore" ELSE "dot") -> "one"
      [] OTHER -> "letter"

Role(k, p, j) == IF Escaped(p, j) THEN "letter" ELSE CharRole(k, p[j])

Times(q, n) == (q = "plus" => n >= 1) /\ (q = "question" => n <= 1)

FitsOne(k, p, j, c) == Role(k, p, j) = "one" \/ p[j] = c

Quantified(k, p, j) == j < Len(p) /\ Role(k, p, j + 1) = "quantifier"

\* Position j of p fits the text between the cut points x and y.  An atom
\* with a quantifier takes nothing, its quantifier takes all the repetitions.
Fits(k, p, j, t, x, y) ==
    LET role == Role(k, p, j) IN
    /\ x <= y
    /\ role \in {"escape", "anchor"} => y = x
    /\ role = "anchor" => x = (IF p[j] = "caret" THEN 0 ELSE Len(t))
    /\ role = "quantifier" =>
          /\ Times(p[j], y - x)
          /\ \A h \in (x + 1) .. y : FitsOne(k, p, j - 1, t[h])
    /\ role \in {"one", "letter"} =>
          IF Quantified(k, p, j) THEN y = x
          ELSE y = x + 1 /\ FitsOne(k, p, j, t[y])

\* cut[j] is the place in the text after position j; LIKE matches the whole
\* text, REGEXP looks for the pattern in it.
Aligns(k, p, t, cut) ==
    /\ k = "like" => cut[0] = 0 /\ cut[Len(p)] = Len(t)
    /\ \A j \in 1 .. Len(p) : Fits(k, p, j, t, cut[j - 1], cut[j])

Matches(k, p, t) == \E cut \in [0 .. Len(p) -> 0 .. Len(t)] : Aligns(k, p, t, cut)

\* Patterns in which every character means what the mutation takes it for:
\* nothing is escaped, and a quantifier follows a letter or a wildcard.
Plain(k, p) ==
    /\ \A j \in DOMAIN p : p[j] # "backslash"
    /\ k = "regexp" =>
          \A j \in DOMAIN p :
             p[j] \in Quantifiers => j > 1 /\ Role(k, p, j - 1) \in {"one", "letter"}

-----------------------------------------------------------------------------
TypeOK ==
    /\ name \in Names
    /\ pattern \in Seq(Chars)
    /\ new \in Seq(Chars)
    /\ i \in 1 .. (Len(new) + 1)
    /\ pc \in {"prefix", "suffix", "loop", "done"}

\* "RdMLikeU: normal char -> '_'|'%'", "RdMRegExpL: '*' -> '+'|'?'": whatever
\* coins have been tossed so far, a text that matched the old pattern matches
\* the new one (U), or the other way round (L).
PatternOrdered ==
    Plain(kind, pattern) =>
        \A t \in Texts :
            IF name \in Uppers THEN Matches(kind, pattern, t) => Matches(kind, new, t)
                               ELSE Matches(kind, new, t) => Matches(kind, pattern, t)
=============================================================================
