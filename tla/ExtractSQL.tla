------------------------------ MODULE ExtractSQL ------------------------------
(***************************************************************************)
(* connector/extractsqls.go: every file of statements that a task or a     *)
(* tool reads is one string, and is cut at the semicolons outside of       *)
(* quotes.                                                                 *)
(*                                                                         *)
(* A script is the string together with its author's, and the DBMS's,      *)
(* reading of it: what each character is there for, and where a statement  *)
(* ends.  All characters that mean nothing here are one, "x".              *)
(***************************************************************************)
EXTENDS SequencesExt, Integers

CONSTANT Scripts   \* [s: string, as: what its characters are, quote: around them, ends]

\* The characters ' " and `.
Quotes == {"single", "double", "back"}

(* What a character c is, between quotes q or ("none") outside of any; a   *)
(* doubled quote is read as one character of the literal, a backslash in a *)
(* name (between `) means nothing and does not occur.                      *)
Reads(as, q, c) ==
    \/ as = "out" /\ q = "none" /\ c \in {"x", "backslash", "semicolon"}
    \/ as \in {"open", "first", "second", "close"} /\ q \in Quotes /\ c = q
    \/ as = "text" /\ q \in Quotes /\ c \in (Quotes \cup {"x", "semicolon"}) \ {q}
    \/ as = "escape" /\ q \in Quotes \ {"back"} /\ c = "backslash"
    \/ as = "escaped" /\ q \in Quotes \ {"back"} /\ c \in Quotes \cup {"x", "backslash", "semicolon"}

\* What can come after it.
After(as) ==
    CASE as \in {"out", "close"} -> {"out", "open"}
      [] as \in {"open", "text", "escaped", "second"} -> {"text", "escape", "first", "close"}
      [] as = "escape" -> {"escaped"}
      [] as = "first" -> {"second"}

(* A last literal may stay open, and a last statement without a semicolon. *)
WellRead(script) ==
    /\ script.s \in Seq(Quotes \cup {"x", "backslash", "semicolon"})
    /\ \A p \in DOMAIN script.s :
          /\ Reads(script.as[p], script.quote[p], script.s[p])
          /\ script.as[p] \in (IF p = 1 THEN {"out", "open"} ELSE After(script.as[p - 1]))
          /\ script.as[p] \notin {"out", "open"} => script.quote[p] = script.quote[p - 1]
    /\ script.ends \in Seq(DOMAIN script.s)
    /\ \A j, k \in DOMAIN script.ends : j < k => script.ends[j] < script.ends[k]
    /\ \A p \in DOMAIN script.s :
          script.as[p] = "out" /\ script.s[p] = "semicolon" <=> \E k \in DOMAIN script.ends : script.ends[k] = p

ASSUME ScriptsAssumption == \A script \in Scripts : WellRead(script)

VARIABLES
    script,
    at,      \* the index i of the loop
    start,   \* where the current statement starts
    flag,    \* the quote that is open, or "none"
    res

extractVars == <<script, at, start, flag, res>>

\* Where the k-th statement ends.
End(k) == IF k = 0 THEN 0 ELSE script.ends[k]

statements ==
    [k \in DOMAIN script.ends |-> SubSeq(script.s, End(k - 1) + 1, End(k))]

ExtractInit ==
    /\ script \in Scripts
    /\ at = 1 /\ start = 1 /\ flag = "none" /\ res = <<>>

At(chars) == at <= Len(script.s) /\ script.s[at] \in chars

Quote ==
    /\ At(Quotes)
    /\ flag' = IF flag = "none" THEN script.s[at]
               ELSE IF flag = script.s[at] THEN "none" ELSE flag
    /\ at' = at + 1
    /\ UNCHANGED <<script, start, res>>

\* Mutant: a backslash never takes the next character with it.
Backslash_Alone ==
    /\ At({"backslash"})
    /\ at' = at + 1
    /\ UNCHANGED <<script, start, flag, res>>

\* Within quotes, of any kind, the next character is skipped.
Backslash ==
    /\ At({"backslash"})
    /\ at' = at + (IF flag = "none" THEN 1 ELSE 2)
    /\ UNCHANGED <<script, start, flag, res>>

Semicolon ==
    /\ At({"semicolon"})
    /\ IF flag = "none"
       THEN /\ res' = Append(res, SubSeq(script.s, start, at))
            /\ start' = at + 1
       ELSE UNCHANGED <<start, res>>
    /\ at' = at + 1
    /\ UNCHANGED <<script, flag>>

Other ==
    /\ at <= Len(script.s) /\ ~At(Quotes \cup {"backslash", "semicolon"})
    /\ at' = at + 1
    /\ UNCHANGED <<script, start, flag, res>>

ExtractNext == Quote \/ Backslash \/ Semicolon \/ Other

ExtractSpec == ExtractInit /\ [][ExtractNext]_extractVars

-----------------------------------------------------------------------------

(* At any point the statements found are the first ones of the script; at  *)
(* the end they are all of them, whatever their quotes enclose, except for *)
(* a last one without a semicolon, which is silently left out              *)
(* (extractsqls.go:13-19).                                                 *)
StatementsFound ==
    /\ IsPrefix(res, statements)
    /\ at > Len(script.s) => res = statements

-----------------------------------------------------------------------------
(* The loop, about the characters before at: found of the statements end   *)
(* there, and the flag is what the last of them leaves open.  (Halfway     *)
(* through a doubled quote that is nothing: it closes and opens again.)    *)

LeftOpen ==
    IF at > 1 /\ script.as[at - 1] \in {"open", "text", "escaped", "second"}
    THEN script.quote[at - 1] ELSE "none"

Found(n) ==
    /\ res = SubSeq(statements, 1, n)
    /\ start = End(n) + 1
    /\ End(n) < at
    /\ n < Len(script.ends) => at <= End(n + 1)

ExtractTypeOK ==
    /\ script \in Scripts
    /\ at \in 1 .. Len(script.s) + 2

LoopInvariant ==
    /\ ExtractTypeOK
    /\ \E n \in 0 .. Len(script.ends) : Found(n)
    /\ at <= Len(script.s) => flag = LeftOpen /\ script.as[at] # "escaped"
=============================================================================
