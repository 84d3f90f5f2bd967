------------------------------ MODULE Numerals ------------------------------
(***************************************************************************)
(* normalizeNumeric of connector/result.go, which gives every spelling of  *)
(* a number one text before rows are compared: "0.0000" and "0" are to be  *)
(* the same cell.  A numeral is its sign, its digits before and after the  *)
(* point (there is a point when there are digits after it) and, in         *)
(* scientific notation, its exponent.  A row is the numeral in its first   *)
(* column, the other columns being the same everywhere.                    *)
(***************************************************************************)
EXTENDS ResultCMP, FiniteSetsExt

CONSTANTS Plain,    \* in place of an exponent: no scientific notation
          Places    \* before the point, and after it, that are looked at

Digits == 0 .. 9

Numeral == [neg : BOOLEAN, int : Seq(Digits), frac : Seq(Digits), exp : Int \cup {Plain}]

Exponent(n) == IF n.exp = Plain THEN 0 ELSE n.exp

\* The digit of n that counts 10^p.
Digit(n, p) ==
    LET ds == n.int \o n.frac
        j == Len(n.int) + Exponent(n) - p
    IN  IF j \in DOMAIN ds THEN ds[j] ELSE 0

\* All digits of n, from that of 10^(Places - 1) to that of 10^-Places.
Columns(n) == [k \in 1 .. 2 * Places |-> Digit(n, Places - k)]

Magnitude(ds) ==
    LET m[k \in Nat] == IF k = 0 THEN 0 ELSE 10 * m[k - 1] + ds[k] IN m[Len(ds)]

\* The number, in units of 10^-Places.
Value(n) == IF n.neg THEN -Magnitude(Columns(n)) ELSE Magnitude(Columns(n))

(* What a DBMS prints: an integer or a fixed-point number without leading  *)
(* zeros, or a floating-point number.  A fixed-point zero may be printed   *)
(* "-0.0"; a floating-point zero may be printed "-0", which                *)
(* normalizeNumeric leaves as it is: that one is not among them.          *)
Printable ==
    {n \in Numeral :
        /\ Len(n.int) >= 1
        /\ Len(n.int) + Exponent(n) <= Places /\ Len(n.frac) - Exponent(n) <= Places
        /\ n.exp = Plain /\ n.int[1] = 0 => Len(n.int) = 1
        /\ n.neg /\ Value(n) = 0 => n.exp = Plain /\ n.frac # <<>>}

-----------------------------------------------------------------------------

\* The last, or the first, nonzero position of ds; 0, or Len(ds), if there is none.
LastNonzero(ds) == Max({0} \cup {j \in DOMAIN ds : ds[j] # 0})
FirstNonzero(ds) == Min({Len(ds)} \cup {j \in DOMAIN ds : ds[j] # 0})

\* A mutant: a zero too few is left of the zeros to strip.
StripZeros_TooMany(ds) == SubSeq(ds, 1, LastNonzero(ds) - 1)

StripZeros(ds) == SubSeq(ds, 1, LastNonzero(ds))

(* strconv.ParseFloat, and FormatFloat with verb 'f' and the least number  *)
(* of digits: the point moved by the exponent.  The digits stay those that *)
(* the DBMS printed for a double.  The sign of a zero stays.               *)
FormatFloat(n) ==
    LET int == SubSeq(Columns(n), 1, Places)
        frac == SubSeq(Columns(n), Places + 1, 2 * Places)
    IN  [neg |-> n.neg,
         int |-> SubSeq(int, FirstNonzero(int), Places),
         frac |-> StripZeros(frac),
         exp |-> Plain]

normalizeNumeric(n) ==
    IF n.exp # Plain THEN FormatFloat(n)
    ELSE IF n.frac = <<>> THEN n
    ELSE LET result == [n EXCEPT !.frac = StripZeros(n.frac)]
         IN  IF result.frac = <<>> /\ result.int = <<0>>
               THEN [result EXCEPT !.neg = FALSE]
               ELSE result

ASSUME NumeralsAssumption ==
    /\ Places \in Nat \ {0} /\ Plain \notin Int
    /\ Rows \subseteq Printable
    /\ FlatOf = [n \in Rows |-> normalizeNumeric(n)]

-----------------------------------------------------------------------------

NumberOf == [n \in Rows |-> Value(n)]

NumbersIn(result, v) == Cardinality({j \in DOMAIN result.rows : NumberOf[result.rows[j]] = v})

FewerNumbers(r, q) == \A n \in Rows : NumbersIn(r, NumberOf[n]) <= NumbersIn(q, NumberOf[n])

(* The comparison sees numbers, not their spelling: -1 or 0 when every     *)
(* number of this occurs as often in another, 1 or 0 the other way round   *)
(* ("Numeric values are normalized to prevent "0" vs "0.0000" false        *)
(* mismatches", result.go:73).                                             *)
NumbersCompared ==
    pc = "done" /\ ~this.err /\ ~another.err /\ this.cols = another.cols =>
        /\ cmp \in {-1, 0} <=> FewerNumbers(this, another)
        /\ cmp \in {0, 1} <=> FewerNumbers(another, this)
=============================================================================
