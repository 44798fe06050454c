-------------------------------- MODULE Numerals --------------------------------
(*****************************************************************************)
(* execution/template: CoerceStringNumbers on one string argument, with its  *)
(* hand-written parsers.  A string is the sequence of its characters.        *)
(*                                                                           *)
(* An integer is W bits wide (64 in the code) and wraps around.  The whole   *)
(* part of a float is read into a float of Precision bits (53) that overflows*)
(* to infinity.  The digits behind the point stay what the code adds up: the *)
(* k-th divided by 10^k, in order.  That sum, which rounds in every step, is *)
(* not evaluated, nor its addition to the whole part.                        *)
(*****************************************************************************)
EXTENDS Integers, Sequences, FiniteSets

CONSTANTS
  W,         \* width of an integer
  Precision, \* bits of a float's significand
  MaxExp,    \* how far its largest exponent shifts it
  Chars,     \* characters of the strings
  MaxLen     \* bound on their length

VARIABLE s

vars == s

Digits == <<"0", "1", "2", "3", "4", "5", "6", "7", "8", "9">>
IsDigit(c) == \E d \in DOMAIN Digits : Digits[d] = c
Value(c) == (CHOOSE d \in DOMAIN Digits : Digits[d] = c) - 1

Power(b, n) == LET p[i \in 0..n] == IF i = 0 THEN 1 ELSE p[i - 1] * b IN p[n]

\* What W bits keep of an integer.
Wrapped(x) == ((x + Power(2, W - 1)) % Power(2, W)) - Power(2, W - 1)

-----------------------------------------------------------------------------

NotParsed == [kind |-> "string"]

\* The digits of str, read from the left into an integer.
Int64(str) ==
  LET n[i \in 0..Len(str)] ==
        IF i = 0 THEN 0
        ELSE IF str[i] = "-" THEN n[i - 1]
        ELSE Wrapped(n[i - 1] * 10 + Value(str[i]))
  IN  n[Len(str)]

\* Faulty: a minus sign is skipped wherever it is.
tryParseIntAnyMinus(str) ==
  IF str = <<>> \/ \E i \in DOMAIN str : str[i] # "-" /\ ~IsDigit(str[i]) THEN NotParsed
  ELSE [kind |-> "int", value |-> IF str[1] = "-" THEN Wrapped(-Int64(str)) ELSE Int64(str)]

tryParseInt(str) ==
  IF str = <<>> \/ \E i \in DOMAIN str : ~(str[i] = "-" /\ i = 1) /\ ~IsDigit(str[i]) THEN NotParsed
  ELSE [kind |-> "int", value |-> IF str[1] = "-" THEN Wrapped(-Int64(str)) ELSE Int64(str)]

\* The float nearest to a natural number, the even one of two: below 2^Precision
\* the number itself, above it a multiple of the unit in its last place.
Infinity == Power(2, Precision + MaxExp)
Unit(x) == Power(2, Cardinality({e \in 0..MaxExp - 1 : Power(2, Precision + e) <= x}))
Nearest(x, u) ==
  LET low == x - (x % u)
  IN  IF 2 * (x % u) < u \/ (2 * (x % u) = u /\ (low \div u) % 2 = 0) THEN low ELSE low + u
Rounded(x) ==
  IF x < Power(2, Precision) THEN x
  ELSE IF Nearest(x, Unit(x)) >= Infinity THEN Infinity ELSE Nearest(x, Unit(x))

\* The digits of str, read from the left into a float.
Float64(str) ==
  LET val[i \in 0..Len(str)] ==
        IF i = 0 THEN 0
        ELSE IF str[i] = "-" THEN val[i - 1]
        ELSE Rounded(Rounded(val[i - 1] * 10) + Value(str[i]))
  IN  val[Len(str)]

Points(str) == {i \in DOMAIN str : str[i] = "."}
Before(str, p) == SubSeq(str, 1, p - 1)

\* The digits up to the point, then those behind it.
tryParseFloat(str) ==
  LET p == CHOOSE i \in Points(str) : TRUE
      bad == \E i \in DOMAIN str : ~(str[i] = "-" /\ i = 1) /\ str[i] # "." /\ ~IsDigit(str[i])
  IN  IF str = <<>> \/ bad \/ \A i \in DOMAIN str : Points(str) # {i} THEN NotParsed
      ELSE [kind  |-> "float",
            neg   |-> str[1] = "-",
            whole |-> Float64(Before(str, p)),
            terms |-> [k \in 1..Len(str) - p |-> Value(str[p + k])]]

tryParseBool(str) ==
  CASE str = <<"true">> -> [kind |-> "bool", value |-> TRUE]
    [] str = <<"false">> -> [kind |-> "bool", value |-> FALSE]
    [] OTHER -> NotParsed

CoerceStringNumbers(str) ==
  LET i == tryParseInt(str)
      f == tryParseFloat(str)
  IN  IF i # NotParsed THEN i ELSE IF f # NotParsed THEN f ELSE tryParseBool(str)

-----------------------------------------------------------------------------
(* Every string of at most MaxLen characters, and the two words.             *)

Init == s = <<>>

Write(c) == Len(s) < MaxLen /\ s' = Append(s, c)
Word(w) == s = <<>> /\ s' = <<w>>
Done == Len(s) = MaxLen /\ UNCHANGED s

Next == (\E c \in Chars : Write(c)) \/ (\E w \in {"true", "false"} : Word(w)) \/ Done

Spec == Init /\ [][Next]_vars

-----------------------------------------------------------------------------
(* Properties.                                                               *)

\* A decimal numeral, and the number that its digits denote by their places.
Numeral(str) ==
  /\ \A i \in DOMAIN str : IsDigit(str[i]) \/ str[i] = "." \/ (i = 1 /\ str[i] = "-")
  /\ \A i, j \in Points(str) : i = j
Place(str, i) == Power(10, Cardinality({j \in i + 1..Len(str) : IsDigit(str[j])}))
Magnitude(str) ==
  LET places[i \in 0..Len(str)] ==
        IF i = 0 THEN 0
        ELSE IF IsDigit(str[i]) THEN places[i - 1] + Value(str[i]) * Place(str, i)
        ELSE places[i - 1]
  IN  places[Len(str)]
Number(str) == IF str[1] = "-" THEN -Magnitude(str) ELSE Magnitude(str)

\* "converts string values in args that represent numbers": a string is converted
\* exactly if it is a decimal numeral or a truth value.  An integer that fits in W
\* bits keeps its value, one that does not wraps around; a float has the sign, the
\* whole part if that is below 2^Precision, and a term for every digit behind the
\* point.  A sign or a point without any digit becomes zero.  Nothing is said of a
\* larger whole part, and nothing of how the terms' sum rounds.
CoercedAsWritten ==
  LET v == CoerceStringNumbers(s)
  IN  IF s = <<>> \/ ~Numeral(s)
      THEN v.kind = IF s \in {<<"true">>, <<"false">>} THEN "bool" ELSE "string"
      ELSE IF Points(s) = {}
           THEN /\ v.kind = "int"
                /\ (v.value - Number(s)) % Power(2, W) = 0
                /\ Number(s) \in -Power(2, W - 1)..Power(2, W - 1) - 1 => v.value = Number(s)
           ELSE /\ v.kind = "float" /\ v.neg = (s[1] = "-")
                /\ \A p \in Points(s) :
                     /\ Len(v.terms) = Len(s) - p
                     /\ \A k \in 1..Len(s) - p : v.terms[k] = Value(s[p + k])
                     /\ Magnitude(Before(s, p)) < Power(2, Precision) =>
                          v.whole = Magnitude(Before(s, p))
=============================================================================
