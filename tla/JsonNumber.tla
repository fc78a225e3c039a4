----------------------------- MODULE JsonNumber -----------------------------
(***************************************************************************)
(* libs/cJSON.c: how a number is read from JSON text into a double and     *)
(* printed from it.  The numbers are those that are integers: of strtod    *)
(* and sprintf, what they do with a fraction, an infinity or a NaN is left *)
(* out.  A double has Significand bits; %g prints ShortDigits of them, or  *)
(* FullDigits if that many do not bring the double back.                   *)
(***************************************************************************)
EXTENDS Config, SequencesExt

CONSTANTS Significand,  (* DBL_MANT_DIG                                    *)
          ShortDigits,  (* of "%1.15g"                                     *)
          FullDigits    (* of "%1.17g"                                     *)

ASSUME DoubleAssumption ==
    /\ {Significand, ShortDigits, FullDigits} \subseteq Nat \ {0}
    /\ 10 ^ ShortDigits < 2 ^ (Significand - 1) /\ IntMax < 2 ^ Significand
    /\ 2 ^ Significand < 10 ^ (FullDigits - 1)

Abs(n) == IF n < 0 THEN -n ELSE n

(* The weight of the last of the places, so many, that n is written with.  *)
RECURSIVE Unit(_, _, _)
Unit(n, base, places) ==
    IF n < base ^ places THEN 1 ELSE base * Unit(n \div base, base, places)

(* The nearest number of so many places, and of two the even one.          *)
Nearest(n, base, places) ==
    LET unit == Unit(n, base, places)
        rest == 2 * (n % unit)
        up   == rest > unit \/ (rest = unit /\ (n \div unit) % 2 = 1)
    IN unit * ((n \div unit) + (IF up THEN 1 ELSE 0))

Double(n) == Nearest(n, 2, Significand)
-----------------------------------------------------------------------------
(* parse_number: what strtod takes of the text at i; its sign, the digits, *)
(* a point and more digits, and an exponent that has digits.               *)
DigitsAt(b, i) == IF i > Len(b) THEN <<>> ELSE SubSeq(b, i, Past(b, i, Digit) - 1)

ValueOf(digits) == FoldLeft(LAMBDA n, c : 10 * n + c - 48, 0, digits)

Fraction(b, i) == IF i <= Len(b) /\ b[i] = 46 THEN DigitsAt(b, i + 1) ELSE <<>>

Exponent(b, i) ==
    LET signed == i < Len(b) /\ b[i + 1] \in Sign
        digits == DigitsAt(b, IF signed THEN i + 2 ELSE i + 1)
    IN IF i > Len(b) \/ b[i] \notin {69, 101} \/ digits = <<>> THEN [n |-> 0, length |-> 0]
       ELSE [n |-> IF signed /\ b[i + 1] = 45 THEN -ValueOf(digits) ELSE ValueOf(digits),
             length |-> Len(digits) + (IF signed THEN 2 ELSE 1)]

Strtod(b, i) ==
    LET from     == IF b[i] = 45 THEN i + 1 ELSE i
        whole    == DigitsAt(b, from)
        point    == from + Len(whole)
        fraction == Fraction(b, point)
        after    == IF point <= Len(b) /\ b[point] = 46 THEN point + 1 + Len(fraction) ELSE point
        exponent == Exponent(b, after)
        size     == Double(ValueOf(whole \o fraction) * 10 ^ (exponent.n - Len(fraction)))
    IN IF whole = <<>> THEN [value |-> 0, next |-> i]
       ELSE [value |-> IF from = i THEN size ELSE -size, next |-> after + exponent.length]
-----------------------------------------------------------------------------
RECURSIVE Decimal(_)
Decimal(n) ==
    IF n < 0 THEN <<45>> \o Decimal(-n)
    ELSE IF n < 10 THEN <<48 + n>> ELSE Append(Decimal(n \div 10), 48 + (n % 10))

(* sprintf of so many digits with %g: as an integer, or with an exponent   *)
(* of at least two digits and no zeros at the end.                         *)
Scientific(digits) ==
    LET last  == SelectLastInSeq(digits, LAMBDA c : c # 48)
        rest  == SubSeq(digits, 2, last)
        power == Decimal(Len(digits) - 1)
    IN <<digits[1]>> \o (IF rest = <<>> THEN <<>> ELSE <<46>> \o rest)
         \o <<101, 43>> \o (IF Len(power) = 1 THEN <<48>> \o power ELSE power)

General(n, places) ==
    LET digits == Decimal(Nearest(Abs(n), 10, places))
    IN (IF n < 0 THEN <<45>> ELSE <<>>)
         \o (IF Len(digits) <= places THEN digits ELSE Scientific(digits))

(* compare_double: equal but for the last bit.                             *)
CompareDouble(a, b) ==
    Abs(a - b) * 2 ^ (Significand - 1) <= (IF Abs(a) > Abs(b) THEN Abs(a) ELSE Abs(b))

(* print_number: %d for what an int holds.                                 *)
PrintNumber(n) ==
    LET short == General(n, ShortDigits)
    IN IF n \in -IntMax - 1 .. IntMax THEN Decimal(n)
       ELSE IF CompareDouble(Strtod(short, 1).value, n) THEN short
       ELSE General(n, FullDigits)
=============================================================================
