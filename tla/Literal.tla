------------------------------- MODULE Literal -------------------------------
(***************************************************************************)
(* The number literals of fathom/src/literal.rs.  A literal is the         *)
(* sequence of its characters.  What the code calls a location is left     *)
(* out; a literal that cannot be parsed is known by the one message that   *)
(* is reported for it.  A float is the decimal fraction it denotes: the    *)
(* rounding of f32 and f64 is not modelled.                                *)
(***************************************************************************)
EXTENDS Integers, Sequences, SequencesExt

\* Base::to_u8 by the character behind the 0.
Bases == [b |-> 2, o |-> 8, x |-> 16]

\* ascii_digit, for the digits and the lower-case letters the instances use.
AsciiDigit ==
  [c \in {"0", "1", "2", "3", "4", "5", "6", "7", "8", "9", "a", "b", "c", "d", "e", "f", "o", "x"} |->
     CHOOSE d \in 0 .. 35 :
       c = <<"0", "1", "2", "3", "4", "5", "6", "7", "8", "9", "a", "b", "c", "d", "e",
             "f", "g", "h", "i", "j", "k", "l", "m", "n", "o", "p", "q", "r", "s", "t",
             "u", "v", "w", "x", "y", "z">>[d + 1]]
IsDigit(c, base) == c \in DOMAIN AsciiDigit /\ AsciiDigit[c] < base

Parsed(value) == [ok |-> TRUE, value |-> value]
Report(message) == [ok |-> FALSE, message |-> message]

\* Mutant of AddDigit: the sign is applied to the first digit only.
AddDigitUnsigned(sign, base, number, digit) == number * base + digit

\* The closures add_digit of both conversions.
AddDigit(sign, base, number, digit) == number * base + sign * digit

-----------------------------------------------------------------------------
\* Mutant of IsBase: a base needs a character behind it.
IsBaseBefore(source, at) ==
  at + 1 < Len(source) /\ source[at] = "0" /\ source[at + 1] \in DOMAIN Bases

\* A token of NumericLiteral at a place; the longest match makes `0x` a base
\* and not a digit.
IsBase(source, at) ==
  at < Len(source) /\ source[at] = "0" /\ source[at + 1] \in DOMAIN Bases

StartToken(source, at) ==
  IF at > Len(source) THEN "end"
  ELSE IF source[at] \in {"+", "-"} THEN "sign"
  ELSE IF IsBase(source, at) THEN "base"
  ELSE IF IsDigit(source[at], 10) THEN "digit" ELSE "error"

\* expect_numeric_literal_start, with expect_token: sign and base, the digits
\* consumed on the way, and the place behind them.
ExpectNumericLiteralStart(source) ==
  LET From(sign, at, token) ==
        CASE token = "end" -> Report("UnexpectedEndOfLiteral")
          [] token = "base" ->
               Parsed([sign |-> sign, base |-> Bases[source[at + 1]], digits |-> <<>>,
                       rest |-> SubSeq(source, at + 2, Len(source))])
          [] token = "digit" ->
               Parsed([sign |-> sign, base |-> 10, digits |-> <<AsciiDigit[source[at]]>>,
                       rest |-> SubSeq(source, at + 1, Len(source))])
          [] at = 1 /\ token = "error" -> Report("ExpectedStartOfNumericLiteral")
          [] OTHER -> Report("ExpectedRadixOrDecimalDigit")
  IN  IF StartToken(source, 1) = "sign"
        THEN From(IF source[1] = "-" THEN -1 ELSE 1, 2, StartToken(source, 2))
        ELSE From(1, 1, StartToken(source, 1))

-----------------------------------------------------------------------------
\* number_to_big_int
NumberToBigInt(source) ==
  LET Digit(sign, base, st, c) ==
        IF st.failed # "" THEN st
        ELSE IF IsDigit(c, base)
          THEN [st EXCEPT !.integer = AddDigit(sign, base, @, AsciiDigit[c]),
                          !.num_digits = @ + 1]
        ELSE IF c = "_" /\ st.num_digits # 0 THEN st
        ELSE [st EXCEPT !.failed = IF st.num_digits = 0 THEN "ExpectedDigit"
                                   ELSE "ExpectedDigitOrSeparator"]
      Read(start) ==
        FoldLeft(LAMBDA st, c : Digit(start.sign, start.base, st, c),
                 [integer |-> FoldLeft(LAMBDA n, d : AddDigit(start.sign, 10, n, d), 0,
                                       start.digits),
                  num_digits |-> Len(start.digits), failed |-> ""],
                 start.rest)
      Finish(end) ==
        IF end.failed # "" THEN Report(end.failed)
        ELSE IF end.num_digits = 0 THEN Report("UnexpectedEndOfLiteral")
        ELSE Parsed(end.integer)
      From(start) == IF start.ok THEN Finish(Read(start.value)) ELSE start
  IN  From(ExpectNumericLiteralStart(source))

\* number / 10^scale in lowest terms.
Fraction(number, scale) ==
  LET reduced[k \in 0 .. scale] ==
        IF k = 0 \/ (number \div 10 ^ (scale - k)) % 10 # 0
          THEN <<number \div 10 ^ (scale - k), k>> ELSE reduced[k - 1]
  IN  reduced[scale]

\* The two loops of number_to_float: the digits before and after the point.
\* An exponent ends either of them.
FloatDigit(sign, st, c) ==
  IF st.failed # "" \/ st.part = "exponent" THEN st
  ELSE IF IsDigit(c, 10)
    THEN [st EXCEPT !.number = AddDigit(sign, 10, @, AsciiDigit[c]), !.num_digits = @ + 1,
                    !.scale = IF st.part = "fraction" THEN @ + 1 ELSE @]
  ELSE IF c = "_" /\ st.num_digits # 0 THEN st
  ELSE IF c = "e" \/ (c = "." /\ st.part = "integer")
    THEN [st EXCEPT !.part = IF c = "e" THEN "exponent" ELSE "fraction",
                    !.num_digits = IF c = "e" THEN @ ELSE 0,
                    !.failed = IF st.num_digits = 0 THEN "ExpectedDigit" ELSE ""]
  ELSE [st EXCEPT !.failed =
          IF st.num_digits = 0 THEN "ExpectedDigit"
          ELSE IF st.part = "integer" THEN "ExpectedDigitSeparatorFracOrExp"
          ELSE "ExpectedDigitSeparatorOrExp"]

\* number_to_float
NumberToFloat(source) ==
  LET Read(start) ==
        FoldLeft(LAMBDA st, c : FloatDigit(start.sign, st, c),
                 [number |-> FoldLeft(LAMBDA n, d : AddDigit(start.sign, 10, n, d), 0,
                                      start.digits),
                  num_digits |-> Len(start.digits), scale |-> 0, part |-> "integer",
                  failed |-> ""],
                 start.rest)
      Finish(end) ==
        IF end.failed # "" THEN Report(end.failed)
        ELSE IF end.num_digits = 0 THEN Report("ExpectedDigit")
        ELSE IF end.part = "exponent" THEN Report("FloatLiteralExponentNotSupported")
        ELSE Parsed(Fraction(end.number, end.scale))
      From(start) ==
        IF ~start.ok THEN start
        ELSE IF start.value.base # 10 THEN Report("UnsupportedFloatLiteralBase")
        ELSE Finish(Read(start.value))
  IN  From(ExpectNumericLiteralStart(source))

-----------------------------------------------------------------------------
\* The to_string of integers and floats that core_to_surface.rs uses (Display
\* of the standard library): no separators, no exponent, no trailing zeros.
DigitsOf(n, base) ==
  LET width == CHOOSE w \in 1 .. 9 : n < base ^ w /\ (w = 1 \/ n >= base ^ (w - 1))
  IN  [i \in 1 .. width |->
         CHOOSE c \in DOMAIN AsciiDigit : AsciiDigit[c] = (n \div base ^ (width - i)) % base]
Digits(n) == DigitsOf(n, 10)

IntToString(n) == IF n < 0 THEN <<"-">> \o Digits(-n) ELSE Digits(n)

FloatToString(float) ==
  LET magnitude == IF float[1] < 0 THEN -float[1] ELSE float[1]
      scale == float[2]
      digits == [i \in 1 .. scale |->
                   CHOOSE c \in DOMAIN AsciiDigit :
                     AsciiDigit[c] = (magnitude \div 10 ^ (scale - i)) % 10]
  IN  (IF float[1] < 0 THEN <<"-">> ELSE <<>>) \o Digits(magnitude \div 10 ^ scale)
        \o (IF scale = 0 THEN <<>> ELSE <<".">> \o digits)

=============================================================================
