-------------------------- MODULE LiteralReference --------------------------
(***************************************************************************)
(* What the literals of Literal mean: every literal over an alphabet is    *)
(* typed character by character, and both conversions are compared with    *)
(* the grammar of numbers and with their positional value.                 *)
(***************************************************************************)
EXTENDS Literal, FiniteSetsExt

CONSTANTS
  Alphabet,     \* characters a literal is made of
  MaxLength     \* bound on the length of a literal

VARIABLE source

Init == source = <<>>

Type(c) == Len(source) < MaxLength /\ source' = Append(source, c)

Next == \E c \in Alphabet : Type(c)

Spec == Init /\ [][Next]_source

-----------------------------------------------------------------------------
\* The parts of a literal.
Sign(s) == IF s # <<>> /\ s[1] = "-" THEN -1 ELSE 1
Unsigned(s) == IF s # <<>> /\ s[1] \in {"+", "-"} THEN Tail(s) ELSE s
BaseOf(s) == IF IsBase(Unsigned(s), 1) THEN Bases[Unsigned(s)[2]] ELSE 10
Body(s) == IF IsBase(Unsigned(s), 1) THEN SubSeq(Unsigned(s), 3, Len(Unsigned(s)))
           ELSE Unsigned(s)

\* Digits of a base, with separators behind the first of them.
IsNumeral(s, base) ==
  /\ s # <<>> /\ s[1] # "_"
  /\ \A i \in DOMAIN s : IsDigit(s[i], base) \/ s[i] = "_"

Places(s) == {i \in DOMAIN s : s[i] # "_"}
ValueOf(s, base) ==
  MapThenSumSet(LAMBDA i : AsciiDigit[s[i]] * base ^ Cardinality({j \in Places(s) : j > i}),
                Places(s))

\* A decimal number with a fraction that has digits before and after its point.
Point(s) == CHOOSE i \in DOMAIN s : s[i] = "."
Whole(s) == SubSeq(s, 1, Point(s) - 1)
Behind(s) == SubSeq(s, Point(s) + 1, Len(s))
HasPoint(s) == \E i \in DOMAIN s : s[i] = "."

-----------------------------------------------------------------------------
\* number_to_big_int accepts exactly the numerals of the four bases, with or
\* without a sign, and computes their value, separators and sign included.
IntegersAreExact ==
  LET result == NumberToBigInt(source)
  IN  /\ result.ok <=> IsNumeral(Body(source), BaseOf(source))
      /\ result.ok => result.value = Sign(source) * ValueOf(Body(source), BaseOf(source))

\* number_to_float accepts exactly the decimal numerals and the decimal
\* fractions with digits on both sides of the point, and computes their value:
\* the digits of a negative fraction go the same way as those before it.
FloatsAreExact ==
  LET result == NumberToFloat(source)
      s == Body(source)
      fraction == HasPoint(s) /\ IsNumeral(Whole(s), 10) /\ IsNumeral(Behind(s), 10)
  IN  /\ result.ok <=> BaseOf(source) = 10 /\ (IsNumeral(s, 10) \/ fraction)
      /\ result.ok =>
           LET digits == IF fraction THEN Whole(s) \o Behind(s) ELSE s
               scale == IF fraction THEN Cardinality(Places(Behind(s))) ELSE 0
           IN  result.value[1] * 10 ^ scale
                 = Sign(source) * ValueOf(digits, 10) * 10 ^ result.value[2]

\* A rejection is final unless it says otherwise: the literals for which the
\* end came unexpectedly are exactly the rejected ones that one more
\* character can still turn into a number.
OnlyUnfinishedLiteralsEndEarly ==
  LET result == NumberToBigInt(source)
      more == \E c \in Alphabet : NumberToBigInt(Append(source, c)).ok
  IN  ~result.ok => (result.message = "UnexpectedEndOfLiteral" <=> more)

\* What core_to_surface.rs prints for a number parses to that number again,
\* as an integer and as a float.
PrintedNumbersParse ==
  /\ LET int == NumberToBigInt(source)
     IN  int.ok => NumberToBigInt(IntToString(int.value)) = int
  /\ LET float == NumberToFloat(source)
     IN  float.ok => NumberToFloat(FloatToString(float.value)) = float

\* Numbers are read exactly, as integers and as floats, and printed so that they
\* are read as the same number again.
NumbersAreExact == IntegersAreExact /\ FloatsAreExact /\ PrintedNumbersParse

=============================================================================
