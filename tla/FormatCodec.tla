----------------------------- MODULE FormatCodec -----------------------------
(***************************************************************************)
(* The primitive formats of fathom-runtime/src/lib.rs: how the bytes of    *)
(* each format become a host value (ReadFormatUnchecked::read_unchecked)   *)
(* and back (WriteFormat::write).                                          *)
(*                                                                         *)
(* A byte is a digit in base Radix, 256 in the code.  Every definition     *)
(* shifts and masks by whole bytes, so the base is a parameter, and small  *)
(* instances take a small one.  A float is known by its bits.              *)
(***************************************************************************)
EXTENDS Integers, Sequences

CONSTANT Radix     \* the number of values of a byte

ASSUME RadixAssumption == Radix \in Nat \ {0, 1} /\ Radix % 2 = 0

Byte == 0 .. Radix - 1

\* What a shift by k bytes multiplies with: the weight of the byte at place k.
Weight[k \in 0 .. 8] == IF k = 0 THEN 1 ELSE Radix * Weight[k - 1]

-----------------------------------------------------------------------------
\* The primitive formats, by the names the language gives them, and the
\* families the macros of the runtime generate.
Unsigned == {"U8", "U16Le", "U16Be", "U32Le", "U32Be", "U64Le", "U64Be"}
Signed == {"S8", "S16Le", "S16Be", "S32Le", "S32Be", "S64Le", "S64Be"}
Floating == {"F32Le", "F32Be", "F64Le", "F64Be"}
PrimitiveFormat == Unsigned \cup Signed \cup Floating

LittleEndian ==
  {"U16Le", "U32Le", "U64Le", "S16Le", "S32Le", "S64Le", "F32Le", "F64Le"}

\* ReadFormatUnchecked::SIZE
Size(f) ==
  CASE f \in {"U8", "S8"} -> 1
    [] f \in {"U16Le", "U16Be", "S16Le", "S16Be"} -> 2
    [] f \in {"U32Le", "U32Be", "S32Le", "S32Be", "F32Le", "F32Be"} -> 4
    [] OTHER -> 8

-----------------------------------------------------------------------------
\* The place of the i-th byte, counted from the least significant one, and the byte
\* at a place.
Place(f, i) == IF f \in LittleEndian THEN i - 1 ELSE Size(f) - i
ByteAt(f, p) == IF f \in LittleEndian THEN p + 1 ELSE Size(f) - p

\* read_unchecked of the unsigned formats: every byte is shifted to its place and
\* or-ed in.
ReadUnsigned(f, bytes) ==
  LET sum[p \in 0 .. Size(f)] ==
        IF p = 0 THEN 0 ELSE sum[p - 1] + bytes[ByteAt(f, p - 1)] * Weight[p - 1]
  IN  sum[Size(f)]

\* Mutant of WriteUnsigned: every format big endian.
WriteBigEndian(f, value) ==
  [i \in 1 .. Size(f) |-> (value \div Weight[Size(f) - i]) % Radix]

\* write of the unsigned formats: the i-th byte written is the byte at its
\* place, `(value >> k) as u8`.
WriteUnsigned(f, value) ==
  [i \in 1 .. Size(f) |-> (value \div Weight[Place(f, i)]) % Radix]

\* Mutant of AsUnsigned: sign and magnitude.
AsMagnitude(f, value) == IF value < 0 THEN -value ELSE value

\* `as $int`, and the transmute of an $int to its unsigned twin.
AsSigned(f, value) ==
  IF 2 * value >= Weight[Size(f)] THEN value - Weight[Size(f)] ELSE value
AsUnsigned(f, value) == value % Weight[Size(f)]

\* ReadFormatUnchecked::read_unchecked and WriteFormat::write; from_bits and
\* to_bits keep the bits of a float, which are its model.
Decode(f, bytes) ==
  IF f \in Signed THEN AsSigned(f, ReadUnsigned(f, bytes))
  ELSE ReadUnsigned(f, bytes)

Encode(f, value) ==
  IF f \in Signed THEN WriteUnsigned(f, AsUnsigned(f, value))
  ELSE WriteUnsigned(f, value)

\* The values of Format::Host.
Host(f) ==
  LET n == Weight[Size(f)]
  IN  IF f \in Signed THEN -(n \div 2) .. (n \div 2) - 1 ELSE 0 .. n - 1

=============================================================================
