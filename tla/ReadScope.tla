------------------------------ MODULE ReadScope ------------------------------
(***************************************************************************)
(* The values of fathom-runtime/src/read.rs: a ReadScope is a window on    *)
(* the byte buffer together with the stream position of its first byte; a  *)
(* FormatReader is a scope and an offset into it.                          *)
(*                                                                         *)
(* A Rust slice is modelled by where it lies in the buffer: `at` is the    *)
(* address of its first byte and `len` the number of its bytes.  The code  *)
(* keeps `base` and the slice as two separate pieces of state, and nothing *)
(* but the arithmetic below keeps them in step.                            *)
(***************************************************************************)
EXTENDS Integers

CONSTANTS
  BufferLen,   \* number of bytes in the buffer given to ReadScope::new
  UsizeMax     \* the largest usize

\* A Rust allocation never exceeds isize::MAX bytes, so its length is a usize.
ASSUME SizeAssumption ==
  /\ BufferLen \in Nat
  /\ UsizeMax \in Nat
  /\ BufferLen <= UsizeMax

Usize == 0 .. UsizeMax

\* The result of an operation that has no value to give (Option::None).
None == -1

Scope == [base : Usize, at : 0 .. BufferLen, len : 0 .. BufferLen]

FormatReader == [scope : Scope, offset : Usize]

-----------------------------------------------------------------------------
\* ReadScope::new
NewScope == [base |-> 0, at |-> 0, len |-> BufferLen]

\* The `self.base + offset` of ReadScope::offset does not fit in a usize.
OffsetOverflows(scope, n) == scope.base + n > UsizeMax

\* Mutants of OffsetScope: the position is n instead of an advance by n; past
\* the end the data stays as it was.
OffsetScopeFromZero(scope, n) ==
  [base |-> n,
   at   |-> IF n <= scope.len THEN scope.at + n ELSE BufferLen,
   len  |-> IF n <= scope.len THEN scope.len - n ELSE 0]
OffsetScopeKeepsData(scope, n) ==
  [base |-> (scope.base + n) % (UsizeMax + 1),
   at   |-> IF n <= scope.len THEN scope.at + n ELSE scope.at,
   len  |-> IF n <= scope.len THEN scope.len - n ELSE scope.len]

\* ReadScope::offset: the position is advanced by an unchecked addition (it
\* wraps when overflow checks are off), the slice is the rest of the data or,
\* past its end, an empty slice that lies nowhere in particular.
OffsetScope(scope, n) ==
  [base |-> (scope.base + n) % (UsizeMax + 1),
   at   |-> IF n <= scope.len THEN scope.at + n ELSE BufferLen,
   len  |-> IF n <= scope.len THEN scope.len - n ELSE 0]

\* ReadScope::reader
ReaderOf(scope) == [scope |-> scope, offset |-> 0]

\* FormatReader::scope
ScopeOf(reader) == OffsetScope(reader.scope, reader.offset)

\* FormatReader::current_pos
CurrentPos(reader) ==
  LET pos == reader.scope.base + reader.offset
  IN  IF pos <= UsizeMax THEN pos ELSE None

\* Mutant of CheckAvailable: off by one at the end of the scope.
CheckAvailableOffByOne(reader, n) == reader.offset + n <= reader.scope.len + 1

\* FormatReader::check_available
CheckAvailable(reader, n) ==
  LET end == reader.offset + n
  IN  end <= UsizeMax /\ end <= reader.scope.len

\* The buffer addresses that `n` calls of read_unchecked_u8 dereference.
Touched(reader, n) ==
  LET first == reader.scope.at + reader.offset
  IN  first .. first + n - 1

\* What those `n` calls leave behind.
Advance(reader, n) == [reader EXCEPT !.offset = @ + n]

-----------------------------------------------------------------------------
\* The window and the position agree: a scope that still has bytes ends where
\* the buffer ends and its base is the address of its first byte.
ScopeAligned(scope) ==
  scope.len > 0 => scope.base = scope.at /\ scope.at + scope.len = BufferLen

\* A reader never stands past the end of its scope.
ReaderAligned(reader) ==
  /\ ScopeAligned(reader.scope)
  /\ reader.offset <= reader.scope.len

=============================================================================
