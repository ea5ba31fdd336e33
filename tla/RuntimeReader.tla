---------------------------- MODULE RuntimeReader ----------------------------
(***************************************************************************)
(* The reading half of the runtime as its clients drive it.  ReadScope is  *)
(* Copy and FormatReader is Clone, so a client may hold several of each;   *)
(* `scopes` and `readers` are the ones it holds, one per handle.           *)
(***************************************************************************)
EXTENDS ReadScope

CONSTANTS
  Handle,      \* names for the scopes and readers a client holds
  Sizes        \* the SIZEs of the primitive formats that are read

ASSUME SizesAssumption == Sizes \subseteq Nat \ {0}

VARIABLES
  scopes,      \* [Handle -> Scope]
  readers,     \* [Handle -> FormatReader]
  panicked,    \* an overflow check has stopped the program
  last         \* the last read: its position and the addresses it touched

runtimeVars == <<scopes, readers, panicked, last>>

NoRead == [pos |-> None, size |-> 0, touched |-> {}]

RuntimeInit ==
  /\ scopes = [h \in Handle |-> NewScope]
  /\ readers = [h \in Handle |-> ReaderOf(NewScope)]
  /\ panicked = FALSE
  /\ last = NoRead

-----------------------------------------------------------------------------
\* scopes[h] := scope.offset(n).  Whether the overflow of `base + offset`
\* panics or wraps is a property of the build (overflow-checks), so both may
\* happen.
OffsetInto(h, scope, n) ==
  /\ ~panicked
  /\ \/ /\ scopes' = [scopes EXCEPT ![h] = OffsetScope(scope, n)]
        /\ UNCHANGED panicked
     \/ /\ OffsetOverflows(scope, n)
        /\ panicked' = TRUE
        /\ UNCHANGED scopes
  /\ UNCHANGED <<readers, last>>

\* scopes[h] := scopes[g].offset(n)
Offset(h, g, n) == OffsetInto(h, scopes[g], n)

\* scopes[h] := readers[g].scope()
TakeScope(h, g) == OffsetInto(h, readers[g].scope, readers[g].offset)

\* readers[h] := scopes[g].reader()
TakeReader(h, g) ==
  /\ ~panicked
  /\ readers' = [readers EXCEPT ![h] = ReaderOf(scopes[g])]
  /\ UNCHANGED <<scopes, panicked, last>>

\* readers[h].read::<T>() for a T of n bytes: the bounds check, then n
\* unchecked byte reads.  The Eof error leaves the reader where it was.
Read(h, n) ==
  /\ ~panicked
  /\ IF CheckAvailable(readers[h], n)
       THEN /\ last' = [pos     |-> CurrentPos(readers[h]),
                        size    |-> n,
                        touched |-> Touched(readers[h], n)]
            /\ readers' = [readers EXCEPT ![h] = Advance(@, n)]
       ELSE /\ last' = NoRead
            /\ UNCHANGED readers
  /\ UNCHANGED <<scopes, panicked>>

RuntimeNext ==
  \/ \E h, g \in Handle, n \in Usize : Offset(h, g, n)
  \/ \E h, g \in Handle : TakeScope(h, g)
  \/ \E h, g \in Handle : TakeReader(h, g)
  \/ \E h \in Handle, n \in Sizes : Read(h, n)

RuntimeSpec == RuntimeInit /\ [][RuntimeNext]_runtimeVars

-----------------------------------------------------------------------------
\* Every scope and reader is a value the Rust types allow.
RuntimeTypeOK ==
  /\ scopes \in [Handle -> Scope]
  /\ readers \in [Handle -> FormatReader]
  /\ panicked \in BOOLEAN
  /\ last \in [pos : Usize \cup {None}, size : Nat, touched : SUBSET Int]

\* However scopes and readers are derived from each other, the check of
\* check_available keeps every get_unchecked of read_unchecked_u8 inside the
\* buffer.
ReadsStayInBuffer == last.touched \subseteq 0 .. BufferLen - 1

\* The bytes a read returns are the bytes at the position the reader reported
\* before it: the unchecked addition of ReadScope::offset may wrap, but never
\* on a scope that still has bytes to give.
ReadsComeFromPosition ==
  last.pos # None => last.touched = last.pos .. last.pos + last.size - 1

\* FormatReader::current_pos returns an Option and the binary interpreter
\* turns None into an OverflowingPosition error; no reader the API can build
\* ever makes it None.
CurrentPosNeverOverflows ==
  \A h \in Handle : CurrentPos(readers[h]) # None

\* FormatReader::scope goes through the unchecked addition of
\* ReadScope::offset, but from a reader it cannot overflow: only a client
\* that calls ReadScope::offset itself can make the addition panic or wrap.
ReaderScopeNeverOverflows ==
  \A h \in Handle : ~OffsetOverflows(readers[h].scope, readers[h].offset)

\* Positions never overflow in a reader, neither when it reports its own nor when
\* a scope is made of what is left of it.
PositionsNeverOverflow == CurrentPosNeverOverflows /\ ReaderScopeNeverOverflows

\* The inductive strengthening of the properties above.
Aligned ==
  /\ \A h \in Handle : ScopeAligned(scopes[h])
  /\ \A h \in Handle : ReaderAligned(readers[h])

=============================================================================
