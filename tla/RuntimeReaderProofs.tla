------------------------ MODULE RuntimeReaderProofs ------------------------
(***************************************************************************)
(* The runtime reader is sound for every buffer length, every word size,   *)
(* every set of handles and every set of primitive sizes.                  *)
(***************************************************************************)
EXTENDS RuntimeReader, TLAPS

-----------------------------------------------------------------------------
(* The operations of ReadScope and FormatReader keep scopes and readers    *)
(* aligned with the buffer, and what alignment is good for.                *)

\* ReadScope::new gives an aligned scope over the whole buffer.
LEMMA NewScopeAligned == NewScope \in Scope /\ ScopeAligned(NewScope)
BY SizeAssumption DEF NewScope, Scope, ScopeAligned, Usize

\* ReadScope::offset keeps base and slice aligned even when base + n wraps.
LEMMA OffsetScopeAligned ==
  ASSUME NEW s \in Scope, ScopeAligned(s), NEW n \in Usize
  PROVE  OffsetScope(s, n) \in Scope /\ ScopeAligned(OffsetScope(s, n))
<1> DEFINE t == OffsetScope(s, n)
<1>1. /\ s.base \in Usize /\ s.at \in 0 .. BufferLen
      /\ s.len \in 0 .. BufferLen
  BY DEF Scope
<1>2. /\ t = [base |-> t.base, at |-> t.at, len |-> t.len]
      /\ t.base = (s.base + n) % (UsizeMax + 1)
      /\ t.at = IF n <= s.len THEN s.at + n ELSE BufferLen
      /\ t.len = IF n <= s.len THEN s.len - n ELSE 0
  BY DEF OffsetScope
<1> HIDE DEF t
<1>3. t.base \in Usize
  BY <1>1, <1>2, SizeAssumption DEF Usize
<1>4. t.at \in 0 .. BufferLen /\ t.len \in 0 .. BufferLen
  <2>1. CASE s.len = 0
    BY <2>1, <1>1, <1>2, SizeAssumption DEF Usize
  <2>2. CASE s.len > 0
    BY <2>2, <1>1, <1>2, SizeAssumption DEF Usize, ScopeAligned
  <2> QED BY <2>1, <2>2, <1>1, SizeAssumption
<1>5. ASSUME t.len > 0 PROVE t.base = t.at /\ t.at + t.len = BufferLen
  <2>1. s.len > 0 /\ n <= s.len /\ s.base = s.at /\ s.at + s.len = BufferLen
    BY <1>1, <1>2, <1>5, SizeAssumption DEF Usize, ScopeAligned
  <2>2. s.base + n \in Nat /\ s.base + n < UsizeMax + 1
    BY <2>1, <1>1, SizeAssumption DEF Usize
  <2>3. (s.base + n) % (UsizeMax + 1) = s.base + n
    BY <2>2, SizeAssumption
  <2> QED BY <2>1, <2>3, <1>1, <1>2, SizeAssumption DEF Usize
<1> QED
  BY <1>2, <1>3, <1>4, <1>5 DEF Scope, ScopeAligned, t

\* ReadScope::reader starts at the beginning of an aligned scope.
LEMMA ReaderOfAligned ==
  ASSUME NEW s \in Scope, ScopeAligned(s)
  PROVE  ReaderOf(s) \in FormatReader /\ ReaderAligned(ReaderOf(s))
BY SizeAssumption DEF ReaderOf, FormatReader, ReaderAligned, Scope, Usize

\* What alignment gives a reader: its position exists, its scope() does not
\* overflow, and its offset is one that ReadScope::offset accepts.
LEMMA AlignedReaderPosition ==
  ASSUME NEW r \in FormatReader, ReaderAligned(r)
  PROVE  /\ ~OffsetOverflows(r.scope, r.offset)
         /\ CurrentPos(r) = r.scope.base + r.offset
         /\ CurrentPos(r) \in Usize
<1>1. /\ r.scope \in Scope /\ r.offset \in Usize
      /\ r.scope.base \in Usize /\ r.scope.at \in 0 .. BufferLen
      /\ r.scope.len \in 0 .. BufferLen
  BY DEF FormatReader, Scope
<1>2. r.scope.base + r.offset \in Usize
  BY <1>1, SizeAssumption DEF ReaderAligned, ScopeAligned, Usize
<1> QED
  BY <1>1, <1>2, SizeAssumption DEF OffsetOverflows, CurrentPos, Usize

\* What check_available gives a read of n bytes: it touches the n bytes at the
\* reader's position, all in the buffer, and leaves the reader aligned.
LEMMA CheckedReadAligned ==
  ASSUME NEW r \in FormatReader, ReaderAligned(r),
         NEW n \in Nat \ {0}, CheckAvailable(r, n)
  PROVE  /\ Advance(r, n) \in FormatReader
         /\ ReaderAligned(Advance(r, n))
         /\ Touched(r, n) = CurrentPos(r) .. CurrentPos(r) + n - 1
         /\ Touched(r, n) \subseteq 0 .. BufferLen - 1
<1>1. /\ r.scope \in Scope /\ r.offset \in Usize
      /\ r.scope.base \in Usize /\ r.scope.at \in 0 .. BufferLen
      /\ r.scope.len \in 0 .. BufferLen
  BY DEF FormatReader, Scope
<1>2. r.scope.base = r.scope.at /\ r.scope.at + r.scope.len = BufferLen
  BY <1>1, SizeAssumption
     DEF CheckAvailable, ReaderAligned, ScopeAligned, Usize
<1>3. r.offset + n \in Usize /\ r.offset + n <= r.scope.len
  BY <1>1, SizeAssumption DEF CheckAvailable, Usize
<1>4. /\ Advance(r, n) \in FormatReader
      /\ Advance(r, n).scope = r.scope
      /\ Advance(r, n).offset = r.offset + n
  BY <1>1, <1>3 DEF Advance, FormatReader
<1>5. CurrentPos(r) = r.scope.at + r.offset
  BY <1>2, AlignedReaderPosition
<1>6. Touched(r, n) = CurrentPos(r) .. CurrentPos(r) + n - 1
  BY <1>5 DEF Touched
<1>7. Touched(r, n) \subseteq 0 .. BufferLen - 1
  BY <1>1, <1>2, <1>3, SizeAssumption DEF Touched, Usize
<1> QED
  BY <1>3, <1>4, <1>6, <1>7 DEF ReaderAligned

-----------------------------------------------------------------------------
(* The reader as its clients drive it. *)

\* The conjunction the induction runs on.
RuntimeInv == RuntimeTypeOK /\ Aligned /\ ReadsStayInBuffer /\ ReadsComeFromPosition

\* The client starts with scopes and readers over the whole buffer.
LEMMA InitRuntimeInv == RuntimeInit => RuntimeInv
<1> SUFFICES ASSUME RuntimeInit PROVE RuntimeInv
  OBVIOUS
<1>1. scopes \in [Handle -> Scope] /\ readers \in [Handle -> FormatReader]
  BY NewScopeAligned, ReaderOfAligned DEF RuntimeInit
<1>2. Aligned
  BY NewScopeAligned, ReaderOfAligned DEF RuntimeInit, Aligned
<1>3. last \in [pos : Usize \cup {None}, size : Nat, touched : SUBSET Int]
  BY DEF RuntimeInit, NoRead
<1>4. ReadsStayInBuffer /\ ReadsComeFromPosition
  BY DEF RuntimeInit, NoRead, ReadsStayInBuffer, ReadsComeFromPosition
<1> QED
  BY <1>1, <1>2, <1>3, <1>4 DEF RuntimeInit, RuntimeInv, RuntimeTypeOK

\* Every operation of the runtime preserves it.
LEMMA NextRuntimeInv == RuntimeInv /\ [RuntimeNext]_runtimeVars => RuntimeInv'
<1> SUFFICES ASSUME RuntimeInv, [RuntimeNext]_runtimeVars PROVE RuntimeInv'
  OBVIOUS
<1> USE DEF RuntimeInv
<1>1. ASSUME NEW h \in Handle, NEW s \in Scope, ScopeAligned(s),
             NEW n \in Usize, OffsetInto(h, s, n)
      PROVE  RuntimeInv'
  <2>1. scopes' = scopes \/ scopes' = [scopes EXCEPT ![h] = OffsetScope(s, n)]
    BY <1>1 DEF OffsetInto
  <2>2. UNCHANGED <<readers, last>> /\ panicked' \in BOOLEAN
    BY <1>1 DEF OffsetInto, RuntimeTypeOK
  <2>3. /\ scopes' \in [Handle -> Scope]
        /\ \A g \in Handle : ScopeAligned(scopes'[g])
    BY <1>1, <2>1, OffsetScopeAligned DEF RuntimeTypeOK, Aligned
  <2> QED
    BY <2>2, <2>3
       DEF RuntimeTypeOK, Aligned, ReadsStayInBuffer, ReadsComeFromPosition
<1>2. ASSUME NEW h \in Handle, NEW g \in Handle, NEW n \in Usize,
             Offset(h, g, n)
      PROVE  RuntimeInv'
  BY <1>1, <1>2 DEF Offset, RuntimeTypeOK, Aligned
<1>3. ASSUME NEW h \in Handle, NEW g \in Handle, TakeScope(h, g)
      PROVE  RuntimeInv'
  <2>1. /\ readers[g].scope \in Scope /\ readers[g].offset \in Usize
        /\ ScopeAligned(readers[g].scope)
    BY DEF RuntimeTypeOK, Aligned, ReaderAligned, FormatReader
  <2> QED
    BY <1>1, <1>3, <2>1 DEF TakeScope
<1>4. ASSUME NEW h \in Handle, NEW g \in Handle, TakeReader(h, g)
      PROVE  RuntimeInv'
  <2>1. /\ readers' = [readers EXCEPT ![h] = ReaderOf(scopes[g])]
        /\ UNCHANGED <<scopes, panicked, last>>
    BY <1>4 DEF TakeReader
  <2>2. ReaderOf(scopes[g]) \in FormatReader
        /\ ReaderAligned(ReaderOf(scopes[g]))
    BY ReaderOfAligned DEF RuntimeTypeOK, Aligned
  <2> QED
    BY <2>1, <2>2
       DEF RuntimeTypeOK, Aligned, ReadsStayInBuffer, ReadsComeFromPosition
<1>5. ASSUME NEW h \in Handle, NEW n \in Sizes, Read(h, n)
      PROVE  RuntimeInv'
  <2>1. n \in Nat \ {0} /\ readers[h] \in FormatReader
        /\ ReaderAligned(readers[h])
    BY SizesAssumption DEF RuntimeTypeOK, Aligned
  <2>2. CASE CheckAvailable(readers[h], n)
    <3>1. /\ readers' = [readers EXCEPT ![h] = Advance(readers[h], n)]
          /\ last' = [pos     |-> CurrentPos(readers[h]),
                      size    |-> n,
                      touched |-> Touched(readers[h], n)]
          /\ UNCHANGED <<scopes, panicked>>
      BY <1>5, <2>2 DEF Read, RuntimeTypeOK
    <3>2. /\ Advance(readers[h], n) \in FormatReader
          /\ ReaderAligned(Advance(readers[h], n))
          /\ Touched(readers[h], n)
               = CurrentPos(readers[h]) .. CurrentPos(readers[h]) + n - 1
          /\ Touched(readers[h], n) \subseteq 0 .. BufferLen - 1
          /\ CurrentPos(readers[h]) \in Usize
      BY <2>1, <2>2, CheckedReadAligned, AlignedReaderPosition
    <3>3. RuntimeTypeOK'
      <4>1. Touched(readers[h], n) \in SUBSET Int
        BY <3>2
      <4>2. last' \in [pos : Usize \cup {None}, size : Nat, touched : SUBSET Int]
        BY <2>1, <3>1, <3>2, <4>1
      <4> QED BY <3>1, <3>2, <4>2 DEF RuntimeTypeOK
    <3>4. Aligned'
      BY <3>1, <3>2 DEF RuntimeTypeOK, Aligned
    <3>5. ReadsStayInBuffer' /\ ReadsComeFromPosition'
      BY <3>1, <3>2 DEF ReadsStayInBuffer, ReadsComeFromPosition
    <3> QED BY <3>3, <3>4, <3>5
  <2>3. CASE ~CheckAvailable(readers[h], n)
    <3>1. last' = NoRead /\ UNCHANGED <<scopes, readers, panicked>>
      BY <1>5, <2>3 DEF Read
    <3> QED
      BY <3>1 DEF NoRead, RuntimeTypeOK, Aligned, ReadsStayInBuffer,
                  ReadsComeFromPosition
  <2> QED BY <2>2, <2>3
<1>6. CASE UNCHANGED runtimeVars
  BY <1>6 DEF runtimeVars, RuntimeTypeOK, Aligned, ReadsStayInBuffer, ReadsComeFromPosition
<1> QED
  BY <1>2, <1>3, <1>4, <1>5, <1>6 DEF RuntimeNext

-----------------------------------------------------------------------------
\* Every reachable scope and reader of fathom-runtime/src/read.rs is well typed.
THEOREM TypeCorrect == RuntimeSpec => []RuntimeTypeOK
<1>1. RuntimeInv => RuntimeTypeOK
  BY DEF RuntimeInv
<1> QED BY <1>1, InitRuntimeInv, NextRuntimeInv, PTL DEF RuntimeSpec

\* No get_unchecked of read_unchecked_u8 reads outside the buffer, whatever
\* scopes and readers the client derives from each other.
THEOREM MemorySafety == RuntimeSpec => []ReadsStayInBuffer
<1>1. RuntimeInv => ReadsStayInBuffer
  BY DEF RuntimeInv
<1> QED BY <1>1, InitRuntimeInv, NextRuntimeInv, PTL DEF RuntimeSpec

\* The bytes a FormatReader returns are those at its current_pos.
THEOREM PositionSoundness == RuntimeSpec => []ReadsComeFromPosition
<1>1. RuntimeInv => ReadsComeFromPosition
  BY DEF RuntimeInv
<1> QED BY <1>1, InitRuntimeInv, NextRuntimeInv, PTL DEF RuntimeSpec

\* FormatReader::current_pos never returns None.
THEOREM PositionTotal == RuntimeSpec => []CurrentPosNeverOverflows
<1>1. RuntimeInv => CurrentPosNeverOverflows
  BY AlignedReaderPosition, SizeAssumption
     DEF RuntimeInv, RuntimeTypeOK, Aligned, CurrentPosNeverOverflows, None, Usize
<1> QED BY <1>1, InitRuntimeInv, NextRuntimeInv, PTL DEF RuntimeSpec

\* FormatReader::scope never reaches the overflow of ReadScope::offset.
THEOREM ReaderScopeTotal == RuntimeSpec => []ReaderScopeNeverOverflows
<1>1. RuntimeInv => ReaderScopeNeverOverflows
  BY AlignedReaderPosition
     DEF RuntimeInv, RuntimeTypeOK, Aligned, ReaderScopeNeverOverflows
<1> QED BY <1>1, InitRuntimeInv, NextRuntimeInv, PTL DEF RuntimeSpec

\* Both: no reader that the API can build is ever at a position that overflows.
THEOREM PositionsTotal == RuntimeSpec => []PositionsNeverOverflow
<1>1. CurrentPosNeverOverflows /\ ReaderScopeNeverOverflows => PositionsNeverOverflow
  BY DEF PositionsNeverOverflow
<1> QED BY <1>1, PositionTotal, ReaderScopeTotal, PTL

=============================================================================
