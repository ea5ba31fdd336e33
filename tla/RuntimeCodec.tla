---------------------------- MODULE RuntimeCodec ----------------------------
(***************************************************************************)
(* A stream of primitive values through the runtime: a client writes them  *)
(* with one FormatWriter (fathom-runtime/src/write.rs), takes the buffer,  *)
(* and reads the formats of its choice back with a FormatReader            *)
(* (fathom-runtime/src/read.rs).  This is the protocol of the round-trip   *)
(* tests of fathom-runtime/src/lib.rs, for streams instead of one value.   *)
(***************************************************************************)
EXTENDS FormatCodec

CONSTANTS
  UsizeMax,       \* the largest usize
  Prefix,         \* the bytes FormatWriter::new may be given
  Samples(_),     \* the host values written in each format
  MaxValues       \* bound on the values written and on the values read

ASSUME StreamAssumption ==
  /\ UsizeMax \in Nat
  /\ \A bytes \in Prefix : bytes \in Seq(Byte) /\ Len(bytes) <= UsizeMax
  /\ \A f \in PrimitiveFormat : Samples(f) \subseteq Host(f)

VARIABLES
  buffer,         \* FormatWriter.buffer, then the data of the ReadScope
  reader,         \* the FormatReader, None while writing
  written,        \* what has been written: <<format, value>>, in order
  seen            \* what has been read: <<format, value>>, in order

vars == <<buffer, reader, written, seen>>

R == INSTANCE ReadScope WITH BufferLen <- Len(buffer)

Init ==
  /\ buffer \in Prefix
  /\ reader = <<>>
  /\ written = [i \in DOMAIN buffer |-> <<"U8", buffer[i]>>]
  /\ seen = <<>>

-----------------------------------------------------------------------------
\* FormatWriter::write::<f>(value): one write_u8 per byte.  A Vec has at most
\* as many elements as a usize counts; the push that would be one more aborts.
Write(f, value) ==
  /\ reader = <<>>
  /\ Len(written) < MaxValues /\ Len(buffer) + Size(f) <= UsizeMax
  /\ buffer' = buffer \o Encode(f, value)
  /\ written' = Append(written, <<f, value>>)
  /\ UNCHANGED <<reader, seen>>

\* FormatWriter::into_buffer, ReadScope::new and ReadScope::reader.
IntoReader ==
  /\ reader = <<>>
  /\ reader' = <<R!ReaderOf(R!NewScope)>>
  /\ UNCHANGED <<buffer, written, seen>>

\* FormatReader::read::<f>: check_available, then the unchecked bytes.
Read(f) ==
  /\ reader # <<>>
  /\ Len(seen) < MaxValues
  /\ R!CheckAvailable(reader[1], Size(f))
  /\ LET first == reader[1].scope.at + reader[1].offset
         bytes == SubSeq(buffer, first + 1, first + Size(f))
     IN  seen' = Append(seen, <<f, Decode(f, bytes)>>)
  /\ reader' = <<R!Advance(reader[1], Size(f))>>
  /\ UNCHANGED <<buffer, written>>

Next ==
  \/ \E f \in PrimitiveFormat : \E value \in Samples(f) : Write(f, value)
  \/ IntoReader
  \/ \E f \in PrimitiveFormat : Read(f)

Spec == Init /\ [][Next]_vars

-----------------------------------------------------------------------------
Formats(stream) == [i \in DOMAIN stream |-> stream[i][1]]

\* The reader has read the formats that were written, in order, so far.
InStep ==
  /\ Len(seen) <= Len(written)
  /\ Formats(seen) = SubSeq(Formats(written), 1, Len(seen))

\* A client that reads the formats that were written gets the values that
\* were written, wherever in the stream they lie and whatever lies before
\* them: sizes, byte orders and two's complement of the writing and the
\* reading half agree.  It can go on until it has read everything, and then has
\* nothing left: a format is never read short of or beyond what was written.
StreamRoundTrip ==
  InStep =>
    /\ seen = SubSeq(written, 1, Len(seen))
    /\ reader # <<>> =>
         IF Len(seen) < Len(written)
           THEN R!CheckAvailable(reader[1], Size(written[Len(seen) + 1][1]))
           ELSE ~R!CheckAvailable(reader[1], 1)

\* What writing a stream of values gives.
Bytes(stream) ==
  LET bytes[i \in 0 .. Len(stream)] ==
        IF i = 0 THEN <<>> ELSE bytes[i - 1] \o Encode(stream[i][1], stream[i][2])
  IN  bytes[Len(stream)]

\* Whatever formats the client reads, writing what it saw reproduces the bytes
\* it consumed: reading loses nothing.
ReadsAreFaithful ==
  reader # <<>> => Bytes(seen) = SubSeq(buffer, 1, reader[1].offset)

=============================================================================
