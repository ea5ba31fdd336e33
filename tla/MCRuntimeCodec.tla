--------------------------- MODULE MCRuntimeCodec ---------------------------
(***************************************************************************)
(* The two clients of the codec: streams through the runtime, and the      *)
(* parser that follows offsets on small files.  One of them is chosen at   *)
(* the start and moves, the other is at rest.                              *)
(***************************************************************************)
EXTENDS RuntimeCodec, OffsetQueue

VARIABLE subject      \* "stream" or "offsets"

-----------------------------------------------------------------------------
(* Streams.  Bytes are digits in base 4, so that the largest 64-bit value, *)
(* 4^8 - 1, is still a number TLC can hold.  The samples are the two sides *)
(* of the sign bit (for a signed type the ends of its range) and a value   *)
(* whose digits all differ from their mirror images.  Two values, so that  *)
(* one lies behind another of any format.                                  *)

MCRadix == 4
MCUsizeMax == 31
MCPrefix == {<<>>, <<3>>}
MCMaxValues == 2

MCSamples(f) ==
  LET half == Weight[Size(f)] \div 2
      mixed == CASE Size(f) = 1 -> 1 [] Size(f) = 2 -> 6
                 [] Size(f) = 4 -> 99 [] OTHER -> 6939
      bits == {half - 1, half, mixed}
  IN  IF f \in Signed THEN {AsSigned(f, b) : b \in bits} ELSE bits

-----------------------------------------------------------------------------
(* Offsets, in base 8: a module for every kind of type and the ways types  *)
(* can point into the file and at each other.                              *)

O == INSTANCE OffsetParser WITH Radix <- 8

U8 == O!TyPrim("U8")
S8 == O!TyPrim("S8")
Offset8(base, ty) == O!TyOffset("U8", base, ty)
Start == O!Val(O!VPos(0))
Item(label, def) == [label |-> label, def |-> def]
Struct(fields) == O!StructType(<<>>, fields)
RootOf(fields) == <<Item(Root, Struct(fields))>>
Ints(S) == {O!VInt(n) : n \in S}

\* Two offsets from a position of their own, to types that agree or do not.
Pair(t1, t2) ==
  RootOf(<<O!Field("start", O!TyPos), O!Field("a", Offset8(O!Ref("start"), t1)),
           O!Field("b", Offset8(O!Ref("start"), t2))>>)

\* A node points to a leaf, and the root to two nodes.
Leaf == Item("Leaf", Struct(<<O!Field("l", U8), O!Field("m", O!TyRefinement(U8, Ints(0 .. 2)))>>))
Node == Item("Node", O!StructType(<<"start">>,
          <<O!Field("n", Offset8(O!Ref("start"), O!TyVar("Leaf", <<>>)))>>))
Tree ==
  <<Leaf, Node,
    Item(Root, Struct(<<O!Field("start", O!TyPos),
      O!Field("x", Offset8(O!Ref("start"), O!TyVar("Node", <<O!Ref("start")>>))),
      O!Field("y", Offset8(O!Ref("start"), O!TyVar("Node", <<O!Ref("start")>>)))>>))>>

\* A variant that queues an offset before it fails.
Tagged ==
  <<Item("Far", Struct(<<O!Field("skip", U8), O!Field("at", Offset8(Start, S8)),
                         O!Field("tag", O!TyRefinement(U8, Ints({1})))>>)),
    Item("Near", Struct(<<O!Field("near", Offset8(Start, U8))>>)),
    Item("Either", O!UnionType(<<>>, <<O!TyVar("Far", <<>>), O!TyVar("Near", <<>>)>>)),
    Item(Root, Struct(<<O!Field("u", O!TyVar("Either", <<>>)), O!Field("v", O!TyVar("Either", <<>>))>>))>>

\* The same bytes read twice, with one size or two.
Overlay(f) ==
  <<Item("Both", O!IntersectionType(<<>>,
      <<O!Field("u", Offset8(Start, U8)), O!Field("s", O!TyPrim(f))>>)),
    Item(Root, Struct(<<O!Field("b", O!TyVar("Both", <<>>)), O!Field("c", U8)>>))>>

\* Arrays as long as a field says, and what is not read from the file.
Table ==
  RootOf(<<O!Field("len", U8), O!Field("elems", O!TyArray(O!Ref("len"), Offset8(Start, U8))),
           O!Field("two", O!TyComputeArray(<<O!VInt(0), O!VInt(1)>>))>>)
Linked ==
  RootOf(<<O!Field("start", O!TyPos), O!Field("n", U8), O!Field("skip", O!TyReserved(U8)),
           O!Field("same", O!TyCompute(O!Ref("n"))),
           O!Field("to", O!TyLink(O!Ref("start"), O!Ref("n"), O!TyPrim("U16Be")))>>)
\* A position cannot be computed.
ComputedPos == RootOf(<<O!Field("start", O!TyPos), O!Field("p", O!TyCompute(O!Ref("start")))>>)

\* Aliases, of aliases too; roots that are an alias or a union, that have
\* parameters, or do not exist.
Aliased ==
  <<Item("Byte", O!Alias(U8)), Item("Short", O!Alias(O!TyVar("Byte", <<>>))),
    Item(Root, O!Alias(Offset8(Start, O!TyVar("Short", <<>>))))>>
UnionRoot == <<Item(Root, O!UnionType(<<>>, <<O!TyRefinement(U8, Ints({3})), O!TyVar("Nothing", <<>>)>>))>>
Intersected == <<Item(Root, O!IntersectionType(<<>>, <<O!Field("a", U8), O!Field("b", S8)>>))>>
WithParams ==
  {<<Item(Root, O!StructType(<<"p">>, <<>>))>>, <<Item(Root, O!IntersectionType(<<"p">>, <<>>))>>,
   <<Item(Root, O!UnionType(<<"p">>, <<>>))>>}
Others == {<<Leaf>>, <<Item(Root, O!Alias(O!TyInvalid))>>, <<Item(Root, O!Alias(O!TyPrim("F32Le")))>>}

\* An offset whose sum with its base may not fit.
Wide ==
  RootOf(<<O!Field("x", U8), O!Field("start", O!TyPos), O!Field("o", O!TyOffset("U64Be", O!Ref("start"), U8))>>)

MCModules ==
  {Pair(U8, U8), Pair(U8, S8), Tree, Tagged, Overlay("S8"), Overlay("U16Le"), Table, Linked,
   ComputedPos, Aliased, UnionRoot, Intersected, Wide} \cup WithParams \cup Others

MCFiles ==
  UNION {[1 .. n -> 0 .. 4] : n \in 0 .. 4} \cup
  {<<3>> \o [i \in 1 .. 8 |-> IF i = 8 THEN b ELSE a] : a \in {0, 7}, b \in {0, 7}}

MCParseAt(env, ty, pos) == O!ParseTerm(env, ty, pos)
MCParseRootItem(env, def) == O!ParseRootDefinition(env, def)

-----------------------------------------------------------------------------
NotStreaming == buffer = <<>> /\ reader = <<>> /\ written = <<>> /\ seen = <<>>
NotParsing ==
  /\ module = <<>> /\ file = <<>> /\ at = 0 /\ context = <<>> /\ phase = "off" /\ error = ""
  /\ pending = <<>> /\ parsed_values = <<>> /\ parsed_tys = <<>>

ClientInit ==
  \/ subject = "stream" /\ Init /\ NotParsing
  \/ subject = "offsets" /\ OffsetInit /\ NotStreaming

ClientNext ==
  /\ UNCHANGED subject
  /\ \/ subject = "stream" /\ Next /\ UNCHANGED offsetVars
     \/ subject = "offsets" /\ OffsetNext /\ UNCHANGED vars

ClientSpec == ClientInit /\ [][ClientNext]_<<subject, vars, offsetVars>>

-----------------------------------------------------------------------------
\* A parser queues a list of what its value points to, and nothing else: the
\* variants of a union that were tried and failed leave no trace, and whatever is
\* queued or was followed, a value in the result points to it.  (Reserved types
\* are excepted: an offset in one is followed, and its value not kept.)
OnlyReferencesAreQueued ==
  /\ PushesAreLists
  /\ {ref[1] : ref \in Range(pending)} \cup DOMAIN parsed_tys
       \subseteq UNION {O!PositionsIn(parsed_values[pos]) : pos \in DOMAIN parsed_values}

=============================================================================
