---------------------------- MODULE MCBinaryRead ----------------------------
(***************************************************************************)
(* Core modules, written as the elaborator produces them, over all buffers *)
(* of four base-4 bytes.  Every module has an item Main and an item Other; *)
(* the name Missing is in none of them.                                    *)
(***************************************************************************)
EXTENDS BinaryReadReference

MCRadix == 4
MCBufferLen == 4
\* Less than a two-byte value can say, so that lengths and positions overflow.
MCUsizeMax == 9
MCNames == {"Main", "Other", "Missing"}
MCMaxCalls == 2
MCBuffers == [1 .. MCBufferLen -> {0, 1, 3}]

-----------------------------------------------------------------------------
Const(n, term) == [name |-> n, kind |-> "constant", term |-> term]
StructFmt(n, params, types) ==
  [name |-> n, kind |-> "struct_format", params |-> params,
   fields |-> [i \in DOMAIN types |-> FieldDeclaration(i, types[i])]]
StructTyp(n, types) == [StructFmt(n, <<>>, types) EXCEPT !.kind = "struct_type"]

U8 == TmGlobal("U8")
S8 == TmGlobal("S8")
U16Be == TmGlobal("U16Be")
Position == TmGlobal("CurrentPos")
Num(n) == TmPrimitive(BigInt(n))
ArrayOf(len, elem) ==
  TmFunctionElim(TmFunctionElim(TmGlobal("FormatArray"), len), elem)
LinkTo(base, offset, format) ==
  TmFunctionElim(TmFunctionElim(TmFunctionElim(TmGlobal("Link"), base), offset),
                 format)

\* A table of two links whose offsets come from the data; they may coincide,
\* leave the buffer, or be negative and precede position 0.
Table ==
  <<Const("Byte", U8),
    StructFmt("Main", <<>>,
      <<Position, S8, LinkTo(TmLocal(1), TmLocal(0), TmItem("Byte")),
        U8, LinkTo(TmLocal(3), TmLocal(0), TmItem("Byte"))>>),
    StructFmt("Other", <<>>, <<U8, TmItem("Main")>>)>>

\* Links behind links: Main links to a Node, which links to a byte that is read
\* after the other byte Main links to.  The format of Other's second field is
\* chosen by its first.
Chain ==
  <<StructFmt("Node", <<>>,
      <<Position, U8, LinkTo(TmLocal(1), TmLocal(0), U8)>>),
    StructFmt("Main", <<>>,
      <<Position, LinkTo(TmLocal(0), Num(1), TmItem("Node")),
        LinkTo(TmLocal(1), Num(3), U8)>>),
    StructFmt("Other", <<>>, <<U8, TmIntElim(TmLocal(0), 0 :> Position, U16Be)>>)>>

\* An array of links, as long as the data says, with a format that the data
\* selects, and offsets of two bytes that overflow a usize.  The links of Other
\* may leave the buffer and read a position there, or try to read data.
Directory ==
  <<StructFmt("Entry", <<[label |-> 1, type |-> TmGlobal("Pos")]>>,
      <<U8, LinkTo(TmLocal(1), TmLocal(0),
                   TmIntElim(TmLocal(0), 0 :> U8 @@ 1 :> Position,
                             TmGlobal("S16Le")))>>),
    StructFmt("Main", <<>>,
      <<Position, U8,
        ArrayOf(TmLocal(0), TmFunctionElim(TmItem("Entry"), TmLocal(1)))>>),
    StructFmt("Other", <<>>,
      <<Position, U16Be,
        LinkTo(TmLocal(1), TmLocal(0),
               TmIntElim(TmLocal(0), 7 :> TmGlobal("U32Be"), Position))>>)>>

\* Dependent fields: lengths, matches and projections of what was read.  The
\* length of Other is two bytes, and its elements have no bytes.
Dependent ==
  <<StructFmt("Pair", <<>>, <<U8, ArrayOf(TmLocal(0), S8)>>),
    StructFmt("Empty", <<>>, <<>>),
    StructFmt("Main", <<>>,
      <<TmItem("Pair"),
        TmIntElim(TmStructElim(TmLocal(0), 1),
                  1 :> TmItem("Pair") @@ 3 :> TmGlobal("F32Be"), U8)>>),
    StructFmt("Other", <<>>, <<U16Be, ArrayOf(TmLocal(0), TmItem("Empty"))>>)>>

\* Parameters, a constant format chosen by a boolean, and a struct that gets a
\* read value as its argument.  Main projects a host struct.
Parameters ==
  <<StructFmt("Sized", <<[label |-> 1, type |-> TmGlobal("Int")]>>,
      <<ArrayOf(TmLocal(0), U8), Position>>),
    Const("Host", TmStructTerm(<<FieldDefinition(1, Num(2))>>)),
    Const("Other", TmBoolElim(TmGlobal("true"),
                     TmFunctionElim(TmItem("Sized"),
                                    TmStructElim(TmItem("Host"), 1)),
                     U8)),
    StructFmt("Main", <<>>, <<U8, TmFunctionElim(TmItem("Sized"), TmLocal(0))>>)>>

\* Items that cannot be read, and descriptions that go wrong half way: a link
\* may be pending when the Error is met.
Broken ==
  <<StructTyp("Other", <<TmGlobal("Int")>>),
    StructFmt("Main", <<>>,
      <<Position, LinkTo(TmLocal(0), Num(1), TmGlobal("U32Le")), U8,
        TmIntElim(TmLocal(0), 0 :> TmError, TmGlobal("S8"))>>)>>

\* A parameterised struct is not an item to read, and a constant that names it
\* without its argument makes the interpreter panic.
Partial ==
  <<StructFmt("Main", <<[label |-> 1, type |-> TmGlobal("Int")]>>,
      <<ArrayOf(TmLocal(0), U8)>>),
    Const("Other", TmItem("Main"))>>

MCModules ==
  {Table, Chain, Directory, Dependent, Parameters, Broken, Partial}

\* The modules of the two runs that end in a counterexample.
MCTableModules == {Table}
MCPartialModules == {Partial}

=============================================================================
