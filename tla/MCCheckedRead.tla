---------------------------- MODULE MCCheckedRead ----------------------------
(***************************************************************************)
(* The core modules of the small instances: structs of three fields over a *)
(* pool of well-scoped field types, well-typed and ill-typed, behind a     *)
(* prelude of items they can use, and constants over a pool of closed      *)
(* terms.  The buffers make the first field of a struct zero, a valid      *)
(* count, and the largest byte.                                            *)
(***************************************************************************)
EXTENDS CheckedRead

G(n) == TmGlobal(n)
Num(n) == TmPrimitive(BigInt(n))
App(head, x) == TmFunctionElim(head, x)
App2(head, x, y) == App(App(head, x), y)
FormatArray(len, elem) == App2(G("FormatArray"), len, elem)
HostArray(len, elem) == App2(G("Array"), len, elem)
Decls(terms) == [i \in DOMAIN terms |-> FieldDeclaration(i, terms[i])]

Const(n, term) == [name |-> n, kind |-> "constant", term |-> term]
Struct(n, kind, params, decl) ==
  [name |-> n, kind |-> kind, params |-> params, fields |-> decl]
Param(type) == <<FieldDeclaration(1, type)>>

\* Pair(len, bytes); Sized(n); Wrap(format); Point(x, y).
Prelude ==
  <<Struct("Pair", "struct_format", <<>>,
           Decls(<<G("U8"), FormatArray(TmLocal(0), G("U8"))>>)),
    Struct("Sized", "struct_format", Param(G("Int")),
           Decls(<<FormatArray(TmLocal(0), G("S8"))>>)),
    Struct("Wrap", "struct_format", Param(TmFormatType), Decls(<<TmLocal(0)>>)),
    Struct("Point", "struct_type", <<>>,
           Decls(<<G("Int"), HostArray(TmLocal(0), G("Int"))>>))>>

\* The local of a level, in an environment of n locals.
At(n, level) == TmLocal(LevelToIndex(n, level))

\* Formats a field may have when n locals are in scope.
FormatPool(n) ==
  {G("U8"), G("CurrentPos"), TmItem("Pair"), G("Int"),
   App(TmItem("Wrap"), G("F32Le"))}
  \cup
  (IF n = 0 THEN {} ELSE
   {FormatArray(At(n, 0), G("U8")),
    App(TmItem("Sized"), At(n, 0)),
    App2(App(G("Link"), At(n, 0)), Num(1), TmItem("Pair")) ,
    FormatArray(TmStructElim(At(n, 0), 1), G("U8")),
    TmIntElim(At(n, 0), 0 :> G("U8") @@ 1 :> FormatArray(At(n, 0), G("U8")),
              G("S8")),
    TmIntElim(At(n, n - 1), 0 :> G("U8"), TmItem("Point"))})

\* Types a field of a struct type may have when n locals are in scope.
TypePool(n) ==
  {G("Int"), TmItem("Point"), App(TmRepr, TmItem("Pair")), G("U8")}
  \cup
  (IF n = 0 THEN {} ELSE
   {HostArray(At(n, 0), G("Int")),
    HostArray(TmStructElim(At(n, 0), 1), G("Bool")),
    App(TmRepr, App(TmItem("Sized"), At(n, 0))),
    TmBoolElim(G("true"), G("Int"), TmItem("Point"))})

Fields3(Pool(_)) ==
  {Decls(<<t1, t2, t3>>) : t1 \in Pool(0), t2 \in Pool(1), t3 \in Pool(2)}

\* Closed terms for constants; the last ones are ill-typed.
Point(n, elems) == TmStructTerm(<<FieldDefinition(1, Num(n)), FieldDefinition(2, elems)>>)
ConstPool ==
  LET point == TmAnn(Point(2, TmArrayTerm(<<Num(0), Num(1)>>)), TmItem("Point"))
  IN
  {Num(1), G("U8"), TmRepr, TmItem("Sized"), point,
   TmStructElim(point, 2),
   App(TmItem("Sized"), TmStructElim(point, 1)),
   App(TmRepr, App(TmItem("Sized"), Num(2))),
   TmAnn(TmArrayTerm(<<Num(0)>>), HostArray(Num(1), G("Int"))),
   TmBoolElim(G("false"), G("U8"), TmItem("Pair")),
   TmAnn(TmIntElim(Num(1), 1 :> G("U8"), TmItem("Pair")), TmFormatType),
   TmFunctionType(G("Int"), TmSort("Type")),
   TmSort("Kind"), App(G("U8"), Num(1)), TmItem("Nowhere"),
   TmAnn(TmArrayTerm(<<Num(0)>>), HostArray(Num(2), G("Int"))),
   TmAnn(Point(1, TmArrayTerm(<<Num(0), Num(1)>>)), TmItem("Point")),
   TmAnn(TmStructTerm(<<FieldDefinition(2, Num(0)), FieldDefinition(3, Num(0)),
                        FieldDefinition(2, Num(1))>>), TmItem("Point"))}

\* All structs over the pools, alone behind the prelude.
FormatModules ==
  {Append(Prelude, Struct("S", "struct_format", <<>>, d)) : d \in Fields3(FormatPool)}
TypeModules ==
  {Append(Prelude, Struct("S", "struct_type", <<>>, d)) : d \in Fields3(TypePool)}

\* A constant, and one that uses it as a format or redefines it.
ConstModules ==
  {Prelude \o <<Const("C", t), Const(n, TmAnn(TmItem("C"), TmFormatType))>> :
     t \in ConstPool, n \in {"C", "D"}}

\* A struct that declares a label twice.
RedeclaredModules ==
  {Append(Prelude,
     Struct("S", "struct_format", <<>>,
            <<FieldDeclaration(1, G("U8")), FieldDeclaration(1, t),
              FieldDeclaration(2, FormatArray(TmLocal(0), G("U8")))>>)) :
     t \in FormatPool(1)}

MCRadix == 4
MCBufferLen == 4
MCUsizeMax == 9
MCNames == {"S", "C", "D"}
MCMaxCalls == 1
MCBuffers == {<<0, 3, 0, 1>>, <<1, 1, 2, 0>>, <<3, 0, 0, 0>>}
MCModules == FormatModules \cup TypeModules \cup ConstModules \cup RedeclaredModules

=============================================================================
