---------------------------- MODULE MCElaboration ----------------------------
(***************************************************************************)
(* The surface modules of the small instances: structs and constants over  *)
(* pools of terms, with and without mistakes, behind a prelude of items    *)
(* they can use.  Field names collide with each other, with an item and    *)
(* with a global.                                                          *)
(***************************************************************************)
EXTENDS ElaborationReference

N(n) == SName(n)
Lit(c) == SNumberLiteral(<<c>>)
Call(head, args) == SFunctionElim(N(head), args)
Case(c, term) == Branch(NumberPattern(<<c>>), term)
Else(term) == Branch(NamePattern, term)
Record(x, y) == SStructTerm(<<SDefinition("a", x), SDefinition("b", y)>>)

\* Pair(a, b), Sized(n) and Point(a, b).
SurfacePrelude ==
  <<SStruct("Pair", <<>>, SFormatType,
            <<SDeclaration("a", N("U8")),
              SDeclaration("b", Call("FormatArray", <<N("a"), N("U8")>>))>>),
    SStruct("Sized", <<SDeclaration("n", N("Int"))>>, SFormatType,
            <<SDeclaration("a", Call("FormatArray", <<N("n"), N("S8")>>))>>),
    SStruct("Point", <<>>, STypeType,
            <<SDeclaration("a", N("Int")),
              SDeclaration("b", Call("Array", <<N("a"), N("Int")>>))>>)>>

\* What a field may be declared with.
FieldTerms ==
  {N("U8"), N("Pair"), N("Sized"), N("Nowhere"), N("Int"), SError,
   Call("Sized", <<N("a")>>), Call("Sized", <<SError>>),
   Call("FormatArray", <<Lit("2"), N("S8")>>),
   Call("FormatArray", <<SStructElim(N("a"), "a"), N("U8")>>),
   SAnn(N("U8"), SFormatType),
   SMatch(N("a"), <<Case("0", N("U8")), Else(Call("Sized", <<N("a")>>))>>),
   SMatch(N("a"), <<Case("1", N("U8")), Case("1", N("S8")), Case("x", N("U8")),
                    Else(N("Pair")), Case("2", N("Int"))>>),
   SMatch(N("a"), <<Case("1", N("U8"))>>),
   SIf(N("true"), N("U8"), N("Pair")),
   SFunctionElim(SRepr, <<N("Pair")>>)}

\* Two fields; the second name may collide with the first, an item or a global,
\* and a third field shows what is then in scope.
StructModules ==
  {Append(SurfacePrelude,
          SStruct(name, <<>>, sort,
                  <<SDeclaration("a", t1), SDeclaration(second, t2),
                    SDeclaration("c", Call("FormatArray", <<N("a"), N("U8")>>))>>)) :
     name \in {"S", "Pair"}, sort \in {SFormatType, STypeType},
     second \in {"b", "a", "U8", "Pair"}, t1 \in FieldTerms, t2 \in FieldTerms}

\* Annotations of structs, and parameters, right and wrong.
AnnotationModules ==
  {Append(SurfacePrelude,
          SStruct("S", <<SDeclaration("n", p), SDeclaration("a", q)>>, sort,
                  <<SDeclaration(l, Call("Sized", <<N("n")>>))>>)) :
     sort \in {NoType, SFormatType, N("Int"), N("Nowhere"), SKindType},
     p \in {N("Int"), N("U8"), SError, N("Nowhere"), SFormatType}, q \in {N("n"), N("Int")},
     l \in {"a", "n", "b"}}

\* Terms a constant may be defined by; annotations it may have.
ConstTerms ==
  {Lit("1"), Lit("x"), SNumberLiteral(<<"-", "1", ".", "5", "0">>), N("U8"), N("Sized"),
   SRepr, SError, SKindType, N("Nowhere"),
   SFunctionType(N("Int"), STypeType), SFunctionType(N("Nowhere"), STypeType),
   Call("U8", <<Lit("1")>>), Call("Sized", <<Lit("2")>>), Call("Sized", <<N("U8"), N("U8")>>),
   SSequenceTerm(<<Lit("1"), Lit("2")>>), SSequenceTerm(<<N("U8")>>), SSequenceTerm(<<>>),
   Record(Lit("1"), SSequenceTerm(<<Lit("7")>>)),
   Record(Lit("2"), SSequenceTerm(<<Lit("7")>>)),
   Record(SError, SSequenceTerm(<<Lit("7")>>)),
   Record(Lit("x"), Lit("7")),
   Record(SStructElim(SAnn(Record(Lit("1"), SSequenceTerm(<<Lit("0")>>)), N("Point")), "a"),
          SSequenceTerm(<<SError>>)),
   SStructTerm(<<SDefinition("b", Lit("1"))>>),
   SStructTerm(<<SDefinition("a", Lit("1")), SDefinition("a", Lit("2")),
                 SDefinition("b", SSequenceTerm(<<Lit("7")>>)), SDefinition("c", Lit("2"))>>),
   SStructElim(N("Point"), "a"),
   SIf(N("true"), N("U8"), N("Int")), SIf(N("false"), N("Pair"), N("U8")),
   SIf(Lit("1"), Lit("1"), Lit("2")),
   SMatch(SAnn(Lit("1"), N("Int")), <<Case("1", Lit("1")), Else(Lit("2"))>>),
   SMatch(N("true"), <<Else(Lit("2"))>>), SMatch(N("U8"), <<Else(Lit("2"))>>),
   SMatch(N("Nowhere"), <<Else(Lit("2"))>>)}

ConstTypes ==
  {NoType, N("Int"), N("F32"), N("Point"), SFormatType, STypeType, N("Nowhere"), N("U8"),
   Call("Array", <<Lit("1"), N("Int")>>), SFunctionElim(SRepr, <<N("Pair")>>)}

\* A constant, and one that uses it or takes its name.
ConstantModules ==
  {SurfacePrelude \o <<SConstant("C", type, term), SConstant(n, NoType, use)>> :
     type \in ConstTypes, term \in ConstTerms, n \in {"C", "D"},
     use \in {N("C"), SAnn(N("C"), N("Int")), SStructElim(N("C"), "b")}}

MCRadix == 4
MCNameOrder == <<"Pair", "U8", "a", "b", "c", "n">>
MCSurfaceModules == StructModules \cup AnnotationModules \cup ConstantModules

=============================================================================
