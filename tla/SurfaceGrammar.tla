--------------------------- MODULE SurfaceGrammar ---------------------------
(***************************************************************************)
(* The text of the surface language: how                                   *)
(* fathom/src/pass/surface_to_pretty.rs prints terms and items and how     *)
(* fathom/src/lang/surface/grammar.lalrpop parses them.                    *)
(***************************************************************************)
EXTENDS SurfaceTerm, SourceText

-----------------------------------------------------------------------------
ParenAnn(prec) == prec > Prec.Term
ParenFunctionType(prec) == prec > Prec.App
ParenFunctionElim(prec) == prec > Prec.App

\* from_pattern
FromPattern(pattern) ==
  IF pattern.p = "name" THEN <<Word("_")>> ELSE <<Number(pattern.source)>>

RECURSIVE FromTermPrec(_, _)

\* from_field_definition and from_struct_term.
FromFieldDefinition(def) ==
  <<Word(def.name), Sym("=")>> \o FromTermPrec(def.term, Prec.Term) \o <<Sym(",")>>

FromStructTerm(defs) ==
  <<Word("struct"), Sym("{")>>
    \o FlattenSeq([i \in DOMAIN defs |-> FromFieldDefinition(defs[i])]) \o <<Sym("}")>>

\* from_term, and from_term_prec.
FromTerm(term) == FromTermPrec(term, Prec.Term)

FromTermPrec(term, prec) ==
  LET Atomic(tm) == FromTermPrec(tm, Prec.Atomic)
  IN
  CASE term.s = "name" -> <<Word(term.name)>>
    [] term.s = "ann" ->
         Paren(ParenAnn(prec),
               FromTermPrec(term.term, Prec.Arrow) \o <<Sym(":")>> \o FromTerm(term.type))
    [] term.s = "type" -> <<Word("Type")>>
    [] term.s = "kind" -> <<Word("Kind")>>
    [] term.s = "fun" ->
         Paren(ParenFunctionType(prec),
               Atomic(term.param) \o <<Sym("->")>> \o FromTermPrec(term.body, Prec.Arrow))
    [] term.s = "app" ->
         Paren(ParenFunctionElim(prec),
               Atomic(term.head)
                 \o FlattenSeq([i \in DOMAIN term.args |-> Atomic(term.args[i])]))
    [] term.s = "struct" -> FromStructTerm(term.defs)
    [] term.s = "proj" -> Atomic(term.head) \o <<Sym("."), Word(term.label)>>
    [] term.s = "seq" ->
         <<Sym("[")>> \o Intersperse([i \in DOMAIN term.elems |-> FromTerm(term.elems[i])], Sym(","))
           \o <<Sym("]")>>
    [] term.s = "num" -> <<Number(term.source)>>
    [] term.s = "if" ->
         <<Word("if")>> \o FromTerm(term.head) \o <<Sym("{")>> \o FromTerm(term.if_true)
           \o <<Sym("}"), Word("else"), Sym("{")>> \o FromTerm(term.if_false) \o <<Sym("}")>>
    [] term.s = "match" ->
         <<Word("match")>> \o FromTerm(term.head) \o <<Sym("{")>>
           \o FlattenSeq([i \in DOMAIN term.branches |->
                FromPattern(term.branches[i].pattern) \o <<Sym("=>")>>
                  \o FromTerm(term.branches[i].term) \o <<Sym(",")>>])
           \o <<Sym("}")>>
    [] term.s = "format" -> <<Word("Format")>>
    [] term.s = "repr" -> <<Word("repr")>>
    [] term.s = "error" -> <<Sym("!")>>

-----------------------------------------------------------------------------
FromParam(param) ==
  <<Sym("("), Word(param.name), Sym(":")>> \o FromTerm(param.type)
    \o <<Sym(")")>>

FromFieldDeclaration(field) ==
  <<Word(field.name), Sym(":")>> \o FromTerm(field.type) \o <<Sym(",")>>

FromAnnotation(type) == IF type = NoType THEN <<>> ELSE FromTerm(type)

\* from_constant writes neither `const` nor the `:` of an annotation.
FromConstant(item) ==
  <<Word(item.name), Sym("=")>> \o FromAnnotation(item.type)
    \o FromTerm(item.term) \o <<Sym(";")>>

\* from_struct_type writes the `:` of an annotation that is absent, too.
FromStructType(item) ==
  <<Word("struct"), Word(item.name)>>
    \o FlattenSeq([i \in DOMAIN item.params |-> FromParam(item.params[i])])
    \o <<Sym(":")>> \o FromAnnotation(item.type) \o <<Sym("{")>>
    \o FlattenSeq([i \in DOMAIN item.fields |-> FromFieldDeclaration(item.fields[i])])
    \o <<Sym("}")>>

FromItem(item) == IF item.kind = "constant" THEN FromConstant(item) ELSE FromStructType(item)

FromModule(module) == FlattenSeq([i \in DOMAIN module |-> FromItem(module[i])])

-----------------------------------------------------------------------------
RECURSIVE ParseTerm(_, _)
RECURSIVE ParseArrowTerm(_, _)
RECURSIVE ParseAtomicTerm(_, _)
RECURSIVE ParseElims(_, _, _)
RECURSIVE ParseArguments(_, _)
RECURSIVE ParseSeparated(_, _, _, _)

\* Pattern
ParsePattern(ts, i) ==
  IF IsKind(ts, i, "number") THEN Got(NumberPattern(ts[i][2]), i + 1)
  ELSE Then(ExpectKind(ts, i, "name"), LAMBDA n, j : Got(NamePattern, j))

\* Separated: terms, field definitions, field declarations or the branches of a
\* match, up to a closing token.
ParseElem(kind, ts, i) ==
  CASE kind = "term" -> ParseTerm(ts, i)
    [] kind = "branch" ->
         Then(ParsePattern(ts, i), LAMBDA pattern, j :
         Then(Expect(ts, j, Sym("=>")), LAMBDA w, k :
         Then(ParseTerm(ts, k), LAMBDA term, l : Got(Branch(pattern, term), l))))
    [] OTHER ->
         Then(ExpectKind(ts, i, "name"), LAMBDA n, j :
         Then(Expect(ts, j, IF kind = "definition" THEN Sym("=") ELSE Sym(":")), LAMBDA w, k :
         Then(ParseTerm(ts, k), LAMBDA term, l :
              Got(IF kind = "definition" THEN SDefinition(n, term) ELSE SDeclaration(n, term), l))))

ParseSeparated(kind, close, ts, i) ==
  IF IsToken(ts, i, close) THEN Got(<<>>, i + 1)
  ELSE Then(ParseElem(kind, ts, i), LAMBDA elem, j :
       IF IsToken(ts, j, Sym(","))
         THEN Then(ParseSeparated(kind, close, ts, j + 1),
                   LAMBDA elems, k : Got(<<elem>> \o elems, k))
         ELSE Then(Expect(ts, j, close), LAMBDA w, k : Got(<<elem>>, k)))

\* AtomicTermData: its keywords, and its other alternatives.
SortTerms == [Type |-> STypeType, Kind |-> SKindType, repr |-> SRepr, Format |-> SFormatType]

ParseAtomic(ts, i) ==
  CASE IsKind(ts, i, "name") -> Got(SName(ts[i][2]), i + 1)
    [] IsKind(ts, i, "number") -> Got(SNumberLiteral(ts[i][2]), i + 1)
    [] IsToken(ts, i, Sym("(")) ->
         Then(ParseTerm(ts, i + 1), LAMBDA term, j :
         Then(Expect(ts, j, Sym(")")), LAMBDA w, k : Got(term, k)))
    [] IsToken(ts, i, Sym("[")) ->
         Then(ParseSeparated("term", Sym("]"), ts, i + 1),
              LAMBDA elems, k : Got(SSequenceTerm(elems), k))
    [] IsToken(ts, i, Keyword("struct")) ->
         Then(Expect(ts, i + 1, Sym("{")), LAMBDA w, j :
         Then(ParseSeparated("definition", Sym("}"), ts, j),
              LAMBDA defs, k : Got(SStructTerm(defs), k)))
    [] IsToken(ts, i, Keyword("if")) ->
         Then(ParseTerm(ts, i + 1), LAMBDA head, j :
         Then(Expect(ts, j, Sym("{")), LAMBDA w, k :
         Then(ParseTerm(ts, k), LAMBDA if_true, l :
         Then(Expect(ts, l, Sym("}")), LAMBDA c, m :
         Then(Expect(ts, m, Keyword("else")), LAMBDA e, n :
         Then(Expect(ts, n, Sym("{")), LAMBDA b, o :
         Then(ParseTerm(ts, o), LAMBDA if_false, p :
         Then(Expect(ts, p, Sym("}")),
              LAMBDA d, q : Got(SIf(head, if_true, if_false), q)))))))))
    [] IsToken(ts, i, Keyword("match")) ->
         Then(ParseTerm(ts, i + 1), LAMBDA head, j :
         Then(Expect(ts, j, Sym("{")), LAMBDA w, k :
         Then(ParseSeparated("branch", Sym("}"), ts, k),
              LAMBDA branches, l : Got(SMatch(head, branches), l))))
    [] IsKind(ts, i, "keyword") /\ ts[i][2] \in DOMAIN SortTerms ->
         Got(SortTerms[ts[i][2]], i + 1)
    [] OTHER -> ParseError

ParseElims(ts, i, head) ==
  IF ~IsToken(ts, i, Sym(".")) THEN Got(head, i)
  ELSE Then(ExpectKind(ts, i + 1, "name"),
            LAMBDA n, j : ParseElims(ts, j, SStructElim(head, n)))

ParseAtomicTerm(ts, i) == Then(ParseAtomic(ts, i), LAMBDA head, j : ParseElims(ts, j, head))

\* Whether a token can start an atomic term: what the LR(1) parser looks at
\* behind an atomic term to tell an application.
StartsAtomic(ts, i) ==
  \/ IsToken(ts, i, Sym("(")) \/ IsToken(ts, i, Sym("["))
  \/ IsKind(ts, i, "name") \/ IsKind(ts, i, "number")
  \/ IsKind(ts, i, "keyword") /\ ts[i][2] \in DOMAIN SortTerms \cup {"struct", "if", "match"}

\* AppTermData: one argument or more.
ParseArguments(ts, i) ==
  IF ~StartsAtomic(ts, i) THEN Got(<<>>, i)
  ELSE Then(ParseAtomicTerm(ts, i), LAMBDA arg, j :
       Then(ParseArguments(ts, j), LAMBDA args, k : Got(<<arg>> \o args, k)))

ParseAppTerm(ts, i) ==
  Then(ParseAtomicTerm(ts, i), LAMBDA head, j :
  Then(ParseArguments(ts, j),
       LAMBDA args, k : Got(IF args = <<>> THEN head ELSE SFunctionElim(head, args), k)))

\* ArrowTermData and TermData.
ParseArrowTerm(ts, i) ==
  Then(ParseAppTerm(ts, i), LAMBDA param, j :
    IF IsToken(ts, j, Sym("->"))
      THEN Then(ParseArrowTerm(ts, j + 1), LAMBDA body, k : Got(SFunctionType(param, body), k))
      ELSE Got(param, j))

ParseTerm(ts, i) ==
  Then(ParseArrowTerm(ts, i), LAMBDA term, j :
    IF IsToken(ts, j, Sym(":"))
      THEN Then(ParseTerm(ts, j + 1), LAMBDA type, k : Got(SAnn(term, type), k))
      ELSE Got(term, j))

-----------------------------------------------------------------------------
\* Param, the optional annotation, and ItemData.
RECURSIVE ParseParams(_, _)
ParseParams(ts, i) ==
  IF ~IsToken(ts, i, Sym("(")) THEN Got(<<>>, i)
  ELSE Then(ParseElem("declaration", ts, i + 1), LAMBDA param, j :
       Then(Expect(ts, j, Sym(")")), LAMBDA w, k :
       Then(ParseParams(ts, k), LAMBDA params, l : Got(<<param>> \o params, l))))

ParseAnnotation(ts, i) ==
  IF IsToken(ts, i, Sym(":")) THEN ParseTerm(ts, i + 1) ELSE Got(NoType, i)

ParseConstant(ts, i) ==
  Then(Expect(ts, i, Keyword("const")), LAMBDA w, j :
  Then(ExpectKind(ts, j, "name"), LAMBDA name, k :
  Then(ParseAnnotation(ts, k), LAMBDA type, l :
  Then(Expect(ts, l, Sym("=")), LAMBDA e, m :
  Then(ParseTerm(ts, m), LAMBDA term, n :
  Then(Expect(ts, n, Sym(";")), LAMBDA s, o : Got(SConstant(name, type, term), o)))))))

ParseStruct(ts, i) ==
  Then(Expect(ts, i, Keyword("struct")), LAMBDA w, j :
  Then(ExpectKind(ts, j, "name"), LAMBDA name, k :
  Then(ParseParams(ts, k), LAMBDA params, l :
  Then(ParseAnnotation(ts, l), LAMBDA type, m :
  Then(Expect(ts, m, Sym("{")), LAMBDA b, n :
  Then(ParseSeparated("declaration", Sym("}"), ts, n),
       LAMBDA fields, o : Got(SStruct(name, params, type, fields), o)))))))

RECURSIVE ParseItems(_, _)
ParseItems(ts, i) ==
  IF i > Len(ts) THEN Got(<<>>, i)
  ELSE Then(IF IsToken(ts, i, Keyword("const")) THEN ParseConstant(ts, i) ELSE ParseStruct(ts, i),
            LAMBDA item, j :
            Then(ParseItems(ts, j), LAMBDA items, k : Got(<<item>> \o items, k)))

\* Module::parse: an error leaves an empty module and a message.
ParseModule(text) ==
  LET parsed == ParseItems(Lex(SurfaceKeywords, text), 1)
  IN  IF parsed.ok THEN [items |-> parsed.value, messages |-> <<>>]
      ELSE [items |-> <<>>, messages |-> <<"Parse">>]

=============================================================================
