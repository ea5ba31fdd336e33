----------------------------- MODULE CoreGrammar -----------------------------
(***************************************************************************)
(* The text of the core language: how fathom/src/pass/core_to_pretty.rs    *)
(* prints a module and how fathom/src/lang/core/grammar.lalrpop parses one *)
(* (lalrpop makes an LR(1) parser of it: the one parse the grammar has, or *)
(* an error).  The labels of CoreTerm are numbers; NameOrder has their     *)
(* names.                                                                  *)
(***************************************************************************)
EXTENDS SurfaceTerm, SourceText

-----------------------------------------------------------------------------
\* from_primitive.  A position has no syntax in the grammar.
FromPrimitive(prim) ==
  CASE prim.kind = "Int" -> <<Word("int"), Number(IntToString(prim.val))>>
    [] prim.kind = "F32" -> <<Word("f32"), Number(FloatToString(prim.val))>>
    [] prim.kind = "F64" -> <<Word("f64"), Number(FloatToString(prim.val))>>
    [] prim.kind = "Pos" -> <<Word("pos"), Number(<<"0", "x">> \o DigitsOf(prim.val, 16))>>

\* Mutant of ParenFunctionType: no parentheses where the grammar is right recursive
\* elsewhere.
ParenFunctionTypeLate(prec) == prec > Prec.App

ParenAnn(prec) == prec > Prec.Term
ParenFunctionType(prec) == prec > Prec.Arrow
ParenFunctionElim(prec) == prec > Prec.App

RECURSIVE FromTermPrec(_, _)

\* from_field_definition and from_struct_term.
FromFieldDefinition(def) ==
  <<Word(NameOrder[def.label]), Sym("=")>> \o FromTermPrec(def.term, Prec.Term) \o <<Sym(",")>>

FromStructTerm(defs) ==
  <<Word("struct"), Sym("{")>>
    \o FlattenSeq([i \in DOMAIN defs |-> FromFieldDefinition(defs[i])]) \o <<Sym("}")>>

\* from_term, and from_term_prec.
FromTerm(term) == FromTermPrec(term, Prec.Term)

FromTermPrec(term, prec) ==
  LET Atomic(tm) == FromTermPrec(tm, Prec.Atomic)
  IN
  CASE term.t = "global" -> <<Word("global"), Word(term.name)>>
    [] term.t = "item" -> <<Word("item"), Word(term.name)>>
    [] term.t = "local" -> <<Word("local"), Number(IntToString(term.index))>>
    [] term.t = "ann" ->
         Paren(ParenAnn(prec),
               FromTermPrec(term.term, Prec.Arrow) \o <<Sym(":")>> \o FromTerm(term.type))
    [] term.t = "sort" -> <<Word(term.sort)>>
    [] term.t = "fun" ->
         Paren(ParenFunctionType(prec),
               FromTermPrec(term.param, Prec.App) \o <<Sym("->")>>
                 \o FromTermPrec(term.body, Prec.Arrow))
    [] term.t = "app" ->
         Paren(ParenFunctionElim(prec), Atomic(term.head) \o Atomic(term.arg))
    [] term.t = "struct" -> FromStructTerm(term.defs)
    [] term.t = "proj" ->
         Paren(TRUE, FromTerm(term.head)) \o <<Sym("."), Word(NameOrder[term.label])>>
    [] term.t = "array" ->
         <<Word("array"), Sym("[")>>
           \o Intersperse([i \in DOMAIN term.elems |-> FromTerm(term.elems[i])], Sym(","))
           \o <<Sym("]")>>
    [] term.t = "prim" -> FromPrimitive(term.prim)
    [] term.t = "if" ->
         <<Word("bool_elim")>> \o FromTerm(term.head) \o <<Sym("{")>> \o FromTerm(term.if_true)
           \o <<Sym(",")>> \o FromTerm(term.if_false) \o <<Sym("}")>>
    [] term.t = "match" ->
         LET values == SetToSortSeq(DOMAIN term.branches, <)
         IN  <<Word("int_elim")>> \o FromTerm(term.head) \o <<Sym("{")>>
               \o FlattenSeq([i \in DOMAIN values |->
                    <<Number(IntToString(values[i])), Sym("=>")>>
                      \o FromTerm(term.branches[values[i]]) \o <<Sym(",")>>])
               \o FromTerm(term.default) \o <<Sym("}")>>
    [] term.t = "format" -> <<Word("Format")>>
    [] term.t = "repr" -> <<Word("repr")>>
    [] term.t = "error" -> <<Sym("!")>>

-----------------------------------------------------------------------------
FromParam(param) ==
  <<Sym("("), Word(NameOrder[param.label]), Sym(":")>>
    \o FromTerm(param.type) \o <<Sym(")")>>

FromFieldDeclaration(field) ==
  <<Word(NameOrder[field.label]), Sym(":")>>
    \o FromTerm(field.type) \o <<Sym(",")>>

FromConstant(item) ==
  <<Word("const"), Word(item.name), Sym("=")>>
    \o FromTerm(item.term) \o <<Sym(";")>>

FromStruct(item, sort) ==
  <<Word("struct"), Word(item.name)>>
    \o FlattenSeq([i \in DOMAIN item.params |-> FromParam(item.params[i])])
    \o <<Sym(":"), Word(sort), Sym("{")>>
    \o FlattenSeq([i \in DOMAIN item.fields |-> FromFieldDeclaration(item.fields[i])])
    \o <<Sym("}")>>
FromStructType(item) == FromStruct(item, "Type")
FromStructFormat(item) == FromStruct(item, "Format")

FromItem(item) ==
  CASE item.kind = "constant" -> FromConstant(item)
    [] item.kind = "struct_type" -> FromStructType(item)
    [] item.kind = "struct_format" -> FromStructFormat(item)

FromModule(module) == FlattenSeq([i \in DOMAIN module |-> FromItem(module[i])])

-----------------------------------------------------------------------------
\* AtomicTermData without its two recursive alternatives.  A literal that does
\* not denote a number leaves an error in the term.
LiteralTerm(kind, parsed) ==
  IF parsed.ok THEN TmPrimitive([kind |-> kind, val |-> parsed.value]) ELSE TmError

ParseLeaf(ts, i) ==
  IF ~IsKind(ts, i, "keyword") THEN
    Then(Expect(ts, i, Sym("!")), LAMBDA w, j : Got(TmError, j))
  ELSE CASE ts[i][2] = "Type" -> Got(TmSort("Type"), i + 1)
    [] ts[i][2] = "Kind" -> Got(TmSort("Kind"), i + 1)
    [] ts[i][2] = "repr" -> Got(TmRepr, i + 1)
    [] ts[i][2] = "Format" -> Got(TmFormatType, i + 1)
    [] ts[i][2] = "global" ->
         Then(ExpectKind(ts, i + 1, "name"), LAMBDA n, j : Got(TmGlobal(n), j))
    [] ts[i][2] = "item" ->
         Then(ExpectKind(ts, i + 1, "name"), LAMBDA n, j : Got(TmItem(n), j))
    [] ts[i][2] = "local" ->
         Then(ExpectKind(ts, i + 1, "number"),
              LAMBDA s, j : Got(TmLocal(NumberToBigInt(s).value), j))
    [] ts[i][2] = "int" ->
         Then(ExpectKind(ts, i + 1, "number"),
              LAMBDA s, j : Got(LiteralTerm("Int", NumberToBigInt(s)), j))
    [] ts[i][2] \in {"f32", "f64"} ->
         Then(ExpectKind(ts, i + 1, "number"),
              LAMBDA s, j :
                Got(LiteralTerm(IF ts[i][2] = "f32" THEN "F32" ELSE "F64", NumberToFloat(s)), j))
    [] OTHER -> ParseError

LabelOf(name) == IF name \in Range(NameOrder) THEN Label(name) ELSE 0

RECURSIVE ParseTerm(_, _)
RECURSIVE ParseArrowTerm(_, _)
RECURSIVE ParseAtomicTerm(_, _)
RECURSIVE ParseElims(_, _, _)
RECURSIVE ParseSeparated(_, _, _, _)
RECURSIVE ParseBranches(_, _, _)

\* Separated: terms, field definitions or field declarations up to a closing token.
ParseElem(kind, ts, i) ==
  IF kind = "term" THEN ParseTerm(ts, i)
  ELSE Then(ExpectKind(ts, i, "name"), LAMBDA n, j :
       Then(Expect(ts, j, IF kind = "definition" THEN Sym("=") ELSE Sym(":")), LAMBDA w, k :
       Then(ParseTerm(ts, k), LAMBDA term, l :
            Got(IF kind = "definition" THEN FieldDefinition(LabelOf(n), term)
                ELSE FieldDeclaration(LabelOf(n), term), l))))

ParseSeparated(kind, close, ts, i) ==
  IF IsToken(ts, i, close) THEN Got(<<>>, i + 1)
  ELSE Then(ParseElem(kind, ts, i), LAMBDA elem, j :
       IF IsToken(ts, j, Sym(","))
         THEN Then(ParseSeparated(kind, close, ts, j + 1),
                   LAMBDA elems, k : Got(<<elem>> \o elems, k))
         ELSE Then(Expect(ts, j, close), LAMBDA w, k : Got(<<elem>>, k)))

\* The branches of an int_elim, up to its default, which does not start with a
\* number.  A branch whose literal is malformed is dropped.
ParseBranches(ts, i, branches) ==
  IF ~IsKind(ts, i, "number") THEN Got(branches, i)
  ELSE LET value == NumberToBigInt(ts[i][2])
       IN  Then(Expect(ts, i + 1, Sym("=>")), LAMBDA w, j :
           Then(ParseTerm(ts, j), LAMBDA term, k :
           Then(Expect(ts, k, Sym(",")), LAMBDA c, l :
             ParseBranches(ts, l, IF value.ok THEN Insert(branches, value.value, term)
                                  ELSE branches))))

\* The recursive alternatives of AtomicTermData; projections follow them.
ParseAtomic(ts, i) ==
  CASE IsToken(ts, i, Sym("(")) ->
         Then(ParseTerm(ts, i + 1), LAMBDA term, j :
         Then(Expect(ts, j, Sym(")")), LAMBDA w, k : Got(term, k)))
    [] IsToken(ts, i, Keyword("struct")) ->
         Then(Expect(ts, i + 1, Sym("{")), LAMBDA w, j :
         Then(ParseSeparated("definition", Sym("}"), ts, j),
              LAMBDA defs, k : Got(TmStructTerm(defs), k)))
    [] IsToken(ts, i, Keyword("array")) ->
         Then(Expect(ts, i + 1, Sym("[")), LAMBDA w, j :
         Then(ParseSeparated("term", Sym("]"), ts, j),
              LAMBDA elems, k : Got(TmArrayTerm(elems), k)))
    [] IsToken(ts, i, Keyword("bool_elim")) ->
         Then(ParseTerm(ts, i + 1), LAMBDA head, j :
         Then(Expect(ts, j, Sym("{")), LAMBDA w, k :
         Then(ParseTerm(ts, k), LAMBDA if_true, l :
         Then(Expect(ts, l, Sym(",")), LAMBDA c, m :
         Then(ParseTerm(ts, m), LAMBDA if_false, n :
         Then(Expect(ts, n, Sym("}")),
              LAMBDA b, o : Got(TmBoolElim(head, if_true, if_false), o)))))))
    [] IsToken(ts, i, Keyword("int_elim")) ->
         Then(ParseTerm(ts, i + 1), LAMBDA head, j :
         Then(Expect(ts, j, Sym("{")), LAMBDA w, k :
         Then(ParseBranches(ts, k, <<>>), LAMBDA branches, l :
         Then(ParseTerm(ts, l), LAMBDA default, m :
         Then(Expect(ts, m, Sym("}")),
              LAMBDA b, n : Got(TmIntElim(head, branches, default), n))))))
    [] OTHER -> ParseLeaf(ts, i)

ParseElims(ts, i, head) ==
  IF ~IsToken(ts, i, Sym(".")) THEN Got(head, i)
  ELSE Then(ExpectKind(ts, i + 1, "name"),
            LAMBDA n, j : ParseElims(ts, j, TmStructElim(head, LabelOf(n))))

ParseAtomicTerm(ts, i) == Then(ParseAtomic(ts, i), LAMBDA head, j : ParseElims(ts, j, head))

\* Whether a token can start an atomic term: what the LR(1) parser looks at
\* behind an atomic term to tell an application.
StartsAtomic(ts, i) ==
  \/ IsToken(ts, i, Sym("(")) \/ IsToken(ts, i, Sym("!"))
  \/ IsKind(ts, i, "keyword") /\ ts[i][2] # "const"

\* AppTermData: one argument.
ParseAppTerm(ts, i) ==
  Then(ParseAtomicTerm(ts, i), LAMBDA head, j :
    IF StartsAtomic(ts, j)
      THEN Then(ParseAtomicTerm(ts, j), LAMBDA arg, k : Got(TmFunctionElim(head, arg), k))
      ELSE Got(head, j))

\* ArrowTermData and TermData.
ParseArrowTerm(ts, i) ==
  Then(ParseAppTerm(ts, i), LAMBDA param, j :
    IF IsToken(ts, j, Sym("->"))
      THEN Then(ParseArrowTerm(ts, j + 1), LAMBDA body, k : Got(TmFunctionType(param, body), k))
      ELSE Got(param, j))

ParseTerm(ts, i) ==
  Then(ParseArrowTerm(ts, i), LAMBDA term, j :
    IF IsToken(ts, j, Sym(":"))
      THEN Then(ParseTerm(ts, j + 1), LAMBDA type, k : Got(TmAnn(term, type), k))
      ELSE Got(term, j))

-----------------------------------------------------------------------------
\* Param and ItemData.
RECURSIVE ParseParams(_, _)
ParseParams(ts, i) ==
  IF ~IsToken(ts, i, Sym("(")) THEN Got(<<>>, i)
  ELSE Then(ParseElem("declaration", ts, i + 1), LAMBDA param, j :
       Then(Expect(ts, j, Sym(")")), LAMBDA w, k :
       Then(ParseParams(ts, k), LAMBDA params, l : Got(<<param>> \o params, l))))

ParseConstant(ts, i) ==
  Then(Expect(ts, i, Keyword("const")), LAMBDA w, j :
  Then(ExpectKind(ts, j, "name"), LAMBDA name, k :
  Then(Expect(ts, k, Sym("=")), LAMBDA e, l :
  Then(ParseTerm(ts, l), LAMBDA term, m :
  Then(Expect(ts, m, Sym(";")),
       LAMBDA s, n : Got([name |-> name, kind |-> "constant", term |-> term], n))))))

ParseStruct(ts, i) ==
  Then(Expect(ts, i, Keyword("struct")), LAMBDA w, j :
  Then(ExpectKind(ts, j, "name"), LAMBDA name, k :
  Then(ParseParams(ts, k), LAMBDA params, l :
  Then(Expect(ts, l, Sym(":")), LAMBDA c, m :
  Then(ExpectKind(ts, m, "keyword"), LAMBDA sort, n :
  Then(Expect(ts, n, Sym("{")), LAMBDA b, o :
  Then(ParseSeparated("declaration", Sym("}"), ts, o), LAMBDA fields, p :
    IF sort \notin {"Type", "Format"} THEN ParseError
    ELSE Got([name |-> name,
              kind |-> IF sort = "Type" THEN "struct_type" ELSE "struct_format",
              params |-> params, fields |-> fields], p))))))))

RECURSIVE ParseItems(_, _)
ParseItems(ts, i) ==
  IF i > Len(ts) THEN Got(<<>>, i)
  ELSE Then(IF IsToken(ts, i, Keyword("const")) THEN ParseConstant(ts, i) ELSE ParseStruct(ts, i),
            LAMBDA item, j :
            Then(ParseItems(ts, j), LAMBDA items, k : Got(<<item>> \o items, k)))

\* Module::parse: an error leaves an empty module and a message.
ParseModule(text) ==
  LET parsed == ParseItems(Lex(CoreKeywords, text), 1)
  IN  IF parsed.ok THEN [items |-> parsed.value, messages |-> <<>>]
      ELSE [items |-> <<>>, messages |-> <<"Parse">>]

-----------------------------------------------------------------------------
(* roundtrip_core_to_pretty of fathom-test/src/lib.rs: a core module is    *)
(* printed, parsed back and compared.  A module is built step by step: the *)
(* term of its last constant grows by one constructor at a time, around    *)
(* it and beside a term of a pool, and is then put into an item.           *)

CONSTANTS
  Leaves,       \* the terms to start from, and to stand beside the one that grows
  ItemNames,    \* the names of items
  MaxWraps,     \* how often the terms of a module may grow
  MaxItems      \* how many items come before the last constant

VARIABLES
  term,         \* the term of the last constant
  items,        \* the items before it
  wraps         \* how often a term has grown

vars == <<term, items, wraps>>

Init == term \in Leaves /\ items = <<>> /\ wraps = 0

-----------------------------------------------------------------------------
\* The terms with tm at one place, and x at the others.
Around(tm, x) ==
  {TmAnn(tm, x), TmAnn(x, tm), TmFunctionType(tm, x), TmFunctionType(x, tm),
   TmFunctionElim(tm, x), TmFunctionElim(x, tm)}
Inside(tm) ==
  {TmStructTerm(<<FieldDefinition(1, tm), FieldDefinition(2, TmRepr)>>), TmStructElim(tm, 2),
   TmArrayTerm(<<tm>>), TmArrayTerm(<<tm, TmError>>),
   TmBoolElim(tm, TmRepr, TmError), TmBoolElim(TmRepr, tm, TmFormatType),
   TmBoolElim(TmRepr, TmFormatType, tm), TmIntElim(tm, -2 :> TmRepr, TmError),
   TmIntElim(TmLocal(0), 0 :> TmRepr @@ 10 :> tm, TmError), TmIntElim(TmLocal(0), <<>>, tm)}

Wrap ==
  /\ wraps < MaxWraps
  /\ term' \in Inside(term) \cup UNION {Around(term, x) : x \in Leaves}
  /\ wraps' = wraps + 1
  /\ UNCHANGED items

\* The term becomes a constant, or the type of a parameter and of a field.
AddItem ==
  /\ Len(items) < MaxItems
  /\ \E name \in ItemNames :
       \E item \in
         {[name |-> name, kind |-> "constant", term |-> term]} \cup
         {[name |-> name, kind |-> kind, params |-> params, fields |-> fields] :
            kind \in {"struct_type", "struct_format"},
            params \in {<<>>, <<FieldDeclaration(1, term)>>},
            fields \in {<<>>, <<FieldDeclaration(2, term), FieldDeclaration(1, TmRepr)>>}} :
         items' = Append(items, item)
  /\ term' = TmRepr
  /\ UNCHANGED wraps

Next == Wrap \/ AddItem

Spec == Init /\ [][Next]_vars

-----------------------------------------------------------------------------
module == Append(items, [name |-> "Last", kind |-> "constant", term |-> term])

\* What the printed module parses to, and whether that is the module itself.
ParsesBack == ParseModule(FromModule(module)) = [items |-> module, messages |-> <<>>]

\* A constant, parameter or field of a core module: all its terms.
ItemTerms(item) ==
  IF item.kind = "constant" THEN {item.term}
  ELSE {item.params[i].type : i \in DOMAIN item.params}
         \cup {item.fields[i].type : i \in DOMAIN item.fields}

\* The words of a text that the printer means as names.
NamesOf(item) ==
  {item.name} \cup (IF item.kind = "constant" THEN {}
                    ELSE {NameOrder[item.params[i].label] : i \in DOMAIN item.params}
                           \cup {NameOrder[item.fields[i].label] : i \in DOMAIN item.fields})

\* Whether a term has a position in it, or one of its names is a keyword.
RECURSIVE Unprintable(_)
Unprintable(tm) ==
  CASE tm.t \in {"global", "item"} -> tm.name \in CoreKeywords
    [] tm.t = "ann" -> Unprintable(tm.term) \/ Unprintable(tm.type)
    [] tm.t = "fun" -> Unprintable(tm.param) \/ Unprintable(tm.body)
    [] tm.t = "app" -> Unprintable(tm.head) \/ Unprintable(tm.arg)
    [] tm.t = "struct" ->
         \E i \in DOMAIN tm.defs : \/ NameOrder[tm.defs[i].label] \in CoreKeywords
                                   \/ Unprintable(tm.defs[i].term)
    [] tm.t = "proj" -> NameOrder[tm.label] \in CoreKeywords \/ Unprintable(tm.head)
    [] tm.t = "array" -> \E i \in DOMAIN tm.elems : Unprintable(tm.elems[i])
    [] tm.t = "prim" -> tm.prim.kind = "Pos"
    [] tm.t = "if" -> Unprintable(tm.head) \/ Unprintable(tm.if_true) \/ Unprintable(tm.if_false)
    [] tm.t = "match" -> \/ Unprintable(tm.head) \/ Unprintable(tm.default)
                         \/ \E v \in DOMAIN tm.branches : Unprintable(tm.branches[v])
    [] OTHER -> FALSE

\* The printed module parses back to itself, with every parenthesis where the
\* grammar needs one, exactly if no term has a position in it and no name is a
\* keyword of the core language (roundtrip_core_to_pretty).
OnlyPositionsAndKeywordsAreLost ==
  ParsesBack <=>
    \A i \in DOMAIN module :
      /\ NamesOf(module[i]) \cap CoreKeywords = {}
      /\ \A tm \in ItemTerms(module[i]) : ~Unprintable(tm)

=============================================================================
