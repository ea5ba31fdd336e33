------------------------------ MODULE MCTexts ------------------------------
(***************************************************************************)
(* The parts that read and print text, one at a time: a number literal, a  *)
(* source file with test directives, a core module or a deeply nested core *)
(* term that is printed and parsed, surface terms and items likewise, and  *)
(* documents with links.                                                   *)
(***************************************************************************)
EXTENDS SurfaceToDoc, Directives

VARIABLES
  subject,      \* which of them
  text,         \* the number literal
  term, wraps, items     \* what is printed and parsed

lexing == <<source, pos, mode, start, key, value, directives, diagnostics, found>>
growing == <<term, wraps, items>>

-----------------------------------------------------------------------------
(* The instances. *)

MCNameOrder == <<"a", "b">>
Alphabet == {"+", "-", "0", "1", "7", "x", "o", "f", "_", ".", "e"}

\* Lines with every shape of comment and directive.
LinePool ==
  { <<>>, <<"x">>, <<"/", "/">>, <<"x", "/", "/", "x">>, <<"/", "sp", "/">>,
    <<"/", "/", "/", "~", "error">>, <<"/", "/", "sp", "~", "error">>,
    <<"/", "/", "~", "sp">>, <<"/", "/", "~", "error">>, <<"x", "/", "/", "~", "sp", "error", ":", "sp", "x", "sp">>,
    <<"/", "/", "~", "warning", "sp", ":", "x", ":", "/", "/">>, <<"/", "/", "~", ":", "error">>,
    <<"/", "/", "~", "error", ":", "sp">>, <<"/", "/", "~", "bug", ":", "(">>,
    <<"/", "/", "~", "SKIP">>, <<"/", "/", "~", "SKIP", ":", "x">>,
    <<"/", "x", "/", "/", "~", "help", ":", "x">> }

\* Files of up to three lines; the last one may lack its end.
Join(ls) == FoldLeft(LAMBDA s, l : s \o l \o <<"nl">>, <<>>, ls)
LinesOf(n) == UNION {[1..k -> LinePool] : k \in 1..n}
Texts == {Join(ls) : ls \in LinesOf(3)} \cup {Front(Join(ls)) : ls \in LinesOf(2)}

\* Every leaf of the syntax.
AllLeaves ==
  {TmGlobal("Int"), TmItem("array"), TmLocal(12), TmSort("Type"), TmSort("Kind"),
   TmPrimitive(BigInt(-10)), TmPrimitive(Float("F32", <<-15, 1>>)),
   TmPrimitive(Float("F64", <<7, 0>>)), TmPrimitive(Pos(44)), TmFormatType, TmRepr, TmError,
   TmFunctionElim(TmRepr, TmItem("A"))}

\* A few, for terms that nest deeper.
FewLeaves ==
  {TmLocal(0), TmFunctionType(TmRepr, TmRepr), TmFunctionElim(TmRepr, TmItem("A"))}

SurfaceLeaves ==
  {SName("x"), SNumberLiteral(<<"-", "1", ".", "5">>), STypeType, SError,
   SFunctionType(SKindType, SFormatType), SFunctionElim(SRepr, <<SName("U8")>>)}

\* `array` and `local` are keywords of the core language, and names of the
\* surface language.
KeywordNames == <<"local", "x">>

\* A field and an item share the name x, and terms nest every way a link can.
DocTerms ==
  {SFunctionElim(SName("x"), <<SName("y"), SName("A")>>),
   SMatch(SStructElim(SName("x"), "y"),
          <<Branch(NumberPattern(<<"1">>), SAnn(SName("y"), SFormatType)),
            Branch(NamePattern, SSequenceTerm(<<SName("A")>>))>>),
   SIf(SFunctionType(SRepr, SName("A")),
       SStructTerm(<<SDefinition("x", SName("x"))>>), SError)}

\* The names in a term, in the order from_term_prec writes them.
RECURSIVE TermNames(_)
TermNames(tm) ==
  LET All(terms) == FlattenSeq([i \in DOMAIN terms |-> TermNames(terms[i])])
      Of(pattern) == IF pattern.p = "name" THEN <<PatternName>> ELSE <<>>
  IN
  CASE tm.s = "name" -> <<Reference(tm.name)>>
    [] tm.s = "ann" -> TermNames(tm.term) \o TermNames(tm.type)
    [] tm.s = "fun" -> TermNames(tm.param) \o TermNames(tm.body)
    [] tm.s = "app" -> TermNames(tm.head) \o All(tm.args)
    [] tm.s = "struct" -> FlattenSeq([i \in DOMAIN tm.defs |-> TermNames(tm.defs[i].term)])
    [] tm.s = "proj" -> TermNames(tm.head)
    [] tm.s = "seq" -> All(tm.elems)
    [] tm.s = "if" -> TermNames(tm.head) \o TermNames(tm.if_true) \o TermNames(tm.if_false)
    [] tm.s = "match" ->
         TermNames(tm.head)
           \o FlattenSeq([i \in DOMAIN tm.branches |->
                Of(tm.branches[i].pattern) \o TermNames(tm.branches[i].term)])
    [] tm.s \in {"none", "kind", "type", "num", "format", "repr", "error"} -> <<>>

Numbers == INSTANCE LiteralReference WITH source <- text, MaxLength <- 5
CoreModules ==
  INSTANCE CoreGrammar WITH NameOrder <- KeywordNames, Leaves <- AllLeaves,
    ItemNames <- {"A", "array"}, MaxWraps <- 1, MaxItems <- 1
CoreTerms ==
  INSTANCE CoreGrammar WITH Leaves <- FewLeaves, ItemNames <- {"A"}, MaxWraps <- 3, MaxItems <- 0
Surface ==
  INSTANCE SurfaceRoundTrip WITH item <- items, Leaves <- SurfaceLeaves, MaxWraps <- 2

-----------------------------------------------------------------------------
NotLexing ==
  /\ source = <<>> /\ pos = 0 /\ mode = "off" /\ start = 0 /\ key = <<>> /\ value = <<>>
  /\ directives = [skip |-> NoSkip, expected |-> <<>>] /\ diagnostics = <<>> /\ found = <<>>
NotGrowing == term = TmError /\ wraps = 0 /\ items = <<>>
NotDocumenting ==
  /\ known = <<>> /\ locals = <<>> /\ phase = "off" /\ item = "" /\ labels = <<>> /\ params = {}
  /\ written = <<>> /\ anchors = {} /\ links = <<>> /\ documents = 0 /\ failed = FALSE

TextInit ==
  \/ subject = "number" /\ Numbers!Init /\ NotLexing /\ NotGrowing /\ NotDocumenting
  \/ subject = "file" /\ text = <<>> /\ Init /\ NotGrowing /\ NotDocumenting
  \/ subject = "core module" /\ CoreModules!Init /\ text = <<>> /\ NotLexing /\ NotDocumenting
  \/ subject = "core term" /\ CoreTerms!Init /\ text = <<>> /\ NotLexing /\ NotDocumenting
  \/ subject = "surface" /\ Surface!Init /\ text = <<>> /\ NotLexing /\ NotDocumenting
  \/ subject = "document" /\ DocInit /\ text = <<>> /\ NotLexing /\ NotGrowing

TextNext ==
  /\ UNCHANGED subject
  /\ \/ subject = "number" /\ Numbers!Next /\ UNCHANGED <<lexing, growing, docVars>>
     \/ subject = "file" /\ Next /\ UNCHANGED <<text, growing, docVars>>
     \/ subject = "core module" /\ CoreModules!Next /\ UNCHANGED <<text, lexing, docVars>>
     \/ subject = "core term" /\ CoreTerms!Wrap /\ UNCHANGED <<text, lexing, docVars>>
     \/ subject = "surface" /\ Surface!Next /\ UNCHANGED <<text, lexing, docVars>>
     \/ subject = "document" /\ DocNext /\ UNCHANGED <<text, lexing, growing>>

TextSpec == TextInit /\ [][TextNext]_<<subject, text, lexing, growing, docVars>>

-----------------------------------------------------------------------------
\* number_to_big_int and number_to_float accept exactly the numerals and compute
\* their value, and the numbers that core_to_surface.rs prints parse to themselves.
NumbersAreExact == subject = "number" => Numbers!NumbersAreExact

\* The number literals whose end is unexpected are exactly the rejected ones that
\* another character can still turn into a number.
OnlyUnfinishedLiteralsEndEarly ==
  subject = "number" => Numbers!OnlyUnfinishedLiteralsEndEarly

\* A printed core module parses back to itself exactly if it has no position in it
\* and no keyword of the core language for a name (roundtrip_core_to_pretty).
OnlyPositionsAndKeywordsAreLost ==
  /\ subject = "core module" => CoreModules!OnlyPositionsAndKeywordsAreLost
  /\ subject = "core term" => CoreTerms!OnlyPositionsAndKeywordsAreLost

\* What surface_to_pretty.rs prints reads as the same term exactly if it has no
\* error and no projection out of a number in it, and as the same item exactly if
\* it is also a struct with an annotation.
SurfaceReadsAsPrinted == subject = "surface" => Surface!SurfaceReadsAsPrinted

=============================================================================
