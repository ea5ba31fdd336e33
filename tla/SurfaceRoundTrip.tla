-------------------------- MODULE SurfaceRoundTrip --------------------------
(***************************************************************************)
(* What the surface printer writes, read by the surface parser: the driver *)
(* prints the values it has read and the messages print types as surface   *)
(* terms, and a reader takes the text for the term.  As in CoreGrammar     *)
(* the term of the last constant grows by one constructor at a time, and   *)
(* is then put into an item.                                               *)
(***************************************************************************)
EXTENDS SurfaceGrammar

CONSTANTS
  Leaves,       \* the terms to start from, and to stand beside the one that grows
  MaxWraps      \* how often the term may grow

VARIABLES
  term,         \* the term
  wraps,        \* how often it has grown
  item          \* the item it was put into, if any

vars == <<term, wraps, item>>

NoItem == [kind |-> "none"]

Init == term \in Leaves /\ wraps = 0 /\ item = NoItem

-----------------------------------------------------------------------------
\* The terms with tm at one place, and x at the others.
Around(tm, x) ==
  {SAnn(tm, x), SAnn(x, tm), SFunctionType(tm, x), SFunctionType(x, tm),
   SFunctionElim(tm, <<x>>), SFunctionElim(x, <<SRepr, tm>>), SFunctionElim(x, <<tm, SRepr>>)}
Inside(tm) ==
  {SStructTerm(<<SDefinition("a", tm), SDefinition("b", SRepr)>>), SStructElim(tm, "b"),
   SSequenceTerm(<<tm>>), SSequenceTerm(<<tm, SRepr>>), SSequenceTerm(<<SRepr, tm>>),
   SIf(tm, SRepr, STypeType), SIf(SRepr, tm, STypeType), SIf(SRepr, STypeType, tm),
   SMatch(tm, <<>>),
   SMatch(SRepr, <<Branch(NumberPattern(<<"1">>), tm), Branch(NamePattern, SRepr)>>)}

Wrap ==
  /\ item = NoItem /\ wraps < MaxWraps
  /\ term' \in Inside(term) \cup UNION {Around(term, x) : x \in Leaves}
  /\ wraps' = wraps + 1
  /\ UNCHANGED item

\* The term becomes a constant or its annotation, or a parameter, the
\* annotation and a field of a struct.
MakeItem ==
  /\ item = NoItem /\ wraps < MaxWraps
  /\ item' \in
       {SConstant("C", type, term) : type \in {NoType, SRepr}} \cup
       {SConstant("C", term, SRepr)} \cup
       {SStruct("S", params, type, fields) :
          params \in {<<>>, <<SDeclaration("a", term)>>}, type \in {NoType, STypeType, term},
          fields \in {<<>>, <<SDeclaration("b", term)>>,
                      <<SDeclaration("a", SRepr), SDeclaration("b", term)>>}}
  /\ UNCHANGED <<term, wraps>>

Next == Wrap \/ MakeItem

Spec == Init /\ [][Next]_vars

-----------------------------------------------------------------------------
\* Whether a term has an error in it, or a projection out of a number literal.
RECURSIVE Unprintable(_)
Unprintable(tm) ==
  CASE tm.s = "error" -> TRUE
    [] tm.s = "ann" -> Unprintable(tm.term) \/ Unprintable(tm.type)
    [] tm.s = "fun" -> Unprintable(tm.param) \/ Unprintable(tm.body)
    [] tm.s = "app" -> Unprintable(tm.head) \/ \E i \in DOMAIN tm.args : Unprintable(tm.args[i])
    [] tm.s = "struct" -> \E i \in DOMAIN tm.defs : Unprintable(tm.defs[i].term)
    [] tm.s = "proj" -> tm.head.s = "num" \/ Unprintable(tm.head)
    [] tm.s = "seq" -> \E i \in DOMAIN tm.elems : Unprintable(tm.elems[i])
    [] tm.s = "if" -> Unprintable(tm.head) \/ Unprintable(tm.if_true) \/ Unprintable(tm.if_false)
    [] tm.s = "match" -> \/ Unprintable(tm.head)
                         \/ \E i \in DOMAIN tm.branches : Unprintable(tm.branches[i].term)
    [] OTHER -> FALSE

\* A printed term reads as the term it was printed from and no other, exactly if
\* it has no error in it and no projection out of a number literal, whose `.`
\* the lexer takes for a part of the number (from_term_prec).
TermsReadAsPrinted ==
  LET tokens == Lex(SurfaceKeywords, FromTermPrec(term, Prec.Term))
  IN  (ParseTerm(tokens, 1) = Got(term, Len(tokens) + 1)) <=> ~Unprintable(term)

\* A printed item reads as the item exactly if it is a struct with an
\* annotation: from_constant and from_struct_type do not write what the grammar
\* wants of a constant and of a struct without one.
OnlyAnnotatedStructsReadBack ==
  item # NoItem =>
    ((ParseModule(FromModule(<<item>>)) = [items |-> <<item>>, messages |-> <<>>])
       <=> (/\ item.kind = "struct" /\ item.type # NoType
            /\ \/ ~Unprintable(term)
               \/ item.params = <<>> /\ item.fields = <<>> /\ item.type # term))

\* Terms and items both.
SurfaceReadsAsPrinted == TermsReadAsPrinted /\ OnlyAnnotatedStructsReadBack

=============================================================================
