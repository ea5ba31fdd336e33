------------------------ MODULE ElaborationReference ------------------------
(***************************************************************************)
(* What the elaborator, the typing rules and the distillation are to each  *)
(* other, on whole modules: what is elaborated without an error is         *)
(* well-formed, complete, and survives the way back.  The judgements about *)
(* terms are those of SurfaceToCore and CoreTyping; the distillation of    *)
(* terms is here.                                                          *)
(***************************************************************************)
EXTENDS ElaborationRoundTrip, SurfaceToCore

\* from_term, with the names in scope, oldest first.  A local without a name and a
\* position have no surface syntax.
RECURSIVE FromTerm(_, _)
FromTerm(scope, term) ==
  LET From(tm) == FromTerm(scope, tm)
  IN
  CASE term.t \in {"global", "item"} -> SName(term.name)
    [] term.t = "local" ->
         IF InScope(scope, term.index) THEN SName(GetLocal(scope, term.index)) ELSE SError
    [] term.t = "ann" -> SAnn(From(term.term), From(term.type))
    [] term.t = "sort" -> IF term.sort = "Kind" THEN SKindType ELSE STypeType
    [] term.t = "fun" -> SFunctionType(From(term.param), From(term.body))
    [] term.t = "app" -> SFunctionElim(From(term.head), <<From(term.arg)>>)
    [] term.t = "struct" ->
         SStructTerm([i \in DOMAIN term.defs |->
           SDefinition(NameOrder[term.defs[i].label], From(term.defs[i].term))])
    [] term.t = "proj" -> SStructElim(From(term.head), NameOrder[term.label])
    [] term.t = "array" -> SSequenceTerm([i \in DOMAIN term.elems |-> From(term.elems[i])])
    [] term.t = "prim" ->
         (CASE term.prim.kind = "Int" -> SNumberLiteral(IntToString(term.prim.val))
            [] term.prim.kind \in {"F32", "F64"} -> SNumberLiteral(FloatToString(term.prim.val))
            [] term.prim.kind = "Pos" -> SError)
    [] term.t = "if" -> SIf(From(term.head), From(term.if_true), From(term.if_false))
    [] term.t = "match" ->
         LET patterns == SetToSortSeq(DOMAIN term.branches, <)
         IN  SMatch(From(term.head),
               [i \in DOMAIN patterns |->
                  Branch(NumberPattern(IntToString(patterns[i])),
                         From(term.branches[patterns[i]]))]
               \o <<Branch(NamePattern, From(term.default))>>)
    [] term.t = "format" -> SFormatType
    [] term.t = "repr" -> SRepr
    [] term.t = "error" -> SError

-----------------------------------------------------------------------------
\* Terms that contain a given constructor of the surface or core syntax.
RECURSIVE SurfaceMentions(_, _)
SurfaceMentions(term, kind) ==
  \/ term.s = kind
  \/ CASE term.s = "ann" -> SurfaceMentions(term.term, kind) \/ SurfaceMentions(term.type, kind)
       [] term.s = "fun" -> SurfaceMentions(term.param, kind) \/ SurfaceMentions(term.body, kind)
       [] term.s = "app" -> \/ SurfaceMentions(term.head, kind)
                            \/ \E i \in DOMAIN term.args : SurfaceMentions(term.args[i], kind)
       [] term.s = "struct" ->
            \E i \in DOMAIN term.defs : SurfaceMentions(term.defs[i].term, kind)
       [] term.s = "proj" -> SurfaceMentions(term.head, kind)
       [] term.s = "seq" -> \E i \in DOMAIN term.elems : SurfaceMentions(term.elems[i], kind)
       [] term.s = "if" -> \/ SurfaceMentions(term.head, kind)
                           \/ SurfaceMentions(term.if_true, kind)
                           \/ SurfaceMentions(term.if_false, kind)
       [] term.s = "match" ->
            \/ SurfaceMentions(term.head, kind)
            \/ \E i \in DOMAIN term.branches : SurfaceMentions(term.branches[i].term, kind)
       [] OTHER -> FALSE

ItemMentions(item, kind) ==
  \/ SurfaceMentions(item.type, kind)
  \/ item.kind = "constant" /\ SurfaceMentions(item.term, kind)
  \/ item.kind = "struct" /\
       \/ \E i \in DOMAIN item.params : SurfaceMentions(item.params[i].type, kind)
       \/ \E i \in DOMAIN item.fields : SurfaceMentions(item.fields[i].type, kind)

\* The module has an error term in its source.
HasBang == \E i \in DOMAIN original : ItemMentions(original[i], "error")

\* Messages that are warnings (reporting.rs).
Warnings == {"UnreachablePattern"}
Errors(log) == SelectSeq(log, LAMBDA m : m \notin Warnings)

Validated == stage = "again" \/ (stage = "validate" /\ phase = "done")
Finished == stage = "again" /\ phase = "done"

-----------------------------------------------------------------------------
\* Elaboration without an error is correct: the typing rules of the core
\* language accept the core module.
ElaborationValidates ==
  (Validated /\ Errors(IF stage = "again" THEN said ELSE messages) = <<>> /\ ~HasBang) =>
     reports = <<>>

\* Elaboration without an error leaves nothing out: every item of the source,
\* with all its fields, is an item of the core module, and there is no error
\* term anywhere in it.
NothingIsDroppedSilently ==
  (stage = "again" /\ phase = "item" /\ at = 0 /\ Errors(said) = <<>> /\ ~HasBang) =>
    /\ Len(surface) = Len(original)
    /\ \A i \in DOMAIN surface :
         /\ surface[i].name = original[i].name
         /\ ~ItemMentions(surface[i], "error")
         /\ surface[i].kind = "struct" => Len(surface[i].fields) = Len(original[i].fields)

\* Whatever the elaborator reported, the core module it goes on with can only
\* be faulty in one way: fields are missing in struct terms.
OnlyFieldsGoMissing ==
  \A i \in DOMAIN reports : reports[i] = "MissingStructFields"

\* The typing rules give every item the type the elaborator gave it, whatever
\* was reported on the way.
ItemTypesAgree ==
  (stage = "validate" /\ phase = "item" /\ at = Len(core)) =>
    /\ DOMAIN declared = DOMAIN decls
    /\ \A n \in DOMAIN decls : declared[n] = decls[n]

\* roundtrip_surface_to_core: a core module that is well-formed, errors and
\* all, survives distillation and elaboration, and nothing is reported.
RoundTrip ==
  (Finished /\ reports = <<>>) => core = first /\ messages = <<>>

\* The elaborator and the validator agree: what is elaborated without an error is
\* well-formed, what was reported leaves at most fields missing in the core module,
\* and both give every item the same type.
ValidatorAgrees == ElaborationValidates /\ OnlyFieldsGoMissing /\ ItemTypesAgree

=============================================================================
