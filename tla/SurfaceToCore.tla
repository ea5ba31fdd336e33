---------------------------- MODULE SurfaceToCore ----------------------------
(***************************************************************************)
(* The elaboration judgements of fathom/src/pass/surface_to_core.rs.       *)
(* ctx is that of CoreTyping with one more table:                          *)
(*                                                                         *)
(*   ctx.names     the names of local_declarations, oldest first           *)
(*                                                                         *)
(* The judgements push messages as they go; here they return the kinds of  *)
(* those messages, in order, with the core term and its type.              *)
(***************************************************************************)
EXTENDS SurfaceTerm, CoreTyping

Elaborated(term, type, messages) == [term |-> term, type |-> type, messages |-> messages]
Failed(messages) == Elaborated(TmError, Error, messages)

\* Context::get_local: the index of the most recently bound local of a name.
Bound(ctx, name) == \E i \in DOMAIN ctx.names : ctx.names[i] = name
LocalIndexOf(ctx, name) ==
  Len(ctx.names) - SelectLastInSeq(ctx.names, LAMBDA n : n = name)

\* A name is a local, or else an item, or else a global.
ResolveName(ctx, name) ==
  CASE Bound(ctx, name) ->
         Elaborated(TmLocal(LocalIndexOf(ctx, name)),
                    GetLocal(ctx.types, LocalIndexOf(ctx, name)), <<>>)
    [] ~Bound(ctx, name) /\ name \in DOMAIN ctx.decls ->
         Elaborated(TmItem(name), ctx.decls[name], <<>>)
    [] ~Bound(ctx, name) /\ name \notin DOMAIN ctx.decls /\ name \in DOMAIN Globals ->
         Elaborated(TmGlobal(name), EvalIn(ctx, Globals[name]), <<>>)
    [] OTHER -> Failed(<<"VarNameNotFound">>)

-----------------------------------------------------------------------------
RECURSIVE Elaborate(_, _, _)

SynthSurface(ctx, term) == Elaborate(ctx, term, Unknown)
CheckSurface(ctx, term, expected) == Elaborate(ctx, term, expected)

\* is_type: the core term and its sort, or "none".
IsType(ctx, term) ==
  LET Sorted(e) ==
        CASE e.type.tag = "error" ->
               [term |-> TmError, sort |-> "none", messages |-> e.messages]
          [] e.type.tag = "sort" ->
               [term |-> e.term, sort |-> e.type.sort, messages |-> e.messages]
          [] OTHER -> [term |-> TmError, sort |-> "none",
                       messages |-> Append(e.messages, "UniverseMismatch")]
  IN  Sorted(SynthSurface(ctx, term))

\* An annotated term, and a constant with a type.
ElaborateAnn(ctx, term, type) ==
  LET Join(t, value, e) ==
        Elaborated(TmAnn(e.term, t.term), value, t.messages \o e.messages)
      Against(t, value) == Join(t, value, CheckSurface(ctx, term, value))
      Of(t) == IF t.term = TmError THEN Failed(t.messages)
               ELSE Against(t, EvalIn(ctx, t.term))
  IN  Of(IsType(ctx, type))

\* The arguments of an application, one after the other.
Apply(ctx, head, args) ==
  LET Join(st, e) ==
        Elaborated(TmFunctionElim(st.term, e.term), st.type.body, st.messages \o e.messages)
      Argument(st, arg) ==
        CASE st.type.tag = "fun" -> Join(st, CheckSurface(ctx, arg, st.type.param))
          [] st.type.tag = "error" -> Failed(st.messages)
          [] OTHER -> Failed(Append(st.messages, "NotAFunction"))
  IN  FoldLeft(Argument, SynthSurface(ctx, head), args)

Project(ctx, head, label) ==
  LET Join(e, field) ==
        IF field.found
          THEN Elaborated(TmStructElim(e.term, Label(label)), field.type, e.messages)
          ELSE Failed(Append(e.messages, "FieldNotFound"))
      Field(e, decls) ==
        IF decls.found THEN GetFieldType(ctx.items, decls, EvalIn(ctx, e.term), Label(label))
        ELSE NotFound
      Of(e) == IF e.type.tag = "error" THEN Failed(e.messages)
               ELSE Join(e, Field(e, ForceFieldDeclarations(ctx, e.type)))
  IN  Of(SynthSurface(ctx, head))

\* The branches of an if must have one type.
JoinBranches(ctx, head, true, false, messages) ==
  IF IsEqual(ctx.items, true.type, false.type)
    THEN Elaborated(TmBoolElim(head.term, true.term, false.term), true.type, messages)
    ELSE Failed(Append(messages, "TypeMismatch"))

SynthIf(ctx, term) ==
  LET Join(head, true, false) ==
        JoinBranches(ctx, head, true, false,
                     head.messages \o true.messages \o false.messages)
  IN  Join(CheckSurface(ctx, term.head, Global("Bool", <<>>)),
           SynthSurface(ctx, term.if_true), SynthSurface(ctx, term.if_false))

SynthFunctionType(ctx, term) ==
  LET Join(param, body, messages) ==
        IF "none" \in {param.sort, body.sort} THEN Failed(messages)
        ELSE Elaborated(TmFunctionType(param.term, body.term),
                        SortValue(Rule(param.sort, body.sort)), messages)
      Of(param, body) == Join(param, body, param.messages \o body.messages)
  IN  Of(IsType(ctx, term.param), IsType(ctx, term.body))

\* synth_type
SynthSurfaceType(ctx, term) ==
  CASE term.s = "name" -> ResolveName(ctx, term.name)
    [] term.s = "ann" -> ElaborateAnn(ctx, term.term, term.type)
    [] term.s = "kind" -> Failed(<<"TermHasNoType">>)
    [] term.s = "type" -> Elaborated(TmSort("Type"), SortValue("Kind"), <<>>)
    [] term.s = "fun" -> SynthFunctionType(ctx, term)
    [] term.s = "app" -> Apply(ctx, term.head, term.args)
    [] term.s = "struct" -> Failed(<<"AmbiguousStructTerm">>)
    [] term.s = "proj" -> Project(ctx, term.head, term.label)
    [] term.s = "seq" -> Failed(<<"AmbiguousSequenceTerm">>)
    [] term.s = "num" -> Failed(<<"AmbiguousNumericLiteral">>)
    [] term.s = "if" -> SynthIf(ctx, term)
    [] term.s = "match" -> Failed(<<"AmbiguousMatchExpression">>)
    [] term.s = "format" -> Elaborated(TmFormatType, SortValue("Kind"), <<>>)
    [] term.s = "repr" -> Elaborated(TmRepr, FunctionType(FormatType, SortValue("Type")), <<>>)
    [] term.s = "error" -> Failed(<<>>)

-----------------------------------------------------------------------------
\* The fields of a struct term against their declarations: for_each_field
\* with the callback of check_type.  A field behind one that is missing or has
\* the value Error is taken from the pending ones and dropped.
ElaborateFields(ctx, decls, defs) ==
  LET Define(st, label, e, value) ==
        [st EXCEPT !.values = IF value = Error THEN @ ELSE Append(@, value),
                   !.degraded = (value = Error),
                   !.terms = Append(@, FieldDefinition(label, e.term)),
                   !.messages = @ \o e.messages]
      Checked(st, label, e) == Define(st, label, e, EvalIn(ctx, e.term))
      Take(st, label) ==
        CASE label \notin st.left ->
               [st EXCEPT !.degraded = TRUE, !.missing = @ \cup {label}]
          [] label \in st.left /\ st.degraded -> st
          [] OTHER ->
               Checked(st, label,
                       CheckSurface(ctx, defs[label],
                         FieldType(ctx.items, decls, st.values, Len(st.values) + 1)))
      Field(st, decl) == [Take(st, decl.label) EXCEPT !.left = @ \ {decl.label}]
  IN  FoldLeft(Field,
               [values |-> <<>>, degraded |-> FALSE, terms |-> <<>>, messages |-> <<>>,
                missing |-> {}, left |-> DOMAIN defs],
               decls.fields)

CheckStruct(ctx, surface_defs, expected) ==
  LET label(i) == Label(surface_defs[i].name)
      first(l) == CHOOSE i \in DOMAIN surface_defs :
                    label(i) = l /\ \A j \in 1 .. i - 1 : label(j) # l
      defs == [l \in {label(i) : i \in DOMAIN surface_defs} |-> surface_defs[first(l)].term]
      If(problem, message) == IF problem THEN <<message>> ELSE <<>>
      Problems(fields) ==
        If(\E i \in DOMAIN surface_defs : first(label(i)) # i, "DuplicateStructFields")
          \o If(fields.missing # {}, "MissingStructFields")
          \o If(fields.left # {}, "UnexpectedStructFields")
      Join(fields, problems) ==
        Elaborated(IF problems = <<>> THEN TmStructTerm(fields.terms) ELSE TmError,
                   expected, fields.messages \o problems)
      Of(fields) == Join(fields, Problems(fields))
      Against(decls) == IF decls.found THEN Of(ElaborateFields(ctx, decls, defs))
                        ELSE Failed(<<"UnexpectedStructTerm">>)
  IN  Against(ForceFieldDeclarations(ctx, expected))

ElaborateElems(ctx, elems, type) == [i \in DOMAIN elems |-> CheckSurface(ctx, elems[i], type)]
SequenceTerm(elems, messages, expected) ==
  Elaborated(TmArrayTerm([i \in DOMAIN elems |-> elems[i].term]), expected, messages)
ElemMessages(elems) == FlattenSeq([i \in DOMAIN elems |-> elems[i].messages])

\* Mutant of CheckSequence: the length is not compared.
CheckSequenceAnyLength(ctx, surface_elems, expected) ==
  LET Of(elems) == SequenceTerm(elems, ElemMessages(elems), expected)
  IN  IF IsGlobal(expected, "Array", 2)
        THEN Of(ElaborateElems(ctx, surface_elems, expected.elims[2].arg))
        ELSE Failed(<<"UnexpectedSequenceTerm">>)

CheckSequence(ctx, surface_elems, expected) ==
  LET Of(elems) ==
        IF expected.elims[1].arg = IntValue(Len(elems))
          THEN SequenceTerm(elems, ElemMessages(elems), expected)
          ELSE Failed(Append(ElemMessages(elems), "MismatchedArrayLength"))
  IN  IF IsGlobal(expected, "Array", 2)
        THEN Of(ElaborateElems(ctx, surface_elems, expected.elims[2].arg))
        ELSE Failed(<<"UnexpectedSequenceTerm">>)

CheckNumber(source, expected) ==
  LET Literal(result, Prim(_)) ==
        IF result.ok THEN Elaborated(TmPrimitive(Prim(result.value)), expected, <<>>)
        ELSE Failed(<<result.message>>)
  IN  CASE IsGlobal(expected, "Int", 0) -> Literal(NumberToBigInt(source), BigInt)
        [] IsGlobal(expected, "F32", 0) ->
             Literal(NumberToFloat(source), LAMBDA value : Float("F32", value))
        [] IsGlobal(expected, "F64", 0) ->
             Literal(NumberToFloat(source), LAMBDA value : Float("F64", value))
        [] OTHER -> Failed(<<"NumericLiteralNotSupported">>)

\* No name pattern yet.
TmNone == [t |-> "none"]

\* from_int_branches: the first branch of a number, and the first name, count;
\* nothing behind a name is reachable.  Every branch is elaborated.
FromIntBranches(ctx, surface_branches, expected) ==
  LET Reach(st, named, value, term) ==
        IF ~named /\ ~value.ok THEN [st EXCEPT !.messages = Append(@, value.message)]
        ELSE IF st.default # TmNone \/ (~named /\ value.value \in DOMAIN st.branches)
          THEN [st EXCEPT !.messages = Append(@, "UnreachablePattern")]
        ELSE IF named THEN [st EXCEPT !.default = term]
        ELSE [st EXCEPT !.branches = Insert(@, value.value, term)]
      Arm(st, pattern, e) ==
        Reach([st EXCEPT !.messages = @ \o e.messages], pattern.p = "name",
              NumberToBigInt(pattern.source), e.term)
      Step(st, branch) == Arm(st, branch.pattern, CheckSurface(ctx, branch.term, expected))
      Finish(end) ==
        IF end.default # TmNone THEN end
        ELSE [end EXCEPT !.default = TmError, !.messages = Append(@, "NoDefaultPattern")]
  IN  Finish(FoldLeft(Step, [branches |-> <<>>, default |-> TmNone, messages |-> <<>>],
                      surface_branches))

CheckMatch(ctx, term, expected) ==
  LET Join(head, cases) ==
        Elaborated(TmIntElim(head.term, cases.branches, cases.default), expected,
                   head.messages \o cases.messages)
      Of(head) ==
        CASE head.type.tag = "error" -> Failed(head.messages)
          [] IsGlobal(head.type, "Bool", 0) ->
               Failed(Append(head.messages, "NotYetImplemented"))
          [] IsGlobal(head.type, "Int", 0) ->
               Join(head, FromIntBranches(ctx, term.branches, expected))
          [] OTHER -> Failed(Append(head.messages, "UnsupportedPatternType"))
  IN  Of(SynthSurface(ctx, term.head))

CheckIf(ctx, term, expected) ==
  LET Of(head, true, false) ==
        Elaborated(TmBoolElim(head.term, true.term, false.term), expected,
                   head.messages \o true.messages \o false.messages)
  IN  Of(CheckSurface(ctx, term.head, Global("Bool", <<>>)),
         CheckSurface(ctx, term.if_true, expected), CheckSurface(ctx, term.if_false, expected))

\* The last arm of check_type.
Compare(ctx, e, expected) ==
  IF IsEqual(ctx.items, e.type, expected) THEN e
  ELSE Failed(Append(e.messages, "TypeMismatch"))

\* check_type
CheckSurfaceType(ctx, term, expected) ==
  CASE term.s = "error" \/ expected.tag = "error" -> Failed(<<>>)
    [] term.s = "struct" /\ expected.tag # "error" -> CheckStruct(ctx, term.defs, expected)
    [] term.s = "seq" /\ expected.tag # "error" -> CheckSequence(ctx, term.elems, expected)
    [] term.s = "num" /\ expected.tag # "error" -> CheckNumber(term.source, expected)
    [] term.s = "if" /\ expected.tag # "error" -> CheckIf(ctx, term, expected)
    [] term.s = "match" /\ expected.tag # "error" -> CheckMatch(ctx, term, expected)
    [] OTHER -> Compare(ctx, SynthSurface(ctx, term), expected)

Elaborate(ctx, term, expected) ==
  IF expected = Unknown THEN SynthSurfaceType(ctx, term)
  ELSE CheckSurfaceType(ctx, term, expected)

=============================================================================
