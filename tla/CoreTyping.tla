----------------------------- MODULE CoreTyping -----------------------------
(***************************************************************************)
(* The typing rules of fathom/src/lang/core/typing.rs, as functions of the *)
(* context they consult:                                                   *)
(*                                                                         *)
(*   ctx.items, ctx.decls    item_definitions and item_declarations        *)
(*   ctx.locals, ctx.types   local_definitions and local_declarations      *)
(*                                                                         *)
(* The judgements of the code push messages as they go; here they return   *)
(* the kinds of those messages, in order.                                  *)
(***************************************************************************)
EXTENDS CoreSemantics

\* axiom and rule
Axiom(sort) == IF sort = "Type" THEN SortValue("Kind") ELSE Error
Rule(sort0, sort1) ==
  IF sort0 = "Type" /\ sort1 = "Type" THEN "Type" ELSE "Kind"

\* Context::force_field_declarations, with force_item
ForceFieldDeclarations(ctx, value) ==
  IF value.tag = "stuck" /\ value.head[1] = "item"
    THEN TryFieldDeclarations(ctx.items[value.head[2]], value.elims)
    ELSE NotFound

EvalIn(ctx, term) == Eval(ctx.items, ctx.locals, term)

\* A synthesized type and the messages on the way to it.
Typed(type, messages) == [type |-> type, messages |-> messages]

-----------------------------------------------------------------------------
\* The two judgements call each other: the one that has a type to check
\* against, and the one that has none.
RECURSIVE Judge(_, _, _)

Unknown == [tag |-> "unknown"]
Synth(ctx, term) == Judge(ctx, term, Unknown)
Check(ctx, term, expected) == Judge(ctx, term, expected).messages

\* synth_sort: the sort, or "none", and the messages.
SynthSort(ctx, term) ==
  LET Sorted(t) ==
        CASE t.type.tag = "error" -> [sort |-> "none", messages |-> t.messages]
          [] t.type.tag = "sort" -> [sort |-> t.type.sort, messages |-> t.messages]
          [] OTHER -> [sort |-> "none",
                       messages |-> Append(t.messages, "UniverseMismatch")]
  IN  Sorted(Synth(ctx, term))

\* synth_type
SynthType(ctx, term) ==
  LET Lookup(env, key, message) ==
        IF key \in DOMAIN env THEN Typed(env[key], <<>>)
        ELSE Typed(Error, <<message>>)
  IN
  CASE term.t = "global" ->
         (IF term.name \in DOMAIN Globals
            THEN Typed(EvalIn(ctx, Globals[term.name]), <<>>)
            ELSE Typed(Error, <<"GlobalNameNotFound">>))
    [] term.t = "item" -> Lookup(ctx.decls, term.name, "ItemNameNotFound")
    [] term.t = "local" ->
         Lookup(ctx.types, IndexToLevel(Len(ctx.types), term.index) + 1,
                "LocalIndexNotFound")
    [] term.t = "ann" ->
         LET Against(s, type) == Typed(type, s.messages \o Check(ctx, term.term, type))
             Of(s) == IF s.sort = "none" THEN Typed(Error, s.messages)
                      ELSE Against(s, EvalIn(ctx, term.type))
         IN  Of(SynthSort(ctx, term.type))
    [] term.t = "sort" ->
         (IF Axiom(term.sort) = Error THEN Typed(Error, <<"TermHasNoType">>)
          ELSE Typed(Axiom(term.sort), <<>>))
    [] term.t = "fun" ->
         LET Join(param, body) ==
               Typed(IF "none" \in {param.sort, body.sort} THEN Error
                     ELSE SortValue(Rule(param.sort, body.sort)),
                     param.messages \o body.messages)
         IN  Join(SynthSort(ctx, term.param), SynthSort(ctx, term.body))
    [] term.t = "app" ->
         LET Of(head) ==
               CASE head.type.tag = "fun" ->
                      Typed(head.type.body,
                            head.messages \o Check(ctx, term.arg, head.type.param))
                 [] head.type.tag = "error" -> head
                 [] OTHER -> Typed(Error, Append(head.messages, "NotAFunction"))
         IN  Of(Synth(ctx, term.head))
    [] term.t = "proj" ->
         LET Join(head, field) ==
               IF field.found THEN Typed(field.type, head.messages)
               ELSE Typed(Error, Append(head.messages, "FieldNotFound"))
             Field(decls) ==
               IF decls.found
                 THEN GetFieldType(ctx.items, decls, EvalIn(ctx, term.head), term.label)
                 ELSE NotFound
             Of(head) == IF head.type.tag = "error" THEN head
                         ELSE Join(head, Field(ForceFieldDeclarations(ctx, head.type)))
         IN  Of(Synth(ctx, term.head))
    [] term.t = "prim" -> Typed(Global(term.prim.kind, <<>>), <<>>)
    [] term.t = "if" ->
         LET Join(true, false, messages) ==
               IF IsEqual(ctx.items, true.type, false.type) THEN Typed(true.type, messages)
               ELSE Typed(Error, Append(messages, "TypeMismatch"))
             Of(head, true, false) ==
               Join(true, false, head \o true.messages \o false.messages)
         IN  Of(Check(ctx, term.head, Global("Bool", <<>>)),
                Synth(ctx, term.if_true), Synth(ctx, term.if_false))
    [] term.t \in {"struct", "array", "match"} ->
         Typed(Error, <<"AmbiguousTerm">>)
    [] term.t = "format" -> Typed(SortValue("Kind"), <<>>)
    [] term.t = "repr" -> Typed(FunctionType(FormatType, SortValue("Type")), <<>>)
    [] term.t = "error" -> Typed(Error, <<>>)

\* The fields of a struct term against their declarations, in order:
\* for_each_field with the callback of check_type.  Once a field is missing or
\* has the value Error, the fields after it are not checked any more.  `left`
\* are the pending_field_definitions.
CheckFields(ctx, decls, defs) ==
  LET Define(st, value) ==
        [st EXCEPT !.values = IF value = Error THEN @ ELSE Append(@, value),
                   !.degraded = (value = Error)]
      Checked(st, def, messages) ==
        Define([st EXCEPT !.messages = @ \o messages], EvalIn(ctx, def))
      Take(st, label) ==
        CASE label \notin st.left ->
               [st EXCEPT !.degraded = TRUE, !.missing = @ \cup {label}]
          [] label \in st.left /\ st.degraded -> st
          [] OTHER ->
               Checked(st, defs[label],
                       Check(ctx, defs[label],
                             FieldType(ctx.items, decls, st.values, Len(st.values) + 1)))
      Field(st, decl) == [Take(st, decl.label) EXCEPT !.left = @ \ {decl.label}]
  IN  FoldLeft(Field,
               [values |-> <<>>, degraded |-> FALSE, messages |-> <<>>,
                missing |-> {}, left |-> DOMAIN defs],
               decls.fields)

\* check_type
CheckType(ctx, term, expected) ==
  CASE term.t = "error" \/ expected.tag = "error" -> <<>>
    [] term.t = "struct" /\ expected.tag # "error" ->
         LET labels == {term.defs[i].label : i \in DOMAIN term.defs}
             first(l) == CHOOSE i \in DOMAIN term.defs :
                           /\ term.defs[i].label = l
                           /\ \A j \in 1 .. i - 1 : term.defs[j].label # l
             defs == [l \in labels |-> term.defs[first(l)].term]
             If(problem, message) == IF problem THEN <<message>> ELSE <<>>
             Problems(fields) ==
               fields.messages
                 \o If(\E i \in DOMAIN term.defs : first(term.defs[i].label) # i,
                       "DuplicateStructFields")
                 \o If(fields.missing # {}, "MissingStructFields")
                 \o If(fields.left # {}, "UnexpectedStructFields")
             Against(decls) == IF decls.found THEN Problems(CheckFields(ctx, decls, defs))
                               ELSE <<"UnexpectedStructTerm">>
         IN  Against(ForceFieldDeclarations(ctx, expected))
    [] term.t = "array" /\ expected.tag # "error" ->
         (IF ~IsGlobal(expected, "Array", 2) THEN <<"UnexpectedArrayTerm">>
          ELSE FlattenSeq([i \in DOMAIN term.elems |->
                             Check(ctx, term.elems[i], expected.elims[2].arg)])
               \o (IF expected.elims[1].arg = IntValue(Len(term.elems)) THEN <<>>
                   ELSE <<"TypeMismatch">>))
    [] term.t = "if" /\ expected.tag # "error" ->
         Check(ctx, term.head, Global("Bool", <<>>))
           \o Check(ctx, term.if_true, expected)
           \o Check(ctx, term.if_false, expected)
    [] term.t = "match" /\ expected.tag # "error" ->
         LET patterns == SetToSortSeq(DOMAIN term.branches, <)
         IN  Check(ctx, term.head, Global("Int", <<>>))
               \o FlattenSeq([i \in DOMAIN patterns |->
                                Check(ctx, term.branches[patterns[i]], expected)])
               \o Check(ctx, term.default, expected)
    [] OTHER ->
         LET Of(found) ==
               IF IsEqual(ctx.items, found.type, expected) THEN found.messages
               ELSE Append(found.messages, "TypeMismatch")
         IN  Of(Synth(ctx, term))

Judge(ctx, term, expected) ==
  IF expected = Unknown THEN SynthType(ctx, term)
  ELSE Typed(expected, CheckType(ctx, term, expected))

=============================================================================
