---------------------------- MODULE CoreSemantics ----------------------------
(***************************************************************************)
(* The operational semantics of fathom/src/lang/core/semantics.rs:         *)
(* evaluation of terms into values, eliminations, repr, read-back of       *)
(* values into terms and computational equality.                           *)
(*                                                                         *)
(* `items` is the table of evaluated items, `locals` the local environment *)
(* (a sequence of values), `size` the size of an environment.              *)
(***************************************************************************)
EXTENDS CoreTerm, SequencesExt

-----------------------------------------------------------------------------
\* repr: the host representation of a format.
RECURSIVE ReprOf(_)
ReprOf(value) ==
  CASE value.tag = "stuck" /\ value.head[1] = "global" ->
         (CASE \E f \in PrimitiveFormat : IsGlobal(value, f, 0) ->
                 Global(HostOf[value.head[2]], <<>>)
            [] IsGlobal(value, "FormatArray", 2) ->
                 Global("Array",
                        <<value.elims[1],
                          FunctionArg(ReprOf(value.elims[2].arg))>>)
            [] IsGlobal(value, "CurrentPos", 0) \/ IsGlobal(value, "Link", 3) ->
                 Global("Pos", <<>>)
            [] OTHER -> Error)
    [] value.tag = "stuck" /\ value.head[1] # "global" -> Push(value, ReprElim)
    [] OTHER -> Error

\* function_elim
FunctionElim(head, arg) ==
  CASE head.tag = "repr" -> ReprOf(arg)
    [] head.tag = "stuck" -> Push(head, FunctionArg(arg))
    [] OTHER -> Error

\* Mutants of StructElim: no case for struct values; the first field always.
StructElimStuckOnly(head, label) ==
  IF head.tag = "stuck" THEN Push(head, FieldOf(label)) ELSE Error
StructElimFirst(head, label) ==
  CASE head.tag = "struct" ->
         head.fields[CHOOSE l \in DOMAIN head.fields :
                       \A m \in DOMAIN head.fields : l <= m]
    [] head.tag = "stuck" -> Push(head, FieldOf(label))
    [] OTHER -> Error

\* struct_elim
StructElim(head, label) ==
  CASE head.tag = "struct" ->
         IF label \in DOMAIN head.fields THEN head.fields[label] ELSE Error
    [] head.tag = "stuck" -> Push(head, FieldOf(label))
    [] OTHER -> Error

\* eval, with bool_elim and int_elim inlined as the two cases that evaluate a
\* branch.  A local that is out of scope makes the code panic (the unwrap of
\* index_to_level); here it is an index outside the sequence.
RECURSIVE Eval(_, _, _)
Eval(items, locals, term) ==
  LET Ev(tm) == Eval(items, locals, tm)
  IN
  CASE term.t = "global" ->
         IF term.name \in DOMAIN Globals THEN Global(term.name, <<>>) ELSE Error
    [] term.t = "item" ->
         (CASE term.name \notin DOMAIN items -> Error
            [] term.name \in DOMAIN items /\ items[term.name].kind = "constant" ->
                 items[term.name].value
            [] OTHER -> Item(term.name, <<>>))
    [] term.t = "local" -> GetLocal(locals, term.index)
    [] term.t = "ann" -> Ev(term.term)
    [] term.t = "sort" -> SortValue(term.sort)
    [] term.t = "fun" -> FunctionType(Ev(term.param), Ev(term.body))
    [] term.t = "app" -> FunctionElim(Ev(term.head), Ev(term.arg))
    [] term.t = "struct" ->
         LET labels == {term.defs[i].label : i \in DOMAIN term.defs}
             last(l) == CHOOSE i \in DOMAIN term.defs :
                          /\ term.defs[i].label = l
                          /\ \A j \in DOMAIN term.defs :
                               term.defs[j].label = l => j <= i
         IN  StructTerm([l \in labels |-> Ev(term.defs[last(l)].term)])
    [] term.t = "proj" -> StructElim(Ev(term.head), term.label)
    [] term.t = "array" ->
         ArrayTerm([i \in DOMAIN term.elems |-> Ev(term.elems[i])])
    [] term.t = "prim" -> Primitive(term.prim)
    [] term.t = "if" ->
         LET head == Ev(term.head)
         IN  CASE IsGlobal(head, "true", 0) -> Ev(term.if_true)
               [] IsGlobal(head, "false", 0) -> Ev(term.if_false)
               [] head.tag = "stuck" /\ head.head[1] # "global" ->
                    Push(head, IfElse(locals, term.if_true, term.if_false))
               [] OTHER -> Error
    [] term.t = "match" ->
         LET head == Ev(term.head)
         IN  CASE IsInt(head) ->
                    IF head.prim.val \in DOMAIN term.branches
                      THEN Ev(term.branches[head.prim.val])
                      ELSE Ev(term.default)
               [] head.tag = "stuck" ->
                    Push(head, Match(locals, term.branches, term.default))
               [] OTHER -> Error
    [] term.t = "format" -> FormatType
    [] term.t = "repr" -> Repr
    [] term.t = "error" -> Error

-----------------------------------------------------------------------------
\* read_back and read_back_neutral.  The branches of a suspended elimination
\* are normalized at the size of the environment they captured.
RECURSIVE ReadBack(_, _, _), Normalize(_, _, _)
ReadBack(items, size, value) ==
  LET Rb(v) == ReadBack(items, size, v)
      HeadTerm(head) ==
        CASE head[1] = "global" -> TmGlobal(head[2])
          [] head[1] = "item" -> TmItem(head[2])
          [] head[1] = "local" -> TmLocal(LevelToIndex(size, head[2]))
      Elim(head, elim) ==
        CASE elim.e = "app" -> TmFunctionElim(head, Rb(elim.arg))
          [] elim.e = "proj" -> TmStructElim(head, elim.label)
          [] elim.e = "if" ->
               TmBoolElim(head, Normalize(items, elim.locals, elim.if_true),
                          Normalize(items, elim.locals, elim.if_false))
          [] elim.e = "match" ->
               TmIntElim(head,
                         [n \in DOMAIN elim.branches |->
                            Normalize(items, elim.locals, elim.branches[n])],
                         Normalize(items, elim.locals, elim.default))
          [] elim.e = "repr" -> TmFunctionElim(TmRepr, head)
  IN
  CASE value.tag = "stuck" -> FoldLeft(Elim, HeadTerm(value.head), value.elims)
    [] value.tag = "sort" -> TmSort(value.sort)
    [] value.tag = "fun" -> TmFunctionType(Rb(value.param), Rb(value.body))
    [] value.tag = "struct" ->
         LET labels == SetToSortSeq(DOMAIN value.fields, <)
         IN  TmStructTerm([i \in DOMAIN labels |->
               FieldDefinition(labels[i], Rb(value.fields[labels[i]]))])
    [] value.tag = "array" ->
         TmArrayTerm([i \in DOMAIN value.elems |-> Rb(value.elems[i])])
    [] value.tag = "prim" -> TmPrimitive(value.prim)
    [] value.tag = "format" -> TmFormatType
    [] value.tag = "repr" -> TmRepr
    [] value.tag = "error" -> TmError

\* normalize
Normalize(items, locals, term) ==
  ReadBack(items, Len(locals), Eval(items, locals, term))

-----------------------------------------------------------------------------
\* Mutants of IsEqual: the spines of stuck values are not compared; the heads
\* of stuck values are not compared.
IsEqualHeads(items, value0, value1) ==
  \/ value0.tag = "error" \/ value1.tag = "error"
  \/ /\ value0.tag = value1.tag
     /\ value0.tag = "stuck" => value0.head = value1.head
     /\ value0.tag = "sort" => value0.sort = value1.sort

IsEqualSpines(items, value0, value1) ==
  \/ value0.tag = "error" \/ value1.tag = "error"
  \/ /\ value0.tag = value1.tag
     /\ value0.tag = "stuck" => Len(value0.elims) = Len(value1.elims)
     /\ value0.tag = "sort" => value0.sort = value1.sort

\* is_equal, is_equal_head and is_equal_spine.
RECURSIVE IsEqual(_, _, _)

\* Two terms in their environments, and two eliminations.
IsEqualIn(items, locals0, term0, locals1, term1) ==
  IsEqual(items, Eval(items, locals0, term0), Eval(items, locals1, term1))

IsEqualElim(items, e0, e1) ==
  /\ e0.e = e1.e
  /\ CASE e0.e = "app" -> IsEqual(items, e0.arg, e1.arg)
       [] e0.e = "if" ->
            /\ IsEqualIn(items, e0.locals, e0.if_true, e1.locals, e1.if_true)
            /\ IsEqualIn(items, e0.locals, e0.if_false, e1.locals, e1.if_false)
       [] e0.e = "match" ->
            /\ DOMAIN e0.branches = DOMAIN e1.branches
            /\ \A n \in DOMAIN e0.branches :
                 IsEqualIn(items, e0.locals, e0.branches[n], e1.locals, e1.branches[n])
            /\ IsEqualIn(items, e0.locals, e0.default, e1.locals, e1.default)
       [] e0.e = "repr" -> TRUE
       [] OTHER -> FALSE  \* there is no arm for two Elim::Struct

IsEqual(items, value0, value1) ==
  LET Eq(v0, v1) == IsEqual(items, v0, v1)
  IN
  CASE value0.tag = "error" \/ value1.tag = "error" -> TRUE
    [] value0.tag # value1.tag -> FALSE
    [] value0.tag = "stuck" ->
         /\ value0.head = value1.head
         /\ Len(value0.elims) = Len(value1.elims)
         /\ \A i \in DOMAIN value0.elims :
              IsEqualElim(items, value0.elims[i], value1.elims[i])
    [] value0.tag = "sort" -> value0.sort = value1.sort
    [] value0.tag = "fun" ->
         /\ Eq(value1.param, value0.param)
         /\ Eq(value0.body, value1.body)
    [] value0.tag = "struct" ->
         /\ DOMAIN value0.fields = DOMAIN value1.fields
         /\ \A l \in DOMAIN value0.fields :
              Eq(value1.fields[l], value0.fields[l])
    [] value0.tag = "array" ->
         /\ Len(value0.elems) = Len(value1.elems)
         /\ \A i \in DOMAIN value0.elems : Eq(value0.elems[i], value1.elems[i])
    [] value0.tag = "prim" ->
         value0.prim.kind = value1.prim.kind /\ value0.prim = value1.prim
    [] OTHER -> TRUE

-----------------------------------------------------------------------------
\* ItemData::try_field_declarations: the fields of a struct item applied to
\* enough arguments.  An elimination that is no application panics; here it
\* has no `arg`.
NotFound == [found |-> FALSE]

TryFieldDeclarations(item, elims) ==
  IF item.kind = "constant" THEN NotFound
  ELSE IF Len(elims) < item.arity THEN NotFound
  ELSE [found     |-> TRUE,
        is_format |-> item.kind = "struct_format",
        locals    |-> [i \in 1 .. item.arity |-> elims[i].arg],
        fields    |-> item.fields]

\* The type of the i-th field, given the values of the fields before it.
FieldType(items, decls, values, i) ==
  LET Of(type) == IF decls.is_format THEN ReprOf(type) ELSE type
  IN  Of(Eval(items, decls.locals \o values, decls.fields[i].type))

\* FieldDeclarations::get_field_type: the fields before it are projections of
\* the struct.
GetFieldType(items, decls, head, label) ==
  LET at == {i \in DOMAIN decls.fields : decls.fields[i].label = label}
      first == CHOOSE i \in at : \A j \in at : i <= j
  IN  IF at = {} THEN NotFound
      ELSE [found |-> TRUE,
            type  |-> FieldType(items, decls,
                        [j \in 1 .. first - 1 |->
                           StructElim(head, decls.fields[j].label)],
                        first)]

=============================================================================
