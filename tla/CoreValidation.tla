--------------------------- MODULE CoreValidation ---------------------------
(***************************************************************************)
(* Context::is_module of fathom/src/lang/core/typing.rs: the items of a    *)
(* module are checked in order, and inside a struct its parameters and     *)
(* then its fields, each in the context of the ones before it.  The        *)
(* judgements about terms, which call themselves on subterms, are          *)
(* parameters; CoreTyping and CoreSemantics define them.                   *)
(***************************************************************************)
EXTENDS CoreTerm, SequencesExt

CONSTANTS
  EvalTerm(_, _, _),       \* semantics::eval, of (items, locals, term)
  ReprOfValue(_),          \* semantics::repr
  SynthCore(_, _),         \* synth_type, of (context, term)
  SynthCoreSort(_, _),     \* synth_sort, of (context, term)
  CheckCore(_, _, _),      \* check_type, of (context, term, expected type)
  Modules                  \* the core modules to validate

VARIABLES
  module,     \* the module
  at,         \* number of items behind us
  phase,      \* "item", "fields" inside a struct, "done"
  field,      \* number of fields behind us in the current struct
  seen,       \* seen_field_labels
  initial,    \* initial_size
  items,      \* item_definitions
  decls,      \* item_declarations
  locals,     \* local_definitions
  types,      \* local_declarations
  messages    \* the kinds of the messages pushed so far

vars == <<module, at, phase, field, seen, initial, items, decls, locals, types,
          messages>>

Context ==
  [items |-> items, decls |-> decls, locals |-> locals, types |-> types]

current == module[at + 1]

\* What the fields of the current struct are checked against.
FieldSort == IF current.kind = "struct_type" THEN SortValue("Type") ELSE FormatType

NewContext ==
  /\ at = 0 /\ phase = "item" /\ field = 0
  /\ seen = {} /\ initial = 0
  /\ items = <<>> /\ decls = <<>>
  /\ locals = <<>> /\ types = <<>>
  /\ messages = <<>>

Init == module \in Modules /\ NewContext

-----------------------------------------------------------------------------
\* The end of the loop body: the first definition of a name stays.
Define(def, type, pushed) ==
  /\ IF current.name \in DOMAIN items
       THEN /\ messages' = messages \o Append(pushed, "ItemRedefinition")
            /\ UNCHANGED <<items, decls>>
       ELSE /\ messages' = messages \o pushed
            /\ items' = Insert(items, current.name, def)
            /\ decls' = Insert(decls, current.name, type)
  /\ at' = at + 1
  /\ phase' = "item"
  /\ UNCHANGED module

CheckConstant ==
  /\ phase = "item" /\ at < Len(module) /\ current.kind = "constant"
  /\ LET t == SynthCore(Context, current.term)
     IN  Define(ConstantItem(EvalTerm(items, locals, current.term)), t.type, t.messages)
  /\ UNCHANGED <<field, seen, initial, locals, types>>

\* All parameters are checked before any of them is pushed.
CheckParams ==
  /\ phase = "item" /\ at < Len(module) /\ current.kind # "constant"
  /\ LET n == Len(current.params)
         param(i) == current.params[i].type
         value(i) == Local(Len(locals) + i - 1, <<>>)
     IN  /\ messages' = messages \o
              FlattenSeq([i \in 1 .. n |-> SynthCoreSort(Context, param(i)).messages])
         /\ types' = types \o [i \in 1 .. n |->
              EvalTerm(items, locals \o [j \in 1 .. i - 1 |-> value(j)], param(i))]
         /\ locals' = locals \o [i \in 1 .. n |-> value(i)]
  /\ phase' = "fields" /\ field' = 0 /\ seen' = {} /\ initial' = Len(locals)
  /\ UNCHANGED <<module, at, items, decls>>

\* push_local_param
PushLocalParam(type) ==
  /\ locals' = Append(locals, Local(Len(locals), <<>>))
  /\ types' = Append(types, type)

\* A field whose label was seen before leaves no local.
CheckField ==
  /\ phase = "fields" /\ field < Len(current.fields)
  /\ LET decl == current.fields[field + 1]
         value == EvalTerm(items, locals, decl.type)
         pushed == CheckCore(Context, decl.type, FieldSort)
     IN  IF decl.label \in seen
           THEN /\ messages' = messages \o Append(pushed, "FieldRedeclaration")
                /\ UNCHANGED <<locals, types>>
           ELSE /\ messages' = messages \o pushed
                /\ PushLocalParam(IF current.kind = "struct_type" THEN value
                                  ELSE ReprOfValue(value))
  /\ seen' = seen \cup {current.fields[field + 1].label}
  /\ field' = field + 1
  /\ UNCHANGED <<module, at, phase, initial, items, decls>>

\* truncate_locals
TruncateLocals(size) ==
  /\ locals' = SubSeq(locals, 1, size)
  /\ types' = SubSeq(types, 1, size)

\* The type of a struct item: that of its fields, behind its parameters.
StructItemType ==
  FoldLeft(LAMBDA body, param : FunctionType(EvalTerm(items, locals', param.type), body),
           FieldSort, Reverse(current.params))

\* The locals are dropped before the type of the item is made.
FinishStruct ==
  /\ phase = "fields" /\ field = Len(current.fields)
  /\ TruncateLocals(initial)
  /\ LET n == Len(current.params)
     IN  Define(IF current.kind = "struct_type"
                  THEN StructTypeItem(n, current.fields)
                  ELSE StructFormatItem(n, current.fields),
                StructItemType, <<>>)
  /\ UNCHANGED <<field, seen, initial>>

FinishModule ==
  /\ phase = "item" /\ at = Len(module)
  /\ phase' = "done"
  /\ items' = <<>> /\ decls' = <<>>
  /\ UNCHANGED <<module, at, field, seen, initial, locals, types, messages>>

Next ==
  CheckConstant \/ CheckParams \/ CheckField \/ FinishStruct \/ FinishModule

Spec == Init /\ [][Next]_vars

=============================================================================
