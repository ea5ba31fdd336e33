----------------------------- MODULE Elaboration -----------------------------
(***************************************************************************)
(* Context::from_module of fathom/src/pass/surface_to_core.rs: the items   *)
(* of a surface module are elaborated in order, and inside a struct its    *)
(* parameters and then its fields, each in the context of the ones before. *)
(* The judgements about terms, which call themselves on subterms, are      *)
(* parameters; SurfaceToCore and CoreSemantics define them.                *)
(***************************************************************************)
EXTENDS SurfaceTerm

CONSTANTS
  EvalTerm(_, _, _),            \* semantics::eval, of (items, locals, term)
  ReprOfValue(_),               \* semantics::repr
  SynthTerm(_, _),              \* synth_type, of (context, term)
  CheckTerm(_, _, _),           \* check_type, of (context, term, expected type)
  ElaborateType(_, _),          \* is_type, of (context, term)
  ElaborateAnnotated(_, _, _),  \* an annotated term, of (context, term, type)
  SurfaceModules                \* the surface modules to elaborate

VARIABLES
  surface,    \* the module
  at,         \* number of items behind us
  phase,      \* "item", "struct_type" or "struct_format" inside a struct, "done"
  field,      \* number of fields behind us in the current struct
  seen,       \* seen_field_labels
  initial,    \* initial_size
  params,     \* the core parameters of the current struct
  fields,     \* core_field_declarations
  items,      \* item_definitions
  decls,      \* item_declarations
  locals,     \* local_definitions
  types,      \* the types of local_declarations
  names,      \* the names of local_declarations and of the distillation context
  core,       \* core_items
  messages,   \* the kinds of the messages pushed so far
  declared    \* item_declarations at the end of the module, before they are cleared

vars == <<surface, at, phase, field, seen, initial, params, fields, items, decls, locals,
          types, names, core, messages, declared>>

Context ==
  [items |-> items, decls |-> decls, locals |-> locals, types |-> types, names |-> names]

current == surface[at + 1]

NewContext ==
  /\ at = 0 /\ phase = "item" /\ field = 0 /\ seen = {} /\ initial = 0
  /\ params = <<>> /\ fields = <<>>
  /\ items = <<>> /\ decls = <<>>
  /\ locals = <<>> /\ types = <<>> /\ names = <<>>
  /\ messages = <<>>

Init ==
  /\ surface \in SurfaceModules
  /\ NewContext
  /\ core = <<>> /\ declared = <<>>

-----------------------------------------------------------------------------
\* Mutant of Define: the core item is kept although its name is taken.
DefineAlways(core_item, def, type, pushed) ==
  /\ messages' = messages \o
       (IF core_item.name \in DOMAIN items THEN Append(pushed, "ItemRedefinition") ELSE pushed)
  /\ core' = Append(core, core_item)
  /\ items' = Insert(items, core_item.name, def)
  /\ decls' = Insert(decls, core_item.name, type)
  /\ at' = at + 1 /\ phase' = "item"

\* The end of the loop body: the first definition of a name stays, and only it
\* becomes a core item.
Define(core_item, def, type, pushed) ==
  /\ IF core_item.name \in DOMAIN items
       THEN /\ messages' = messages \o Append(pushed, "ItemRedefinition")
            /\ UNCHANGED <<core, items, decls>>
       ELSE /\ messages' = messages \o pushed
            /\ core' = Append(core, core_item)
            /\ items' = Insert(items, core_item.name, def)
            /\ decls' = Insert(decls, core_item.name, type)
  /\ at' = at + 1 /\ phase' = "item"

ElaborateConstant ==
  /\ phase = "item" /\ at < Len(surface) /\ current.kind = "constant"
  /\ LET Constant(e) ==
           Define([name |-> current.name, kind |-> "constant", term |-> e.term],
                  ConstantItem(EvalTerm(items, locals, e.term)), e.type, e.messages)
     IN  Constant(IF current.type = NoType THEN SynthTerm(Context, current.term)
                  ELSE ElaborateAnnotated(Context, current.term, current.type))
  /\ UNCHANGED <<surface, field, seen, initial, params, fields, locals, types, names,
                 declared>>

\* The annotation of the current struct, and what it evaluates to.
Annotation == ElaborateType(Context, current.type)
StructSort == EvalTerm(items, locals, Annotation.term)
AtStruct == phase = "item" /\ at < Len(surface) /\ current.kind = "struct"

\* A struct without annotation, or with one that is no sort of structs, is left
\* out of the core module.
SkipStruct ==
  /\ AtStruct
  /\ LET Skip(annotation, sort) ==
           /\ sort \notin {SortValue("Type"), FormatType}
           /\ messages' = messages \o annotation.messages \o
                (IF sort = Error THEN <<>> ELSE <<"InvalidStructAnnotation">>)
     IN  IF current.type = NoType
           THEN messages' = Append(messages, "MissingStructAnnotation")
           ELSE Skip(Annotation, StructSort)
  /\ at' = at + 1
  /\ UNCHANGED <<surface, phase, field, seen, initial, params, fields, items, decls, locals,
                 types, names, core, declared>>

\* All parameters are elaborated before any of them is pushed.
ElaborateParams ==
  LET n == Len(current.params)
      value(i) == Local(Len(locals) + i - 1, <<>>)
      PushParams(elaborated) ==
        /\ params' = [i \in 1 .. n |->
             FieldDeclaration(Label(current.params[i].name), elaborated[i].term)]
        /\ messages' = messages \o Annotation.messages
                         \o FlattenSeq([i \in 1 .. n |-> elaborated[i].messages])
        /\ types' = types \o [i \in 1 .. n |->
             EvalTerm(items, locals \o [j \in 1 .. i - 1 |-> value(j)], elaborated[i].term)]
  IN  /\ PushParams([i \in 1 .. n |-> ElaborateType(Context, current.params[i].type)])
      /\ locals' = locals \o [i \in 1 .. n |-> value(i)]
      /\ names' = names \o [i \in 1 .. n |-> current.params[i].name]
      /\ initial' = Len(locals)
      /\ fields' = <<>> /\ field' = 0 /\ seen' = {}

\* is_struct_type, to the end of its parameters.
IsStructType ==
  /\ AtStruct /\ current.type # NoType /\ StructSort = SortValue("Type")
  /\ ElaborateParams
  /\ phase' = "struct_type"
  /\ UNCHANGED <<surface, at, items, decls, core, declared>>

\* is_struct_format, to the end of its parameters.
IsStructFormat ==
  /\ AtStruct /\ current.type # NoType /\ StructSort = FormatType
  /\ ElaborateParams
  /\ phase' = "struct_format"
  /\ UNCHANGED <<surface, at, items, decls, core, declared>>

\* push_local_param
PushLocalParam(name, type) ==
  /\ locals' = Append(locals, Local(Len(locals), <<>>))
  /\ types' = Append(types, type)
  /\ names' = Append(names, name)

\* Mutant of DeclareField: a redeclared field is dropped without a message.
DeclareFieldSilently(e, type) ==
  LET name == current.fields[field + 1].name
  IN  /\ messages' = messages \o e.messages
      /\ IF name \in seen THEN UNCHANGED <<fields, locals, types, names>>
         ELSE /\ fields' = Append(fields, FieldDeclaration(Label(name), e.term))
              /\ PushLocalParam(name, type)
      /\ seen' = seen \cup {name} /\ field' = field + 1

\* A field whose label was seen before is dropped, and leaves no local.
DeclareField(e, type) ==
  LET name == current.fields[field + 1].name
  IN  /\ IF name \in seen
           THEN /\ messages' = messages \o Append(e.messages, "FieldRedeclaration")
                /\ UNCHANGED <<fields, locals, types, names>>
           ELSE /\ messages' = messages \o e.messages
                /\ fields' = Append(fields, FieldDeclaration(Label(name), e.term))
                /\ PushLocalParam(name, type)
      /\ seen' = seen \cup {name} /\ field' = field + 1

StructTypeField ==
  /\ phase = "struct_type" /\ field < Len(current.fields)
  /\ LET Declare(e) == DeclareField(e, EvalTerm(items, locals, e.term))
     IN  Declare(CheckTerm(Context, current.fields[field + 1].type, SortValue("Type")))
  /\ UNCHANGED <<surface, at, phase, initial, params, items, decls, core, declared>>

StructFormatField ==
  /\ phase = "struct_format" /\ field < Len(current.fields)
  /\ LET Declare(e) == DeclareField(e, ReprOfValue(EvalTerm(items, locals, e.term)))
     IN  Declare(CheckTerm(Context, current.fields[field + 1].type, FormatType))
  /\ UNCHANGED <<surface, at, phase, initial, params, items, decls, core, declared>>

\* Mutant of TruncateLocals: the names stay.
TruncateLocalsNotNames(size) ==
  /\ locals' = SubSeq(locals, 1, size)
  /\ types' = SubSeq(types, 1, size)
  /\ UNCHANGED names

\* truncate_locals
TruncateLocals(size) ==
  /\ locals' = SubSeq(locals, 1, size)
  /\ types' = SubSeq(types, 1, size)
  /\ names' = SubSeq(names, 1, size)

\* The type of a struct item: that of its fields, behind its parameters, which
\* are evaluated with the locals already gone.
StructItemType(sort) ==
  FoldLeft(LAMBDA body, param : FunctionType(EvalTerm(items, locals', param.type), body),
           sort, Reverse(params))

FinishStruct(kind, item, sort) ==
  /\ phase = kind /\ field = Len(current.fields)
  /\ TruncateLocals(initial)
  /\ Define([name |-> current.name, kind |-> kind, params |-> params, fields |-> fields],
            item, StructItemType(sort), <<>>)
  /\ UNCHANGED <<surface, field, seen, initial, params, fields, declared>>

FinishStructType ==
  FinishStruct("struct_type", StructTypeItem(Len(params), fields), SortValue("Type"))
FinishStructFormat ==
  FinishStruct("struct_format", StructFormatItem(Len(params), fields), FormatType)

FinishModule ==
  /\ phase = "item" /\ at = Len(surface)
  /\ phase' = "done"
  /\ declared' = decls
  /\ items' = <<>> /\ decls' = <<>>
  /\ UNCHANGED <<surface, at, field, seen, initial, params, fields, locals, types, names,
                 core, messages>>

Next ==
  \/ ElaborateConstant \/ SkipStruct
  \/ IsStructType \/ StructTypeField \/ FinishStructType
  \/ IsStructFormat \/ StructFormatField \/ FinishStructFormat
  \/ FinishModule

Spec == Init /\ [][Next]_vars

=============================================================================
