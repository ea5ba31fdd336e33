------------------------------- MODULE CoreTerm -------------------------------
(***************************************************************************)
(* The syntax of fathom/src/lang/core.rs and the values of                 *)
(* fathom/src/lang/core/semantics.rs.                                      *)
(*                                                                         *)
(* Item and global names are strings.  Field labels are numbers, because   *)
(* the code keeps struct values in a BTreeMap, whose order is that of the  *)
(* labels.  Source locations and doc comments are left out: no equality in *)
(* the code looks at them.                                                 *)
(***************************************************************************)
EXTENDS FormatCodec, TLC

-----------------------------------------------------------------------------
\* TermData.  Branches of an IntElim are a function from a finite set of
\* integers; the fields of a StructTerm a sequence of definitions.
TmGlobal(name) == [t |-> "global", name |-> name]
TmItem(name) == [t |-> "item", name |-> name]
TmLocal(index) == [t |-> "local", index |-> index]
TmAnn(term, type) == [t |-> "ann", term |-> term, type |-> type]
TmSort(sort) == [t |-> "sort", sort |-> sort]
TmFunctionType(param, body) == [t |-> "fun", param |-> param, body |-> body]
TmFunctionElim(head, arg) == [t |-> "app", head |-> head, arg |-> arg]
TmStructTerm(defs) == [t |-> "struct", defs |-> defs]
TmStructElim(head, label) == [t |-> "proj", head |-> head, label |-> label]
TmArrayTerm(elems) == [t |-> "array", elems |-> elems]
TmPrimitive(prim) == [t |-> "prim", prim |-> prim]
TmBoolElim(head, if_true, if_false) ==
  [t |-> "if", head |-> head, if_true |-> if_true, if_false |-> if_false]
TmIntElim(head, branches, default) ==
  [t |-> "match", head |-> head, branches |-> branches, default |-> default]
TmFormatType == [t |-> "format"]
TmRepr == [t |-> "repr"]
TmError == [t |-> "error"]

FieldDefinition(label, term) == [label |-> label, term |-> term]
FieldDeclaration(label, type) == [label |-> label, type |-> type]

\* Primitive.  A float is known by its bits; no operation of the core language
\* computes with one.
BigInt(val) == [kind |-> "Int", val |-> val]
Float(kind, bits) == [kind |-> kind, val |-> bits]
Pos(val) == [kind |-> "Pos", val |-> val]

-----------------------------------------------------------------------------
\* Value, Head and Elim.
Stuck(head, elims) == [tag |-> "stuck", head |-> head, elims |-> elims]
Global(name, elims) == Stuck(<<"global", name>>, elims)
Item(name, elims) == Stuck(<<"item", name>>, elims)
Local(level, elims) == Stuck(<<"local", level>>, elims)
SortValue(sort) == [tag |-> "sort", sort |-> sort]
FunctionType(param, body) == [tag |-> "fun", param |-> param, body |-> body]
StructTerm(fields) == [tag |-> "struct", fields |-> fields]
ArrayTerm(elems) == [tag |-> "array", elems |-> elems]
Primitive(prim) == [tag |-> "prim", prim |-> prim]
FormatType == [tag |-> "format"]
Repr == [tag |-> "repr"]
Error == [tag |-> "error"]

FunctionArg(value) == [e |-> "app", arg |-> value]
FieldOf(label) == [e |-> "proj", label |-> label]
IfElse(locals, if_true, if_false) ==
  [e |-> "if", locals |-> locals, if_true |-> if_true, if_false |-> if_false]
Match(locals, branches, default) ==
  [e |-> "match", locals |-> locals, branches |-> branches, default |-> default]
ReprElim == [e |-> "repr"]

IntValue(n) == Primitive(BigInt(n))
PosValue(n) == Primitive(Pos(n))

IsInt(value) == value.tag = "prim" /\ value.prim.kind = "Int"
IsPos(value) == value.tag = "prim" /\ value.prim.kind = "Pos"

\* Value::try_global and Value::try_item, with the match on the spine.
IsGlobal(value, name, arity) ==
  /\ value.tag = "stuck"
  /\ value.head = <<"global", name>>
  /\ Len(value.elims) = arity
  /\ \A i \in 1 .. arity : value.elims[i].e = "app"

Push(value, elim) == Stuck(value.head, Append(value.elims, elim))

-----------------------------------------------------------------------------
\* insert of a HashMap or a BTreeMap: the entry of the key is replaced.
Insert(map, key, value) ==
  [k \in DOMAIN map \cup {key} |-> IF k = key THEN value ELSE map[k]]

\* Evaluated items.
ConstantItem(value) == [kind |-> "constant", value |-> value]
StructTypeItem(arity, fields) ==
  [kind |-> "struct_type", arity |-> arity, fields |-> fields]
StructFormatItem(arity, fields) ==
  [kind |-> "struct_format", arity |-> arity, fields |-> fields]

-----------------------------------------------------------------------------
\* The host types of the primitive formats.
HostOf ==
  [f \in Unsigned \cup Signed |-> "Int"]
    @@ [f \in {"F32Le", "F32Be"} |-> "F32"] @@ [f \in {"F64Le", "F64Be"} |-> "F64"]

\* Globals::default: the type of each global; none of them has a definition.
Globals ==
  [g \in {"Int", "F32", "F64", "Bool", "Pos"} |-> TmSort("Type")]
    @@ [g \in {"true", "false"} |-> TmGlobal("Bool")]
    @@ [g \in PrimitiveFormat \cup {"CurrentPos"} |-> TmFormatType]
    @@ [g \in {"Array"} |->
          TmFunctionType(TmGlobal("Int"),
                         TmFunctionType(TmSort("Type"), TmSort("Type")))]
    @@ [g \in {"FormatArray"} |->
          TmFunctionType(TmGlobal("Int"),
                         TmFunctionType(TmFormatType, TmFormatType))]
    @@ [g \in {"Link"} |->
          TmFunctionType(TmGlobal("Pos"),
            TmFunctionType(TmGlobal("Int"),
                           TmFunctionType(TmFormatType, TmFormatType)))]

-----------------------------------------------------------------------------
\* Mutant of LevelToIndex: a level taken for an index.
LevelAsIndex(size, level) == level

\* LocalSize::index_to_level and LocalSize::level_to_index, which are the same
\* subtraction; NoLocal is the None of a variable the environment cannot hold.
NoLocal == -1
IndexToLevel(size, index) == IF index < size THEN size - index - 1 ELSE NoLocal
LevelToIndex(size, level) == IF level < size THEN size - level - 1 ELSE NoLocal

\* Locals::get.  An environment is the sequence of its entries, the entry of
\* level l at place l + 1.
InScope(locals, index) == IndexToLevel(Len(locals), index) # NoLocal
GetLocal(locals, index) == locals[IndexToLevel(Len(locals), index) + 1]

=============================================================================
