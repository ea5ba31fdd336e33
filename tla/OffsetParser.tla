---------------------------- MODULE OffsetParser ----------------------------
(***************************************************************************)
(* parse_term and the parsers below it, of experiments/rust-prototype-v2/  *)
(* src/semantics/parser.rs: what a type at a position of the file parses   *)
(* to, and the offsets it queues on the way.                               *)
(*                                                                         *)
(* Types are in normal form.  What nf_term has to compute with (the base   *)
(* of an offset, a length, an argument) is an expression: a value, or the  *)
(* name of a parameter or an earlier field.  A predicate is the set of the *)
(* values it holds for, a computed array the sequence of what it computes. *)
(*                                                                         *)
(* env is what every parser borrows: the context, whose definitions are    *)
(* looked up by label, and the bytes of the file.                          *)
(***************************************************************************)
EXTENDS FormatCodec, SequencesExt

-----------------------------------------------------------------------------
\* Value
VInt(n) == [v |-> "int", n |-> n]
VFloat(bits) == [v |-> "float", n |-> bits]
VPos(n) == [v |-> "pos", n |-> n]
VStruct(fields) == [v |-> "struct", fields |-> fields]
VArray(elems) == [v |-> "array", elems |-> elems]

\* Types, and the expressions in them.
TyPos == [k |-> "pos"]
TyPrim(f) == [k |-> "prim", f |-> f]
TyRefinement(ty, pred) == [k |-> "refinement", ty |-> ty, pred |-> pred]
TyOffset(f, base, ty) == [k |-> "offset", f |-> f, base |-> base, ty |-> ty]
TyLink(base, offset, ty) == [k |-> "link", base |-> base, offset |-> offset, ty |-> ty]
TyReserved(ty) == [k |-> "reserved", ty |-> ty]
TyArray(len, ty) == [k |-> "array", len |-> len, ty |-> ty]
TyCompute(value) == [k |-> "compute", value |-> value]
TyComputeArray(values) == [k |-> "compute_array", values |-> values]
TyVar(name, args) == [k |-> "var", name |-> name, args |-> args]
TyInvalid == [k |-> "invalid"]

Val(value) == [e |-> "value", value |-> value]
Ref(name) == [e |-> "ref", name |-> name]

\* Definition: an alias of a type, or a type with parameters and fields or variants.
Alias(ty) == [d |-> "alias", ty |-> ty]
IntersectionType(params, fields) == [d |-> "intersection", params |-> params, fields |-> fields]
StructType(params, fields) == [d |-> "struct", params |-> params, fields |-> fields]
UnionType(params, variants) == [d |-> "union", params |-> params, variants |-> variants]
Field(label, ty) == [label |-> label, ty |-> ty]

-----------------------------------------------------------------------------
\* nf_term of a type under the substitution `mappings`: names become values.
SubstExpr(mappings, expr) ==
  IF expr.e = "ref" /\ expr.name \in DOMAIN mappings THEN Val(mappings[expr.name]) ELSE expr

RECURSIVE Subst(_, _, _)
Subst(env, mappings, ty) ==
  CASE ty.k \in {"refinement", "reserved"} -> [ty EXCEPT !.ty = Subst(env, mappings, @)]
    [] ty.k = "offset" ->
         [ty EXCEPT !.base = SubstExpr(mappings, @), !.ty = Subst(env, mappings, @)]
    [] ty.k = "link" ->
         [ty EXCEPT !.base = SubstExpr(mappings, @), !.offset = SubstExpr(mappings, @),
                    !.ty = Subst(env, mappings, @)]
    [] ty.k = "array" -> [ty EXCEPT !.len = SubstExpr(mappings, @), !.ty = Subst(env, mappings, @)]
    [] ty.k = "compute" -> [ty EXCEPT !.value = SubstExpr(mappings, @)]
    [] ty.k = "var" ->
         IF ty.name \in DOMAIN env.context /\ env.context[ty.name].d = "alias"
           THEN Subst(env, <<>>, env.context[ty.name].ty)
           ELSE [ty EXCEPT !.args = [i \in DOMAIN @ |-> SubstExpr(mappings, @[i])]]
    [] OTHER -> ty

\* The accessors of context.rs recognise an offset, a link or an array only if
\* its base and length are literals.
IsLiteral(expr, v) == expr.e = "value" /\ expr.value.v = v

-----------------------------------------------------------------------------
\* The result of a parser: a value and the position behind it, or an error; and
\* what it has pushed on the queue.  That is borrowed, and so keeps what a failed
\* parser has pushed.
Parsed(value, pos, pushed) == [ok |-> TRUE, value |-> value, at |-> pos, pushed |-> pushed]
Failed(e, pushed) == [ok |-> FALSE, error |-> e, pushed |-> pushed]

\* read_u8 and the others of byteorder: the bytes behind a position, which may
\* be behind the end of the file.
Available(env, f, pos) == pos + Size(f) <= Len(env.bytes)
ReadBytes(env, f, pos) == Decode(f, SubSeq(env.bytes, pos + 1, pos + Size(f)))

ParsePrim(env, f, pos) ==
  IF ~Available(env, f, pos) THEN Failed("Io", <<>>)
  ELSE LET n == ReadBytes(env, f, pos)
       IN  Parsed(IF f \in Floating THEN VFloat(n) ELSE VInt(n), pos + Size(f), <<>>)

\* queue_offset, of the u64 sum of a base and an offset (in release builds, where
\* it wraps; with overflow checks the addition panics instead).
QueueOffset(base, offset, ty, pos) ==
  LET target == (base + offset) % Weight[8]
  IN  Parsed(VPos(target), pos, << <<target, ty>> >>)

\* Value::try_from_core_value has no case for positions.
RECURSIVE IsCoreValue(_)
IsCoreValue(value) ==
  CASE value.v = "pos" -> FALSE
    [] value.v = "struct" -> \A i \in DOMAIN value.fields : IsCoreValue(value.fields[i][2])
    [] value.v = "array" -> \A i \in DOMAIN value.elems : IsCoreValue(value.elems[i])
    [] OTHER -> TRUE

RECURSIVE ParseTerm(_, _, _)

\* A parser that comes after others, which have pushed something before it.
ParseAfter(pushed, env, ty, pos) ==
  [ParseTerm(env, ty, pos) EXCEPT !.pushed = pushed \o @]

Extended(mappings, label, value) == (label :> value) @@ mappings

\* The fields before any was parsed, the next one, and with one more of them.
NoFields(mappings, pos) ==
  [ok |-> TRUE, at |-> pos, pushed |-> <<>>, mappings |-> mappings, value |-> <<>>]
ParseField(env, st, field, pos) ==
  ParseAfter(st.pushed, env, Subst(env, st.mappings, field.ty), pos)
WithField(st, field, r) ==
  IF ~r.ok THEN r
  ELSE [r EXCEPT !.value = Append(st.value, <<field.label, @>>)] @@
       [mappings |-> Extended(st.mappings, field.label, r.value)]
Fields(end) == IF end.ok THEN Parsed(VStruct(end.value), end.at, end.pushed) ELSE end

\* parse_struct: every field behind the one before it, and with its value.
StructField(env, st, field) ==
  IF st.ok THEN WithField(st, field, ParseField(env, st, field, st.at)) ELSE st

ParseStruct(env, fields, mappings, pos) ==
  LET done[i \in 0 .. Len(fields)] ==
        IF i = 0 THEN NoFields(mappings, pos) ELSE StructField(env, done[i - 1], fields[i])
  IN  Fields(done[Len(fields)])

\* parse_intersection: every field at the same position, all of one size.
SameSize(st, r) ==
  IF r.ok /\ st.value # <<>> /\ r.at # st.at THEN Failed("MismatchedIntersectionSize", r.pushed)
  ELSE r
IntersectionField(env, st, field, pos) ==
  IF st.ok THEN WithField(st, field, SameSize(st, ParseField(env, st, field, pos))) ELSE st

ParseIntersection(env, fields, mappings, pos) ==
  LET done[i \in 0 .. Len(fields)] ==
        IF i = 0 THEN NoFields(mappings, pos)
        ELSE IntersectionField(env, done[i - 1], fields[i], pos)
  IN  Fields(done[Len(fields)])

\* The first of two results that is not an error.
OrElse(r, other) == IF r.ok THEN r ELSE other
NoVariant == Failed("NoVariantMatched", <<>>)

\* Mutant of ParseUnion: the variants share the queue.
ParseUnionSharing(env, variants, mappings, pos) ==
  LET tried[i \in 0 .. Len(variants)] ==
        IF i = 0 THEN NoVariant
        ELSE OrElse(tried[i - 1],
                    ParseAfter(tried[i - 1].pushed, env, Subst(env, mappings, variants[i]), pos))
  IN  OrElse(tried[Len(variants)], NoVariant)

\* parse_union: the first variant that parses; the others worked on copies of
\* the cursor and the queue.
ParseUnion(env, variants, mappings, pos) ==
  LET tried[i \in 0 .. Len(variants)] ==
        IF i = 0 THEN NoVariant
        ELSE OrElse(tried[i - 1], ParseAfter(<<>>, env, Subst(env, mappings, variants[i]), pos))
  IN  OrElse(tried[Len(variants)], NoVariant)

\* A definition applied to arguments.
ParseDefinition(env, def, args, pos) ==
  LET mappings == [p \in Range(def.params) |->
                     args[CHOOSE i \in DOMAIN def.params : def.params[i] = p].value]
  IN  CASE def.d = "struct" -> ParseStruct(env, def.fields, mappings, pos)
        [] def.d = "intersection" -> ParseIntersection(env, def.fields, mappings, pos)
        [] def.d = "union" -> ParseUnion(env, def.variants, mappings, pos)

\* The elements of an array, one behind the other.
WithElem(st, r) == IF r.ok THEN [r EXCEPT !.value = Append(st.value, @)] ELSE r
ParseElem(env, st, ty) == IF st.ok THEN WithElem(st, ParseAfter(st.pushed, env, ty, st.at)) ELSE st
Elems(end) == IF end.ok THEN [end EXCEPT !.value = VArray(@)] ELSE end

ParseArray(env, len, ty, pos) ==
  LET done[i \in 0 .. len] ==
        IF i = 0 THEN Parsed(<<>>, pos, <<>>) ELSE ParseElem(env, done[i - 1], ty)
  IN  Elems(done[len])

\* The value behind a refinement must be one it holds for; a reserved one is dropped.
ParseInner(ty, r) ==
  IF ~r.ok THEN r
  ELSE IF ty.k = "reserved" THEN [r EXCEPT !.value = VStruct(<<>>)]
  ELSE IF r.value \notin ty.pred THEN Failed("FailedPredicate", r.pushed)
  ELSE r

ParseTerm(env, ty, pos) ==
  CASE ty.k = "pos" -> Parsed(VPos(pos), pos, <<>>)
    [] ty.k = "prim" -> ParsePrim(env, ty.f, pos)
    [] ty.k \in {"refinement", "reserved"} -> ParseInner(ty, ParseAfter(<<>>, env, ty.ty, pos))
    [] ty.k = "offset" /\ IsLiteral(ty.base, "pos") ->
         IF ~Available(env, ty.f, pos) THEN Failed("Io", <<>>)
         ELSE QueueOffset(ty.base.value.n, ReadBytes(env, ty.f, pos), ty.ty, pos + Size(ty.f))
    [] ty.k = "link" /\ IsLiteral(ty.base, "pos") /\ IsLiteral(ty.offset, "int") ->
         QueueOffset(ty.base.value.n, ty.offset.value.n, ty.ty, pos)
    [] ty.k = "array" /\ IsLiteral(ty.len, "int") -> ParseArray(env, ty.len.value.n, ty.ty, pos)
    [] ty.k = "compute" ->
         IF ty.value.e = "value" /\ IsCoreValue(ty.value.value)
           THEN Parsed(ty.value.value, pos, <<>>)
         ELSE Failed("InvalidValue", <<>>)
    [] ty.k = "compute_array" ->
         IF IsCoreValue(VArray(ty.values)) THEN Parsed(VArray(ty.values), pos, <<>>)
         ELSE Failed("InvalidValue", <<>>)
    [] ty.k = "var" /\ ty.name \in DOMAIN env.context /\ env.context[ty.name].d # "alias" ->
         ParseDefinition(env, env.context[ty.name], ty.args, pos)
    [] OTHER -> Failed("InvalidType", <<>>)

\* The root's definition, at the start of the file.
ParseRootDefinition(env, def) ==
  IF def.d = "alias" THEN ParseTerm(env, Subst(env, <<>>, def.ty), 0)
  ELSE IF def.params # <<>>
    THEN Failed(IF def.d = "union" THEN "ParametrizedUnionType" ELSE "ParametrizedStructType",
                <<>>)
  ELSE ParseDefinition(env, def, <<>>, 0)

-----------------------------------------------------------------------------
\* The positions in a value.
RECURSIVE PositionsIn(_)
PositionsIn(value) ==
  CASE value.v = "pos" -> {value.n}
    [] value.v = "struct" -> UNION {PositionsIn(value.fields[i][2]) : i \in DOMAIN value.fields}
    [] value.v = "array" -> UNION {PositionsIn(value.elems[i]) : i \in DOMAIN value.elems}
    [] OTHER -> {}

=============================================================================
