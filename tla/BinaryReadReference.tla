------------------------- MODULE BinaryReadReference -------------------------
(***************************************************************************)
(* What read_item is meant to compute, as a function of the item, the      *)
(* bytes and the position it starts at: a format denotes a parser, structs *)
(* and arrays sequence parsers, and links are followed breadth first.      *)
(* There are no scopes, slices, queues or stacks here; a position is a     *)
(* number, and past the end of the buffer there is nothing to read.        *)
(***************************************************************************)
EXTENDS BinaryRead, CoreSemantics

\* The outcome of a parser: a value, where it stops and the links it met.
Parsed(value, pos, found) ==
  [ok |-> TRUE, value |-> value, pos |-> pos, found |-> found]

-----------------------------------------------------------------------------
ParsePrimitive(f, pos) ==
  IF pos + Size(f) > BufferLen THEN Err(Eof)
  ELSE Parsed(PrimitiveValue(f, SubSeq(buffer, pos + 1, pos + Size(f))),
              pos + Size(f), <<>>)

RECURSIVE Parse(_, _), ParseFields(_, _, _, _, _), ParseElems(_, _, _, _, _)

Parse(format, pos) ==
  LET is(f, n) == IsGlobal(format, f, n)
      arg1 == format.elims[1].arg
      arg2 == format.elims[2].arg
  IN
  CASE \E f \in PrimitiveFormat : is(f, 0) -> ParsePrimitive(format.head[2], pos)
    [] is("CurrentPos", 0) -> Parsed(PosValue(pos % (UsizeMax + 1)), pos, <<>>)
    [] is("FormatArray", 2) /\ IsInt(arg1) /\ arg1.prim.val \in Usize ->
         ParseElems(arg2, arg1.prim.val, pos, <<>>, <<>>)
    [] is("Link", 3) /\ IsPos(arg1) /\ IsInt(arg2) ->
         LET to == arg1.prim.val + arg2.prim.val
         IN  IF to \notin Usize THEN Err(OverflowingPosition)
             ELSE Parsed(PosValue(to), pos,
                         <<[pos |-> to, format |-> format.elims[3].arg]>>)
    [] IsStructFormat(format) ->
         LET item == items[format.head[2]]
         IN  ParseFields(item.fields,
                         [i \in 1 .. item.arity |-> format.elims[i].arg],
                         pos, <<>>, <<>>)
    [] OTHER -> Err(InvalidDataDescription)

ParseFields(decls, locals, pos, fields, found) ==
  IF decls = <<>> THEN Parsed(StructTerm(fields), pos, found)
  ELSE LET field == Parse(Eval(items, locals, decls[1].type), pos)
       IN  IF ~field.ok THEN field
           ELSE ParseFields(Tail(decls), Append(locals, field.value), field.pos,
                            Insert(fields, decls[1].label, field.value),
                            found \o field.found)

ParseElems(format, left, pos, elems, found) ==
  IF left = 0 THEN Parsed(ArrayTerm(elems), pos, found)
  ELSE LET elem == Parse(format, pos)
       IN  IF ~elem.ok THEN elem
           ELSE ParseElems(format, left - 1, elem.pos,
                           Append(elems, elem.value), found \o elem.found)

-----------------------------------------------------------------------------
\* The links of an item, from a root position.
RECURSIVE ParseLinks(_, _, _, _)
ParseLinks(root, value, queue, done) ==
  IF queue = <<>> THEN Ok(value, done)
  ELSE IF queue[1].pos \in DOMAIN done THEN Err(DuplicatePosition(queue[1].pos))
  ELSE LET read == Parse(queue[1].format, root + queue[1].pos)
       IN  IF ~read.ok THEN read
           ELSE ParseLinks(root, value, Tail(queue) \o read.found,
                           Insert(done, queue[1].pos, read.value))

ParseItem(n, root) ==
  LET format == IF items[n].kind = "constant" THEN items[n].value ELSE Item(n, <<>>)
      read == IF n \notin DOMAIN items THEN Err(InvalidDataDescription)
              ELSE IF items[n].kind # "constant" /\ items[n].arity > 0
                THEN Err(InvalidDataDescription)
              ELSE Parse(format, root)
  IN  IF read.ok THEN ParseLinks(root, read.value, read.found, <<>>) ELSE read

\* Whatever calls came before, and however they ended, read_item returns what
\* the item denotes at the position it starts from: the value and the links of
\* a success, and the error of the first thing that goes wrong.
ReadItemAgrees ==
  (pc = "ready" /\ calls > 0) => result = ParseItem(name, rootScope.base)

-----------------------------------------------------------------------------
\* value is a host value of the type.
RECURSIVE Inhabits(_, _)
Inhabits(value, type) ==
  CASE type.tag # "stuck" -> FALSE
    [] \E h \in {"Int", "F32", "F64", "Pos"} : IsGlobal(type, h, 0) ->
         value.tag = "prim" /\ value.prim.kind = type.head[2]
    [] IsGlobal(type, "Array", 2) ->
         /\ value.tag = "array"
         /\ IntValue(Len(value.elems)) = type.elims[1].arg
         /\ \A i \in DOMAIN value.elems :
              Inhabits(value.elems[i], type.elims[2].arg)
    [] type.head[1] = "item" ->
         LET item == items[type.head[2]]
             decls == TryFieldDeclarations(item, type.elims)
             labels == {item.fields[i].label : i \in DOMAIN item.fields}
         IN  /\ type.elims[Len(type.elims)] = ReprElim
             /\ value.tag = "struct"
             /\ DOMAIN value.fields = labels
             /\ \A l \in labels :
                  Inhabits(value.fields[l],
                           GetFieldType(items, decls, value, l).type)
    [] OTHER -> FALSE

\* What read_format returns for a format is a value of repr(format), the type
\* the type checker gives to the fields that depend on it: the dynamic half of
\* the interpreter and the static half of semantics::repr agree, for the item
\* and for everything behind its links.
ReadValuesInhabitRepr ==
  (pc = "ready" /\ result.ok) =>
    /\ Inhabits(result.value,
                ReprOf(IF items[name].kind = "constant" THEN items[name].value
                       ELSE Item(name, <<>>)))
    /\ \A i \in DOMAIN linked :
         Inhabits(result.links[linked[i].pos], ReprOf(linked[i].format))

=============================================================================
