----------------------------- MODULE BinaryRead -----------------------------
(***************************************************************************)
(* The binary interpreter of fathom/src/lang/core/binary/read.rs: it reads *)
(* the data an item of a core module describes, and then whatever the      *)
(* links met on the way point to.                                          *)
(*                                                                         *)
(* read_struct_format and read_format call each other; here their          *)
(* activations are the frames of `stack`, the innermost last, and every    *)
(* action is what the code does between two of those calls.                *)
(***************************************************************************)
EXTENDS ReadScope, CoreTerm

CONSTANTS
  EvalTerm(_, _, _),   \* semantics::eval, of (items, locals, term)
  Modules,             \* the core modules a context is created for
  Buffers,             \* the contents of the buffer, byte sequences
  Names,               \* the item names read_item is asked for
  MaxCalls             \* bound on the calls of read_item

ASSUME BuffersAssumption ==
  Buffers \subseteq [1 .. BufferLen -> Byte]

VARIABLES
  module,      \* the module Context::new is given
  buffer,      \* the data being read
  items,       \* Context.items
  loaded,      \* how many items Context::new has evaluated
  pc,          \* where the interpreter is
  name,        \* the item the running, or the last, call was asked for
  arg,         \* at "format" the format to read, at "value" the value read
  stack,       \* the activations of read_struct_format and of array reads
  reader,      \* the FormatReader the caller lends to read_item
  rootScope,   \* root_scope
  inner,       \* inner_reader
  link,        \* the position of the link being read, None in the item itself
  pending,     \* Context.pending_links
  main,        \* parsed_value
  parsed,      \* parsed_links
  result,      \* what the last call returned
  calls,       \* number of calls so far
  linked       \* history: every link pushed by the call, in order

context == <<module, buffer, items, loaded>>
cursors == <<reader, rootScope, inner, link>>
links == <<pending, parsed, linked>>
vars == <<context, pc, name, arg, stack, cursors, links, main, result, calls>>

-----------------------------------------------------------------------------
Ok(value, parsed_links) == [ok |-> TRUE, value |-> value, links |-> parsed_links]
Err(error) == [ok |-> FALSE, error |-> error]
NoResult == Err(<<"none">>)

\* ReadError
InvalidDataDescription == <<"InvalidDataDescription">>
DuplicatePosition(offset) == <<"DuplicatePosition", offset>>
OverflowingPosition == <<"OverflowingPosition">>
Eof == <<"Eof">>

\* What is left to do of a read_struct_format, and of an array.
StructFrame(decls, locals) ==
  [k |-> "struct", rest |-> decls, locals |-> locals, fields |-> <<>>]
ArrayFrame(len, elem) == [k |-> "array", left |-> len, elem |-> elem, elems |-> <<>>]

Top == stack[Len(stack)]
Below == SubSeq(stack, 1, Len(stack) - 1)

Running == pc \in {"format", "frame", "value", "follow"}

Init ==
  /\ module \in Modules
  /\ buffer \in Buffers
  /\ items = <<>>
  /\ loaded = 0
  /\ pc = "load"
  /\ name = "" /\ arg = Error /\ main = Error /\ stack = <<>>
  /\ reader = ReaderOf(NewScope) /\ inner = reader /\ rootScope = NewScope
  /\ link = None
  /\ pending = <<>> /\ parsed = <<>> /\ linked = <<>>
  /\ result = NoResult
  /\ calls = 0

-----------------------------------------------------------------------------
\* Context::new: one iteration of its loop.  Only constants are evaluated, and
\* with the items that precede them.
EvalItem(item) ==
  CASE item.kind = "constant" -> ConstantItem(EvalTerm(items, <<>>, item.term))
    [] item.kind = "struct_type" -> StructTypeItem(Len(item.params), item.fields)
    [] item.kind = "struct_format" -> StructFormatItem(Len(item.params), item.fields)

LoadItem ==
  /\ pc = "load" /\ loaded < Len(module)
  /\ LET item == module[loaded + 1]
     IN  items' = Insert(items, item.name, EvalItem(item))
  /\ loaded' = loaded + 1
  /\ UNCHANGED <<module, buffer, pc, name, arg, stack, cursors, links, main,
                 result, calls>>

Loaded ==
  /\ pc = "load" /\ loaded = Len(module)
  /\ pc' = "ready"
  /\ UNCHANGED <<context, name, arg, stack, cursors, links, main, result, calls>>

-----------------------------------------------------------------------------
\* Mutant of Fail: the early returns forget to clear the queue.
FailLeavingLinks(error) ==
  /\ pc' = "ready" /\ result' = Err(error) /\ stack' = <<>>
  /\ UNCHANGED <<context, name, arg, pending, parsed, linked, main, calls>>

\* Every return of an error leaves no pending link behind.
Fail(error) ==
  /\ pc' = "ready"
  /\ result' = Err(error)
  /\ pending' = <<>>
  /\ stack' = <<>>
  /\ UNCHANGED <<context, name, arg, parsed, linked, main, calls>>

\* A call of read_item on r, up to the first format it reads.
StartItem(n, r) ==
  /\ pc = "ready" /\ calls < MaxCalls
  /\ calls' = calls + 1
  /\ name' = n
  /\ reader' = r
  /\ rootScope' = ScopeOf(r)
  /\ link' = None
  /\ parsed' = <<>> /\ linked' = <<>>
  /\ UNCHANGED <<context, inner, pending, main>>

\* The reader is a new one over the whole buffer, or the one the previous call
\* has moved.
CallersReader == {ReaderOf(NewScope), reader}

ReadConstant(n) ==
  /\ n \in DOMAIN items /\ items[n].kind = "constant"
  /\ \E r \in CallersReader : StartItem(n, r)
  /\ pc' = "format" /\ arg' = items[n].value
  /\ UNCHANGED <<stack, result>>

ReadStructItem(n) ==
  /\ n \in DOMAIN items /\ items[n].kind = "struct_format" /\ items[n].arity = 0
  /\ \E r \in CallersReader : StartItem(n, r)
  /\ pc' = "frame" /\ stack' = <<StructFrame(items[n].fields, <<>>)>>
  /\ UNCHANGED <<arg, result>>

ReadUnreadableItem(n) ==
  /\ n \in DOMAIN items =>
       \/ items[n].kind = "struct_type"
       \/ items[n].kind = "struct_format" /\ items[n].arity > 0
  /\ \E r \in CallersReader : StartItem(n, r)
  /\ pc' = "ready" /\ result' = Err(InvalidDataDescription)
  /\ UNCHANGED <<arg, stack>>

-----------------------------------------------------------------------------
\* read_format.  Its match is split into the shapes it tells apart.
PrimitiveOf(format) == {f \in PrimitiveFormat : IsGlobal(format, f, 0)}

IsArrayFormat(format) ==
  /\ IsGlobal(format, "FormatArray", 2)
  /\ IsInt(format.elims[1].arg)
  /\ format.elims[1].arg.prim.val \in Usize

IsLinkFormat(format) ==
  /\ IsGlobal(format, "Link", 3)
  /\ IsPos(format.elims[1].arg) /\ IsInt(format.elims[2].arg)

IsStructFormat(format) ==
  /\ format.tag = "stuck" /\ format.head[1] = "item"
  /\ format.head[2] \in DOMAIN items
  /\ items[format.head[2]].kind = "struct_format"

IsLocal(format) == format.tag = "stuck" /\ format.head[1] = "local"

IsReadable(format) ==
  \/ PrimitiveOf(format) # {}
  \/ IsArrayFormat(format)
  \/ IsGlobal(format, "CurrentPos", 0)
  \/ IsLinkFormat(format)
  \/ IsStructFormat(format)
  \/ IsLocal(format)

\* The position a link stands for, as the BigInt it is computed in.
LinkPosition(format) ==
  format.elims[1].arg.prim.val + format.elims[2].arg.prim.val

\* The arguments of a struct format can be taken from its spine: the slice
\* &elims[..arity] exists and holds function eliminations only.
HasArguments(format) ==
  LET arity == items[format.head[2]].arity
  IN  /\ arity <= Len(format.elims)
      /\ \A i \in 1 .. arity : format.elims[i].e = "app"

Arguments(format) ==
  [i \in 1 .. items[format.head[2]].arity |-> format.elims[i].arg]

\* The reader read_format has been given.
Active == IF link = None THEN reader ELSE inner

\* Mutant of MoveActive: always the caller's reader.
MoveCaller(n) ==
  reader' = Advance(reader, n) /\ UNCHANGED <<rootScope, inner, link>>

MoveActive(n) ==
  \/ /\ link = None
     /\ reader' = Advance(reader, n)
     /\ UNCHANGED <<rootScope, inner, link>>
  \/ /\ link # None
     /\ inner' = Advance(inner, n)
     /\ UNCHANGED <<reader, rootScope, link>>

\* The n bytes that read_unchecked_u8 dereferences.
BytesAt(r, n) == [i \in 1 .. n |-> buffer[r.scope.at + r.offset + i]]

PrimitiveValue(f, bytes) ==
  Primitive(IF f \in Floating THEN Float(HostOf[f], Decode(f, bytes))
            ELSE BigInt(Decode(f, bytes)))

\* read_format returns Ok(value) to whoever called it.
Return(value) ==
  /\ pc' = "value" /\ arg' = value
  /\ UNCHANGED <<context, name, parsed, main, result, calls>>

ReadPrimitive ==
  /\ pc = "format"
  /\ \E f \in PrimitiveOf(arg) :
       /\ CheckAvailable(Active, Size(f))
       /\ Return(PrimitiveValue(f, BytesAt(Active, Size(f))))
       /\ MoveActive(Size(f))
  /\ UNCHANGED <<stack, pending, linked>>

ReadEof ==
  /\ pc = "format"
  /\ \E f \in PrimitiveOf(arg) : ~CheckAvailable(Active, Size(f))
  /\ Fail(Eof)
  /\ UNCHANGED cursors

ReadArray ==
  /\ pc = "format" /\ IsArrayFormat(arg)
  /\ pc' = "frame"
  /\ stack' = Append(stack, ArrayFrame(arg.elims[1].arg.prim.val, arg.elims[2].arg))
  /\ UNCHANGED <<context, name, arg, cursors, links, main, result, calls>>

ReadCurrentPos ==
  /\ pc = "format" /\ IsGlobal(arg, "CurrentPos", 0)
  /\ CurrentPos(Active) # None
  /\ Return(PosValue(CurrentPos(Active)))
  /\ UNCHANGED <<stack, cursors, pending, linked>>

\* Mutant of ReadLink: the position is not converted to a usize.
ReadLinkUnchecked ==
  /\ pc = "format" /\ IsLinkFormat(arg)
  /\ LET pushed == [pos |-> LinkPosition(arg), format |-> arg.elims[3].arg]
     IN  pending' = Append(pending, pushed) /\ linked' = Append(linked, pushed)
  /\ Return(PosValue(LinkPosition(arg)))
  /\ UNCHANGED <<stack, cursors>>

\* The link is only remembered; what it points to is read once the item is.
ReadLink ==
  /\ pc = "format" /\ IsLinkFormat(arg)
  /\ LinkPosition(arg) \in Usize
  /\ LET pushed == [pos |-> LinkPosition(arg), format |-> arg.elims[3].arg]
     IN  pending' = Append(pending, pushed) /\ linked' = Append(linked, pushed)
  /\ Return(PosValue(LinkPosition(arg)))
  /\ UNCHANGED <<stack, cursors>>

PositionOverflows(format) ==
  \/ IsGlobal(format, "CurrentPos", 0) /\ CurrentPos(Active) = None
  \/ IsLinkFormat(format) /\ LinkPosition(format) \notin Usize

ReadOverflows ==
  /\ pc = "format" /\ PositionOverflows(arg)
  /\ Fail(OverflowingPosition)
  /\ UNCHANGED cursors

ReadStructFormat ==
  /\ pc = "format" /\ IsStructFormat(arg) /\ HasArguments(arg)
  /\ pc' = "frame"
  /\ stack' = Append(stack, StructFrame(items[arg.head[2]].fields, Arguments(arg)))
  /\ UNCHANGED <<context, name, arg, cursors, links, main, result, calls>>

\* A format read_format has no case for, such as an Error or a type.
ReadInvalid ==
  /\ pc = "format" /\ ~IsReadable(arg)
  /\ Fail(InvalidDataDescription)
  /\ UNCHANGED cursors

\* &elims[..arity] is out of bounds, an elimination is not an application, or
\* the level of a local is unwrapped in Context.locals, which is always empty.
ReadPanics ==
  /\ pc = "format"
  /\ IsLocal(arg) \/ (IsStructFormat(arg) /\ ~HasArguments(arg))
  /\ pc' = "panicked"
  /\ UNCHANGED <<context, name, arg, stack, cursors, links, main, result, calls>>

-----------------------------------------------------------------------------
\* read_struct_format: the format of the next field is evaluated with the
\* values of the arguments and of the fields before it.
StructField ==
  /\ pc = "frame" /\ Top.k = "struct" /\ Top.rest # <<>>
  /\ pc' = "format"
  /\ arg' = EvalTerm(items, Top.locals, Head(Top.rest).type)
  /\ UNCHANGED <<context, name, stack, cursors, links, main, result, calls>>

\* Mutant of FieldRead: the locals in the wrong order.
FieldReadInFront ==
  /\ pc = "value" /\ stack # <<>> /\ Top.k = "struct"
  /\ pc' = "frame"
  /\ stack' = Append(Below,
       [Top EXCEPT !.rest = Tail(@),
                   !.locals = <<arg>> \o @,
                   !.fields = Insert(@, Head(Top.rest).label, arg)])
  /\ UNCHANGED <<context, name, arg, cursors, links, main, result, calls>>

FieldRead ==
  /\ pc = "value" /\ stack # <<>> /\ Top.k = "struct"
  /\ pc' = "frame"
  /\ stack' = Append(Below,
       [Top EXCEPT !.rest = Tail(@),
                   !.locals = Append(@, arg),
                   !.fields = Insert(@, Head(Top.rest).label, arg)])
  /\ UNCHANGED <<context, name, arg, cursors, links, main, result, calls>>

StructDone ==
  /\ pc = "frame" /\ Top.k = "struct" /\ Top.rest = <<>>
  /\ Return(StructTerm(Top.fields))
  /\ stack' = Below
  /\ UNCHANGED <<cursors, pending, linked>>

\* The collect of the FormatArray case.
ArrayElem ==
  /\ pc = "frame" /\ Top.k = "array" /\ Top.left > 0
  /\ pc' = "format"
  /\ arg' = Top.elem
  /\ UNCHANGED <<context, name, stack, cursors, links, main, result, calls>>

\* Mutant of ElemRead: the element is dropped and not counted.
ElemForgotten ==
  /\ pc = "value" /\ stack # <<>> /\ Top.k = "array"
  /\ pc' = "frame"
  /\ UNCHANGED <<context, name, arg, stack, cursors, links, main, result, calls>>

ElemRead ==
  /\ pc = "value" /\ stack # <<>> /\ Top.k = "array"
  /\ pc' = "frame"
  /\ stack' = Append(Below,
       [Top EXCEPT !.left = @ - 1, !.elems = Append(@, arg)])
  /\ UNCHANGED <<context, name, arg, cursors, links, main, result, calls>>

\* Mutant of ArrayDone: one element short.
ArrayDoneEarly ==
  /\ pc = "frame" /\ Top.k = "array" /\ Top.left <= 1
  /\ Return(ArrayTerm(Top.elems))
  /\ stack' = Below
  /\ UNCHANGED <<cursors, pending, linked>>

ArrayDone ==
  /\ pc = "frame" /\ Top.k = "array" /\ Top.left = 0
  /\ Return(ArrayTerm(Top.elems))
  /\ stack' = Below
  /\ UNCHANGED <<cursors, pending, linked>>

-----------------------------------------------------------------------------
\* read_item has the value of the item itself.
FinishMain ==
  /\ pc = "value" /\ stack = <<>> /\ link = None
  /\ main' = arg
  /\ pc' = "follow"
  /\ UNCHANGED <<context, name, arg, stack, cursors, links, result, calls>>

\* Mutants of FollowLink: the link is followed from the reader, not the root; it
\* is followed whether its position was parsed already or not.
FollowLinkFromReader ==
  /\ pc = "follow" /\ pending # <<>>
  /\ Head(pending).pos \notin DOMAIN parsed
  /\ link' = Head(pending).pos
  /\ inner' = ReaderOf(OffsetScope(ScopeOf(reader), Head(pending).pos))
  /\ pending' = Tail(pending)
  /\ pc' = "format" /\ arg' = Head(pending).format
  /\ UNCHANGED <<context, name, stack, reader, rootScope, parsed, linked, main,
                 result, calls>>

FollowLinkAgain ==
  /\ pc = "follow" /\ pending # <<>>
  /\ link' = Head(pending).pos
  /\ inner' = ReaderOf(OffsetScope(rootScope, Head(pending).pos))
  /\ pending' = Tail(pending)
  /\ pc' = "format" /\ arg' = Head(pending).format
  /\ UNCHANGED <<context, name, stack, reader, rootScope, parsed, linked, main,
                 result, calls>>

\* The loop over pending_links.  Whether the overflow in root_scope.offset
\* panics or wraps depends on the build.
FollowLink ==
  /\ pc = "follow" /\ pending # <<>>
  /\ Head(pending).pos \notin DOMAIN parsed
  /\ link' = Head(pending).pos
  /\ inner' = ReaderOf(OffsetScope(rootScope, Head(pending).pos))
  /\ pending' = Tail(pending)
  /\ pc' = "format" /\ arg' = Head(pending).format
  /\ UNCHANGED <<context, name, stack, reader, rootScope, parsed, linked, main,
                 result, calls>>

FollowPanics ==
  /\ pc = "follow" /\ pending # <<>>
  /\ Head(pending).pos \notin DOMAIN parsed
  /\ OffsetOverflows(rootScope, Head(pending).pos)
  /\ pc' = "panicked"
  /\ UNCHANGED <<context, name, arg, stack, cursors, links, main, result, calls>>

FollowDuplicate ==
  /\ pc = "follow" /\ pending # <<>>
  /\ Head(pending).pos \in DOMAIN parsed
  /\ Fail(DuplicatePosition(Head(pending).pos))
  /\ UNCHANGED cursors

LinkRead ==
  /\ pc = "value" /\ stack = <<>> /\ link # None
  /\ parsed' = Insert(parsed, link, arg)
  /\ link' = None
  /\ pc' = "follow"
  /\ UNCHANGED <<context, name, arg, stack, reader, rootScope, inner, pending,
                 linked, main, result, calls>>

FinishItem ==
  /\ pc = "follow" /\ pending = <<>>
  /\ result' = Ok(main, parsed)
  /\ pc' = "ready"
  /\ UNCHANGED <<context, name, arg, stack, cursors, links, main, calls>>

-----------------------------------------------------------------------------
ReadFormat ==
  \/ ReadPrimitive \/ ReadEof \/ ReadArray \/ ReadCurrentPos \/ ReadLink
  \/ ReadOverflows \/ ReadStructFormat \/ ReadInvalid \/ ReadPanics
  \/ StructField \/ FieldRead \/ StructDone
  \/ ArrayElem \/ ElemRead \/ ArrayDone

Follow ==
  \/ FinishMain \/ FollowLink \/ FollowPanics \/ FollowDuplicate
  \/ LinkRead \/ FinishItem

Call(n) == ReadConstant(n) \/ ReadStructItem(n) \/ ReadUnreadableItem(n)

Next ==
  \/ LoadItem \/ Loaded
  \/ \E n \in Names : Call(n)
  \/ ReadFormat
  \/ Follow

\* The interpreter is one thread that runs each call to its end; when, and
\* whether, it is called is up to the client.
Fairness == WF_vars(LoadItem \/ Loaded \/ ReadFormat \/ Follow)

Spec == Init /\ [][Next]_vars /\ Fairness

-----------------------------------------------------------------------------
\* The readers and scopes are values the Rust types allow, positions are
\* usizes, and a call in progress is at a place the code has.
TypeOK ==
  /\ pc \in {"load", "ready", "format", "frame", "value", "follow", "panicked"}
  /\ reader \in FormatReader /\ inner \in FormatReader
  /\ rootScope \in Scope
  /\ link \in Usize \cup {None}
  /\ \A i \in DOMAIN pending : pending[i].pos \in Usize
  /\ DOMAIN parsed \subseteq Usize

\* The postcondition of read_item (#[debug_ensures(self.pending_links
\* .is_empty())]): whichever way a call ends, the next one starts without the
\* links of this one.
NoPendingBetweenCalls == pc \in {"load", "ready"} => pending = <<>>

\* How many of the links pushed by the call have been taken off the queue.
followed == Len(linked) - Len(pending)
Followed == {linked[i].pos : i \in 1 .. followed}

\* No link is lost, invented, reordered or followed twice while a call runs:
\* the queue is the tail of what was pushed, and what was taken off it has been
\* read or is being read.
LinkConservation ==
  Running =>
    /\ followed \in 0 .. Len(linked)
    /\ \A i \in DOMAIN pending : pending[i] = linked[followed + i]
    /\ Followed = DOMAIN parsed \cup ({link} \ {None})
    /\ link \notin DOMAIN parsed
    /\ \A i, j \in 1 .. followed : linked[i].pos = linked[j].pos => i = j

\* A successful read_item has followed every link its formats produced, the
\* links found behind links included, and no two of them share a position.
LinksFollowed ==
  (pc = "ready" /\ result.ok) =>
    /\ DOMAIN result.links = {linked[i].pos : i \in DOMAIN linked}
    /\ \A i, j \in DOMAIN linked : linked[i].pos = linked[j].pos => i = j

\* A read_item that fails with DuplicatePosition has met two links to that
\* position; the formats of the two need not agree, nor the first be at fault.
DuplicatesAreReal ==
  (pc = "ready" /\ ~result.ok /\ result.error[1] = "DuplicatePosition") =>
    \E i, j \in DOMAIN linked :
      /\ i < j
      /\ linked[i].pos = result.error[2] /\ linked[j].pos = result.error[2]

\* The bytes of a link are those at its position, counted from where the item
\* itself begins: the root scope, which is a suffix of the buffer, is offset by
\* the position, and an overflowing offset leaves nothing to read.
LinksReadFromRoot ==
  (link # None /\ inner.scope.len > 0) => inner.scope.at = rootScope.at + link

\* What the documentation of links promises of every call: the bytes of a link
\* are those at the position it evaluates to, which is also the position that
\* CurrentPos counts in.  This does not hold: positions are absolute, but
\* read_item counts them from the position its reader starts at, so it holds
\* only of a reader at position 0.
LinksReadAtTheirPosition ==
  (link # None /\ inner.scope.len > 0) => inner.scope.at = link

\* A description that cannot be read is reported as InvalidDataDescription,
\* never by a panic.  This does not hold of a parameterised struct format that
\* a constant names without its arguments.
NeverPanics == pc # "panicked"

\* Both readers stay aligned with the buffer, so whatever formats the data
\* selects, no read leaves the buffer or comes from another position than the
\* one CurrentPos reports.
ReadersAligned ==
  ReaderAligned(reader) /\ ReaderAligned(inner) /\ ScopeAligned(rootScope)

\* The None branch of the CurrentPos case (OverflowingPosition) is dead code.
PositionsExist == CurrentPos(reader) # None /\ CurrentPos(inner) # None

\* The readers of a call, all three ways: aligned with the buffer, at positions
\* that exist, and for a link in the root scope.
ReaderDiscipline == ReadersAligned /\ PositionsExist /\ LinksReadFromRoot

\* The links of a call and of the next: none is left over when read_item returns,
\* lost or followed twice while it runs, unread when it succeeds, or called a
\* duplicate without being one.
LinkDiscipline ==
  NoPendingBetweenCalls /\ LinkConservation /\ LinksFollowed /\ DuplicatesAreReal

\* Following links never moves the reader the caller has lent, nor the scope
\* positions are counted from.
LinksLeaveReader ==
  [][link # None /\ pc # "ready" => UNCHANGED <<reader, rootScope>>]_vars

\* Every call of read_item comes back (or panics), as does Context::new.
EveryCallReturns == Running ~> ~Running

-----------------------------------------------------------------------------
(* The interpreter implements LinkTraversal: its queue, which decides the  *)
(* order, the parsed links and the link being read become a set of         *)
(* positions met and a set of positions visited.                           *)

CallStatus ==
  IF pc = "load" THEN "idle"
  ELSE IF Running THEN "running"
  ELSE IF pc = "panicked" THEN "panicked"
  ELSE IF result = NoResult THEN "idle"
  ELSE IF result.ok THEN "ok"
  ELSE IF result.error[1] = "DuplicatePosition" THEN "duplicate"
  ELSE "failed"

Met == {linked[i].pos : i \in DOMAIN linked}
MetTwice ==
  {p \in Met : \E i, j \in DOMAIN linked : i # j /\ linked[i].pos = p /\ linked[j].pos = p}
Visited == DOMAIN parsed \cup ({link} \ {None})

Traversal ==
  INSTANCE LinkTraversal WITH
    Positions <- Usize, status <- CallStatus, met <- Met, twice <- MetTwice, visited <- Visited

\* Every step of the interpreter is a step of the traversal or none: a queue
\* that is filled while it is drained visits every position met, the ones met
\* behind links included, exactly once, and a call that comes back with a value
\* has met none of them twice.
LinksAreTraversed == Traversal!Spec

=============================================================================
