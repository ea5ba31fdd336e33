---------------------------- MODULE OffsetQueue ----------------------------
(***************************************************************************)
(* parse_module of experiments/rust-prototype-v2/src/semantics/parser.rs:  *)
(* the root of a module is parsed at the start of the file, and what its   *)
(* parser queues, an offset into the file and the type of what is there,   *)
(* is parsed until the queue is empty.                                     *)
(*                                                                         *)
(* What a type at a position parses to is the recursion of parse_term.  It *)
(* is a parameter here; OffsetParser has its definition.  Every result has *)
(* in `pushed` what the parser has pushed on the queue, which is all that  *)
(* a parser does with it.                                                  *)
(***************************************************************************)
EXTENDS Naturals, SequencesExt

CONSTANTS
  ParseAt(_, _, _),      \* parse_term: of an environment, a type and a position
  ParseRootItem(_, _),   \* the root's definition, of an environment and it
  Modules,               \* the modules to parse with: sequences of items
  Files                  \* the files to parse: sequences of bytes

VARIABLES
  module,      \* the module
  file,        \* the file
  at,          \* number of items behind us
  context,     \* Context::definitions, by label
  phase,       \* "items", "follow", "ok", "error" or "panic"
  error,       \* the ParseError
  pending,     \* the stack of offsets still to parse: pairs of a position and a type
  parsed_values,
  parsed_tys

offsetVars == <<module, file, at, context, phase, error, pending, parsed_values, parsed_tys>>

\* What a parser borrows besides the queue.
Env == [context |-> context, bytes |-> file]

OffsetInit ==
  /\ module \in Modules /\ file \in Files
  /\ at = 0 /\ context = <<>> /\ phase = "items" /\ error = ""
  /\ pending = <<>> /\ parsed_values = <<>> /\ parsed_tys = <<>>

-----------------------------------------------------------------------------
\* HashMap::insert
Inserted(map, key, value) ==
  [k \in DOMAIN map \cup {key} |-> IF k = key THEN value ELSE map[k]]

\* parse_module, up to the root: the definitions before it enter the context.
Root == "Root"
current == module[at + 1]

InsertDefinition ==
  /\ phase = "items" /\ at < Len(module) /\ current.label # Root
  /\ context' = Inserted(context, current.label, current.def)
  /\ at' = at + 1
  /\ UNCHANGED <<module, file, phase, error, pending, parsed_values, parsed_tys>>

Fail(e) == phase' = "error" /\ error' = e

MissingRoot ==
  /\ phase = "items" /\ at = Len(module)
  /\ Fail("MissingRoot")
  /\ UNCHANGED <<module, file, at, context, pending, parsed_values, parsed_tys>>

\* The root definition, at the start of the file.
RootResult == ParseRootItem(Env, current.def)

ParseRoot ==
  /\ phase = "items" /\ at < Len(module) /\ current.label = Root
  /\ IF RootResult.ok
       THEN /\ phase' = "follow" /\ pending' = RootResult.pushed
            /\ parsed_values' = Inserted(<<>>, 0, RootResult.value)
            /\ UNCHANGED error
       ELSE Fail(RootResult.error) /\ UNCHANGED <<pending, parsed_values>>
  /\ UNCHANGED <<module, file, at, context, parsed_tys>>

\* One turn of the loop.  The type of the root was never recorded: `expect`
\* fails if something points to position 0.
Top == pending[Len(pending)]
ResultAt(ref) == ParseAt(Env, ref[2], ref[1])

\* Mutant of FollowOffset: what was parsed already is parsed, and queues its own
\* offsets, again.
FollowOffsetAgain(pos, ty, rest) ==
  LET r == ResultAt(<<pos, ty>>)
  IN  IF r.ok /\ (pos \notin DOMAIN parsed_values \/ (pos \in DOMAIN parsed_tys /\ parsed_tys[pos] = ty))
        THEN /\ pending' = rest \o r.pushed
             /\ parsed_values' = Inserted(parsed_values, pos, r.value)
             /\ parsed_tys' = Inserted(parsed_tys, pos, ty)
             /\ UNCHANGED <<phase, error>>
      ELSE Fail("error") /\ UNCHANGED <<pending, parsed_values, parsed_tys>>

\* Mutant of FollowOffset: types are not compared.
FollowOffsetOfAnyType(pos, ty, rest) ==
  LET r == ResultAt(<<pos, ty>>)
  IN  IF pos \notin DOMAIN parsed_values /\ r.ok
        THEN /\ pending' = rest \o r.pushed
             /\ parsed_values' = Inserted(parsed_values, pos, r.value)
             /\ parsed_tys' = Inserted(parsed_tys, pos, ty)
             /\ UNCHANGED <<phase, error>>
      ELSE /\ UNCHANGED <<parsed_values, parsed_tys>>
           /\ IF pos \notin DOMAIN parsed_values THEN Fail(r.error) /\ UNCHANGED pending
              ELSE IF pos \notin DOMAIN parsed_tys
                THEN phase' = "panic" /\ UNCHANGED <<error, pending>>
              ELSE pending' = rest /\ UNCHANGED <<phase, error>>

FollowOffset(pos, ty, rest) ==
  LET r == ResultAt(<<pos, ty>>)
  IN  IF pos \notin DOMAIN parsed_values /\ r.ok
        THEN /\ pending' = rest \o r.pushed
             /\ parsed_values' = Inserted(parsed_values, pos, r.value)
             /\ parsed_tys' = Inserted(parsed_tys, pos, ty)
             /\ UNCHANGED <<phase, error>>
      ELSE /\ UNCHANGED <<parsed_values, parsed_tys>>
           /\ IF pos \notin DOMAIN parsed_values THEN Fail(r.error) /\ UNCHANGED pending
              ELSE IF pos \notin DOMAIN parsed_tys
                THEN phase' = "panic" /\ UNCHANGED <<error, pending>>
              ELSE IF parsed_tys[pos] # ty
                THEN Fail("OffsetPointedToDifferentTypes") /\ UNCHANGED pending
              ELSE pending' = rest /\ UNCHANGED <<phase, error>>

Follow ==
  /\ phase = "follow" /\ pending # <<>>
  /\ FollowOffset(Top[1], Top[2], Front(pending))
  /\ UNCHANGED <<module, file, at, context>>

Finish ==
  /\ phase = "follow" /\ pending = <<>>
  /\ phase' = "ok"
  /\ UNCHANGED <<module, file, at, context, error, pending, parsed_values, parsed_tys>>

OffsetNext == InsertDefinition \/ MissingRoot \/ ParseRoot \/ Follow \/ Finish

OffsetSpec == OffsetInit /\ [][OffsetNext]_offsetVars

-----------------------------------------------------------------------------
\* What a parser has pushed is a list of pairs.
PushesList(r) ==
  r.ok => /\ r.pushed \in Seq(Range(r.pushed))
          /\ \A ref \in Range(r.pushed) : ref = <<ref[1], ref[2]>>

\* The parsers of the next step push lists.
PushesAreLists ==
  /\ phase = "items" /\ at < Len(module) => (current.label = Root => PushesList(RootResult))
  /\ phase = "follow" /\ pending # <<>> => PushesList(ResultAt(Top))

\* What a result, and what the root, refers to.
RefsOf(r) == IF r.ok THEN Range(r.pushed) ELSE {}
RootRefs == RefsOf(RootResult)

\* The references the loop has followed, and those it knows of.
Followed == {<<pos, parsed_tys[pos]>> : pos \in DOMAIN parsed_tys}
Known == Followed \cup Range(pending)

\* A set of references with everything the root and its members refer to.
IsClosed(refs) == RootRefs \subseteq refs /\ \A ref \in refs : RefsOf(ResultAt(ref)) \subseteq refs

\* Every one of them is referred to, by the root or by another that is: no less
\* is closed among them.
AreReferredTo(refs) ==
  \A few \in SUBSET refs :
    /\ RootRefs \cap refs \subseteq few
    /\ \A ref \in few : RefsOf(ResultAt(ref)) \cap refs \subseteq few
    => few = refs

\* The outcome of parse_module is that of the set of references in the file, the
\* smallest closed one, and not of the order in which the stack happens to follow
\* them.  Success has parsed exactly these, each with the type and value it is
\* referred to with; an error has one of them that cannot be parsed, or two that
\* disagree about a position; a panic has one to the root.
OutcomeIsOfReferences ==
  /\ parsed_values # <<>> => AreReferredTo(Known)
  /\ phase = "ok" =>
       /\ IsClosed(Followed)
       /\ DOMAIN parsed_values = DOMAIN parsed_tys \cup {0}
       /\ \A ref \in Followed : ResultAt(ref).ok /\ parsed_values[ref[1]] = ResultAt(ref).value
  /\ phase = "error" /\ parsed_values # <<>> =>
       \/ \E ref \in Known : ~ResultAt(ref).ok /\ ResultAt(ref).error = error
       \/ /\ error = "OffsetPointedToDifferentTypes"
          /\ \E r1, r2 \in Known : r1[1] = r2[1] /\ r1[2] # r2[2]
  /\ phase = "panic" => \E ref \in Known : ref[1] = 0

\* The loop ends although it adds to what it works off: every turn parses at a
\* position nothing was parsed at, of which the file has only so many, or leaves
\* fewer offsets to follow.  This is what the values parsed so far are kept for.
EveryTurnProgresses ==
  [][phase = "follow" /\ phase' = "follow" =>
       \/ DOMAIN parsed_values # DOMAIN parsed_values'
       \/ Len(pending') < Len(pending)]_offsetVars

=============================================================================
