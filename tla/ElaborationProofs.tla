------------------------- MODULE ElaborationProofs -------------------------
(***************************************************************************)
(* The stages around the elaborator, for all surface modules and whatever  *)
(* the judgements about terms return: the environments of the elaborator   *)
(* and of the validator go in step, and a core module has one item per     *)
(* name.                                                                   *)
(***************************************************************************)
EXTENDS ElaborationRoundTrip, DataInduction

-----------------------------------------------------------------------------
(* Sequences of any elements. *)

\* A sequence over some set is a sequence over its range.
LEMMA SeqIsSequence ==
  ASSUME NEW S, NEW s \in Seq(S)
  PROVE  IsSequence(s) /\ DOMAIN s = 1..Len(s) /\ Len(s) \in Nat
<1>1. DOMAIN s = 1..Len(s) /\ Len(s) \in Nat /\ s = [i \in 1..Len(s) |-> s[i]]
  OBVIOUS
<1>2. s \in [1..Len(s) -> Range(s)]
  BY <1>1 DEF Range
<1> QED BY <1>1, <1>2, SegmentIsSeq DEF IsSequence

\* What IsSequence says of length and domain.
LEMMA SequenceDomain ==
  ASSUME NEW s, IsSequence(s)
  PROVE  DOMAIN s = 1..Len(s) /\ Len(s) \in Nat /\ (Len(s) = 0 => s = <<>>)
<1>1. s \in Seq(Range(s))
  BY DEF IsSequence
<1> HIDE DEF IsSequence
<1> QED BY <1>1

\* A function on 1..n is a sequence of length n.
LEMMA SegmentIsSequence ==
  ASSUME NEW n \in Nat, NEW f, f = [i \in 1..n |-> f[i]]
  PROVE  IsSequence(f) /\ Len(f) = n
<1>1. f \in [1..n -> Range(f)]
  BY DEF Range
<1> QED BY <1>1, SegmentIsSeq DEF IsSequence

\* The empty sequence.
LEMMA EmptyIsSequence == IsSequence(<<>>) /\ Len(<<>>) = 0 /\ DOMAIN <<>> = {}
<1>1. <<>> \in Seq({}) /\ Len(<<>>) = 0 /\ DOMAIN <<>> = {}
  OBVIOUS
<1> QED BY <1>1, SeqIsSequence

\* A sequence stays one over a larger set.
LEMMA SequenceOver ==
  ASSUME NEW s, IsSequence(s), NEW S, Range(s) \subseteq S
  PROVE  s \in Seq(S)
<1>1. s \in Seq(Range(s))
  BY DEF IsSequence
<1>2. s \in [1..Len(s) -> Range(s)] /\ Len(s) \in Nat
  <2> DEFINE R == Range(s)
  <2>1. s \in Seq(R)
    BY <1>1
  <2> HIDE DEF R
  <2>2. s \in [1..Len(s) -> R] /\ Len(s) \in Nat
    BY <2>1
  <2> QED BY <2>2 DEF R
<1>3. s \in [1..Len(s) -> S]
  BY <1>2
<1> QED BY <1>2, <1>3, SegmentIsSeq

\* One more element.
LEMMA AppendIsSequence ==
  ASSUME NEW s, IsSequence(s), NEW x
  PROVE  /\ IsSequence(Append(s, x)) /\ Len(Append(s, x)) = Len(s) + 1
         /\ DOMAIN Append(s, x) = 1..(Len(s) + 1)
         /\ \A i \in 1..Len(s) : Append(s, x)[i] = s[i]
         /\ Append(s, x)[Len(s) + 1] = x
<1> DEFINE S == Range(s) \cup {x}
<1>1. s \in Seq(S) /\ x \in S
  BY SequenceOver
<1> HIDE DEF S
<1>2. /\ Append(s, x) \in Seq(S) /\ Len(Append(s, x)) = Len(s) + 1 /\ Len(s) \in Nat
      /\ \A i \in 1..Len(s) : Append(s, x)[i] = s[i]
      /\ Append(s, x)[Len(s) + 1] = x
  BY <1>1
<1>3. IsSequence(Append(s, x)) /\ DOMAIN Append(s, x) = 1..Len(Append(s, x))
  BY <1>2, SeqIsSequence
<1> QED BY <1>2, <1>3

\* Two sequences, one behind the other.
LEMMA ConcatIsSequence ==
  ASSUME NEW s, IsSequence(s), NEW t, IsSequence(t)
  PROVE  IsSequence(s \o t) /\ Len(s \o t) = Len(s) + Len(t)
<1> DEFINE S == Range(s) \cup Range(t)
<1>1. s \in Seq(S) /\ t \in Seq(S)
  BY SequenceOver
<1> HIDE DEF S
<1>2. s \o t \in Seq(S) /\ Len(s \o t) = Len(s) + Len(t)
  BY <1>1
<1> QED BY <1>2, SeqIsSequence

\* Truncation to nothing.
LEMMA TruncatedToNothing ==
  ASSUME NEW s, IsSequence(s)
  PROVE  SubSeq(s, 1, 0) = <<>>
<1>1. s \in Seq(Range(s))
  BY DEF IsSequence
<1> DEFINE R == Range(s)
<1>2. s \in Seq(R)
  BY <1>1
<1> HIDE DEF R
<1>3. SubSeq(s, 1, 0) \in Seq(R) /\ Len(SubSeq(s, 1, 0)) = 0
  BY <1>2
<1> QED BY <1>3

-----------------------------------------------------------------------------
(* The inductive invariant. *)

\* Fields with labels of their own.
DistinctLabels(fs) ==
  /\ \A j \in DOMAIN fs : fs[j].label \in DOMAIN NameOrder
  /\ \A j, k \in DOMAIN fs : fs[j].label = fs[k].label => j = k

\* What a core item looks like.
IsCoreItem(c) ==
  /\ c.kind \in {"constant", "struct_type", "struct_format"}
  /\ c.kind # "constant" =>
       IsSequence(c.params) /\ IsSequence(c.fields) /\ DistinctLabels(c.fields)

\* The modules, and where a stage is in them.
Places ==
  /\ stage \in {"elaborate", "validate", "again"}
  /\ IF stage = "validate" THEN phase \in {"item", "fields", "done"}
     ELSE phase \in {"item", "struct_type", "struct_format", "done"}
  /\ at \in Nat
  /\ IsSurfaceModule(surface)
  /\ IsSequence(params) /\ IsSequence(fields)
  /\ phase \notin {"item", "done"} => initial = 0

\* The environments of locals.
Environments ==
  /\ IsSequence(locals) /\ IsSequence(types) /\ IsSequence(names)
  /\ Len(types) = Len(locals)
  /\ IF stage = "validate" THEN names = <<>> ELSE Len(names) = Len(locals)
  /\ phase \in {"item", "done"} => locals = <<>> /\ names = <<>>

\* The tables of items: the elaborator has a definition for the name of every
\* core item and for no other.
Tables ==
  /\ DOMAIN items = DOMAIN decls
  /\ phase = "done" => items = <<>>
  /\ IsSequence(core)
  /\ \A i \in DOMAIN core : IsCoreItem(core[i])
  /\ \A i, j \in DOMAIN core : core[i].name = core[j].name => i = j
  /\ (stage # "validate" /\ phase # "done") =>
       DOMAIN items = {core[i].name : i \in DOMAIN core}

\* The struct the elaborator is in: the labels seen are those of the fields
\* behind it, and the core fields made so far have different ones of these.
Fields ==
  (stage # "validate" /\ phase \notin {"item", "done"}) =>
    /\ at < Len(surface) /\ E!current.kind = "struct"
    /\ field \in 0..Len(E!current.fields)
    /\ seen = {E!current.fields[j].name : j \in 1..field}
    /\ DistinctLabels(fields)
    /\ \A j \in DOMAIN fields : NameOrder[fields[j].label] \in seen

StagesInv == Places /\ Environments /\ Tables /\ Fields

\* The context is new.
LEMMA StagesInit == Init => StagesInv
<1> SUFFICES ASSUME Init PROVE StagesInv
  OBVIOUS
<1>1. Places
  BY SurfaceAssumption, EmptyIsSequence DEF Init, E!Init, E!NewContext, Places
<1>2. Environments
  BY EmptyIsSequence DEF Init, E!Init, E!NewContext, Environments
<1>3. Tables
  <2>1. items = <<>> /\ decls = <<>> /\ core = <<>> /\ stage = "elaborate" /\ phase = "item"
    BY DEF Init, E!Init, E!NewContext
  <2> QED BY <2>1, EmptyIsSequence DEF Tables
<1>4. Fields
  BY DEF Init, E!Init, E!NewContext, Fields
<1> QED BY <1>1, <1>2, <1>3, <1>4 DEF StagesInv

-----------------------------------------------------------------------------
(* The steps of the elaborator. *)

\* What the end of the loop body does to the tables, by cases.
ItemKept(c) ==
  \/ UNCHANGED <<core, items, decls>>
  \/ /\ c.name \notin DOMAIN items
     /\ core' = Append(core, c)
     /\ DOMAIN items' = DOMAIN items \cup {c.name}
     /\ DOMAIN decls' = DOMAIN decls \cup {c.name}

\* Only the first item of a name is kept.
LEMMA TablesGrow ==
  ASSUME Tables, stage # "validate", UNCHANGED stage, phase # "done", phase' # "done",
         NEW c, IsCoreItem(c), ItemKept(c)
  PROVE  Tables'
<1>1. CASE UNCHANGED <<core, items, decls>>
  <2>1. core' = core /\ items' = items /\ decls' = decls
    BY <1>1
  <2> QED BY <2>1 DEF Tables
<1>2. CASE ~UNCHANGED <<core, items, decls>>
  <2>1. /\ c.name \notin DOMAIN items
        /\ core' = Append(core, c)
        /\ DOMAIN items' = DOMAIN items \cup {c.name}
        /\ DOMAIN decls' = DOMAIN decls \cup {c.name}
    BY <1>2 DEF ItemKept
  <2> DEFINE n == Len(core)
  <2>2. /\ IsSequence(core) /\ DOMAIN core = 1..n /\ n \in Nat
        /\ DOMAIN items = {core[i].name : i \in DOMAIN core} /\ DOMAIN items = DOMAIN decls
        /\ \A i \in DOMAIN core : IsCoreItem(core[i])
        /\ \A i, j \in DOMAIN core : core[i].name = core[j].name => i = j
    BY SequenceDomain DEF Tables
  <2>3. /\ IsSequence(core') /\ DOMAIN core' = 1..(n + 1)
        /\ \A i \in 1..n : core'[i] = core[i]
        /\ core'[n + 1] = c
    BY <2>1, <2>2, AppendIsSequence
  <2> HIDE DEF n
  <2>4. \A i \in DOMAIN core' : \/ i \in DOMAIN core /\ core'[i] = core[i]
                                \/ i = n + 1 /\ core'[i] = c
    BY <2>2, <2>3
  <2>5. \A i \in DOMAIN core' : IsCoreItem(core'[i])
    BY <2>2, <2>4
  <2>6. DOMAIN items' = {core'[i].name : i \in DOMAIN core'}
    <3>1. DOMAIN core \subseteq DOMAIN core' /\ n + 1 \in DOMAIN core'
      BY <2>2, <2>3
    <3>2. \A i \in DOMAIN core : core'[i].name = core[i].name
      BY <2>2, <2>3
    <3>3. ASSUME NEW x \in DOMAIN items' PROVE \E i \in DOMAIN core' : x = core'[i].name
      <4>1. CASE x = c.name
        BY <2>3, <3>1, <4>1
      <4>2. CASE x \in DOMAIN items
        BY <2>2, <3>1, <3>2, <4>2
      <4> QED BY <2>1, <4>1, <4>2
    <3>4. ASSUME NEW i \in DOMAIN core' PROVE core'[i].name \in DOMAIN items'
      BY <2>1, <2>2, <2>4
    <3> QED BY <3>3, <3>4
  <2>7. ASSUME NEW i \in DOMAIN core', NEW j \in DOMAIN core', core'[i].name = core'[j].name
        PROVE  i = j
    <3>1. CASE i \in DOMAIN core /\ j \in DOMAIN core
      BY <2>2, <2>3, <2>7, <3>1
    <3>2. CASE i \in DOMAIN core /\ j = n + 1
      BY <2>1, <2>2, <2>3, <2>7, <3>2
    <3>3. CASE i = n + 1 /\ j \in DOMAIN core
      BY <2>1, <2>2, <2>3, <2>7, <3>3
    <3> QED BY <2>4, <3>1, <3>2, <3>3
  <2> QED BY <2>1, <2>2, <2>3, <2>5, <2>6, <2>7 DEF Tables
<1> QED BY <1>1, <1>2

\* The end of the loop body of the elaborator.
LEMMA DefineKeeps ==
  ASSUME NEW c, NEW def, NEW type, NEW pushed, E!Define(c, def, type, pushed)
  PROVE  ItemKept(c) /\ at' = at + 1 /\ phase' = "item"
<1>1. CASE c.name \in DOMAIN items
  BY <1>1 DEF E!Define, ItemKept
<1>2. CASE c.name \notin DOMAIN items
  BY <1>2 DEF E!Define, ItemKept, E!Insert
<1> QED BY <1>1, <1>2

\* The tables do not change, and the stage goes on.
LEMMA TablesStay ==
  ASSUME Tables, UNCHANGED <<core, items, decls, stage>>, phase # "done", phase' # "done"
  PROVE  Tables'
BY DEF Tables

\* A constant is elaborated at an item, and leaves no local.
LEMMA ElaborateConstantInv ==
  ASSUME StagesInv, stage # "validate", UNCHANGED stage, E!ElaborateConstant
  PROVE  StagesInv'
<1> DEFINE e == IF E!current.type = E!NoType THEN SynthTerm(E!Context, E!current.term)
                ELSE ElaborateAnnotated(E!Context, E!current.term, E!current.type)
           c == [name |-> E!current.name, kind |-> "constant", term |-> e.term]
<1>1. /\ phase = "item"
      /\ UNCHANGED <<surface, field, initial, params, fields, locals, types, names>>
  BY DEF E!ElaborateConstant
<1>2. ItemKept(c) /\ at' = at + 1 /\ phase' = "item"
  <2>1. E!Define(c, E!ConstantItem(EvalTerm(items, locals, e.term)), e.type, e.messages)
    BY Zenon DEF E!ElaborateConstant
  <2> HIDE DEF c, e
  <2> QED BY <2>1, DefineKeeps
<1>3. IsCoreItem(c)
  BY DEF IsCoreItem
<1> HIDE DEF c
<1>4. Tables'
  BY <1>1, <1>2, <1>3, TablesGrow DEF StagesInv
<1>5. Places'
  BY <1>1, <1>2 DEF StagesInv, Places
<1>6. Environments'
  BY <1>1, <1>2 DEF StagesInv, Environments
<1>7. Fields'
  BY <1>2 DEF Fields
<1> QED BY <1>4, <1>5, <1>6, <1>7 DEF StagesInv

\* A struct that is left out changes nothing.
LEMMA SkipStructInv ==
  ASSUME StagesInv, stage # "validate", UNCHANGED stage, E!SkipStruct
  PROVE  StagesInv'
<1>1. /\ phase = "item" /\ at' = at + 1
      /\ UNCHANGED <<surface, phase, initial, params, fields, locals, types, names, core, items,
                     decls>>
  BY DEF E!SkipStruct, E!AtStruct
<1>2. Tables'
  BY <1>1, TablesStay DEF StagesInv
<1>3. Places'
  BY <1>1 DEF StagesInv, Places
<1>4. Environments'
  BY <1>1 DEF StagesInv, Environments
<1>5. Fields'
  BY <1>1 DEF Fields
<1> QED BY <1>2, <1>3, <1>4, <1>5 DEF StagesInv

\* The parameters of a struct extend all environments by as many locals.
LEMMA ElaborateParamsInv ==
  ASSUME StagesInv, stage # "validate", UNCHANGED stage,
         E!AtStruct, E!ElaborateParams, phase' \in {"struct_type", "struct_format"},
         UNCHANGED <<surface, at, items, decls, core>>
  PROVE  StagesInv'
<1> DEFINE n == Len(E!current.params)
<1>1. /\ phase = "item" /\ at \in Nat /\ at < Len(surface) /\ E!current.kind = "struct"
      /\ IsSurfaceModule(surface)
  BY DEF E!AtStruct, StagesInv, Places
<1>2. at + 1 \in DOMAIN surface
  <2>1. DOMAIN surface = 1..Len(surface) /\ Len(surface) \in Nat
    BY <1>1, SequenceDomain DEF IsSurfaceModule
  <2> QED BY <1>1, <2>1
<1>3. n \in Nat
  <2>1. IsSequence(E!current.params)
    BY <1>1, <1>2 DEF IsSurfaceModule, E!current
  <2> QED BY <2>1, SequenceDomain
<1>4. /\ locals = <<>> /\ types = <<>> /\ names = <<>>
      /\ IsSequence(locals) /\ IsSequence(types) /\ IsSequence(names)
      /\ Len(locals) = 0 /\ Len(types) = 0 /\ Len(names) = 0
  <2>1. locals = <<>> /\ names = <<>> /\ IsSequence(types) /\ Len(types) = Len(locals)
    BY <1>1 DEF StagesInv, Environments
  <2>2. Len(<<>>) = 0 /\ IsSequence(<<>>)
    BY EmptyIsSequence
  <2> QED BY <2>1, <2>2, SequenceDomain
<1> DEFINE value == [i \in 1..n |-> E!Local(Len(locals) + i - 1, <<>>)]
           elaborated == [i \in 1..n |-> ElaborateType(E!Context, E!current.params[i].type)]
           type == [i \in 1..n |->
                      EvalTerm(items,
                               locals \o [j \in 1..(i - 1) |-> E!Local(Len(locals) + j - 1, <<>>)],
                               elaborated[i].term)]
           param == [i \in 1..n |->
                       E!FieldDeclaration(E!Label(E!current.params[i].name), elaborated[i].term)]
           nm == [i \in 1..n |-> E!current.params[i].name]
<1>5. /\ locals' = locals \o value /\ types' = types \o type /\ names' = names \o nm
      /\ params' = param /\ initial' = Len(locals) /\ fields' = <<>>
  <2>1. locals' = locals \o value
    BY DEF E!ElaborateParams
  <2>2. names' = names \o nm
    BY DEF E!ElaborateParams
  <2>3. types' = types \o type
    BY DEF E!ElaborateParams
  <2>4. params' = param
    BY DEF E!ElaborateParams
  <2>5. initial' = Len(locals) /\ fields' = <<>>
    BY DEF E!ElaborateParams
  <2> QED BY <2>1, <2>2, <2>3, <2>4, <2>5
<1>6. /\ IsSequence(value) /\ Len(value) = n /\ IsSequence(type) /\ Len(type) = n
      /\ IsSequence(param) /\ IsSequence(nm) /\ Len(nm) = n
  <2>1. /\ value = [i \in 1..n |-> value[i]] /\ type = [i \in 1..n |-> type[i]]
        /\ param = [i \in 1..n |-> param[i]] /\ nm = [i \in 1..n |-> nm[i]]
    <3> HIDE DEF n, elaborated
    <3> QED OBVIOUS
  <2> HIDE DEF n, value, type, param, nm
  <2> QED BY <1>3, <2>1, SegmentIsSequence
<1> HIDE DEF n, value, elaborated, type, param, nm
<1>7. /\ IsSequence(locals') /\ Len(locals') = n /\ IsSequence(types') /\ Len(types') = n
      /\ IsSequence(names') /\ Len(names') = n
  BY <1>3, <1>4, <1>5, <1>6, ConcatIsSequence
<1>8. Environments'
  BY <1>7 DEF Environments
<1>9. Places'
  BY <1>4, <1>5, <1>6, EmptyIsSequence DEF StagesInv, Places
<1>10. Tables'
  BY <1>1, TablesStay DEF StagesInv
<1>11. Fields'
  <2>1. /\ surface' = surface /\ at' = at /\ field' = 0 /\ seen' = {} /\ fields' = <<>>
    BY DEF E!ElaborateParams
  <2>2. Len(E!current.fields) \in Nat
    BY <1>1, <1>2, SequenceDomain DEF IsSurfaceModule, E!current
  <2> QED BY <1>1, <2>1, <2>2, EmptyIsSequence DEF Fields, E!current, DistinctLabels
<1> QED BY <1>8, <1>9, <1>10, <1>11 DEF StagesInv

\* Label gives every name a label of its own.
LEMMA LabelOfName ==
  ASSUME NEW name \in Range(NameOrder)
  PROVE  Label(name) \in DOMAIN NameOrder /\ NameOrder[Label(name)] = name
<1>1. \E i \in DOMAIN NameOrder : NameOrder[i] = name
  BY DEF Range
<1> QED BY <1>1 DEF Label

\* A field becomes a core field if its label is new.
LEMMA DeclaredFields ==
  ASSUME Places, Fields, stage # "validate", UNCHANGED stage,
         phase \in {"struct_type", "struct_format"}, field < Len(E!current.fields),
         NEW e, NEW type, E!DeclareField(e, type), UNCHANGED <<surface, at, phase>>
  PROVE  Fields'
<1> DEFINE cur == E!current
           name == cur.fields[field + 1].name
<1>1. /\ at < Len(surface) /\ at \in Nat /\ IsSurfaceModule(surface) /\ IsSequence(fields)
      /\ cur.kind = "struct" /\ field \in 0..Len(cur.fields)
      /\ seen = {cur.fields[j].name : j \in 1..field}
      /\ DistinctLabels(fields) /\ \A j \in DOMAIN fields : NameOrder[fields[j].label] \in seen
  BY DEF Places, Fields
<1>2. IsSequence(cur.fields) /\ \A j \in DOMAIN cur.fields : cur.fields[j].name \in Range(NameOrder)
  <2>1. DOMAIN surface = 1..Len(surface) /\ Len(surface) \in Nat
    BY <1>1, SequenceDomain DEF IsSurfaceModule
  <2>2. at + 1 \in DOMAIN surface
    BY <1>1, <2>1
  <2> QED BY <1>1, <2>2 DEF IsSurfaceModule, E!current
<1>3. /\ Len(cur.fields) \in Nat /\ field \in Nat /\ field + 1 \in 0..Len(cur.fields)
      /\ name \in Range(NameOrder)
  <2>1. DOMAIN cur.fields = 1..Len(cur.fields) /\ Len(cur.fields) \in Nat
    BY <1>2, SequenceDomain
  <2>2. field + 1 \in DOMAIN cur.fields /\ field + 1 \in 0..Len(cur.fields)
    BY <1>1, <2>1
  <2> QED BY <1>1, <1>2, <2>1, <2>2
<1>4. cur' = cur
  BY DEF E!current
<1>5. field' = field + 1 /\ seen' = seen \cup {name}
  BY DEF E!DeclareField
<1>6. \/ name \in seen /\ fields' = fields
      \/ name \notin seen /\ fields' = Append(fields, E!FieldDeclaration(E!Label(name), e.term))
  BY DEF E!DeclareField
<1> HIDE DEF cur
<1>7. seen' = {cur.fields[j].name : j \in 1..(field + 1)}
  <2>1. 1..(field + 1) = (1..field) \cup {field + 1}
    BY <1>3
  <2> QED BY <1>1, <1>5, <2>1
<1> HIDE DEF name
<1>8. DistinctLabels(fields') /\ \A j \in DOMAIN fields' : NameOrder[fields'[j].label] \in seen'
  <2>1. CASE fields' = fields
    BY <1>1, <1>5, <2>1
  <2>2. CASE name \notin seen /\ fields' = Append(fields, E!FieldDeclaration(E!Label(name), e.term))
    <3> DEFINE n == Len(fields)
               f == E!FieldDeclaration(E!Label(name), e.term)
    <3>1. f.label = Label(name)
      BY DEF E!FieldDeclaration, E!Label, Label
    <3>2. Label(name) \in DOMAIN NameOrder /\ NameOrder[Label(name)] = name
      BY <1>3, LabelOfName
    <3> HIDE DEF f
    <3>3. /\ DOMAIN fields' = 1..(n + 1) /\ \A j \in 1..n : fields'[j] = fields[j]
          /\ fields'[n + 1] = f
      BY <1>1, <2>2, AppendIsSequence DEF f
    <3>4. DOMAIN fields = 1..n /\ n \in Nat
      BY <1>1, SequenceDomain
    <3> HIDE DEF n
    <3>5. \A j \in DOMAIN fields' : \/ j \in DOMAIN fields /\ fields'[j] = fields[j]
                                    \/ j = n + 1 /\ fields'[j] = f
      BY <3>3, <3>4
    <3>6. \A j \in DOMAIN fields : fields[j].label # f.label
      BY <1>1, <2>2, <3>1, <3>2
    <3>7. \A j \in DOMAIN fields' :
            fields'[j].label \in DOMAIN NameOrder /\ NameOrder[fields'[j].label] \in seen'
      BY <1>1, <1>5, <3>1, <3>2, <3>5 DEF DistinctLabels
    <3>8. \A j, k \in DOMAIN fields' : fields'[j].label = fields'[k].label => j = k
      BY <1>1, <3>5, <3>6 DEF DistinctLabels
    <3> QED BY <3>7, <3>8 DEF DistinctLabels
  <2> QED BY <1>6, <2>1, <2>2
<1>9. /\ at' < Len(surface') /\ cur'.kind = "struct" /\ field' \in 0..Len(cur'.fields)
      /\ seen' = {cur'.fields[j].name : j \in 1..field'}
  BY <1>1, <1>3, <1>4, <1>5, <1>7
<1> QED BY <1>8, <1>9 DEF Fields, cur

\* A field extends all environments by one local, or none of them.
LEMMA DeclareFieldInv ==
  ASSUME StagesInv, stage # "validate", UNCHANGED stage,
         phase \in {"struct_type", "struct_format"}, field < Len(E!current.fields),
         NEW e, NEW type, E!DeclareField(e, type),
         UNCHANGED <<surface, at, phase, initial, params, items, decls, core>>
  PROVE  StagesInv'
<1>1. Tables'
  BY TablesStay DEF StagesInv
<1>2. /\ IsSequence(locals) /\ IsSequence(types) /\ IsSequence(names) /\ IsSequence(fields)
      /\ Len(types) = Len(locals) /\ Len(names) = Len(locals)
  BY DEF StagesInv, Environments, Places
<1>3. Fields'
  BY DeclaredFields DEF StagesInv
<1>4. CASE UNCHANGED <<fields, locals, types, names>>
  <2>1. Places' /\ Environments'
    BY <1>4 DEF StagesInv, Places, Environments
  <2> QED BY <1>1, <1>3, <2>1 DEF StagesInv
<1>5. CASE ~UNCHANGED <<fields, locals, types, names>>
  <2>1. \E f, l, t, n :
          /\ fields' = Append(fields, f) /\ locals' = Append(locals, l)
          /\ types' = Append(types, t) /\ names' = Append(names, n)
    BY <1>5 DEF E!DeclareField, E!PushLocalParam
  <2>2. /\ IsSequence(fields') /\ IsSequence(locals') /\ Len(locals') = Len(locals) + 1
        /\ IsSequence(types') /\ Len(types') = Len(types) + 1
        /\ IsSequence(names') /\ Len(names') = Len(names) + 1
    BY <1>2, <2>1, AppendIsSequence
  <2>3. Places'
    BY <2>2 DEF StagesInv, Places
  <2>4. Environments'
    BY <1>2, <2>2 DEF Environments
  <2> QED BY <1>1, <1>3, <2>3, <2>4 DEF StagesInv
<1> QED BY <1>4, <1>5

\* The end of a struct: the locals go, and the item is kept if its name is new.
LEMMA FinishStructInv ==
  ASSUME StagesInv, stage # "validate", UNCHANGED stage,
         NEW kind \in {"struct_type", "struct_format"}, NEW def, NEW sort,
         E!FinishStruct(kind, def, sort)
  PROVE  StagesInv'
<1> DEFINE c == [name |-> E!current.name, kind |-> kind, params |-> params, fields |-> fields]
<1>1. /\ phase = kind
      /\ locals' = SubSeq(locals, 1, initial) /\ types' = SubSeq(types, 1, initial)
      /\ names' = SubSeq(names, 1, initial)
      /\ UNCHANGED <<surface, params, fields>>
  BY DEF E!FinishStruct, E!TruncateLocals
<1>2. ItemKept(c) /\ at' = at + 1 /\ phase' = "item"
  <2>1. E!Define(c, def, E!StructItemType(sort), <<>>)
    BY Zenon DEF E!FinishStruct
  <2> HIDE DEF c
  <2> QED BY <2>1, DefineKeeps
<1>3. IsCoreItem(c)
  BY <1>1 DEF IsCoreItem, StagesInv, Places, Fields
<1> HIDE DEF c
<1>4. Tables'
  BY <1>1, <1>2, <1>3, TablesGrow DEF StagesInv
<1>5. Places'
  BY <1>1, <1>2 DEF StagesInv, Places
<1>6. locals' = <<>> /\ types' = <<>> /\ names' = <<>>
  <2>1. /\ initial = 0
        /\ IsSequence(locals) /\ IsSequence(types) /\ IsSequence(names)
    BY <1>1 DEF StagesInv, Places, Environments
  <2> QED BY <1>1, <2>1, TruncatedToNothing
<1>7. Environments'
  BY <1>2, <1>6, EmptyIsSequence DEF Environments
<1>8. Fields'
  BY <1>2 DEF Fields
<1> QED BY <1>4, <1>5, <1>7, <1>8 DEF StagesInv

\* The end of a module clears the tables.
LEMMA FinishModuleInv ==
  ASSUME StagesInv, stage # "validate", UNCHANGED stage, E!FinishModule
  PROVE  StagesInv'
<1>1. /\ phase = "item" /\ phase' = "done" /\ items' = <<>> /\ decls' = <<>>
      /\ UNCHANGED <<surface, at, initial, params, fields, locals, types, names, core>>
  BY DEF E!FinishModule
<1>2. Places'
  BY <1>1 DEF StagesInv, Places
<1>3. Environments'
  BY <1>1 DEF StagesInv, Environments
<1>4. Tables'
  BY <1>1 DEF StagesInv, Tables
<1>5. Fields'
  BY <1>1 DEF Fields
<1> QED BY <1>2, <1>3, <1>4, <1>5 DEF StagesInv

\* Every step of the elaborator.
LEMMA ElaborationInv ==
  ASSUME StagesInv, stage # "validate", UNCHANGED stage, E!Next
  PROVE  StagesInv'
<1>1. CASE E!ElaborateConstant
  BY <1>1, ElaborateConstantInv
<1>2. CASE E!SkipStruct
  BY <1>2, SkipStructInv
<1>3. CASE E!IsStructType
  BY <1>3, ElaborateParamsInv DEF E!IsStructType
<1>4. CASE E!IsStructFormat
  BY <1>4, ElaborateParamsInv DEF E!IsStructFormat
<1>5. CASE E!StructTypeField
  <2>1. /\ phase \in {"struct_type", "struct_format"}
        /\ UNCHANGED <<surface, at, phase, initial, params, items, decls, core>>
        /\ field < Len(E!current.fields)
        /\ \E e, type : E!DeclareField(e, type)
    BY <1>5 DEF E!StructTypeField
  <2> QED BY <2>1, DeclareFieldInv
<1>6. CASE E!StructFormatField
  <2>1. /\ phase \in {"struct_type", "struct_format"}
        /\ UNCHANGED <<surface, at, phase, initial, params, items, decls, core>>
        /\ field < Len(E!current.fields)
        /\ \E e, type : E!DeclareField(e, type)
    BY <1>6 DEF E!StructFormatField
  <2> QED BY <2>1, DeclareFieldInv
<1>7. CASE E!FinishStructType
  BY <1>7, FinishStructInv DEF E!FinishStructType
<1>8. CASE E!FinishStructFormat
  BY <1>8, FinishStructInv DEF E!FinishStructFormat
<1>9. CASE E!FinishModule
  BY <1>9, FinishModuleInv
<1> QED BY <1>1, <1>2, <1>3, <1>4, <1>5, <1>6, <1>7, <1>8, <1>9 DEF E!Next

-----------------------------------------------------------------------------
(* The steps of the validator. *)

\* While the validator runs: the core module and what is left of the elaborator
\* stay, and the tables of items have the same names.
Validating ==
  /\ stage = "validate" /\ UNCHANGED <<stage, surface, core, params, fields, names>>
  /\ phase' \in {"item", "fields", "done"} /\ at' \in Nat
  /\ DOMAIN items' = DOMAIN decls'
  /\ phase' = "done" => items' = <<>>

\* Then only the environments of locals are left to look at.
LEMMA ValidatingInv ==
  ASSUME StagesInv, Validating, Environments', phase' = "fields" => initial' = 0
  PROVE  StagesInv'
<1>1. Places'
  BY DEF StagesInv, Places, Validating
<1>2. Tables'
  BY DEF StagesInv, Tables, Validating
<1>3. Fields'
  BY DEF Validating, Fields
<1> QED BY <1>1, <1>2, <1>3 DEF StagesInv

\* What the validator knows of the item it is at.
LEMMA ItemOfCore ==
  ASSUME StagesInv, at < Len(core), core[at + 1].kind # "constant"
  PROVE  /\ IsSequence(core[at + 1].params) /\ IsSequence(core[at + 1].fields)
         /\ DistinctLabels(core[at + 1].fields)
<1>1. DOMAIN core = 1..Len(core) /\ Len(core) \in Nat /\ at \in Nat
  BY SequenceDomain DEF StagesInv, Tables, Places
<1>2. at + 1 \in DOMAIN core
  BY <1>1
<1> QED BY <1>2 DEF StagesInv, Tables, IsCoreItem

\* The end of the loop body of the validator.
LEMMA ValidatorDefines ==
  ASSUME StagesInv, stage = "validate", UNCHANGED <<stage, surface, params, fields, names>>,
         NEW def, NEW type, NEW pushed, V!Define(def, type, pushed)
  PROVE  Validating /\ phase' = "item"
<1>1. at' = at + 1 /\ phase' = "item" /\ core' = core /\ at \in Nat
  BY DEF V!Define, StagesInv, Places
<1>2. DOMAIN items = DOMAIN decls
  BY DEF StagesInv, Tables
<1>3. DOMAIN items' = DOMAIN decls'
  <2>1. CASE V!current.name \in DOMAIN items
    BY <1>2, <2>1 DEF V!Define
  <2>2. CASE V!current.name \notin DOMAIN items
    BY <1>2, <2>2 DEF V!Define, V!Insert
  <2> QED BY <2>1, <2>2
<1> QED BY <1>1, <1>3 DEF Validating

\* A constant is checked at an item, and leaves no local.
LEMMA CheckConstantInv ==
  ASSUME StagesInv, stage = "validate", UNCHANGED <<stage, surface, params, fields, names>>,
         V!CheckConstant
  PROVE  StagesInv'
<1>1. /\ phase = "item" /\ UNCHANGED <<locals, types>>
      /\ \E def, type, pushed : V!Define(def, type, pushed)
  BY DEF V!CheckConstant
<1>2. Validating /\ phase' = "item"
  BY <1>1, ValidatorDefines
<1>3. Environments'
  BY <1>1, <1>2 DEF StagesInv, Environments, Validating
<1> QED BY <1>2, <1>3, ValidatingInv

\* The parameters of a struct extend both environments by as many locals.
LEMMA CheckParamsInv ==
  ASSUME StagesInv, stage = "validate", UNCHANGED <<stage, surface, params, fields, names>>,
         V!CheckParams
  PROVE  StagesInv'
<1> DEFINE n == Len(V!current.params)
           value == [i \in 1..n |-> V!Local(Len(locals) + i - 1, <<>>)]
           type == [i \in 1..n |->
                      EvalTerm(items,
                               locals \o [j \in 1..(i - 1) |-> V!Local(Len(locals) + j - 1, <<>>)],
                               V!current.params[i].type)]
<1>1. /\ phase = "item" /\ at < Len(core) /\ V!current.kind # "constant"
      /\ phase' = "fields" /\ initial' = Len(locals)
      /\ UNCHANGED <<core, at, items, decls>>
  BY DEF V!CheckParams
<1>2. n \in Nat
  <2>1. IsSequence(V!current.params)
    BY <1>1, ItemOfCore DEF V!current
  <2> QED BY <2>1, SequenceDomain
<1>3. /\ IsSequence(locals) /\ IsSequence(types) /\ Len(locals) = 0 /\ Len(types) = 0
      /\ names = <<>>
  BY <1>1, EmptyIsSequence DEF StagesInv, Environments
<1>4. locals' = locals \o value
  BY DEF V!CheckParams
<1>5. types' = types \o type
  BY DEF V!CheckParams
<1>6. IsSequence(value) /\ Len(value) = n /\ IsSequence(type) /\ Len(type) = n
  <2>1. value = [i \in 1..n |-> value[i]] /\ type = [i \in 1..n |-> type[i]]
    <3> HIDE DEF n
    <3> QED OBVIOUS
  <2> HIDE DEF n, value, type
  <2> QED BY <1>2, <2>1, SegmentIsSequence
<1> HIDE DEF n, value, type
<1>7. IsSequence(locals') /\ Len(locals') = n /\ IsSequence(types') /\ Len(types') = n
  BY <1>2, <1>3, <1>4, <1>5, <1>6, ConcatIsSequence
<1>8. Environments'
  BY <1>1, <1>3, <1>7, EmptyIsSequence DEF Environments
<1>9. Validating
  BY <1>1 DEF StagesInv, Places, Tables, Validating
<1> QED BY <1>1, <1>3, <1>8, <1>9, ValidatingInv

\* A field extends both environments by one local, or none of them.
LEMMA CheckFieldInv ==
  ASSUME StagesInv, stage = "validate", UNCHANGED <<stage, surface, params, fields, names>>,
         V!CheckField
  PROVE  StagesInv'
<1>1. phase = "fields" /\ UNCHANGED <<core, at, phase, initial, items, decls>>
  BY DEF V!CheckField
<1>2. /\ IsSequence(locals) /\ IsSequence(types) /\ names = <<>> /\ IsSequence(names)
      /\ Len(types) = Len(locals) /\ initial = 0
  BY <1>1 DEF StagesInv, Environments, Places
<1>3. /\ IsSequence(locals') /\ IsSequence(types') /\ Len(types') = Len(locals')
  <2>1. CASE UNCHANGED <<locals, types>>
    BY <1>2, <2>1
  <2>2. CASE ~UNCHANGED <<locals, types>>
    <3>1. \E l, t : locals' = Append(locals, l) /\ types' = Append(types, t)
      BY <2>2 DEF V!CheckField, V!PushLocalParam
    <3> QED BY <1>2, <3>1, AppendIsSequence
  <2> QED BY <2>1, <2>2
<1>4. Environments'
  BY <1>1, <1>2, <1>3 DEF Environments
<1>5. Validating
  BY <1>1 DEF StagesInv, Places, Tables, Validating
<1> QED BY <1>1, <1>2, <1>4, <1>5, ValidatingInv

\* The end of a struct: the locals go.
LEMMA ValidatorFinishStructInv ==
  ASSUME StagesInv, stage = "validate", UNCHANGED <<stage, surface, params, fields, names>>,
         V!FinishStruct
  PROVE  StagesInv'
<1>1. /\ phase = "fields"
      /\ locals' = SubSeq(locals, 1, initial) /\ types' = SubSeq(types, 1, initial)
  BY DEF V!FinishStruct, V!TruncateLocals
<1>2. \E def, type, pushed : V!Define(def, type, pushed)
  BY DEF V!FinishStruct
<1>3. Validating /\ phase' = "item"
  BY <1>2, ValidatorDefines
<1>4. locals' = <<>> /\ types' = <<>> /\ names' = <<>>
  <2>1. initial = 0 /\ IsSequence(locals) /\ IsSequence(types) /\ names = <<>>
    BY <1>1 DEF StagesInv, Places, Environments
  <2> QED BY <1>1, <2>1, TruncatedToNothing
<1>5. Environments'
  BY <1>3, <1>4, EmptyIsSequence DEF Environments
<1> QED BY <1>3, <1>5, ValidatingInv

\* Every step of the validator.
LEMMA ValidationInv ==
  ASSUME StagesInv, stage = "validate", UNCHANGED <<stage, surface, params, fields, names>>,
         V!Next
  PROVE  StagesInv'
<1>1. CASE V!CheckConstant
  BY <1>1, CheckConstantInv
<1>2. CASE V!CheckParams
  BY <1>2, CheckParamsInv
<1>3. CASE V!CheckField
  BY <1>3, CheckFieldInv
<1>4. CASE V!FinishStruct
  BY <1>4, ValidatorFinishStructInv
<1>5. CASE V!FinishModule
  <2>1. /\ phase = "item" /\ phase' = "done" /\ items' = <<>> /\ decls' = <<>>
        /\ UNCHANGED <<core, at, locals, types>>
    BY <1>5 DEF V!FinishModule
  <2>2. Environments'
    BY <2>1 DEF StagesInv, Environments
  <2>3. Validating
    BY <2>1 DEF StagesInv, Places, Validating
  <2> QED BY <2>1, <2>2, <2>3, ValidatingInv
<1> QED BY <1>1, <1>2, <1>3, <1>4, <1>5 DEF V!Next

-----------------------------------------------------------------------------
(* From one stage to the next. *)

\* The validator starts with the empty context the elaborator leaves behind.
LEMMA StartValidationInv == ASSUME StagesInv, StartValidation PROVE StagesInv'
<1>1. /\ stage = "elaborate" /\ phase = "done"
      /\ stage' = "validate" /\ phase' = "item" /\ at' = 0
      /\ UNCHANGED <<surface, initial, params, fields, items, decls, locals, types, names, core>>
  BY DEF StartValidation
<1>2. Places'
  BY <1>1 DEF StagesInv, Places
<1>3. Environments'
  BY <1>1 DEF StagesInv, Environments
<1>4. Tables'
  BY <1>1 DEF StagesInv, Tables
<1>5. Fields'
  BY <1>1 DEF Fields
<1> QED BY <1>2, <1>3, <1>4, <1>5 DEF StagesInv

\* Distillation gives a surface module.
LEMMA DistilledModule ==
  ASSUME NEW m, IsSequence(m), \A i \in DOMAIN m : IsCoreItem(m[i])
  PROVE  IsSurfaceModule(FromModule(m))
<1> DEFINE f == FromModule(m)
<1>1. DOMAIN m = 1..Len(m) /\ Len(m) \in Nat
  BY SequenceDomain
<1>2. DOMAIN f = DOMAIN m /\ f = [i \in 1..Len(m) |-> f[i]]
  BY <1>1 DEF FromModule
<1>3. ASSUME NEW i \in DOMAIN f, f[i].kind = "struct"
      PROVE  /\ IsSequence(f[i].params) /\ IsSequence(f[i].fields)
             /\ \A j \in DOMAIN f[i].fields : f[i].fields[j].name \in Range(NameOrder)
  <2> DEFINE ps == m[i].params
             fs == m[i].fields
  <2>1. IsCoreItem(m[i])
    BY <1>2
  <2>2. CASE m[i].kind = "constant"
    <3>1. f[i] = FromConstant(m[i])
      BY <1>2, <2>2 DEF FromModule, FromItem
    <3>2. f[i].kind = "constant"
      BY <3>1 DEF FromConstant, SConstant
    <3> QED BY <1>3, <3>2
  <2>3. CASE m[i].kind # "constant"
    <3>1. f[i] = FromStructType(m[i]) \/ f[i] = FromStructFormat(m[i])
      BY <1>2, <2>1, <2>3 DEF FromModule, FromItem, IsCoreItem
    <3>2. f[i].params = FromParams(ps) /\ f[i].fields = FromFields(ps, fs)
      BY <3>1 DEF FromStructType, FromStructFormat, SStruct
    <3>3. IsSequence(ps) /\ IsSequence(fs) /\ DistinctLabels(fs)
      BY <2>1, <2>3 DEF IsCoreItem
    <3> HIDE DEF ps, fs
    <3>4. DOMAIN ps = 1..Len(ps) /\ Len(ps) \in Nat /\ DOMAIN fs = 1..Len(fs) /\ Len(fs) \in Nat
      BY <3>3, SequenceDomain
    <3>5. FromParams(ps) = [j \in 1..Len(ps) |-> FromParams(ps)[j]]
      BY <3>4 DEF FromParams
    <3>6. FromFields(ps, fs) = [j \in 1..Len(fs) |-> FromFields(ps, fs)[j]]
      BY <3>4 DEF FromFields
    <3>7. ASSUME NEW j \in DOMAIN FromFields(ps, fs)
          PROVE  FromFields(ps, fs)[j].name \in Range(NameOrder)
      <4>1. j \in DOMAIN fs /\ FromFields(ps, fs)[j].name = NameOrder[fs[j].label]
        BY DEF FromFields, SDeclaration
      <4> QED BY <3>3, <4>1 DEF DistinctLabels, Range
    <3> QED BY <3>2, <3>4, <3>5, <3>6, <3>7, SegmentIsSequence
  <2> QED BY <2>2, <2>3
<1> HIDE DEF f
<1>4. IsSequence(f)
  BY <1>1, <1>2, SegmentIsSequence
<1>5. IsSurfaceModule(f)
  BY <1>3, <1>4 DEF IsSurfaceModule
<1> QED BY <1>5 DEF f

\* The second elaboration starts with the empty context of the validator.
LEMMA DistillInv == ASSUME StagesInv, Distill PROVE StagesInv'
<1>1. /\ stage = "validate" /\ phase = "done" /\ stage' = "again" /\ phase' = "item" /\ at' = 0
      /\ core' = <<>> /\ surface' = FromModule(core)
      /\ UNCHANGED <<initial, params, fields, items, decls, locals, types, names>>
  BY DEF Distill
<1>2. Places'
  <2>1. IsSurfaceModule(surface')
    BY <1>1, DistilledModule DEF StagesInv, Tables
  <2> QED BY <1>1, <2>1 DEF StagesInv, Places
<1>3. Environments'
  BY <1>1 DEF StagesInv, Environments
<1>4. Tables'
  <2>1. items = <<>> /\ DOMAIN items = DOMAIN decls
    BY <1>1 DEF StagesInv, Tables
  <2> QED BY <1>1, <2>1, EmptyIsSequence DEF Tables
<1>5. Fields'
  BY <1>1 DEF Fields
<1> QED BY <1>2, <1>3, <1>4, <1>5 DEF StagesInv

\* A step that changes nothing.
LEMMA StagesStutter == ASSUME StagesInv, UNCHANGED vars PROVE StagesInv'
<1>1. UNCHANGED <<surface, at, phase, initial, params, fields, items, decls, locals, types, names,
                  core, stage, field, seen>>
  BY DEF vars, E!vars
<1> QED BY <1>1 DEF StagesInv, Places, Environments, Tables, Fields, E!current

\* Every step.
LEMMA StagesNext == StagesInv /\ [Next]_vars => StagesInv'
<1> SUFFICES ASSUME StagesInv, [Next]_vars PROVE StagesInv'
  OBVIOUS
<1>1. CASE SurfaceToCore
  BY <1>1, ElaborationInv DEF SurfaceToCore
<1>2. CASE StartValidation
  BY <1>2, StartValidationInv
<1>3. CASE Validate
  BY <1>3, ValidationInv DEF Validate
<1>4. CASE Distill
  BY <1>4, DistillInv
<1>5. CASE SurfaceToCoreAgain
  BY <1>5, ElaborationInv DEF SurfaceToCoreAgain
<1>6. CASE UNCHANGED vars
  BY <1>6, StagesStutter
<1> QED BY <1>1, <1>2, <1>3, <1>4, <1>5, <1>6 DEF Next

\* The inductive invariant holds at every moment.
LEMMA StagesAlways == Spec => []StagesInv
BY StagesInit, StagesNext, PTL DEF Spec

\* The environments of definitions, declarations and names go in step in every
\* stage, and from_module and is_module leave their contexts empty.
THEOREM StagesTypeCorrect == Spec => []TypeOK
<1>1. StagesInv => TypeOK
  BY DEF StagesInv, Places, Environments, Tables, TypeOK
<1> QED BY <1>1, StagesAlways, PTL

\* The core module of the elaborator has one item per name, whatever the surface
\* module repeats.
THEOREM CoreNamesDistinct == Spec => []CoreItemsAreDistinct
<1>1. StagesInv => CoreItemsAreDistinct
  BY DEF StagesInv, Tables, CoreItemsAreDistinct, IsCoreItem, DistinctLabels
<1> QED BY <1>1, StagesAlways, PTL

-----------------------------------------------------------------------------
(* What the elaborator has sorted out stays sorted out. *)

\* A surface module without a repeated name.
DistinctSurface(module) ==
  /\ \A i, j \in DOMAIN module : module[i].name = module[j].name => i = j
  /\ \A i \in DOMAIN module : module[i].kind = "struct" =>
       \A j, k \in DOMAIN module[i].fields :
         module[i].fields[j].name = module[i].fields[k].name => j = k

\* The tables hold names of items, and the labels seen are of fields, that are
\* behind the stage; and a distilled module repeats no name.
Behind ==
  /\ stage = "again" => DistinctSurface(surface)
  /\ (stage # "validate" /\ phase # "done") =>
       DOMAIN items \subseteq {surface[i].name : i \in 1..at}
  /\ (stage = "validate" /\ phase # "done") =>
       DOMAIN items \subseteq {core[i].name : i \in 1..at}
  /\ (stage = "validate" /\ phase = "fields") =>
       /\ at < Len(core) /\ core[at + 1].kind # "constant"
       /\ field \in 0..Len(core[at + 1].fields)
       /\ seen \subseteq {core[at + 1].fields[j].label : j \in 1..field}

\* A step of the elaborator defines no other item than the one it passes.
LEMMA ElaboratorItems ==
  ASSUME E!Next, phase' # "done"
  PROVE  /\ phase # "done" /\ surface' = surface
         /\ \/ DOMAIN items' = DOMAIN items /\ at' = at
            \/ /\ DOMAIN items' \subseteq DOMAIN items \cup {surface[at + 1].name}
               /\ at' = at + 1
<1>1. CASE E!ElaborateConstant
  <2>1. phase = "item" /\ surface' = surface
    BY <1>1 DEF E!ElaborateConstant
  <2>2. \E c, def, type, pushed : c.name = E!current.name /\ E!Define(c, def, type, pushed)
    <3> DEFINE e == IF E!current.type = E!NoType THEN SynthTerm(E!Context, E!current.term)
                    ELSE ElaborateAnnotated(E!Context, E!current.term, E!current.type)
               c == [name |-> E!current.name, kind |-> "constant", term |-> e.term]
    <3>1. E!Define(c, E!ConstantItem(EvalTerm(items, locals, e.term)), e.type, e.messages)
      BY <1>1, Zenon DEF E!ElaborateConstant
    <3>2. c.name = E!current.name
      OBVIOUS
    <3> HIDE DEF c, e
    <3> QED BY <3>1, <3>2
  <2> QED BY <2>1, <2>2, DefineKeeps DEF ItemKept, E!current
<1>2. CASE E!SkipStruct
  BY <1>2 DEF E!SkipStruct, E!AtStruct
<1>3. CASE E!IsStructType
  BY <1>3 DEF E!IsStructType, E!AtStruct
<1>4. CASE E!IsStructFormat
  BY <1>4 DEF E!IsStructFormat, E!AtStruct
<1>5. CASE E!StructTypeField
  BY <1>5 DEF E!StructTypeField
<1>6. CASE E!StructFormatField
  BY <1>6 DEF E!StructFormatField
<1>7. ASSUME NEW kind \in {"struct_type", "struct_format"}, NEW def, NEW sort,
             E!FinishStruct(kind, def, sort)
      PROVE  /\ phase # "done" /\ surface' = surface
             /\ DOMAIN items' \subseteq DOMAIN items \cup {surface[at + 1].name}
             /\ at' = at + 1
  <2> DEFINE c == [name |-> E!current.name, kind |-> kind, params |-> params, fields |-> fields]
  <2>1. phase = kind /\ surface' = surface
    BY <1>7 DEF E!FinishStruct
  <2>2. E!Define(c, def, E!StructItemType(sort), <<>>) /\ c.name = E!current.name
    BY <1>7, Zenon DEF E!FinishStruct
  <2> HIDE DEF c
  <2> QED BY <2>1, <2>2, DefineKeeps DEF ItemKept, E!current
<1>8. CASE E!FinishStructType
  BY <1>7, <1>8 DEF E!FinishStructType
<1>9. CASE E!FinishStructFormat
  BY <1>7, <1>9 DEF E!FinishStructFormat
<1>10. CASE E!FinishModule
  BY <1>10 DEF E!FinishModule
<1> QED BY <1>1, <1>2, <1>3, <1>4, <1>5, <1>6, <1>8, <1>9, <1>10 DEF E!Next

\* The same of the validator.
LEMMA ValidatorItems ==
  ASSUME NEW def, NEW type, NEW pushed, V!Define(def, type, pushed)
  PROVE  DOMAIN items' \subseteq DOMAIN items \cup {core[at + 1].name}
<1>1. CASE V!current.name \in DOMAIN items
  BY <1>1 DEF V!Define
<1>2. CASE V!current.name \notin DOMAIN items
  BY <1>2 DEF V!Define, V!Insert, V!current
<1> QED BY <1>1, <1>2

\* Names of one more item.
LEMMA OneMoreBehind ==
  ASSUME NEW n \in Nat, NEW f, NEW before, before \subseteq {f[i].name : i \in 1..n},
         NEW after, after \subseteq before \cup {f[n + 1].name}
  PROVE  after \subseteq {f[i].name : i \in 1..(n + 1)}
<1>1. 1..n \subseteq 1..(n + 1) /\ n + 1 \in 1..(n + 1)
  OBVIOUS
<1> QED BY <1>1

\* Steps of the elaborator.
LEMMA ElaborationBehind ==
  ASSUME StagesInv, Behind, stage # "validate", UNCHANGED stage, E!Next
  PROVE  Behind'
<1>1. CASE phase' = "done"
  <2>1. surface' = surface
    BY DEF E!Next, E!ElaborateConstant, E!SkipStruct, E!IsStructType, E!StructTypeField,
           E!FinishStructType, E!IsStructFormat, E!StructFormatField, E!FinishStructFormat,
           E!FinishStruct, E!FinishModule
  <2> QED BY <1>1, <2>1 DEF Behind
<1>2. CASE phase' # "done"
  <2>1. /\ phase # "done" /\ surface' = surface
        /\ \/ DOMAIN items' = DOMAIN items /\ at' = at
           \/ /\ DOMAIN items' \subseteq DOMAIN items \cup {surface[at + 1].name}
              /\ at' = at + 1
    BY <1>2, ElaboratorItems
  <2>2. at \in Nat /\ DOMAIN items \subseteq {surface[i].name : i \in 1..at}
    BY <2>1 DEF StagesInv, Places, Behind
  <2>3. DOMAIN items' \subseteq {surface'[i].name : i \in 1..at'}
    <3>1. CASE DOMAIN items' = DOMAIN items /\ at' = at
      BY <2>1, <2>2, <3>1
    <3>2. CASE /\ DOMAIN items' \subseteq DOMAIN items \cup {surface[at + 1].name}
               /\ at' = at + 1
      BY <2>1, <2>2, <3>2, OneMoreBehind
    <3> QED BY <2>1, <3>1, <3>2
  <2> QED BY <2>1, <2>3 DEF Behind
<1> QED BY <1>1, <1>2

\* Steps of the validator.
LEMMA ValidationBehind ==
  ASSUME StagesInv, Behind, stage = "validate", UNCHANGED stage, V!Next
  PROVE  Behind'
<1>1. at \in Nat
  BY DEF StagesInv, Places
<1>2. ASSUME phase # "done", phase' = "item", NEW def, NEW type, NEW pushed,
             V!Define(def, type, pushed)
      PROVE  Behind'
  <2>1. core' = core /\ at' = at + 1 /\ DOMAIN items \subseteq {core[i].name : i \in 1..at}
    BY <1>2 DEF V!Define, Behind
  <2>2. DOMAIN items' \subseteq DOMAIN items \cup {core[at + 1].name}
    BY <1>2, ValidatorItems
  <2>3. DOMAIN items' \subseteq {core[i].name : i \in 1..(at + 1)}
    BY <1>1, <2>1, <2>2, OneMoreBehind
  <2> QED BY <1>2, <2>1, <2>3 DEF Behind
<1>3. CASE V!CheckConstant
  <2>1. phase = "item" /\ \E def, type, pushed : V!Define(def, type, pushed)
    BY <1>3 DEF V!CheckConstant
  <2>2. phase' = "item"
    BY <2>1 DEF V!Define
  <2> QED BY <1>2, <2>1, <2>2
<1>4. CASE V!CheckParams
  <2>1. /\ phase = "item" /\ at < Len(core) /\ core[at + 1].kind # "constant"
        /\ phase' = "fields" /\ field' = 0 /\ seen' = {} /\ UNCHANGED <<core, at, items>>
    BY <1>4 DEF V!CheckParams, V!current
  <2>2. Len(core[at + 1].fields) \in Nat
    BY <2>1, ItemOfCore, SequenceDomain
  <2> QED BY <2>1, <2>2 DEF Behind
<1>5. CASE V!CheckField
  <2> DEFINE fs == core[at + 1].fields
  <2>1. /\ phase = "fields" /\ field < Len(fs) /\ field' = field + 1
        /\ seen' = seen \cup {fs[field + 1].label} /\ UNCHANGED <<core, at, phase, items>>
    BY <1>5 DEF V!CheckField, V!current
  <2>2. /\ at < Len(core) /\ core[at + 1].kind # "constant" /\ field \in 0..Len(fs)
        /\ seen \subseteq {fs[j].label : j \in 1..field}
        /\ DOMAIN items \subseteq {core[i].name : i \in 1..at}
    BY <2>1 DEF Behind
  <2>3. Len(fs) \in Nat
    BY <2>2, ItemOfCore, SequenceDomain
  <2> HIDE DEF fs
  <2>4. field' \in 0..Len(fs) /\ seen' \subseteq {fs[j].label : j \in 1..(field + 1)}
    <3>1. field + 1 \in 0..Len(fs)
      BY <2>1, <2>2, <2>3
    <3>2. 1..field \subseteq 1..(field + 1) /\ field + 1 \in 1..(field + 1)
      BY <2>2, <2>3
    <3> QED BY <2>1, <2>2, <3>1, <3>2
  <2> QED BY <2>1, <2>2, <2>4 DEF Behind, fs
<1>6. CASE V!FinishStruct
  <2>1. phase = "fields" /\ \E def, type, pushed : V!Define(def, type, pushed)
    BY <1>6 DEF V!FinishStruct
  <2>2. phase' = "item"
    BY <2>1 DEF V!Define
  <2> QED BY <1>2, <2>1, <2>2
<1>7. CASE V!FinishModule
  BY <1>7 DEF V!FinishModule, Behind
<1> QED BY <1>3, <1>4, <1>5, <1>6, <1>7 DEF V!Next

\* Distillation repeats no name that the core module does not repeat.
LEMMA DistilledDistinct ==
  ASSUME NEW m, \A i \in DOMAIN m : IsCoreItem(m[i]),
         \A i, j \in DOMAIN m : m[i].name = m[j].name => i = j
  PROVE  DistinctSurface(FromModule(m))
<1> DEFINE f == FromModule(m)
<1>1. DOMAIN f = DOMAIN m /\ \A i \in DOMAIN m : f[i] = FromItem(m[i])
  BY DEF FromModule
<1> HIDE DEF f
<1>2. ASSUME NEW i \in DOMAIN m
      PROVE  \/ m[i].kind = "constant" /\ f[i] = FromConstant(m[i])
             \/ m[i].kind # "constant" /\ f[i] = FromStructType(m[i])
             \/ m[i].kind # "constant" /\ f[i] = FromStructFormat(m[i])
  BY <1>1 DEF FromItem, IsCoreItem
<1>3. ASSUME NEW i \in DOMAIN m PROVE f[i].name = m[i].name
  <2> DEFINE c == m[i]
  <2>1. CASE f[i] = FromConstant(c)
    BY <2>1 DEF FromConstant, SConstant
  <2>2. CASE f[i] = FromStructType(c)
    BY <2>2 DEF FromStructType, SStruct
  <2>3. CASE f[i] = FromStructFormat(c)
    BY <2>3 DEF FromStructFormat, SStruct
  <2> QED BY <1>2, <2>1, <2>2, <2>3
<1>4. ASSUME NEW i \in DOMAIN m, f[i].kind = "struct"
      PROVE  \A j, k \in DOMAIN f[i].fields : f[i].fields[j].name = f[i].fields[k].name => j = k
  <2> DEFINE fs == m[i].fields
             ps == m[i].params
  <2>1. m[i].kind # "constant"
    <3>1. FromConstant(m[i]).kind = "constant"
      BY DEF FromConstant, SConstant
    <3> QED BY <1>2, <1>4, <3>1
  <2>2. f[i].fields = FromFields(ps, fs)
    <3>1. /\ FromStructType(m[i]).fields = FromFields(ps, fs)
          /\ FromStructFormat(m[i]).fields = FromFields(ps, fs)
      BY DEF FromStructType, FromStructFormat, SStruct
    <3> QED BY <1>2, <2>1, <3>1
  <2>3. DistinctLabels(fs)
    BY <2>1 DEF IsCoreItem
  <2> HIDE DEF fs, ps
  <2>4. /\ DOMAIN FromFields(ps, fs) = DOMAIN fs
        /\ \A j \in DOMAIN fs : FromFields(ps, fs)[j].name = NameOrder[fs[j].label]
    BY DEF FromFields, SDeclaration
  <2> QED BY <2>2, <2>3, <2>4, NamesAreDistinct DEF DistinctLabels
<1>5. DistinctSurface(f)
  BY <1>1, <1>3, <1>4 DEF DistinctSurface
<1> QED BY <1>5 DEF f

\* Every step.
LEMMA BehindNext == StagesInv /\ Behind /\ [Next]_vars => Behind'
<1> SUFFICES ASSUME StagesInv, Behind, [Next]_vars PROVE Behind'
  OBVIOUS
<1>1. CASE SurfaceToCore
  BY <1>1, ElaborationBehind DEF SurfaceToCore
<1>2. CASE StartValidation
  <2>1. /\ stage' = "validate" /\ phase' = "item" /\ phase = "done" /\ items' = items
    BY <1>2 DEF StartValidation
  <2>2. DOMAIN items = {}
    BY <2>1, EmptyIsSequence DEF StagesInv, Tables
  <2> QED BY <2>1, <2>2 DEF Behind
<1>3. CASE Validate
  BY <1>3, ValidationBehind DEF Validate
<1>4. CASE Distill
  <2>1. /\ stage' = "again" /\ phase' = "item" /\ phase = "done" /\ items' = items
        /\ surface' = FromModule(core)
    BY <1>4 DEF Distill
  <2>2. DOMAIN items = {}
    BY <2>1, EmptyIsSequence DEF StagesInv, Tables
  <2>3. DistinctSurface(surface')
    BY <2>1, DistilledDistinct DEF StagesInv, Tables
  <2> QED BY <2>1, <2>2, <2>3 DEF Behind
<1>5. CASE SurfaceToCoreAgain
  BY <1>5, ElaborationBehind DEF SurfaceToCoreAgain
<1>6. CASE UNCHANGED vars
  <2>1. UNCHANGED <<surface, at, phase, items, core, stage, field, seen>>
    BY <1>6 DEF vars, E!vars
  <2> QED BY <2>1 DEF Behind
<1> QED BY <1>1, <1>2, <1>3, <1>4, <1>5, <1>6 DEF Next

\* No later stage comes to an item whose name it has, nor to a field whose label
\* it has seen.
NoDuplicatesLater ==
  /\ (stage = "validate" /\ phase # "done" /\ at < Len(core)) =>
       core[at + 1].name \notin DOMAIN items
  /\ (stage = "validate" /\ phase = "fields" /\ field < Len(core[at + 1].fields)) =>
       core[at + 1].fields[field + 1].label \notin seen
  /\ (stage = "again" /\ phase # "done" /\ at < Len(surface)) =>
       surface[at + 1].name \notin DOMAIN items
  /\ (stage = "again" /\ phase \notin {"item", "done"} /\ field < Len(surface[at + 1].fields)) =>
       surface[at + 1].fields[field + 1].name \notin seen

\* A duplicate costs the user one message: of a module the elaborator made, the
\* validator reports neither ItemRedefinition nor FieldRedeclaration, and nor does
\* the second elaboration of what distillation makes of it.
THEOREM DuplicatesAreReportedOnce == Spec => []NoDuplicatesLater
<1>1. Init => Behind
  <2> SUFFICES ASSUME Init PROVE Behind
    OBVIOUS
  <2>1. stage = "elaborate" /\ DOMAIN items = {}
    BY EmptyIsSequence DEF Init, E!Init, E!NewContext
  <2> QED BY <2>1 DEF Behind
<1>2. StagesInv /\ Behind => NoDuplicatesLater
  <2> SUFFICES ASSUME StagesInv, Behind PROVE NoDuplicatesLater
    OBVIOUS
  <2>1. /\ at \in Nat /\ DOMAIN core = 1..Len(core) /\ Len(core) \in Nat
        /\ DOMAIN surface = 1..Len(surface) /\ Len(surface) \in Nat
    BY SequenceDomain DEF StagesInv, Places, Tables, IsSurfaceModule
  <2>2. ASSUME stage = "validate", phase # "done", at < Len(core)
        PROVE  core[at + 1].name \notin DOMAIN items
    <3>1. at + 1 \in DOMAIN core /\ \A i \in 1..at : i \in DOMAIN core /\ i # at + 1
      BY <2>1, <2>2
    <3>2. \A i, j \in DOMAIN core : core[i].name = core[j].name => i = j
      BY DEF StagesInv, Tables
    <3>3. DOMAIN items \subseteq {core[i].name : i \in 1..at}
      BY <2>2 DEF Behind
    <3> QED BY <3>1, <3>2, <3>3
  <2>3. ASSUME stage = "validate", phase = "fields", field < Len(core[at + 1].fields)
        PROVE  core[at + 1].fields[field + 1].label \notin seen
    <3> DEFINE fs == core[at + 1].fields
    <3>1. /\ at < Len(core) /\ core[at + 1].kind # "constant" /\ field \in 0..Len(fs)
          /\ seen \subseteq {fs[j].label : j \in 1..field}
      BY <2>3 DEF Behind
    <3>2. IsSequence(fs) /\ DistinctLabels(fs)
      BY <3>1, ItemOfCore
    <3>3. DOMAIN fs = 1..Len(fs) /\ Len(fs) \in Nat
      BY <3>2, SequenceDomain
    <3>4. field + 1 \in DOMAIN fs /\ \A j \in 1..field : j \in DOMAIN fs /\ j # field + 1
      BY <2>3, <3>1, <3>3
    <3> HIDE DEF fs
    <3>5. fs[field + 1].label \notin seen
      BY <3>1, <3>2, <3>4 DEF DistinctLabels
    <3> QED BY <3>5 DEF fs
  <2>4. ASSUME stage = "again", phase # "done", at < Len(surface)
        PROVE  surface[at + 1].name \notin DOMAIN items
    <3>1. at + 1 \in DOMAIN surface /\ \A i \in 1..at : i \in DOMAIN surface /\ i # at + 1
      BY <2>1, <2>4
    <3>2. \A i, j \in DOMAIN surface : surface[i].name = surface[j].name => i = j
      BY <2>4 DEF Behind, DistinctSurface
    <3>3. DOMAIN items \subseteq {surface[i].name : i \in 1..at}
      BY <2>4 DEF Behind
    <3> QED BY <3>1, <3>2, <3>3
  <2>5. ASSUME stage = "again", phase \notin {"item", "done"},
               field < Len(surface[at + 1].fields)
        PROVE  surface[at + 1].fields[field + 1].name \notin seen
    <3> DEFINE fs == surface[at + 1].fields
    <3>1. /\ at < Len(surface) /\ surface[at + 1].kind = "struct" /\ field \in 0..Len(fs)
          /\ seen = {fs[j].name : j \in 1..field}
      BY <2>5 DEF StagesInv, Fields, E!current
    <3>2. at + 1 \in DOMAIN surface
      BY <2>1, <3>1
    <3>3. /\ IsSequence(fs)
          /\ \A j, k \in DOMAIN fs : fs[j].name = fs[k].name => j = k
      BY <2>5, <3>1, <3>2 DEF StagesInv, Places, IsSurfaceModule, Behind, DistinctSurface
    <3>4. DOMAIN fs = 1..Len(fs) /\ Len(fs) \in Nat
      BY <3>3, SequenceDomain
    <3>5. field + 1 \in DOMAIN fs /\ \A j \in 1..field : j \in DOMAIN fs /\ j # field + 1
      BY <2>5, <3>1, <3>4
    <3> HIDE DEF fs
    <3>6. fs[field + 1].name \notin seen
      BY <3>1, <3>3, <3>5
    <3> QED BY <3>6 DEF fs
  <2> QED BY <2>2, <2>3, <2>4, <2>5 DEF NoDuplicatesLater
<1> QED BY <1>1, <1>2, BehindNext, StagesAlways, PTL DEF Spec

=============================================================================
