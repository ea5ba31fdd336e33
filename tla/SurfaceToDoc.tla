---------------------------- MODULE SurfaceToDoc ----------------------------
(***************************************************************************)
(* The documentation generator of fathom/src/pass/surface_to_doc.rs.  One  *)
(* Context writes one document after the other; items and fields are       *)
(* written in order, and every name in a term becomes a link, resolved in  *)
(* the context as it is then.  Of the HTML the anchors and the links of    *)
(* terms are kept; any of the writes may fail.                             *)
(*                                                                         *)
(* The id of an item is <<item>>, that of a field <<item, field>>, and     *)
(* that of a link to nowhere <<>>.  Which names a term has, in the order   *)
(* they are written in, is the recursion of from_term_prec; it is a        *)
(* parameter here, and MCTexts has its definition.                         *)
(***************************************************************************)
EXTENDS SurfaceTerm

CONSTANTS
  NamesIn(_),     \* the names in a term, in order: references and patterns
  ItemNames,      \* the names of items
  FieldNames,     \* the names of fields and parameters
  Terms,          \* the terms of constants, annotations and fields
  MaxItems,       \* items of a document
  MaxFields,      \* fields of a struct
  MaxDocuments    \* documents written with one context

\* A name in a term, and whether it binds.
Use == [name : STRING, binds : BOOLEAN]

ASSUME NamesAssumption == \A term \in Terms \cup {NoType} : NamesIn(term) \in Seq(Use)

VARIABLES
  known,      \* Context.items: the id of each item
  locals,     \* Context.locals: pairs of a name and an id
  phase,      \* "idle", "items", or "fields" inside a struct
  item,       \* the name of the current struct
  labels,     \* the fields of the current struct that are behind us
  params,     \* the parameters of the current struct
  written,    \* the items of the document that are behind us
  anchors,    \* the ids written to the document
  links,      \* the links of the last step
  documents,  \* how many documents were started
  failed      \* whether a write has ever failed

docVars ==
  <<known, locals, phase, item, labels, params, written, anchors, links, documents, failed>>

\* Context::new
NewDocContext == known = <<>> /\ locals = <<>>

DocInit ==
  /\ NewDocContext
  /\ phase = "idle" /\ item = "" /\ labels = <<>> /\ params = {}
  /\ written = <<>> /\ anchors = {} /\ links = <<>> /\ documents = 0 /\ failed = FALSE

-----------------------------------------------------------------------------
Nowhere == <<>>

\* Mutant of GetId: the first local of the name.
GetIdFirst(name) ==
  LET found == {i \in DOMAIN locals : locals[i][1] = name}
  IN  IF found # {} THEN locals[Min(found)][2]
      ELSE IF name \in DOMAIN known THEN known[name] ELSE Nowhere

\* get_id: the last local of the name, or else the item.
GetId(name) ==
  LET found == {i \in DOMAIN locals : locals[i][1] = name}
  IN  IF found # {} THEN locals[Max(found)][2]
      ELSE IF name \in DOMAIN known THEN known[name] ELSE Nowhere

\* A name in a term refers to something; the name of a pattern binds it, and is
\* a link to nowhere (from_pattern).
Reference(name) == [name |-> name, binds |-> FALSE]
PatternName == [name |-> "_", binds |-> TRUE]

Link(use) ==
  [name |-> use.name, binds |-> use.binds, id |-> IF use.binds THEN Nowhere ELSE GetId(use.name)]

\* from_term_prec: the links of a term, in the order they are written in.
FromTerm(term) == [i \in DOMAIN NamesIn(term) |-> Link(NamesIn(term)[i])]

-----------------------------------------------------------------------------
\* from_module, to the first item.
StartDocument ==
  /\ phase = "idle" /\ documents < MaxDocuments
  /\ phase' = "items" /\ documents' = documents + 1
  /\ written' = <<>> /\ anchors' = {} /\ links' = <<>>
  /\ UNCHANGED <<known, locals, item, labels, params, failed>>

FromConstant(name, type, term) ==
  /\ phase = "items" /\ Len(written) < MaxItems
  /\ anchors' = anchors \cup {<<name>>}
  /\ links' = FromTerm(type) \o FromTerm(term)
  /\ known' = Insert(known, name, <<name>>)
  /\ written' = Append(written, name)
  /\ UNCHANGED <<locals, phase, item, labels, params, documents, failed>>

\* from_struct_type, to the first field.  The parameters are not written.
StartStruct(name, type) ==
  /\ phase = "items" /\ Len(written) < MaxItems
  /\ anchors' = anchors \cup {<<name>>}
  /\ links' = FromTerm(type)
  /\ phase' = "fields" /\ item' = name /\ labels' = <<>>
  /\ params' \in SUBSET FieldNames
  /\ UNCHANGED <<known, locals, written, documents, failed>>

FromField(label, type) ==
  /\ phase = "fields" /\ Len(labels) < MaxFields
  /\ anchors' = anchors \cup {<<item, label>>}
  /\ links' = FromTerm(type)
  /\ locals' = Append(locals, <<label, <<item, label>> >>)
  /\ labels' = Append(labels, label)
  /\ UNCHANGED <<known, phase, item, params, written, documents, failed>>

\* Mutant of TruncatedLocals: the fields stay.
TruncatedLocalsNone == locals

\* truncate by the number of fields; as many were pushed.
TruncatedLocals == SubSeq(locals, 1, Len(locals) - Len(labels))

FinishStruct ==
  /\ phase = "fields"
  /\ locals' = TruncatedLocals
  /\ known' = Insert(known, item, <<item>>)
  /\ written' = Append(written, item)
  /\ phase' = "items" /\ links' = <<>>
  /\ UNCHANGED <<item, labels, params, anchors, documents, failed>>

\* The end of from_module.
FinishModule ==
  /\ phase = "items"
  /\ known' = <<>>
  /\ phase' = "idle" /\ links' = <<>>
  /\ UNCHANGED <<locals, item, labels, params, written, anchors, documents, failed>>

\* A write fails and every caller returns with `?`.  The context stays as it is;
\* behind the last field the locals are truncated before the last write.
WriteFails ==
  /\ phase # "idle"
  /\ locals' \in {locals} \cup (IF phase = "fields" THEN {TruncatedLocals} ELSE {})
  /\ phase' = "idle" /\ links' = <<>> /\ failed' = TRUE
  /\ UNCHANGED <<known, item, labels, params, written, anchors, documents>>

DocNext ==
  \/ StartDocument
  \/ \E name \in ItemNames, type \in Terms \cup {NoType}, term \in Terms :
       FromConstant(name, type, term)
  \/ \E name \in ItemNames, type \in Terms \cup {NoType} : StartStruct(name, type)
  \/ \E label \in FieldNames, type \in Terms : FromField(label, type)
  \/ FinishStruct
  \/ FinishModule
  \/ WriteFails

DocSpec == DocInit /\ [][DocNext]_docVars

-----------------------------------------------------------------------------
\* What a name in the current place of the document refers to in the elaborator:
\* a field before it, or else an item before it, of the last definition.
ScopeOf(name) ==
  IF phase = "fields" /\ name \in Range(labels) THEN <<item, name>>
  ELSE IF name \in Range(written) THEN <<name>> ELSE Nowhere

\* A link leads to what its name refers to for the elaborator, unless that is a
\* parameter: those are not written and links to them go astray (`TODO: params`).
LinksFollowScope ==
  [][~failed =>
       \A i \in DOMAIN links' :
         (~links'[i].binds /\ (phase # "fields" \/ links'[i].name \notin params)) =>
           links'[i].id = ScopeOf(links'[i].name)]_docVars

\* What a failed write leaves behind does no harm inside a struct: its own
\* fields still win over stale locals of the same name.
OwnFieldsWin ==
  [][phase = "fields" =>
       \A i \in DOMAIN links' :
         (~links'[i].binds /\ links'[i].name \in Range(labels)) =>
           links'[i].id = <<item, links'[i].name>>]_docVars

=============================================================================
