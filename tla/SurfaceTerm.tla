----------------------------- MODULE SurfaceTerm -----------------------------
(***************************************************************************)
(* The surface syntax of fathom/src/lang/surface.rs.                       *)
(*                                                                         *)
(* Names are strings.  The core modules know a field by a number (the      *)
(* order of BTreeMap); Label gives every name its number, in the order of  *)
(* the strings.  A number literal is the sequence of its characters.       *)
(***************************************************************************)
EXTENDS CoreTerm, Literal

CONSTANT NameOrder     \* the names of fields and parameters, in order

ASSUME NamesAreDistinct ==
  \A i, j \in DOMAIN NameOrder : NameOrder[i] = NameOrder[j] => i = j

Label(name) == CHOOSE i \in DOMAIN NameOrder : NameOrder[i] = name

-----------------------------------------------------------------------------
\* TermData
SName(name) == [s |-> "name", name |-> name]
SAnn(term, type) == [s |-> "ann", term |-> term, type |-> type]
STypeType == [s |-> "type"]
SKindType == [s |-> "kind"]
SFunctionType(param, body) == [s |-> "fun", param |-> param, body |-> body]
SFunctionElim(head, args) == [s |-> "app", head |-> head, args |-> args]
SStructTerm(defs) == [s |-> "struct", defs |-> defs]
SStructElim(head, label) == [s |-> "proj", head |-> head, label |-> label]
SSequenceTerm(elems) == [s |-> "seq", elems |-> elems]
SNumberLiteral(source) == [s |-> "num", source |-> source]
SIf(head, if_true, if_false) ==
  [s |-> "if", head |-> head, if_true |-> if_true, if_false |-> if_false]
SMatch(head, branches) == [s |-> "match", head |-> head, branches |-> branches]
SFormatType == [s |-> "format"]
SRepr == [s |-> "repr"]
SError == [s |-> "error"]

\* PatternData, and a branch of a match.
NamePattern == [p |-> "name"]
NumberPattern(source) == [p |-> "num", source |-> source]
Branch(pattern, term) == [pattern |-> pattern, term |-> term]

\* FieldDeclaration and the parameters of a struct; FieldDefinition.
SDeclaration(name, type) == [name |-> name, type |-> type]
SDefinition(name, term) == [name |-> name, term |-> term]

\* Constant and StructType; an annotation may be absent.
NoType == [s |-> "none"]
SConstant(name, type, term) ==
  [name |-> name, kind |-> "constant", type |-> type, term |-> term]
SStruct(name, params, type, fields) ==
  [name |-> name, kind |-> "struct", params |-> params, type |-> type, fields |-> fields]

=============================================================================
