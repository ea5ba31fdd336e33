------------------------------ MODULE Reporting ------------------------------
(***************************************************************************)
(* The messages of fathom/src/reporting.rs and the diagnostics they become.*)
(* A message is the pass it comes from, its kind, and the locations it     *)
(* carries, in the order in which to_diagnostic turns them into labels.    *)
(* A diagnostic keeps what the driver and the tests look at: its severity, *)
(* its message (the kind stands for the wording) and its labels.           *)
(***************************************************************************)
EXTENDS Integers, Sequences, SequencesExt

Generated == [generated |-> TRUE]
FileRange(file, line) == [file |-> file, line |-> line]

Message(pass, kind, locations) == [pass |-> pass, kind |-> kind, locations |-> locations]

Severity == <<"Help", "Note", "Warning", "Error", "Bug">>
Below(s, t) == \E i, j \in DOMAIN Severity : Severity[i] = s /\ Severity[j] = t /\ i < j

-----------------------------------------------------------------------------
(* Labels: a generated location has none. *)

Label(style, location) == [style |-> style, location |-> location]

Labels(styles, locations) ==
  LET all == [i \in DOMAIN locations |-> Label(styles[i], locations[i])]
  IN  SelectSeq(all, LAMBDA label : label.location # Generated)

Primary(locations) == Labels([i \in DOMAIN locations |-> "Primary"], locations)

PrimaryThenSecondary(locations) ==
  Labels([i \in DOMAIN locations |-> IF i = 1 THEN "Primary" ELSE "Secondary"], locations)

PrimaryUntilLast(locations) ==
  Labels([i \in DOMAIN locations |-> IF i = Len(locations) THEN "Secondary" ELSE "Primary"],
         locations)

Diagnostic(severity, m, labels) ==
  [severity |-> severity, message |-> m.kind, labels |-> labels]

Error(m) == Diagnostic("Error", m, Primary(m.locations))
Bug(m) == Diagnostic("Bug", m, Primary(m.locations))

-----------------------------------------------------------------------------
(* Lexing, parsing and literals: an error, at one location. *)

LexerKinds == {"InvalidToken"}
LexerDiagnostic(m) == Error(m)

ParseKinds == {"UnrecognizedEof", "UnrecognizedToken", "ExtraToken"}
ParseDiagnostic(m) == Error(m)

LiteralParseKinds ==
  {"ExpectedRadixOrDecimalDigit", "ExpectedStartOfNumericLiteral", "ExpectedDigit",
   "ExpectedDigitOrSeparator", "ExpectedDigitSeparatorOrExp", "ExpectedDigitSeparatorFracOrExp",
   "FloatLiteralExponentNotSupported", "UnsupportedFloatLiteralBase", "UnexpectedEndOfLiteral"}
LiteralParseDiagnostic(m) == Error(m)

\* What a failed LALRPOP parse leaves behind: its error, or the lexer's own.
FromLalrpop(error, location) ==
  CASE error = "InvalidToken" -> Message("Lexer", "InvalidToken", <<location>>)
    [] error = "UnrecognizedEOF" -> Message("Parse", "UnrecognizedEof", <<location>>)
    [] error \in {"UnrecognizedToken", "ExtraToken"} -> Message("Parse", error, <<location>>)
    [] error = "User" -> Message("Lexer", "InvalidToken", <<location>>)

-----------------------------------------------------------------------------
(* Core typing: a bug of the elaborator, with one exception. *)

CoreTypingKinds ==
  {"GlobalNameNotFound", "ItemNameNotFound", "LocalIndexNotFound", "FieldRedeclaration",
   "ItemRedefinition", "TypeMismatch", "UniverseMismatch", "TermHasNoType", "NotAFunction",
   "FieldNotFound", "AmbiguousTerm", "UnexpectedArrayTerm", "DuplicateStructFields",
   "MissingStructFields", "UnexpectedStructFields", "UnexpectedStructTerm"}

CoreTypingTermDiagnostic(m) ==
  IF m.kind \in {"ItemRedefinition", "NotAFunction"}
  THEN Diagnostic("Bug", m, PrimaryThenSecondary(m.locations)) ELSE Bug(m)

CoreTypingStructDiagnostic(m) ==
  CASE m.kind = "DuplicateStructFields" -> Error(m)
    [] m.kind = "MissingStructFields" -> Diagnostic("Bug", m, PrimaryThenSecondary(m.locations))
    [] m.kind = "UnexpectedStructFields" -> Diagnostic("Bug", m, PrimaryUntilLast(m.locations))
    [] m.kind = "UnexpectedStructTerm" -> Bug(m)

StructKinds ==
  {"DuplicateStructFields", "MissingStructFields", "UnexpectedStructFields", "UnexpectedStructTerm"}

CoreTypingDiagnostic(m) ==
  IF m.kind \in StructKinds THEN CoreTypingStructDiagnostic(m) ELSE CoreTypingTermDiagnostic(m)

-----------------------------------------------------------------------------
(* Elaboration: an error in the source, or a warning. *)

TermKinds ==
  {"MissingStructAnnotation", "InvalidStructAnnotation", "FieldRedeclaration", "ItemRedefinition",
   "TypeMismatch", "UniverseMismatch", "TermHasNoType", "NotAFunction", "FieldNotFound"}
SurfaceTermDiagnostic(m) ==
  IF m.kind \in {"FieldRedeclaration", "ItemRedefinition", "NotAFunction", "FieldNotFound"}
  THEN Diagnostic("Error", m, PrimaryThenSecondary(m.locations)) ELSE Error(m)

ShapeKinds ==
  {"AmbiguousMatchExpression", "VarNameNotFound", "MismatchedArrayLength", "UnexpectedSequenceTerm",
   "NumericLiteralNotSupported", "AmbiguousSequenceTerm", "AmbiguousNumericLiteral",
   "AmbiguousStructTerm"}
SurfaceShapeDiagnostic(m) == Error(m)

PatternKinds == {"UnsupportedPatternType", "NoDefaultPattern", "UnreachablePattern"}
SurfacePatternDiagnostic(m) ==
  IF m.kind = "UnreachablePattern" THEN Diagnostic("Warning", m, Primary(m.locations)) ELSE Error(m)

SurfaceStructDiagnostic(m) ==
  CASE m.kind = "MissingStructFields" -> Diagnostic("Error", m, PrimaryThenSecondary(m.locations))
    [] m.kind = "UnexpectedStructFields" -> Diagnostic("Error", m, PrimaryUntilLast(m.locations))
    [] OTHER -> Error(m)

SurfaceToCoreKinds == TermKinds \cup ShapeKinds \cup PatternKinds \cup StructKinds

SurfaceToCoreDiagnostic(m) ==
  CASE m.kind \in StructKinds -> SurfaceStructDiagnostic(m)
    [] m.kind \in ShapeKinds -> SurfaceShapeDiagnostic(m)
    [] m.kind \in PatternKinds -> SurfacePatternDiagnostic(m)
    [] m.kind \in TermKinds -> SurfaceTermDiagnostic(m)

-----------------------------------------------------------------------------
Passes == {"Global", "Lexer", "Parse", "LiteralParse", "CoreTyping", "SurfaceToCore"}
KindsOf ==
  [Global |-> {"NotYetImplemented", "ReadFile"}, Lexer |-> LexerKinds, Parse |-> ParseKinds,
   LiteralParse |-> LiteralParseKinds, CoreTyping |-> CoreTypingKinds,
   SurfaceToCore |-> SurfaceToCoreKinds]
Kinds == UNION {KindsOf[pass] : pass \in Passes}

\* Message::to_diagnostic.  A file that cannot be read has no place to point at.
ToDiagnostic(m) ==
  CASE m.pass = "Global" /\ m.kind = "NotYetImplemented" -> Bug(m)
    [] m.pass = "Global" /\ m.kind = "ReadFile" -> Diagnostic("Error", m, <<>>)
    [] m.pass = "Lexer" /\ m.kind \in LexerKinds -> LexerDiagnostic(m)
    [] m.pass = "Parse" /\ m.kind \in ParseKinds -> ParseDiagnostic(m)
    [] m.pass = "LiteralParse" /\ m.kind \in LiteralParseKinds -> LiteralParseDiagnostic(m)
    [] m.pass = "CoreTyping" /\ m.kind \in CoreTypingKinds -> CoreTypingDiagnostic(m)
    [] m.pass = "SurfaceToCore" /\ m.kind \in SurfaceToCoreKinds -> SurfaceToCoreDiagnostic(m)

=============================================================================
