----------------------------- MODULE Directives -----------------------------
(***************************************************************************)
(* The test directives of fathom-test/src/directives: `//~ key: value` in  *)
(* the comments of a source file.  The lexer reads the source character    *)
(* by character; each token it yields goes to the parser at once, which    *)
(* records an expected diagnostic or a reason to skip the test, or reports *)
(* what it does not understand.                                            *)
(*                                                                         *)
(* A character is a string: "nl" ends a line, "sp" is a space, a keyword   *)
(* such as "error" stands for its letters, and a value with "(" in it is   *)
(* no regex.                                                               *)
(***************************************************************************)
EXTENDS Integers, Sequences, SequencesExt, FiniteSets

CONSTANT Sources      \* the sources to look for directives in

VARIABLES
  source,       \* the file
  pos,          \* number of characters behind the lexer
  mode,         \* where in the lexer's loops: "top", "slash", "slashes", "comment",
                \* "space0", "key", "space1", "value", or "done"
  start,        \* position of the comment the lexer is in
  key, value,   \* what has been read of them
  directives,   \* Directives: the reason to skip and the expected diagnostics
  diagnostics,  \* what the parser complains about
  found         \* history: what the lexer yielded, with the line of each

vars == <<source, pos, mode, start, key, value, directives, diagnostics, found>>

\* None: a value that there is starts with a character that is not a space.
NoValue == <<>>
NoSkip == <<>>

Init ==
  /\ source \in Sources
  /\ pos = 0 /\ mode = "top" /\ start = 0 /\ key = <<>> /\ value = <<>>
  /\ directives = [skip |-> NoSkip, expected |-> <<>>]
  /\ diagnostics = <<>> /\ found = <<>>

-----------------------------------------------------------------------------
(* The parser. *)

Severities ==
  [bug |-> "Bug", error |-> "Error", warning |-> "Warning", note |-> "Note", help |-> "Help"]

\* External: str::trim, SimpleFiles::line_index and Regex::from_str.
Trim(s) ==
  LET solid == {i \in DOMAIN s : s[i] # "sp"}
  IN  IF solid = {} THEN <<>>
      ELSE SubSeq(s, CHOOSE i \in solid : \A j \in solid : i <= j,
                     CHOOSE i \in solid : \A j \in solid : j <= i)
LineIndex(p) == Cardinality({i \in 1..p : source[i] = "nl"})
IsRegex(s) == ~Contains(s, "(")

Complain(kind) ==
  /\ diagnostics' = Append(diagnostics, kind)
  /\ UNCHANGED directives

Skip(reason) ==
  IF reason = NoValue THEN Complain("MissingReason")
  ELSE IF directives.skip # NoSkip THEN Complain("DuplicateDirective")
  ELSE /\ directives' = [directives EXCEPT !.skip = reason]
       /\ UNCHANGED diagnostics

\* The pattern of a directive without one matches every message.
ExpectDiagnostic(severity, pattern) ==
  IF pattern # NoValue /\ ~IsRegex(pattern) THEN Complain("InvalidRegex")
  ELSE /\ directives' = [directives EXCEPT !.expected =
            Append(@, [line |-> LineIndex(start), severity |-> severity, pattern |-> pattern])]
       /\ UNCHANGED diagnostics

ExpectDirective(k, v) ==
  IF k = <<"SKIP">> THEN Skip(v)
  ELSE IF Len(k) = 1 /\ k[1] \in DOMAIN Severities THEN ExpectDiagnostic(Severities[k[1]], v)
  ELSE Complain("UnknownDirective")

-----------------------------------------------------------------------------
(* The lexer: what it does with the next character, or without one. *)

More == mode # "done" /\ pos < Len(source)
Ch == source[pos + 1]

Advance(m) == pos' = pos + 1 /\ mode' = m /\ UNCHANGED source

Quiet == UNCHANGED <<start, key, value, directives, diagnostics, found>>

\* A token goes to the parser; the next call of the iterator starts at the top.
Emit(k, v) ==
  /\ ExpectDirective(k, v)
  /\ found' = Append(found, [line |-> LineIndex(start), key |-> k, value |-> v])
  /\ UNCHANGED <<start, key, value>>

Unexpected(kind) ==
  /\ Complain(kind)
  /\ found' = Append(found, [line |-> LineIndex(start), error |-> TRUE])
  /\ UNCHANGED <<start, key, value>>

Top ==
  /\ More /\ mode = "top"
  /\ IF Ch = "/"
     THEN Advance("slash") /\ start' = pos /\ UNCHANGED <<key, value, directives, diagnostics, found>>
     ELSE Advance("top") /\ Quiet

SecondSlash ==
  /\ More /\ mode = "slash"
  /\ Advance(IF Ch = "/" THEN "slashes" ELSE "top") /\ Quiet

\* Mutant of CommentOrDirective: the tilde may come after a space.
CommentOrDirectiveLater ==
  /\ More /\ mode = "slashes"
  /\ Advance(IF Ch = "~" THEN "space0" ELSE IF Ch = "sp" THEN "slashes" ELSE "comment") /\ Quiet

\* The third character decides, whatever it is: the end of the line too.
CommentOrDirective ==
  /\ More /\ mode = "slashes"
  /\ Advance(IF Ch = "~" THEN "space0" ELSE "comment") /\ Quiet

Comment ==
  /\ More /\ mode = "comment"
  /\ Advance(IF Ch = "nl" THEN "top" ELSE "comment") /\ Quiet

SpaceBeforeKey ==
  /\ More /\ mode = "space0"
  /\ \/ Ch = "nl" /\ Advance("top") /\ Unexpected("UnexpectedEndOfLine")
     \/ Ch = "sp" /\ Advance("space0") /\ Quiet
     \/ /\ Ch \notin {"nl", "sp"} /\ Advance("key")
        /\ key' = <<Ch>> /\ UNCHANGED <<start, value, directives, diagnostics, found>>

Key ==
  /\ More /\ mode = "key"
  /\ \/ Ch = ":" /\ Advance("space1") /\ Quiet
     \/ Ch = "nl" /\ Advance("top") /\ Emit(Trim(key), NoValue)
     \/ /\ Ch \notin {":", "nl"} /\ Advance("key")
        /\ key' = Append(key, Ch) /\ UNCHANGED <<start, value, directives, diagnostics, found>>

SpaceBeforeValue ==
  /\ More /\ mode = "space1"
  /\ \/ Ch = "nl" /\ Advance("top") /\ Unexpected("UnexpectedEndOfLine")
     \/ Ch = "sp" /\ Advance("space1") /\ Quiet
     \/ /\ Ch \notin {"nl", "sp"} /\ Advance("value")
        /\ value' = <<Ch>> /\ UNCHANGED <<start, key, directives, diagnostics, found>>

Value ==
  /\ More /\ mode = "value"
  /\ \/ Ch = "nl" /\ Advance("top") /\ Emit(Trim(key), Trim(value))
     \/ /\ Ch # "nl" /\ Advance("value")
        /\ value' = Append(value, Ch) /\ UNCHANGED <<start, key, directives, diagnostics, found>>

\* The end of the file: a value ends there, a key is forgotten.
EndOfFile ==
  /\ mode # "done" /\ pos = Len(source)
  /\ mode' = "done" /\ UNCHANGED <<source, pos>>
  /\ IF mode = "value" THEN Emit(Trim(key), Trim(value))
     ELSE IF mode \in {"space0", "space1"} THEN Unexpected("UnexpectedEndOfFile")
     ELSE Quiet

Next ==
  \/ Top \/ SecondSlash \/ CommentOrDirective \/ Comment
  \/ SpaceBeforeKey \/ Key \/ SpaceBeforeValue \/ Value \/ EndOfFile

Spec == Init /\ [][Next]_vars

-----------------------------------------------------------------------------
(* What the grammar in the documentation of the lexer says of one line. *)

\* A line lies between the ends of two lines, or the start of the file and one.
IsLine(open, close) ==
  /\ close \in DOMAIN source /\ source[close] = "nl"
  /\ open \in 0 .. close - 1 /\ (open = 0 \/ source[open] = "nl")
  /\ \A i \in open + 1 .. close - 1 : source[i] # "nl"
Text(open, close) == SubSeq(source, open + 1, close - 1)

Slashes(l) == {i \in 1..(Len(l) - 1) : l[i] = "/" /\ l[i + 1] = "/"}
FirstOf(S) == CHOOSE i \in S : \A j \in S : i <= j
Behind(l) == SubSeq(l, FirstOf(Slashes(l)) + 2, Len(l))

IsEmptyComment(l) == Slashes(l) # {} /\ Behind(l) = <<>>
IsDirective(l) == Slashes(l) # {} /\ Behind(l) # <<>> /\ Behind(l)[1] = "~"

\* What the rest behind a tilde says: key (":" value)?, where neither may be empty;
\* the key may start with a colon.
Reading(n, rest) ==
  LET body == Trim(rest)
      colons == {i \in DOMAIN body : i > 1 /\ body[i] = ":"}
      k == IF colons = {} THEN body ELSE SubSeq(body, 1, FirstOf(colons) - 1)
      v == Trim(SubSeq(body, FirstOf(colons) + 1, Len(body)))
  IN  IF body = <<>> \/ (colons # {} /\ v = <<>>) THEN [line |-> n, error |-> TRUE]
      ELSE [line |-> n, key |-> Trim(k), value |-> IF colons = {} THEN NoValue ELSE v]

\* The tokens for line n, with text l, are its directive if it has one, or none.
ReadsLine(tokens, n, l) ==
  LET on == {i \in DOMAIN tokens : tokens[i].line = n}
  IN  IF IsDirective(l) THEN \E i \in on : on = {i} /\ tokens[i] = Reading(n, Tail(Behind(l)))
      ELSE on = {}

\* The line that starts behind `open` is behind an empty comment.
IsHidden(open) ==
  \E before \in 0 .. open : IsLine(before, open) /\ IsEmptyComment(Text(before, open))

-----------------------------------------------------------------------------
\* The lines the lexer misreads are those directly behind an empty comment: `//`
\* at the end of a line makes it take the next line for the comment's text.
OnlyEmptyCommentsHideDirectives ==
  mode = "done" =>
    \A open, close \in 0 .. Len(source) :
      IsLine(open, close) /\ ~IsHidden(open) =>
        ReadsLine(found, LineIndex(open), Text(open, close))

\* A token that is not the reason to skip the test, as an expectation.
IsExpectation(f) == "key" \in DOMAIN f /\ f.key # <<"SKIP">>
Expectation(f) == [line |-> f.line, severity |-> Severities[f.key[1]], pattern |-> f.value]
Expectations(tokens) ==
  LET upto[i \in 0 .. Len(tokens)] ==
        IF i = 0 THEN <<>>
        ELSE IF IsExpectation(tokens[i]) THEN Append(upto[i - 1], Expectation(tokens[i]))
        ELSE upto[i - 1]
  IN  upto[Len(tokens)]

\* A directive that the parser takes in silence is one the test acts on: each
\* token is an expectation, the reason to skip, or a diagnostic that fails the
\* test, and the expectations are for the lines and values of their directives.
DirectivesAreKept ==
  /\ Len(found) = Len(directives.expected) + Len(diagnostics)
                  + (IF directives.skip = NoSkip THEN 0 ELSE 1)
  /\ diagnostics = <<>> => directives.expected = Expectations(found)

\* Both halves: directives reach the parser, and what the parser takes is kept.
DirectivesAreRead == OnlyEmptyCommentsHideDirectives /\ DirectivesAreKept

=============================================================================
