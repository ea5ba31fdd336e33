---------------------------- MODULE MCTestHarness ----------------------------
\* Sources that fail at each stage and in each way, alone, and pairs of tests side
\* by side; two runs, so that the second meets the snapshots of the first.
EXTENDS TestHarness

Line(n) == FileRange(1, n)
Expect(line, severity, pattern) == [line |-> line, severity |-> severity, pattern |-> pattern]

Mismatch == Message("SurfaceToCore", "TypeMismatch", <<Line(2)>>)
Redefinition == Message("SurfaceToCore", "ItemRedefinition", <<Line(2), Line(1)>>)
Unreachable == Message("SurfaceToCore", "UnreachablePattern", <<Line(2)>>)
SyntaxError == Message("Parse", "UnrecognizedToken", <<Line(1)>>)
MissingFields == Message("CoreTyping", "MissingStructFields", <<Line(2), Line(1)>>)
Lost == Message("SurfaceToCore", "VarNameNotFound", <<Generated>>)

Clean ==
  [kind |-> "Full", malformed |-> FALSE, skip |-> FALSE, expected |-> <<>>, parse |-> <<>>,
   elab |-> <<>>, core |-> <<>>, elaborates_again |-> TRUE, same_core |-> TRUE, parses |-> TRUE, same_pretty |-> TRUE,
   has_rust |-> FALSE, doc |-> "doc", pretty |-> "core"]

\* Sources whose messages and directives meet, and ones where they do not.
DiagnosticSources ==
  { [Clean EXCEPT !.elab = <<Redefinition, Mismatch, Unreachable>>, !.expected = e] : e \in
      { <<Expect(2, "Error", "any"), Expect(2, "Warning", "UnreachablePattern")>>,
        <<Expect(2, "Error", "ItemRedefinition"), Expect(2, "Warning", "any")>>,
        <<Expect(1, "Error", "ItemRedefinition"), Expect(2, "Error", "TypeMismatch"), Expect(2, "Warning", "any")>> } }
  \cup { [Clean EXCEPT !.parse = <<SyntaxError>>, !.expected = <<Expect(1, "Error", "any")>>],
         [Clean EXCEPT !.elab = <<Lost>>, !.expected = <<Expect(1, "Error", "any")>>],
         [Clean EXCEPT !.elab = <<Mismatch>>, !.core = <<MissingFields>>, !.expected = <<Expect(2, "Error", "any")>>] }

StageSources ==
  { [Clean EXCEPT !.same_core = FALSE], [Clean EXCEPT !.elaborates_again = FALSE], [Clean EXCEPT !.parses = FALSE, !.same_pretty = FALSE], [Clean EXCEPT !.same_pretty = FALSE],
    [Clean EXCEPT !.has_rust = TRUE], [Clean EXCEPT !.malformed = TRUE], [Clean EXCEPT !.skip = TRUE],
    [Clean EXCEPT !.kind = "Simple"], [Clean EXCEPT !.kind = "Simple", !.elab = <<Unreachable>>] }

SnapshotSources == { Clean, [Clean EXCEPT !.doc = "doc2"], [Clean EXCEPT !.pretty = "core2"] }

MCTests == {"a", "b"}
MCStem == [t \in MCTests |-> t]
MCContents == {"doc", "doc2", "core", "core2"}
MCMaxRuns == 2

\* One test, beside one that is ignored; and two tests side by side.
Ignored == [Clean EXCEPT !.skip = TRUE]
Alone(s) == [t \in MCTests |-> IF t = "a" THEN s ELSE Ignored]
MCSuites ==
  {Alone(s) : s \in DiagnosticSources \cup StageSources \cup SnapshotSources}
  \cup [MCTests -> {Clean, [Clean EXCEPT !.doc = "doc2"]}]

=============================================================================
