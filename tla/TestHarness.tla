----------------------------- MODULE TestHarness -----------------------------
(***************************************************************************)
(* fathom-test: the tests of a suite run in parallel (libtest-mimic), each *)
(* through the stages of run_full_test or through run_simple_test, and     *)
(* share the directory of snapshots.  The suite is run several times, with *)
(* FATHOM_BLESS set or not; between two runs a source may be edited.       *)
(*                                                                         *)
(* A test's source is what the directives in it say and what the passes    *)
(* make of it; only its file's text, lines and messages are looked at.     *)
(***************************************************************************)
EXTENDS Reporting

CONSTANTS
  Tests,        \* the tests of the suite
  Stem,         \* test -> file stem its snapshots are named after
  Contents,     \* the texts a snapshot can hold
  Suites,       \* what the sources of the tests can be: functions from tests to sources
  MaxRuns       \* bound on the runs of the suite

ASSUME StemsAreDistinct == \A t, u \in Tests : Stem[t] = Stem[u] => t = u

Absent == "absent"
Partial == "partial"

ASSUME ContentsAssumption == Contents \cap {Absent, Partial} = {}

\* format_file_id: the first file of the test; its pretty-printed core is the second.
FormatFile == 1

\* The messages of the passes are about the file of the test.
TestMessage ==
  { m \in [pass : Passes, kind : Kinds, locations : Seq([file : {FormatFile}, line : Nat] \cup {Generated})] :
      /\ m.kind \in KindsOf[m.pass]
      /\ LET labels == ToDiagnostic(m).labels
         IN  \A i \in DOMAIN labels : labels[i].location.file = FormatFile }

TestSource ==
  [kind : {"Full", "Simple"}, malformed : BOOLEAN, skip : BOOLEAN,
   expected : Seq([line : Nat, severity : ToSet(Severity), pattern : Kinds \cup {"any"}]),
   parse : Seq(TestMessage), elab : Seq(TestMessage), core : Seq(TestMessage),
   elaborates_again : BOOLEAN, same_core : BOOLEAN, parses : BOOLEAN, same_pretty : BOOLEAN,
   has_rust : BOOLEAN, doc : Contents, pretty : Contents]

ASSUME SuitesAssumption == Suites \subseteq [Tests -> TestSource]

VARIABLES
  source,       \* test -> its source
  bless,        \* FATHOM_BLESS is set in this run
  runs,         \* number of the current run
  stage,        \* test -> the stage it is at
  found,        \* test -> found_messages
  failures,     \* test -> the names of its failures
  outcome,      \* test -> "Running", "Passed", "Failed" or "Ignored"
  snapshots,    \* snapshot file -> what it holds
  blessed       \* history: tests whose snapshots were all written or confirmed by the
                \* last run with FATHOM_BLESS that reached them, and whose source stayed

vars == <<source, bless, runs, stage, found, failures, outcome, snapshots, blessed>>

Stages == <<"directives", "parse_surface", "compile_doc", "surface_to_core",
            "roundtrip_surface", "roundtrip_pretty", "binary", "check_diagnostics", "check_failures">>

\* Mutant of SnapshotFile: the extension is lost.
SnapshotFileOfStem(t, extension) == <<Stem[t], "html">>

SnapshotFile(t, extension) == <<Stem[t], extension>>

Fresh ==
  /\ stage = [t \in Tests |-> "directives"]
  /\ found = [t \in Tests |-> <<>>]
  /\ failures = [t \in Tests |-> <<>>]
  /\ outcome = [t \in Tests |-> "Running"]

Init ==
  /\ source \in Suites
  /\ bless \in BOOLEAN /\ runs = 1
  /\ Fresh
  /\ snapshots = [f \in {SnapshotFile(t, e) : t \in Tests, e \in {"html", "core"}} |-> Absent]
  /\ blessed = {}

-----------------------------------------------------------------------------
(* Steps of one test. *)

AtStage(t, s) == stage[t] = s /\ outcome[t] = "Running"

GoOn(t) ==
  stage' = [stage EXCEPT ![t] =
              Stages[(CHOOSE i \in DOMAIN Stages : Stages[i] = stage[t]) + 1]]

Fail(t, names) == failures' = [failures EXCEPT ![t] = @ \o names]
End(t, result) == outcome' = [outcome EXCEPT ![t] = result]

\* The name of a failure, when it happened.
Failure(happened, name) == IF happened THEN <<name>> ELSE <<>>

\* run_simple_test: `fathom check --validate-core` must succeed in silence.
RunSimpleTest(t) ==
  /\ AtStage(t, "directives") /\ source[t].kind = "Simple"
  /\ LET s == source[t]
         all == s.parse \o (IF s.parse = <<>> THEN s.elab \o s.core ELSE <<>>)
     IN  \/ End(t, IF all = <<>> THEN "Passed" ELSE "Failed")
         \/ End(t, "Failed")      \* the command could not be executed
  /\ UNCHANGED <<source, bless, runs, stage, found, failures, snapshots, blessed>>

\* The directives: errors in them fail the test, a reason to skip ends it.
ReadDirectives(t) ==
  /\ AtStage(t, "directives") /\ source[t].kind = "Full"
  /\ \/ End(t, "Failed") /\ UNCHANGED stage       \* the file could not be read
     \/ IF source[t].malformed THEN End(t, "Failed") /\ UNCHANGED stage
        ELSE IF source[t].skip THEN End(t, "Ignored") /\ UNCHANGED stage
        ELSE GoOn(t) /\ UNCHANGED outcome
  /\ UNCHANGED <<source, bless, runs, found, failures, snapshots, blessed>>

ParseSurface(t) ==
  /\ AtStage(t, "parse_surface") /\ GoOn(t)
  /\ found' = [found EXCEPT ![t] = @ \o source[t].parse]
  /\ UNCHANGED <<source, bless, runs, failures, outcome, snapshots, blessed>>

-----------------------------------------------------------------------------
(* snapshot.rs *)

Kept(error) == [error |-> error, snapshots |-> snapshots]
Held(file, contents, error) == [error |-> error, snapshots |-> [snapshots EXCEPT ![file] = contents]]

\* A write may fail before it touches the file, or halfway.
BlessSnapshot(file, contents) ==
  {Held(file, contents, "none"), Kept("WriteSnapshot"), Held(file, Partial, "WriteSnapshot")}

\* Mutant of Compare: a snapshot that differs is left alone although FATHOM_BLESS is set.
CompareBlessingNewOnly(file, contents) ==
  IF snapshots[file] # Absent
  THEN {Kept("ReadSnapshot")} \cup
       (IF snapshots[file] = contents THEN {Kept("none")}
        ELSE IF bless THEN {Kept("none")} ELSE {Kept("UnexpectedChangesFound")})
  ELSE IF bless THEN BlessSnapshot(file, contents) ELSE {Kept("ExistingSnapshotNotFound")}

Compare(file, contents) ==
  IF snapshots[file] # Absent
  THEN {Kept("ReadSnapshot")} \cup
       (IF snapshots[file] = contents THEN {Kept("none")}
        ELSE IF bless THEN BlessSnapshot(file, contents)
        ELSE {Kept("UnexpectedChangesFound")})
  ELSE IF bless THEN BlessSnapshot(file, contents) ELSE {Kept("ExistingSnapshotNotFound")}

-----------------------------------------------------------------------------
CompileDoc(t) ==
  /\ AtStage(t, "compile_doc") /\ GoOn(t)
  /\ \E r \in Compare(SnapshotFile(t, "html"), source[t].doc) :
       /\ snapshots' = r.snapshots
       /\ Fail(t, Failure(r.error # "none", r.error))
  /\ UNCHANGED <<source, bless, runs, found, outcome, blessed>>

\* The messages of the elaboration are for the directives to expect; those of the
\* validation are a failure of their own.
SurfaceToCore(t) ==
  /\ AtStage(t, "surface_to_core") /\ GoOn(t)
  /\ LET s == IF source[t].parse = <<>> THEN source[t] ELSE [source[t] EXCEPT !.elab = <<>>, !.core = <<>>]
     IN  /\ found' = [found EXCEPT ![t] = @ \o s.elab]
         /\ Fail(t, Failure(s.core # <<>>, "surface_to_core: typing"))
  /\ UNCHANGED <<source, bless, runs, outcome, snapshots, blessed>>

RoundtripSurfaceToCore(t) ==
  /\ AtStage(t, "roundtrip_surface") /\ GoOn(t)
  /\ Fail(t, Failure(~source[t].elaborates_again, "roundtrip_surface_to_core: surface_to_core")
             \o Failure(~source[t].same_core, "roundtrip_surface_to_core: core"))
  /\ UNCHANGED <<source, bless, runs, found, outcome, snapshots, blessed>>

RoundtripCoreToPretty(t) ==
  /\ AtStage(t, "roundtrip_pretty") /\ GoOn(t)
  /\ \E r \in Compare(SnapshotFile(t, "core"), source[t].pretty) :
       /\ snapshots' = r.snapshots
       /\ Fail(t, Failure(r.error # "none", r.error)
                  \o Failure(~source[t].parses, "roundtrip_pretty_core: parse core")
                  \o Failure(~source[t].same_pretty, "roundtrip_pretty_core: core"))
  /\ blessed' = IF bless /\ {"ReadSnapshot", "WriteSnapshot"} \cap ToSet(failures'[t]) = {}
                THEN blessed \cup {t} ELSE IF bless THEN blessed \ {t} ELSE blessed
  /\ UNCHANGED <<source, bless, runs, found, outcome>>

\* Without a .rs file next to the source there is nothing to build and run.
BinaryParseTests(t) ==
  /\ AtStage(t, "binary") /\ GoOn(t)
  /\ \/ ~source[t].has_rust /\ UNCHANGED failures
     \/ source[t].has_rust /\ UNCHANGED failures
     \/ /\ source[t].has_rust
        /\ \E step \in {"execute rustc", "rust compile output", "execute test", "rust test output"} :
             Fail(t, <<step>>)
  /\ UNCHANGED <<source, bless, runs, found, outcome, snapshots, blessed>>

-----------------------------------------------------------------------------
(* Expected and found diagnostics. *)

\* External: Regex::is_match; the pattern "any" is what a directive without one has.
IsMatch(pattern, message) == pattern \in {"any", message}

IsExpected(diagnostic, expected) ==
  \E i \in DOMAIN diagnostic.labels :
    /\ diagnostic.labels[i].style = "Primary"
    /\ diagnostic.labels[i].location.file = FormatFile
    /\ diagnostic.labels[i].location.line = expected.line
    /\ diagnostic.severity = expected.severity
    /\ IsMatch(expected.pattern, diagnostic.message)

\* Mutant of RemoveIndices: the smallest index goes first, and the others have moved.
RemoveForward(s, indices) ==
  LET rest[k \in 0..Len(s)] ==
        IF k = 0 THEN s
        ELSE IF k \in indices /\ k \in DOMAIN rest[k - 1] THEN RemoveAt(rest[k - 1], k)
        ELSE rest[k - 1]
  IN  rest[Len(s)]

\* Indices are removed from the back: rest[k] is what is left once the last k
\* positions have been looked at.
RemoveIndices(s, indices) ==
  LET rest[k \in 0..Len(s)] ==
        IF k = 0 THEN s
        ELSE LET i == Len(s) - k + 1
             IN  IF i \in indices THEN RemoveAt(rest[k - 1], i) ELSE rest[k - 1]
  IN  rest[Len(s)]

\* What retain_unexpected leaves of both sides.
Unexpected(diagnostics, expected) ==
  RemoveIndices(diagnostics, {i \in DOMAIN diagnostics :
                         \E j \in DOMAIN expected : IsExpected(diagnostics[i], expected[j])})
Missing(diagnostics, expected) ==
  RemoveIndices(expected, {j \in DOMAIN expected :
                      \E i \in DOMAIN diagnostics : IsExpected(diagnostics[i], expected[j])})

CheckDiagnostics(t) ==
  /\ AtStage(t, "check_diagnostics") /\ GoOn(t)
  /\ LET diagnostics == [i \in DOMAIN found[t] |-> ToDiagnostic(found[t][i])]
         expected == source[t].expected
     IN  Fail(t, Failure(Unexpected(diagnostics, expected) # <<>>, "unexpected_diagnostics")
                 \o Failure(Missing(diagnostics, expected) # <<>>, "expected_diagnostics"))
  /\ UNCHANGED <<source, bless, runs, found, outcome, snapshots, blessed>>

CheckFailures(t) ==
  /\ AtStage(t, "check_failures")
  /\ End(t, IF failures[t] = <<>> THEN "Passed" ELSE "Failed")
  /\ UNCHANGED <<source, bless, runs, stage, found, failures, snapshots, blessed>>

-----------------------------------------------------------------------------
\* The suite again, after an edit of one source or none.
RunAgain ==
  /\ runs < MaxRuns /\ \A t \in Tests : outcome[t] # "Running"
  /\ runs' = runs + 1 /\ bless' \in BOOLEAN
  /\ \/ UNCHANGED <<source, blessed>>
     \/ /\ source' \in Suites \ {source}
        /\ blessed' = {t \in blessed : source'[t] = source[t]}
  /\ stage' = [t \in Tests |-> "directives"]
  /\ found' = [t \in Tests |-> <<>>]
  /\ failures' = [t \in Tests |-> <<>>]
  /\ outcome' = [t \in Tests |-> "Running"]
  /\ UNCHANGED snapshots

Next ==
  \/ \E t \in Tests :
       \/ RunSimpleTest(t) \/ ReadDirectives(t) \/ ParseSurface(t) \/ CompileDoc(t)
       \/ SurfaceToCore(t) \/ RoundtripSurfaceToCore(t) \/ RoundtripCoreToPretty(t)
       \/ BinaryParseTests(t) \/ CheckDiagnostics(t) \/ CheckFailures(t)
  \/ RunAgain

Spec == Init /\ [][Next]_vars

-----------------------------------------------------------------------------
Passed(t) == outcome[t] = "Passed" /\ source[t].kind = "Full"
PrimaryLines(m) ==
  LET labels == ToDiagnostic(m).labels
  IN  {labels[i].location.line : i \in {j \in DOMAIN labels : labels[j].style = "Primary"}}
Answers(m, e) ==
  /\ e.line \in PrimaryLines(m) /\ e.severity = ToDiagnostic(m).severity
  /\ e.pattern \in {"any", m.kind}

\* What fails a full test are exactly the messages that no directive announces on
\* the line they are about, and the directives that no message answers: removing
\* the matched ones by index takes out neither too few nor too many.
DirectivesDecide ==
  \A t \in Tests : AtStage(t, "check_failures") =>
    /\ "unexpected_diagnostics" \in ToSet(failures[t]) <=>
         \E i \in DOMAIN found[t] : \A j \in DOMAIN source[t].expected :
           ~Answers(found[t][i], source[t].expected[j])
    /\ "expected_diagnostics" \in ToSet(failures[t]) <=>
         \E j \in DOMAIN source[t].expected : \A i \in DOMAIN found[t] :
           ~Answers(found[t][i], source[t].expected[j])

\* A full test that passes holds its output: no stage before it hid a failure of a
\* later one, and both snapshots are what the source compiles to.
PassedMeansAllStages ==
  \A t \in Tests : Passed(t) =>
    /\ source[t].parse = <<>> => found[t] = source[t].elab /\ source[t].core = <<>>
    /\ source[t].elaborates_again /\ source[t].same_core
    /\ source[t].parses /\ source[t].same_pretty
    /\ snapshots[SnapshotFile(t, "html")] = source[t].doc
    /\ snapshots[SnapshotFile(t, "core")] = source[t].pretty

\* Blessing settles the snapshots: until its source changes, a test never again
\* fails for one that is missing or differs, whatever the other tests do.
BlessedSnapshotsHold ==
  \A t \in blessed :
    {"UnexpectedChangesFound", "ExistingSnapshotNotFound"} \cap ToSet(failures[t]) = {}
=============================================================================
