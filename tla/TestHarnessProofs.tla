------------------------- MODULE TestHarnessProofs -------------------------
(***************************************************************************)
(* Proofs about the test harness, for every set of tests, every source a   *)
(* test can have, any number of runs and every interleaving of the tests.  *)
(***************************************************************************)
EXTENDS TestHarness, DataInduction

-----------------------------------------------------------------------------
(* Sequences of failures. *)

\* What two sequences hold together.
LEMMA ToSetConcat ==
  ASSUME NEW S, NEW s \in Seq(S), NEW t \in Seq(S)
  PROVE  /\ s \o t \in Seq(S)
         /\ ToSet(s \o t) = ToSet(s) \cup ToSet(t)
<1>1. /\ s \o t \in Seq(S) /\ Len(s \o t) = Len(s) + Len(t)
      /\ \A i \in 1..(Len(s) + Len(t)) :
           (s \o t)[i] = IF i <= Len(s) THEN s[i] ELSE t[i - Len(s)]
  BY ConcatProperties
<1>2. ToSet(s \o t) \subseteq ToSet(s) \cup ToSet(t)
  <2> SUFFICES ASSUME NEW i \in 1..(Len(s) + Len(t))
               PROVE  (s \o t)[i] \in ToSet(s) \cup ToSet(t)
    BY <1>1 DEF ToSet
  <2>1. CASE i <= Len(s)
    BY <1>1, <2>1 DEF ToSet
  <2>2. CASE ~(i <= Len(s))
    <3>1. i - Len(s) \in 1..Len(t) /\ (s \o t)[i] = t[i - Len(s)]
      BY <1>1, <2>2
    <3> QED BY <3>1 DEF ToSet
  <2> QED BY <2>1, <2>2
<1>3. ToSet(s) \subseteq ToSet(s \o t)
  <2> SUFFICES ASSUME NEW i \in 1..Len(s)
               PROVE  s[i] \in ToSet(s \o t)
    BY DEF ToSet
  <2>1. i \in 1..(Len(s) + Len(t)) /\ (s \o t)[i] = s[i]
    BY <1>1
  <2> QED BY <1>1, <2>1 DEF ToSet
<1>4. ToSet(t) \subseteq ToSet(s \o t)
  <2> SUFFICES ASSUME NEW i \in 1..Len(t)
               PROVE  t[i] \in ToSet(s \o t)
    BY DEF ToSet
  <2>1. i + Len(s) \in 1..(Len(s) + Len(t)) /\ (s \o t)[i + Len(s)] = t[i]
    BY <1>1
  <2>2. i + Len(s) \in DOMAIN (s \o t)
    BY <1>1, <2>1
  <2> HIDE DEF ToSet
  <2>3. ToSet(s \o t) = {(s \o t)[j] : j \in DOMAIN (s \o t)}
    BY DEF ToSet
  <2> QED BY <2>1, <2>2, <2>3, Zenon
<1> QED BY <1>1, <1>2, <1>3, <1>4

\* A sequence of one element.
LEMMA ToSetOne ==
  ASSUME NEW S, NEW x \in S
  PROVE  <<x>> \in Seq(S) /\ ToSet(<<x>>) = {x}
<1>1. <<x>> \in Seq(S) /\ DOMAIN <<x>> = {1} /\ <<x>>[1] = x
  OBVIOUS
<1> QED BY <1>1, Zenon DEF ToSet

\* Only the empty sequence holds nothing.
LEMMA ToSetEmpty ==
  ASSUME NEW S, NEW s \in Seq(S)
  PROVE  s = <<>> <=> ToSet(s) = {}
<1>1. s = <<>> <=> Len(s) = 0
  BY EmptySeq
<1>2. Len(s) # 0 => 1 \in 1..Len(s) /\ Len(s) \in Nat
  OBVIOUS
<1> QED BY <1>1, <1>2 DEF ToSet

-----------------------------------------------------------------------------
(* Removing by index. *)

\* Behind the last k positions, those in front of them are as they were, and
\* nothing else is left exactly when all k were to be removed.
LEMMA RemoveIndicesLeaves ==
  ASSUME NEW S, NEW s \in Seq(S), NEW indices
  PROVE  /\ RemoveIndices(s, indices) \in Seq(S)
         /\ RemoveIndices(s, indices) = <<>> <=> \A i \in DOMAIN s : i \in indices
<1> DEFINE n == Len(s)
           cut(r, k) == LET i == n - k + 1 IN IF i \in indices THEN RemoveAt(r, i) ELSE r
           body(f) == [k \in 0..n |-> IF k = 0 THEN s ELSE cut(f[k - 1], k)]
           rest == CHOOSE f : f = body(f)
           All(k) == \A i \in (n - k + 1)..n : i \in indices
           Good(r, k) == /\ r \in Seq(S) /\ Len(r) >= n - k
                         /\ \A i \in 1..(n - k) : r[i] = s[i]
                         /\ Len(r) = n - k <=> All(k)
<1>1. n \in Nat /\ DOMAIN s = 1..n
  OBVIOUS
<1>2. ASSUME NEW k \in 1..n, NEW r, Good(r, k - 1)
      PROVE  Good(cut(r, k), k)
  <2> DEFINE i == n - k + 1
  <2>1. i \in 1..n /\ i <= Len(r) /\ Len(r) \in Nat /\ r \in Seq(S)
    BY <1>1, <1>2
  <2>2. All(k) <=> All(k - 1) /\ i \in indices
    <3>1. (n - k + 1)..n = {i} \cup ((n - (k - 1) + 1)..n)
      BY <1>1
    <3> QED BY <3>1
  <2>3. CASE i \notin indices
    <3>1. cut(r, k) = r
      BY <2>3
    <3> HIDE DEF All, cut
    <3>2. Len(r) >= n - (k - 1) /\ \A j \in 1..(n - (k - 1)) : r[j] = s[j]
      BY <1>2
    <3>3. ~All(k)
      BY <2>2, <2>3
    <3>5. Len(r) >= n - k /\ Len(r) # n - k
      <4> HIDE DEF n
      <4> QED BY <1>1, <2>1, <3>2
    <3>4. \A j \in 1..(n - k) : r[j] = s[j]
      BY <1>1, <3>2
    <3> QED BY <2>1, <3>1, <3>3, <3>4, <3>5
  <2>4. CASE i \in indices
    <3> DEFINE a == SubSeq(r, 1, i - 1)
               b == SubSeq(r, i + 1, Len(r))
    <3>1. cut(r, k) = a \o b
      BY <2>4 DEF RemoveAt
    <3>2. a \in Seq(S) /\ Len(a) = i - 1 /\ \A j \in 1..(i - 1) : a[j] = r[j]
      BY <1>1, <2>1
    <3>3. b \in Seq(S) /\ Len(b) = Len(r) - i
      BY <1>1, <2>1
    <3> HIDE DEF a, b
    <3>4. /\ a \o b \in Seq(S) /\ Len(a \o b) = Len(r) - 1
          /\ \A j \in 1..(i - 1) : (a \o b)[j] = r[j]
      BY <2>1, <3>2, <3>3, ConcatProperties
    <3> HIDE DEF All, cut
    <3>5. /\ Len(r) >= n - (k - 1) /\ \A j \in 1..(n - (k - 1)) : r[j] = s[j]
          /\ Len(r) = n - (k - 1) <=> All(k - 1)
      BY <1>2
    <3>6. Len(r) - 1 >= n - k /\ (Len(r) - 1 = n - k <=> All(k))
      BY <1>1, <2>1, <2>2, <2>4, <3>5
    <3>7. \A j \in 1..(n - k) : (a \o b)[j] = s[j]
      <4> SUFFICES ASSUME NEW j \in 1..(n - k) PROVE (a \o b)[j] = s[j]
        OBVIOUS
      <4>1. j \in 1..(i - 1) /\ j \in 1..(n - (k - 1))
        BY <1>1
      <4> QED BY <3>4, <3>5, <4>1
    <3> QED BY <3>1, <3>4, <3>6, <3>7
  <2> QED BY <2>3, <2>4
<1>3. ASSUME NEW r, Good(r, n)
      PROVE  r \in Seq(S) /\ (r = <<>> <=> \A i \in DOMAIN s : i \in indices)
  <2>1. n - n = 0 /\ (n - n + 1)..n = DOMAIN s
    BY <1>1
  <2>2. r = <<>> <=> Len(r) = 0
    BY <1>3, EmptySeq
  <2> QED BY <1>1, <1>3, <2>1, <2>2
<1>4. rest = body(rest)
  <2> DEFINE Step == [x \in Seq(S) \X Nat |-> IF cut(x[1], x[2]) \in Seq(S) THEN cut(x[1], x[2]) ELSE x[1]]
  <2>1. Step \in [Seq(S) \X Nat -> Seq(S)]
    OBVIOUS
  <2> HIDE DEF Step, cut
  <2>2. PICK f \in [0..n -> Seq(S)] : f[0] = s /\ \A k \in 1..n : f[k] = Step[<<f[k - 1], k>>]
    <3>1. s \in Seq(S) /\ n \in Nat
      BY <1>1
    <3>2. \E f : IsIteration(f, Seq(S), s, n, Step)
      BY <2>1, <3>1, Iteration
    <3> QED BY <3>2 DEF IsIteration
  <2> DEFINE T == {k \in Nat : k \in 0..n => Good(f[k], k)}
  <2>3. 0 \in T
    <3>1. (n - 0 + 1)..n = {}
      BY <1>1
    <3> QED BY <1>1, <2>2, <3>1
  <2>4. ASSUME NEW k \in 1..n, Good(f[k - 1], k - 1)
        PROVE  f[k] = cut(f[k - 1], k) /\ Good(f[k], k)
    <3>1. Good(cut(f[k - 1], k), k) /\ f[k - 1] \in Seq(S)
      BY <1>2, <2>4
    <3>2. Step[<<f[k - 1], k>>] = cut(f[k - 1], k)
      <4>1. <<f[k - 1], k>> \in Seq(S) \X Nat /\ <<f[k - 1], k>>[1] = f[k - 1] /\ <<f[k - 1], k>>[2] = k
        BY <3>1
      <4>2. cut(f[k - 1], k) \in Seq(S)
        BY <3>1
      <4> QED BY <4>1, <4>2 DEF Step
    <3> QED BY <2>2, <3>1, <3>2
  <2>5. ASSUME NEW k \in Nat, k \in T PROVE k + 1 \in T
    <3>1. CASE k + 1 \in 0..n
      <4>1. k + 1 \in 1..n /\ (k + 1) - 1 = k /\ k \in 0..n
        BY <1>1, <3>1
      <4> HIDE DEF Good
      <4>2. Good(f[k], k)
        BY <2>5, <4>1
      <4>3. Good(f[k + 1], k + 1)
        BY <2>4, <4>1, <4>2
      <4> QED BY <4>3
    <3> QED BY <3>1
  <2>6. \A k \in 0..n : Good(f[k], k)
    <3> HIDE DEF Good
    <3>1. Nat \subseteq T
      <4> HIDE DEF T
      <4> QED BY <2>3, <2>5, SetInduction
    <3> QED BY <1>1, <3>1
  <2>7. f = body(f)
    <3>1. \A k \in 1..n : f[k] = cut(f[k - 1], k)
      <4> HIDE DEF Good
      <4> SUFFICES ASSUME NEW k \in 1..n PROVE f[k] = cut(f[k - 1], k)
        OBVIOUS
      <4>1. k - 1 \in 0..n
        BY <1>1
      <4> QED BY <2>4, <2>6, <4>1
    <3> QED BY <1>1, <2>2, <3>1
  <2> HIDE DEF body
  <2> QED BY <2>7
<1>5. \A k \in 0..n : Good(rest[k], k)
  <2> DEFINE T == {k \in Nat : k \in 0..n => Good(rest[k], k)}
  <2> HIDE DEF rest
  <2>1. rest[0] = s
    BY <1>1, <1>4
  <2>2. 0 \in T
    <3>1. (n - 0 + 1)..n = {}
      BY <1>1
    <3> QED BY <1>1, <2>1, <3>1
  <2>3. ASSUME NEW k \in Nat, k \in T PROVE k + 1 \in T
    <3>1. CASE k + 1 \in 0..n
      <4>1. k + 1 \in 1..n /\ (k + 1) - 1 = k /\ k \in 0..n
        BY <1>1, <3>1
      <4> HIDE DEF Good, cut
      <4>2. Good(rest[k], k)
        BY <2>3, <4>1
      <4>3. rest[k + 1] = cut(rest[k], k + 1)
        BY <1>4, <4>1
      <4>4. Good(cut(rest[k], k + 1), k + 1)
        BY <1>2, <4>1, <4>2
      <4> QED BY <4>3, <4>4
    <3> QED BY <3>1
  <2> HIDE DEF Good
  <2>4. Nat \subseteq T
    <3> HIDE DEF T
    <3> QED BY <2>2, <2>3, SetInduction
  <2> QED BY <1>1, <2>4
<1>6. RemoveIndices(s, indices) = rest[n]
  BY DEF RemoveIndices
<1>7. Good(rest[n], n)
  <2> HIDE DEF Good, rest
  <2> QED BY <1>1, <1>5
<1> HIDE DEF Good, rest
<1> QED BY <1>3, <1>6, <1>7

-----------------------------------------------------------------------------
(* The inductive invariant. *)

StageNames ==
  {"directives", "parse_surface", "compile_doc", "surface_to_core", "roundtrip_surface",
   "roundtrip_pretty", "binary", "check_diagnostics", "check_failures"}

\* What was wrong with a snapshot: an input or output error, or its contents.
NotAccessed == {"ReadSnapshot", "WriteSnapshot"}
NotHeld == {"UnexpectedChangesFound", "ExistingSnapshotNotFound"}
Undecided == {"unexpected_diagnostics", "expected_diagnostics"}

FailureNames ==
  NotAccessed \cup NotHeld \cup Undecided \cup
  {"surface_to_core: typing", "roundtrip_surface_to_core: surface_to_core",
   "roundtrip_surface_to_core: core", "roundtrip_pretty_core: parse core",
   "roundtrip_pretty_core: core", "execute rustc", "rust compile output", "execute test",
   "rust test output"}

Files == {SnapshotFile(t, e) : t \in Tests, e \in {"html", "core"}}

TypeOK ==
  /\ source \in [Tests -> TestSource] /\ bless \in BOOLEAN
  /\ stage \in [Tests -> StageNames]
  /\ found \in [Tests -> Seq(TestMessage)]
  /\ failures \in [Tests -> Seq(FailureNames)]
  /\ outcome \in [Tests -> {"Running", "Passed", "Failed", "Ignored"}]
  /\ snapshots \in [Files -> Contents \cup {Absent, Partial}]
  /\ blessed \subseteq Tests

\* The stages behind each of those that a passing test has behind it.
BehindPretty == {"binary", "check_diagnostics", "check_failures"}
BehindSurface == {"roundtrip_pretty"} \cup BehindPretty
BehindCore == {"roundtrip_surface"} \cup BehindSurface
BehindDoc == {"surface_to_core"} \cup BehindCore

\* A test that passed went through all stages without a failure; one that is not a
\* full test has none.
StagesInv(t) ==
  /\ source[t].kind # "Full" => stage[t] = "directives"
  /\ Passed(t) => stage[t] = "check_failures" /\ ToSet(failures[t]) = {}
  /\ stage[t] \in {"directives", "parse_surface", "compile_doc"} => ToSet(failures[t]) = {}

\* The messages found so far.
FoundInv(t) ==
  /\ stage[t] \in {"directives", "parse_surface"} => found[t] = <<>>
  /\ stage[t] \in {"compile_doc", "surface_to_core"} => found[t] = source[t].parse
  /\ stage[t] \in BehindCore =>
       found[t] = source[t].parse \o (IF source[t].parse = <<>> THEN source[t].elab ELSE <<>>)

\* A stage holds what it is about, or has left a failure.
HoldsInv(t) ==
  /\ stage[t] \in BehindDoc /\ ToSet(failures[t]) = {} =>
       snapshots[SnapshotFile(t, "html")] = source[t].doc
  /\ stage[t] \in BehindCore /\ ToSet(failures[t]) = {} =>
       (source[t].parse = <<>> => source[t].core = <<>>)
  /\ stage[t] \in BehindSurface /\ ToSet(failures[t]) = {} =>
       source[t].elaborates_again /\ source[t].same_core
  /\ stage[t] \in BehindPretty /\ ToSet(failures[t]) = {} =>
       /\ source[t].parses /\ source[t].same_pretty
       /\ snapshots[SnapshotFile(t, "core")] = source[t].pretty

\* Blessing leaves no difference: the snapshots that could be read and written are
\* what the source compiles to, and stay so.
BlessInv(t) ==
  /\ bless \/ t \in blessed => NotHeld \cap ToSet(failures[t]) = {}
  /\ t \in blessed =>
       /\ snapshots[SnapshotFile(t, "html")] = source[t].doc
       /\ snapshots[SnapshotFile(t, "core")] = source[t].pretty
  /\ bless /\ stage[t] \in BehindDoc /\ NotAccessed \cap ToSet(failures[t]) = {} =>
       snapshots[SnapshotFile(t, "html")] = source[t].doc

\* The directives decide once they have been checked, and not before.
Unanswered(t) ==
  \E i \in DOMAIN found[t] : \A j \in DOMAIN source[t].expected :
    ~Answers(found[t][i], source[t].expected[j])
Unmet(t) ==
  \E j \in DOMAIN source[t].expected : \A i \in DOMAIN found[t] :
    ~Answers(found[t][i], source[t].expected[j])
DecideInv(t) ==
  /\ stage[t] # "check_failures" => Undecided \cap ToSet(failures[t]) = {}
  /\ stage[t] = "check_failures" =>
       /\ "unexpected_diagnostics" \in ToSet(failures[t]) <=> Unanswered(t)
       /\ "expected_diagnostics" \in ToSet(failures[t]) <=> Unmet(t)

TestInv(t) == StagesInv(t) /\ FoundInv(t) /\ HoldsInv(t) /\ BlessInv(t) /\ DecideInv(t)

IInv == TypeOK /\ \A t \in Tests : TestInv(t)

-----------------------------------------------------------------------------
(* What the parts of an action do. *)

\* The two snapshots of a test are files of its own.
LEMMA FilesDistinct ==
  ASSUME NEW t \in Tests, NEW u \in Tests,
         NEW d \in {"html", "core"}, NEW e \in {"html", "core"}
  PROVE  /\ SnapshotFile(t, d) \in Files
         /\ SnapshotFile(t, d) = SnapshotFile(u, e) => t = u /\ d = e
<1>1. SnapshotFile(t, d) \in Files
  BY DEF Files
<1>2. SnapshotFile(t, d) = SnapshotFile(u, e) => Stem[t] = Stem[u] /\ d = e
  BY DEF SnapshotFile
<1> QED BY <1>1, <1>2, StemsAreDistinct

\* A test goes on to the stage behind its own.
LEMMA GoOnStage ==
  ASSUME TypeOK, NEW t \in Tests, GoOn(t), NEW i \in 1..8, stage[t] = Stages[i]
  PROVE  /\ stage' \in [Tests -> StageNames]
         /\ stage'[t] = Stages[i + 1]
         /\ \A u \in Tests \ {t} : stage'[u] = stage[u]
<1>1. DOMAIN Stages = 1..9
  BY DEF Stages
<1>2. \A j \in 1..9 : Stages[j] = Stages[i] => j = i
  BY SMT DEF Stages
<1>3. (CHOOSE j \in DOMAIN Stages : Stages[j] = stage[t]) = i
  BY <1>1, <1>2
<1>4. Stages[i + 1] \in StageNames
  BY DEF Stages, StageNames
<1>5. stage' = [stage EXCEPT ![t] = Stages[i + 1]]
  BY <1>3, Zenon DEF GoOn
<1> QED BY <1>4, <1>5 DEF TypeOK

\* The stages by name.
LEMMA StageOrder ==
  /\ Stages[1] = "directives" /\ Stages[2] = "parse_surface" /\ Stages[3] = "compile_doc"
  /\ Stages[4] = "surface_to_core" /\ Stages[5] = "roundtrip_surface"
  /\ Stages[6] = "roundtrip_pretty" /\ Stages[7] = "binary"
  /\ Stages[8] = "check_diagnostics" /\ Stages[9] = "check_failures"
BY DEF Stages

\* A failure is recorded when it happened.
LEMMA FailureType ==
  ASSUME NEW happened \in BOOLEAN, NEW name \in FailureNames
  PROVE  /\ Failure(happened, name) \in Seq(FailureNames)
         /\ ToSet(Failure(happened, name)) = IF happened THEN {name} ELSE {}
<1>1. CASE happened
  <2>1. Failure(happened, name) = <<name>>
    BY <1>1 DEF Failure
  <2> QED BY <1>1, <2>1, ToSetOne
<1>2. CASE ~happened
  <2>1. Failure(happened, name) = <<>> /\ <<>> \in Seq(FailureNames)
    BY <1>2 DEF Failure
  <2>2. ToSet(<<>>) = {}
    BY DEF ToSet
  <2> QED BY <1>2, <2>1, <2>2
<1> QED BY <1>1, <1>2

\* Two failures one behind the other.
LEMMA FailuresType ==
  ASSUME NEW a \in BOOLEAN, NEW x \in FailureNames, NEW b \in BOOLEAN, NEW y \in FailureNames
  PROVE  /\ Failure(a, x) \o Failure(b, y) \in Seq(FailureNames)
         /\ ToSet(Failure(a, x) \o Failure(b, y)) =
              (IF a THEN {x} ELSE {}) \cup (IF b THEN {y} ELSE {})
<1>1. /\ Failure(a, x) \in Seq(FailureNames) /\ Failure(b, y) \in Seq(FailureNames)
      /\ ToSet(Failure(a, x)) = (IF a THEN {x} ELSE {})
      /\ ToSet(Failure(b, y)) = (IF b THEN {y} ELSE {})
  BY FailureType
<1>2. /\ Failure(a, x) \o Failure(b, y) \in Seq(FailureNames)
      /\ ToSet(Failure(a, x) \o Failure(b, y)) = ToSet(Failure(a, x)) \cup ToSet(Failure(b, y))
  BY <1>1, ToSetConcat
<1> QED BY <1>1, <1>2

\* Failures are added to those of the test.
LEMMA FailEffect ==
  ASSUME TypeOK, NEW t \in Tests, NEW names \in Seq(FailureNames), Fail(t, names)
  PROVE  /\ failures' \in [Tests -> Seq(FailureNames)]
         /\ ToSet(failures'[t]) = ToSet(failures[t]) \cup ToSet(names)
         /\ \A u \in Tests \ {t} : failures'[u] = failures[u]
<1>1. failures[t] \in Seq(FailureNames)
  BY DEF TypeOK
<1>2. failures[t] \o names \in Seq(FailureNames)
      /\ ToSet(failures[t] \o names) = ToSet(failures[t]) \cup ToSet(names)
  BY <1>1, ToSetConcat
<1>3. failures' = [failures EXCEPT ![t] = failures[t] \o names]
  BY DEF Fail
<1> HIDE DEF Fail
<1>4. failures'[t] = failures[t] \o names
  BY <1>3 DEF TypeOK
<1> QED BY <1>2, <1>3, <1>4 DEF TypeOK

\* A comparison touches its own file only; without an error the file holds the
\* contents, and a difference is an error only where nothing is blessed.
LEMMA CompareEffect ==
  ASSUME TypeOK, NEW file \in Files, NEW contents \in Contents,
         NEW r \in Compare(file, contents)
  PROVE  /\ r.snapshots \in [Files -> Contents \cup {Absent, Partial}]
         /\ r.error \in {"none"} \cup NotAccessed \cup NotHeld
         /\ \A g \in Files \ {file} : r.snapshots[g] = snapshots[g]
         /\ r.error = "none" => r.snapshots[file] = contents
         /\ bless => r.error \notin NotHeld
         /\ snapshots[file] = contents => r.snapshots = snapshots /\ r.error \notin NotHeld
<1>1. contents # Absent
  BY ContentsAssumption
<1>2. CASE r = Kept("ReadSnapshot")
  BY <1>2 DEF Kept, NotAccessed, NotHeld, TypeOK
<1>3. CASE r = Kept("none") /\ snapshots[file] = contents
  BY <1>3 DEF Kept, NotHeld, TypeOK
<1>4. CASE r = Kept("UnexpectedChangesFound") /\ snapshots[file] # contents /\ ~bless
  BY <1>4 DEF Kept, NotHeld, TypeOK
<1>5. CASE r = Kept("ExistingSnapshotNotFound") /\ snapshots[file] = Absent /\ ~bless
  BY <1>1, <1>5 DEF Kept, NotHeld, TypeOK
<1>6. CASE r \in BlessSnapshot(file, contents) /\ snapshots[file] # contents
  <2>1. CASE r = Held(file, contents, "none")
    BY <1>6, <2>1 DEF Held, NotHeld, TypeOK
  <2>2. CASE r = Held(file, Partial, "WriteSnapshot")
    BY <1>6, <2>2 DEF Held, NotHeld, NotAccessed, TypeOK
  <2>3. CASE r = Kept("WriteSnapshot")
    BY <1>6, <2>3 DEF Kept, NotHeld, NotAccessed, TypeOK
  <2> QED BY <1>6, <2>1, <2>2, <2>3 DEF BlessSnapshot
<1> QED BY <1>1, <1>2, <1>3, <1>4, <1>5, <1>6 DEF Compare

\* What an action leaves alone of a test, it leaves invariant.
LEMMA Frame ==
  ASSUME NEW u \in Tests, TestInv(u),
         source'[u] = source[u], bless' = bless, stage'[u] = stage[u], found'[u] = found[u],
         failures'[u] = failures[u], outcome'[u] = outcome[u],
         snapshots'[SnapshotFile(u, "html")] = snapshots[SnapshotFile(u, "html")],
         snapshots'[SnapshotFile(u, "core")] = snapshots[SnapshotFile(u, "core")],
         u \in blessed' <=> u \in blessed
  PROVE  TestInv(u)'
<1>1. StagesInv(u)'
  BY DEF TestInv, StagesInv, Passed
<1>2. FoundInv(u)'
  BY DEF TestInv, FoundInv
<1>3. HoldsInv(u)'
  BY DEF TestInv, HoldsInv, SnapshotFile
<1>4. BlessInv(u)'
  BY DEF TestInv, BlessInv, SnapshotFile
<1>5. DecideInv(u)'
  <2>1. (Unanswered(u)' <=> Unanswered(u)) /\ (Unmet(u)' <=> Unmet(u))
    BY DEF Unanswered, Unmet
  <2> QED BY <2>1 DEF TestInv, DecideInv
<1> QED BY <1>1, <1>2, <1>3, <1>4, <1>5 DEF TestInv

-----------------------------------------------------------------------------
(* One lemma per action. *)

\* run_simple_test.
LEMMA SimpleTestInv ==
  ASSUME IInv, NEW t \in Tests, RunSimpleTest(t)
  PROVE  IInv'
<1>1. TypeOK'
  BY DEF RunSimpleTest, IInv, TypeOK, End
<1>2. /\ source[t].kind = "Simple" /\ \A u \in Tests \ {t} : outcome'[u] = outcome[u]
      /\ TypeOK /\ \A u \in Tests : TestInv(u)
  BY DEF RunSimpleTest, IInv, TypeOK, End
<1>3. UNCHANGED <<source, bless, runs, stage, found, failures, snapshots, blessed>>
  BY DEF RunSimpleTest
<1>4. \A u \in Tests \ {t} : TestInv(u)'
  BY <1>2, <1>3, Frame
<1>5. TestInv(t)'
  <2>1. TestInv(t)
    BY <1>2
  <2>2. StagesInv(t)'
    BY <1>2, <1>3, <2>1 DEF TestInv, StagesInv, Passed
  <2>3. FoundInv(t)' /\ HoldsInv(t)' /\ BlessInv(t)'
    BY <1>3, <2>1 DEF TestInv, FoundInv, HoldsInv, BlessInv, SnapshotFile
  <2>4. DecideInv(t)'
    BY <1>3, <2>1 DEF TestInv, DecideInv, Unanswered, Unmet
  <2> QED BY <2>2, <2>3, <2>4 DEF TestInv
<1> QED BY <1>1, <1>4, <1>5 DEF IInv

\* Reading the directives of a full test.
LEMMA DirectivesInv ==
  ASSUME IInv, NEW t \in Tests, ReadDirectives(t)
  PROVE  IInv'
<1>1. /\ stage[t] = "directives" /\ source[t].kind = "Full"
      /\ UNCHANGED <<source, bless, runs, found, failures, snapshots, blessed>>
      /\ TypeOK /\ \A u \in Tests : TestInv(u)
  BY DEF ReadDirectives, AtStage, IInv
<1>2. /\ stage' \in [Tests -> StageNames] /\ stage'[t] \in {"directives", "parse_surface"}
      /\ \A u \in Tests \ {t} : stage'[u] = stage[u]
  <2>1. CASE GoOn(t)
    <3>1. 1 \in 1..8 /\ stage[t] = Stages[1] /\ Stages[1 + 1] = "parse_surface"
      BY <1>1, StageOrder
    <3> QED BY <1>1, <2>1, <3>1, GoOnStage
  <2>2. CASE UNCHANGED stage
    BY <1>1, <2>2 DEF TypeOK
  <2> QED BY <2>1, <2>2 DEF ReadDirectives
<1>3. /\ outcome' \in [Tests -> {"Running", "Passed", "Failed", "Ignored"}]
      /\ outcome'[t] # "Passed" /\ \A u \in Tests \ {t} : outcome'[u] = outcome[u]
  BY <1>1 DEF ReadDirectives, AtStage, End, TypeOK
<1>4. TypeOK'
  BY <1>1, <1>2, <1>3 DEF TypeOK
<1>5. \A u \in Tests \ {t} : TestInv(u)'
  BY <1>1, <1>2, <1>3, Frame
<1>6. TestInv(t)'
  <2>1. TestInv(t)
    BY <1>1
  <2>2. StagesInv(t)'
    BY <1>1, <1>2, <1>3, <2>1 DEF TestInv, StagesInv, Passed
  <2>3. FoundInv(t)' /\ HoldsInv(t)' /\ BlessInv(t)'
    BY <1>1, <1>2, <2>1 DEF TestInv, FoundInv, HoldsInv, BlessInv, SnapshotFile,
       BehindDoc, BehindCore, BehindSurface, BehindPretty
  <2>4. DecideInv(t)'
    BY <1>1, <1>2, <2>1 DEF TestInv, DecideInv
  <2> QED BY <2>2, <2>3, <2>4 DEF TestInv
<1> QED BY <1>4, <1>5, <1>6 DEF IInv

\* FullTest::parse_surface.
LEMMA ParseInv ==
  ASSUME IInv, NEW t \in Tests, ParseSurface(t)
  PROVE  IInv'
<1>1. /\ stage[t] = "parse_surface"
      /\ UNCHANGED <<source, bless, runs, failures, outcome, snapshots, blessed>>
      /\ TypeOK /\ (\A u \in Tests : TestInv(u)) /\ GoOn(t)
  BY DEF ParseSurface, AtStage, IInv
<1>2. /\ stage' \in [Tests -> StageNames] /\ stage'[t] = "compile_doc"
      /\ \A u \in Tests \ {t} : stage'[u] = stage[u]
  <2>1. 2 \in 1..8 /\ stage[t] = Stages[2] /\ Stages[2 + 1] = "compile_doc"
    BY <1>1, StageOrder
  <2> QED BY <1>1, <2>1, GoOnStage
<1>3. /\ found' \in [Tests -> Seq(TestMessage)] /\ found'[t] = source[t].parse
      /\ \A u \in Tests \ {t} : found'[u] = found[u]
  <2>1. found[t] = <<>> /\ source[t].parse \in Seq(TestMessage)
    BY <1>1 DEF TestInv, FoundInv, TypeOK, TestSource
  <2>2. <<>> \o source[t].parse = source[t].parse
    BY <2>1, ConcatEmptySeq
  <2>3. found' = [found EXCEPT ![t] = source[t].parse]
    BY <2>1, <2>2 DEF ParseSurface
  <2> QED BY <1>1, <2>1, <2>3 DEF TypeOK
<1>4. TypeOK'
  BY <1>1, <1>2, <1>3 DEF TypeOK
<1>5. \A u \in Tests \ {t} : TestInv(u)'
  BY <1>1, <1>2, <1>3, Frame
<1>6. TestInv(t)'
  <2>1. TestInv(t)
    BY <1>1
  <2>2. StagesInv(t)'
    BY <1>1, <1>2, <2>1 DEF TestInv, StagesInv, Passed
  <2>3. FoundInv(t)' /\ HoldsInv(t)' /\ BlessInv(t)'
    BY <1>1, <1>2, <1>3, <2>1 DEF TestInv, FoundInv, HoldsInv, BlessInv, SnapshotFile,
       BehindDoc, BehindCore, BehindSurface, BehindPretty
  <2>4. DecideInv(t)'
    BY <1>1, <1>2, <2>1 DEF TestInv, DecideInv
  <2> QED BY <2>2, <2>3, <2>4 DEF TestInv
<1> QED BY <1>4, <1>5, <1>6 DEF IInv

\* FullTest::compile_doc, whose snapshot may be blessed or compared.
LEMMA DocInv ==
  ASSUME IInv, NEW t \in Tests, CompileDoc(t)
  PROVE  IInv'
<1> DEFINE html == SnapshotFile(t, "html")
           core == SnapshotFile(t, "core")
<1>1. /\ stage[t] = "compile_doc" /\ outcome[t] = "Running"
      /\ UNCHANGED <<source, bless, runs, found, outcome, blessed>>
      /\ TypeOK /\ (\A u \in Tests : TestInv(u)) /\ GoOn(t)
  BY DEF CompileDoc, AtStage, IInv
<1>2. /\ stage' \in [Tests -> StageNames] /\ stage'[t] = "surface_to_core"
      /\ \A u \in Tests \ {t} : stage'[u] = stage[u]
  <2>1. 3 \in 1..8 /\ stage[t] = Stages[3] /\ Stages[3 + 1] = "surface_to_core"
    BY <1>1, StageOrder
  <2> QED BY <1>1, <2>1, GoOnStage
<1>3. PICK r \in Compare(html, source[t].doc) :
        snapshots' = r.snapshots /\ Fail(t, Failure(r.error # "none", r.error))
  BY DEF CompileDoc
<1>4. html \in Files /\ core \in Files /\ html # core /\ source[t].doc \in Contents
  BY <1>1, FilesDistinct DEF TypeOK, TestSource
<1>5. /\ r.snapshots \in [Files -> Contents \cup {Absent, Partial}]
      /\ r.error \in {"none"} \cup NotAccessed \cup NotHeld
      /\ \A g \in Files \ {html} : r.snapshots[g] = snapshots[g]
      /\ r.error = "none" => r.snapshots[html] = source[t].doc
      /\ bless => r.error \notin NotHeld
      /\ snapshots[html] = source[t].doc => r.snapshots = snapshots /\ r.error \notin NotHeld
  BY <1>1, <1>4, CompareEffect
<1>6. /\ failures' \in [Tests -> Seq(FailureNames)]
      /\ ToSet(failures'[t]) = ToSet(failures[t]) \cup (IF r.error # "none" THEN {r.error} ELSE {})
      /\ \A u \in Tests \ {t} : failures'[u] = failures[u]
  <2> DEFINE names == Failure(r.error # "none", r.error)
  <2>1. names \in Seq(FailureNames) /\ ToSet(names) = IF r.error # "none" THEN {r.error} ELSE {}
    <3>1. CASE r.error = "none"
      <4>1. names = <<>> /\ <<>> \in Seq(FailureNames) /\ ToSet(<<>>) = {}
        BY <3>1 DEF Failure, ToSet
      <4> QED BY <3>1, <4>1
    <3>2. CASE r.error # "none"
      <4>1. r.error \in FailureNames
        BY <1>5, <3>2 DEF FailureNames
      <4> QED BY <3>2, <4>1, FailureType
    <3> QED BY <3>1, <3>2
  <2> HIDE DEF names
  <2>2. Fail(t, names)
    BY <1>3 DEF names
  <2> QED BY <1>1, <2>1, <2>2, FailEffect
<1>7. TypeOK'
  BY <1>1, <1>2, <1>3, <1>5, <1>6 DEF TypeOK
<1>8. \A u \in Tests \ {t} : TestInv(u)'
  <2> SUFFICES ASSUME NEW u \in Tests \ {t} PROVE TestInv(u)'
    OBVIOUS
  <2>1. SnapshotFile(u, "html") \in Files \ {html} /\ SnapshotFile(u, "core") \in Files \ {html}
    BY FilesDistinct
  <2> QED BY <1>1, <1>2, <1>3, <1>5, <1>6, <2>1, Frame
<1>9. TestInv(t)'
  <2>1. TestInv(t) /\ SnapshotFile(t, "html")' = html /\ SnapshotFile(t, "core")' = core
    BY <1>1 DEF SnapshotFile
  <2>2. StagesInv(t)'
    BY <1>1, <1>2, <2>1 DEF TestInv, StagesInv, Passed
  <2>3. FoundInv(t)'
    BY <1>1, <1>2, <2>1 DEF TestInv, FoundInv, BehindCore, BehindSurface, BehindPretty
  <2>4. HoldsInv(t)'
    <3> HIDE DEF html, core
    <3> QED BY <1>1, <1>2, <1>3, <1>5, <1>6, <2>1
            DEF HoldsInv, BehindDoc, BehindCore, BehindSurface, BehindPretty
  <2>5. BlessInv(t)'
    <3> HIDE DEF html, core
    <3>1. BlessInv(t) /\ snapshots[html] = snapshots[SnapshotFile(t, "html")] /\ snapshots[core] = snapshots[SnapshotFile(t, "core")]
      BY <2>1 DEF TestInv, html, core
    <3>2. bless' \/ t \in blessed' => NotHeld \cap ToSet(failures'[t]) = {}
      BY <1>1, <1>5, <1>6, <3>1 DEF BlessInv
    <3>3. t \in blessed' => snapshots'[html] = source'[t].doc /\ snapshots'[core] = source'[t].pretty
      BY <1>1, <1>3, <1>5, <3>1 DEF BlessInv
    <3>4. NotAccessed \cap ToSet(failures'[t]) = {} /\ bless => r.error = "none"
      BY <1>5, <1>6
    <3> QED BY <1>1, <1>3, <1>5, <2>1, <3>2, <3>3, <3>4 DEF BlessInv
  <2>6. DecideInv(t)'
    BY <1>1, <1>2, <1>5, <1>6, <2>1 DEF TestInv, DecideInv, Undecided, NotAccessed, NotHeld
  <2> QED BY <2>2, <2>3, <2>4, <2>5, <2>6 DEF TestInv
<1> QED BY <1>7, <1>8, <1>9 DEF IInv

\* FullTest::surface_to_core, with its validation.
LEMMA CoreInv ==
  ASSUME IInv, NEW t \in Tests, SurfaceToCore(t)
  PROVE  IInv'
<1> DEFINE s == IF source[t].parse = <<>> THEN source[t]
                ELSE [source[t] EXCEPT !.elab = <<>>, !.core = <<>>]
<1>1. /\ stage[t] = "surface_to_core" /\ outcome[t] = "Running"
      /\ UNCHANGED <<source, bless, runs, outcome, snapshots, blessed>>
      /\ TypeOK /\ (\A u \in Tests : TestInv(u)) /\ GoOn(t)
  BY DEF SurfaceToCore, AtStage, IInv
<1>2. /\ stage' \in [Tests -> StageNames] /\ stage'[t] = "roundtrip_surface"
      /\ \A u \in Tests \ {t} : stage'[u] = stage[u]
  <2>1. 4 \in 1..8 /\ stage[t] = Stages[4] /\ Stages[4 + 1] = "roundtrip_surface"
    BY <1>1, StageOrder
  <2> QED BY <1>1, <2>1, GoOnStage
<1>3. /\ source[t] \in TestSource /\ found[t] = source[t].parse
      /\ s.elab = (IF source[t].parse = <<>> THEN source[t].elab ELSE <<>>)
      /\ s.core = (IF source[t].parse = <<>> THEN source[t].core ELSE <<>>)
  BY <1>1 DEF TypeOK, TestSource, TestInv, FoundInv
<1>4. /\ found' \in [Tests -> Seq(TestMessage)]
      /\ found'[t] = source[t].parse \o (IF source[t].parse = <<>> THEN source[t].elab ELSE <<>>)
      /\ \A u \in Tests \ {t} : found'[u] = found[u]
  <2> DEFINE more == IF source[t].parse = <<>> THEN source[t].elab ELSE <<>>
  <2>1. more \in Seq(TestMessage) /\ source[t].parse \in Seq(TestMessage)
    BY <1>3 DEF TestSource
  <2>2. source[t].parse \o more \in Seq(TestMessage)
    BY <2>1, ConcatProperties
  <2>3. found' = [found EXCEPT ![t] = source[t].parse \o more]
    BY <1>3 DEF SurfaceToCore
  <2> HIDE DEF more
  <2>4. found' \in [Tests -> Seq(TestMessage)] /\ found'[t] = source[t].parse \o more
        /\ \A u \in Tests \ {t} : found'[u] = found[u]
    BY <1>1, <2>2, <2>3 DEF TypeOK
  <2> QED BY <2>4 DEF more
<1>5. /\ failures' \in [Tests -> Seq(FailureNames)]
      /\ ToSet(failures'[t]) = ToSet(failures[t]) \cup
           (IF s.core # <<>> THEN {"surface_to_core: typing"} ELSE {})
      /\ \A u \in Tests \ {t} : failures'[u] = failures[u]
  <2> DEFINE names == Failure(s.core # <<>>, "surface_to_core: typing")
  <2>1. Fail(t, names)
    BY DEF SurfaceToCore
  <2> HIDE DEF s
  <2>2. "surface_to_core: typing" \in FailureNames
    BY DEF FailureNames
  <2>3. names \in Seq(FailureNames) /\ ToSet(names) = IF s.core # <<>> THEN {"surface_to_core: typing"} ELSE {}
    BY <2>2, FailureType
  <2> HIDE DEF names
  <2> QED BY <1>1, <2>1, <2>3, FailEffect
<1> HIDE DEF s
<1>6. TypeOK'
  BY <1>1, <1>2, <1>4, <1>5 DEF TypeOK
<1>7. \A u \in Tests \ {t} : TestInv(u)'
  BY <1>1, <1>2, <1>4, <1>5, Frame
<1>8. TestInv(t)'
  <2>1. TestInv(t) /\ ToSet(failures[t]) \subseteq ToSet(failures'[t])
        /\ ToSet(failures'[t]) \subseteq ToSet(failures[t]) \cup {"surface_to_core: typing"}
    BY <1>1, <1>5
  <2>2. StagesInv(t)'
    BY <1>1, <1>2, <2>1 DEF TestInv, StagesInv, Passed
  <2>3. FoundInv(t)'
    BY <1>1, <1>2, <1>4, <2>1 DEF FoundInv, BehindCore, BehindSurface, BehindPretty
  <2>4. HoldsInv(t)'
    BY <1>1, <1>2, <1>3, <1>5, <2>1
       DEF TestInv, HoldsInv, BehindDoc, BehindCore, BehindSurface, BehindPretty, SnapshotFile
  <2>5. BlessInv(t)'
    BY <1>1, <1>2, <2>1 DEF TestInv, BlessInv, BehindDoc, BehindCore, NotHeld, NotAccessed, SnapshotFile
  <2>6. DecideInv(t)'
    BY <1>1, <1>2, <2>1 DEF TestInv, DecideInv, Undecided
  <2> QED BY <2>2, <2>3, <2>4, <2>5, <2>6 DEF TestInv
<1> QED BY <1>6, <1>7, <1>8 DEF IInv

\* FullTest::roundtrip_surface_to_core.
LEMMA SurfaceInv ==
  ASSUME IInv, NEW t \in Tests, RoundtripSurfaceToCore(t)
  PROVE  IInv'
<1> DEFINE x == "roundtrip_surface_to_core: surface_to_core"
           y == "roundtrip_surface_to_core: core"
<1>1. /\ stage[t] = "roundtrip_surface" /\ outcome[t] = "Running"
      /\ UNCHANGED <<source, bless, runs, found, outcome, snapshots, blessed>>
      /\ TypeOK /\ (\A u \in Tests : TestInv(u)) /\ GoOn(t)
  BY DEF RoundtripSurfaceToCore, AtStage, IInv
<1>2. /\ stage' \in [Tests -> StageNames] /\ stage'[t] = "roundtrip_pretty"
      /\ \A u \in Tests \ {t} : stage'[u] = stage[u]
  <2>1. 5 \in 1..8 /\ stage[t] = Stages[5] /\ Stages[5 + 1] = "roundtrip_pretty"
    BY <1>1, StageOrder
  <2> QED BY <1>1, <2>1, GoOnStage
<1>3. /\ failures' \in [Tests -> Seq(FailureNames)]
      /\ ToSet(failures'[t]) = ToSet(failures[t]) \cup
           ((IF ~source[t].elaborates_again THEN {x} ELSE {}) \cup (IF ~source[t].same_core THEN {y} ELSE {}))
      /\ \A u \in Tests \ {t} : failures'[u] = failures[u]
  <2> DEFINE a == ~source[t].elaborates_again
             b == ~source[t].same_core
             names == Failure(a, x) \o Failure(b, y)
  <2>1. Fail(t, names)
    BY DEF RoundtripSurfaceToCore
  <2>2. x \in FailureNames /\ y \in FailureNames /\ a \in BOOLEAN /\ b \in BOOLEAN
    BY DEF FailureNames
  <2> HIDE DEF x, y, a, b
  <2>3. names \in Seq(FailureNames) /\ ToSet(names) = (IF a THEN {x} ELSE {}) \cup (IF b THEN {y} ELSE {})
    BY <2>2, FailuresType
  <2> HIDE DEF names
  <2>4. /\ failures' \in [Tests -> Seq(FailureNames)]
        /\ ToSet(failures'[t]) = ToSet(failures[t]) \cup ((IF a THEN {x} ELSE {}) \cup (IF b THEN {y} ELSE {}))
        /\ \A u \in Tests \ {t} : failures'[u] = failures[u]
    BY <1>1, <2>1, <2>3, FailEffect
  <2> QED BY <2>4 DEF a, b
<1>4. TypeOK'
  BY <1>1, <1>2, <1>3 DEF TypeOK
<1>5. \A u \in Tests \ {t} : TestInv(u)'
  BY <1>1, <1>2, <1>3, Frame
<1>6. TestInv(t)'
  <2>1. TestInv(t) /\ ToSet(failures[t]) \subseteq ToSet(failures'[t])
        /\ ToSet(failures'[t]) \subseteq ToSet(failures[t]) \cup {x, y}
    BY <1>1, <1>3
  <2>2. StagesInv(t)'
    BY <1>1, <1>2, <2>1 DEF TestInv, StagesInv, Passed
  <2>3. FoundInv(t)'
    BY <1>1, <1>2, <2>1 DEF TestInv, FoundInv, BehindCore, BehindSurface, BehindPretty
  <2>4. HoldsInv(t)'
    BY <1>1, <1>2, <1>3, <2>1
       DEF TestInv, HoldsInv, BehindDoc, BehindCore, BehindSurface, BehindPretty, SnapshotFile
  <2>5. BlessInv(t)'
    BY <1>1, <1>2, <2>1 DEF TestInv, BlessInv, BehindDoc, BehindCore, BehindSurface, NotHeld, NotAccessed, SnapshotFile
  <2>6. DecideInv(t)'
    BY <1>1, <1>2, <2>1 DEF TestInv, DecideInv, Undecided
  <2> QED BY <2>2, <2>3, <2>4, <2>5, <2>6 DEF TestInv
<1> QED BY <1>4, <1>5, <1>6 DEF IInv

\* FullTest::binary_parse_tests.
LEMMA BinaryInv ==
  ASSUME IInv, NEW t \in Tests, BinaryParseTests(t)
  PROVE  IInv'
<1> DEFINE Steps == {"execute rustc", "rust compile output", "execute test", "rust test output"}
<1>1. /\ stage[t] = "binary" /\ outcome[t] = "Running"
      /\ UNCHANGED <<source, bless, runs, found, outcome, snapshots, blessed>>
      /\ TypeOK /\ (\A u \in Tests : TestInv(u)) /\ GoOn(t)
  BY DEF BinaryParseTests, AtStage, IInv
<1>2. /\ stage' \in [Tests -> StageNames] /\ stage'[t] = "check_diagnostics"
      /\ \A u \in Tests \ {t} : stage'[u] = stage[u]
  <2>1. 7 \in 1..8 /\ stage[t] = Stages[7] /\ Stages[7 + 1] = "check_diagnostics"
    BY <1>1, StageOrder
  <2> QED BY <1>1, <2>1, GoOnStage
<1>3. /\ failures' \in [Tests -> Seq(FailureNames)]
      /\ ToSet(failures[t]) \subseteq ToSet(failures'[t])
      /\ ToSet(failures'[t]) \subseteq ToSet(failures[t]) \cup Steps
      /\ \A u \in Tests \ {t} : failures'[u] = failures[u]
  <2>1. CASE UNCHANGED failures
    BY <1>1, <2>1 DEF TypeOK
  <2>2. CASE \E name \in Steps : Fail(t, <<name>>)
    <3>1. PICK name \in Steps : Fail(t, <<name>>)
      BY <2>2
    <3>2. name \in FailureNames
      BY DEF FailureNames
    <3>3. <<name>> \in Seq(FailureNames) /\ ToSet(<<name>>) = {name}
      BY <3>2, ToSetOne
    <3>4. /\ failures' \in [Tests -> Seq(FailureNames)]
          /\ ToSet(failures'[t]) = ToSet(failures[t]) \cup ToSet(<<name>>)
          /\ \A u \in Tests \ {t} : failures'[u] = failures[u]
      BY <1>1, <3>1, <3>3, FailEffect
    <3> QED BY <3>3, <3>4
  <2> QED BY <2>1, <2>2 DEF BinaryParseTests
<1>4. TypeOK'
  BY <1>1, <1>2, <1>3 DEF TypeOK
<1>5. \A u \in Tests \ {t} : TestInv(u)'
  BY <1>1, <1>2, <1>3, Frame
<1>6. TestInv(t)'
  <2>1. TestInv(t)
    BY <1>1
  <2>2. StagesInv(t)'
    BY <1>1, <1>2, <2>1 DEF TestInv, StagesInv, Passed
  <2>3. FoundInv(t)'
    BY <1>1, <1>2, <2>1 DEF TestInv, FoundInv, BehindCore, BehindSurface, BehindPretty
  <2>4. HoldsInv(t)'
    BY <1>1, <1>2, <1>3, <2>1
       DEF TestInv, HoldsInv, BehindDoc, BehindCore, BehindSurface, BehindPretty, SnapshotFile
  <2>5. BlessInv(t)'
    BY <1>1, <1>2, <1>3, <2>1
       DEF TestInv, BlessInv, BehindDoc, BehindCore, BehindSurface, BehindPretty, NotHeld, NotAccessed, SnapshotFile
  <2>6. DecideInv(t)'
    BY <1>1, <1>2, <1>3, <2>1 DEF TestInv, DecideInv, Undecided
  <2> QED BY <2>2, <2>3, <2>4, <2>5, <2>6 DEF TestInv
<1> QED BY <1>4, <1>5, <1>6 DEF IInv

\* FullTest::roundtrip_core_to_pretty, whose snapshot may be blessed or compared.
LEMMA PrettyInv ==
  ASSUME IInv, NEW t \in Tests, RoundtripCoreToPretty(t)
  PROVE  IInv'
<1> DEFINE html == SnapshotFile(t, "html")
           core == SnapshotFile(t, "core")
           x == "roundtrip_pretty_core: parse core"
           y == "roundtrip_pretty_core: core"
<1>1. /\ stage[t] = "roundtrip_pretty" /\ outcome[t] = "Running"
      /\ UNCHANGED <<source, bless, runs, found, outcome>>
      /\ TypeOK /\ (\A u \in Tests : TestInv(u)) /\ GoOn(t)
  BY DEF RoundtripCoreToPretty, AtStage, IInv
<1>2. /\ stage' \in [Tests -> StageNames] /\ stage'[t] = "binary"
      /\ \A u \in Tests \ {t} : stage'[u] = stage[u]
  <2>1. 6 \in 1..8 /\ stage[t] = Stages[6] /\ Stages[6 + 1] = "binary"
    BY <1>1, StageOrder
  <2> QED BY <1>1, <2>1, GoOnStage
<1>3. PICK r \in Compare(core, source[t].pretty) :
        /\ snapshots' = r.snapshots
        /\ Fail(t, Failure(r.error # "none", r.error)
                   \o Failure(~source[t].parses, x) \o Failure(~source[t].same_pretty, y))
  BY DEF RoundtripCoreToPretty
<1>4. html \in Files /\ core \in Files /\ html # core /\ source[t].pretty \in Contents
  BY <1>1, FilesDistinct DEF TypeOK, TestSource
<1>5. /\ r.snapshots \in [Files -> Contents \cup {Absent, Partial}]
      /\ r.error \in {"none"} \cup NotAccessed \cup NotHeld
      /\ \A g \in Files \ {core} : r.snapshots[g] = snapshots[g]
      /\ r.error = "none" => r.snapshots[core] = source[t].pretty
      /\ bless => r.error \notin NotHeld
      /\ snapshots[core] = source[t].pretty => r.snapshots = snapshots /\ r.error \notin NotHeld
  BY <1>1, <1>4, CompareEffect
<1>6. /\ failures' \in [Tests -> Seq(FailureNames)]
      /\ ToSet(failures'[t]) = ToSet(failures[t]) \cup
           ((IF r.error # "none" THEN {r.error} ELSE {}) \cup (IF ~source[t].parses THEN {x} ELSE {})
             \cup (IF ~source[t].same_pretty THEN {y} ELSE {}))
      /\ \A u \in Tests \ {t} : failures'[u] = failures[u]
  <2> DEFINE error == Failure(r.error # "none", r.error)
             a == ~source[t].parses
             b == ~source[t].same_pretty
             front == error \o Failure(a, x)
             names == front \o Failure(b, y)
             all == (IF r.error # "none" THEN {r.error} ELSE {}) \cup (IF a THEN {x} ELSE {})
                      \cup (IF b THEN {y} ELSE {})
  <2>1. error \in Seq(FailureNames) /\ ToSet(error) = IF r.error # "none" THEN {r.error} ELSE {}
    <3>1. CASE r.error = "none"
      <4>1. error = <<>> /\ <<>> \in Seq(FailureNames) /\ ToSet(<<>>) = {}
        BY <3>1 DEF Failure, ToSet
      <4> QED BY <3>1, <4>1
    <3>2. CASE r.error # "none"
      <4>1. r.error \in FailureNames
        BY <1>5, <3>2 DEF FailureNames
      <4> QED BY <3>2, <4>1, FailureType
    <3> QED BY <3>1, <3>2
  <2>2. x \in FailureNames /\ y \in FailureNames /\ a \in BOOLEAN /\ b \in BOOLEAN
    BY DEF FailureNames
  <2>3. Fail(t, names)
    BY <1>3
  <2> HIDE DEF x, y, a, b, error
  <2>4. /\ Failure(a, x) \in Seq(FailureNames) /\ Failure(b, y) \in Seq(FailureNames)
        /\ ToSet(Failure(a, x)) = (IF a THEN {x} ELSE {})
        /\ ToSet(Failure(b, y)) = (IF b THEN {y} ELSE {})
    BY <2>2, FailureType
  <2>5. /\ front \in Seq(FailureNames)
        /\ ToSet(front) = ToSet(error) \cup ToSet(Failure(a, x))
    BY <2>1, <2>4, ToSetConcat
  <2> HIDE DEF front
  <2>6. /\ names \in Seq(FailureNames)
        /\ ToSet(names) = ToSet(front) \cup ToSet(Failure(b, y))
    BY <2>4, <2>5, ToSetConcat
  <2>7. ToSet(names) = all
    BY <2>1, <2>4, <2>5, <2>6
  <2> HIDE DEF names, all
  <2>8. /\ failures' \in [Tests -> Seq(FailureNames)]
        /\ ToSet(failures'[t]) = ToSet(failures[t]) \cup all
        /\ \A u \in Tests \ {t} : failures'[u] = failures[u]
    BY <1>1, <2>3, <2>6, <2>7, FailEffect
  <2> QED BY <2>8 DEF all, a, b
<1>7. /\ blessed' \subseteq Tests
      /\ \A u \in Tests \ {t} : u \in blessed' <=> u \in blessed
      /\ t \in blessed' => \/ bless /\ NotAccessed \cap ToSet(failures'[t]) = {}
                           \/ ~bless /\ t \in blessed
  BY <1>1 DEF RoundtripCoreToPretty, NotAccessed, TypeOK
<1>8. TypeOK'
  BY <1>1, <1>2, <1>3, <1>5, <1>6, <1>7 DEF TypeOK
<1>9. \A u \in Tests \ {t} : TestInv(u)'
  <2> SUFFICES ASSUME NEW u \in Tests \ {t} PROVE TestInv(u)'
    OBVIOUS
  <2>1. SnapshotFile(u, "html") \in Files \ {core} /\ SnapshotFile(u, "core") \in Files \ {core}
    BY FilesDistinct
  <2> QED BY <1>1, <1>2, <1>3, <1>5, <1>6, <1>7, <2>1, Frame
<1>10. TestInv(t)'
  <2>1. TestInv(t) /\ SnapshotFile(t, "html")' = html /\ SnapshotFile(t, "core")' = core
    BY <1>1 DEF SnapshotFile
  <2>2. /\ ToSet(failures[t]) \subseteq ToSet(failures'[t])
        /\ ToSet(failures'[t]) \subseteq ToSet(failures[t]) \cup {r.error, x, y}
        /\ ToSet(failures'[t]) = {} => r.error = "none" /\ source[t].parses /\ source[t].same_pretty
        /\ r.error # "none" => r.error \in ToSet(failures'[t])
    BY <1>6
  <2>3. StagesInv(t)'
    BY <1>1, <1>2, <2>1 DEF TestInv, StagesInv, Passed
  <2>4. FoundInv(t)'
    BY <1>1, <1>2, <2>1 DEF TestInv, FoundInv, BehindCore, BehindSurface, BehindPretty
  <2>5. snapshots'[html] = snapshots[html] /\ (r.error = "none" => snapshots'[core] = source[t].pretty)
    BY <1>3, <1>4, <1>5
  <2>6. HoldsInv(t)'
    <3>1. HoldsInv(t) /\ snapshots[html] = snapshots[SnapshotFile(t, "html")]
      BY <2>1 DEF TestInv
    <3> HIDE DEF html, core, x, y
    <3> QED BY <1>1, <1>2, <2>1, <2>2, <2>5, <3>1
            DEF HoldsInv, BehindDoc, BehindCore, BehindSurface, BehindPretty
  <2>7. BlessInv(t)'
    <3>1. BlessInv(t) /\ snapshots[html] = snapshots[SnapshotFile(t, "html")] /\ snapshots[core] = snapshots[SnapshotFile(t, "core")]
      BY <2>1 DEF TestInv
    <3>2. x \notin NotHeld \cup NotAccessed /\ y \notin NotHeld \cup NotAccessed
      BY DEF NotHeld, NotAccessed
    <3>3. stage[t] \in BehindDoc
      BY <1>1 DEF BehindDoc, BehindCore, BehindSurface
    <3> HIDE DEF html, core, x, y
    <3>4. bless' \/ t \in blessed' => NotHeld \cap ToSet(failures'[t]) = {}
      BY <1>1, <1>5, <1>7, <2>2, <3>1, <3>2 DEF BlessInv
    <3>5. bless /\ NotAccessed \cap ToSet(failures'[t]) = {} =>
            r.error = "none" /\ snapshots[html] = source[t].doc
      BY <1>5, <2>2, <3>1, <3>3 DEF BlessInv
    <3>6. t \in blessed' => snapshots'[html] = source'[t].doc /\ snapshots'[core] = source'[t].pretty
      <4>1. CASE bless /\ NotAccessed \cap ToSet(failures'[t]) = {}
        BY <1>1, <2>5, <3>5, <4>1
      <4>2. CASE t \in blessed
        BY <1>1, <1>3, <1>5, <2>5, <3>1, <4>2 DEF BlessInv
      <4> QED BY <1>7, <4>1, <4>2
    <3> QED BY <1>1, <2>1, <2>5, <3>4, <3>5, <3>6 DEF BlessInv
  <2>8. DecideInv(t)'
    BY <1>1, <1>2, <1>5, <2>1, <2>2 DEF TestInv, DecideInv, Undecided, NotAccessed, NotHeld
  <2> QED BY <2>3, <2>4, <2>6, <2>7, <2>8 DEF TestInv
<1> QED BY <1>8, <1>9, <1>10 DEF IInv

-----------------------------------------------------------------------------
(* The directives. *)

\* A diagnostic has the wording of its message.
LEMMA DiagnosticMessage ==
  ASSUME NEW m, m.pass \in Passes, m.kind \in KindsOf[m.pass]
  PROVE  ToDiagnostic(m).message = m.kind
<1>1. CASE m.pass = "Global"
  BY <1>1 DEF KindsOf, ToDiagnostic, Bug, Diagnostic
<1>2. CASE m.pass \in {"Lexer", "Parse", "LiteralParse"}
  BY <1>2 DEF KindsOf, ToDiagnostic, LexerDiagnostic, ParseDiagnostic, LiteralParseDiagnostic, Error, Diagnostic
<1>3. CASE m.pass = "CoreTyping"
  <2>1. ToDiagnostic(m) = CoreTypingDiagnostic(m)
    BY <1>3 DEF KindsOf, ToDiagnostic
  <2>2. CASE m.kind \in StructKinds
    BY <2>1, <2>2 DEF StructKinds, CoreTypingDiagnostic, CoreTypingStructDiagnostic, Error, Bug, Diagnostic
  <2>3. CASE m.kind \notin StructKinds
    BY <2>1, <2>3 DEF CoreTypingDiagnostic, CoreTypingTermDiagnostic, Bug, Diagnostic
  <2> QED BY <2>2, <2>3
<1>4. CASE m.pass = "SurfaceToCore"
  <2>1. ToDiagnostic(m) = SurfaceToCoreDiagnostic(m)
    BY <1>4 DEF KindsOf, ToDiagnostic
  <2>2. m.kind \in StructKinds \/ m.kind \in ShapeKinds \/ m.kind \in PatternKinds \/ m.kind \in TermKinds
    BY <1>4 DEF KindsOf, SurfaceToCoreKinds
  <2>3. \/ ToDiagnostic(m) = SurfaceStructDiagnostic(m) \/ ToDiagnostic(m) = SurfaceShapeDiagnostic(m)
        \/ ToDiagnostic(m) = SurfacePatternDiagnostic(m) \/ ToDiagnostic(m) = SurfaceTermDiagnostic(m)
    BY <2>1, <2>2 DEF SurfaceToCoreDiagnostic
  <2> QED BY <2>3 DEF SurfaceStructDiagnostic, SurfaceShapeDiagnostic, SurfacePatternDiagnostic,
             SurfaceTermDiagnostic, Error, Diagnostic
<1> QED BY <1>1, <1>2, <1>3, <1>4 DEF Passes

\* A directive expects the diagnostic of a message exactly when the message answers
\* it: every label that is left is about the file of the test.
LEMMA ExpectedMeansAnswered ==
  ASSUME NEW m \in TestMessage, NEW e
  PROVE  IsExpected(ToDiagnostic(m), e) <=> Answers(m, e)
<1> DEFINE d == ToDiagnostic(m)
<1>1. \A i \in DOMAIN d.labels : d.labels[i].location.file = FormatFile
  BY DEF TestMessage
<1>2. d.message = m.kind
  BY DiagnosticMessage DEF TestMessage
<1> QED BY <1>1, <1>2 DEF IsExpected, Answers, PrimaryLines, IsMatch

\* retain_unexpected leaves a diagnostic exactly when some message is unanswered, and
\* a directive exactly when some directive is unmet.
LEMMA RetainDecides ==
  ASSUME TypeOK, NEW t \in Tests
  PROVE  LET diagnostics == [i \in DOMAIN found[t] |-> ToDiagnostic(found[t][i])]
             expected == source[t].expected
         IN  /\ Unexpected(diagnostics, expected) # <<>> <=> Unanswered(t)
             /\ Missing(diagnostics, expected) # <<>> <=> Unmet(t)
<1> DEFINE diagnostics == [i \in DOMAIN found[t] |-> ToDiagnostic(found[t][i])]
           expected == source[t].expected
           D == {ToDiagnostic(m) : m \in TestMessage}
           E == [line : Nat, severity : ToSet(Severity), pattern : Kinds \cup {"any"}]
<1>1. found[t] \in Seq(TestMessage) /\ expected \in Seq(E)
  BY DEF TypeOK, TestSource
<1>2. diagnostics \in Seq(D) /\ DOMAIN diagnostics = DOMAIN found[t]
  <2>1. DOMAIN found[t] = 1..Len(found[t]) /\ Len(found[t]) \in Nat
    BY <1>1
  <2>2. diagnostics \in [1..Len(found[t]) -> D]
    BY <1>1, <2>1
  <2> QED BY <2>1, <2>2, SegmentIsSeq
<1>3. \A i \in DOMAIN found[t], j \in DOMAIN expected :
        IsExpected(diagnostics[i], expected[j]) <=> Answers(found[t][i], expected[j])
  <2> SUFFICES ASSUME NEW i \in DOMAIN found[t], NEW j \in DOMAIN expected
               PROVE  IsExpected(diagnostics[i], expected[j]) <=> Answers(found[t][i], expected[j])
    OBVIOUS
  <2>1. found[t][i] \in TestMessage /\ diagnostics[i] = ToDiagnostic(found[t][i])
    BY <1>1
  <2> HIDE DEF diagnostics, expected
  <2>2. IsExpected(ToDiagnostic(found[t][i]), expected[j]) <=> Answers(found[t][i], expected[j])
    BY <2>1, ExpectedMeansAnswered
  <2> QED BY <2>1, <2>2
<1>4. Unexpected(diagnostics, expected) # <<>> <=> Unanswered(t)
  <2> DEFINE matched == {i \in DOMAIN diagnostics :
                           \E j \in DOMAIN expected : IsExpected(diagnostics[i], expected[j])}
  <2>1. RemoveIndices(diagnostics, matched) = <<>> <=> \A i \in DOMAIN diagnostics : i \in matched
    <3> HIDE DEF diagnostics, expected, matched, D
    <3> QED BY <1>2, RemoveIndicesLeaves
  <2> HIDE DEF diagnostics, expected
  <2>2. Unexpected(diagnostics, expected) = RemoveIndices(diagnostics, matched)
    BY DEF Unexpected
  <2>3. Unanswered(t) <=> \E i \in DOMAIN found[t] : \A j \in DOMAIN expected : ~Answers(found[t][i], expected[j])
    BY DEF Unanswered, expected
  <2>4. (\A i \in DOMAIN diagnostics : i \in matched) <=> ~Unanswered(t)
    BY <1>2, <1>3, <2>3
  <2> QED BY <2>1, <2>2, <2>4
<1>5. Missing(diagnostics, expected) # <<>> <=> Unmet(t)
  <2> DEFINE matched == {j \in DOMAIN expected :
                           \E i \in DOMAIN diagnostics : IsExpected(diagnostics[i], expected[j])}
  <2>1. RemoveIndices(expected, matched) = <<>> <=> \A j \in DOMAIN expected : j \in matched
    <3> HIDE DEF diagnostics, expected, matched, E
    <3> QED BY <1>1, RemoveIndicesLeaves
  <2> HIDE DEF diagnostics, expected
  <2>2. Missing(diagnostics, expected) = RemoveIndices(expected, matched)
    BY DEF Missing
  <2>3. Unmet(t) <=> \E j \in DOMAIN expected : \A i \in DOMAIN found[t] : ~Answers(found[t][i], expected[j])
    BY DEF Unmet, expected
  <2>4. (\A j \in DOMAIN expected : j \in matched) <=> ~Unmet(t)
    BY <1>2, <1>3, <2>3
  <2> QED BY <2>1, <2>2, <2>4
<1> QED BY <1>4, <1>5

\* FullTest::check_diagnostics decides the test by what is left over.
LEMMA CheckDiagnosticsInv ==
  ASSUME IInv, NEW t \in Tests, CheckDiagnostics(t)
  PROVE  IInv'
<1> DEFINE x == "unexpected_diagnostics"
           y == "expected_diagnostics"
<1>1. /\ stage[t] = "check_diagnostics" /\ outcome[t] = "Running"
      /\ UNCHANGED <<source, bless, runs, found, outcome, snapshots, blessed>>
      /\ TypeOK /\ (\A u \in Tests : TestInv(u)) /\ GoOn(t)
  BY DEF CheckDiagnostics, AtStage, IInv
<1>2. /\ stage' \in [Tests -> StageNames] /\ stage'[t] = "check_failures"
      /\ \A u \in Tests \ {t} : stage'[u] = stage[u]
  <2>1. 8 \in 1..8 /\ stage[t] = Stages[8] /\ Stages[8 + 1] = "check_failures"
    BY <1>1, StageOrder
  <2> QED BY <1>1, <2>1, GoOnStage
<1>3. /\ failures' \in [Tests -> Seq(FailureNames)]
      /\ ToSet(failures'[t]) = ToSet(failures[t]) \cup
           ((IF Unanswered(t) THEN {x} ELSE {}) \cup (IF Unmet(t) THEN {y} ELSE {}))
      /\ \A u \in Tests \ {t} : failures'[u] = failures[u]
  <2> DEFINE diagnostics == [i \in DOMAIN found[t] |-> ToDiagnostic(found[t][i])]
             expected == source[t].expected
             a == Unexpected(diagnostics, expected) # <<>>
             b == Missing(diagnostics, expected) # <<>>
             names == Failure(a, x) \o Failure(b, y)
  <2>1. Fail(t, names)
    BY DEF CheckDiagnostics
  <2>2. (a <=> Unanswered(t)) /\ (b <=> Unmet(t))
    BY <1>1, RetainDecides
  <2>3. x \in FailureNames /\ y \in FailureNames /\ a \in BOOLEAN /\ b \in BOOLEAN
    BY DEF FailureNames, Undecided
  <2> HIDE DEF x, y, a, b
  <2>4. names \in Seq(FailureNames) /\ ToSet(names) = (IF a THEN {x} ELSE {}) \cup (IF b THEN {y} ELSE {})
    BY <2>3, FailuresType
  <2> HIDE DEF names
  <2>5. /\ failures' \in [Tests -> Seq(FailureNames)]
        /\ ToSet(failures'[t]) = ToSet(failures[t]) \cup ((IF a THEN {x} ELSE {}) \cup (IF b THEN {y} ELSE {}))
        /\ \A u \in Tests \ {t} : failures'[u] = failures[u]
    BY <1>1, <2>1, <2>4, FailEffect
  <2> QED BY <2>2, <2>5
<1>4. TypeOK'
  BY <1>1, <1>2, <1>3 DEF TypeOK
<1>5. \A u \in Tests \ {t} : TestInv(u)'
  BY <1>1, <1>2, <1>3, Frame
<1>6. TestInv(t)'
  <2>1. TestInv(t) /\ ToSet(failures[t]) \subseteq ToSet(failures'[t])
        /\ ToSet(failures'[t]) \subseteq ToSet(failures[t]) \cup {x, y}
    BY <1>1, <1>3
  <2>2. StagesInv(t)'
    BY <1>1, <1>2, <2>1 DEF TestInv, StagesInv, Passed
  <2>3. FoundInv(t)'
    BY <1>1, <1>2, <2>1 DEF TestInv, FoundInv, BehindCore, BehindSurface, BehindPretty
  <2>4. HoldsInv(t)'
    BY <1>1, <1>2, <2>1
       DEF TestInv, HoldsInv, BehindDoc, BehindCore, BehindSurface, BehindPretty, SnapshotFile
  <2>5. BlessInv(t)'
    BY <1>1, <1>2, <2>1
       DEF TestInv, BlessInv, BehindDoc, BehindCore, BehindSurface, BehindPretty, NotHeld, NotAccessed, SnapshotFile
  <2>6. DecideInv(t)'
    <3>1. Undecided \cap ToSet(failures[t]) = {}
      BY <1>1, <2>1 DEF TestInv, DecideInv
    <3>2. (x \in ToSet(failures'[t]) <=> Unanswered(t)) /\ (y \in ToSet(failures'[t]) <=> Unmet(t))
      BY <1>3, <3>1 DEF Undecided
    <3>3. (Unanswered(t)' <=> Unanswered(t)) /\ (Unmet(t)' <=> Unmet(t))
      BY <1>1 DEF Unanswered, Unmet
    <3> QED BY <1>2, <3>2, <3>3 DEF DecideInv
  <2> QED BY <2>2, <2>3, <2>4, <2>5, <2>6 DEF TestInv
<1> QED BY <1>4, <1>5, <1>6 DEF IInv

\* check_failures ends the test.
LEMMA CheckFailuresInv ==
  ASSUME IInv, NEW t \in Tests, CheckFailures(t)
  PROVE  IInv'
<1>1. /\ stage[t] = "check_failures" /\ outcome[t] = "Running"
      /\ UNCHANGED <<source, bless, runs, stage, found, failures, snapshots, blessed>>
      /\ TypeOK /\ \A u \in Tests : TestInv(u)
  BY DEF CheckFailures, AtStage, IInv
<1>2. /\ outcome' \in [Tests -> {"Running", "Passed", "Failed", "Ignored"}]
      /\ outcome'[t] = "Passed" => failures[t] = <<>>
      /\ \A u \in Tests \ {t} : outcome'[u] = outcome[u]
  BY <1>1 DEF CheckFailures, End, TypeOK
<1>3. TypeOK'
  BY <1>1, <1>2 DEF TypeOK
<1>4. \A u \in Tests \ {t} : TestInv(u)'
  BY <1>1, <1>2, Frame
<1>5. TestInv(t)'
  <2>1. TestInv(t) /\ ToSet(<<>>) = {}
    BY <1>1 DEF ToSet
  <2>2. StagesInv(t)'
    BY <1>1, <1>2, <2>1 DEF TestInv, StagesInv, Passed
  <2>3. FoundInv(t)' /\ HoldsInv(t)' /\ BlessInv(t)'
    BY <1>1, <2>1 DEF TestInv, FoundInv, HoldsInv, BlessInv, SnapshotFile
  <2>4. DecideInv(t)'
    BY <1>1, <2>1 DEF TestInv, DecideInv, Unanswered, Unmet
  <2> QED BY <2>2, <2>3, <2>4 DEF TestInv
<1> QED BY <1>3, <1>4, <1>5 DEF IInv

\* A new run starts all tests anew and keeps what was blessed, where the source stayed.
LEMMA RunAgainInv ==
  ASSUME IInv, RunAgain
  PROVE  IInv'
<1>1. /\ TypeOK /\ (\A t \in Tests : TestInv(t)) /\ UNCHANGED snapshots /\ bless' \in BOOLEAN
      /\ stage' = [t \in Tests |-> "directives"] /\ found' = [t \in Tests |-> <<>>]
      /\ failures' = [t \in Tests |-> <<>>] /\ outcome' = [t \in Tests |-> "Running"]
  BY DEF IInv, RunAgain
<1>2. /\ source' \in [Tests -> TestSource] /\ blessed' \subseteq blessed
      /\ \A t \in blessed' : source'[t] = source[t]
  BY <1>1, SuitesAssumption DEF RunAgain, TypeOK
<1>3. TypeOK'
  <2>1. <<>> \in Seq(TestMessage) /\ <<>> \in Seq(FailureNames) /\ "directives" \in StageNames
    BY DEF StageNames
  <2> QED BY <1>1, <1>2, <2>1 DEF TypeOK
<1>4. ASSUME NEW t \in Tests PROVE TestInv(t)'
  <2>1. TestInv(t) /\ ToSet(<<>>) = {} /\ stage'[t] = "directives" /\ found'[t] = <<>>
        /\ failures'[t] = <<>> /\ outcome'[t] = "Running"
    BY <1>1 DEF ToSet
  <2>2. StagesInv(t)' /\ FoundInv(t)' /\ HoldsInv(t)' /\ DecideInv(t)'
    BY <2>1 DEF StagesInv, Passed, FoundInv, HoldsInv, DecideInv,
       BehindDoc, BehindCore, BehindSurface, BehindPretty
  <2>3. BlessInv(t)'
    BY <1>1, <1>2, <2>1 DEF TestInv, BlessInv, SnapshotFile, BehindDoc, BehindCore, BehindSurface, BehindPretty
  <2> QED BY <2>2, <2>3 DEF TestInv
<1> QED BY <1>3, <1>4 DEF IInv

\* The invariant holds before the first run of the suite.
LEMMA InitInv == Init => IInv
<1> SUFFICES ASSUME Init PROVE IInv
  OBVIOUS
<1>1. TypeOK
  <2>1. <<>> \in Seq(TestMessage) /\ <<>> \in Seq(FailureNames) /\ "directives" \in StageNames
    BY DEF StageNames
  <2> QED BY <2>1, SuitesAssumption DEF Init, Fresh, TypeOK, Files
<1>2. ASSUME NEW t \in Tests PROVE TestInv(t)
  <2>1. ToSet(<<>>) = {} /\ stage[t] = "directives" /\ found[t] = <<>>
        /\ failures[t] = <<>> /\ outcome[t] = "Running" /\ blessed = {}
    BY DEF Init, Fresh, ToSet
  <2>2. StagesInv(t) /\ FoundInv(t) /\ HoldsInv(t) /\ DecideInv(t) /\ BlessInv(t)
    BY <2>1 DEF StagesInv, Passed, FoundInv, HoldsInv, DecideInv, BlessInv,
       BehindDoc, BehindCore, BehindSurface, BehindPretty
  <2> QED BY <2>2 DEF TestInv
<1> QED BY <1>1, <1>2 DEF IInv

\* Every step of every test, and every new run of the suite, keeps the invariant.
LEMMA NextInv == IInv /\ [Next]_vars => IInv'
<1> SUFFICES ASSUME IInv, [Next]_vars PROVE IInv'
  OBVIOUS
<1>1. CASE UNCHANGED vars
  <2>1. TypeOK' /\ \A t \in Tests : TestInv(t)
    BY <1>1 DEF vars, TypeOK, IInv, Files, SnapshotFile
  <2>2. \A t \in Tests : TestInv(t)'
    BY <1>1, <2>1, Frame DEF vars
  <2> QED BY <2>1, <2>2 DEF IInv
<1>2. CASE RunAgain
  BY <1>2, RunAgainInv
<1>3. ASSUME NEW t \in Tests,
             \/ RunSimpleTest(t) \/ ReadDirectives(t) \/ ParseSurface(t) \/ CompileDoc(t)
             \/ SurfaceToCore(t) \/ RoundtripSurfaceToCore(t) \/ RoundtripCoreToPretty(t)
             \/ BinaryParseTests(t) \/ CheckDiagnostics(t) \/ CheckFailures(t)
      PROVE  IInv'
  BY <1>3, SimpleTestInv, DirectivesInv, ParseInv, DocInv, CoreInv, SurfaceInv, PrettyInv,
     BinaryInv, CheckDiagnosticsInv, CheckFailuresInv
<1> QED BY <1>1, <1>2, <1>3 DEF Next

\* The invariant holds in every behaviour.
LEMMA Invariance == Spec => []IInv
BY InitInv, NextInv, PTL DEF Spec

-----------------------------------------------------------------------------
(* What the invariant says. *)

\* The directives decide: what fails a full test are exactly the messages without a
\* directive on their line and the directives without a message.
THEOREM DirectivesAreDecisive == Spec => []DirectivesDecide
<1>1. IInv => DirectivesDecide
  BY DEF IInv, TestInv, DecideInv, DirectivesDecide, AtStage, Unanswered, Unmet
<1> QED BY <1>1, Invariance, PTL

\* A full test that passes has passed every stage, and holds both of its snapshots.
THEOREM PassingIsComplete == Spec => []PassedMeansAllStages
<1>1. IInv => PassedMeansAllStages
  <2> SUFFICES ASSUME IInv, NEW t \in Tests, Passed(t)
               PROVE  /\ source[t].parse = <<>> => found[t] = source[t].elab /\ source[t].core = <<>>
                      /\ source[t].elaborates_again /\ source[t].same_core
                      /\ source[t].parses /\ source[t].same_pretty
                      /\ snapshots[SnapshotFile(t, "html")] = source[t].doc
                      /\ snapshots[SnapshotFile(t, "core")] = source[t].pretty
    BY DEF PassedMeansAllStages
  <2>1. TestInv(t) /\ TypeOK
    BY DEF IInv
  <2>2. /\ stage[t] \in BehindPretty /\ stage[t] \in BehindSurface /\ stage[t] \in BehindCore
        /\ stage[t] \in BehindDoc /\ ToSet(failures[t]) = {}
    BY <2>1 DEF TestInv, StagesInv, BehindDoc, BehindCore, BehindSurface, BehindPretty
  <2>3. source[t].parse = <<>> => found[t] = source[t].elab
    <3>1. source[t].elab \in Seq(TestMessage)
      BY <2>1 DEF TypeOK, TestSource
    <3>2. <<>> \o source[t].elab = source[t].elab
      BY <3>1, ConcatEmptySeq
    <3> QED BY <2>1, <2>2, <3>2 DEF TestInv, FoundInv
  <2> QED BY <2>1, <2>2, <2>3 DEF TestInv, HoldsInv
<1> QED BY <1>1, Invariance, PTL

\* Blessing settles the snapshots of a test, whatever the others do beside it.
THEOREM BlessingSettles == Spec => []BlessedSnapshotsHold
<1>1. IInv => BlessedSnapshotsHold
  BY DEF IInv, TypeOK, TestInv, BlessInv, BlessedSnapshotsHold, NotHeld
<1> QED BY <1>1, Invariance, PTL

=============================================================================
