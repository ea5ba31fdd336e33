---------------------------- MODULE DriverProofs ----------------------------
(***************************************************************************)
(* Proofs about the driver and its clients, for every set of paths, every  *)
(* source and any number of calls.                                         *)
(***************************************************************************)
EXTENDS Driver, DataInduction

-----------------------------------------------------------------------------
(* Messages. *)

\* The messages of a pass about a file are as many as the pass has found.
LEMMA AtType ==
  ASSUME NEW found \in Seq(Finding), NEW id \in Nat
  PROVE  /\ At(found, id) \in Seq(FoundMessage)
         /\ Len(At(found, id)) = Len(found)
         /\ \A i \in 1..Len(found) :
              /\ At(found, id)[i] = Message(found[i].pass, found[i].kind,
                   [j \in DOMAIN found[i].lines |-> FileRange(id, found[i].lines[j])])
              /\ \A j \in DOMAIN At(found, id)[i].locations : At(found, id)[i].locations[j].file = id
<1>1. \A i \in 1..Len(found) :
        Message(found[i].pass, found[i].kind,
                [j \in DOMAIN found[i].lines |-> FileRange(id, found[i].lines[j])]) \in FoundMessage
  <2> SUFFICES ASSUME NEW i \in 1..Len(found)
               PROVE  Message(found[i].pass, found[i].kind,
                [j \in DOMAIN found[i].lines |-> FileRange(id, found[i].lines[j])]) \in FoundMessage
    OBVIOUS
  <2>1. found[i] \in Finding
    OBVIOUS
  <2>2. found[i].lines \in Seq(Nat)
    BY <2>1 DEF Finding
  <2>3. [j \in DOMAIN found[i].lines |-> FileRange(id, found[i].lines[j])] \in Seq([file : Nat, line : Nat])
    <3> DEFINE at == [j \in DOMAIN found[i].lines |-> FileRange(id, found[i].lines[j])]
    <3>1. DOMAIN found[i].lines = 1..Len(found[i].lines) /\ Len(found[i].lines) \in Nat
      BY <2>2
    <3>2. at \in [1..Len(found[i].lines) -> [file : Nat, line : Nat]]
      BY <2>2, <3>1 DEF FileRange
    <3> QED BY <3>1, <3>2, SegmentIsSeq
  <2> QED BY <2>1, <2>3 DEF Message, FoundMessage, Finding
<1>2. DOMAIN found = 1..Len(found)
  OBVIOUS
<1>3. At(found, id) \in Seq(FoundMessage) /\ Len(At(found, id)) = Len(found)
  <2>1. At(found, id) \in [1..Len(found) -> FoundMessage]
    BY <1>1, <1>2 DEF At
  <2> QED BY <2>1, SegmentIsSeq
<1> QED BY <1>2, <1>3 DEF At, Message, FileRange

\* They point into that file.
LEMMA AtLabels ==
  ASSUME NEW found \in Seq(Finding), NEW id \in Nat
  PROVE  \A i \in 1..Len(At(found, id)) : \A j \in DOMAIN At(found, id)[i].locations :
           At(found, id)[i].locations[j].file = id
BY AtType

\* The message for a file that cannot be read has no location.
LEMMA CannotReadType ==
  CannotRead \in FoundMessage /\ DOMAIN CannotRead.locations = {}
<1>1. <<>> \in Seq([file : Nat, line : Nat]) /\ DOMAIN <<>> = {}
  OBVIOUS
<1>2. "Global" \in Passes /\ "ReadFile" \in Kinds
  <2>1. "Global" \in Passes /\ "ReadFile" \in KindsOf["Global"]
    BY DEF Passes, KindsOf
  <2> QED BY <2>1, Zenon DEF Kinds
<1> QED BY <1>1, <1>2 DEF CannotRead, Message, FoundMessage

\* An unreadable file is parsed as an empty module, which elaborates to nothing.
LEMMA EmptyType == Empty \in Source /\ Empty.core = <<>>
<1>1. <<>> \in Seq(Finding)
  OBVIOUS
<1> QED BY <1>1 DEF Empty, Source

-----------------------------------------------------------------------------
(* The inductive invariant. *)

\* The steps of a call.
InCall == Steps \ {"idle", "check_diagnostics", "ok", "err"}

\* A call in progress has an operation and a path, and the file of the messages it
\* pushes is the last one added.
CallInv ==
  /\ pc \in InCall => call \in Calls
  /\ pc \in {"parse", "surface_to_core"} =>
       Len(files) > 0 /\ files[Len(files)] = call.path /\ disk[call.path] # Unreadable

\* Labels; the history of messages and that of paths are in step.
LabelInv == Len(origin) = Len(log) /\ LabelsNameTheirFile

\* What check_diagnostics has done so far.
RenderInv ==
  /\ RenderedOnceInOrder
  /\ pc = "check_diagnostics" =>
       /\ rendering <= Len(messages)
       /\ is_ok => \A i \in 1..rendering : ~IsError(messages[i])

\* A command makes one call on one file, and exits when it has rendered; before, it
\* has cleared nothing.  A diagnostic that could not be written ends it.
CommandInv ==
  /\ exit # Running => client = "cli" /\ pc = "idle"
  /\ client = "cli" =>
       /\ pc = "idle" /\ exit = Running => calls = 0
       /\ calls = 0 => files = <<>> /\ module = Empty /\ pc = "idle"
       /\ pc = "add_source_file" => files = <<>> /\ module = Empty
       /\ pc \in {"parse", "surface_to_core"} => Len(files) = 1
       /\ exit = Running => cleared = <<>>
       /\ broken => pc = "err" \/ exit = FAILURE

\* Behind the passes, what validation has found is among the messages.
ValidationInv ==
  client = "cli" /\ validate_core /\ call.op # "write_doc"
    /\ pc \notin {"idle", "add_source_file", "parse", "surface_to_core"} =>
      \A i \in DOMAIN module.core : \E j \in DOMAIN log : log[j] = At(module.core, 1)[i]

IInv ==
  /\ TypeOK /\ CallInv /\ LabelInv /\ RenderInv /\ CommandInv /\ ValidationInv
  /\ SuccessMeansNoErrors /\ LostOnlyOnFailure

-----------------------------------------------------------------------------
(* Type correctness. *)

\* Pushing messages keeps the log, and the path each message came from, in step.
LEMMA PushType ==
  ASSUME TypeOK, call \in Calls, NEW found \in Seq(FoundMessage), Push(found)
  PROVE  /\ messages' \in Seq(FoundMessage) /\ log' \in Seq(FoundMessage)
         /\ cleared' \in Seq(FoundMessage) /\ origin' \in Seq(Paths)
         /\ Len(origin') = Len(origin) + Len(found) /\ Len(log') = Len(log) + Len(found)
         /\ \A i \in 1..Len(origin') :
              origin'[i] = IF i <= Len(origin) THEN origin[i] ELSE call.path
<1>1. Len(found) \in Nat /\ DOMAIN found = 1..Len(found) /\ call.path \in Paths
  BY DEF Calls
<1>2. /\ origin' = origin \o [i \in 1..Len(found) |-> call.path]
      /\ log' = log \o found /\ messages' = messages \o found /\ cleared' = cleared
  BY <1>1 DEF Push
<1>3. /\ messages \in Seq(FoundMessage) /\ log \in Seq(FoundMessage)
      /\ cleared \in Seq(FoundMessage) /\ origin \in Seq(Paths)
  BY DEF TypeOK
<1>4. /\ messages' \in Seq(FoundMessage) /\ log' \in Seq(FoundMessage)
      /\ cleared' \in Seq(FoundMessage) /\ Len(log') = Len(log) + Len(found)
  BY <1>2, <1>3, ConcatProperties
<1>5. /\ origin' \in Seq(Paths) /\ Len(origin') = Len(origin) + Len(found)
      /\ \A i \in 1..(Len(origin) + Len(found)) :
           origin'[i] = IF i <= Len(origin) THEN origin[i] ELSE call.path
  BY <1>1, <1>2, <1>3, ConcatRepeated
<1> QED BY <1>4, <1>5

\* The passes of a call that is at work have a source to work on.
LEMMA SourceOfCall ==
  ASSUME TypeOK, CallInv, pc \in {"parse", "surface_to_core"}
  PROVE  disk[call.path] \in Source /\ call \in Calls /\ FileId \in Nat
<1>1. call \in Calls
  BY DEF CallInv, InCall, Steps
<1> QED BY <1>1, SourcesAssumption DEF TypeOK, CallInv, Calls, FileId

\* Every step keeps the types.
LEMMA TypePreserved ==
  ASSUME TypeOK, CallInv, [Next]_vars
  PROVE  TypeOK'
<1> USE DEF TypeOK, Goto
<1>1. ASSUME NEW op \in {"read_data", "check", "write_doc"}, NEW path \in Paths, Call(op, path)
      PROVE  TypeOK'
  BY <1>1 DEF Call, settings, history, Output, Calls, Steps
<1>2. CASE Compile
  BY <1>2 DEF Compile, settings, history, Output
<1>3. CASE AddSourceFile
  <2>1. call \in Calls /\ CannotRead \in FoundMessage /\ <<CannotRead>> \in Seq(FoundMessage)
    BY <1>3, CannotReadType DEF AddSourceFile, CallInv, InCall, Steps
  <2>2. CASE disk[call.path] = Unreadable
    <3>1. Push(<<CannotRead>>)
      BY <1>3, <2>2 DEF AddSourceFile
    <3> QED BY <1>3, <2>1, <2>2, <3>1, PushType DEF AddSourceFile, settings, Output, Steps
  <2>3. CASE disk[call.path] # Unreadable
    <3>1. call.path \in Paths /\ files' = Append(files, call.path)
      BY <1>3, <2>1, <2>3 DEF AddSourceFile, Calls
    <3>2. files' \in Seq(Paths)
      BY <3>1, AppendProperties
    <3> QED BY <1>3, <2>1, <2>3, <3>2 DEF AddSourceFile, settings, history, Output, Steps
  <2> QED BY <2>2, <2>3
<1>4. CASE ParseSurfaceModule
  <2>1. disk[call.path] \in Source /\ call \in Calls /\ FileId \in Nat
    BY <1>4, SourceOfCall DEF ParseSurfaceModule
  <2>2. At(disk[call.path].parse, FileId) \in Seq(FoundMessage)
    BY <2>1, AtType DEF Source
  <2>3. module' \in Source
    BY <1>4, <2>1, EmptyType DEF ParseSurfaceModule
  <2> QED BY <1>4, <2>1, <2>2, <2>3, PushType DEF ParseSurfaceModule, settings, Output, Steps
<1>5. CASE SurfaceToCoreModule
  <2> DEFINE found == At(module.elab, FileId) \o (IF validate_core THEN At(module.core, FileId) ELSE <<>>)
  <2>1. call \in Calls /\ FileId \in Nat
    BY <1>5, SourceOfCall DEF SurfaceToCoreModule
  <2>2. At(module.elab, FileId) \in Seq(FoundMessage) /\ At(module.core, FileId) \in Seq(FoundMessage)
    BY <2>1, AtType DEF Source
  <2>3. found \in Seq(FoundMessage)
    BY <2>2
  <2>4. Push(found)
    BY <1>5 DEF SurfaceToCoreModule
  <2> HIDE DEF found
  <2> QED BY <1>5, <2>1, <2>3, <2>4, PushType DEF SurfaceToCoreModule, settings, Output, Steps
<1>6. CASE EmitCore
  BY <1>6 DEF EmitCore, Write, settings, history, Output, Steps
<1>7. CASE WriteDoc
  BY <1>7 DEF WriteDoc, Write, settings, history, Steps
<1>8. CASE ReadBinaryFile
  <2>1. call \in Calls /\ <<CannotRead>> \in Seq(FoundMessage)
    BY <1>8, CannotReadType DEF ReadBinaryFile, CallInv, InCall, Steps
  <2>2. CASE Push(<<CannotRead>>) /\ pc' = "ok"
    BY <1>8, <2>1, <2>2, PushType DEF ReadBinaryFile, settings, Output, Steps
  <2>3. CASE pc' = "read_item" /\ UNCHANGED <<messages, history>>
    BY <1>8, <2>3 DEF ReadBinaryFile, settings, history, Output, Steps
  <2> QED BY <1>8, <2>2, <2>3 DEF ReadBinaryFile
<1>9. CASE ReadItem
  BY <1>9 DEF ReadItem, settings, history, Output, Steps, Source
<1>10. CASE EmitMain
  BY <1>10 DEF EmitMain, Write, settings, history, Steps
<1>11. CASE EmitLink
  BY <1>11 DEF EmitLink, Write, settings, history, Output, Steps
<1>12. CASE ReturnErr
  BY <1>12 DEF ReturnErr, settings, history, Output, Steps
<1>13. CASE ReturnOk \/ CheckDiagnostics
  <2>1. CASE ReturnOk
    BY <2>1 DEF ReturnOk, settings, history, Steps
  <2>2. CASE CheckDiagnostics
    BY <2>2 DEF CheckDiagnostics, settings, history, Steps
  <2> QED BY <1>13, <2>1, <2>2
<1>14. CASE Render
  <2>1. is_ok' \in BOOLEAN
    BY <1>14, Zenon DEF Render, Below
  <2> QED BY <1>14, <2>1 DEF Render, settings, history
<1>15. CASE CannotRender
  BY <1>15 DEF CannotRender, settings, history, Steps
<1>16. CASE Rendered
  BY <1>16 DEF Rendered, settings, Output, Steps
<1>17. CASE UNCHANGED vars
  BY <1>17 DEF vars
<1> QED
  BY <1>1, <1>2, <1>3, <1>4, <1>5, <1>6, <1>7, <1>8, <1>9, <1>10, <1>11, <1>12, <1>13,
     <1>14, <1>15, <1>16, <1>17 DEF Next

-----------------------------------------------------------------------------
(* Calls and labels. *)

\* Every step keeps the call, its files and the program counter in agreement.
LEMMA CallPreserved ==
  ASSUME TypeOK, CallInv, [Next]_vars
  PROVE  CallInv'
<1> USE DEF CallInv, InCall, Steps, Goto
<1>1. ASSUME NEW op \in {"read_data", "check", "write_doc"}, NEW path \in Paths, Call(op, path)
      PROVE  CallInv'
  BY <1>1 DEF Call, settings, Calls
<1>2. CASE Compile
  BY <1>2 DEF Compile, settings
<1>3. CASE AddSourceFile
  <2>1. files \in Seq(Paths) /\ call.path \in Paths
    BY <1>3 DEF AddSourceFile, TypeOK, Calls
  <2>2. CASE disk[call.path] # Unreadable
    <3>1. Len(files') = Len(files) + 1 /\ Len(files) \in Nat /\ files'[Len(files) + 1] = call.path
      BY <1>3, <2>1, <2>2, AppendProperties DEF AddSourceFile
    <3> QED BY <1>3, <2>2, <3>1 DEF AddSourceFile, settings
  <2> QED BY <1>3, <2>2 DEF AddSourceFile, settings
<1>4. CASE ParseSurfaceModule
  BY <1>4 DEF ParseSurfaceModule, settings
<1>5. CASE SurfaceToCoreModule
  BY <1>5 DEF SurfaceToCoreModule, settings
<1>6. CASE EmitCore
  BY <1>6 DEF EmitCore, Write, settings
<1>7. CASE WriteDoc
  BY <1>7 DEF WriteDoc, Write, settings
<1>8. CASE ReadBinaryFile
  BY <1>8 DEF ReadBinaryFile, settings
<1>9. CASE ReadItem
  BY <1>9 DEF ReadItem, settings
<1>10. CASE EmitMain
  BY <1>10 DEF EmitMain, Write, settings
<1>11. CASE EmitLink
  BY <1>11 DEF EmitLink, Write, settings
<1>12. CASE ReturnErr \/ ReturnOk \/ CheckDiagnostics
  BY <1>12 DEF ReturnErr, ReturnOk, CheckDiagnostics, settings
<1>13. CASE Render \/ CannotRender \/ Rendered
  BY <1>13 DEF Render, CannotRender, Rendered, settings
<1>14. CASE UNCHANGED vars
  BY <1>14 DEF vars
<1> QED
  BY <1>1, <1>2, <1>3, <1>4, <1>5, <1>6, <1>7, <1>8, <1>9, <1>10, <1>11, <1>12, <1>13,
     <1>14 DEF Next

\* Messages about a file that is there, or about none, keep the labels right.
LEMMA PushLabels ==
  ASSUME TypeOK, LabelInv, call \in Calls, NEW found \in Seq(FoundMessage), Push(found),
         UNCHANGED files, NEW id,
         \A i \in 1..Len(found) : \A j \in DOMAIN found[i].locations :
           /\ found[i].locations[j].file = id
           /\ id \in DOMAIN files /\ files[id] = call.path
  PROVE  LabelInv'
<1>1. /\ Len(origin') = Len(log') /\ Len(log') = Len(log) + Len(found)
      /\ Len(origin) = Len(log) /\ Len(log) \in Nat /\ Len(found) \in Nat
      /\ \A i \in 1..Len(log') : origin'[i] = IF i <= Len(log) THEN origin[i] ELSE call.path
  BY PushType DEF LabelInv, TypeOK
<1>2. /\ log' \in Seq(FoundMessage) /\ DOMAIN log' = 1..Len(log')
      /\ \A i \in 1..Len(log') : log'[i] = IF i <= Len(log) THEN log[i] ELSE found[i - Len(log)]
  BY PushType, ConcatProperties DEF Push, TypeOK
<1>3. ASSUME NEW i \in DOMAIN log', NEW j \in DOMAIN log'[i].locations
      PROVE  /\ log'[i].locations[j].file \in DOMAIN files
             /\ files[log'[i].locations[j].file] = origin'[i]
  <2>1. CASE i <= Len(log)
    <3>1. i \in DOMAIN log /\ log'[i] = log[i] /\ origin'[i] = origin[i]
      BY <1>1, <1>2, <2>1 DEF TypeOK
    <3> QED BY <3>1 DEF LabelInv, LabelsNameTheirFile
  <2>2. CASE i > Len(log)
    <3>1. /\ i - Len(log) \in 1..Len(found) /\ log'[i] = found[i - Len(log)]
          /\ origin'[i] = call.path
      BY <1>1, <1>2, <2>2
    <3> QED BY <3>1
  <2> QED BY <1>1, <1>2, <2>1, <2>2
<1> QED BY <1>1, <1>3 DEF LabelInv, LabelsNameTheirFile

\* A file keeps its number and its lines, and a new message is about files that are known.
LEMMA LabelPreserved ==
  ASSUME TypeOK, CallInv, LabelInv, [Next]_vars
  PROVE  LabelInv'
<1>1. CASE UNCHANGED <<files, log, origin>>
  BY <1>1 DEF LabelInv, LabelsNameTheirFile
<1>2. CASE AddSourceFile
  <2>1. call \in Calls /\ <<CannotRead>> \in Seq(FoundMessage) /\ Len(<<CannotRead>>) = 1
        /\ <<CannotRead>>[1] = CannotRead
    BY <1>2, CannotReadType DEF AddSourceFile, CallInv, InCall, Steps
  <2>2. CASE disk[call.path] = Unreadable
    <3>1. Push(<<CannotRead>>) /\ UNCHANGED files
      BY <1>2, <2>2 DEF AddSourceFile
    <3>2. \A i \in 1..Len(<<CannotRead>>) : DOMAIN <<CannotRead>>[i].locations = {}
      BY <2>1, CannotReadType
    <3> QED BY <2>1, <3>1, <3>2, PushLabels
  <2>3. CASE disk[call.path] # Unreadable
    <3>1. files' = Append(files, call.path) /\ UNCHANGED <<log, origin>>
          /\ files \in Seq(Paths) /\ call.path \in Paths
      BY <1>2, <2>1, <2>3 DEF AddSourceFile, history, TypeOK, Calls
    <3>2. \A id \in DOMAIN files : id \in DOMAIN files' /\ files'[id] = files[id]
      BY <3>1, AppendProperties
    <3> QED BY <3>1, <3>2 DEF LabelInv, LabelsNameTheirFile
  <2> QED BY <2>2, <2>3
<1>3. CASE ParseSurfaceModule
  <2> DEFINE found == At(disk[call.path].parse, FileId)
  <2>1. disk[call.path] \in Source /\ call \in Calls /\ FileId \in Nat
    BY <1>3, SourceOfCall DEF ParseSurfaceModule
  <2>2. found \in Seq(FoundMessage) /\ \A i \in 1..Len(found) : \A j \in DOMAIN found[i].locations :
          found[i].locations[j].file = FileId
    <3>1. disk[call.path].parse \in Seq(Finding)
      BY <2>1 DEF Source
    <3> QED BY <2>1, <3>1, AtType, AtLabels
  <2>3. FileId \in DOMAIN files /\ files[FileId] = call.path /\ Push(found) /\ UNCHANGED files
    BY <1>3 DEF ParseSurfaceModule, CallInv, TypeOK, FileId
  <2> HIDE DEF found
  <2> QED BY <2>1, <2>2, <2>3, PushLabels
<1>4. CASE SurfaceToCoreModule
  <2> DEFINE elab == At(module.elab, FileId)
             core == IF validate_core THEN At(module.core, FileId) ELSE <<>>
             found == elab \o core
  <2>1. call \in Calls /\ FileId \in Nat /\ module \in Source
    BY <1>4, SourceOfCall DEF SurfaceToCoreModule, TypeOK
  <2>2. elab \in Seq(FoundMessage) /\ \A i \in 1..Len(elab) : \A j \in DOMAIN elab[i].locations :
          elab[i].locations[j].file = FileId
    <3>1. module.elab \in Seq(Finding)
      BY <2>1 DEF Source
    <3> QED BY <2>1, <3>1, AtType, AtLabels
  <2>3. core \in Seq(FoundMessage) /\ \A i \in 1..Len(core) : \A j \in DOMAIN core[i].locations :
          core[i].locations[j].file = FileId
    <3>1. module.core \in Seq(Finding)
      BY <2>1 DEF Source
    <3>2. CASE validate_core
      BY <2>1, <3>1, <3>2, AtType, AtLabels
    <3>3. CASE ~validate_core
      BY <3>3
    <3> QED BY <3>2, <3>3
  <2>4. FileId \in DOMAIN files /\ files[FileId] = call.path /\ Push(found) /\ UNCHANGED files
    BY <1>4 DEF SurfaceToCoreModule, CallInv, TypeOK, FileId
  <2> HIDE DEF elab, core
  <2>5. found \in Seq(FoundMessage) /\ \A i \in 1..Len(found) : \A j \in DOMAIN found[i].locations :
          found[i].locations[j].file = FileId
    BY <2>2, <2>3
  <2> HIDE DEF found
  <2> QED BY <2>1, <2>4, <2>5, PushLabels
<1>5. CASE ReadBinaryFile /\ ~UNCHANGED history
  <2>1. call \in Calls /\ <<CannotRead>> \in Seq(FoundMessage) /\ Len(<<CannotRead>>) = 1
        /\ <<CannotRead>>[1] = CannotRead
    BY <1>5, CannotReadType DEF ReadBinaryFile, CallInv, InCall, Steps
  <2>2. Push(<<CannotRead>>) /\ UNCHANGED files
    BY <1>5 DEF ReadBinaryFile
  <2>3. \A i \in 1..Len(<<CannotRead>>) : DOMAIN <<CannotRead>>[i].locations = {}
    BY <2>1, CannotReadType
  <2> QED BY <2>1, <2>2, <2>3, PushLabels
<1> QED
  BY <1>1, <1>2, <1>3, <1>4, <1>5 DEF Next, Call, Compile, EmitCore, WriteDoc, ReadBinaryFile,
     ReadItem, EmitMain, EmitLink, ReturnErr, ReturnOk, CheckDiagnostics, Render, CannotRender,
     Rendered, history, vars

-----------------------------------------------------------------------------
(* Rendering. *)

\* Diagnostics are made one by one.
LEMMA DiagnosticsOf ==
  ASSUME NEW s \in Seq(FoundMessage)
  PROVE  /\ Diagnostics(s) \in Seq({ToDiagnostic(m) : m \in FoundMessage})
         /\ Len(Diagnostics(s)) = Len(s)
         /\ \A i \in 1..Len(s) : Diagnostics(s)[i] = ToDiagnostic(s[i])
<1> DEFINE D == {ToDiagnostic(m) : m \in FoundMessage}
<1>1. Len(s) \in Nat /\ DOMAIN s = 1..Len(s) /\ \A i \in 1..Len(s) : s[i] \in FoundMessage
  OBVIOUS
<1>2. \A i \in 1..Len(s) : ToDiagnostic(s[i]) \in D
  BY <1>1
<1>3. Diagnostics(s) = [i \in 1..Len(s) |-> ToDiagnostic(s[i])]
  BY <1>1 DEF Diagnostics
<1> HIDE DEF D
<1>4. Diagnostics(s) \in [1..Len(s) -> D]
  BY <1>2, <1>3
<1>5. Diagnostics(s) \in Seq(D) /\ Len(Diagnostics(s)) = Len(s)
  BY <1>1, <1>4, SegmentIsSeq
<1> QED BY <1>3, <1>5 DEF D

\* Turning messages into diagnostics goes message by message.
LEMMA DiagnosticsAppend ==
  ASSUME NEW s \in Seq(FoundMessage), NEW m \in FoundMessage
  PROVE  Diagnostics(Append(s, m)) = Append(Diagnostics(s), ToDiagnostic(m))
<1> DEFINE D == {ToDiagnostic(x) : x \in FoundMessage}
           t == Append(s, m)
           a == Diagnostics(t)
           b == Append(Diagnostics(s), ToDiagnostic(m))
<1>1. /\ t \in Seq(FoundMessage) /\ Len(t) = Len(s) + 1 /\ Len(s) \in Nat
      /\ \A i \in 1..Len(s) : t[i] = s[i]
      /\ t[Len(s) + 1] = m
  BY AppendProperties
<1> HIDE DEF t
<1>2. a \in Seq(D) /\ Len(a) = Len(s) + 1 /\ \A i \in 1..(Len(s) + 1) : a[i] = ToDiagnostic(t[i])
  BY <1>1, DiagnosticsOf
<1>3. /\ Diagnostics(s) \in Seq(D) /\ Len(Diagnostics(s)) = Len(s)
      /\ \A i \in 1..Len(s) : Diagnostics(s)[i] = ToDiagnostic(s[i])
  BY DiagnosticsOf
<1>4. ToDiagnostic(m) \in D
  OBVIOUS
<1> HIDE DEF D
<1>5. /\ b \in Seq(D) /\ Len(b) = Len(s) + 1 /\ b[Len(s) + 1] = ToDiagnostic(m)
      /\ \A i \in 1..Len(s) : b[i] = Diagnostics(s)[i]
  BY <1>3, <1>4, AppendProperties
<1> HIDE DEF a, b
<1>6. \A i \in 1..(Len(s) + 1) : a[i] = b[i]
  <2> SUFFICES ASSUME NEW i \in 1..(Len(s) + 1) PROVE a[i] = b[i]
    OBVIOUS
  <2>1. CASE i = Len(s) + 1
    BY <1>1, <1>2, <1>5, <2>1
  <2>2. CASE i # Len(s) + 1
    <3>1. i \in 1..Len(s)
      BY <1>1, <2>2
    <3> QED BY <1>1, <1>2, <1>3, <1>5, <3>1
  <2> QED BY <2>1, <2>2
<1>7. a = b
  BY <1>2, <1>5, <1>6, SeqEqual
<1> QED BY <1>7 DEF a, b, t

\* Pushing outside of check_diagnostics leaves what was rendered complete.
LEMMA PushRenders ==
  ASSUME TypeOK, RenderInv, NEW found \in Seq(FoundMessage), Push(found),
         UNCHANGED <<rendered, broken>>, pc # "check_diagnostics", pc' # "check_diagnostics"
  PROVE  RenderInv'
<1>1. log = cleared \o messages
  BY DEF RenderInv, RenderedOnceInOrder
<1>2. log' = (cleared \o messages) \o found /\ messages' = messages \o found /\ cleared' = cleared
  BY <1>1 DEF Push
<1>3. log' = cleared' \o messages'
  <2>1. cleared \in Seq(FoundMessage) /\ messages \in Seq(FoundMessage)
    BY DEF TypeOK
  <2>2. (cleared \o messages) \o found = cleared \o (messages \o found)
    BY <2>1, ConcatAssociative
  <2> QED BY <1>2, <2>2
<1> QED BY <1>2, <1>3 DEF RenderInv, RenderedOnceInOrder

\* The first messages and the next one.
LEMMA NextRendered ==
  ASSUME NEW c \in Seq(FoundMessage), NEW s \in Seq(FoundMessage), NEW n \in Nat, n < Len(s)
  PROVE  /\ c \o SubSeq(s, 1, n + 1) = Append(c \o SubSeq(s, 1, n), s[n + 1])
         /\ c \o SubSeq(s, 1, n) \in Seq(FoundMessage) /\ s[n + 1] \in FoundMessage
<1>1. SubSeq(s, 1, n) \in Seq(FoundMessage) /\ s[n + 1] \in FoundMessage
  OBVIOUS
<1>2. SubSeq(s, 1, n + 1) = Append(SubSeq(s, 1, n), s[n + 1])
  OBVIOUS
<1>3. c \o Append(SubSeq(s, 1, n), s[n + 1]) = Append(c \o SubSeq(s, 1, n), s[n + 1])
  BY <1>1
<1> QED BY <1>1, <1>2, <1>3

\* Rendering takes messages from the front of the list, one at a time.
LEMMA RenderPreserved ==
  ASSUME TypeOK, CallInv, RenderInv, [Next]_vars
  PROVE  RenderInv'
<1>1. CASE UNCHANGED <<messages, log, cleared, rendered, broken>> /\ pc # "check_diagnostics"
           /\ pc' # "check_diagnostics"
  BY <1>1 DEF RenderInv, RenderedOnceInOrder
<1>2. CASE AddSourceFile \/ ReadBinaryFile
  <2>1. <<CannotRead>> \in Seq(FoundMessage)
    BY CannotReadType
  <2>2. \/ Push(<<CannotRead>>) /\ pc' # "check_diagnostics"
        \/ UNCHANGED <<messages, log, cleared>> /\ pc' # "check_diagnostics"
    BY <1>2 DEF AddSourceFile, ReadBinaryFile, history, Goto
  <2>3. pc # "check_diagnostics" /\ UNCHANGED <<rendered, broken>>
    BY <1>2 DEF AddSourceFile, ReadBinaryFile, Output
  <2> QED BY <1>1, <2>1, <2>2, <2>3, PushRenders
<1>3. CASE ParseSurfaceModule
  <2>1. disk[call.path] \in Source /\ FileId \in Nat
    BY <1>3, SourceOfCall DEF ParseSurfaceModule
  <2>2. At(disk[call.path].parse, FileId) \in Seq(FoundMessage)
    BY <2>1, AtType DEF Source
  <2> QED BY <1>3, <2>2, PushRenders DEF ParseSurfaceModule, Output, Goto
<1>4. CASE SurfaceToCoreModule
  <2> DEFINE found == At(module.elab, FileId) \o (IF validate_core THEN At(module.core, FileId) ELSE <<>>)
  <2>1. FileId \in Nat /\ module \in Source
    BY <1>4, SourceOfCall DEF SurfaceToCoreModule, TypeOK
  <2>2. At(module.elab, FileId) \in Seq(FoundMessage) /\ At(module.core, FileId) \in Seq(FoundMessage)
    BY <2>1, AtType DEF Source
  <2>3. found \in Seq(FoundMessage)
    BY <2>2
  <2>4. Push(found) /\ UNCHANGED <<rendered, broken>> /\ pc # "check_diagnostics"
        /\ pc' # "check_diagnostics"
    BY <1>4 DEF SurfaceToCoreModule, Output, Goto
  <2> HIDE DEF found
  <2> QED BY <2>3, <2>4, PushRenders
<1>5. CASE ReturnOk \/ CheckDiagnostics
  <2>1. /\ pc # "check_diagnostics" /\ rendering' = 0
        /\ UNCHANGED <<messages, log, cleared, rendered, broken>>
    BY <1>5 DEF ReturnOk, CheckDiagnostics, history
  <2>2. SubSeq(messages, 1, 0) = <<>> /\ Len(messages) \in Nat /\ 1..0 = {}
    BY DEF TypeOK
  <2>3. SubSeq(messages', 1, rendering') = <<>> /\ rendering' <= Len(messages') /\ 1..rendering' = {}
    BY <2>1, <2>2
  <2> QED BY <2>1, <2>3 DEF RenderInv, RenderedOnceInOrder
<1>6. CASE Render
  <2> DEFINE before == cleared \o SubSeq(messages, 1, rendering)
             next == messages[rendering + 1]
  <2>1. /\ pc = "check_diagnostics" /\ rendering < Len(messages) /\ rendering' = rendering + 1
        /\ rendered' = Append(rendered, ToDiagnostic(next))
        /\ is_ok' = (is_ok /\ ~IsError(next))
        /\ UNCHANGED <<messages, log, cleared, broken, pc>>
    BY <1>6 DEF Render, history, IsError
  <2>2. /\ cleared \o SubSeq(messages, 1, rendering + 1) = Append(before, next)
        /\ before \in Seq(FoundMessage) /\ next \in FoundMessage
    BY <2>1, NextRendered DEF TypeOK
  <2>3. Diagnostics(Append(before, next)) = Append(Diagnostics(before), ToDiagnostic(next))
    BY <2>2, DiagnosticsAppend
  <2>4. ~broken => rendered' = Diagnostics(cleared \o SubSeq(messages, 1, rendering + 1))
    BY <2>1, <2>2, <2>3 DEF RenderInv, RenderedOnceInOrder
  <2>5. is_ok' => \A i \in 1..rendering' : ~IsError(messages'[i])
    <3> SUFFICES ASSUME is_ok', NEW i \in 1..(rendering + 1)
                 PROVE  ~IsError(messages[i])
      BY <2>1
    <3>1. is_ok /\ ~IsError(next)
      BY <2>1
    <3>2. CASE i = rendering + 1
      BY <3>1, <3>2
    <3>3. CASE i # rendering + 1
      <4>1. i \in 1..rendering
        BY <3>3 DEF TypeOK
      <4> QED BY <2>1, <3>1, <4>1 DEF RenderInv
    <3> QED BY <3>2, <3>3
  <2>6. rendering' <= Len(messages')
    BY <2>1 DEF TypeOK
  <2> QED BY <2>1, <2>4, <2>5, <2>6 DEF RenderInv, RenderedOnceInOrder
<1>7. CASE CannotRender
  <2>1. pc' = "err" /\ broken' = TRUE /\ UNCHANGED <<messages, log, cleared>>
    BY <1>7 DEF CannotRender, history, Goto
  <2> QED BY <2>1 DEF RenderInv, RenderedOnceInOrder
<1>8. CASE Rendered
  <2>1. /\ pc = "check_diagnostics" /\ rendering = Len(messages) /\ messages' = <<>>
        /\ cleared' = cleared \o messages /\ pc' = "idle" /\ UNCHANGED <<log, rendered, broken>>
    BY <1>8 DEF Rendered, Output, Goto
  <2>2. /\ SubSeq(messages, 1, Len(messages)) = messages
        /\ (cleared \o messages) \o <<>> = cleared \o messages
    BY DEF TypeOK
  <2> QED BY <2>1, <2>2 DEF RenderInv, RenderedOnceInOrder
<1>9. CASE UNCHANGED vars
  BY <1>9 DEF vars, RenderInv, RenderedOnceInOrder
<1>10. CASE \/ \E op \in {"read_data", "check", "write_doc"}, path \in Paths : Call(op, path)
            \/ Compile \/ EmitCore \/ WriteDoc \/ ReadItem \/ EmitMain \/ EmitLink \/ ReturnErr
  <2>1. /\ UNCHANGED <<messages, log, cleared, rendered, broken>> /\ pc # "check_diagnostics"
        /\ pc' # "check_diagnostics"
    BY <1>10 DEF Call, Compile, EmitCore, WriteDoc, ReadItem, EmitMain, EmitLink, ReturnErr,
       Write, Output, history, Goto
  <2> QED BY <1>1, <2>1
<1> QED BY <1>2, <1>3, <1>4, <1>5, <1>6, <1>7, <1>8, <1>9, <1>10 DEF Next

-----------------------------------------------------------------------------
(* Commands. *)

\* The exit code of the command line is settled by the call it made.
LEMMA CommandPreserved ==
  ASSUME TypeOK, CallInv, CommandInv, [Next]_vars
  PROVE  CommandInv'
<1> USE DEF CommandInv, Goto, Running, FAILURE, OK, DATAERR
<1>1. ASSUME NEW op \in {"read_data", "check", "write_doc"}, NEW path \in Paths, Call(op, path)
      PROVE  CommandInv'
  BY <1>1 DEF Call, settings, history, Output, TypeOK
<1>2. CASE Compile
  BY <1>2 DEF Compile, settings, history, Output
<1>3. CASE AddSourceFile
  <2>1. client = "cli" /\ disk[call.path] # Unreadable => Len(files') = 1
    <3> SUFFICES ASSUME client = "cli", disk[call.path] # Unreadable PROVE Len(files') = 1
      OBVIOUS
    <3>1. files = <<>> /\ files' = Append(files, call.path)
      BY <1>3 DEF AddSourceFile
    <3> QED BY <3>1
  <2> QED BY <1>3, <2>1 DEF AddSourceFile, settings, history, Output, Push
<1>4. CASE ParseSurfaceModule
  BY <1>4 DEF ParseSurfaceModule, settings, Output, Push
<1>5. CASE SurfaceToCoreModule
  BY <1>5 DEF SurfaceToCoreModule, settings, Output, Push
<1>6. CASE EmitCore
  BY <1>6 DEF EmitCore, Write, settings, history, Output
<1>7. CASE WriteDoc
  BY <1>7 DEF WriteDoc, Write, settings, history
<1>8. CASE ReadBinaryFile
  BY <1>8 DEF ReadBinaryFile, settings, history, Output, Push
<1>9. CASE ReadItem
  BY <1>9 DEF ReadItem, settings, history, Output
<1>10. CASE EmitMain
  BY <1>10 DEF EmitMain, Write, settings, history
<1>11. CASE EmitLink
  BY <1>11 DEF EmitLink, Write, settings, history, Output
<1>12. CASE ReturnErr
  BY <1>12 DEF ReturnErr, settings, history, Output, TypeOK
<1>13. CASE ReturnOk
  BY <1>13 DEF ReturnOk, settings, history, TypeOK
<1>14. CASE CheckDiagnostics
  BY <1>14 DEF CheckDiagnostics, settings, history, TypeOK
<1>15. CASE Render
  BY <1>15 DEF Render, settings, history
<1>16. CASE CannotRender
  BY <1>16 DEF CannotRender, settings, history
<1>17. CASE Rendered
  BY <1>17 DEF Rendered, settings, Output, TypeOK
<1>18. CASE UNCHANGED vars
  BY <1>18 DEF vars
<1> QED
  BY <1>1, <1>2, <1>3, <1>4, <1>5, <1>6, <1>7, <1>8, <1>9, <1>10, <1>11, <1>12, <1>13,
     <1>14, <1>15, <1>16, <1>17, <1>18 DEF Next

\* The messages of a step join the log and none leaves it.
LEMMA PushKeepsLog ==
  ASSUME TypeOK, NEW found \in Seq(FoundMessage), Push(found)
  PROVE  /\ \A j \in DOMAIN log : j \in DOMAIN log' /\ log'[j] = log[j]
         /\ \A j \in 1..Len(found) :
              Len(log) + j \in DOMAIN log' /\ log'[Len(log) + j] = found[j]
<1>1. log \in Seq(FoundMessage) /\ log' = log \o found
  BY DEF TypeOK, Push
<1> QED BY <1>1

\* With validation on, a call that gets past elaboration has validated its core module.
LEMMA ValidationPreserved ==
  ASSUME TypeOK, CallInv, CommandInv, ValidationInv, [Next]_vars
  PROVE  ValidationInv'
<1> USE DEF ValidationInv
<1>1. ASSUME UNCHANGED <<client, validate_core, call, module>>,
             pc \notin {"idle", "add_source_file", "parse", "surface_to_core"} \/ module.core = <<>>
               \/ client # "cli",
             \A j \in DOMAIN log : j \in DOMAIN log' /\ log'[j] = log[j]
      PROVE  ValidationInv'
  <2>1. module.core = <<>> => DOMAIN module.core = {}
    OBVIOUS
  <2> QED BY <1>1, <2>1
<1>2. ASSUME NEW op \in {"read_data", "check", "write_doc"}, NEW path \in Paths, Call(op, path)
      PROVE  ValidationInv'
  BY <1>2 DEF Call, Goto
<1>3. CASE Compile \/ ReturnErr \/ Rendered
  BY <1>3 DEF Compile, ReturnErr, Rendered, Goto
<1>4. CASE AddSourceFile
  <2>1. client = "cli" => module.core = <<>>
    BY <1>4, EmptyType DEF AddSourceFile, CommandInv
  <2>2. \A j \in DOMAIN log : j \in DOMAIN log' /\ log'[j] = log[j]
    <3>1. <<CannotRead>> \in Seq(FoundMessage)
      BY CannotReadType
    <3>2. Push(<<CannotRead>>) \/ UNCHANGED log
      BY <1>4 DEF AddSourceFile, history
    <3> QED BY <3>1, <3>2, PushKeepsLog
  <2> QED BY <1>1, <1>4, <2>1, <2>2 DEF AddSourceFile, settings
<1>5. CASE ParseSurfaceModule
  BY <1>5 DEF ParseSurfaceModule, Goto, settings
<1>6. CASE SurfaceToCoreModule
  <2> DEFINE elab == At(module.elab, FileId)
             core == IF validate_core THEN At(module.core, FileId) ELSE <<>>
             found == elab \o core
  <2> SUFFICES ASSUME client = "cli", validate_core, NEW i \in DOMAIN module.core
               PROVE  \E j \in DOMAIN log' : log'[j] = At(module.core, 1)[i]
    BY <1>6 DEF SurfaceToCoreModule, settings
  <2>1. FileId = 1 /\ module \in Source
    BY <1>6 DEF SurfaceToCoreModule, TypeOK, CommandInv, FileId
  <2>2. /\ elab \in Seq(FoundMessage) /\ core \in Seq(FoundMessage)
        /\ core = At(module.core, 1) /\ i \in 1..Len(core)
    <3>1. module.elab \in Seq(Finding) /\ module.core \in Seq(Finding)
      BY <2>1 DEF Source
    <3>2. i \in 1..Len(module.core)
      BY <3>1
    <3>3. core = At(module.core, 1)
      BY <2>1
    <3>4. 1 \in Nat
      OBVIOUS
    <3> QED BY <2>1, <3>1, <3>2, <3>3, <3>4, AtType
  <2>3. Push(found)
    BY <1>6 DEF SurfaceToCoreModule
  <2> HIDE DEF elab, core
  <2>4. /\ found \in Seq(FoundMessage) /\ Len(elab) + i \in 1..Len(found)
        /\ found[Len(elab) + i] = core[i]
    BY <2>2
  <2> HIDE DEF found
  <2> QED BY <2>2, <2>3, <2>4, PushKeepsLog
<1>7. CASE ReadBinaryFile
  <2>1. <<CannotRead>> \in Seq(FoundMessage)
    BY CannotReadType
  <2>2. Push(<<CannotRead>>) \/ UNCHANGED log
    BY <1>7 DEF ReadBinaryFile, history
  <2>3. \A j \in DOMAIN log : j \in DOMAIN log' /\ log'[j] = log[j]
    BY <2>1, <2>2, PushKeepsLog
  <2> QED BY <1>1, <1>7, <2>3 DEF ReadBinaryFile, settings
<1>8. CASE EmitCore \/ WriteDoc \/ ReadItem \/ EmitMain \/ EmitLink
  BY <1>1, <1>8 DEF EmitCore, WriteDoc, ReadItem, EmitMain, EmitLink, settings, history
<1>9. CASE ReturnOk \/ CheckDiagnostics \/ Render \/ CannotRender
  BY <1>1, <1>9 DEF ReturnOk, CheckDiagnostics, Render, CannotRender, settings, history
<1>10. CASE UNCHANGED vars
  BY <1>10 DEF vars
<1> QED BY <1>2, <1>3, <1>4, <1>5, <1>6, <1>7, <1>8, <1>9, <1>10 DEF Next

\* Once a command has exited nothing changes any more, and it exits by ReturnErr,
\* Compile or Rendered.
LEMMA ExitPreserved ==
  ASSUME IInv, [Next]_vars
  PROVE  SuccessMeansNoErrors' /\ LostOnlyOnFailure'
<1> USE DEF IInv
<1>1. CASE UNCHANGED vars
  BY <1>1 DEF vars, SuccessMeansNoErrors, LostOnlyOnFailure, ValidationDecides
<1>2. CASE Next /\ exit' = Running
  BY <1>2 DEF SuccessMeansNoErrors, LostOnlyOnFailure, Running, OK
<1>3. CASE Next /\ exit' # Running
  <2>1. exit = Running
    <3> SUFFICES ASSUME exit # Running PROVE FALSE
      OBVIOUS
    <3>1. pc = "idle" /\ client = "cli"
      BY DEF CommandInv
    <3> QED BY <1>3, <3>1 DEF Next, Call, Compile, AddSourceFile, ParseSurfaceModule,
         SurfaceToCoreModule, EmitCore, WriteDoc, ReadBinaryFile, ReadItem, EmitMain, EmitLink,
         ReturnErr, ReturnOk, CheckDiagnostics, Render, CannotRender, Rendered
  <2>2. Compile \/ ReturnErr \/ Rendered
    BY <1>3, <2>1 DEF Next, Call, AddSourceFile, ParseSurfaceModule,
       SurfaceToCoreModule, EmitCore, WriteDoc, ReadBinaryFile, ReadItem, EmitMain, EmitLink,
       ReturnOk, CheckDiagnostics, Render, CannotRender
  <2>3. CASE Compile \/ ReturnErr
    BY <1>3, <2>3 DEF Compile, ReturnErr, SuccessMeansNoErrors, LostOnlyOnFailure, OK, FAILURE,
       Running
  <2>4. CASE Rendered
    <3>1. /\ pc = "check_diagnostics" /\ rendering = Len(messages) /\ messages' = <<>>
          /\ exit' = (IF client = "library" THEN Running ELSE IF is_ok THEN OK ELSE DATAERR)
          /\ UNCHANGED <<validate_core, call, module, log, rendered>>
      BY <2>4 DEF Rendered, settings, Output
    <3>2. client = "cli"
      BY <1>3, <3>1 DEF TypeOK
    <3>3. LostOnlyOnFailure'
      BY <3>1 DEF LostOnlyOnFailure
    <3>4. ASSUME exit' = OK
          PROVE  SuccessMeansNoErrors'
      <4>1. is_ok
        BY <3>1, <3>2, <3>4 DEF OK, DATAERR
      <4>2. cleared = <<>> /\ ~broken
        BY <2>1, <3>1, <3>2 DEF CommandInv, Running, FAILURE
      <4>3. messages \in Seq(FoundMessage) /\ log = messages
        BY <4>2 DEF TypeOK, RenderInv, RenderedOnceInOrder
      <4>4. \A i \in DOMAIN log : ~IsError(log[i])
        BY <3>1, <4>1, <4>3 DEF RenderInv
      <4>5. rendered = Diagnostics(log)
        <5>1. rendered = Diagnostics(cleared \o SubSeq(messages, 1, rendering))
          BY <3>1, <4>2 DEF RenderInv, RenderedOnceInOrder
        <5>2. cleared \o SubSeq(messages, 1, rendering) = messages
          BY <3>1, <4>2, <4>3
        <5> QED BY <4>3, <5>1, <5>2
      <4>6. ValidationDecides
        BY <3>1, <3>2, <4>4 DEF ValidationInv, ValidationDecides
      <4> QED BY <3>1, <4>4, <4>5, <4>6 DEF SuccessMeansNoErrors, ValidationDecides
    <3> QED BY <3>3, <3>4 DEF SuccessMeansNoErrors
  <2> QED BY <2>2, <2>3, <2>4
<1> QED BY <1>1, <1>2, <1>3

-----------------------------------------------------------------------------
\* The invariant holds of a new driver.
LEMMA InitInv == Init => IInv
<1> SUFFICES ASSUME Init PROVE IInv
  OBVIOUS
<1>1. TypeOK
  <2>1. <<>> \in Seq(Paths) /\ <<>> \in Seq(FoundMessage)
    OBVIOUS
  <2>2. /\ files \in Seq(Paths) /\ messages \in Seq(FoundMessage) /\ log \in Seq(FoundMessage)
        /\ cleared \in Seq(FoundMessage) /\ origin \in Seq(Paths) /\ module \in Source
    BY <2>1, EmptyType DEF Init
  <2> QED BY <2>2 DEF Init, TypeOK, Steps, Running
<1>2. CallInv /\ CommandInv /\ ValidationInv
  BY DEF Init, CallInv, InCall, CommandInv, ValidationInv, Running, FAILURE
<1>3. LabelInv
  BY DEF Init, LabelInv, LabelsNameTheirFile
<1>4. RenderInv
  <2>1. <<>> \o <<>> = <<>> /\ Diagnostics(<<>>) = <<>>
    BY DEF Diagnostics
  <2> QED BY <2>1 DEF Init, RenderInv, RenderedOnceInOrder
<1>5. SuccessMeansNoErrors /\ LostOnlyOnFailure
  BY DEF Init, SuccessMeansNoErrors, LostOnlyOnFailure, Running, OK
<1> QED BY <1>1, <1>2, <1>3, <1>4, <1>5 DEF IInv

\* Every step of the driver or its client keeps the invariant.
LEMMA InvPreserved == IInv /\ [Next]_vars => IInv'
<1> SUFFICES ASSUME IInv, [Next]_vars PROVE IInv'
  OBVIOUS
<1> QED BY TypePreserved, CallPreserved, LabelPreserved, RenderPreserved, CommandPreserved,
           ValidationPreserved, ExitPreserved DEF IInv

\* The fields of driver.rs keep their types, whatever the calls.
THEOREM DriverTypeCorrect == Spec => []TypeOK
<1>1. IInv => TypeOK
  BY DEF IInv
<1> QED BY <1>1, InitInv, InvPreserved, PTL DEF Spec

\* Exit code 0 means that no pass has met an error, and that every message is written.
THEOREM SuccessIsHonest == Spec => []SuccessMeansNoErrors
<1>1. IInv => SuccessMeansNoErrors
  BY DEF IInv
<1> QED BY <1>1, InitInv, InvPreserved, PTL DEF Spec

\* check_diagnostics writes every message once and in order, over any number of calls.
THEOREM MessagesRenderedOnce == Spec => []RenderedOnceInOrder
<1>1. IInv => RenderedOnceInOrder
  BY DEF IInv, RenderInv
<1> QED BY <1>1, InitInv, InvPreserved, PTL DEF Spec

\* A process that leaves messages unwritten exits with FAILURE.
THEOREM LossIsFailure == Spec => []LostOnlyOnFailure
<1>1. IInv => LostOnlyOnFailure
  BY DEF IInv
<1> QED BY <1>1, InitInv, InvPreserved, PTL DEF Spec

\* File ids name the file a message is about, over any number of calls and files.
THEOREM LabelsHold == Spec => []LabelsNameTheirFile
<1>1. IInv => LabelsNameTheirFile
  BY DEF IInv, LabelInv
<1> QED BY <1>1, InitInv, InvPreserved, PTL DEF Spec

=============================================================================
