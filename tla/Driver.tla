------------------------------- MODULE Driver -------------------------------
(***************************************************************************)
(* fathom/src/driver.rs and its clients: a command of fathom-cli makes one *)
(* call and exits; another client of the library may keep the driver and   *)
(* make several.  A source is what the passes make of it: the messages of  *)
(* the parser (the module is then empty), of the elaborator and of core    *)
(* validation, each on a line, and what reading its main item comes to.    *)
(***************************************************************************)
EXTENDS Reporting, FiniteSets

CONSTANTS
  Paths,        \* format files
  Sources,      \* what a file can hold
  Unreadable,   \* a file that is not there, or is not text
  MaxCalls      \* bound on the calls of a library client

\* What a pass finds in a source: messages, each with the lines it points at.
Finding == [pass : Passes, kind : Kinds, lines : Seq(Nat)]
Source ==
  [parse : Seq(Finding), elab : Seq(Finding), core : Seq(Finding),
   read : {"reads", "fails"}, links : Nat]

ASSUME SourcesAssumption == Sources \subseteq Source

VARIABLES
  disk,         \* format file -> source
  client,       \* "cli" or "library"
  validate_core, emit_core,
  files,        \* the paths added to SimpleFiles; a file id is an index into it
  messages,     \* Driver::messages
  pc,           \* "idle" or the step the current call is at
  call,         \* the current call: operation and path
  module,       \* its surface module: a source, or Empty after a parse error
  links,        \* links still to be printed
  rendering,    \* messages behind check_diagnostics
  is_ok,        \* what it will return
  emitted,      \* number of writes to the emit writer
  rendered,     \* what went to the diagnostic writer
  calls,        \* number of calls made
  exit,         \* exit code of the process, or Running
  log, cleared, \* history: all messages pushed, and those removed by a completed check_diagnostics
  origin,       \* history: for every message of log the path it is about
  broken        \* history: a diagnostic could not be written

vars == <<disk, client, validate_core, emit_core, files, messages, pc, call, module, links,
          rendering, is_ok, emitted, rendered, calls, exit, log, cleared, origin, broken>>

settings == <<disk, client, validate_core, emit_core>>
history == <<log, cleared, origin>>

Running == -1
OK == 0
FAILURE == 1
DATAERR == 65

Empty == [parse |-> <<>>, elab |-> <<>>, core |-> <<>>, read |-> "fails", links |-> 0]
NoCall == [op |-> "none"]

Init ==
  /\ disk \in [Paths -> Sources \cup {Unreadable}]
  /\ client \in {"cli", "library"}
  /\ validate_core \in BOOLEAN /\ emit_core \in BOOLEAN
  /\ files = <<>> /\ messages = <<>>
  /\ pc = "idle" /\ call = NoCall /\ module = Empty /\ links = 0
  /\ rendering = 0 /\ is_ok = TRUE
  /\ emitted = 0 /\ rendered = <<>> /\ calls = 0 /\ exit = Running
  /\ log = <<>> /\ cleared = <<>> /\ origin = <<>> /\ broken = FALSE

-----------------------------------------------------------------------------
\* Messages about the file with this id, or about no file.
At(found, id) ==
  [i \in DOMAIN found |->
     Message(found[i].pass, found[i].kind,
             [j \in DOMAIN found[i].lines |-> FileRange(id, found[i].lines[j])])]

Push(found) ==
  /\ messages' = messages \o found
  /\ log' = log \o found
  /\ origin' = origin \o [i \in DOMAIN found |-> call.path]
  /\ UNCHANGED cleared

CannotRead == Message("Global", "ReadFile", <<>>)

Goto(step) == pc' = step
Output == <<emitted, rendered, rendering, is_ok, broken>>

-----------------------------------------------------------------------------
(* The calls. *)

Call(op, path) ==
  /\ pc = "idle" /\ exit = Running
  /\ calls < (IF client = "cli" THEN 1 ELSE MaxCalls)
  /\ calls' = calls + 1 /\ call' = [op |-> op, path |-> path] /\ Goto("add_source_file")
  /\ UNCHANGED <<settings, files, messages, module, links, exit, history, Output>>

\* `fathom compile` is not implemented: it never gets to a driver.
Compile ==
  /\ client = "cli" /\ calls = 0 /\ pc = "idle" /\ exit = Running
  /\ exit' = FAILURE
  /\ UNCHANGED <<settings, files, messages, pc, call, module, links, calls, history, Output>>

AddSourceFile ==
  /\ pc = "add_source_file"
  /\ IF disk[call.path] = Unreadable
     THEN Push(<<CannotRead>>) /\ Goto("ok") /\ UNCHANGED files
     ELSE files' = Append(files, call.path) /\ Goto("parse") /\ UNCHANGED <<messages, history>>
  /\ UNCHANGED <<settings, call, module, links, calls, exit, Output>>

\* Mutant of FileId: every file is taken for the first.
FirstFileId == 1

\* The id of the file just added.
FileId == Len(files)

\* surface::Module::parse: a module that does not parse is an empty one.
ParseSurfaceModule ==
  /\ pc = "parse"
  /\ Push(At(disk[call.path].parse, FileId))
  /\ module' = IF disk[call.path].parse = <<>> THEN disk[call.path] ELSE Empty
  /\ Goto(IF call.op = "write_doc" THEN "write_doc" ELSE "surface_to_core")
  /\ UNCHANGED <<settings, files, call, links, calls, exit, Output>>

SurfaceToCoreModule ==
  /\ pc = "surface_to_core"
  /\ Push(At(module.elab, FileId) \o (IF validate_core THEN At(module.core, FileId) ELSE <<>>))
  /\ Goto(IF call.op = "check" THEN "emit_core" ELSE "read_binary")
  /\ UNCHANGED <<settings, files, call, module, links, calls, exit, Output>>

\* A write to the emit writer, which may fail.
Write(next) ==
  /\ \/ emitted' = emitted + 1 /\ Goto(next)
     \/ Goto("err") /\ UNCHANGED emitted
  /\ UNCHANGED <<rendered, rendering, is_ok, broken>>

EmitCore ==
  /\ pc = "emit_core"
  /\ IF emit_core THEN Write("ok") ELSE Goto("ok") /\ UNCHANGED Output
  /\ UNCHANGED <<settings, files, messages, call, module, links, calls, exit, history>>

WriteDoc ==
  /\ pc = "write_doc" /\ Write("ok")
  /\ UNCHANGED <<settings, files, messages, call, module, links, calls, exit, history>>

ReadBinaryFile ==
  /\ pc = "read_binary"
  /\ \/ Goto("read_item") /\ UNCHANGED <<messages, history>>
     \/ Push(<<CannotRead>>) /\ Goto("ok")
  /\ UNCHANGED <<settings, files, call, module, links, calls, exit, Output>>

\* A read error, or an item that is not there, is returned at once.
ReadItem ==
  /\ pc = "read_item"
  /\ IF module.read = "fails" THEN Goto("err") /\ UNCHANGED links
     ELSE Goto("emit_main") /\ links' = module.links
  /\ UNCHANGED <<settings, files, messages, call, module, calls, exit, history, Output>>

EmitMain ==
  /\ pc = "emit_main" /\ Write("emit_links")
  /\ UNCHANGED <<settings, files, messages, call, module, links, calls, exit, history>>

EmitLink ==
  /\ pc = "emit_links"
  /\ IF links = 0 THEN Goto("ok") /\ UNCHANGED <<links, Output>>
     ELSE Write("emit_links") /\ links' = links - 1
  /\ UNCHANGED <<settings, files, messages, call, module, calls, exit, history>>

-----------------------------------------------------------------------------
(* What the client does next, and check_diagnostics. *)

\* Mutant of ReturnErr: the command exits as if its diagnostics had been written.
ReturnErrAsData ==
  /\ pc = "err" /\ Goto("idle")
  /\ exit' = IF client = "cli" THEN DATAERR ELSE Running
  /\ UNCHANGED <<settings, files, messages, call, module, links, calls, history, Output>>

\* An error ends a command: the messages go with the process.
ReturnErr ==
  /\ pc = "err" /\ Goto("idle")
  /\ exit' = IF client = "cli" THEN FAILURE ELSE Running
  /\ UNCHANGED <<settings, files, messages, call, module, links, calls, history, Output>>

\* A command goes on to its diagnostics; another client asks for them when it likes.
ReturnOk ==
  /\ pc = "ok" /\ Goto(IF client = "cli" THEN "check_diagnostics" ELSE "idle")
  /\ rendering' = 0 /\ is_ok' = TRUE
  /\ UNCHANGED <<settings, files, messages, call, module, links, calls, exit, history, emitted, rendered, broken>>

CheckDiagnostics ==
  /\ client = "library" /\ pc = "idle" /\ calls > 0 /\ Goto("check_diagnostics")
  /\ rendering' = 0 /\ is_ok' = TRUE
  /\ UNCHANGED <<settings, files, messages, call, module, links, calls, exit, history, emitted, rendered, broken>>

\* Mutant of Render: the last diagnostic alone decides.
RenderLast ==
  /\ pc = "check_diagnostics" /\ rendering < Len(messages)
  /\ LET diagnostic == ToDiagnostic(messages[rendering + 1])
     IN  /\ is_ok' = Below(diagnostic.severity, "Error")
         /\ rendered' = Append(rendered, diagnostic)
         /\ rendering' = rendering + 1
  /\ UNCHANGED <<settings, files, messages, pc, call, module, links, calls, exit, history, emitted, broken>>

Render ==
  /\ pc = "check_diagnostics" /\ rendering < Len(messages)
  /\ LET diagnostic == ToDiagnostic(messages[rendering + 1])
     IN  /\ is_ok' = (is_ok /\ Below(diagnostic.severity, "Error"))
         /\ rendered' = Append(rendered, diagnostic)
         /\ rendering' = rendering + 1
  /\ UNCHANGED <<settings, files, messages, pc, call, module, links, calls, exit, history, emitted, broken>>

\* term::emit fails: the messages stay, those already written too, and the next
\* check_diagnostics writes them again.  It fails at most once here.
CannotRender ==
  /\ pc = "check_diagnostics" /\ rendering < Len(messages) /\ ~broken
  /\ broken' = TRUE /\ Goto("err")
  /\ UNCHANGED <<settings, files, messages, call, module, links, calls, exit, history,
                 emitted, rendered, rendering, is_ok>>

\* Mutant of Rendered: the messages are kept.
RenderedKept ==
  /\ pc = "check_diagnostics" /\ rendering = Len(messages)
  /\ cleared' = cleared \o messages /\ Goto("idle")
  /\ exit' = IF client = "library" THEN Running ELSE IF is_ok THEN OK ELSE DATAERR
  /\ UNCHANGED <<settings, files, messages, call, module, links, calls, log, origin, Output>>

Rendered ==
  /\ pc = "check_diagnostics" /\ rendering = Len(messages)
  /\ messages' = <<>> /\ cleared' = cleared \o messages /\ Goto("idle")
  /\ exit' = IF client = "library" THEN Running ELSE IF is_ok THEN OK ELSE DATAERR
  /\ UNCHANGED <<settings, files, call, module, links, calls, log, origin, Output>>

Next ==
  \/ \E op \in {"read_data", "check", "write_doc"}, path \in Paths : Call(op, path)
  \/ Compile \/ AddSourceFile \/ ParseSurfaceModule \/ SurfaceToCoreModule
  \/ EmitCore \/ WriteDoc \/ ReadBinaryFile \/ ReadItem \/ EmitMain \/ EmitLink
  \/ ReturnErr \/ ReturnOk \/ CheckDiagnostics \/ Render \/ CannotRender \/ Rendered

Spec == Init /\ [][Next]_vars

-----------------------------------------------------------------------------
Steps ==
  {"idle", "add_source_file", "parse", "surface_to_core", "emit_core", "write_doc",
   "read_binary", "read_item", "emit_main", "emit_links", "ok", "err", "check_diagnostics"}
Calls == [op : {"read_data", "check", "write_doc"}, path : Paths]
FoundMessage ==
  [pass : Passes, kind : Kinds, locations : Seq([file : Nat, line : Nat])]

TypeOK ==
  /\ disk \in [Paths -> Sources \cup {Unreadable}]
  /\ client \in {"cli", "library"} /\ validate_core \in BOOLEAN /\ emit_core \in BOOLEAN
  /\ files \in Seq(Paths) /\ messages \in Seq(FoundMessage)
  /\ pc \in Steps /\ call \in Calls \cup {NoCall} /\ module \in Source
  /\ links \in Nat /\ rendering \in Nat /\ is_ok \in BOOLEAN
  /\ emitted \in Nat /\ calls \in Nat /\ exit \in {Running, OK, FAILURE, DATAERR}
  /\ log \in Seq(FoundMessage) /\ cleared \in Seq(FoundMessage)
  /\ origin \in Seq(Paths) /\ broken \in BOOLEAN

IsError(m) == ~Below(ToDiagnostic(m).severity, "Error")
Diagnostics(ms) == [i \in DOMAIN ms |-> ToDiagnostic(ms[i])]

\* With --validate-core a module that does not validate fails the command.
ValidationDecides ==
  validate_core /\ call.op # "write_doc" => \A i \in DOMAIN module.core :
    ~IsError(At(module.core, 1)[i])

\* A process that exits with 0 has met no error in any pass, core validation
\* included when it was asked for, and everything it had to say, warnings included,
\* is on the diagnostic writer.
SuccessMeansNoErrors ==
  exit = OK => /\ \A i \in DOMAIN log : ~IsError(log[i])
               /\ rendered = Diagnostics(log)
               /\ ValidationDecides

\* Every message is written once and in the order it was pushed, over all the
\* calls of a driver, as long as writing diagnostics works.
RenderedOnceInOrder ==
  /\ log = cleared \o messages
  /\ ~broken => rendered = Diagnostics(cleared \o
       (IF pc = "check_diagnostics" THEN SubSeq(messages, 1, rendering) ELSE <<>>))

\* The passes' errors are lost only with a call that failed itself: a command that
\* leaves messages unwritten says so with another exit code than theirs.  It does
\* happen: a read error ends `fathom data` before its parse errors are shown.
LostOnlyOnFailure ==
  exit # Running /\ messages # <<>> => exit = FAILURE

\* A label points into the file its message is about, over calls on several files
\* and files that could not be read in between.
LabelsNameTheirFile ==
  \A i \in DOMAIN log : \A j \in DOMAIN log[i].locations :
    LET id == log[i].locations[j].file IN id \in DOMAIN files /\ files[id] = origin[i]

=============================================================================
