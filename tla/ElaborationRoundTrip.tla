------------------------ MODULE ElaborationRoundTrip ------------------------
(***************************************************************************)
(* The stages of the test harness around the elaborator, in                *)
(* fathom-test/src/lib.rs: a surface module is elaborated, the core module *)
(* is validated by the typing rules of the core language, distilled back   *)
(* into surface syntax and elaborated again.                               *)
(*                                                                         *)
(* Every stage starts with a context of its own, empty; they are never     *)
(* used at the same time, so the stages share the variables of Elaboration *)
(* and CoreValidation.  What the stages do with terms are parameters.      *)
(***************************************************************************)
EXTENDS CoreToSurface

CONSTANTS
  EvalTerm(_, _, _), ReprOfValue(_),
  SynthTerm(_, _), CheckTerm(_, _, _), ElaborateType(_, _), ElaborateAnnotated(_, _, _),
  SynthCore(_, _), SynthCoreSort(_, _), CheckCore(_, _, _),
  SurfaceModules

\* The parser gives structs a list of parameters and a list of fields.
IsSequence(s) == s \in Seq(Range(s))
IsSurfaceModule(module) ==
  /\ IsSequence(module)
  /\ \A i \in DOMAIN module : module[i].kind = "struct" =>
       /\ IsSequence(module[i].params) /\ IsSequence(module[i].fields)
       /\ \A j \in DOMAIN module[i].fields : module[i].fields[j].name \in Range(NameOrder)

ASSUME SurfaceAssumption == \A module \in SurfaceModules : IsSurfaceModule(module)

VARIABLES
  surface, at, phase, field, seen, initial, params, fields, items, decls, locals, types,
  names, core, messages, declared,
  stage,      \* "elaborate", "validate" or "again"
  original,   \* the surface module of the first elaboration
  first,      \* its core module
  said,       \* found_messages: what the first elaboration reported
  reports     \* validation_messages

E == INSTANCE Elaboration
V == INSTANCE CoreValidation WITH module <- core, messages <- reports, Modules <- {}

vars == <<E!vars, stage, original, first, said, reports>>

Init ==
  /\ E!Init
  /\ stage = "elaborate"
  /\ original = surface
  /\ first = <<>> /\ said = <<>> /\ reports = <<>>

SurfaceToCore ==
  /\ stage = "elaborate"
  /\ E!Next
  /\ UNCHANGED <<stage, original, first, said, reports>>

\* The core module is handed to a new typing context.
StartValidation ==
  /\ stage = "elaborate" /\ phase = "done"
  /\ stage' = "validate"
  /\ at' = 0 /\ phase' = "item" /\ field' = 0 /\ seen' = {}
  /\ UNCHANGED <<surface, initial, params, fields, items, decls, locals, types, names, core,
                 messages, declared, original, first, said, reports>>

Validate ==
  /\ stage = "validate"
  /\ V!Next
  /\ UNCHANGED <<surface, params, fields, names, messages, declared, stage, original, first,
                 said>>

\* roundtrip_surface_to_core, up to the second elaboration.
Distill ==
  /\ stage = "validate" /\ phase = "done"
  /\ stage' = "again"
  /\ surface' = FromModule(core)
  /\ first' = core /\ said' = messages
  /\ core' = <<>>
  /\ messages' = <<>>
  /\ at' = 0 /\ phase' = "item" /\ field' = 0 /\ seen' = {}
  /\ UNCHANGED <<initial, params, fields, items, decls, locals, types, names, declared,
                 original, reports>>

SurfaceToCoreAgain ==
  /\ stage = "again"
  /\ E!Next
  /\ UNCHANGED <<stage, original, first, said, reports>>

Next ==
  SurfaceToCore \/ StartValidation \/ Validate \/ Distill \/ SurfaceToCoreAgain

Spec == Init /\ [][Next]_vars

-----------------------------------------------------------------------------
\* The environments go in step at every moment of every stage, and the
\* postconditions of from_module and is_module (their debug_ensures) hold.
TypeOK ==
  /\ stage \in {"elaborate", "validate", "again"}
  /\ phase \in {"item", "fields", "struct_type", "struct_format", "done"}
  /\ Len(types) = Len(locals)
  /\ stage # "validate" => Len(names) = Len(locals)
  /\ DOMAIN items = DOMAIN decls
  /\ phase \in {"item", "done"} => locals = <<>> /\ names = <<>>
  /\ phase = "done" => items = <<>>

\* A core module of the elaborator has one item per name, so that the
\* validator, which keeps the first definition of a name, and the interpreter,
\* which keeps the last, look at the same items; and a struct of it has one
\* field per label, so that a field is the local the validator counts for it.
CoreItemsAreDistinct ==
  /\ \A i, j \in DOMAIN core : core[i].name = core[j].name => i = j
  /\ \A i \in DOMAIN core : core[i].kind # "constant" =>
       \A j, k \in DOMAIN core[i].fields :
         core[i].fields[j].label = core[i].fields[k].label => j = k

=============================================================================
