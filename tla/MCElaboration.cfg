SPECIFICATION Spec
CONSTANTS
  Radix <- MCRadix
  NameOrder <- MCNameOrder
  SurfaceModules <- MCSurfaceModules
  EvalTerm <- Eval
  ReprOfValue <- ReprOf
  SynthTerm <- SynthSurface
  CheckTerm <- CheckSurface
  ElaborateType <- IsType
  ElaborateAnnotated <- ElaborateAnn
  SynthCore <- Synth
  SynthCoreSort <- SynthSort
  CheckCore <- Check
  DistillTerm <- FromTerm
INVARIANTS
  TypeOK
  CoreItemsAreDistinct
  
  RoundTrip
  NothingIsDroppedSilently
CHECK_DEADLOCK FALSE
