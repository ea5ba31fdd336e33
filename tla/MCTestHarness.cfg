SPECIFICATION Spec
CONSTANTS
  Tests <- MCTests
  Stem <- MCStem
  Contents <- MCContents
  Suites <- MCSuites
  MaxRuns <- MCMaxRuns
INVARIANTS
  DirectivesDecide
  PassedMeansAllStages
  
CHECK_DEADLOCK FALSE
