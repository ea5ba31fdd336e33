SPECIFICATION ClientSpec
CONSTANTS
  Radix <- MCRadix
  UsizeMax <- MCUsizeMax
  Prefix <- MCPrefix
  MaxValues <- MCMaxValues
  Samples <- MCSamples
  ParseAt <- MCParseAt
  ParseRootItem <- MCParseRootItem
  Modules <- MCModules
  Files <- MCFiles
INVARIANTS
  StreamRoundTrip
  ReadsAreFaithful
  
  OnlyReferencesAreQueued
PROPERTY EveryTurnProgresses
CHECK_DEADLOCK FALSE
