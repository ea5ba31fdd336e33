SPECIFICATION Spec
CONSTANTS
  Paths <- MCPaths
  Sources <- FormatSources
  Unreadable <- MCUnreadable
  MaxCalls <- MCMaxCalls
INVARIANTS
  SuccessMeansNoErrors
  RenderedOnceInOrder
  LostOnlyOnFailure
  LabelsNameTheirFile
CHECK_DEADLOCK FALSE
