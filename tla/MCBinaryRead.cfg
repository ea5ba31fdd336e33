SPECIFICATION Spec
CONSTANTS
  Radix <- MCRadix
  BufferLen <- MCBufferLen
  UsizeMax <- MCUsizeMax
  EvalTerm <- Eval
  Modules <- MCModules
  Buffers <- MCBuffers
  Names <- MCNames
  MaxCalls <- MCMaxCalls
INVARIANTS
  TypeOK
  ReaderDiscipline
  LinkDiscipline
  ReadItemAgrees
  ReadValuesInhabitRepr
PROPERTIES
  LinksLeaveReader
  EveryCallReturns
  LinksAreTraversed
CHECK_DEADLOCK FALSE
