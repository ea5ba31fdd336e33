SPECIFICATION Spec
CONSTANTS
  Radix <- MCRadix
  BufferLen <- MCBufferLen
  UsizeMax <- MCUsizeMax
  EvalTerm <- Eval
  Modules <- MCTableModules
  Buffers <- MCBuffers
  Names <- MCNames
  MaxCalls <- MCMaxCalls
INVARIANT
  LinksReadAtTheirPosition
CHECK_DEADLOCK FALSE
