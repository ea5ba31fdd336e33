SPECIFICATION CheckedSpec
CONSTANTS
  Radix <- MCRadix
  BufferLen <- MCBufferLen
  UsizeMax <- MCUsizeMax
  EvalTerm <- Eval
  Modules <- MCModules
  Buffers <- MCBuffers
  Names <- MCNames
  MaxCalls <- MCMaxCalls
INVARIANT
  EqualityIsReflexive
CHECK_DEADLOCK FALSE
