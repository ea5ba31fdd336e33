SPECIFICATION Spec
CONSTANTS
  Radix <- MCRadix
  BufferLen <- MCBufferLen
  UsizeMax <- MCUsizeMax
  EvalTerm <- Eval
  Modules <- MCPartialModules
  Buffers <- MCBuffers
  Names <- MCNames
  MaxCalls <- MCMaxCalls
INVARIANT
  NeverPanics
CHECK_DEADLOCK FALSE
