SPECIFICATION CheckedSpec
CONSTANTS
  Radix <- MCRadix
  BufferLen <- MCBufferLen
  UsizeMax <- MCUsizeMax
  EvalTerm <- Eval
  Modules <- MCModules
  Buffers <- MCBuffers
  Names <- MCNames
  MaxCalls <- MCMaxCalls
INVARIANTS
  TypedReadsAreValid
  NoErrorsUnreported
  TypesSurviveReadBack
  EqualityIsOfNormalForms
  NormalFormsCheck
CHECK_DEADLOCK FALSE
