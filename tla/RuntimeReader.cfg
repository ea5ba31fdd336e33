\* Two handles, so that a scope taken from one reader can be offset and read
\* again by the other.  UsizeMax exceeds twice BufferLen: an offset can leave
\* the buffer, and the sum of two offsets can wrap back into it.
SPECIFICATION RuntimeSpec
CONSTANTS
  BufferLen = 3
  UsizeMax = 7
  Handle = {1, 2}
  Sizes = {1, 2}
INVARIANTS
  ReadsStayInBuffer
  ReadsComeFromPosition
  PositionsNeverOverflow
CHECK_DEADLOCK FALSE
