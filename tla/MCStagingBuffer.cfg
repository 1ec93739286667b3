CONSTANTS
  CheapPrepend = 2
  InitialSize = 2
  Byte = {b1, b2}
  NUL = NUL
  MaxAppend = 3
  MaxReadable = 4
SPECIFICATION Spec
INVARIANTS TypeOK BufferLayout StorageBounded
PROPERTIES QueueRefinement AppendExact
