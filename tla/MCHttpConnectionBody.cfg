CONSTANTS
  HeaderLen = 2
  MaxBody = 2
  BufSize = 2
  None = None
SPECIFICATION Spec
CHECK_DEADLOCK FALSE
INVARIANTS RequestBodyComplete
