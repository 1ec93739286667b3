CONSTANTS
  HeaderLen = 2
  MaxBody = 2
  BufSize = 2
  None = None
  Statuses = {200, 404, 999}
  BodyLens = {0, 12}
  Locations = {l1}
  MaxCalls = 2
  MaxConns = 5
  MaxListens = 2
SPECIFICATION Spec
CHECK_DEADLOCK FALSE
INVARIANT NoConnFromCancelledAccept
