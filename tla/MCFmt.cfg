CONSTANTS
  mem <- MCMem
  Slots = {1, 2}
  SizeBits = 4
  NullPtr = NullPtr
  OutOfRange = OutOfRange
SPECIFICATION Spec
INVARIANT FormatWritesView
