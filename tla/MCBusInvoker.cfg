CONSTANTS
  Threads = {t1, t2}
  IdBits = 2
  MaxCalls = 3
  NoSlot = NoSlot
  Empty = Empty
SYMMETRY ThreadSymmetry
SPECIFICATION Spec
INVARIANTS TypeOK CorrectMatch 
