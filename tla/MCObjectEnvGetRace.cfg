CONSTANTS
  Threads = {t1, t2}
  Objs = {o1, o2, o3}
  Names = {n1}
  NameOf <- MCNameOf
  NoName = NoName
  None = None
  Keys = {k1}
  Values = {v1}
  NoKey = NoKey
  NullValue = NullValue
  Empty = Empty
  MaxHeld = 2
  o1 = o1
  o2 = o2
  o3 = o3
  n1 = n1
SPECIFICATION Spec
INVARIANT NoUseAfterFree
