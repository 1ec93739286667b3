CONSTANTS
  CheapPrepend = 2
  InitialSize = 2
  NUL = NUL
  HeaderSize = 2
  MaxBody = 2
  MaxFrames = 3
  MaxChunk = 3
  kMsgMagic = kMsgMagic
  BadMagic = BadMagic
  Garbage = Garbage
  Fail = Fail
  NoMsg = NoMsg
SPECIFICATION Spec
CHECK_DEADLOCK FALSE
INVARIANT CodecAwaitsHeaderAfterMalformed
