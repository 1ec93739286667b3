CONSTANTS
  mem <- MCMem
  Slots = {1, 2}
  SizeBits = 4
  NullPtr = NullPtr
  OutOfRange = OutOfRange
  Objs = {s1, s2, s3}
  Blocks = {b1, b2, b3}
  Codes = {kNotFound, kUnknown}
  kOk = kOk
  Msgs = {m1}
  Null = Null
  Free = Free
SPECIFICATION Spec
INVARIANTS TypeOK ViewsInBounds CompareIsLexicographic RelationalOperatorsAgree CopyMatchesView AffixTestsMatchReference CompareOverloadsMatchReference FormatWithinView OwnershipExclusive NoUseAfterFree
