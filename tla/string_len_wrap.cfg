SPECIFICATION Spec
CONSTANTS
  r1 = r1
  c1 = c1
  c2 = c2
  NUL = NUL
  Readers <- OneReader
  Texts <- LongTexts
  U32 = 4
  ReaderOps = {"length"}
  MallocMayFail = FALSE
  MaxStores = 4
INVARIANTS
  CopiesInBounds
CHECK_DEADLOCK FALSE
