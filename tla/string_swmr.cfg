SPECIFICATION FairSpec
CONSTANTS
  r1 = r1
  c1 = c1
  c2 = c2
  NUL = NUL
  Readers <- OneReader
  Texts <- MCTexts
  U32 = 16
  ReaderOps = {"length", "get", "copy"}
  MallocMayFail = TRUE
  MaxStores = 5
INVARIANTS
  TypeOK
  OnlyUnpairedCopiesFault
  ReadsOneText
  StringInv
PROPERTIES
  RegisterSpec
  ReadsFinish
CHECK_DEADLOCK FALSE
