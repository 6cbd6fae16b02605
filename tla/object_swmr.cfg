SPECIFICATION Spec
CONSTANTS
  r1 = r1
  v1 = v1
  v2 = v2
  c1 = c1
  c2 = c2
  Zero = Zero
  NoKey = NoKey
  Readers <- OneReader
  Names <- TwoNames
  U16 = 3
  U32 = 4
  Types = {"int32", "string", "object"}
  Values <- TwoValues
  FirstCap = 1
  ReaderOps = {"get", "get_slot", "has", "type", "count", "nested"}
  MallocMayFail = TRUE
  MaxEntries = 2
  MaxStores = 8
SYMMETRY ValueSymmetry
INVARIANTS
  TypeOK
  ReadersSafe
  AnswersAreRegular
  RemovedIsGone
CHECK_DEADLOCK FALSE
