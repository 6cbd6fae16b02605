SPECIFICATION Spec
CONSTANTS
  r1 = r1
  v1 = v1
  v2 = v2
  Zero = Zero
  Readers <- OneReader
  Values <- TwoValues
  FirstCap = 1
  U32 = 16
  WriterOps = {"prepare", "abandon", "reserve"}
  ReaderOps = {"size", "get", "get_int32"}
  MallocMayFail = FALSE
  MaxCap = 4
  MaxBufs = 3
  MaxStores = 8
SYMMETRY ValueSymmetry
INVARIANTS
  TypeOK
  AppendInv
  ReadsCommitted
  MemorySafe
  PrivateUntilCommit
PROPERTIES
  SequenceSpec
  SizeNeverShrinks
