SPECIFICATION Spec
CONSTANTS
  r1 = r1
  v1 = v1
  v2 = v2
  Zero = Zero
  Readers <- OneReader
  Values <- OneValue
  FirstCap = 2
  U32 = 16
  WriterOps = {"prepare", "clear"}
  ReaderOps = {"size", "get"}
  MallocMayFail = FALSE
  MaxCap = 4
  MaxBufs = 2
  MaxStores = 6
INVARIANTS
  PrivateUntilCommit
