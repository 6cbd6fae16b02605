SPECIFICATION Spec
CONSTANTS
  r1 = r1
  v1 = v1
  v2 = v2
  Zero = Zero
  Readers <- OneReader
  Values <- TwoValues
  FirstCap = 2
  U32 = 16
  WriterOps = {"prepare", "push_back", "reserve", "clear"}
  ReaderOps = {"size", "get", "iterate"}
  MallocMayFail = TRUE
  MaxCap = 4
  MaxBufs = 2
  MaxStores = 7
SYMMETRY ValueSymmetry
INVARIANTS
  OnlyTornIterationsFault
  ReadsCommittedOrZero
CHECK_DEADLOCK FALSE
