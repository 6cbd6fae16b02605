SPECIFICATION Spec
CONSTANTS
  r1 = r1
  v1 = v1
  v2 = v2
  c1 = c1
  c2 = c2
  Zero = Zero
  NoKey = NoKey
  Readers <- NoReaders
  Names <- LongNames
  U16 = 3
  U32 = 4
  Types = {"int32", "string"}
  Values <- TwoValues
  FirstCap = 3
  ReaderOps = {}
  MallocMayFail = FALSE
  MaxEntries = 3
  MaxStores = 10
SYMMETRY ValueSymmetry
INVARIANTS
  OnlyWrapsOverrun
  OnlyLongNamesStay
  ObjectInv
PROPERTIES
  PublishedIsFrozen
  BagSpec
CHECK_DEADLOCK FALSE
