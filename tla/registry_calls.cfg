SPECIFICATION FairSpec
CONSTANTS
  t1 = t1
  t2 = t2
  n1 = n1
  n2 = n2
  s0 = s0
  s1 = s1
  Nobody = Nobody
  NoSchema = s0
  Threads <- TwoThreads
  Names <- TwoNames
  Schemas <- TwoSchemas
  Ops = {"alloc", "get", "get_with_schema", "get_hash", "free"}
  MallocMayFail = TRUE
  MapMayThrow = TRUE
  Threw = Threw
  MaxBlocks = 2
  MaxCalls = 2
INVARIANTS
  TypeOK
  NoBlockLost
  BlocksUsedRightly
  RegistryInv
PROPERTIES
  RegionsSpec
  CallsReturn
CHECK_DEADLOCK FALSE
