SPECIFICATION Spec
CONSTANTS
  f1 = f1
  f2 = f2
  NoName = NoName
  Names <- TwoNames
  SlotTypes <- AllSlotTypes
  Roots <- MixedRoots
  Destructors = {TRUE, FALSE}
  FieldTypes <- AllFieldTypes
  FirstCap = 1
  MaxCap = 2
  MaxBlocks <- MixedBounds
INVARIANTS
  TypeOK
  OneOwner
  OnlyDeadViewsFault
  TeardownReleases
PROPERTIES
  GrowKeepsContents
CHECK_DEADLOCK FALSE
