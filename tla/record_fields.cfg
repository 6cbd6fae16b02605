SPECIFICATION Spec
CONSTANTS
  r1 = r1
  Readers <- OneReader
  Types <- SmallTypes
  Items = 2
  MaxWrites = 3
INVARIANTS
  TypeOK
  FieldsAreRegisters
  CausalAcrossFields
  DeallocateFindsPointers
  LayoutSound
CHECK_DEADLOCK FALSE
