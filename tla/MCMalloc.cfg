CONSTANTS
  MEM1_ALLOC_TABLE_SIZE = 6
  MEM1_BLOCK_SIZE = 3
  Sizes <- MCSizes
SPECIFICATION Spec
INVARIANTS
  MallocInv
  NoOverlap
  PerusedIsHeld
PROPERTIES
  PoolSpec
