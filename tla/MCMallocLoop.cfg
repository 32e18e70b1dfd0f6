CONSTANTS
  MEM1_ALLOC_TABLE_SIZE = 5
  MEM1_BLOCK_SIZE = 2
  Sizes <- MCSizes
SPECIFICATION LoopSpec
INVARIANTS
  LoopInv
PROPERTIES
  ImplementsMalloc
  CallsReturn
