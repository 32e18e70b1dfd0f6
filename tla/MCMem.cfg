CONSTANTS
  MEM_SIZE_ALIGNED = 34
  SIZEOF_STRUCT_MEM = 4
  MIN_SIZE = 3
  MEM_ALIGNMENT = 2
  MemSizeT = 64
  Contexts = {"main"}
  Sizes <- MCSizes
SPECIFICATION Spec
INVARIANTS
  MemInv
  NoOverlap
PROPERTIES
  RefusedRightly
  MallocReturns
