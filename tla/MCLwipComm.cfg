CONSTANTS
  MEM1_ALLOC_TABLE_SIZE = 36
  MEM1_BLOCK_SIZE = 2
  Sizes <- MCSizes
  BufferSize <- MCBufferSize
  AppSizes <- MCAppSizes
  MaxCalls = 4
SPECIFICATION CommSpec
INVARIANTS
  CommInv
  LostByFailureOnly
  TwoCallsFit
