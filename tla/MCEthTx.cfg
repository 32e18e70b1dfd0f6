CONSTANTS
  ETH_TXBUFNB = 4
  f1 = f1
  f2 = f2
  Frames <- MCFrames
SPECIFICATION Spec
INVARIANTS
  TxInv
  NoLostWakeUp
PROPERTIES
  SendsInOrder
  RefusedWhenFull
  RingDrains
