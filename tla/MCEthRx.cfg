CONSTANTS
  ETH_RXBUFNB = 4
  Uses <- BothUses
  MaxFrames = 9
SPECIFICATION Spec
INVARIANTS
  RingIsCut
  BufferIsStable
  OnceInOrder
  FramesAccounted
PROPERTIES
  ReceptionResumes
  RingIsEmptied
  IsrReturns
CHECK_DEADLOCK FALSE
