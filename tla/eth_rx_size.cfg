CONSTANTS
  ETH_RXBUFNB = 3
  Uses <- HandlerAlone
  MaxFrames = 6
SPECIFICATION Spec
INVARIANTS
  RxSizeIsFrameLength
CHECK_DEADLOCK FALSE
