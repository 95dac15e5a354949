CONSTANTS
  Writer = {w1, w2}
  MaxMessage = 2
  MaxSent = 2
  WireRoom = 2
SPECIFICATION Spec
PROPERTIES ImplementsByteStream ClosedForGood CloseUnblocks EveryByteArrives
CHECK_DEADLOCK FALSE
