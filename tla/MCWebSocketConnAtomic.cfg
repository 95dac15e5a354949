CONSTANTS
  Writer = {w1, w2}
  MaxMessage = 2
  MaxSent = 3
  WireRoom = 2
SPECIFICATION Spec
INVARIANT WriteAllOrNothing
CHECK_DEADLOCK FALSE
