CONSTANTS
  MaxInterval = 5
  MaxRtt = 2
  MaxBusy = 2
  MaxHook = 4
SPECIFICATION TimingSpec
INVARIANT NoFalseTimeout
PROPERTY DeadPeerDropped
CHECK_DEADLOCK FALSE
