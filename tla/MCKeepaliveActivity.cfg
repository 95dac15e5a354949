CONSTANTS
  MaxInterval = 5
  MaxRtt = 2
  MaxBusy = 2
  MaxHook = 4
SPECIFICATION TimingSpec
INVARIANTS TimeoutMeansQuiet
CHECK_DEADLOCK FALSE
