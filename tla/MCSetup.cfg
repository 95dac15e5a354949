CONSTANTS
  Builder = {b1, b2, b3}
  NoPool = NoPool
  Plans <- MCPlans
  Page <- MCPage
SPECIFICATION Spec
INVARIANTS PoolPerSize LimitsInForce HandlersAgree TunnelDialed ToolingRegistersOnce
PROPERTY RedialsAlike
CHECK_DEADLOCK FALSE
