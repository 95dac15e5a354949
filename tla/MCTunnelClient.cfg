CONSTANTS
  Socket = {s1, s2}
  Nobody = Nobody
  ReconnectConfigs <- CallerConfigs
  DefaultParams <- GrpcDefaults
  Handshake = 2
  MaxRetries = 3
SPECIFICATION Spec
INVARIANTS CallsReachTheirOwner OneLiveSocket
PROPERTIES ShutdownEndsSockets EventuallyConnected
CHECK_DEADLOCK FALSE
