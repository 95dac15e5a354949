CONSTANTS
  Socket = {s1, s2}
  Nobody = Nobody
  ReconnectConfigs <- ShortMaximum
  DefaultParams <- GrpcDefaults
  Handshake = 2
  MaxRetries = 3
SPECIFICATION Spec
PROPERTY ZeroMinConnectTimeoutIsDefault
CHECK_DEADLOCK FALSE
