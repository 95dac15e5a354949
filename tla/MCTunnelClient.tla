--------------------------- MODULE MCTunnelClient ---------------------------
EXTENDS TunnelClient

\* grpc-go's 1s, 120s, 1.6, 0.2 and 20s, brought closer together.
GrpcDefaults ==
  [base |-> 1, max |-> 3, multiplier |-> 200, jitter |-> 50, connectTimeout |-> 3]

Config(initial, max, multiplier, jitter, min) ==
  [InitialDelay |-> initial, MaxDelay |-> max, Multiplier |-> multiplier,
   Jitter |-> jitter, MinConnectTimeout |-> min]

\* All defaults; each field at work; a first delay above the maximum; a
\* multiplier that shrinks and a jitter that spreads down to zero; a short
\* maximum; a backoff that outgrows the handshake; refused.
CallerConfigs ==
  {Config(0, 0, 0, 0, 0), Config(0, 0, 0, 0, 3), Config(2, 3, 150, 0, 4),
   Config(3, 1, 0, 0, 3), Config(2, 0, 50, 100, 3), Config(0, 1, 0, 0, 0),
   Config(1, 4, 200, 10, 0), Config(0, 0, 0, 0, -1)}

\* Only the longest backoff is set, and it is shorter than the handshake.
ShortMaximum == {Config(0, 1, 0, 0, 0)}
=============================================================================
