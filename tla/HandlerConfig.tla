--------------------------- MODULE HandlerConfig ----------------------------
(***************************************************************************)
(* How the configuration of a bridge handler is checked and turned into    *)
(* the settings it serves with: BridgeConfig and the ServerOptions of      *)
(* pkg/grpctunnel/server.go, and Config of pkg/bridge/bridge.go.  The two  *)
(* packages repeat each other's code, and Wrap hands its options over to   *)
(* the typed configuration field by field.                                 *)
(*                                                                         *)
(* Numbers are numbers; an origin check, a pair of hooks and an address    *)
(* are members of small sets.                                              *)
(***************************************************************************)
EXTENDS Integers, Sequences, SequencesExt

DefaultBufferSize == 4096
DefaultReadLimit == 16777216
DefaultDialTimeout == 10

Or(value, default) == IF value = 0 THEN default ELSE value

(* A typed configuration: every field of BridgeConfig, and those that      *)
(* pkg/bridge's Config has besides.                                        *)
NoBridgeConfig ==
  [CheckOrigin |-> "same origin", ShouldEnableCompression |-> FALSE,
   ReadBufferSize |-> 0, WriteBufferSize |-> 0,
   ReadLimitBytes |-> 0, ShouldDisableReadLimit |-> FALSE,
   PingInterval |-> 0, IdleTimeout |-> 0, MaxActiveConnections |-> 0,
   MaxConnectionsPerClient |-> 0, MaxUpgradesPerClientPerMinute |-> 0,
   OnConnect |-> "none", OnDisconnect |-> "none"]

NumberFields ==
  {"ReadBufferSize", "WriteBufferSize", "ReadLimitBytes", "PingInterval", "IdleTimeout",
   "MaxActiveConnections", "MaxConnectionsPerClient", "MaxUpgradesPerClientPerMinute"}

-----------------------------------------------------------------------------
(* Server options: each sets some fields of serverOptions.                 *)

WithOriginCheck(fn) == [checkOrigin |-> fn]
WithBufferSizes(read, write) == [readBufferSize |-> read, writeBufferSize |-> write]
WithReadLimitBytes(limit) == [readLimitBytes |-> limit]
WithReadLimitDisabled == [shouldDisableReadLimit |-> TRUE]
WithKeepalive(ping, idle) == [pingInterval |-> ping, idleTimeout |-> idle]
WithBridgeWebSocketCompression == [shouldEnableCompression |-> TRUE]
WithMaxActiveConnections(max) == [maxActiveConnections |-> max]
WithMaxConnectionsPerClient(max) == [maxConnectionsPerClient |-> max]
WithMaxUpgradesPerClientPerMinute(max) == [maxUpgradesPerClient |-> max]
WithConnectHook(fn) == [onConnect |-> fn]
WithDisconnectHook(fn) == [onDisconnect |-> fn]

Set(options, option) ==
  [f \in DOMAIN options |-> IF f \in DOMAIN option THEN option[f] ELSE options[f]]

buildServerOptions(opts) ==
  FoldLeft(Set,
    [checkOrigin |-> "same origin", shouldEnableCompression |-> FALSE,
     readBufferSize |-> DefaultBufferSize, writeBufferSize |-> DefaultBufferSize,
     readLimitBytes |-> 0, shouldDisableReadLimit |-> FALSE,
     pingInterval |-> 0, idleTimeout |-> 0, maxActiveConnections |-> 0,
     maxConnectionsPerClient |-> 0, maxUpgradesPerClient |-> 0,
     onConnect |-> "none", onDisconnect |-> "none"], opts)

(* Wrap, up to the call of BuildBridgeHandler.                             *)
WrapConfig(opts) ==
  LET o == buildServerOptions(opts) IN
  [CheckOrigin |-> o.checkOrigin,
   ShouldEnableCompression |-> o.shouldEnableCompression,
   ReadBufferSize |-> o.readBufferSize, WriteBufferSize |-> o.writeBufferSize,
   ReadLimitBytes |-> o.readLimitBytes,
   ShouldDisableReadLimit |-> o.shouldDisableReadLimit,
   PingInterval |-> o.pingInterval, IdleTimeout |-> o.idleTimeout,
   MaxActiveConnections |-> o.maxActiveConnections,
   MaxConnectionsPerClient |-> o.maxConnectionsPerClient,
   MaxUpgradesPerClientPerMinute |-> o.maxUpgradesPerClient,
   OnConnect |-> o.onConnect, OnDisconnect |-> o.onDisconnect]

-----------------------------------------------------------------------------
(* GetBridgeConfigError returns an error.                                  *)
GetBridgeConfigError(c) ==
  \/ \E f \in NumberFields : c[f] < 0
  \/ c.ShouldDisableReadLimit /\ c.ReadLimitBytes > 0
  \/ c.IdleTimeout > 0 /\ (c.PingInterval <= 0 \/ c.PingInterval >= c.IdleTimeout)

WrongReadLimitBytes(c) ==
  IF c.ShouldDisableReadLimit THEN 0 ELSE c.ReadLimitBytes

getBridgeReadLimitBytes(c) ==
  IF c.ShouldDisableReadLimit THEN 0 ELSE Or(c.ReadLimitBytes, DefaultReadLimit)

(* What BuildBridgeHandler makes of an accepted configuration.             *)
BridgeSettings(c) ==
  [c EXCEPT !.ReadBufferSize = Or(@, DefaultBufferSize),
            !.WriteBufferSize = Or(@, DefaultBufferSize),
            !.ReadLimitBytes = getBridgeReadLimitBytes(c)]

-----------------------------------------------------------------------------
(* pkg/bridge: the defaults are set first and then checked.                *)

HandlerDefaults(c) ==
  [c EXCEPT !.ReadBufferSize = Or(@, DefaultBufferSize),
            !.WriteBufferSize = Or(@, DefaultBufferSize)]

WrongHandlerConfigError(c, dialTimeout) ==
  \/ \E f \in NumberFields : c[f] < 0
  \/ dialTimeout < 0
  \/ c.ShouldDisableReadLimit /\ c.ReadLimitBytes > 0
  \/ c.IdleTimeout > 0 /\ (c.PingInterval <= 0 \/ c.PingInterval > c.IdleTimeout)

getHandlerConfigError(c, dialTimeout) ==
  \/ \E f \in NumberFields : c[f] < 0
  \/ dialTimeout < 0
  \/ c.ShouldDisableReadLimit /\ c.ReadLimitBytes > 0
  \/ c.IdleTimeout > 0 /\ (c.PingInterval <= 0 \/ c.PingInterval >= c.IdleTimeout)

getHandlerReadLimitBytes(c) ==
  IF c.ShouldDisableReadLimit THEN 0 ELSE Or(c.ReadLimitBytes, DefaultReadLimit)

HandlerSettings(c) ==
  [HandlerDefaults(c) EXCEPT !.ReadLimitBytes = getHandlerReadLimitBytes(c)]

(* The backend's address: host:port or http://host:port.  A blank one has  *)
(* no host; "extra" stands for a path, a query or a fragment.              *)
parseBridgeTargetURL(t) ==
  t.parses /\ t.scheme \in {"", "http"} /\ t.host # "" /\ ~t.extra

shouldWarnBridgePlaintextBackend(host) == host \notin {"localhost", "loopback"}

getBridgeBackendTransportPolicyError(requireLoopback, t) ==
  requireLoopback /\ shouldWarnBridgePlaintextBackend(t.host)
=============================================================================
