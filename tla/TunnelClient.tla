---------------------------- MODULE TunnelClient ----------------------------
(***************************************************************************)
(* A tunnel client in the browser: the gRPC channel that BuildTunnelConn   *)
(* makes (pkg/grpctunnel/client_wasm.go) with the reconnect policy of      *)
(* ApplyTunnelReconnectPolicy (pkg/grpctunnel/api.go), and its dials.      *)
(*                                                                         *)
(* The channel itself is grpc-go's (external): it gives every attempt to   *)
(* connect as long as the current backoff, but at least the minimum it     *)
(* was configured with, waits for the backoff after a failure, and starts  *)
(* over after a success.  Delays are ticks, factors percent.               *)
(***************************************************************************)
EXTENDS Integers, FiniteSetsExt, WasmDialer

CONSTANTS
  ReconnectConfigs,  \* what callers pass; not every one is accepted
  DefaultParams,     \* grpc-go's connect parameters
  Handshake,         \* bound: ticks in which a server that is up accepts
  MaxRetries         \* bound: the backoff no longer changes from there on

ASSUME TunnelClientAssumption == Handshake \in Nat /\ MaxRetries \in Nat \ {0}

VARIABLES
  policy,      \* the config's ReconnectConfig: a set of at most one, {} is nil
  channel,     \* "idle", "dialing", "ready", "backoff" or "shutdown"
  retries,     \* grpc-go's index into the backoff
  backoffFor,  \* the backoff of this attempt
  timer,       \* ticks left of the attempt, or of the backoff
  need,        \* at most so many ticks until the server accepts
  up           \* the server can be reached

channelVars == <<policy, channel, retries, backoffFor, timer>>
vars == <<dialerVars, channelVars, need, up>>

(* GetReconnectConfigError; infinities and NaN are left out.               *)
Accepted(p) == \A field \in DOMAIN p : p[field] >= 0

OrDefault(value, default) == IF value > 0 THEN value ELSE default

(* Wrong...: plausible bugs in the definition that follows, see README.    *)
WrongParams(p) ==
  [DefaultParams EXCEPT !.base = OrDefault(p.InitialDelay, @),
                        !.max = OrDefault(p.MaxDelay, @), !.connectTimeout = 0]

(* ApplyTunnelReconnectPolicy.  ConnectParams has no default for the last  *)
(* of its fields.                                                          *)
Params(p) ==
  [base           |-> OrDefault(p.InitialDelay, DefaultParams.base),
   max            |-> OrDefault(p.MaxDelay, DefaultParams.max),
   multiplier     |-> OrDefault(p.Multiplier, DefaultParams.multiplier),
   jitter         |-> OrDefault(p.Jitter, DefaultParams.jitter),
   connectTimeout |-> OrDefault(p.MinConnectTimeout, 0)]

params == IF policy = {} THEN DefaultParams ELSE Params(CHOOSE p \in policy : TRUE)

-----------------------------------------------------------------------------
(* grpc-go's exponential backoff; the first delay is neither capped nor    *)
(* spread.                                                                 *)

Grown[n \in 0..MaxRetries] ==
  IF n = 0 THEN params.base
  ELSE IF Grown[n - 1] < params.max THEN (Grown[n - 1] * params.multiplier) \div 100
  ELSE Grown[n - 1]

Capped(n) == Min({Grown[n], params.max})

Delays ==
  IF retries = 0 THEN {params.base}
  ELSE LET d == Capped(retries)
       IN {e \in 0..(2 * d) : /\ e * 100 >= d * (100 - params.jitter)
                              /\ e * 100 <= d * (100 + params.jitter)}

-----------------------------------------------------------------------------
Init ==
  /\ DialerInit
  /\ policy \in {{}} \cup {{p} : p \in {q \in ReconnectConfigs : Accepted(q)}}
  /\ channel = "idle" /\ retries = 0 /\ backoffFor = 0 /\ timer = 0
  /\ need = 0 /\ up \in BOOLEAN

(* Calls are waiting, so an idle channel connects at once.                 *)
Connect(s) ==
  /\ channel = "idle"
  /\ DialBegins(s)
  /\ ctxDone' = FALSE
  /\ \E d \in Delays :
       backoffFor' = d /\ timer' = Max({d, params.connectTimeout})
  /\ channel' = "dialing" /\ need' = Handshake
  /\ UNCHANGED <<policy, retries, up>>

\* The dial has failed; a channel that was shut down stays so.
Fallback ==
  IF channel = "shutdown" THEN UNCHANGED <<channel, timer>>
  ELSE channel' = "backoff" /\ timer' = backoffFor

AttemptFails ==
  /\ DialFails \/ DialCancelled
  /\ UNCHANGED ctxDone /\ Fallback
  /\ UNCHANGED <<policy, retries, backoffFor, need, up>>

AttemptWins ==
  /\ DialWins
  /\ UNCHANGED <<channelVars, need, up>>

(* The channel has the conn, but perhaps no longer wants it.               *)
TakeConn ==
  /\ dial = "returned"
  /\ DialEnds
  /\ IF ctxDone
       THEN ConnCloses(dialed) /\ Fallback /\ UNCHANGED retries
       ELSE channel' = "ready" /\ retries' = 0 /\ UNCHANGED <<socketVars, timer>>
  /\ UNCHANGED <<ctxDone, policy, backoffFor, need, up>>

(* The conn's Read ends with an error, before or without a close event.    *)
DropConn(s) ==
  /\ channel = "ready" /\ socket[s] = "failed" /\ handler[s] = "conn"
  /\ ConnCloses(s)
  /\ channel' = "idle"
  /\ UNCHANGED <<dialVars, policy, retries, backoffFor, timer, need, up>>

(* ClientConn.Close, at any moment.                                        *)
Shutdown ==
  /\ channel # "shutdown"
  /\ channel' = "shutdown"
  /\ IF dial = "idle" THEN UNCHANGED dialVars
     ELSE ctxDone' = TRUE /\ UNCHANGED <<dial, dialed, openSent, errorSent>>
  /\ IF channel = "ready"
       THEN \E s \in Socket : handler[s] = "conn" /\ ConnCloses(s)
       ELSE UNCHANGED socketVars
  /\ UNCHANGED <<policy, retries, backoffFor, timer, need, up>>

-----------------------------------------------------------------------------
(* Time and timers; a server that is up does not let its bound pass.       *)

Tick ==
  /\ ~Running /\ channel \in {"dialing", "backoff"} /\ timer > 0
  /\ ~(channel = "dialing" /\ up /\ need = 0 /\ socket[dialed] = "connecting")
  /\ timer' = timer - 1
  /\ need' = IF up /\ need > 0 THEN need - 1 ELSE need
  /\ UNCHANGED <<dialerVars, policy, channel, retries, backoffFor, up>>

DeadlinePasses ==
  /\ ~Running /\ channel = "dialing" /\ timer = 0
  /\ ctxDone' = TRUE
  /\ UNCHANGED <<socketVars, dial, dialed, openSent, errorSent,
                 channelVars, need, up>>

BackoffEnds ==
  /\ ~Running /\ channel = "backoff" /\ timer = 0
  /\ channel' = "idle"
  /\ retries' = Min({retries + 1, MaxRetries})
  /\ UNCHANGED <<dialerVars, policy, backoffFor, timer, need, up>>

ServerGoes ==
  /\ up /\ up' = FALSE
  /\ UNCHANGED <<dialerVars, channelVars, need>>

ServerReturns ==
  /\ ~up /\ up' = TRUE /\ need' = Handshake
  /\ UNCHANGED <<dialerVars, channelVars>>

\* Only a server that is up opens a socket, and it refuses none.
Opens(s) == up /\ SocketOpens(s) /\ UNCHANGED <<channelVars, need, up>>

Fails(s) ==
  /\ socket[s] = "connecting" => ~up
  /\ SocketFails(s)
  /\ UNCHANGED <<channelVars, need, up>>

Gone(s) ==
  /\ SocketGone(s)
  /\ channel' = IF handler[s] = "conn" /\ channel = "ready" THEN "idle" ELSE channel
  /\ UNCHANGED <<policy, retries, backoffFor, timer, need, up>>

-----------------------------------------------------------------------------
GoStep ==
  \/ AttemptFails \/ AttemptWins \/ TakeConn
  \/ \E s \in Socket : Connect(s) \/ DropConn(s)

Next ==
  \/ GoStep \/ Shutdown
  \/ Tick \/ DeadlinePasses \/ BackoffEnds \/ ServerGoes \/ ServerReturns
  \/ \E s \in Socket : Opens(s) \/ Fails(s) \/ Gone(s)

(* Goroutines that can run do, timers fire, a server that is up accepts,   *)
(* and the browser ends what is closed or has failed.                      *)
Fairness ==
  /\ WF_vars(GoStep)
  /\ WF_vars(Tick) /\ WF_vars(DeadlinePasses) /\ WF_vars(BackoffEnds)
  /\ \A s \in Socket :
       /\ WF_vars(Opens(s))
       /\ WF_vars(socket[s] \in {"closing", "failed"} /\ Gone(s))

Spec == Init /\ [][Next]_vars /\ Fairness

-----------------------------------------------------------------------------
(* Types; a dial that is under way has a socket and a channel to go with.  *)
TypeOK ==
  /\ DialerTypeOK
  /\ channel \in {"idle", "dialing", "ready", "backoff", "shutdown"}
  /\ channel = "dialing" => dial # "idle"
  /\ dial # "idle" => channel \in {"dialing", "shutdown"}
  /\ retries \in 0..MaxRetries
  /\ backoffFor \in Nat /\ timer \in Nat /\ need \in 0..Handshake

(* However dials, deadlines and shutdowns follow on one another, at most   *)
(* one socket is connecting or open at a time, and only one that the       *)
(* channel has a use for: no dial that was given up leaves a socket        *)
(* behind.                                                                 *)
Alive == {s \in Socket : socket[s] \in {"connecting", "open"}}
OneLiveSocket ==
  \A s \in Alive :
    /\ Alive = {s}
    /\ \/ dialed = s
       \/ channel = "ready" /\ handler[s] = "conn"

(* Closing the channel ends every socket, also the one that opens while    *)
(* its dial is being cancelled.                                            *)
ShutdownEndsSockets ==
  channel = "shutdown" ~> \A s \in Socket : socket[s] = "none"

(* If an attempt may last longer than the server takes to accept, at once  *)
(* or when the backoff has grown (with the least that the jitter leaves    *)
(* of it), a server that stays up is reached after any outage.             *)
Given(value, default) == IF value = 0 THEN default ELSE value
Patient ==
  \A p \in policy :
    \/ p.MinConnectTimeout > Handshake
    \/ /\ Given(p.Multiplier, DefaultParams.multiplier) > 100
       /\ Given(p.MaxDelay, DefaultParams.max)
            * (100 - Given(p.Jitter, DefaultParams.jitter)) > 100 * Handshake
Connected == channel \in {"ready", "shutdown"}
EventuallyConnected == Patient /\ <>[]up => []<>Connected

(* What the comment on MinConnectTimeout says (api.go:89): "Zero uses gRPC *)
(* defaults".  Then a server that answers within grpc-go's default is      *)
(* reached by a client that leaves the field zero.                         *)
ZeroMinConnectTimeoutIsDefault ==
  /\ DefaultParams.connectTimeout > Handshake
  /\ \A p \in policy : p.MinConnectTimeout = 0
  /\ <>[]up
  => []<>Connected
=============================================================================
