--------------------------- MODULE BridgeSession ----------------------------
(***************************************************************************)
(* One tunnel session, from request to return: the HTTP handler built by   *)
(* BuildBridgeHandler (pkg/grpctunnel/server.go) and Handler.ServeHTTP     *)
(* (pkg/bridge/bridge.go), the keepalive goroutine it starts, the user's   *)
(* OnConnect and OnDisconnect hooks, the active-connections gauge and the  *)
(* admission guard shared by all sessions.                                 *)
(*                                                                         *)
(* A handler registers its clean-up with defer.  The calls are always      *)
(* registered in the order of Deferred, and a handler that returns or      *)
(* panics runs the ones registered so far, last one first; so the number   *)
(* of calls registered (depth) says what is still to be undone.            *)
(***************************************************************************)
EXTENDS Integers, FiniteSets, Sequences

CONSTANTS
  Handler, Host, NoHost, Unknown, NoKey,
  MaxActiveConnections, MaxConnectionsPerClient, MaxUpgradesPerClientPerMinute,
  WindowLength, MaxDelay, MaxClock,      \* see AbuseGuard
  HasPing,      \* PingInterval > 0: sessions have a keepalive goroutine
  HasIdle       \* IdleTimeout > 0: reads have a deadline

ASSUME SessionAssumption ==
  /\ HasPing \in BOOLEAN
  /\ HasIdle \in BOOLEAN
  /\ IsFiniteSet(Handler)
  /\ NoKey \notin Host \cup {Unknown}
  /\ MaxActiveConnections \in Nat
  /\ MaxConnectionsPerClient \in Nat
  /\ MaxUpgradesPerClientPerMinute \in Nat
  /\ WindowLength \in Nat \ {0}
  /\ MaxDelay \in Nat
  /\ MaxClock \in Nat \ {0}

VARIABLES
  clock, active, clientConns, windowStart, windowCount, addr, stamp,  \* AbuseGuard
  pc,       \* where each handler goroutine is
  depth,    \* how many deferred calls it has registered and not run yet
  socket,   \* the server's end of its WebSocket
  peer,     \* what the other end is doing
  keeper,   \* its keepalive goroutine
  stop,     \* parseStopChannel is closed
  hook,     \* which lifecycle hooks have been called
  gauge     \* the active-connections gauge, over all sessions

guardVars == <<clock, active, clientConns, windowStart, windowCount, addr, stamp>>
sessionVars == <<pc, depth, socket, peer, keeper, stop, hook>>
vars == <<clock, active, clientConns, windowStart, windowCount, addr, stamp,
          pc, depth, socket, peer, keeper, stop, hook, gauge>>

Deferred == <<"clear", "gauge", "wsClose",
              "stopKeepalive", "onDisconnect", "connClose">>

Registered(h, d) == \E i \in 1..depth[h] : Deferred[i] = d

(* To the guard, a request holds a slot while its clean-up is registered.  *)
GuardPhase(h) ==
  IF pc[h] = "arrived" THEN "stamped"
  ELSE IF Registered(h, "clear") THEN "holding" ELSE "idle"

Guard == INSTANCE AbuseGuard WITH phase <- [h \in Handler |-> GuardPhase(h)]

-----------------------------------------------------------------------------
Init ==
  /\ clock = 1
  /\ active = 0
  /\ clientConns = [k \in Guard!Key |-> 0]
  /\ windowStart = [k \in Guard!Key |-> 0]
  /\ windowCount = [k \in Guard!Key |-> 0]
  /\ addr = [h \in Handler |-> NoHost]
  /\ stamp = [h \in Handler |-> 1]
  /\ pc = [h \in Handler |-> "idle"]
  /\ depth = [h \in Handler |-> 0]
  /\ socket = [h \in Handler |-> "none"]
  /\ peer = [h \in Handler |-> "none"]
  /\ keeper = [h \in Handler |-> "none"]
  /\ stop = [h \in Handler |-> FALSE]
  /\ hook = [h \in Handler |-> "none"]
  /\ gauge = 0

Goto(h, from, to) ==
  /\ pc[h] = from
  /\ pc' = [pc EXCEPT ![h] = to]

Defer(h, n) == depth' = [depth EXCEPT ![h] = @ + n]

(* A new request.  The goroutine name is only used again once the          *)
(* keepalive goroutine of its last session is gone too; until then another *)
(* name stands for the newcomer.                                           *)
Arrive(h, a) ==
  /\ keeper[h] \in {"none", "done"}
  /\ Goto(h, "idle", "arrived")
  /\ socket' = [socket EXCEPT ![h] = "none"]
  /\ keeper' = [keeper EXCEPT ![h] = "none"]
  /\ stop' = [stop EXCEPT ![h] = FALSE]
  /\ hook' = [hook EXCEPT ![h] = "none"]
  /\ UNCHANGED <<depth, peer, gauge>>
  /\ Guard!Arrive(h, a)

(* The guard refuses: answer 429 and return, with nothing to clean up.     *)
Refuse(h) ==
  /\ Goto(h, "arrived", "idle")
  /\ UNCHANGED <<depth, socket, peer, keeper, stop, hook, gauge>>
  /\ Guard!RejectRate(h) \/ Guard!RejectCap(h)

Reserve(h) ==
  /\ Goto(h, "arrived", "reserved")
  /\ Defer(h, 1)
  /\ UNCHANGED <<socket, peer, keeper, stop, hook, gauge>>
  /\ Guard!Admit(h)

(* Wrong...: plausible bugs in the definition that follows, see README.    *)
WrongUpgradeFailsClears(h) ==
  /\ Goto(h, "reserved", "returning")
  /\ active' = active - 1
  /\ UNCHANGED <<depth, socket, peer, keeper, stop, hook, gauge, clock,
                 clientConns, windowStart, windowCount, addr, stamp>>

(* Upgrade rejects the request (origin, headers, hijack) and the handler   *)
(* returns.                                                                *)
UpgradeFails(h) ==
  /\ Goto(h, "reserved", "returning")
  /\ UNCHANGED <<depth, socket, peer, keeper, stop, hook, gauge, guardVars>>

(* The socket is open, and the client knows it, before the gauge counts it.*)
Upgrade(h) ==
  /\ Goto(h, "reserved", "upgraded")
  /\ socket' = [socket EXCEPT ![h] = "open"]
  /\ peer' = [peer EXCEPT ![h] = "up"]
  /\ UNCHANGED <<depth, keeper, stop, hook, gauge, guardVars>>

CountConnection(h) ==
  /\ Goto(h, "upgraded", "counted")
  /\ gauge' = gauge + 1
  /\ Defer(h, 2)
  /\ UNCHANGED <<socket, peer, keeper, stop, hook, guardVars>>

(* applyBridgeConnectionSettings: setting the read deadline can fail; the  *)
(* keepalive goroutine is only started when it has not.                    *)
SettingsFail(h) ==
  /\ HasIdle
  /\ Goto(h, "counted", "returning")
  /\ UNCHANGED <<depth, socket, peer, keeper, stop, hook, gauge, guardVars>>

ApplySettings(h) ==
  /\ Goto(h, "counted", "onConnect")
  /\ keeper' = [keeper EXCEPT ![h] = IF HasPing THEN "waiting" ELSE "none"]
  /\ Defer(h, 1)
  /\ UNCHANGED <<socket, peer, stop, hook, gauge, guardVars>>

(* The user's hook returns; only now is its counterpart registered.        *)
OnConnectReturns(h) ==
  /\ Goto(h, "onConnect", "serving")
  /\ hook' = [hook EXCEPT ![h] = "connected"]
  /\ Defer(h, 2)
  /\ UNCHANGED <<socket, peer, keeper, stop, gauge, guardVars>>

WrongDefersBeforeHook(h) ==
  /\ Goto(h, "onConnect", "returning")
  /\ Defer(h, 2)
  /\ UNCHANGED <<socket, peer, keeper, stop, hook, gauge, guardVars>>

OnConnectPanics(h) ==
  /\ Goto(h, "onConnect", "returning")
  /\ UNCHANGED <<depth, socket, peer, keeper, stop, hook, gauge, guardVars>>

WrongServeNoDeadline(h) ==
  /\ socket[h] = "closed" \/ peer[h] = "closed"
  /\ Goto(h, "serving", "returning")
  /\ socket' = [socket EXCEPT ![h] = "closed"]
  /\ UNCHANGED <<depth, peer, keeper, stop, hook, gauge, guardVars>>

(* ServeConn returns, and closes its connection, once a read fails: the    *)
(* socket was closed under it, the peer hung up, or the read deadline has  *)
(* passed without a pong.                                                  *)
ServeReturns(h) ==
  /\ \/ socket[h] = "closed"
     \/ peer[h] = "closed"
     \/ HasIdle /\ peer[h] = "silent"
  /\ Goto(h, "serving", "returning")
  /\ socket' = [socket EXCEPT ![h] = "closed"]
  /\ UNCHANGED <<depth, peer, keeper, stop, hook, gauge, guardVars>>

(* ServeConn gives the connection up for an error of its own.              *)
ServeFails(h) ==
  /\ Goto(h, "serving", "returning")
  /\ socket' = [socket EXCEPT ![h] = "closed"]
  /\ UNCHANGED <<depth, peer, keeper, stop, hook, gauge, guardVars>>

-----------------------------------------------------------------------------
(* A returning (or panicking) handler runs its deferred calls.             *)

Unwinds(h, d) ==
  /\ pc[h] = "returning"
  /\ depth[h] > 0
  /\ Deferred[depth[h]] = d
  /\ depth' = [depth EXCEPT ![h] = @ - 1]

WrongCloseNothing(h) == socket' = [socket EXCEPT ![h] = @]

CloseSocket(h) == socket' = [socket EXCEPT ![h] = IF @ = "open" THEN "closed" ELSE @]

DeferredClose(h) ==
  /\ Unwinds(h, "connClose") \/ Unwinds(h, "wsClose")
  /\ CloseSocket(h)
  /\ UNCHANGED <<pc, peer, keeper, stop, hook, gauge, guardVars>>

(* The hook may panic: the remaining deferred calls run all the same.      *)
DeferredOnDisconnect(h) ==
  /\ Unwinds(h, "onDisconnect")
  /\ hook' = [hook EXCEPT ![h] = "disconnected"]
  /\ UNCHANGED <<pc, socket, peer, keeper, stop, gauge, guardVars>>

WrongStopForgotten(h) ==
  /\ Unwinds(h, "stopKeepalive")
  /\ UNCHANGED <<pc, socket, peer, keeper, stop, hook, gauge, guardVars>>

DeferredStopKeepalive(h) ==
  /\ Unwinds(h, "stopKeepalive")
  /\ stop' = [stop EXCEPT ![h] = HasPing]
  /\ UNCHANGED <<pc, socket, peer, keeper, hook, gauge, guardVars>>

DeferredGauge(h) ==
  /\ Unwinds(h, "gauge")
  /\ gauge' = gauge - 1
  /\ UNCHANGED <<pc, socket, peer, keeper, stop, hook, guardVars>>

DeferredClear(h) ==
  /\ Unwinds(h, "clear")
  /\ UNCHANGED <<pc, socket, peer, keeper, stop, hook, gauge>>
  /\ Guard!Release(h)

Return(h) ==
  /\ depth[h] = 0
  /\ Goto(h, "returning", "idle")
  /\ peer' = [peer EXCEPT ![h] = "none"]
  /\ UNCHANGED <<depth, socket, keeper, stop, hook, gauge, guardVars>>

-----------------------------------------------------------------------------
(* The keepalive goroutine: select on the ticker and the stop channel.     *)

KeeperTick(h) ==
  /\ keeper[h] = "waiting"
  /\ keeper' = [keeper EXCEPT ![h] = "pinging"]
  /\ UNCHANGED <<pc, depth, socket, peer, stop, hook, gauge, guardVars>>

KeeperStops(h) ==
  /\ keeper[h] = "waiting"
  /\ stop[h]
  /\ keeper' = [keeper EXCEPT ![h] = "done"]
  /\ UNCHANGED <<pc, depth, socket, peer, stop, hook, gauge, guardVars>>

(* A ping can be written to a silent or departed peer for a while.         *)
PingWritten(h) ==
  /\ keeper[h] = "pinging"
  /\ socket[h] = "open"
  /\ keeper' = [keeper EXCEPT ![h] = "waiting"]
  /\ UNCHANGED <<pc, depth, socket, peer, stop, hook, gauge, guardVars>>

WrongPingContinues(h) ==
  /\ keeper[h] = "pinging"
  /\ socket[h] = "closed" \/ peer[h] # "up"
  /\ keeper' = [keeper EXCEPT ![h] = "waiting"]
  /\ CloseSocket(h)
  /\ UNCHANGED <<pc, depth, peer, stop, hook, gauge, guardVars>>

PingFails(h) ==
  /\ keeper[h] = "pinging"
  /\ socket[h] = "closed" \/ peer[h] # "up"
  /\ keeper' = [keeper EXCEPT ![h] = "done"]
  /\ CloseSocket(h)
  /\ UNCHANGED <<pc, depth, peer, stop, hook, gauge, guardVars>>

-----------------------------------------------------------------------------
(* The other end of the tunnel (external): it hangs up, or falls silent.   *)
(* Once the server's end is closed nothing depends on it any more.         *)
PeerCloses(h) ==
  /\ socket[h] = "open" /\ peer[h] \in {"up", "silent"}
  /\ peer' = [peer EXCEPT ![h] = "closed"]
  /\ UNCHANGED <<pc, depth, socket, keeper, stop, hook, gauge, guardVars>>

PeerFallsSilent(h) ==
  /\ socket[h] = "open" /\ peer[h] = "up"
  /\ peer' = [peer EXCEPT ![h] = "silent"]
  /\ UNCHANGED <<pc, depth, socket, keeper, stop, hook, gauge, guardVars>>

Tick ==
  /\ UNCHANGED <<sessionVars, gauge>>
  /\ Guard!Tick

-----------------------------------------------------------------------------
Unwind(h) ==
  \/ DeferredClose(h) \/ DeferredOnDisconnect(h) \/ DeferredStopKeepalive(h)
  \/ DeferredGauge(h) \/ DeferredClear(h) \/ Return(h)

(* What a handler does as soon as it is scheduled, the hooks included.     *)
HandlerStep(h) ==
  \/ Refuse(h) \/ Reserve(h) \/ UpgradeFails(h) \/ Upgrade(h)
  \/ CountConnection(h) \/ SettingsFail(h) \/ ApplySettings(h)
  \/ OnConnectReturns(h) \/ OnConnectPanics(h)
  \/ ServeReturns(h) \/ Unwind(h)

KeeperStep(h) ==
  KeeperTick(h) \/ KeeperStops(h) \/ PingWritten(h) \/ PingFails(h)

PeerStep(h) == PeerCloses(h) \/ PeerFallsSilent(h)

Next ==
  \/ \E h \in Handler :
       \/ \E a \in Guard!Addr : Arrive(h, a)
       \/ HandlerStep(h) \/ ServeFails(h) \/ KeeperStep(h) \/ PeerStep(h)
  \/ Tick

(* The scheduler runs every goroutine that can run, and the user's hooks   *)
(* return.  Nothing is assumed of peers, of ServeFails or of new requests. *)
Fairness ==
  \A h \in Handler : WF_vars(HandlerStep(h)) /\ WF_vars(KeeperStep(h))

Spec == Init /\ [][Next]_vars /\ Fairness

-----------------------------------------------------------------------------
Holds(h) == Registered(h, "clear")
KeeperRuns(h) == keeper[h] \in {"waiting", "pinging"}

(* Types of the session's own variables and of the guard's.                *)
TypeOK ==
  /\ Guard!TypeOK
  /\ pc \in [Handler -> {"idle", "arrived", "reserved", "upgraded", "counted",
                         "onConnect", "serving", "returning"}]
  /\ depth \in [Handler -> 0..Len(Deferred)]
  /\ socket \in [Handler -> {"none", "open", "closed"}]
  /\ peer \in [Handler -> {"none", "up", "silent", "closed"}]
  /\ keeper \in [Handler -> {"none", "waiting", "pinging", "done"}]
  /\ stop \in [Handler -> BOOLEAN]
  /\ hook \in [Handler -> {"none", "connected", "disconnected"}]
  /\ gauge \in 0..Cardinality(Handler)

(* What the caps are for: the sessions that have an open socket, or that   *)
(* the application was told of and not yet told the end of, stay within    *)
(* the configured numbers, in total and per client.  A slot must therefore *)
(* outlive the socket and the hooks on every way out of the handler.  The  *)
(* gauge an operator watches never exceeds the slots taken, and never      *)
(* falls short of the open sockets but for those just upgraded, which are  *)
(* about to be counted: a socket that is counted stays so until it is      *)
(* closed, and its slot is given back only after that.                     *)
Live == {h \in Handler : socket[h] = "open" \/ hook[h] = "connected"}
SessionsWithinCaps ==
  /\ MaxActiveConnections > 0 => Cardinality(Live) <= MaxActiveConnections
  /\ MaxConnectionsPerClient > 0 =>
       \A k \in Guard!Key :
         Cardinality({h \in Live : Guard!KeyOf(h) = k}) <= MaxConnectionsPerClient
  /\ Cardinality({h \in Handler : socket[h] = "open" /\ pc[h] # "upgraded"}) <= gauge
  /\ gauge <= active

(* A handler that has returned, by whichever path and also after a panic   *)
(* in a hook, leaves nothing behind: its socket is closed, its slot is     *)
(* free, OnDisconnect has run if OnConnect had returned, and a keepalive   *)
(* goroutine that still runs has been told to stop.                        *)
NothingLeftBehind ==
  \A h \in Handler : pc[h] = "idle" =>
    /\ socket[h] # "open"
    /\ ~Holds(h)
    /\ hook[h] # "connected"
    /\ KeeperRuns(h) => stop[h]

(* OnDisconnect is told of a session whose socket is already closed, and   *)
(* never without OnConnect before it.                                      *)
DisconnectIsLast ==
  [][\A h \in Handler : hook'[h] = "disconnected" /\ hook[h] # "disconnected" =>
       hook[h] = "connected" /\ socket[h] = "closed"]_vars

(* The sessions use the guard as it is meant to be used: seen from the     *)
(* guard alone, every run of theirs is a run of AbuseGuard.                *)
ImplementsGuard == Guard!Spec

(* A peer that hangs up gives its slot back in the end, and with a read    *)
(* deadline so does one that merely falls silent.                          *)
SlotsReclaimed ==
  \A h \in Handler :
    peer[h] = "closed" \/ (HasIdle /\ peer[h] = "silent") ~> ~Holds(h)

(* The keepalive goroutine ends once its session has told it to stop, even *)
(* if the ticker keeps winning against the stop channel for a while.       *)
KeeperEnds == \A h \in Handler : stop[h] ~> ~KeeperRuns(h)
=============================================================================
