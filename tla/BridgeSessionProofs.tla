------------------------ MODULE BridgeSessionProofs -------------------------
(***************************************************************************)
(* What holds of the sessions of a handler for any number of requests, any *)
(* limits and any keepalive configuration.                                 *)
(***************************************************************************)
EXTENDS BridgeSession, FiniteSetTheorems, TLAPS

(* How many deferred calls a handler has registered is known from where it *)
(* is, until it returns.                                                   *)
DepthAt(h) ==
  CASE pc[h] = "idle"      -> 0..0
    [] pc[h] = "arrived"   -> 0..0
    [] pc[h] = "reserved"  -> 1..1
    [] pc[h] = "upgraded"  -> 1..1
    [] pc[h] = "counted"   -> 3..3
    [] pc[h] = "onConnect" -> 4..4
    [] pc[h] = "serving"   -> 6..6
    [] OTHER               -> 0..6

Places == {"idle", "arrived", "reserved", "upgraded", "counted",
           "onConnect", "serving", "returning"}

(* What every deferred call still to come has to undo, and nothing else:   *)
(* the socket is open only below wsClose, unless it was upgraded just now, *)
(* and closed above onDisconnect of a handler that returns; the            *)
(* application is told of a session exactly while onDisconnect is pending; *)
(* a keepalive goroutine runs, unless it was told to stop, only below      *)
(* stopKeepalive.                                                          *)
Pending(h) ==
  /\ depth[h] \in DepthAt(h)
  /\ socket[h] = "open" => depth[h] >= 3 \/ pc[h] = "upgraded"
  /\ hook[h] = "connected" <=> depth[h] >= 5
  /\ pc[h] = "returning" /\ depth[h] >= 5 => socket[h] = "closed"
  /\ KeeperRuns(h) => HasPing /\ (stop[h] \/ depth[h] >= 4)
  /\ pc[h] \in {"arrived", "reserved", "upgraded", "counted"} => ~KeeperRuns(h)

SessionInv ==
  /\ pc \in [Handler -> Places]
  /\ depth \in [Handler -> 0..6]
  /\ socket \in [Handler -> {"none", "open", "closed"}]
  /\ keeper \in [Handler -> {"none", "waiting", "pinging", "done"}]
  /\ DOMAIN hook = Handler /\ DOMAIN stop = Handler
  /\ \A h \in Handler : Pending(h)

-----------------------------------------------------------------------------
(* The deferred calls in the order the handler registers them.             *)
LEMMA DeferredOrder ==
  /\ Deferred[1] = "clear" /\ Deferred[2] = "gauge" /\ Deferred[3] = "wsClose"
  /\ Deferred[4] = "stopKeepalive" /\ Deferred[5] = "onDisconnect"
  /\ Deferred[6] = "connClose"
BY DEF Deferred

(* Which call a handler runs next says how many it has left.               *)
LEMMA UnwindDepth ==
  ASSUME NEW h \in Handler, depth[h] \in 0..6, NEW d, Unwinds(h, d)
  PROVE  /\ d = "clear"         => depth[h] = 1
         /\ d = "gauge"         => depth[h] = 2
         /\ d = "wsClose"       => depth[h] = 3
         /\ d = "stopKeepalive" => depth[h] = 4
         /\ d = "onDisconnect"  => depth[h] = 5
         /\ d = "connClose"     => depth[h] = 6
BY DeferredOrder DEF Unwinds

(* At the start no handler has anything to undo.                           *)
LEMMA SessionInit == Init => SessionInv
BY DEF Init, SessionInv, Pending, DepthAt, Places, KeeperRuns

(* On the way in: request, reservation, upgrade, gauge, settings, hook.    *)
LEMMA EnteringStep ==
  ASSUME SessionInv, NEW h \in Handler,
         \/ \E a \in Guard!Addr : Arrive(h, a)
         \/ Refuse(h) \/ Reserve(h) \/ UpgradeFails(h) \/ Upgrade(h) \/ CountConnection(h)
         \/ SettingsFail(h) \/ ApplySettings(h) \/ OnConnectReturns(h) \/ OnConnectPanics(h)
  PROVE  SessionInv'
<1> USE DEF SessionInv, Pending, DepthAt, Places, KeeperRuns, Goto, Defer
<1>1. CASE \E a \in Guard!Addr : Arrive(h, a)
  BY <1>1 DEF Arrive
<1>2. CASE Refuse(h)
  BY <1>2 DEF Refuse
<1>3. CASE Reserve(h)
  BY <1>3 DEF Reserve
<1>4. CASE UpgradeFails(h)
  BY <1>4 DEF UpgradeFails
<1>5. CASE Upgrade(h)
  BY <1>5 DEF Upgrade
<1>6. CASE SettingsFail(h)
  BY <1>6 DEF SettingsFail
<1>7. CASE ApplySettings(h)
  BY <1>7 DEF ApplySettings
<1>8. CASE OnConnectReturns(h)
  BY <1>8 DEF OnConnectReturns
<1>9. CASE OnConnectPanics(h)
  BY <1>9 DEF OnConnectPanics
<1>10. CASE CountConnection(h)
  BY <1>10 DEF CountConnection
<1> QED
  BY <1>1, <1>2, <1>3, <1>4, <1>5, <1>6, <1>7, <1>8, <1>9, <1>10

(* On the way out: ServeConn returns and the deferred calls run.           *)
LEMMA LeavingStep ==
  ASSUME SessionInv, NEW h \in Handler, ServeReturns(h) \/ ServeFails(h) \/ Unwind(h)
  PROVE  SessionInv'
<1>0. depth[h] \in 0..6
  BY DEF SessionInv
<1> USE DEF SessionInv, Pending, DepthAt, Places, KeeperRuns, Goto, CloseSocket
<1>1. CASE ServeReturns(h)
  BY <1>1 DEF ServeReturns
<1>2. CASE ServeFails(h)
  BY <1>2 DEF ServeFails
<1>3. CASE DeferredClose(h)
  <2>1. depth[h] = 6 \/ depth[h] = 3
    BY <1>0, <1>3, UnwindDepth DEF DeferredClose
  <2> QED
    BY <1>3, <2>1 DEF DeferredClose, Unwinds
<1>4. CASE DeferredOnDisconnect(h)
  <2>1. depth[h] = 5
    BY <1>0, <1>4, UnwindDepth DEF DeferredOnDisconnect
  <2> QED
    BY <1>4, <2>1 DEF DeferredOnDisconnect, Unwinds
<1>5. CASE DeferredStopKeepalive(h)
  <2>1. depth[h] = 4
    BY <1>0, <1>5, UnwindDepth DEF DeferredStopKeepalive
  <2> QED
    BY <1>5, <2>1 DEF DeferredStopKeepalive, Unwinds
<1>6. CASE DeferredGauge(h)
  <2>1. depth[h] = 2
    BY <1>0, <1>6, UnwindDepth DEF DeferredGauge
  <2> QED
    BY <1>6, <2>1 DEF DeferredGauge, Unwinds
<1>7. CASE DeferredClear(h)
  <2>1. depth[h] = 1
    BY <1>0, <1>7, UnwindDepth DEF DeferredClear
  <2> QED
    BY <1>7, <2>1 DEF DeferredClear, Unwinds
<1>8. CASE Return(h)
  BY <1>8 DEF Return
<1> QED
  BY <1>1, <1>2, <1>3, <1>4, <1>5, <1>6, <1>7, <1>8 DEF Unwind

(* The keepalive goroutine can close the socket at any time and never      *)
(* starts again; the peer and the clock touch nothing of the session.      *)
LEMMA KeeperOrPeerStep ==
  ASSUME SessionInv, NEW h \in Handler, KeeperStep(h) \/ PeerStep(h)
  PROVE  SessionInv'
<1> USE DEF SessionInv, Pending, DepthAt, Places, KeeperRuns, CloseSocket
<1>1. CASE KeeperTick(h)
  BY <1>1 DEF KeeperTick
<1>2. CASE KeeperStops(h)
  BY <1>2 DEF KeeperStops
<1>3. CASE PingWritten(h)
  BY <1>3 DEF PingWritten
<1>4. CASE PingFails(h)
  BY <1>4 DEF PingFails
<1>5. CASE PeerStep(h)
  BY <1>5 DEF PeerStep, PeerCloses, PeerFallsSilent
<1> QED
  BY <1>1, <1>2, <1>3, <1>4, <1>5 DEF KeeperStep

(* Each step of a handler registers what it must undo or undoes the last   *)
(* thing registered; steps of the peer and the application change neither. *)
LEMMA SessionStep == SessionInv /\ [Next]_vars => SessionInv'
<1> SUFFICES ASSUME SessionInv, [Next]_vars PROVE SessionInv'
  OBVIOUS
<1>1. ASSUME NEW h \in Handler,
             \/ \E a \in Guard!Addr : Arrive(h, a)
             \/ HandlerStep(h) \/ ServeFails(h) \/ KeeperStep(h) \/ PeerStep(h)
      PROVE  SessionInv'
  BY <1>1, EnteringStep, LeavingStep, KeeperOrPeerStep DEF HandlerStep
<1>2. CASE Tick
  BY <1>2 DEF Tick, sessionVars, SessionInv, Pending, DepthAt, KeeperRuns
<1>3. CASE UNCHANGED vars
  BY <1>3 DEF vars, SessionInv, Pending, DepthAt, KeeperRuns
<1> QED
  BY <1>1, <1>2, <1>3 DEF Next

(* So in every reachable state a handler's pending calls match its socket, *)
(* hook and keepalive goroutine.                                           *)
LEMMA SessionInvHolds == Spec => []SessionInv
BY SessionInit, SessionStep, PTL DEF Spec

(* A handler that has returned leaves no open socket, no slot, no session  *)
(* the application was not told the end of and no keepalive goroutine that *)
(* was not told to stop, whichever of its early returns or panics it took. *)
THEOREM NothingLeft == Spec => []NothingLeftBehind
<1>1. SessionInv => NothingLeftBehind
  BY DEF SessionInv, Pending, DepthAt, NothingLeftBehind, Holds, Registered
<1> QED
  BY <1>1, SessionInvHolds, PTL

-----------------------------------------------------------------------------
(* Only the deferred call sets a hook to "disconnected".                   *)
LEMMA DisconnectIsDeferred ==
  ASSUME SessionInv, [Next]_vars, NEW h \in Handler,
         hook'[h] = "disconnected", hook[h] # "disconnected"
  PROVE  DeferredOnDisconnect(h)
<1> USE DEF SessionInv
<1>1. ASSUME NEW g \in Handler, \E a \in Guard!Addr : Arrive(g, a)
      PROVE  FALSE
  BY <1>1 DEF Arrive
<1>2. ASSUME NEW g \in Handler, HandlerStep(g)
      PROVE  DeferredOnDisconnect(h)
  <2>1. CASE OnConnectReturns(g)
    BY <2>1 DEF OnConnectReturns
  <2>2. CASE DeferredOnDisconnect(g)
    BY <2>2 DEF DeferredOnDisconnect
  <2>3. CASE ~OnConnectReturns(g) /\ ~DeferredOnDisconnect(g)
    BY <1>2, <2>3 DEF HandlerStep, Refuse, Reserve, UpgradeFails, Upgrade, CountConnection,
       SettingsFail, ApplySettings, OnConnectPanics, ServeReturns, Unwind, DeferredClose,
       DeferredStopKeepalive, DeferredGauge, DeferredClear, Return
  <2> QED
    BY <2>1, <2>2, <2>3
<1>3. ASSUME NEW g \in Handler, ServeFails(g) \/ KeeperStep(g) \/ PeerStep(g)
      PROVE  FALSE
  BY <1>3 DEF ServeFails, KeeperStep, KeeperTick, KeeperStops, PingWritten, PingFails,
     PeerStep, PeerCloses, PeerFallsSilent
<1>4. CASE Tick
  BY <1>4 DEF Tick, sessionVars
<1>5. CASE UNCHANGED vars
  BY <1>5 DEF vars
<1> QED
  BY <1>1, <1>2, <1>3, <1>4, <1>5 DEF Next

(* OnDisconnect is called once the session's socket is closed, and only    *)
(* when OnConnect had returned.                                            *)
THEOREM DisconnectLast == Spec => DisconnectIsLast
<1>1. ASSUME SessionInv, [Next]_vars, NEW h \in Handler,
             hook'[h] = "disconnected", hook[h] # "disconnected"
      PROVE  hook[h] = "connected" /\ socket[h] = "closed"
  <2>1. Unwinds(h, "onDisconnect") /\ depth[h] \in 0..6 /\ Pending(h)
    BY <1>1, DisconnectIsDeferred DEF DeferredOnDisconnect, SessionInv
  <2>2. depth[h] = 5 /\ pc[h] = "returning"
    BY <2>1, UnwindDepth DEF Unwinds
  <2> QED
    BY <2>1, <2>2 DEF Pending
<1>2. SessionInv /\ [Next]_vars =>
        [\A h \in Handler : hook'[h] = "disconnected" /\ hook[h] # "disconnected" =>
           hook[h] = "connected" /\ socket[h] = "closed"]_vars
  BY <1>1
<1> QED
  BY <1>2, SessionInvHolds, PTL DEF Spec, DisconnectIsLast

-----------------------------------------------------------------------------
(* The sessions use the admission guard as AbuseGuard specifies; so what   *)
(* is proved of the guard alone holds of it among the sessions, and the    *)
(* caps and the gauge are true of what the application sees.               *)

(* The guard's own theorems, for the guard the sessions share.  Those that *)
(* are cited do not speak of the record of attempts, so it does not matter *)
(* what stands for it.                                                     *)
GP == INSTANCE AbuseGuardProofs WITH phase <- [h \in Handler |-> GuardPhase(h)],
                                     bookedSince <- windowCount

phases == [h \in Handler |-> GuardPhase(h)]

(* To the guard a session is what its deferred calls say it is.            *)
PhasesMatch ==
  \A h \in Handler :
    GuardPhase(h) = IF pc[h] = "arrived" THEN "stamped"
                    ELSE IF depth[h] >= 1 THEN "holding" ELSE "idle"

(* A slot is held exactly while the call that clears it is pending.        *)
LEMMA PhaseFromDepth == SessionInv => PhasesMatch
<1> SUFFICES ASSUME SessionInv, NEW h \in Handler
             PROVE  GuardPhase(h) = IF pc[h] = "arrived" THEN "stamped"
                                    ELSE IF depth[h] >= 1 THEN "holding" ELSE "idle"
  BY DEF PhasesMatch
<1>1. Registered(h, "clear") <=> depth[h] >= 1
  BY DeferredOrder DEF Registered, SessionInv
<1> QED
  BY <1>1 DEF GuardPhase

(* The steps that are not the guard's leave it alone.                      *)
LEMMA GuardUntouched ==
  ASSUME SessionInv, SessionInv', NEW h \in Handler,
         \/ UpgradeFails(h) \/ Upgrade(h) \/ CountConnection(h)
         \/ SettingsFail(h) \/ ApplySettings(h)
         \/ OnConnectReturns(h) \/ OnConnectPanics(h) \/ ServeReturns(h) \/ ServeFails(h)
         \/ DeferredClose(h) \/ DeferredOnDisconnect(h) \/ DeferredStopKeepalive(h)
         \/ DeferredGauge(h) \/ Return(h) \/ KeeperStep(h) \/ PeerStep(h)
  PROVE  UNCHANGED <<guardVars, phases>>
<1>1. UNCHANGED guardVars
  BY DEF UpgradeFails, Upgrade, CountConnection, SettingsFail, ApplySettings,
     OnConnectReturns, OnConnectPanics, ServeReturns, ServeFails, DeferredClose, DeferredOnDisconnect,
     DeferredStopKeepalive, DeferredGauge, Return, KeeperStep, KeeperTick, KeeperStops,
     PingWritten, PingFails, PeerStep, PeerCloses, PeerFallsSilent
<1>2. /\ pc[h] = "arrived" <=> pc'[h] = "arrived"
      /\ depth[h] >= 1 <=> depth'[h] >= 1
      /\ \A g \in Handler \ {h} : pc'[g] = pc[g] /\ depth'[g] = depth[g]
  <2>1. CASE KeeperStep(h) \/ PeerStep(h)
    BY <2>1 DEF KeeperStep, KeeperTick, KeeperStops, PingWritten, PingFails,
       PeerStep, PeerCloses, PeerFallsSilent
  <2>2. CASE \/ UpgradeFails(h) \/ Upgrade(h) \/ CountConnection(h)
             \/ SettingsFail(h) \/ ApplySettings(h)
             \/ OnConnectReturns(h) \/ OnConnectPanics(h)
             \/ ServeReturns(h) \/ ServeFails(h) \/ Return(h)
    BY <2>2 DEF UpgradeFails, Upgrade, CountConnection, SettingsFail, ApplySettings,
       OnConnectReturns, OnConnectPanics, ServeReturns, ServeFails, Return, Goto, Defer,
       SessionInv, Pending, DepthAt, Places
  <2>3. CASE \/ DeferredClose(h) \/ DeferredOnDisconnect(h)
             \/ DeferredStopKeepalive(h) \/ DeferredGauge(h)
    <3>1. PICK d \in {"connClose", "wsClose", "onDisconnect", "stopKeepalive", "gauge"} :
            Unwinds(h, d) /\ pc' = pc
      BY <2>3 DEF DeferredClose, DeferredOnDisconnect, DeferredStopKeepalive, DeferredGauge
    <3>2. depth[h] \in 2..6
      BY <3>1, UnwindDepth DEF SessionInv
    <3> QED
      BY <3>1, <3>2 DEF Unwinds, SessionInv
  <2> QED
    BY <2>1, <2>2, <2>3
<1>3. PhasesMatch /\ PhasesMatch'
  BY PhaseFromDepth, PTL
<1>4. \A g \in Handler : GuardPhase(g)' = GuardPhase(g)
  BY <1>2, <1>3 DEF PhasesMatch
<1> QED
  BY <1>1, <1>4 DEF phases

(* The sessions start with the guard as it starts.                         *)
LEMMA GuardInit == Init => Guard!Init
<1>1. Init => \A h \in Handler : GuardPhase(h) = "idle"
  BY DEF Init, GuardPhase, Registered
<1> QED
  BY <1>1 DEF Init, Guard!Init

(* Each step of a session is a step of the guard or none of its business.  *)
LEMMA GuardStep == SessionInv /\ [Next]_vars => [Guard!Next]_(Guard!vars)
<1> SUFFICES ASSUME SessionInv, [Next]_vars PROVE [Guard!Next]_(Guard!vars)
  OBVIOUS
<1>0. SessionInv'
  BY SessionStep
<1>1. ASSUME NEW h \in Handler, NEW a \in Guard!Addr, Arrive(h, a)
      PROVE  Guard!Next
  BY <1>1 DEF Arrive, Guard!Next
<1>2. ASSUME NEW h \in Handler, Refuse(h) \/ Reserve(h) \/ DeferredClear(h)
      PROVE  Guard!Next
  BY <1>2 DEF Refuse, Reserve, DeferredClear, Guard!Next
<1>3. CASE Tick
  BY <1>3 DEF Tick, Guard!Next
<1>4. CASE UNCHANGED <<guardVars, phases>>
  BY <1>4 DEF phases, guardVars, Guard!vars
<1>5. CASE UNCHANGED vars
  BY <1>5, <1>4 DEF vars, phases, guardVars, GuardPhase, Registered
<1> QED
  BY <1>0, <1>1, <1>2, <1>3, <1>4, <1>5, GuardUntouched
     DEF Next, HandlerStep, Unwind

(* The sessions use the admission guard as AbuseGuard specifies: reserve   *)
(* once, before the upgrade, and clear once, after everything else.        *)
THEOREM UsesGuard == Spec => ImplementsGuard
BY GuardInit, GuardStep, SessionInvHolds, PTL DEF Spec, ImplementsGuard, Guard!Spec

-----------------------------------------------------------------------------
(* The sessions the gauge counts.                                          *)
Gauged == {h \in Handler : depth[h] >= 2}

GaugeInv == gauge = Cardinality(Gauged)

(* There are finitely many handlers, so those the gauge counts can be      *)
(* counted.                                                                *)
LEMMA GaugedFinite == IsFiniteSet(Gauged) /\ IsFiniteSet(Gauged')
BY SessionAssumption, FS_Subset DEF Gauged

(* At the start the gauge counts nobody.                                   *)
LEMMA GaugeInit == Init => GaugeInv
<1>1. Init => Gauged = {}
  BY DEF Init, Gauged
<1> QED
  BY <1>1, FS_EmptySet DEF GaugeInv, Init

(* Only counting and its deferred counterpart cross the depth of 2.        *)
LEMMA GaugeUntouched ==
  ASSUME SessionInv, SessionInv', NEW h \in Handler,
         \/ \E a \in Guard!Addr : Arrive(h, a)
         \/ HandlerStep(h) /\ ~CountConnection(h) /\ ~DeferredGauge(h)
         \/ ServeFails(h) \/ KeeperStep(h) \/ PeerStep(h)
  PROVE  gauge' = gauge /\ Gauged' = Gauged
<1>1. CASE KeeperStep(h) \/ PeerStep(h) \/ \E a \in Guard!Addr : Arrive(h, a)
  BY <1>1 DEF KeeperStep, KeeperTick, KeeperStops, PingWritten, PingFails,
     PeerStep, PeerCloses, PeerFallsSilent, Arrive, Gauged
<1>2. CASE \/ Refuse(h) \/ Reserve(h) \/ UpgradeFails(h) \/ Upgrade(h) \/ SettingsFail(h)
           \/ ApplySettings(h) \/ OnConnectReturns(h) \/ OnConnectPanics(h)
           \/ ServeReturns(h) \/ ServeFails(h) \/ Return(h)
  <2>1. gauge' = gauge
    BY <1>2 DEF Refuse, Reserve, UpgradeFails, Upgrade, SettingsFail, ApplySettings,
       OnConnectReturns, OnConnectPanics, ServeReturns, ServeFails, Return
  <2>2. depth' = depth \/ \E n \in 1..2 : Defer(h, n)
    BY <1>2 DEF Refuse, Reserve, UpgradeFails, Upgrade, SettingsFail, ApplySettings,
       OnConnectReturns, OnConnectPanics, ServeReturns, ServeFails, Return
  <2>3. depth[h] >= 2 <=> depth'[h] >= 2
    BY <1>2 DEF Refuse, Reserve, UpgradeFails, Upgrade, SettingsFail, ApplySettings,
       OnConnectReturns, OnConnectPanics, ServeReturns, ServeFails, Return,
       Goto, Defer, SessionInv, Pending, DepthAt, Places
  <2>4. \A g \in Handler : depth[g] >= 2 <=> depth'[g] >= 2
    BY <2>2, <2>3 DEF Defer, SessionInv
  <2> QED
    BY <2>1, <2>4 DEF Gauged
<1>3. CASE \/ DeferredClose(h) \/ DeferredOnDisconnect(h)
           \/ DeferredStopKeepalive(h) \/ DeferredClear(h)
  <2>1. PICK d \in {"connClose", "wsClose", "onDisconnect", "stopKeepalive", "clear"} :
          Unwinds(h, d) /\ gauge' = gauge
    BY <1>3 DEF DeferredClose, DeferredOnDisconnect, DeferredStopKeepalive, DeferredClear
  <2>2. depth[h] \in (0..6) \ {2}
    BY <2>1, UnwindDepth DEF SessionInv
  <2> QED
    BY <2>1, <2>2 DEF Unwinds, SessionInv, Gauged
<1> QED
  BY <1>1, <1>2, <1>3 DEF HandlerStep, Unwind

(* The gauge moves up once per upgrade and down with its deferred call.    *)
LEMMA GaugeStep == SessionInv /\ GaugeInv /\ [Next]_vars => GaugeInv'
<1> SUFFICES ASSUME SessionInv, GaugeInv, [Next]_vars PROVE GaugeInv'
  OBVIOUS
<1>0. SessionInv'
  BY SessionStep
<1>1. ASSUME NEW h \in Handler, CountConnection(h) PROVE GaugeInv'
  <2>1. h \notin Gauged
    BY <1>1 DEF CountConnection, Goto, SessionInv, Pending, DepthAt, Gauged
  <2>2. Gauged' = Gauged \cup {h}
    BY <1>1 DEF CountConnection, Goto, Defer, SessionInv, Pending, DepthAt, Gauged
  <2> QED
    BY <1>1, <2>1, <2>2, GaugedFinite, FS_AddElement DEF CountConnection, GaugeInv
<1>2. ASSUME NEW h \in Handler, DeferredGauge(h) PROVE GaugeInv'
  <2>1. depth[h] = 2 /\ Unwinds(h, "gauge")
    BY <1>2, UnwindDepth DEF DeferredGauge, SessionInv
  <2>2. h \in Gauged /\ Gauged' = Gauged \ {h}
    BY <2>1 DEF Unwinds, SessionInv, Gauged
  <2> QED
    BY <1>2, <2>2, GaugedFinite, FS_RemoveElement DEF DeferredGauge, GaugeInv
<1>3. ASSUME gauge' = gauge, Gauged' = Gauged PROVE GaugeInv'
  BY <1>3 DEF GaugeInv
<1>4. CASE Tick \/ UNCHANGED vars
  BY <1>3, <1>4 DEF Tick, sessionVars, vars, Gauged
<1> QED
  BY <1>0, <1>1, <1>2, <1>3, <1>4, GaugeUntouched DEF Next

-----------------------------------------------------------------------------
(* GP's guard is the session's guard.                                      *)
LEMMA GuardAssumed == GP!GuardAssumption
BY SessionAssumption DEF GP!IsFiniteSet, IsFiniteSet

(* The guard's theorems are about the same initial states.                 *)
LEMMA SameInit == Guard!Init => GP!Init
BY DEF GP!Init, Guard!Init, GP!Key, Guard!Key

(* And about the same steps.                                               *)
LEMMA SameStep == [Guard!Next]_(Guard!vars) => [GP!Next]_(GP!vars)
<1>1. GP!vars = Guard!vars /\ GP!vars' = Guard!vars'
  BY DEF GP!vars, Guard!vars
<1>2. GP!Next <=> Guard!Next
  BY DEF GP!Next, Guard!Next, GP!Arrive, Guard!Arrive, GP!RejectRate, Guard!RejectRate,
     GP!RejectCap, Guard!RejectCap, GP!Admit, Guard!Admit, GP!Release, Guard!Release,
     GP!Tick, Guard!Tick, GP!RateExceeded, Guard!RateExceeded, GP!AttemptsInWindow,
     Guard!AttemptsInWindow, GP!WindowExpired, Guard!WindowExpired, GP!KeyOf, Guard!KeyOf,
     GP!ClientKey, Guard!ClientKey, GP!Leaves, Guard!Leaves, GP!guardVars, Guard!guardVars,
     GP!ActiveCapReached, Guard!ActiveCapReached, GP!ClientCapReached,
     Guard!ClientCapReached, GP!CountAttempt, Guard!CountAttempt, GP!TakeSlot,
     Guard!TakeSlot, GP!ReturnSlot, Guard!ReturnSlot, GP!Addr, Guard!Addr
<1> QED
  BY <1>1, <1>2

(* What is proved of the guard alone is true of the one the sessions share.*)
GuardBooks ==
  /\ active = Cardinality(Guard!Holders)
  /\ MaxActiveConnections > 0 => Cardinality(Guard!Holders) <= MaxActiveConnections
  /\ MaxConnectionsPerClient > 0 =>
       \A k \in Guard!Key : Cardinality(Guard!HoldersOf(k)) <= MaxConnectionsPerClient

(* So the guard's theorems hold of the guard among the sessions.           *)
LEMMA BooksKept == Spec => []GuardBooks
<1>1. Spec => GP!Spec
  <2>1. Init => GP!Init
    BY GuardInit, SameInit
  <2>2. SessionInv /\ [Next]_vars => [GP!Next]_(GP!vars)
    BY GuardStep, SameStep
  <2> QED
    BY <2>1, <2>2, SessionInvHolds, PTL DEF Spec, GP!Spec
<1>2. GP!Spec => []GP!SlotsMatchHolders
  BY GuardAssumed, GP!SlotsExact
<1>3. GP!Spec => []GP!CapsRespected
  BY GuardAssumed, GP!CapsHold
<1>4. GP!SlotsMatchHolders /\ GP!CapsRespected => GuardBooks
  <2>1. \A S : GP!Cardinality(S) = Cardinality(S)
    BY DEF Cardinality, GP!Cardinality
  <2>2. /\ GP!Holders = Guard!Holders
        /\ GP!Key = Guard!Key
        /\ \A k : GP!HoldersOf(k) = Guard!HoldersOf(k)
    BY DEF GP!Holders, Guard!Holders, GP!Key, Guard!Key, GP!HoldersOf, Guard!HoldersOf,
       GP!KeyOf, Guard!KeyOf, GP!ClientKey, Guard!ClientKey
  <2> QED
    BY <2>1, <2>2 DEF GP!SlotsMatchHolders, GP!CapsRespected, GuardBooks
<1> QED
  BY <1>1, <1>2, <1>3, <1>4, PTL

(* Whoever is live to the application holds a slot, and is booked under    *)
(* its own key.                                                            *)
LEMMA LiveHold ==
  ASSUME SessionInv
  PROVE  /\ Live \subseteq Guard!Holders
         /\ \A k : {h \in Live : Guard!KeyOf(h) = k} \subseteq Guard!HoldersOf(k)
         /\ {h \in Handler : socket[h] = "open" /\ pc[h] # "upgraded"} \subseteq Gauged
         /\ Gauged \subseteq Guard!Holders
<1>1. \A h \in Handler : depth[h] >= 1 => h \in Guard!Holders
  BY PhaseFromDepth DEF PhasesMatch, SessionInv, Pending, DepthAt, Guard!Holders
<1>2. \A h \in Handler : socket[h] = "open" \/ hook[h] = "connected" => depth[h] >= 1
  BY DEF SessionInv, Pending, DepthAt
<1>3. \A h \in Handler : socket[h] = "open" /\ pc[h] # "upgraded" => depth[h] >= 2
  BY DEF SessionInv, Pending
<1>4. \A h \in Handler : depth[h] >= 2 => depth[h] >= 1
  BY DEF SessionInv
<1> QED
  BY <1>1, <1>2, <1>3, <1>4 DEF Live, Gauged, Guard!HoldersOf

(* The sessions that are open or that the application takes for connected  *)
(* stay within the configured caps, and the gauge between the open sockets *)
(* already counted and the slots taken: the deferred calls give the slot   *)
(* back last.                                                              *)
THEOREM SessionsCapped == Spec => []SessionsWithinCaps
<1>1. Spec => []GaugeInv
  BY GaugeInit, GaugeStep, SessionInvHolds, PTL DEF Spec
<1>2. SessionInv /\ GaugeInv /\ GuardBooks => SessionsWithinCaps
  <2> SUFFICES ASSUME SessionInv, GaugeInv, GuardBooks PROVE SessionsWithinCaps
    OBVIOUS
  <2>1. IsFiniteSet(Guard!Holders) /\ \A k : IsFiniteSet(Guard!HoldersOf(k))
    BY SessionAssumption, FS_Subset DEF Guard!Holders, Guard!HoldersOf
  <2>2. ASSUME NEW S, NEW T, IsFiniteSet(T), S \subseteq T
        PROVE  /\ Cardinality(S) <= Cardinality(T)
               /\ Cardinality(S) \in Nat /\ Cardinality(T) \in Nat
    BY <2>2, FS_Subset, FS_CardinalityType
  <2>3. Cardinality({h \in Handler : socket[h] = "open" /\ pc[h] # "upgraded"}) <= gauge /\ gauge <= active
    BY <2>1, <2>2, GaugedFinite, LiveHold DEF GaugeInv, GuardBooks
  <2>4. MaxActiveConnections > 0 => Cardinality(Live) <= MaxActiveConnections
    BY <2>1, <2>2, LiveHold, SessionAssumption DEF GuardBooks
  <2>5. ASSUME MaxConnectionsPerClient > 0, NEW k \in Guard!Key
        PROVE  Cardinality({h \in Live : Guard!KeyOf(h) = k}) <= MaxConnectionsPerClient
    <3>1. Cardinality({h \in Live : Guard!KeyOf(h) = k}) <= Cardinality(Guard!HoldersOf(k))
      BY <2>1, <2>2, LiveHold
    <3>2. /\ Cardinality({h \in Live : Guard!KeyOf(h) = k}) \in Nat
          /\ Cardinality(Guard!HoldersOf(k)) \in Nat
      BY <2>1, <2>2, LiveHold
    <3> QED
      BY <2>5, <3>1, <3>2, SessionAssumption DEF GuardBooks
  <2> QED
    BY <2>3, <2>4, <2>5 DEF SessionsWithinCaps
<1> QED
  BY <1>1, <1>2, BooksKept, SessionInvHolds, PTL
=============================================================================
