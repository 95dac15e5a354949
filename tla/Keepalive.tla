----------------------------- MODULE Keepalive ------------------------------
(***************************************************************************)
(* The timing of one session's keepalive: the read deadline and the ping   *)
(* goroutine set up by applyBridgeConnectionSettings                       *)
(* (pkg/grpctunnel/server.go) and applyHandlerConnectionSettings           *)
(* (pkg/bridge/bridge.go).  Time is discrete and kept as countdowns, so    *)
(* nothing has to be bounded by the length of a run.                       *)
(*                                                                         *)
(* The configuration and the behaviour of the surroundings are chosen once *)
(* (cfg, env) and stay as they are.  The specification has names of its    *)
(* own, so that a module may extend it together with Setup.                *)
(***************************************************************************)
EXTENDS Integers

CONSTANTS
  MaxInterval,  \* bound: longest PingInterval and IdleTimeout, in ticks
  MaxRtt,       \* bound: longest time from a ping to its pong
  MaxBusy,      \* bound: longest time a message write holds the write lock
  MaxHook       \* bound: longest time OnConnect takes

ASSUME KeepaliveAssumption ==
  MaxInterval \in Nat /\ MaxRtt \in Nat /\ MaxBusy \in Nat /\ MaxHook \in Nat

VARIABLES
  cfg,        \* PingInterval and IdleTimeout; 0 means not set
  env,        \* does the peer answer pings, and how slow is everything
  conn,       \* "open", or the reason the session ended
  reading,    \* ServeConn is reading; before that OnConnect runs
  hookFor,    \* how long OnConnect has been running
  idleLeft,   \* ticks left until the read deadline
  tickLeft,   \* ticks left until the ticker fires
  tickReady,  \* the ticker's channel, which holds at most one tick
  keeper,     \* the goroutine: waiting for a tick, or for the write lock
  writeLeft,  \* ticks left until the ping's write deadline
  busy,       \* a message write holds the write lock
  busyFor,    \* for how long
  pongs,      \* ages of the pings whose pong is still to arrive
  pongHere,   \* a pong has arrived and waits to be read
  quietFor    \* ticks since the peer's last frame of any kind was read

timing == <<cfg, env, conn, reading, hookFor, idleLeft, tickLeft, tickReady,
            keeper, writeLeft, busy, busyFor, pongs, pongHere, quietFor>>

(* The keepalive part of GetBridgeConfigError.                             *)
ValidConfig(c) ==
  /\ c.PingInterval >= 0
  /\ c.IdleTimeout >= 0
  /\ c.IdleTimeout > 0 => c.PingInterval > 0 /\ c.PingInterval < c.IdleTimeout

Configs == [PingInterval : 0..MaxInterval, IdleTimeout : 0..MaxInterval]
Envs == [answers : BOOLEAN, rtt : 0..MaxRtt, busy : 0..MaxBusy, hook : 0..MaxHook]

(* How long a ping may wait for the write lock.                            *)
PingWriteTimeout ==
  IF cfg.IdleTimeout > 0 /\ cfg.PingInterval > cfg.IdleTimeout
    THEN cfg.IdleTimeout ELSE cfg.PingInterval

HasPing == cfg.PingInterval > 0
HasIdle == cfg.IdleTimeout > 0

Down(n) == IF n > 0 THEN n - 1 ELSE 0
Up(n) == IF n <= MaxInterval THEN n + 1 ELSE n   \* saturates above any deadline

-----------------------------------------------------------------------------
TimingInit ==
  /\ cfg \in {c \in Configs : ValidConfig(c)}
  /\ env \in Envs
  /\ conn = "open"
  /\ reading = FALSE
  /\ hookFor = 0
  /\ idleLeft = cfg.IdleTimeout
  /\ tickLeft = cfg.PingInterval
  /\ tickReady = FALSE
  /\ keeper = "waiting"
  /\ writeLeft = 0
  /\ busy = FALSE
  /\ busyFor = 0
  /\ pongs = {}
  /\ pongHere = FALSE
  /\ quietFor = 0

(* OnConnect returns and ServeConn starts to read.                         *)
HookReturns ==
  /\ conn = "open" /\ ~reading
  /\ reading' = TRUE
  /\ UNCHANGED <<cfg, env, conn, hookFor, idleLeft, tickLeft, tickReady, keeper,
                 writeLeft, busy, busyFor, pongs, pongHere, quietFor>>

DeadlinePassed == HasIdle /\ idleLeft = 0

(* A read after the deadline fails, whatever has arrived in the meantime.  *)
ReadTimesOut ==
  /\ conn = "open" /\ reading
  /\ DeadlinePassed
  /\ conn' = "timedOut"
  /\ UNCHANGED <<cfg, env, reading, hookFor, idleLeft, tickLeft, tickReady, keeper,
                 writeLeft, busy, busyFor, pongs, pongHere, quietFor>>

(* Wrong...: plausible bugs in the definition that follows, see README.    *)
WrongPongKeepsDeadline ==
  /\ conn = "open" /\ reading
  /\ pongHere
  /\ ~DeadlinePassed
  /\ pongHere' = FALSE
  /\ quietFor' = 0
  /\ UNCHANGED <<cfg, env, conn, reading, hookFor, idleLeft, tickLeft, tickReady,
                 keeper, writeLeft, busy, busyFor, pongs>>

(* The pong handler moves the read deadline.                               *)
ReadPong ==
  /\ conn = "open" /\ reading
  /\ pongHere
  /\ ~DeadlinePassed
  /\ pongHere' = FALSE
  /\ idleLeft' = cfg.IdleTimeout
  /\ quietFor' = 0
  /\ UNCHANGED <<cfg, env, conn, reading, hookFor, tickLeft, tickReady, keeper,
                 writeLeft, busy, busyFor, pongs>>

(* A frame with the peer's data is read: no code moves the deadline then.  *)
ReadData ==
  /\ conn = "open" /\ reading
  /\ ~DeadlinePassed
  /\ quietFor' = 0
  /\ UNCHANGED <<cfg, env, conn, reading, hookFor, idleLeft, tickLeft, tickReady,
                 keeper, writeLeft, busy, busyFor, pongs, pongHere>>

(* select <-ticker.C: the goroutine asks for the write lock.               *)
KeeperTick ==
  /\ conn = "open"
  /\ keeper = "waiting" /\ tickReady
  /\ keeper' = "pinging"
  /\ tickReady' = FALSE
  /\ writeLeft' = PingWriteTimeout
  /\ UNCHANGED <<cfg, env, conn, reading, hookFor, idleLeft, tickLeft,
                 busy, busyFor, pongs, pongHere, quietFor>>

WrongPingMovesDeadline ==
  /\ conn = "open"
  /\ keeper = "pinging" /\ ~busy
  /\ keeper' = "waiting"
  /\ idleLeft' = cfg.IdleTimeout
  /\ pongs' = IF env.answers THEN pongs \cup {0} ELSE pongs
  /\ UNCHANGED <<cfg, env, conn, reading, hookFor, tickLeft, tickReady,
                 writeLeft, busy, busyFor, pongHere, quietFor>>

PingWritten ==
  /\ conn = "open"
  /\ keeper = "pinging" /\ ~busy
  /\ keeper' = "waiting"
  /\ pongs' = IF env.answers THEN pongs \cup {0} ELSE pongs
  /\ UNCHANGED <<cfg, env, conn, reading, hookFor, idleLeft, tickLeft, tickReady,
                 writeLeft, busy, busyFor, pongHere, quietFor>>

(* The write deadline passes before the lock is free: the goroutine closes *)
(* the WebSocket and ends.                                                 *)
PingTimesOut ==
  /\ conn = "open"
  /\ keeper = "pinging" /\ busy /\ writeLeft = 0
  /\ conn' = "pingFailed"
  /\ UNCHANGED <<cfg, env, reading, hookFor, idleLeft, tickLeft, tickReady, keeper,
                 writeLeft, busy, busyFor, pongs, pongHere, quietFor>>

(* The session's own writes (external: http2 over webSocketConn.Write).    *)
(* The lock is handed to a waiting ping before the next message gets it.   *)
WriteStarts ==
  /\ conn = "open" /\ reading
  /\ env.busy > 0 /\ ~busy /\ keeper = "waiting"
  /\ busy' = TRUE
  /\ busyFor' = 0
  /\ UNCHANGED <<cfg, env, conn, reading, hookFor, idleLeft, tickLeft, tickReady,
                 keeper, writeLeft, pongs, pongHere, quietFor>>

WriteEnds ==
  /\ conn = "open" /\ busy
  /\ busy' = FALSE
  /\ UNCHANGED <<cfg, env, conn, reading, hookFor, idleLeft, tickLeft, tickReady,
                 keeper, writeLeft, busyFor, pongs, pongHere, quietFor>>

PongArrives ==
  /\ conn = "open"
  /\ \E age \in pongs : pongs' = pongs \ {age}
  /\ pongHere' = TRUE
  /\ UNCHANGED <<cfg, env, conn, reading, hookFor, idleLeft, tickLeft, tickReady,
                 keeper, writeLeft, busy, busyFor, quietFor>>

(* Time passes when everything that is due has happened.                   *)
NothingDue ==
  /\ reading => ~DeadlinePassed /\ ~pongHere
  /\ keeper = "waiting" => ~tickReady
  /\ keeper = "pinging" => busy /\ writeLeft > 0
  /\ busy => busyFor < env.busy
  /\ \A age \in pongs : age < env.rtt
  /\ ~reading => hookFor < env.hook

Tick ==
  /\ conn = "open"
  /\ NothingDue
  /\ hookFor' = IF reading THEN hookFor ELSE hookFor + 1
  /\ idleLeft' = Down(idleLeft)
  /\ tickLeft' = IF tickLeft > 1 THEN tickLeft - 1 ELSE cfg.PingInterval
  /\ tickReady' = (tickReady \/ tickLeft = 1)
  /\ writeLeft' = Down(writeLeft)
  /\ busyFor' = IF busy THEN busyFor + 1 ELSE 0
  /\ pongs' = {age + 1 : age \in pongs}
  /\ quietFor' = Up(quietFor)
  /\ UNCHANGED <<cfg, env, conn, reading, keeper, busy, pongHere>>

TimingNext ==
  \/ HookReturns \/ ReadTimesOut \/ ReadPong \/ ReadData
  \/ KeeperTick \/ PingWritten \/ PingTimesOut
  \/ WriteStarts \/ WriteEnds \/ PongArrives
  \/ Tick

(* Clocks run, and goroutines that can run do; the peer's data and the     *)
(* session's own writes may come or not.                                   *)
Fairness ==
  /\ WF_timing(HookReturns) /\ WF_timing(ReadTimesOut) /\ WF_timing(ReadPong)
  /\ WF_timing(KeeperTick) /\ WF_timing(PingWritten) /\ WF_timing(PingTimesOut)
  /\ WF_timing(WriteEnds) /\ WF_timing(PongArrives)
  /\ WF_timing(Tick)

TimingSpec == TimingInit /\ [][TimingNext]_timing /\ Fairness

-----------------------------------------------------------------------------
(* Types and ranges of the timers.                                         *)
TypeOK ==
  /\ cfg \in Configs /\ ValidConfig(cfg)
  /\ env \in Envs
  /\ conn \in {"open", "timedOut", "pingFailed"}
  /\ reading \in BOOLEAN /\ tickReady \in BOOLEAN
  /\ busy \in BOOLEAN /\ pongHere \in BOOLEAN
  /\ hookFor \in 0..env.hook
  /\ idleLeft \in 0..cfg.IdleTimeout
  /\ tickLeft \in 0..cfg.PingInterval
  /\ keeper \in {"waiting", "pinging"}
  /\ writeLeft \in 0..cfg.PingInterval
  /\ busyFor \in 0..env.busy
  /\ pongs \subseteq 0..env.rtt
  /\ quietFor \in 0..(MaxInterval + 1)

(* A peer that answers its pings keeps its session, provided the timeout   *)
(* leaves room for a ping interval, the wait for the write lock and a      *)
(* round trip together, and OnConnect returns before the timeout does: the *)
(* pings run while OnConnect does, but nobody reads the pongs.  The check  *)
(* of the configuration only asks for PingInterval < IdleTimeout.          *)
RoomForPong ==
  /\ HasIdle => cfg.PingInterval + env.busy + env.rtt < cfg.IdleTimeout
  /\ HasIdle => env.hook < cfg.IdleTimeout
  /\ HasPing => env.busy < PingWriteTimeout
NoFalseTimeout == env.answers /\ RoomForPong => conn = "open"

(* A peer that answers no ping loses its session in the end, even when it  *)
(* keeps sending data: no ping sent and no frame read puts it off forever. *)
DeadPeerDropped == HasIdle /\ ~env.answers ~> conn # "open"

(* What the comment on IdleTimeout says (api.go:60, bridge.go:56): the     *)
(* bridge waits that long "for client activity or pong frames", so a       *)
(* session that times out has been quiet for the whole timeout.            *)
TimeoutMeansQuiet == conn = "timedOut" => quietFor >= cfg.IdleTimeout
=============================================================================
