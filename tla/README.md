# Verification of grpc-tunnel

TLA+ models of grpc-tunnel: gRPC over a WebSocket, so that a Go program compiled
to WebAssembly can call a gRPC server from a browser. The modules follow the Go
code under `src/pkg`; TLC checks them on small instances and TLAPS proves the
most important properties for every instance.

1. [The system](#1-the-system)
2. [Modules and how they correspond to the code](#2-modules-and-how-they-correspond-to-the-code)
3. [Runs, bounds and fairness](#3-runs-bounds-and-fairness)
4. [What each property would catch](#4-what-each-property-would-catch)
5. [Proofs](#5-proofs)
6. [Where the code and its documentation disagree](#6-where-the-code-and-its-documentation-disagree)
7. [Limits of the models](#7-limits-of-the-models)
8. [Plan](#8-plan)

## 1. The system

```
 browser                                    server
 ------------------------------------      ------------------------------------
 application                                application's gRPC server
   |  gRPC calls                              ^  calls
 grpc-go ClientConn  (reconnect policy)     http2.Server.ServeConn
   |  dials        ^ reads and writes         ^ reads and writes
 dialer  ------->  browserWebSocketConn     webSocketConn
   |  JS events    |  JS events               ^
 browser WebSocket ======= network ======== gorilla/websocket
                                              ^ upgrades
                                            bridge handler --- admission guard
                                              |--- keepalive goroutine
                                              |--- OnConnect / OnDisconnect hooks
                                              '--- active-connections gauge
```

`pkg/grpctunnel` has the client (a native one and one for WebAssembly) and the
bridge for a gRPC server in the same process; `pkg/bridge` is the bridge as an
`http.Handler` of its own, which can also forward to another address. The guard,
the connection and the session handler exist in both packages with the same code
under different names, and a module here stands for both.

| Component | State | Operations | Hard behaviour | Correct if |
|---|---|---|---|---|
| Admission guard (`abuse_control.go`, twice) | active count, count per client, rate window per client, one mutex | reserve (rate test, two caps, booking), clear | called by any number of request goroutines; the timestamp is taken before the lock, so requests come in an order other than that of their times | counters equal the slots held, caps hold, windows never rewind, refusals have a reason |
| Session handler (`server.go` 268-353, `bridge.go` 287-346) | one goroutine per request, its deferred calls, the socket, the gauge | reserve, upgrade, settings, hooks, serve, unwind | early returns and panics between any two of these, a silent peer, many sessions for few slots | each way out undoes exactly what was done, in an order that keeps the caps true for the application |
| Keepalive (`server.go` 195-242, `bridge.go` 459-508) | read deadline, ticker, stop channel | pong handler, ping with a write deadline | pings wait for the write lock, pongs wait for a reader | dead peers are dropped, live ones are not |
| Native connection (`conn.go`, twice) | two mutexes, the reader of the current message, a closed flag | Read, Write, Close, deadlines | several writers, Close beside both, frames and control frames, empty messages | a byte stream; Close unblocks everybody |
| Browser connection (`websocket_conn.go`) | bounded queue, wake-up token, error channel, three event handlers, once-only teardown | callbacks for message, error, close; Read, Write, Close | callbacks against Read, Close and each other; overflow | a byte stream within the limits; no lost wakeup, no panic, no unread byte kept after a close |
| Browser dialer (`dialer.go`) | two temporary event handlers, two channels, a context | make a socket, wait, hand it over or give it up | a deadline or a shutdown at the moment the socket opens | no leaked socket, no call of a released function |
| Reconnect policy (`api.go` 79-169) | five settings | validate, translate into grpc-go's parameters | timeouts against handshakes, backoff | a server that stays up is reached |
| Client configuration and URLs (`client.go`, `client_wasm.go`, `api.go`) | none; a conn keeps what it dials with | parse, infer, validate, split options, order gRPC's options, copy | two builds of one function, options that override each other, a caller that goes on using its slices | a conn dials through the tunnel what was configured, the next time too |
| Handler configuration (`server.go`, `bridge.go`) | none | options, defaults, validation, read limit, backend policy | three ways to say the same thing, in repeated code | they agree, limits are in force |
| Write-buffer pools (`server.go` 43-65, `bridge.go` 69-91) | a global map per package | look up, store | first users at the same time | one pool per size |
| Tooling server (`tooling.go`) | the services of the application's gRPC server, a mux | validate, look up services, register them, mount | look-up before registration; gRPC and muxes end the process on a second registration | ends the process only on named misuses |
| Example to-do server (`examples/grpc-server`, `examples/direct-bridge`) | list and lookup map under a lock, a one-element signal channel, a JSON file that both processes share | start-up from the file, create, update, delete, debounced save | crashes, failing and overlapping saves, signals that are dropped | each change gets into a save; a start serves what was served before, unless two processes had the file open at once |
| Reverse proxy of `pkg/bridge` | its buffer pool | forward | | which configurations get one is modelled; the proxy is `net/http`'s |
| Observability, logging, other examples, tools | counters, files | | | not modelled, see section 7 |

How they interact. The guard is shared by all sessions of one handler. A session hands
its `webSocketConn` to HTTP/2, whose goroutines call Read and Write, while the keepalive
goroutine writes pings to the same socket and closes it when a ping cannot be written.
The read deadline is a field of the socket that the pong handler moves from within Read.
In the browser, grpc-go calls the dial function with a context; the dial function's
event handlers and later those of the connection are called by the browser's event loop,
on the only thread there is. Before all that, goroutines of the application build
handlers, clients and tooling, and meet in the pool caches, in a gRPC server and in a
mux. The to-do servers are applications of the bridge; their RPC handlers and their save
worker meet in one lock and one channel, and the two processes in one file.

The hazards this gives rise to, each at its line and with the properties that
cover it, are in `PROJECT.json` under `hazards`.

## 2. Modules and how they correspond to the code

`PROJECT.json` maps every definition to its lines; this section says how to read
the correspondence. Variables have the names of the code's fields where there is
one field.

**SlotPool** (abstract): a request owns at most one slot, slots are handed out
while there is room. **AbuseGuard** implements it (`ImplementsSlotPool`). One
action per critical section of the guard's mutex: `RejectRate`, `RejectCap` and
`Admit` are the three ways `reserve...Connection` returns, `Release` is
`clear...Connection`. `Arrive` is the handler's `time.Now()` before it asks for
the lock; between the two the clock can advance by up to `MaxDelay`. An absent
map entry is 0, Go's zero time is 0. **AbuseRate** adds a count of the attempts
booked since each time (`bookedSince`), to say what fixed windows mean for any
minute.

**BridgeSession** composes AbuseGuard (by INSTANCE, each of the session's guard
steps is the guard's own action) with the handler goroutines. The handler's
`defer`s are always registered in one order, so `depth`, the number registered,
stands for the stack; a return or a panic goes to `returning`, where the actions
`Deferred...` pop it. `socket`, `peer`, `keeper`, `stop`, `hook` and `gauge` are
the server's socket, the other end, the keepalive goroutine, its stop channel, the
lifecycle hooks and the observability gauge. The socket is open from `Upgrade` on
and the gauge counts it with `CountConnection`, a step later. `gauge` is only in `grpctunnel`;
`pkg/bridge` runs the same steps without it. What keepalive timing allows, namely
that reads fail sooner or later after a peer falls silent, is a guard of
`ServeReturns` here and is checked by the next module.

**Keepalive** has the clocks of one session as countdowns. `cfg` is every
configuration the validation accepts, `env` says how the surroundings behave: does
the peer answer, how long are the round trip, a message write and OnConnect.
`Tick` waits until everything that is due has happened (`NothingDue`), so a
deadline means what it says.

**ByteStream** (abstract): numbered bytes come out in order and without a gap until
the stream breaks. Both connections implement it.

**WasmConn** is the browser connection. A callback, the reader and the goroutine in
Close are three processes; `once` is the step that `closeOnce.Do` has reached and
`onceBy` who runs it. The steps are cut at each lock, channel and `Once`. Go on
js/wasm changes goroutines only where one blocks, so some interleavings here cannot
happen there; the properties hold with them too. The queue is a sequence
here. A message of which everything was read leaves a slice of length 0 that keeps
the message's array; so `buffer` is the unread tail and `array` says what the
slice's array holds. `skipped` is a ghost: teardown found the read lock taken.

**MessageFifo** (abstract): a bounded queue. **MessageQueue** implements it with what
the code has in its place: a slice whose first `shiftQueueStart` elements are
consumed (`cell`, `length` and `capacity` are the array behind it, `len` and `cap`),
compacted by `clearQueuedMessagesHeadLocked` from append and from read, grown by
Go's `append` (external). One action per critical section of `queueMu`. It counts
messages only. **BrowserConn** composes it with WasmConn: what the connection does
to the sequence in one critical section the slice does in the same one, and
`SliceIsTheQueue` relates the two.

**WebSocketConn** is one direction between two native connections: writers at the
sending end, a reader at the receiving end, the frames under way in `wire`. What
gorilla/websocket does (`Transmit`, `SkipPing`, `NothingMore`) is external: frames
go out whole and in order, control frames are dealt with inside reads, errors are
final. The two copies of the code differ in their locals only.

**WasmDialer** is the dial function: `dial` is the goroutine that makes the socket
and selects, `handler` says whose functions a socket's events call. Here the
single thread matters: a callback runs, then every goroutine that can, before the
browser has its thread back, and so events wait while `Running` holds.
**TunnelClient** extends it with grpc-go's channel (external: attempts, deadlines,
backoff, shutdown) under the parameters that `ApplyTunnelReconnectPolicy` computes.

**HandlerConfig** and **TunnelConfig** have no state: they are the functions that
check a configuration and turn it into what is served or dialed with. A list of
options is a sequence of records of the fields each one sets, applied in order, as
the code applies its closures; a pointer or an optional value is a set of at most
one element, and a function that can fail returns such a set. A target URL is a
record of what the code looks at (scheme, host, path, white space in front, whether
`url.Parse` takes it), not a string. `Meaning` in Setup says what a list of Wrap's
options means without a fold: the last option that sets a field decides; that
`WrapConfig` computes it is proved.

**Setup** composes the two: each builder is a goroutine that builds one thing
(`job`) and returns a `product`. What the code does between two synchronised
operations is one action: the validation (`Begin...`), the cache's Load
(`LoadPool`), its LoadOrStore (`StorePool`), GetServiceInfo (`Inspect`), the two
registrations (`Reflect`, `CheckHealth`) and the mux (`Given`, `Mount`). `ended` is
the process's end by a panic or by gRPC's fatal error. `CallerChanges` is the
caller that writes to the headers or the subprotocols it passed.

**TodoList** (abstract): lists that calls change one todo at a time under fresh
ids, and servers that start with a list that was served before; only a server that is
`unsure` may start with another, and servers become that only while two of them use the
file. **TodoStore** implements it: `pc` is where a process and its save worker are
(the RPC handlers run in every state of `Serving`). os.WriteFile is `Open`, which
truncates, then perhaps `WritePart`, then `WriteEnds`; a crash or a failure can come
between any two of them and leaves what has been written. os.ReadFile is `ReadStarts`
and `ReadEnds`. `mixed` says that two processes had the file open since one of them
alone truncated it: what one writes then goes over or behind what the other wrote,
and the file may be no JSON, either's list, or one of `Mixtures`, lists nobody
saved. `torn` says the same of a reader whose file was truncated or written over
while it read. `known` is a ghost: the lists that were served.

**...Proofs** modules hold the theorems, section 5, **SequenceFacts** what several
of them use: induction and facts about concatenations and numbered streams. **MC...** modules and `.cfg`
files instantiate the specifications for TLC.

## 3. Runs, bounds and fairness

| Run | Module, configuration | Distinct states | Shows |
|---|---|---|---|
| `guard` | MCAbuseGuard | 275,778 | exact counters, caps, windows, refusals, refinement of SlotPool |
| `rate` | MCAbuseRate | 24,674 | how many attempts any minute can see |
| `session` | MCBridgeSession | 306,766 | all ways out of the handler, caps as the application sees them, the gauge, the use of the guard; slots come back, keepalive goroutines end |
| `keepalive` | MCKeepalive | 1,110,158 | live peers stay, dead ones go |
| `keepalive_activity` | MCKeepaliveActivity | to the violation | finding 1 |
| `wasm_conn` | MCWasmConn | 268,144 | stream, limits, teardown, wakeups; the slice with the queue holds what it should and stays small |
| `ws_conn` | MCWebSocketConn | 247,555 | stream, closed for good, Close unblocks, every byte arrives |
| `ws_write_atomic` | MCWebSocketConnAtomic | to the violation | finding 2 |
| `tunnel_client` | MCTunnelClient | 101,552 | no leaked socket, no lost event, connects again |
| `min_connect_timeout` | MCTunnelClientTimeout | to the violation | finding 3 |
| `setup` | MCSetup | 795,314 | pools, limits, agreement of the configurations, what conns dial, tooling registrations |
| `todo_store` | MCTodoStore | 155,832 | list and map agree, no change is forgotten, each gets into a save that ends, a list that nobody served takes two processes with the file open at once |

Bounds, and why they are enough for the cases that matter:

- *guard*: 3 requests, 2 hosts and requests without a host, 2 slots, 1 slot per
  client, 2 attempts per client and window; windows of 2 ticks, 2 ticks of delay
  before the lock, 4 ticks of clock. Three requests and two slots let each of the
  three limits refuse a request that the others would admit; a request can be as
  late as a window is long, so it can come before, in and after a window that
  somebody else has opened, and one goroutine name can make several requests.
- *rate*: one key, so that all requests compete for one budget, delays of 3 ticks and
  5 ticks of clock: a minute then touches as many windows as the bound of
  `AttemptsInAnyMinute` says, and the bound is reached.
- *session*: 2 handlers, 2 slots in total and 1 per client, 1 attempt per window:
  a newcomer of the same client competes with a session that is on its way out,
  and all refusals occur; windows of 1 tick and 2 ticks of clock, for the guard's
  times are the subject of `guard`. Liveness is checked on the same instance: one
  of the two can wait for the other's slot.
- *keepalive*: intervals and timeouts up to 5 ticks, round trips and writes up to 2,
  OnConnect up to 4; countdowns make runs of any length finite. The tightest
  configurations, with exactly one tick to spare, are among them.
- *wasm_conn*: 4 messages and 3 bytes instead of 256 and 16 MiB, 1 error instead of
  4, frames of 0 to 2 bytes, 5 bytes in all: each limit is reached without the
  other (frames may be empty), a message is cut by a short Read, and the queue fills,
  empties and overflows. An array of 2 cells instead of 8 has to grow; with four
  cells one can be full while less than half of it is consumed, which is when the
  second reason to compact counts.
- *ws_conn*: 2 writers, messages of 0 to 2 bytes in up to two frames and an empty
  one, 2 bytes in all, a network that takes 2 frames: a message has more than one
  frame or two writers have one each, a writer waits for the other and for the
  network, messages meet Reads that are shorter and longer than they are.
- *tunnel_client*: 2 sockets (one that is closing while the next dial is under way),
  a handshake of 2 ticks, backoffs up to index 3, where they no longer grow. grpc-go's
  defaults are brought closer together (1, 3, factor 2, spread 50 %, 3 instead of
  1 s, 120 s, 1.6, 20 %, 20 s), which keeps their order. Eight configurations: nil,
  all zero, each field at work, a first delay above the maximum, a factor below 1
  with a spread of 100 %, and one that is refused.
- *setup*: 3 builders and applications of up to 4 jobs. Three are needed for two that
  race for a pool and one that comes later. Every number of a handler's configuration
  takes -1, 0 and 1, the keepalive pair every combination of -1 to 2, pools have
  cacheable and other sizes; each configuration is built in all four ways. Targets
  take every combination of scheme, host, path, white space and parsability,
  clients every option alone and the pairs in which one overrides another.
- *todo_store*: both processes, 2 changes altogether, so that one can come during
  the other's debounce, snapshot, save or load, or in the other process; one id, that
  is new or that of a todo in the file; at first no file, or one written by hand with
  a duplicate, an empty id and a null; as a mixture, a list with the id twice.
  Processes crash, start, and save any number of times, and calls that leave the
  list as it was signal the worker without a limit, so the debounce can be
  restarted for ever within the bound on changes: in the code, too, a client that
  never pauses for that long postpones the save as long as it goes on.
  `EveryChangeIsSaved` names this exception (`OnlyRestarts`).

Deadlock is checked in `guard`, `rate`, `session`, `wasm_conn` and
`todo_store`. It is not in `keepalive` (a session ends), in the two runs of
WebSocketConn (both ends can be closed for good), in TunnelClient (a channel that was
shut down stays so) and in `setup` (each builder builds one thing and is done).

Fairness. All liveness rests on weak fairness of steps the Go scheduler, a timer or
the browser will take: goroutines that can run do (`HandlerStep`, `KeeperStep`,
`CallbackStep`, `ReadStep`, `WriteStep`, `GoStep`), hooks return, clocks tick,
timers fire, a server that is up accepts within its handshake time, the browser
ends a socket that was closed or has failed, a to-do server's file operations and
worker go on (`FileStep`, `WorkerStep`). Nothing is assumed of peers, new requests,
the network's end, write deadlines, user calls of Close, or of starts, crashes,
failing writes and calls of the to-do servers. Two weak
spots deserve a remark. `KeeperStep` is fair as a whole: `select` between a ticker
that fires and a closed stop channel could choose the ticker for ever, but every
such ping fails once the socket is closed, and that ends the goroutine; so no
fairness of `select` is needed. `EventuallyConnected` assumes nothing of backoffs;
its condition `Patient` is what makes an attempt last longer than a handshake.

## 4. What each property would catch

Each module holds, next to a definition, operators named `Wrong...`: the same
definition with a plausible bug. They are used by no specification. Put in the
place of the definition they stand before, they break the property named here,
which shows that the property depends on that piece of code.

| Property (run) | Definition and bug |
|---|---|
| `TypeOK` (guard) | `RateExceeded`, `WrongRateOffByOne`: `>` for `>=` |
| `SlotsMatchHolders` | `ReturnSlot`, `WrongReturnKeepsLast`: the last slot of a client is not given back |
| `WindowNeverRewinds` | `WindowExpired`, `WrongWindowRewinds`: an older timestamp opens a window |
| `RefusalIsJustified` | `WindowExpired`, `WrongWindowTooLong`: `>` for `>=` |
| `ImplementsSlotPool` | `ClientCapReached`, `WrongClientCap`: `>` for `>=` |
| `AttemptsInAnyMinute` | `RateExceeded`, `WrongRateOffByOne` |
| `SessionsWithinCaps` | `CloseSocket`, `WrongCloseNothing`: deferred closes do nothing |
| `NothingLeftBehind` | `DeferredStopKeepalive`, `WrongStopForgotten` |
| `DisconnectIsLast` | `OnConnectPanics`, `WrongDefersBeforeHook`: the hook's counterpart is registered before the hook has returned |
| `ImplementsGuard` | `UpgradeFails`, `WrongUpgradeFailsClears`: the slot is given back at once and again by the deferred call |
| `SlotsReclaimed` | `ServeReturns`, `WrongServeNoDeadline`: no read deadline |
| `KeeperEnds` | `PingFails`, `WrongPingContinues`: a failed ping does not end the goroutine |
| `NoFalseTimeout` | `ReadPong`, `WrongPongKeepsDeadline` |
| `DeadPeerDropped` | `PingWritten`, `WrongPingMovesDeadline` |
| `QueueWithinLimits` | `Overflows`, `WrongOverflows`: the byte limit forgets the new message |
| `NoSendOnClosed` | `MaySendError`, `WrongMaySendError`: no second look under the lock |
| `NoLostWakeup` | `ReadGetsSignal`, `WrongWaitsAgain`: the token does not lead back to the queue |
| `ClosedReleasesPayload` | `CloseDropsBuffer`, `WrongCloseKeepsBuffer` |
| `ImplementsByteStream` (wasm_conn) | `Take`, `WrongTake`: the tail starts one byte late |
| `ReadReturns` | `CloseClosesErrors`, `WrongCloseKeepsErrors` |
| `SocketClosed` | `CallbackClosesSocket`, `WrongOverflowKeepsSocket` |
| `SliceIsTheQueue` | `ClearHead`, `WrongClearHead`: the offset survives the compaction. Its parts `OnlyQueuedHeld` and `SpaceBounded` fail with `Compacted`, `WrongCompacted` (moved messages are not cleared behind) and `Compacts`, `WrongCompacts` (no compaction when there is no room) |
| `ImplementsByteStream` (ws_conn) | `LockFree`, `WrongLockFree`: no write lock |
| `ClosedForGood` | `ReadBegins`, `WrongReadOnceClosed`: no look at isClosed |
| `CloseUnblocks` | `CloseSocket`, `WrongCloseWaits`: Close takes the locks |
| `EveryByteArrives` | `WriteFrame`, `WrongShortWrite`: the rest of a message is forgotten |
| `CallsReachTheirOwner` | `GivesUp`, `WrongGivesUpKeepsHandlers` |
| `OneLiveSocket`, `ShutdownEndsSockets` | `GivesUp`, `WrongGivesUpKeepsSocket` |
| `EventuallyConnected` | `Params`, `WrongParams`: MinConnectTimeout is not passed on |
| `PoolPerSize` | `StorePool`, `WrongStorePool`: a store in place of LoadOrStore |
| `LimitsInForce` | `getBridgeReadLimitBytes`, `WrongReadLimitBytes`: 0 is no limit |
| `HandlersAgree` | `getHandlerConfigError`, `WrongHandlerConfigError`: one copy of the code allows equal intervals |
| `TunnelDialed` | `DialConfig`, `WrongDialConfig`: WithTLS without a config is forgotten |
| `RedialsAlike` | `BuildBrowserConn`, `WrongBuildBrowserConn`: the caller's slice is kept |
| `ToolingRegistersOnce` | `Reflect`, `WrongReflect`: no look at what is registered |
| `IndexMatchesList` | `AddEntry`, `WrongAddEntry`: duplicates in the file are kept |
| `ChangesAreScheduled`, `EveryChangeIsSaved` | `signalTodosPersistLocked`, `WrongSignal`: no signal while a save is under way |
| `ImplementsTodoList` | `WriteEnds`, `WrongWriteEnds`: the file is not truncated, and the rest of an older, longer list stays behind the new one |

What the properties say is stated above each of them in its module.

## 5. Proofs

Every safety property of every run is proved: the invariants, the action properties
and the five refinements. What is left to TLC is liveness.

**AbuseGuardProofs** proves, for any number of requests, hosts, limits, window
length and delay, all that the runs `guard` and `rate` check, and the caps that follow:

- `TypeCorrect`, `SlotsExact`, `CapsHold`: invariants. The last is SlotPool's promise
  for the state, so the run checks it as a part of `ImplementsSlotPool`. The
  inductive one is `IInv == TypeOK /\ SlotsMatchHolders /\ CapsRespected`. Neither of
  the last two is inductive alone: the cap tests compare the *counters* with the limits, so the
  cap on the *holders* needs that the two are equal; and the equality needs the
  types, because `ReturnSlot` is guarded against going below zero and is the
  subtraction it should be only for a counter that is positive. The lemmas
  `HoldersAdd`, `HoldersRemove` and `HoldersSame` say what an action does to
  the two sets of holders; each action then uses one of them.
- `WindowsAdvance` and `RefusalsJustified`: action properties. A window is
  replaced only if the request's own timestamp lies a whole window after its start,
  whatever the wall clock says; hence it never rewinds. A refusal's reason is
  stated in terms of holders, so `IInv` turns the counter tests into it.
- `GuardImplementsPool`: each step of the guard is a step of SlotPool or leaves
  `owner` alone.
- `AttemptsBounded`: the bound on any minute. `RateInv` bounds the attempts booked
  since *every* time t (`RateBound`), from the window that is open: since its start
  they are what the window counts, and before that each earlier window of the limit's
  size took at least a window length of timestamps, which lie at most `MaxDelay`
  before the clock. An attempt is booked either in the open window (both sides grow
  by one) or in a new one, which starts a whole length later and so pays for the old
  one. The lemmas about `\div` are what this needs of arithmetic.

Assumptions: `GuardAssumption` (finitely many goroutines, limits are natural
numbers, `NoKey` is no key). `MaxClock` and `MaxDelay` are arbitrary.

**TunnelClientProofs** proves, for any number of sockets, any reconnect settings
and any timing, `CallsAreHeard` (no event meets a released or a missing function)
and `NoSocketLeft` (at most one socket is alive, and the channel has a use for
it). Neither is inductive: that a socket given up was the dial's own needs to know
which socket the dial has and in which state it can be while the goroutine has not
run yet. `SInv` adds this: what the dial's two channels say of its socket
(`DialHasSocket`: once an event has come the goroutine can run, and since the
browser waits for it the event is the last one the dial sees), who owns every
other socket (`SocketsHaveOwner`), and that only one belongs to a conn
(`OneConn`). The steps of time, of the server and of the backoff leave all of it
alone.

**BridgeSessionProofs** proves `NothingLeft` and `DisconnectLast`, for any number of
sessions, limits and keepalive settings. `NothingLeftBehind` speaks of a handler that
has returned; what makes it true is what holds on the way out. `SessionInv` says of
every handler (`Pending`) that the deferred calls still registered are exactly
what is left to undo: how many there are follows from where the handler is
(`DepthAt`), the socket is open only while its close is pending, the application
knows of a session exactly while `onDisconnect` is, a keepalive goroutine that
was not told to stop runs only while that is. The lemma `UnwindDepth` turns the
call that runs next into the number of calls left.

The module goes on from there. `UsesGuard`: every run of the sessions is a run
of AbuseGuard when a request is taken to hold a slot as long as its `clear` is
registered; the steps that are the guard's are so by composition, and what is to be
shown is that no other step (an early return, a panic, a deferred call) changes
what the guard sees. So AbuseGuardProofs, instantiated for this guard, gives the exact
counters and the caps among the slots; `SessionsCapped` carries them over to
`SessionsWithinCaps`: a session that is open or announced holds a slot
(`LiveHold`), and the gauge is the number of handlers that have registered its
decrement (`GaugeInv`). So the gauge is at least the number of open sockets that it
has counted; a socket between `Upgrade` and `CountConnection` is open and not
counted, and the clause on the gauge leaves it out.

**WasmConnProofs** proves `NeverPanics`, `NeverSleepsOver` and `ReleasesPayload`, for any
limits and sizes. `TeardownInv` says how far the once-only teardown has come:
`isClosed` is set first and keeps messages and readers out, so what a step has
dropped does not come back, and a reader under way has no unread tail that the
teardown, which only tries its lock, would have to drop. It may have the array of one
message that was read to its end; this is the case `skipped` of
`ClosedReleasesPayload`. Then the bytes:

- `QueueBounded` and `ReadsTheStream` (the refinement of ByteStream) rest on
  `QueueInv`, by which the queue is a sequence of sequences of numbers and
  `queuedBytes` is the length of their concatenation. What a step does to the
  concatenation is a lemma of SequenceFacts: `FlattenAppend` for a frame that
  arrives, `FlattenHead` for one that is shifted, `TakeOfJoined` for a Read that
  leaves a tail.
- the slice: `SliceIsQueue` (the refinement of MessageFifo), `OnlyQueued` and
  `StaysSmall`, for any limit and any initial capacity, from one invariant,
  `ArrayInv`: the cells that hold a message are exactly those between the offset and
  the length. `CompactedMoves` and `SliceExtends` say what a compaction and an append
  do to such an array. The bound on the array follows from when it grows: only with
  no consumed head and every cell in use, hence with fewer cells than the limit.
- the composition: each step of the connection over the slice is one of the
  connection and one of the slice (`Composition`), and `ConnInv` adds that the
  sequence is what waits in the slice (`SliceHoldsQueue`).

**WebSocketConnProofs** proves `StaysClosed`: what Close has closed is closed before
`closing` says so (`CloseInv`), for any number of writers. `CarriesTheStream`, the
refinement of ByteStream, rests on `StreamInv`: as long as the connection is whole the
holder of the write lock still has to send what was numbered and is not on the wire,
and with the lock free nothing is left to send (`OrderInv`); the lock excludes the
others (`LockInv`); only binary frames have bytes (`WireInv`). So the bytes on the
wire are those between `received` and `sent`, whatever the cut into frames.

For both connections `BytesInOrder` reads off the refinement what an application relies
on: what Read has returned is 1, 2, 3, ... up to some byte that was sent. That every
step of a byte stream keeps this is `NumberedMoves` of SequenceFacts.

**TodoStoreProofs** proves `NoChangeForgotten`. `ChangesAreScheduled` alone is not
inductive: a server gets to "waiting", where it has no signal, from its start-up
too, and must not have any change then (`StartsUnchanged`). `MapMatchesList` and
`KeepsThePromise` (the refinement of TodoList) share `ListInv`: what is served and
what is about to be saved are lists that were served before, without an id twice, and
so is what the file would give at a start, unless it is `mixed`. `WritesKnown`
follows the file through the pieces of a save: alone with the file, a process leaves
nothing, something that is no JSON, or its snapshot. `SureAlone` says that a
process becomes unsure of the file only while another one uses it, and `ReadServes`
what a start serves in each case. `BuildConsistent` says, by induction over the
file's entries, that a start makes a list without an id twice of any entries, a
mixture's too, and `BuildKeepsTidy` that it takes a list that was saved as it is; that is
what makes a start from a file that is not mixed a return to an earlier list.

**SetupProofs** proves what the run `setup` checks, for any number of builders, any
jobs and any lists of options:

- options. `LastOneDecides`: what a fold over options leaves in a field is the last
  option that sets it, or the default, by induction over the list. So Wrap's
  options come to their `Meaning` (`WrapMeans`), gRPC's to the caller's own connect
  parameters before the policy and to the tunnel's dialer after both (`DialsBy`), and
  an option that asks for TLS is heard among any others (`TLSIsHeard`).
- `BuildInv`: where a builder is says what it builds and what it returns. A handler's
  product is a function of the configuration it is meant to have (`HandlerProduct`),
  a client's is a conn with its own configuration, options and URL (`ClientProduct`).
  From this follow `LimitsHold`, `WaysAgree` and `DialsTunnel`, and
  `AlwaysAlike` with the fact that who has returned does not move. The last speaks of
  every conn but the browser build's from a typed configuration, of which it is
  false (section 7).
- `PoolInv`: a cached pool bears the name of a builder of that package and size, and a
  builder that has returned uses the cached pool, or its own if its size is none that
  is kept; hence `OnePoolPerSize`. That two builders can be between Load and
  LoadOrStore at once is the case that needs it.
- `ToolInv`: who has the health server registered it, alone, and the process ended for
  one of the reasons (`RegistersOnce`).
- the keepalive of such a handler: `KeepaliveIsValid` says that its settings are ones
  that Keepalive takes, and for all of these `AnsweringPeerStays` is proved, for any
  lengths of intervals, round trips, writes and hooks. The invariant, `TimeInv`,
  compares clocks that run side by side: a ping that waits for the write lock has at
  least as long left as the write before it (`PingInTime`), and a pong is here, or on
  its way and faster than the deadline, or the deadline is further away than the next
  ping and its round trip (`PongInTime`). The three conditions of `RoomForPong` are
  what the argument uses.

**Induction.** The library's induction theorems take an operator as a parameter,
which the installed provers cannot instantiate. Its theorem that a non-empty set has
a minimal element takes a set, and from it follows `SetInduction` of SequenceFacts:
a set of numbers with 0 and with the successor of every member has them all. The
folds of the library are `CHOOSE`s of a recursive function over subsets; that such
a function exists (`FoldExists`, `ConcatenationExists`) is proved by this induction
first, and then what it computes.

Assumptions of these: `SessionAssumption` (that of the guard for the guard the
sessions share), `KeepaliveAssumption`, `WasmConnAssumption`, `QueueAssumption` and
`StoreAssumption`, all about the ranges of limits and bounds; that `Nobody` is no
socket and no writer; and `SetupAssumption`, which says of an application's jobs what
Go's types say: limits are integers, a list of options is a list, a caller's own
connect parameters are the caller's, and of the options of a dial only WithTLS asks for
TLS. TLC evaluates each of them on the run of its module.

Only model-checked: liveness (`SlotsReclaimed`, `KeeperEnds`, `DeadPeerDropped`,
`ReadReturns`, `SocketClosed`, `CloseUnblocks`, `EveryByteArrives`,
`ShutdownEndsSockets`, `EventuallyConnected`, `EveryChangeIsSaved`), which is out of
the provers' reach.

## 6. Where the code and its documentation disagree

1. `keepalive_activity`: `pkg/grpctunnel/api.go:60` says that IdleTimeout "configures
   how long the bridge waits for client activity or pong frames". The deadline is
   moved by pongs only, so a client that sends data all the time and answers pings
   late, or not at all, is timed out.
2. `ws_write_atomic`: `pkg/bridge/conn.go:161-162` says that "WebSocket writes are
   atomic - either the entire message is sent or none of it is". A message longer
   than the write buffer goes out in frames, and the other end's Read returns the
   first frame's bytes at once; a break between frames leaves them read although
   Write has reported an error and no bytes.
3. `min_connect_timeout`: `pkg/grpctunnel/api.go:89` says of MinConnectTimeout "Zero
   uses gRPC defaults". `ApplyTunnelReconnectPolicy` passes the zero on, and grpc-go
   takes it as it is, so that an attempt lasts only as long as the backoff. With a
   MaxDelay below the handshake time the client never connects.

One more has no run: `pkg/bridge/conn.go:187` says that Close "sends a WebSocket close
frame". The code (192-200) marks the connection closed and closes the TCP connection,
so the other end sees an abnormal end of the stream. Close frames of the native
connection are not modelled: WebSocketConn's reader gets an error either way.

## 7. Limits of the models

Things the code does that no property forbids, and a reader may want to know:

- the guard never removes a client's rate window, so its map grows with every new
  address;
- windows are fixed, so within a minute the limit can be passed by the factor that
  `AttemptsInAnyMinute` states;
- a close drops frames that the browser had delivered and nobody had read;
- a browser connection that is torn down while a Read waits keeps the array of the
  message that was read last, though all of it was read, as long as the connection
  itself is kept (the exception in `ClosedReleasesPayload`);
- an empty binary frame makes the browser connection's Read return 0 bytes and no
  error;
- the typed configuration of the browser's client keeps the caller's slice of
  subprotocols, so that a later change of it shows in the next dial, where every other
  way to configure a client copies it (the exception in `RedialsAlike`);
- two tooling handlers that are built at the same time for one gRPC server, or one
  where only the newer reflection service was registered before, end the process,
  since the look-up and the registration are two steps; so does pprof at "/"
  (the cases `ToolingRegistersOnce` names);
- the to-do server writes its file in place and does not retry: a crash or an error
  in a save can lose the todos saved before; the example's two servers overwrite each
  other's lists, and when they save at the same time the file may hold a list that
  neither of them served;
- its debounce has no maximum: calls that keep coming faster than it put the save off
  (the exception in `EveryChangeIsSaved`).

Abstractions: remote addresses are hosts, payloads are numbered bytes, errors have no
text. gorilla/websocket, `net/http`, HTTP/2, grpc-go, the Go scheduler and the
browser are external and modelled from how `src/pkg` uses them. Write-deadline
setters appear through the deadlines that pass (any Write may fail at any time).

In Setup, GetServiceInfo is one step, callers pass gRPC the credentials it asks for,
and NaN and infinite reconnect factors are left out. In TodoStore the file is its
kind and its list of entries. Which lists can come of two writes that overlap is a
question of their bytes; the model has any list of `Mixtures` come of any such two,
and the theorems hold for every choice of it.

Not modelled: what the reverse proxy of `pkg/bridge` does, which is `net/http`'s over
an HTTP/2 cleartext transport (`reverseProxyBufferPool` adds two bounds checks);
the listeners of Serve, ListenAndServe and of the tooling server, which wrap a handler
and leave the rest to `net/http`; SetDeadline of the native connection, which sets two
deadlines one after the other and can fail in between; the set-up in the examples'
main functions and the direct bridge's origin check; observability events and
logging, which pass data through; the generated protocol code; browser assets; the
other examples (one of them an older proxy with a copy of the connection code)
and the command-line tools, which are sequential users of the packages.

## 8. Plan

Done, in this order: guard and pool, session, keepalive, browser connection, native
connection, dialer and client, configuration with pools and tooling, the to-do
server, the browser connection's message queue; proofs of all the safety properties.

Next module: *deadlines*, SetDeadline's two halves and their failure between, and
what a write deadline does to the frames of a message that is under way.

Next theorems: the sessions' slots as a SlotPool, through the guard; what a write
deadline may cost in terms of the stream, with the module above; and the safety part of
each liveness property that rests on one (that a process which is to end is never
without a step it can take).
