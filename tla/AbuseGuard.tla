----------------------------- MODULE AbuseGuard -----------------------------
(***************************************************************************)
(* The admission guard of the bridge: bridgeAbuseGuard                     *)
(* (pkg/grpctunnel/abuse_control.go) and its twin handlerAbuseGuard        *)
(* (pkg/bridge/abuse_control.go).                                          *)
(*                                                                         *)
(* Every request runs in a goroutine of its own.  It reads the clock, then *)
(* takes the guard's lock, and the guard either books the attempt and a    *)
(* connection slot or refuses; an admitted request gives its slot back in  *)
(* a deferred call.  The clock is read BEFORE the lock is taken, so the    *)
(* guard sees the requests in an order that is not the order of their      *)
(* timestamps.                                                             *)
(***************************************************************************)
EXTENDS Integers, FiniteSets

CONSTANTS
  Handler,          \* request goroutines; one is reused after it has ended
  Host,             \* what a remote address names once its port is cut off
  NoHost,           \* a remote address without a host (blank, or ":port")
  Unknown,          \* the key such a request is booked under
  NoKey,            \* no key at all
  MaxActiveConnections,           \* 0: no limit
  MaxConnectionsPerClient,        \* 0: no limit
  MaxUpgradesPerClientPerMinute,  \* 0: no limit
  WindowLength,     \* one minute, in clock ticks
  MaxDelay,         \* bound: ticks between a request's clock read and its lock
  MaxClock          \* bound: last clock reading

ASSUME GuardAssumption ==
  /\ IsFiniteSet(Handler)
  /\ NoKey \notin Host \cup {Unknown}
  /\ MaxActiveConnections \in Nat
  /\ MaxConnectionsPerClient \in Nat
  /\ MaxUpgradesPerClientPerMinute \in Nat
  /\ WindowLength \in Nat \ {0}
  /\ MaxDelay \in Nat
  /\ MaxClock \in Nat \ {0}

VARIABLES
  clock,         \* the wall clock; 0 stands for Go's zero time and is never read
  active,        \* getActiveConnections
  clientConns,   \* storeClientConnections; an absent key is 0
  windowStart,   \* getWindowStartedAt per key; an absent window has the zero time
  windowCount,   \* getWindowCount per key
  phase,         \* where each request goroutine is
  addr,          \* its remote address
  stamp          \* the time it passes to the guard; 1 when it is not under way

guardVars == <<active, clientConns, windowStart, windowCount>>
vars == <<clock, active, clientConns, windowStart, windowCount, phase, addr, stamp>>

Addr == Host \cup {NoHost}
Key  == Host \cup {Unknown}
Time == 1..MaxClock

(* The key is the host without its port, or the fixed word when there is   *)
(* none: all requests without a host share one budget.                     *)
ClientKey(a) == IF a = NoHost THEN Unknown ELSE a

KeyOf(h) == ClientKey(addr[h])

-----------------------------------------------------------------------------
(* The guard's three tests, in the order of the code.                      *)

(* Operators named Wrong... are plausible bugs in the definition that      *)
(* follows; the README says which property each of them breaks.            *)
WrongWindowRewinds(k, now) ==
  \/ windowStart[k] = 0 \/ now - windowStart[k] >= WindowLength
  \/ now < windowStart[k]
WrongWindowTooLong(k, now) ==
  windowStart[k] = 0 \/ now - windowStart[k] > WindowLength

WindowExpired(k, now) ==
  windowStart[k] = 0 \/ now - windowStart[k] >= WindowLength

\* The number of attempts already booked in the window the request falls in.
AttemptsInWindow(k, now) == IF WindowExpired(k, now) THEN 0 ELSE windowCount[k]

WrongRateOffByOne(k, now) ==
  /\ MaxUpgradesPerClientPerMinute > 0
  /\ AttemptsInWindow(k, now) > MaxUpgradesPerClientPerMinute

RateExceeded(k, now) ==
  /\ MaxUpgradesPerClientPerMinute > 0
  /\ AttemptsInWindow(k, now) >= MaxUpgradesPerClientPerMinute

ActiveCapReached ==
  MaxActiveConnections > 0 /\ active >= MaxActiveConnections

WrongClientCap(k) ==
  MaxConnectionsPerClient > 0 /\ clientConns[k] > MaxConnectionsPerClient

ClientCapReached(k) ==
  MaxConnectionsPerClient > 0 /\ clientConns[k] >= MaxConnectionsPerClient

(* Booking the attempt opens a new window when the old one is over.        *)
CountAttempt(k, now) ==
  IF MaxUpgradesPerClientPerMinute > 0
    THEN /\ windowStart' = [windowStart EXCEPT ![k] =
                              IF WindowExpired(k, now) THEN now ELSE @]
         /\ windowCount' = [windowCount EXCEPT ![k] =
                              AttemptsInWindow(k, now) + 1]
    ELSE UNCHANGED <<windowStart, windowCount>>

TakeSlot(k) ==
  /\ active' = active + 1
  /\ clientConns' = [clientConns EXCEPT ![k] = @ + 1]

WrongReturnKeepsLast(k) ==
  /\ active' = IF active > 0 THEN active - 1 ELSE active
  /\ clientConns' = [clientConns EXCEPT ![k] = IF @ <= 1 THEN @ ELSE @ - 1]

(* Both counters are guarded against going below zero.                     *)
ReturnSlot(k) ==
  /\ active' = IF active > 0 THEN active - 1 ELSE active
  /\ clientConns' = [clientConns EXCEPT ![k] = IF @ <= 1 THEN 0 ELSE @ - 1]

-----------------------------------------------------------------------------
Init ==
  /\ clock = 1
  /\ active = 0
  /\ clientConns = [k \in Key |-> 0]
  /\ windowStart = [k \in Key |-> 0]
  /\ windowCount = [k \in Key |-> 0]
  /\ phase = [h \in Handler |-> "idle"]
  /\ addr = [h \in Handler |-> NoHost]
  /\ stamp = [h \in Handler |-> 1]

(* A request comes in and its goroutine reads the clock.                   *)
Arrive(h, a) ==
  /\ phase[h] = "idle"
  /\ phase' = [phase EXCEPT ![h] = "stamped"]
  /\ addr' = [addr EXCEPT ![h] = a]
  /\ stamp' = [stamp EXCEPT ![h] = clock]
  /\ UNCHANGED <<clock, guardVars>>

(* The guard returns, and the time it was passed is not used any more.     *)
Leaves(h, next) ==
  /\ phase' = [phase EXCEPT ![h] = next]
  /\ stamp' = [stamp EXCEPT ![h] = 1]

(* Too many attempts in the window: nothing is written, not even a window  *)
(* that was about to be replaced.                                          *)
RejectRate(h) ==
  /\ phase[h] = "stamped"
  /\ RateExceeded(KeyOf(h), stamp[h])
  /\ Leaves(h, "idle")
  /\ UNCHANGED <<clock, addr, guardVars>>

(* A cap is reached: the attempt stays booked although the request is      *)
(* refused.                                                                *)
RejectCap(h) ==
  /\ phase[h] = "stamped"
  /\ ~RateExceeded(KeyOf(h), stamp[h])
  /\ ActiveCapReached \/ ClientCapReached(KeyOf(h))
  /\ CountAttempt(KeyOf(h), stamp[h])
  /\ Leaves(h, "idle")
  /\ UNCHANGED <<clock, active, clientConns, addr>>

Admit(h) ==
  /\ phase[h] = "stamped"
  /\ ~RateExceeded(KeyOf(h), stamp[h])
  /\ ~ActiveCapReached
  /\ ~ClientCapReached(KeyOf(h))
  /\ CountAttempt(KeyOf(h), stamp[h])
  /\ TakeSlot(KeyOf(h))
  /\ Leaves(h, "holding")
  /\ UNCHANGED <<clock, addr>>

(* The deferred call of an admitted request.                               *)
Release(h) ==
  /\ phase[h] = "holding"
  /\ ReturnSlot(KeyOf(h))
  /\ phase' = [phase EXCEPT ![h] = "idle"]
  /\ UNCHANGED <<clock, windowStart, windowCount, addr, stamp>>

Tick ==
  /\ clock < MaxClock
  /\ \A h \in Handler : phase[h] = "stamped" => clock - stamp[h] < MaxDelay
  /\ clock' = clock + 1
  /\ UNCHANGED <<guardVars, phase, addr, stamp>>

Next ==
  \/ \E h \in Handler :
       \/ \E a \in Addr : Arrive(h, a)
       \/ RejectRate(h) \/ RejectCap(h) \/ Admit(h) \/ Release(h)
  \/ Tick

Spec == Init /\ [][Next]_vars

-----------------------------------------------------------------------------
Holders == {h \in Handler : phase[h] = "holding"}
HoldersOf(k) == {h \in Holders : KeyOf(h) = k}

(* Types of every variable.  The range of windowCount is the rate limit    *)
(* itself: no window ever books more attempts than the configuration       *)
(* allows (the count test of reserveBridgeConnection).                     *)
TypeOK ==
  /\ clock \in Time
  /\ active \in Nat
  /\ clientConns \in [Key -> Nat]
  /\ windowStart \in [Key -> 0..MaxClock]
  /\ windowCount \in [Key -> 0..MaxUpgradesPerClientPerMinute]
  /\ phase \in [Handler -> {"idle", "stamped", "holding"}]
  /\ addr \in [Handler -> Addr]
  /\ stamp \in [Handler -> Time]

(* The two counters never drift from the requests that really hold a slot, *)
(* whatever the order in which requests of several clients are admitted,   *)
(* refused and released: a lost decrement would lock clients out for good, *)
(* a doubled one would let the caps be passed.                             *)
SlotsMatchHolders ==
  /\ active = Cardinality(Holders)
  /\ \A k \in Key : clientConns[k] = Cardinality(HoldersOf(k))

(* The caps of the configuration bound the requests that hold a slot: what *)
(* SlotPool's promise (below) means for the state.                         *)
CapsRespected ==
  /\ MaxActiveConnections > 0 => Cardinality(Holders) <= MaxActiveConnections
  /\ MaxConnectionsPerClient > 0 =>
       \A k \in Key : Cardinality(HoldersOf(k)) <= MaxConnectionsPerClient

(* A client's window is only ever replaced by one that starts a full       *)
(* minute later, and its count never falls while it lasts, although the    *)
(* guard sees timestamps out of order: a late request with an old stamp    *)
(* cannot rewind the window and so refill the client's budget.             *)
WindowNeverRewinds ==
  [][\A k \in Key :
       \/ windowStart'[k] = windowStart[k] /\ windowCount'[k] >= windowCount[k]
       \/ windowStart[k] = 0
       \/ windowStart'[k] >= windowStart[k] + WindowLength]_vars

(* A request is refused only for a limit that is really reached at that    *)
(* moment by requests that hold a slot, or by its own client's attempts in *)
(* a window that is still open at the request's time.                      *)
RefusalIsJustified ==
  [][\A h \in Handler :
       phase[h] = "stamped" /\ phase'[h] = "idle" =>
         \/ /\ MaxActiveConnections > 0
            /\ Cardinality(Holders) >= MaxActiveConnections
         \/ /\ MaxConnectionsPerClient > 0
            /\ Cardinality(HoldersOf(KeyOf(h))) >= MaxConnectionsPerClient
         \/ /\ MaxUpgradesPerClientPerMinute > 0
            /\ windowCount[KeyOf(h)] >= MaxUpgradesPerClientPerMinute
            /\ stamp[h] < windowStart[KeyOf(h)] + WindowLength]_vars

(* The guard implements the slot pool: a request owns a slot from the      *)
(* moment it is admitted until its deferred call has run.                  *)
Pool == INSTANCE SlotPool WITH
          owner <- [h \in Handler |->
                      IF phase[h] = "holding" THEN KeyOf(h) ELSE NoKey]
ImplementsSlotPool == Pool!Spec
=============================================================================
