-------------------------- MODULE AbuseGuardProofs --------------------------
(***************************************************************************)
(* What holds of the admission guard for every set of requests, every      *)
(* configuration of the limits and every clock.                            *)
(***************************************************************************)
EXTENDS AbuseRate, FiniteSetTheorems, TLAPS

(* The key of a request is always one of the keys the guard has books for. *)
LEMMA KeyOfInKey ==
  ASSUME TypeOK, NEW h \in Handler
  PROVE  KeyOf(h) \in Key
BY DEF TypeOK, KeyOf, ClientKey, Key, Addr

(* Booking an attempt that passed the rate test keeps the count in range.  *)
LEMMA CountAttemptTypes ==
  ASSUME TypeOK, NEW k \in Key, NEW now \in Time,
         ~RateExceeded(k, now), CountAttempt(k, now)
  PROVE  /\ windowStart' \in [Key -> 0..MaxClock]
         /\ windowCount' \in [Key -> 0..MaxUpgradesPerClientPerMinute]
<1> USE GuardAssumption DEF TypeOK, Time
<1>1. CASE MaxUpgradesPerClientPerMinute > 0
  <2>1. AttemptsInWindow(k, now) + 1 \in 0..MaxUpgradesPerClientPerMinute
    BY <1>1 DEF RateExceeded, AttemptsInWindow
  <2>2. QED
    BY <1>1, <2>1 DEF CountAttempt
<1>2. CASE ~(MaxUpgradesPerClientPerMinute > 0)
  BY <1>2 DEF CountAttempt
<1>3. QED BY <1>1, <1>2

(* The guard starts with the right types.                                  *)
LEMMA TypeOKInit == Init => TypeOK
BY GuardAssumption DEF Init, TypeOK, Time, Addr

(* Each step of a request, and the clock's tick, keeps the types.          *)
LEMMA TypeOKStep == TypeOK /\ [Next]_vars => TypeOK'
<1> SUFFICES ASSUME TypeOK, [Next]_vars PROVE TypeOK'
  OBVIOUS
<1> USE GuardAssumption
<1>1. ASSUME NEW h \in Handler, NEW a \in Addr, Arrive(h, a) PROVE TypeOK'
  BY <1>1 DEF TypeOK, Arrive, guardVars
<1>2. ASSUME NEW h \in Handler, RejectRate(h) PROVE TypeOK'
  BY <1>2 DEF TypeOK, RejectRate, guardVars, Leaves, Time
<1>3. ASSUME NEW h \in Handler, RejectCap(h) PROVE TypeOK'
  <2>1. KeyOf(h) \in Key /\ stamp[h] \in Time
    BY KeyOfInKey DEF TypeOK
  <2>2. /\ windowStart' \in [Key -> 0..MaxClock]
        /\ windowCount' \in [Key -> 0..MaxUpgradesPerClientPerMinute]
    BY <1>3, <2>1, CountAttemptTypes DEF RejectCap
  <2>3. QED
    BY <1>3, <2>2 DEF TypeOK, RejectCap, Leaves, Time
<1>4. ASSUME NEW h \in Handler, Admit(h) PROVE TypeOK'
  <2>1. KeyOf(h) \in Key /\ stamp[h] \in Time
    BY KeyOfInKey DEF TypeOK
  <2>2. /\ windowStart' \in [Key -> 0..MaxClock]
        /\ windowCount' \in [Key -> 0..MaxUpgradesPerClientPerMinute]
    BY <1>4, <2>1, CountAttemptTypes DEF Admit
  <2>3. active' \in Nat /\ clientConns' \in [Key -> Nat]
    BY <1>4, <2>1 DEF TypeOK, Admit, TakeSlot
  <2>4. QED
    BY <1>4, <2>2, <2>3 DEF TypeOK, Admit, Leaves, Time
<1>5. ASSUME NEW h \in Handler, Release(h) PROVE TypeOK'
  <2>1. active' \in Nat /\ clientConns' \in [Key -> Nat]
    BY <1>5, KeyOfInKey DEF TypeOK, Release, ReturnSlot
  <2>2. QED
    BY <1>5, <2>1 DEF TypeOK, Release
<1>6. CASE Tick
  BY <1>6 DEF TypeOK, Tick, guardVars, Time
<1>7. CASE UNCHANGED vars
  BY <1>7 DEF TypeOK, vars
<1>8. QED
  BY <1>1, <1>2, <1>3, <1>4, <1>5, <1>6, <1>7 DEF Next

(* Type correctness: every variable keeps its type and no window books     *)
(* more attempts than the limit, whatever the order of the timestamps.     *)
THEOREM TypeCorrect == Spec => []TypeOK
<1>1. QED
  BY TypeOKInit, TypeOKStep, PTL DEF Spec

-----------------------------------------------------------------------------
(* How the set of requests that hold a slot changes.                       *)

LEMMA HoldersFinite ==
  /\ IsFiniteSet(Holders)
  /\ \A k : IsFiniteSet(HoldersOf(k))
BY GuardAssumption, FS_Subset DEF Holders, HoldersOf

(* A step that moves no request into or out of "holding" leaves the        *)
(* holders of every key alone.                                             *)
LEMMA HoldersSame ==
  ASSUME TypeOK, TypeOK', addr' = addr,
         \A h \in Handler : phase'[h] = "holding" <=> phase[h] = "holding"
  PROVE  Holders' = Holders /\ \A k : HoldersOf(k)' = HoldersOf(k)
BY DEF Holders, HoldersOf, KeyOf

(* Admitting a request adds exactly it to the holders of its key.          *)
LEMMA HoldersAdd ==
  ASSUME TypeOK, NEW h \in Handler, phase[h] # "holding", addr' = addr,
         phase' = [phase EXCEPT ![h] = "holding"]
  PROVE  /\ Cardinality(Holders') = Cardinality(Holders) + 1
         /\ \A k \in Key : Cardinality(HoldersOf(k)') =
              IF k = KeyOf(h) THEN Cardinality(HoldersOf(k)) + 1
                              ELSE Cardinality(HoldersOf(k))
<1>1. Holders' = Holders \cup {h} /\ h \notin Holders
  BY DEF Holders, TypeOK
<1>2. Cardinality(Holders') = Cardinality(Holders) + 1
  BY <1>1, HoldersFinite, FS_AddElement
<1>3. ASSUME NEW k \in Key
      PROVE  Cardinality(HoldersOf(k)') =
               IF k = KeyOf(h) THEN Cardinality(HoldersOf(k)) + 1
                               ELSE Cardinality(HoldersOf(k))
  <2>1. CASE k = KeyOf(h)
    <3>1. HoldersOf(k)' = HoldersOf(k) \cup {h} /\ h \notin HoldersOf(k)
      BY <1>1, <2>1 DEF HoldersOf, KeyOf
    <3>2. QED BY <2>1, <3>1, HoldersFinite, FS_AddElement
  <2>2. CASE k # KeyOf(h)
    <3>1. HoldersOf(k)' = HoldersOf(k)
      BY <1>1, <2>2 DEF HoldersOf, KeyOf
    <3>2. QED BY <2>2, <3>1
  <2>3. QED BY <2>1, <2>2
<1>4. QED BY <1>2, <1>3

(* Releasing a request removes exactly it from the holders of its key.     *)
LEMMA HoldersRemove ==
  ASSUME TypeOK, NEW h \in Handler, phase[h] = "holding", addr' = addr,
         phase' = [phase EXCEPT ![h] = "idle"]
  PROVE  /\ Cardinality(Holders) > 0
         /\ Cardinality(Holders') = Cardinality(Holders) - 1
         /\ Cardinality(HoldersOf(KeyOf(h))) > 0
         /\ \A k \in Key : Cardinality(HoldersOf(k)') =
              IF k = KeyOf(h) THEN Cardinality(HoldersOf(k)) - 1
                              ELSE Cardinality(HoldersOf(k))
<1>1. Holders' = Holders \ {h} /\ h \in Holders
  BY DEF Holders, TypeOK
<1>2. ASSUME NEW S, IsFiniteSet(S), h \in S
      PROVE  Cardinality(S) > 0 /\ Cardinality(S \ {h}) = Cardinality(S) - 1
  BY <1>2, FS_RemoveElement, FS_CardinalityType, FS_EmptySet
<1>3. h \in HoldersOf(KeyOf(h))
  BY <1>1 DEF HoldersOf
<1>4. ASSUME NEW k \in Key
      PROVE  Cardinality(HoldersOf(k)') =
               IF k = KeyOf(h) THEN Cardinality(HoldersOf(k)) - 1
                               ELSE Cardinality(HoldersOf(k))
  <2>1. CASE k = KeyOf(h)
    <3>1. HoldersOf(k)' = HoldersOf(k) \ {h}
      BY <1>1, <2>1 DEF HoldersOf, KeyOf
    <3>2. QED BY <2>1, <3>1, <1>2, <1>3, HoldersFinite
  <2>2. CASE k # KeyOf(h)
    <3>1. HoldersOf(k)' = HoldersOf(k)
      BY <1>1, <2>2 DEF HoldersOf, KeyOf
    <3>2. QED BY <2>2, <3>1
  <2>3. QED BY <2>1, <2>2
<1>5. QED BY <1>1, <1>2, <1>3, <1>4, HoldersFinite

-----------------------------------------------------------------------------
(* The inductive invariant: the counters are exact.  Without it neither    *)
(* the caps nor the refusals could be argued, for the code only looks at   *)
(* the counters.                                                           *)

IInv == TypeOK /\ SlotsMatchHolders /\ CapsRespected

(* At the start nobody holds a slot and the counters are 0.                *)
LEMMA IInvInit == Init => IInv
<1> SUFFICES ASSUME Init PROVE IInv
  OBVIOUS
<1>1. Holders = {} /\ \A k : HoldersOf(k) = {}
  BY DEF Init, Holders, HoldersOf
<1>2. Cardinality(Holders) = 0 /\ \A k : Cardinality(HoldersOf(k)) = 0
  BY <1>1, FS_EmptySet
<1>3. SlotsMatchHolders /\ CapsRespected
  BY <1>2, GuardAssumption DEF Init, SlotsMatchHolders, CapsRespected
<1>4. QED BY <1>3, TypeOKInit DEF IInv

(* Admitting and releasing a request move the counters with the holders;   *)
(* every other step moves neither.                                         *)
LEMMA IInvStep == IInv /\ [Next]_vars => IInv'
<1> SUFFICES ASSUME IInv, [Next]_vars PROVE IInv'
  OBVIOUS
<1> USE GuardAssumption
<1>0. TypeOK /\ TypeOK' /\ SlotsMatchHolders /\ CapsRespected
  BY TypeOKStep DEF IInv
<1>a. ASSUME addr' = addr, UNCHANGED <<active, clientConns>>,
             \A h \in Handler : phase'[h] = "holding" <=> phase[h] = "holding"
      PROVE  SlotsMatchHolders' /\ CapsRespected'
  BY <1>0, <1>a, HoldersSame DEF SlotsMatchHolders, CapsRespected
<1>1. ASSUME NEW h \in Handler, NEW a \in Addr, Arrive(h, a)
      PROVE  SlotsMatchHolders' /\ CapsRespected'
  <2>1. Holders' = Holders
    BY <1>0, <1>1 DEF Arrive, Holders, TypeOK
  <2>2. \A k : HoldersOf(k)' = HoldersOf(k)
    BY <1>0, <1>1, <2>1 DEF Arrive, Holders, HoldersOf, KeyOf, TypeOK
  <2>3. QED
    BY <1>0, <1>1, <2>1, <2>2
       DEF Arrive, guardVars, SlotsMatchHolders, CapsRespected
<1>2. ASSUME NEW h \in Handler, RejectRate(h)
      PROVE  SlotsMatchHolders' /\ CapsRespected'
  BY <1>0, <1>2, <1>a DEF RejectRate, guardVars, TypeOK, Leaves
<1>3. ASSUME NEW h \in Handler, RejectCap(h)
      PROVE  SlotsMatchHolders' /\ CapsRespected'
  BY <1>0, <1>3, <1>a DEF RejectCap, TypeOK, Leaves
<1>4. ASSUME NEW h \in Handler, Admit(h)
      PROVE  SlotsMatchHolders' /\ CapsRespected'
  <2>1. KeyOf(h) \in Key
    BY <1>0, KeyOfInKey
  <2>2. /\ Cardinality(Holders') = Cardinality(Holders) + 1
        /\ \A k \in Key : Cardinality(HoldersOf(k)') =
             IF k = KeyOf(h) THEN Cardinality(HoldersOf(k)) + 1
                             ELSE Cardinality(HoldersOf(k))
    BY <1>0, <1>4, HoldersAdd DEF Admit, Leaves
  <2>3. SlotsMatchHolders'
    BY <1>0, <1>4, <2>1, <2>2 DEF Admit, TakeSlot, SlotsMatchHolders, TypeOK
  <2>4. MaxActiveConnections > 0 => Cardinality(Holders') <= MaxActiveConnections
    BY <1>0, <1>4, <2>2
       DEF Admit, ActiveCapReached, SlotsMatchHolders, TypeOK
  <2>5. ASSUME MaxConnectionsPerClient > 0, NEW k \in Key
        PROVE  Cardinality(HoldersOf(k)') <= MaxConnectionsPerClient
    BY <1>0, <1>4, <2>1, <2>2, <2>5
       DEF Admit, ClientCapReached, SlotsMatchHolders, CapsRespected, TypeOK
  <2>6. QED
    BY <2>3, <2>4, <2>5 DEF CapsRespected
<1>5. ASSUME NEW h \in Handler, Release(h)
      PROVE  SlotsMatchHolders' /\ CapsRespected'
  <2>1. KeyOf(h) \in Key
    BY <1>0, KeyOfInKey
  <2>2. /\ Cardinality(Holders) > 0
        /\ Cardinality(Holders') = Cardinality(Holders) - 1
        /\ Cardinality(HoldersOf(KeyOf(h))) > 0
        /\ \A k \in Key : Cardinality(HoldersOf(k)') =
             IF k = KeyOf(h) THEN Cardinality(HoldersOf(k)) - 1
                             ELSE Cardinality(HoldersOf(k))
    BY <1>0, <1>5, HoldersRemove DEF Release
  <2>3. SlotsMatchHolders'
    BY <1>0, <1>5, <2>1, <2>2
       DEF Release, ReturnSlot, SlotsMatchHolders, TypeOK
  <2>4. CapsRespected'
    BY <1>0, <2>2 DEF CapsRespected, SlotsMatchHolders, TypeOK
  <2>5. QED BY <2>3, <2>4
<1>6. ASSUME Tick PROVE SlotsMatchHolders' /\ CapsRespected'
  BY <1>0, <1>6, <1>a DEF Tick, guardVars
<1>7. ASSUME UNCHANGED vars PROVE SlotsMatchHolders' /\ CapsRespected'
  BY <1>0, <1>7, <1>a DEF vars
<1>8. QED
  BY <1>0, <1>1, <1>2, <1>3, <1>4, <1>5, <1>6, <1>7 DEF Next, IInv

(* So the counters are exact in every reachable state.                     *)
LEMMA IInvHolds == Spec => []IInv
<1>1. QED BY IInvInit, IInvStep, PTL DEF Spec

(* The counters of the guard are exact in every reachable state.           *)
THEOREM SlotsExact == Spec => []SlotsMatchHolders
<1>1. IInv => SlotsMatchHolders
  BY DEF IInv
<1>2. QED BY <1>1, IInvHolds, PTL

(* No configured cap is ever passed.                                       *)
THEOREM CapsHold == Spec => []CapsRespected
<1>1. IInv => CapsRespected
  BY DEF IInv
<1>2. QED BY <1>1, IInvHolds, PTL

-----------------------------------------------------------------------------
(* Booking an attempt moves a window by a whole minute or not at all.      *)
LEMMA CountAttemptAdvances ==
  ASSUME TypeOK, NEW k \in Key, NEW now \in Time, CountAttempt(k, now),
         NEW j \in Key
  PROVE  \/ windowStart'[j] = windowStart[j] /\ windowCount'[j] >= windowCount[j]
         \/ windowStart[j] = 0
         \/ windowStart'[j] >= windowStart[j] + WindowLength
<1> USE GuardAssumption DEF TypeOK, Time
<1>1. CASE MaxUpgradesPerClientPerMinute > 0 /\ j = k
  BY <1>1 DEF CountAttempt, WindowExpired, AttemptsInWindow
<1>2. CASE ~(MaxUpgradesPerClientPerMinute > 0 /\ j = k)
  BY <1>2 DEF CountAttempt
<1>3. QED BY <1>1, <1>2

(* No step rewinds a window or lowers its count while it lasts.            *)
THEOREM WindowsAdvance == Spec => WindowNeverRewinds
<1> DEFINE Advances ==
      \A k \in Key :
        \/ windowStart'[k] = windowStart[k] /\ windowCount'[k] >= windowCount[k]
        \/ windowStart[k] = 0
        \/ windowStart'[k] >= windowStart[k] + WindowLength
<1>1. ASSUME TypeOK, [Next]_vars PROVE Advances
  <2> USE <1>1
  <2>1. ASSUME UNCHANGED <<windowStart, windowCount>> PROVE Advances
    BY <2>1 DEF TypeOK
  <2>2. ASSUME NEW h \in Handler, CountAttempt(KeyOf(h), stamp[h]) PROVE Advances
    <3>1. KeyOf(h) \in Key /\ stamp[h] \in Time
      BY KeyOfInKey DEF TypeOK
    <3>2. QED
      BY <2>2, <3>1, CountAttemptAdvances
  <2>3. ASSUME NEW h \in Handler, RejectCap(h) \/ Admit(h) PROVE Advances
    BY <2>2, <2>3 DEF RejectCap, Admit
  <2>4. ASSUME NEW h \in Handler,
               RejectRate(h) \/ Release(h) \/ \E a \in Addr : Arrive(h, a)
        PROVE  Advances
    BY <2>1, <2>4 DEF RejectRate, Release, Arrive, guardVars
  <2>5. ASSUME Tick \/ UNCHANGED vars PROVE Advances
    BY <2>1, <2>5 DEF Tick, guardVars, vars
  <2>6. QED
    BY <2>3, <2>4, <2>5 DEF Next
<1>2. TypeOK /\ [Next]_vars => [Advances]_vars
  BY <1>1
<1>3. QED
  BY <1>2, TypeCorrect, PTL DEF Spec, WindowNeverRewinds

-----------------------------------------------------------------------------
(* A refusal always rests on a limit that the holders really exhaust.      *)
THEOREM RefusalsJustified == Spec => RefusalIsJustified
<1> DEFINE Limited(h) ==
      \/ /\ MaxActiveConnections > 0
         /\ Cardinality(Holders) >= MaxActiveConnections
      \/ /\ MaxConnectionsPerClient > 0
         /\ Cardinality(HoldersOf(KeyOf(h))) >= MaxConnectionsPerClient
      \/ /\ MaxUpgradesPerClientPerMinute > 0
         /\ windowCount[KeyOf(h)] >= MaxUpgradesPerClientPerMinute
         /\ stamp[h] < windowStart[KeyOf(h)] + WindowLength
    Justified ==
      \A h \in Handler :
        phase[h] = "stamped" /\ phase'[h] = "idle" => Limited(h)
<1>1. ASSUME IInv, [Next]_vars PROVE Justified
  <2> SUFFICES ASSUME NEW h \in Handler,
                      phase[h] = "stamped", phase'[h] = "idle"
               PROVE  Limited(h)
    OBVIOUS
  <2> USE <1>1, GuardAssumption
  <2>1. TypeOK /\ SlotsMatchHolders /\ KeyOf(h) \in Key
    BY KeyOfInKey DEF IInv
  <2>2. RejectRate(h) \/ RejectCap(h)
    BY <2>1 DEF Next, Leaves, Arrive, RejectRate, RejectCap, Admit, Release, Tick,
                vars, TypeOK
  <2>3. CASE RejectRate(h)
    <3>1. /\ MaxUpgradesPerClientPerMinute > 0
          /\ AttemptsInWindow(KeyOf(h), stamp[h]) >= MaxUpgradesPerClientPerMinute
      BY <2>3 DEF RejectRate, RateExceeded
    <3>2. ~WindowExpired(KeyOf(h), stamp[h])
      BY <3>1 DEF AttemptsInWindow
    <3>3. QED
      BY <2>1, <3>1, <3>2 DEF AttemptsInWindow, WindowExpired, TypeOK, Time
  <2>4. CASE RejectCap(h)
    BY <2>1, <2>4
       DEF RejectCap, ActiveCapReached, ClientCapReached, SlotsMatchHolders
  <2>5. QED BY <2>2, <2>3, <2>4
<1>2. IInv /\ [Next]_vars => [Justified]_vars
  BY <1>1
<1>3. QED
  BY <1>2, IInvHolds, PTL DEF Spec, RefusalIsJustified

-----------------------------------------------------------------------------
(* A pool of slots counts as the guard does.  (The pool has a Cardinality  *)
(* of its own, from its own instance of FiniteSets.)                       *)
LEMMA PoolCardinality == \A S : Pool!Cardinality(S) = Cardinality(S)
BY DEF Cardinality, Pool!Cardinality

(* What an application may rely on: whatever the limits, the requests that *)
(* hold a slot of the guard move as the slot pool says                     *)
(* (ImplementsSlotPool).                                                   *)
THEOREM GuardImplementsPool == Spec => ImplementsSlotPool
<1> DEFINE own == [h \in Handler |->
                     IF phase[h] = "holding" THEN KeyOf(h) ELSE NoKey]
<1> USE GuardAssumption
<1>1. Init => Pool!Init
  BY DEF Init, Pool!Init
<1>2. ASSUME IInv, [Next]_vars PROVE [Pool!Next]_own
  <2> USE <1>2
  <2>0. /\ TypeOK /\ TypeOK' /\ SlotsMatchHolders
        /\ \A h \in Handler : KeyOf(h) \in Key /\ KeyOf(h) # NoKey
    BY KeyOfInKey, TypeOKStep DEF IInv, Key
  <2>1. ASSUME NEW h \in Handler, Admit(h), NEW k \in Key, k = KeyOf(h)
        PROVE  Pool!Take(h, k)
    <3>1. Pool!Owners = Holders
      BY <2>0 DEF Pool!Owners, Holders
    <3>2. Pool!OwnersOf(k) = HoldersOf(k)
      BY <2>0, <2>1 DEF Pool!OwnersOf, HoldersOf, Holders
    <3>3. /\ MaxActiveConnections = 0
               \/ Cardinality(Holders) < MaxActiveConnections
          /\ MaxConnectionsPerClient = 0
               \/ Cardinality(HoldersOf(k)) < MaxConnectionsPerClient
      BY <2>0, <2>1
         DEF Admit, ActiveCapReached, ClientCapReached, SlotsMatchHolders, TypeOK
    <3>4. Pool!HasRoom(k)
      BY <3>1, <3>2, <3>3, PoolCardinality DEF Pool!HasRoom
    <3>5. own[h] = NoKey /\ own' = [own EXCEPT ![h] = k]
      BY <2>0, <2>1 DEF Admit, KeyOf, TypeOK, Leaves
    <3>6. QED BY <3>4, <3>5 DEF Pool!Take
  <2>2. ASSUME NEW h \in Handler, Release(h) PROVE Pool!GiveBack(h)
    <3>1. own[h] # NoKey /\ own' = [own EXCEPT ![h] = NoKey]
      BY <2>0, <2>2 DEF Release, KeyOf, TypeOK
    <3>2. QED BY <3>1 DEF Pool!GiveBack
  <2>3. ASSUME NEW h \in Handler, NEW a \in Addr, Arrive(h, a) PROVE own' = own
    BY <2>0, <2>3 DEF Arrive, KeyOf, TypeOK
  <2>4. ASSUME NEW h \in Handler, RejectRate(h) \/ RejectCap(h) PROVE own' = own
    BY <2>0, <2>4 DEF RejectRate, RejectCap, KeyOf, TypeOK, Leaves
  <2>5. ASSUME Tick \/ UNCHANGED vars PROVE own' = own
    BY <2>5 DEF Tick, vars, KeyOf
  <2> HIDE DEF own
  <2>6. ASSUME NEW h \in Handler, Admit(h) \/ Release(h) PROVE Pool!Next
    <3>1. PICK k \in Key : k = KeyOf(h)
      BY <2>0
    <3>2. CASE Admit(h)
      BY <2>1, <3>1, <3>2 DEF Pool!Next
    <3>3. CASE Release(h)
      BY <2>2, <3>3 DEF Pool!Next
    <3>4. QED BY <2>6, <3>2, <3>3
  <2>7. QED
    BY <2>3, <2>4, <2>5, <2>6 DEF Next
<1>3. IInv /\ [Next]_vars => [Pool!Next]_own
  BY <1>2
<1>4. QED
  BY <1>1, <1>3, IInvHolds, PTL DEF Spec, ImplementsSlotPool, Pool!Spec

-----------------------------------------------------------------------------
(* How many attempts a client can make in any minute.  Timestamps reach    *)
(* the guard late and out of order, so an attempt counts in its window for *)
(* up to MaxDelay after the window's last tick.                            *)

Limit == MaxUpgradesPerClientPerMinute

(* The last clock reading at which the window of k can book an attempt.    *)
LastOf(k) == windowStart[k] + WindowLength - 1 + MaxDelay

(* The windows of a client start a whole window apart at least, so of      *)
(* those before one that can still book n ticks on, this many attempts at  *)
(* most were booked within these n ticks.                                  *)
Earlier(n) == Limit * (n \div WindowLength)

(* So this many attempts of k at t or later at most.                       *)
RateBound(k, t) ==
  IF windowStart[k] > 0 /\ t <= LastOf(k)
    THEN windowCount[k] + Earlier(LastOf(k) - t)
    ELSE 0

(* The guard's lock comes in time, no window starts in the future, and the *)
(* attempts since any time are within the bound that the window gives.     *)
RateInv ==
  /\ TypeOK
  /\ bookedSince \in [Key -> [Time -> Nat]]
  /\ \A h \in Handler : phase[h] = "stamped" =>
       stamp[h] <= clock /\ clock <= stamp[h] + MaxDelay
  /\ \A k \in Key : windowStart[k] <= clock
  /\ Limit > 0 =>
       \A k \in Key, t \in Time : bookedSince[k][t] <= RateBound(k, t)

-----------------------------------------------------------------------------
(* Division by the window's length does not fall.                          *)
LEMMA DivisionGrows ==
  ASSUME NEW w \in Nat \ {0}, NEW a \in Nat, NEW b \in Int, a <= b
  PROVE  a \div w \in Nat /\ b \div w \in Nat /\ a \div w <= b \div w
<1>1. PICK q \in Int, r \in 0..(w - 1) : a = w * q + r /\ q = a \div w
  OBVIOUS
<1>2. PICK p \in Int, s \in 0..(w - 1) : b = w * p + s /\ p = b \div w
  OBVIOUS
<1>3. q >= 0
  <2>1. ASSUME q <= -1 PROVE FALSE
    <3>1. w * q <= -w
      BY <2>1
    <3>2. QED BY <1>1, <3>1
  <2>2. QED BY <2>1
<1>4. q <= p
  <2>1. ASSUME p <= q - 1 PROVE FALSE
    <3>1. w * p <= w * (q - 1)
      BY <2>1
    <3>2. w * (q - 1) = w * q - w
      OBVIOUS
    <3>3. QED BY <1>1, <1>2, <3>1, <3>2
  <2>2. QED BY <2>1
<1>5. QED BY <1>1, <1>2, <1>3, <1>4

(* A whole window more is one window more.                                 *)
LEMMA DivisionSteps ==
  ASSUME NEW w \in Nat \ {0}, NEW a \in Nat
  PROVE  (a + w) \div w = a \div w + 1
<1>1. PICK q \in Int, r \in 0..(w - 1) : a = w * q + r /\ q = a \div w
  OBVIOUS
<1>2. a + w = w * (q + 1) + r
  BY <1>1
<1>3. (a + w) \div w = q + 1
  BY <1>2
<1>4. QED BY <1>1, <1>3

(* A window that starts a whole window later has one more before it.       *)
LEMMA OneMoreWindow ==
  ASSUME NEW w \in Nat \ {0}, NEW a \in Nat, NEW b \in Int, a + w <= b,
         NEW l \in Nat
  PROVE  l * (b \div w) >= l * (a \div w) + l
<1>1. /\ a \div w \in Nat /\ b \div w \in Nat
      /\ a \div w + 1 <= b \div w
  BY DivisionGrows, DivisionSteps
<1>2. ASSUME NEW p \in Nat, NEW q \in Nat, p + 1 <= q PROVE l * q >= l * p + l
  <2>1. l * q >= l * (p + 1)
    BY <1>2
  <2>2. l * (p + 1) = l * p + l
    OBVIOUS
  <2>3. l * p \in Int /\ l * q \in Int
    OBVIOUS
  <2>4. QED BY <2>1, <2>2, <2>3
<1>3. QED BY <1>1, <1>2

(* The attempts of whole windows are a number.                             *)
LEMMA MoreWindows ==
  ASSUME NEW w \in Nat \ {0}, NEW a \in Nat, NEW l \in Nat
  PROVE  l * (a \div w) \in Nat
<1>1. a \div w \in Nat
  BY DivisionGrows
<1>2. ASSUME NEW p \in Nat PROVE l * p \in Nat
  OBVIOUS
<1>3. QED BY <1>1, <1>2

(* What Earlier is used for: a number, and greater by the limit for every  *)
(* whole window.                                                           *)
LEMMA EarlierGrows ==
  /\ \A n \in Nat : Earlier(n) \in Nat
  /\ \A m, n \in Nat : m + WindowLength <= n => Earlier(n) >= Earlier(m) + Limit
<1>1. WindowLength \in Nat \ {0} /\ Limit \in Nat
  BY GuardAssumption DEF Limit
<1>2. ASSUME NEW n \in Nat PROVE Earlier(n) \in Nat
  BY <1>1, MoreWindows DEF Earlier
<1>3. ASSUME NEW m \in Nat, NEW n \in Nat, m + WindowLength <= n
      PROVE  Earlier(n) >= Earlier(m) + Limit
  BY <1>1, <1>3, OneMoreWindow DEF Earlier
<1>4. QED BY <1>2, <1>3

(* More time never means fewer attempts.                                   *)
LEMMA EarlierKeeps ==
  \A m, n \in Nat : m <= n => Earlier(m) <= Earlier(n)
<1>1. WindowLength \in Nat \ {0} /\ Limit \in Nat
  BY GuardAssumption DEF Limit
<1>2. ASSUME NEW p \in Nat, NEW q \in Nat, p <= q PROVE Limit * p <= Limit * q
  BY <1>1, <1>2
<1>3. ASSUME NEW m \in Nat, NEW n \in Nat, m <= n
      PROVE  /\ m \div WindowLength \in Nat /\ n \div WindowLength \in Nat
             /\ m \div WindowLength <= n \div WindowLength
  BY <1>1, <1>3, DivisionGrows
<1>4. QED BY <1>2, <1>3 DEF Earlier

-----------------------------------------------------------------------------
(* The record does not hinder the guard: its steps are the guard's.        *)
LEMMA RateIsGuard ==
  /\ RateInit => Init
  /\ [RateNext]_rateVars => [Next]_vars
<1>1. RateNext => Next
  BY DEF RateNext, Next, Book
<1>2. UNCHANGED rateVars => UNCHANGED vars
  BY DEF rateVars, vars
<1>3. QED BY <1>1, <1>2 DEF RateInit

(* Before the first request no attempt is recorded.                        *)
LEMMA RateInvInit == RateInit => RateInv
<1> SUFFICES ASSUME RateInit PROVE RateInv
  OBVIOUS
<1>1. TypeOK
  BY TypeOKInit, RateIsGuard
<1>2. bookedSince = [k \in Key |-> [t \in Time |-> 0]]
  BY DEF RateInit
<1>3. QED
  BY <1>1, <1>2, GuardAssumption DEF RateInit, RateInv, Init, RateBound

(* An attempt booked at now, in a window that may be new, is within the    *)
(* bound that the window then gives.                                       *)
LEMMA BookingBound ==
  ASSUME RateInv, TypeOK', Limit > 0, NEW k \in Key, NEW now \in Time,
         ~RateExceeded(k, now), CountAttempt(k, now),
         now <= clock, clock <= now + MaxDelay,
         NEW t \in Time, t <= clock
  PROVE  bookedSince[k][t] + 1 <= RateBound(k, t)'
<1> USE GuardAssumption DEF Time, Limit
<1>0. /\ TypeOK /\ windowStart[k] \in 0..MaxClock /\ windowCount[k] \in 0..Limit
      /\ bookedSince[k][t] \in Nat /\ bookedSince[k][t] <= RateBound(k, t)
      /\ clock \in Nat
  <2>1. bookedSince[k][t] \in Nat /\ bookedSince[k][t] <= RateBound(k, t)
    BY DEF RateInv
  <2>2. TypeOK
    BY DEF RateInv
  <2>3. clock \in Nat
    BY <2>2 DEF TypeOK
  <2>4. QED BY <2>1, <2>2, <2>3 DEF TypeOK
<1>1. CASE WindowExpired(k, now)
  <2>1. windowStart'[k] = now /\ windowCount'[k] = 1
    BY <1>0, <1>1 DEF CountAttempt, AttemptsInWindow, TypeOK
  <2>2. LastOf(k)' = now + WindowLength - 1 + MaxDelay
    BY <2>1 DEF LastOf
  <2>3. now + WindowLength - 1 + MaxDelay - t \in Nat
    BY <1>0
  <2>4. RateBound(k, t)' =
          1 + Earlier(now + WindowLength - 1 + MaxDelay - t)
    BY <2>1, <2>2, <2>3 DEF RateBound
  <2>5. CASE windowStart[k] > 0 /\ t <= LastOf(k)
    <3>1. windowStart[k] + WindowLength <= now
      BY <1>0, <1>1, <2>5 DEF WindowExpired
    <3>2. LastOf(k) - t \in Nat
      BY <1>0, <2>5 DEF LastOf
    <3>3. (LastOf(k) - t) + WindowLength <= now + WindowLength - 1 + MaxDelay - t
      BY <1>0, <3>1 DEF LastOf
    <3>4. Earlier(now + WindowLength - 1 + MaxDelay - t)
            >= Earlier(LastOf(k) - t) + Limit
      BY <2>3, <3>2, <3>3, EarlierGrows
    <3>5. RateBound(k, t) = windowCount[k] + Earlier(LastOf(k) - t)
      BY <2>5 DEF RateBound
    <3>6. /\ Earlier(LastOf(k) - t) \in Nat
          /\ Earlier(now + WindowLength - 1 + MaxDelay - t) \in Nat
      BY <2>3, <3>2, EarlierGrows
    <3>7. QED
      BY <1>0, <2>4, <3>4, <3>5, <3>6
  <2>6. CASE ~(windowStart[k] > 0 /\ t <= LastOf(k))
    <3>1. bookedSince[k][t] = 0
      BY <1>0, <2>6 DEF RateBound
    <3>2. Earlier(now + WindowLength - 1 + MaxDelay - t) \in Nat
      BY <2>3, EarlierGrows
    <3>3. QED BY <2>4, <3>1, <3>2
  <2>7. QED BY <2>5, <2>6
<1>2. CASE ~WindowExpired(k, now)
  <2>1. windowStart'[k] = windowStart[k] /\ windowCount'[k] = windowCount[k] + 1
    BY <1>0, <1>2 DEF CountAttempt, AttemptsInWindow, TypeOK
  <2>2. windowStart[k] > 0 /\ now < windowStart[k] + WindowLength
    BY <1>0, <1>2 DEF WindowExpired
  <2>3. t <= LastOf(k)
    BY <1>0, <2>2 DEF LastOf
  <2>4. LastOf(k)' = LastOf(k)
    BY <2>1 DEF LastOf
  <2>5. LastOf(k) - t \in Nat
    BY <1>0, <2>3 DEF LastOf
  <2>6. Earlier(LastOf(k) - t) \in Nat
    BY <2>5, EarlierGrows
  <2>7. /\ RateBound(k, t) = windowCount[k] + Earlier(LastOf(k) - t)
        /\ RateBound(k, t)' = windowCount[k] + 1 + Earlier(LastOf(k) - t)
    BY <1>0, <2>1, <2>2, <2>3, <2>4 DEF RateBound
  <2>8. QED BY <1>0, <2>6, <2>7
<1>3. QED BY <1>1, <1>2

(* An attempt of another client, or booked before t, is none of the        *)
(* attempts at t or later: the bound on these does not fall.               *)
LEMMA BoundKeeps ==
  ASSUME RateInv, TypeOK', NEW k \in Key, NEW now \in Time,
         ~RateExceeded(k, now), CountAttempt(k, now),
         now <= clock, clock <= now + MaxDelay,
         NEW j \in Key, NEW t \in Time, j # k \/ clock < t, Limit > 0
  PROVE  bookedSince[j][t] <= RateBound(j, t)'
<1> USE GuardAssumption DEF Time, Limit
<1>0. /\ TypeOK /\ windowStart[j] \in 0..MaxClock /\ windowCount[j] \in 0..Limit
      /\ bookedSince[j][t] \in Nat /\ bookedSince[j][t] <= RateBound(j, t)
      /\ clock \in Nat
  <2>1. bookedSince[j][t] \in Nat /\ bookedSince[j][t] <= RateBound(j, t)
    BY DEF RateInv
  <2>2. TypeOK
    BY DEF RateInv
  <2>3. clock \in Nat
    BY <2>2 DEF TypeOK
  <2>4. QED BY <2>1, <2>2, <2>3 DEF TypeOK
<1>1. CASE j # k
  <2>1. windowStart'[j] = windowStart[j] /\ windowCount'[j] = windowCount[j]
    BY <1>0, <1>1 DEF CountAttempt, TypeOK
  <2>2. QED BY <1>0, <2>1 DEF RateBound, LastOf
<1>2. CASE j = k
  <2>1. PICK w \in 0..MaxClock, c \in 1..Limit :
           /\ windowStart'[k] = w /\ windowCount'[k] = c
           /\ w >= windowStart[k] /\ c >= 1 /\ w > 0
           /\ w > windowStart[k] => w >= windowStart[k] + WindowLength \/ windowStart[k] = 0
           /\ w = windowStart[k] => c >= windowCount[k]
    <3>1. AttemptsInWindow(k, now) + 1 \in 1..Limit
      BY <1>0, <1>2 DEF RateExceeded, AttemptsInWindow
    <3>2. QED
      BY <1>0, <1>2, <3>1 DEF CountAttempt, AttemptsInWindow, WindowExpired, TypeOK
  <2>2. CASE windowStart[k] > 0 /\ t <= LastOf(k)
    <3>1. LastOf(k)' = w + WindowLength - 1 + MaxDelay
      BY <2>1 DEF LastOf
    <3>2. LastOf(k) - t \in Nat
      BY <1>0, <1>2, <2>2 DEF LastOf
    <3>3. /\ RateBound(k, t) = windowCount[k] + Earlier(LastOf(k) - t)
          /\ RateBound(k, t)' =
               c + Earlier(w + WindowLength - 1 + MaxDelay - t)
      BY <1>0, <1>2, <2>1, <2>2, <3>1 DEF RateBound, LastOf
    <3>4. CASE w = windowStart[k]
      <4>1. w + WindowLength - 1 + MaxDelay - t = LastOf(k) - t
        BY <3>4 DEF LastOf
      <4>2. Earlier(LastOf(k) - t) \in Nat
        BY <3>2, EarlierGrows
      <4>3. RateBound(k, t)' = c + Earlier(LastOf(k) - t)
        BY <3>3, <4>1
      <4>4. QED BY <1>0, <1>2, <2>1, <3>3, <3>4, <4>2, <4>3
    <3>5. CASE w # windowStart[k]
      <4>1. (LastOf(k) - t) + WindowLength <= w + WindowLength - 1 + MaxDelay - t
        BY <1>0, <1>2, <2>1, <2>2, <3>5 DEF LastOf
      <4>2. w + WindowLength - 1 + MaxDelay - t \in Nat
        BY <3>2, <4>1
      <4>3. Earlier(w + WindowLength - 1 + MaxDelay - t)
              >= Earlier(LastOf(k) - t) + Limit
        BY <3>2, <4>1, <4>2, EarlierGrows
      <4>4. /\ Earlier(LastOf(k) - t) \in Nat
            /\ Earlier(w + WindowLength - 1 + MaxDelay - t) \in Nat
        BY <3>2, <4>2, EarlierGrows
      <4>5. QED BY <1>0, <1>2, <2>1, <3>3, <4>3, <4>4
    <3>6. QED BY <3>4, <3>5
  <2>3. CASE ~(windowStart[k] > 0 /\ t <= LastOf(k))
    <3>1. bookedSince[k][t] = 0
      BY <1>0, <1>2, <2>3 DEF RateBound
    <3>2. CASE t <= LastOf(k)'
      <4>1. w + WindowLength - 1 + MaxDelay - t \in Nat
        BY <2>1, <3>2 DEF LastOf
      <4>2. Earlier(w + WindowLength - 1 + MaxDelay - t) \in Nat
        BY <4>1, EarlierGrows
      <4>3. RateBound(k, t)' =
              c + Earlier(w + WindowLength - 1 + MaxDelay - t)
        BY <2>1, <3>2 DEF RateBound, LastOf
      <4>4. QED BY <1>2, <2>1, <3>1, <4>2, <4>3
    <3>3. CASE ~(t <= LastOf(k)')
      BY <1>2, <3>1, <3>3 DEF RateBound
    <3>4. QED BY <3>2, <3>3
  <2>4. QED BY <1>2, <2>2, <2>3
<1>3. QED BY <1>1, <1>2

(* Booking an attempt keeps the record within the bounds.                  *)
LEMMA BookKeeps ==
  ASSUME RateInv, TypeOK', NEW h \in Handler, Book(h)
  PROVE  RateInv'
<1> USE GuardAssumption
<1>1. PICK k \in Key, now \in Time : k = KeyOf(h) /\ now = stamp[h]
  BY KeyOfInKey DEF RateInv, TypeOK
<1>2. /\ phase[h] = "stamped" /\ ~RateExceeded(k, now) /\ CountAttempt(k, now)
      /\ clock' = clock
      /\ \E p \in {"idle", "holding"} : Leaves(h, p)
  BY <1>1 DEF Book, RejectCap, Admit
<1>3. now <= clock /\ clock <= now + MaxDelay
  BY <1>1, <1>2 DEF RateInv
<1>4. /\ TypeOK /\ bookedSince \in [Key -> [Time -> Nat]]
      /\ clock \in Time
      /\ bookedSince' = [bookedSince EXCEPT ![k] =
           [t \in Time |-> IF t <= clock THEN @[t] + 1 ELSE @[t]]]
  BY <1>1 DEF RateInv, Book, TypeOK
<1>5. bookedSince' \in [Key -> [Time -> Nat]]
  BY <1>4
<1>6. ASSUME NEW g \in Handler, phase'[g] = "stamped"
      PROVE  stamp'[g] <= clock' /\ clock' <= stamp'[g] + MaxDelay
  <2>1. g # h /\ phase[g] = "stamped" /\ stamp'[g] = stamp[g]
    BY <1>2, <1>4, <1>6 DEF Leaves, TypeOK
  <2>2. QED BY <1>2, <2>1 DEF RateInv
<1>7. ASSUME NEW j \in Key PROVE windowStart'[j] <= clock'
  <2>1. windowStart[j] <= clock
    BY DEF RateInv
  <2>2. QED BY <1>2, <1>3, <1>4, <2>1 DEF CountAttempt, TypeOK
<1>8. ASSUME Limit > 0, NEW j \in Key, NEW t \in Time
      PROVE  bookedSince'[j][t] <= RateBound(j, t)'
  <2>1. CASE j = k /\ t <= clock
    <3>1. bookedSince'[j][t] = bookedSince[j][t] + 1
      BY <1>4, <2>1
    <3>2. QED BY <1>2, <1>3, <1>8, <2>1, <3>1, BookingBound
  <2>2. CASE j # k \/ clock < t
    <3>1. bookedSince'[j][t] = bookedSince[j][t]
      BY <1>4, <2>2 DEF Time
    <3>2. QED BY <1>2, <1>3, <1>8, <2>2, <3>1, BoundKeeps
  <2>3. QED BY <1>4, <2>1, <2>2 DEF Time
<1>9. QED BY <1>5, <1>6, <1>7, <1>8 DEF RateInv, Limit

(* A step that books nothing keeps every bound as it was.                  *)
LEMMA OthersKeep ==
  ASSUME RateInv, TypeOK', UNCHANGED <<bookedSince, windowStart, windowCount>>,
         clock \in Nat, clock' \in Nat, clock <= clock',
         \A h \in Handler : phase'[h] = "stamped" =>
           stamp'[h] <= clock' /\ clock' <= stamp'[h] + MaxDelay
  PROVE  RateInv'
<1>1. \A k \in Key : windowStart'[k] <= clock'
  BY DEF RateInv, TypeOK
<1>2. \A k, t : RateBound(k, t)' = RateBound(k, t)
  BY DEF RateBound, LastOf
<1>3. QED BY <1>1, <1>2 DEF RateInv, Limit

(* Every step keeps the record within the bounds: those that book an       *)
(* attempt by BookKeeps, the others by OthersKeep.                         *)
LEMMA RateInvStep == RateInv /\ [RateNext]_rateVars => RateInv'
<1> SUFFICES ASSUME RateInv, [RateNext]_rateVars PROVE RateInv'
  OBVIOUS
<1> USE GuardAssumption
<1>1. TypeOK /\ TypeOK'
  BY RateIsGuard, TypeOKStep DEF RateInv
<1>2. clock \in Nat /\ clock' \in Nat
  BY <1>1 DEF TypeOK, Time
<1>3. \A h \in Handler : phase[h] = "stamped" =>
        stamp[h] <= clock /\ clock <= stamp[h] + MaxDelay
  BY DEF RateInv
<1>4. ASSUME NEW h \in Handler, Book(h) PROVE RateInv'
  BY <1>1, <1>4, BookKeeps
<1>5. ASSUME NEW h \in Handler, NEW a \in Addr, Arrive(h, a), UNCHANGED bookedSince
      PROVE  RateInv'
  <2>1. UNCHANGED <<bookedSince, windowStart, windowCount, clock>>
    BY <1>5 DEF Arrive, guardVars
  <2>2. \A g \in Handler : phase'[g] = "stamped" =>
          stamp'[g] <= clock' /\ clock' <= stamp'[g] + MaxDelay
    BY <1>1, <1>2, <1>3, <1>5 DEF Arrive, TypeOK
  <2>3. QED BY <1>1, <1>2, <2>1, <2>2, OthersKeep
<1>6. ASSUME NEW h \in Handler, RejectRate(h) \/ Release(h), UNCHANGED bookedSince
      PROVE  RateInv'
  <2>1. UNCHANGED <<bookedSince, windowStart, windowCount, clock>>
    BY <1>6 DEF RejectRate, Release, guardVars
  <2>2. \A g \in Handler : phase'[g] = "stamped" =>
          phase[g] = "stamped" /\ stamp'[g] = stamp[g]
    BY <1>1, <1>6 DEF RejectRate, Release, Leaves, TypeOK
  <2>3. QED BY <1>1, <1>2, <1>3, <2>1, <2>2, OthersKeep
<1>7. ASSUME Tick, UNCHANGED bookedSince PROVE RateInv'
  <2>1. UNCHANGED <<bookedSince, windowStart, windowCount, phase, stamp>>
    BY <1>7 DEF Tick, guardVars
  <2>2. ASSUME NEW g \in Handler, phase[g] = "stamped"
        PROVE  stamp[g] <= clock' /\ clock' <= stamp[g] + MaxDelay
    <3>1. stamp[g] \in Nat
      BY <1>1 DEF TypeOK, Time
    <3>2. QED BY <1>2, <1>3, <1>7, <2>2, <3>1 DEF Tick
  <2>3. clock <= clock'
    BY <1>2, <1>7 DEF Tick
  <2>4. QED BY <1>1, <1>2, <2>1, <2>2, <2>3, OthersKeep
<1>8. ASSUME UNCHANGED rateVars PROVE RateInv'
  BY <1>1, <1>2, <1>3, <1>8, OthersKeep DEF rateVars
<1>9. QED
  BY <1>4, <1>5, <1>6, <1>7, <1>8 DEF RateNext

(* Over any minute of the wall clock a client's booked attempts are at     *)
(* most the limit times the windows that the minute can touch.             *)
THEOREM AttemptsBounded == RateSpec => []AttemptsInAnyMinute
<1>1. ASSUME RateInv PROVE AttemptsInAnyMinute
  <2> DEFINE from == IF clock > WindowLength THEN clock - WindowLength + 1 ELSE 1
             span == 2 * WindowLength + MaxDelay - 2
  <2> SUFFICES ASSUME Limit > 0, NEW k \in Key
               PROVE  bookedSince[k][from] <= WindowsPerMinute * Limit
    BY DEF AttemptsInAnyMinute, Limit
  <2> USE GuardAssumption
  <2>1. TypeOK
    BY <1>1 DEF RateInv
  <2>2. /\ clock \in Time /\ from \in Time /\ span \in Nat
        /\ windowStart[k] \in 0..MaxClock /\ windowCount[k] \in 0..Limit
        /\ Limit \in Nat
    BY <2>1 DEF TypeOK, Time, Limit
  <2>3. windowStart[k] <= clock
    BY <1>1 DEF RateInv
  <2>4. bookedSince[k][from] \in Nat /\ bookedSince[k][from] <= RateBound(k, from)
    BY <1>1, <2>2 DEF RateInv
  <2>5. span \div WindowLength \in Nat /\ WindowsPerMinute = 1 + (span \div WindowLength)
    BY <2>2, DivisionGrows DEF WindowsPerMinute
  <2>6. WindowsPerMinute * Limit = Limit + Earlier(span)
    <3>1. ASSUME NEW q \in Nat, NEW l \in Nat PROVE (1 + q) * l = l + l * q
      OBVIOUS
    <3>2. QED BY <2>2, <2>5, <3>1 DEF Earlier
  <2>7. CASE windowStart[k] > 0 /\ from <= LastOf(k)
    <3>1. LastOf(k) - from \in Nat /\ LastOf(k) - from <= span
      BY <2>2, <2>3, <2>7 DEF LastOf, Time
    <3>2. Earlier(LastOf(k) - from) <= Earlier(span)
      BY <2>2, <3>1, EarlierKeeps
    <3>3. Earlier(LastOf(k) - from) \in Nat /\ Earlier(span) \in Nat
      BY <2>2, <3>1, EarlierGrows
    <3>4. RateBound(k, from) = windowCount[k] + Earlier(LastOf(k) - from)
      BY <2>7 DEF RateBound
    <3> HIDE DEF from, span
    <3>5. QED BY <2>2, <2>4, <2>6, <3>2, <3>3, <3>4
  <2>8. CASE ~(windowStart[k] > 0 /\ from <= LastOf(k))
    <3>1. bookedSince[k][from] = 0
      BY <2>4, <2>8 DEF RateBound
    <3>2. Earlier(span) \in Nat
      BY <2>2, EarlierGrows
    <3> HIDE DEF from, span
    <3>3. QED BY <2>2, <2>6, <3>1, <3>2
  <2>9. QED BY <2>7, <2>8
<1>2. QED
  BY <1>1, RateInvInit, RateInvStep, PTL DEF RateSpec
=============================================================================
