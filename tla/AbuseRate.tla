----------------------------- MODULE AbuseRate ------------------------------
(***************************************************************************)
(* The guard with a record of when each attempt was booked, to state what  *)
(* its fixed one-minute windows mean for a client's attempts in any minute.*)
(***************************************************************************)
EXTENDS AbuseGuard

VARIABLE bookedSince   \* per key and time: attempts booked then or later

rateVars == <<clock, active, clientConns, windowStart, windowCount,
              phase, addr, stamp, bookedSince>>

RateInit == Init /\ bookedSince = [k \in Key |-> [t \in Time |-> 0]]

Book(h) ==
  /\ RejectCap(h) \/ Admit(h)
  /\ bookedSince' = [bookedSince EXCEPT ![KeyOf(h)] =
                       [t \in Time |-> IF t <= clock THEN @[t] + 1 ELSE @[t]]]

RateNext ==
  \/ \E h \in Handler : Book(h)
  \/ /\ \/ \E h \in Handler :
             RejectRate(h) \/ Release(h) \/ \E a \in Addr : Arrive(h, a)
        \/ Tick
     /\ UNCHANGED bookedSince

RateSpec == RateInit /\ [][RateNext]_rateVars

-----------------------------------------------------------------------------
\* How many windows can have attempts booked within one minute: a window that
\* starts at s books from s to s + WindowLength - 1 + MaxDelay, and starts are
\* at least WindowLength apart.  Two, and more when the lock is slow to come.
WindowsPerMinute == 1 + (2 * WindowLength + MaxDelay - 2) \div WindowLength

(* Over any minute of the wall clock, a client's booked attempts are at    *)
(* most the limit times the number of windows that minute can touch.  The  *)
(* limit itself is not a bound: windows are fixed, not sliding.            *)
AttemptsInAnyMinute ==
  MaxUpgradesPerClientPerMinute > 0 =>
    \A k \in Key :
      LET from == IF clock > WindowLength THEN clock - WindowLength + 1 ELSE 1
      IN  bookedSince[k][from]
            <= WindowsPerMinute * MaxUpgradesPerClientPerMinute
=============================================================================
