------------------------------ MODULE SlotPool ------------------------------
(***************************************************************************)
(* What the admission guard promises, without counters, locks or clocks: a *)
(* request owns at most one slot, a slot is only handed out while there is *)
(* room for it, and a slot is free again as soon as its owner is done.     *)
(***************************************************************************)
EXTENDS Integers, FiniteSets

CONSTANTS
  Handler, Key,
  NoKey,             \* "owns no slot"
  MaxActiveConnections, MaxConnectionsPerClient   \* 0: no limit

VARIABLE owner       \* the key a request's slot is booked under, or NoKey

Owners == {h \in Handler : owner[h] # NoKey}
OwnersOf(k) == {h \in Handler : owner[h] = k}

HasRoom(k) ==
  /\ MaxActiveConnections = 0 \/ Cardinality(Owners) < MaxActiveConnections
  /\ MaxConnectionsPerClient = 0
       \/ Cardinality(OwnersOf(k)) < MaxConnectionsPerClient

Init == owner = [h \in Handler |-> NoKey]

Take(h, k) ==
  /\ owner[h] = NoKey
  /\ HasRoom(k)
  /\ owner' = [owner EXCEPT ![h] = k]

GiveBack(h) ==
  /\ owner[h] # NoKey
  /\ owner' = [owner EXCEPT ![h] = NoKey]

Next == \E h \in Handler : GiveBack(h) \/ \E k \in Key : Take(h, k)

Spec == Init /\ [][Next]_owner
=============================================================================
