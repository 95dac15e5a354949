---------------------------- MODULE MessageQueue ----------------------------
(***************************************************************************)
(* The queue of browserWebSocketConnection (pkg/wasm/dialer/               *)
(* websocket_conn.go) as it is stored: a slice whose first                 *)
(* shiftQueueStart elements are consumed, and which is compacted from time *)
(* to time so that it is neither copied at each read nor grows without     *)
(* need.  The steps are the critical sections of queueMu.  WasmConn takes  *)
(* the same queue as a sequence and counts its bytes; BrowserConn composes *)
(* the two.  A message that is refused leads to closeChannels.             *)
(***************************************************************************)
EXTENDS Integers, Sequences

CONSTANTS
  Message,
  Nil,                             \* a cell that holds no message
  InitialCapacity,                 \* 8 in the code
  limitConnectionQueuedMessages    \* 256 in the code

(* Assumed where the queue is used (BrowserConn) and by the theorems.      *)
QueueAssumption ==
  /\ Nil \notin Message
  /\ InitialCapacity \in Nat \ {0}
  /\ limitConnectionQueuedMessages \in Nat \ {0}

VARIABLES
  cell,             \* the array behind queuedMessages, beyond its length too
  length,           \* len(queuedMessages)
  capacity,         \* cap(queuedMessages)
  shiftQueueStart,
  isClosed,
  shifted           \* the latest result of shiftQueuedMessage

vars == <<cell, length, capacity, shiftQueueStart, isClosed, shifted>>

Init ==
  /\ cell = [i \in 0..(InitialCapacity - 1) |-> Nil]
  /\ length = 0 /\ capacity = InitialCapacity /\ shiftQueueStart = 0
  /\ isClosed = FALSE /\ shifted = Nil

(* How many messages wait.                                                 *)
Depth == length - shiftQueueStart

-----------------------------------------------------------------------------
(* Wrong...: plausible bugs in the definition that follows, see README.    *)
WrongCompacts(start) == start # 0 /\ start >= length \div 2

(* clearQueuedMessagesHeadLocked: half of the slice is consumed, or there  *)
(* is no room behind it.                                                   *)
Compacts(start) == start # 0 /\ (start >= length \div 2 \/ length = capacity)

WrongCompacted(array, start) ==
  [i \in 0..(capacity - 1) |->
     IF i < length - start THEN array[start + i] ELSE array[i]]

Compacted(array, start) ==
  [i \in 0..(capacity - 1) |->
     IF i < length - start THEN array[start + i]
     ELSE IF i < length THEN Nil
     ELSE array[i]]

WrongClearHead(array, start) ==
  /\ cell' = IF Compacts(start) THEN Compacted(array, start) ELSE array
  /\ length' = IF Compacts(start) THEN length - start ELSE length
  /\ shiftQueueStart' = start

(* What the compaction leaves of an array with start consumed elements.    *)
ClearHead(array, start) ==
  IF Compacts(start)
    THEN /\ cell' = Compacted(array, start)
         /\ length' = length - start
         /\ shiftQueueStart' = 0
    ELSE /\ cell' = array
         /\ length' = length
         /\ shiftQueueStart' = start

-----------------------------------------------------------------------------
(* Go's append: doubles a small slice that is full (external).             *)
Grown(c) == 2 * c

CapacityFor(n) == IF n < capacity THEN capacity ELSE Grown(capacity)

Appended(array, n, m) ==
  [i \in 0..(CapacityFor(n) - 1) |->
     IF i = n THEN m ELSE IF i < capacity THEN array[i] ELSE Nil]

(* An array of which the first n cells are in use, and then one more.      *)
AppendTo(array, n, m) ==
  /\ cell' = Appended(array, n, m)
  /\ capacity' = CapacityFor(n)
  /\ length' = n + 1

(* storeIncomingMessage, when the queue has room.                          *)
storeIncomingMessage(m) ==
  /\ ~isClosed
  /\ Depth < limitConnectionQueuedMessages
  /\ IF Compacts(shiftQueueStart)
       THEN /\ AppendTo(Compacted(cell, shiftQueueStart), Depth, m)
            /\ shiftQueueStart' = 0
       ELSE /\ AppendTo(cell, length, m)
            /\ UNCHANGED shiftQueueStart
  /\ UNCHANGED <<isClosed, shifted>>

(* The oldest message, whose cell is emptied; a slice that is consumed to  *)
(* the end starts again at its front.                                      *)
Shift ==
  IF shiftQueueStart >= length
    THEN shifted' = Nil /\ UNCHANGED <<cell, length, shiftQueueStart>>
    ELSE /\ shifted' = cell[shiftQueueStart]
         /\ LET rest == [cell EXCEPT ![shiftQueueStart] = Nil]
            IN  IF shiftQueueStart + 1 >= length
                  THEN cell' = rest /\ length' = 0 /\ shiftQueueStart' = 0
                  ELSE ClearHead(rest, shiftQueueStart + 1)

shiftQueuedMessage == Shift /\ UNCHANGED <<capacity, isClosed>>

(* closeChannels' part; an overflow comes to it as well.                   *)
closeChannels ==
  /\ ~isClosed
  /\ isClosed' = TRUE
  /\ cell' = [i \in {} |-> Nil] /\ length' = 0 /\ capacity' = 0 /\ shiftQueueStart' = 0
  /\ UNCHANGED shifted

Next ==
  \/ \E m \in Message : storeIncomingMessage(m)
  \/ shiftQueuedMessage
  \/ closeChannels

Spec == Init /\ [][Next]_vars

-----------------------------------------------------------------------------
(* A message that was read, or whose connection was closed, is held by no  *)
(* cell of the array, neither in the consumed head nor behind the length,  *)
(* where the slice does not show it but the garbage collector finds it.    *)
OnlyQueuedHeld ==
  \A i \in 0..(capacity - 1) :
    cell[i] # Nil <=> i \in shiftQueueStart..(length - 1)

(* A reader that keeps up a little, for however long, does not make the    *)
(* slice grow: append only enlarges it when every cell holds a message     *)
(* that waits, so it never has more than twice the cells it needs.         *)
SpaceBounded ==
  \/ capacity <= InitialCapacity
  \/ capacity <= Grown(limitConnectionQueuedMessages - 1)

(* The slice with its offset, compacted at any time, is the queue:         *)
(* messages come out once each and in their order.                         *)
Fifo == INSTANCE MessageFifo WITH
          Limit <- limitConnectionQueuedMessages,
          fifo <- [i \in 1..Depth |-> cell[shiftQueueStart + i - 1]]
ImplementsFifo == Fifo!Spec
=============================================================================
