----------------------------- MODULE BrowserConn -----------------------------
(***************************************************************************)
(* The browser connection over the slice that holds its queue: WasmConn    *)
(* composed with MessageQueue.  What WasmConn does to the sequence in one  *)
(* critical section of queueMu, the slice does in the same one.            *)
(***************************************************************************)
EXTENDS WasmConn

CONSTANTS Nil, InitialCapacity

VARIABLES cell, length, capacity, shiftQueueStart, shifted

sliceVars == <<cell, length, capacity, shiftQueueStart, shifted>>

Frame(first, n) == [i \in 1..n |-> first + i]

Frames == {Frame(k, n) : k \in 0..MaxSent, n \in 0..MaxFrame}

(* The slice is closed when the teardown has dropped it.                   *)
Dropped == once \in {"buffer", "errors", "done"}

Slice == INSTANCE MessageQueue WITH Message <- Frames, isClosed <- Dropped

ASSUME BrowserConnAssumption == Slice!QueueAssumption

ConnInit == Init /\ Slice!Init

-----------------------------------------------------------------------------
StoreMessage(n) ==
  /\ OnMessage(n)
  /\ IF Overflows(n) THEN UNCHANGED sliceVars
                     ELSE Slice!storeIncomingMessage(Frame(sent, n))

TakeMessage ==
  /\ ReadWaits \/ \E n \in 1..MaxFrame : ReadShifts(n)
  /\ Slice!shiftQueuedMessage

DropMessages(p) == CloseDropsQueue(p) /\ Slice!closeChannels

(* The steps that do not touch the queue.                                  *)
OtherStep ==
  /\ \/ OnError \/ OnClose \/ Close
     \/ \E n \in 1..MaxFrame : ReadBegins(n)
     \/ ReadGetsError \/ ReadGetsSignal
     \/ Signal \/ SendError \/ CallbackClosesSocket \/ CloserClosesSocket
     \/ \E p \in {"callback", "closer"} :
          \/ CloseEnters(p) \/ CloseDropsBuffer(p)
          \/ CloseClosesErrors(p) \/ CloseFindsDone(p)
  /\ UNCHANGED sliceVars

ConnNext ==
  \/ \E n \in 0..MaxFrame : StoreMessage(n)
  \/ TakeMessage
  \/ \E p \in {"callback", "closer"} : DropMessages(p)
  \/ OtherStep

ConnSpec == ConnInit /\ [][ConnNext]_<<vars, sliceVars>> /\ Fairness

-----------------------------------------------------------------------------
(* The slice is the queue that the connection counts on, through any       *)
(* mixture of appends, reads, compactions and growth: it has the waiting   *)
(* messages in their order, no other cell keeps a message alive, and the   *)
(* array does not grow with the time the connection is in use.             *)
SliceIsTheQueue ==
  /\ queue = [i \in 1..Slice!Depth |-> cell[shiftQueueStart + i - 1]]
  /\ Slice!OnlyQueuedHeld
  /\ Slice!SpaceBounded
=============================================================================
