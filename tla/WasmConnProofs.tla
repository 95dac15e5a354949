-------------------------- MODULE WasmConnProofs --------------------------
(***************************************************************************)
(* The browser connection, for any limits, frame sizes and capacity of the *)
(* error channel: its teardown and wakeups, the bytes it hands on, the     *)
(* slice that holds its queue, and the composition of the two.             *)
(***************************************************************************)
EXTENDS BrowserConn, SequenceFacts

(* What the steps of closeChannels have done so far, and that nobody       *)
(* undoes it: isClosed is set before anything is dropped and keeps         *)
(* messages and readers out, and a reader that is under way has no tail.   *)
TeardownInv ==
  /\ once \in {"free", "queue", "buffer", "errors", "done"}
  /\ isClosed <=> once # "free"
  /\ errorsClosed => once = "done"
  /\ once \in {"buffer", "errors", "done"} => queue = <<>>
  /\ once \in {"errors", "done"} => buffer = <<>> /\ (array = 0 \/ skipped)
  /\ reader # "idle" => buffer = <<>>

(* What the three safety properties of the teardown and the wakeup need.   *)
(* A reader in select has a token, an error or a teardown to come for any  *)
(* message that is queued.                                                 *)
SafetyInv == TeardownInv /\ errors \in Nat /\ NoLostWakeup /\ NoSendOnClosed

-----------------------------------------------------------------------------
(* A connection starts with nothing queued and nobody waiting.             *)
LEMMA SafetyInit == Init => SafetyInv
BY DEF Init, SafetyInv, TeardownInv, NoLostWakeup, NoSendOnClosed

(* The callbacks of the browser and the call of Close.                     *)
LEMMA EventSteps ==
  ASSUME SafetyInv,
         (\E n \in 0..MaxFrame : OnMessage(n)) \/ OnError \/ OnClose \/ Close
  PROVE  SafetyInv'
<1> USE DEF SafetyInv, TeardownInv, NoLostWakeup, NoSendOnClosed, Event,
            queueVars, tailVars, errorVars, onceVars
<1>1. ASSUME NEW n \in 0..MaxFrame, OnMessage(n) PROVE SafetyInv'
  <2>1. UNCHANGED <<tailVars, signal, errorVars, onceVars, reader>> /\ once = "free"
    BY <1>1 DEF OnMessage
  <2>2. queue' = queue \/ callback' = "signal"
    BY <1>1 DEF OnMessage
  <2>3. callback = "idle"
    BY <1>1 DEF OnMessage
  <2> QED
    BY <2>1, <2>2, <2>3
<1>2. CASE OnError
  BY <1>2 DEF OnError
<1>3. CASE OnClose
  BY <1>3 DEF OnClose
<1>4. CASE Close
  BY <1>4 DEF Close
<1> QED
  BY <1>1, <1>2, <1>3, <1>4

(* The callback that reports an error looks at isClosed under the lock     *)
(* that closing the channel takes.                                         *)
LEMMA CallbackSteps ==
  ASSUME SafetyInv, Signal \/ SendError \/ CallbackClosesSocket \/ CloserClosesSocket
  PROVE  SafetyInv'
<1> USE DEF SafetyInv, TeardownInv, NoLostWakeup, NoSendOnClosed,
            queueVars, tailVars, errorVars, onceVars
<1>1. CASE Signal
  BY <1>1 DEF Signal
<1>2. CASE SendError
  <2>1. UNCHANGED <<queueVars, errorsClosed, onceVars, reader>> /\ callback # "signal"
    BY <1>2 DEF SendError
  <2>2. ~panicked'
    BY <1>2 DEF SendError, StoreError, MaySendError
  <2>3. errors' \in Nat /\ (errors > 0 => errors' > 0)
    BY <1>2 DEF SendError, StoreError
  <2> QED
    BY <2>1, <2>2, <2>3
<1>3. CASE CallbackClosesSocket
  BY <1>3 DEF CallbackClosesSocket
<1>4. CASE CloserClosesSocket
  BY <1>4 DEF CloserClosesSocket
<1> QED
  BY <1>1, <1>2, <1>3, <1>4

(* The steps of closeChannels, in whichever goroutine.                     *)
LEMMA CloseSteps ==
  ASSUME SafetyInv, NEW p, CloseStep(p)
  PROVE  SafetyInv'
<1> USE DEF SafetyInv, TeardownInv, NoLostWakeup, NoSendOnClosed,
            queueVars, tailVars, errorVars, onceVars
<1>1. CASE CloseEnters(p)
  BY <1>1 DEF CloseEnters
<1>2. CASE CloseDropsQueue(p)
  BY <1>2 DEF CloseDropsQueue
<1>3. CASE CloseDropsBuffer(p)
  BY <1>3 DEF CloseDropsBuffer
<1>4. CASE CloseClosesErrors(p)
  BY <1>4 DEF CloseClosesErrors
<1>5. CASE CloseFindsDone(p)
  BY <1>5 DEF CloseFindsDone
<1> QED
  BY <1>1, <1>2, <1>3, <1>4, <1>5 DEF CloseStep

(* The steps of Read.                                                      *)
LEMMA ReadSteps ==
  ASSUME SafetyInv, (\E n \in 1..MaxFrame : ReadBegins(n)) \/ ReadStep
  PROVE  SafetyInv'
<1> USE DEF SafetyInv, TeardownInv, NoLostWakeup, NoSendOnClosed,
            queueVars, tailVars, errorVars, onceVars
<1>1. ASSUME NEW n \in 1..MaxFrame, ReadBegins(n) PROVE SafetyInv'
  <2>1. /\ UNCHANGED <<callback, queue, array, signal, errorVars, onceVars>>
        /\ reader = "idle" /\ reader' \in {"idle", "shift"}
    BY <1>1 DEF ReadBegins
  <2>2. CASE isClosed
    BY <1>1, <2>1, <2>2 DEF ReadBegins
  <2>3. CASE ~isClosed
    <3>1. reader' = "shift" => buffer' = <<>>
      BY <1>1, <2>1, <2>3 DEF ReadBegins
    <3> QED
      BY <2>1, <2>3, <3>1
  <2> QED
    BY <2>2, <2>3
<1>2. ASSUME NEW n \in 1..MaxFrame, ReadShifts(n) PROVE SafetyInv'
  <2>1. once \in {"free", "queue"} /\ reader' = "idle" /\ UNCHANGED <<errorVars, onceVars>>
    BY <1>2 DEF ReadShifts
  <2> QED
    BY <2>1
<1>3. CASE ReadWaits
  BY <1>3 DEF ReadWaits
<1>4. CASE ReadGetsError
  BY <1>4 DEF ReadGetsError
<1>5. CASE ReadGetsSignal
  BY <1>5 DEF ReadGetsSignal
<1> QED
  BY <1>1, <1>2, <1>3, <1>4, <1>5 DEF ReadStep

(* Every step.                                                             *)
LEMMA SafetyStep == SafetyInv /\ [Next]_vars => SafetyInv'
<1> SUFFICES ASSUME SafetyInv, [Next]_vars PROVE SafetyInv'
  OBVIOUS
<1>1. CASE UNCHANGED vars
  BY <1>1 DEF vars, SafetyInv, TeardownInv, NoLostWakeup, NoSendOnClosed
<1>2. CASE Next
  BY <1>2, EventSteps, CallbackSteps, CloseSteps, ReadSteps
     DEF Next, CallbackStep, CloserStep
<1> QED
  BY <1>1, <1>2

(* The invariant holds throughout.                                         *)
LEMMA SafetyHolds == Spec => []SafetyInv
BY SafetyInit, SafetyStep, PTL DEF Spec

(* No callback ever sends its error on the channel that the teardown has   *)
(* closed, whoever tears down and whenever the callback began.             *)
THEOREM NeverPanics == Spec => []NoSendOnClosed
<1>1. SafetyInv => NoSendOnClosed
  BY DEF SafetyInv
<1> QED
  BY <1>1, SafetyHolds, PTL

(* A reader that waits in select is or will be woken for every message in  *)
(* the queue, although one token stands for all of them.                   *)
THEOREM NeverSleepsOver == Spec => []NoLostWakeup
<1>1. SafetyInv => NoLostWakeup
  BY DEF SafetyInv
<1> QED
  BY <1>1, SafetyHolds, PTL

(* After the teardown the connection holds no byte that nobody read, and   *)
(* it holds the array of a message that was read only if a reader was in   *)
(* Read when the teardown tried its lock.                                  *)
THEOREM ReleasesPayload == Spec => []ClosedReleasesPayload
<1>1. SafetyInv => ClosedReleasesPayload
  BY DEF SafetyInv, TeardownInv, ClosedReleasesPayload
<1> QED
  BY <1>1, SafetyHolds, PTL

-----------------------------------------------------------------------------
(* The bytes that wait to be read, and that may still be read in order.    *)
Transit == buffer \o FlattenSeq(queue)
Open == ~isClosed /\ callback \notin {"overflow", "overflowClose"}

(* The count that the limit is tested on is the length of what is queued.  *)
QueueInv ==
  /\ queue \in Seq(Seq(Int)) /\ buffer \in Seq(Int) /\ sent \in Nat
  /\ QueueWithinLimits

(* What waits is a sequence of bytes, and the count is its length.         *)
LEMMA QueueFacts ==
  ASSUME QueueInv
  PROVE  /\ FlattenSeq(queue) \in Seq(Int) /\ Joins(buffer, FlattenSeq(queue), Transit)
         /\ Transit \in Seq(Int)
         /\ queuedBytes \in Nat /\ queuedBytes = Len(FlattenSeq(queue))
<1>1. FlattenSeq(queue) \in Seq(Int) /\ queuedBytes = Len(FlattenSeq(queue))
  BY FlattenType DEF QueueInv, QueueWithinLimits, QueuedTotal
<1>2. Transit \in Seq(Int)
  BY <1>1, ConcatProperties DEF QueueInv, Transit
<1> QED BY <1>1, <1>2, LenProperties DEF Transit, Joins

(* A message that is stored comes behind everything that waits.            *)
LEMMA StoreArrives ==
  ASSUME WasmConnAssumption, QueueInv, NEW n \in Nat, OnMessage(n), ~Overflows(n)
  PROVE  QueueInv' /\ Transit' = Transit \o [i \in 1..n |-> sent + i]
<1>1. PICK new : new = [i \in 1..n |-> sent + i]
  OBVIOUS
<1>2. new \in Seq(Int) /\ Len(new) = n
  BY <1>1 DEF QueueInv
<1>3. /\ queue' = Append(queue, new) /\ queuedBytes' = queuedBytes + n
      /\ sent' = sent + n /\ buffer' = buffer
  BY <1>1 DEF OnMessage, tailVars
<1>4. FlattenSeq(queue) \in Seq(Int) /\ Joins(buffer, FlattenSeq(queue), Transit)
      /\ queuedBytes \in Nat /\ queuedBytes = Len(FlattenSeq(queue))
  BY QueueFacts
<1>5. Joins(FlattenSeq(queue), new, FlattenSeq(queue'))
  BY <1>2, <1>3, FlattenAppend DEF QueueInv, Joins
<1>6. JoinAlike(Transit, new, buffer, FlattenSeq(queue'))
  BY <1>2, <1>4, <1>5, JoinsRegroup DEF QueueInv
<1>7. Transit' = Transit \o new
  BY <1>3, <1>6 DEF Transit, JoinAlike
<1>8. queue' \in Seq(Seq(Int)) /\ Len(queue') = Len(queue) + 1 /\ Len(queue) \in Nat
  BY <1>2, <1>3, AppendProperties, LenProperties DEF QueueInv
<1>9. Len(FlattenSeq(queue')) = queuedBytes + n
  BY <1>2, <1>4, <1>5, ConcatProperties DEF Joins
<1>10. /\ limitConnectionQueuedMessages \in Nat /\ limitConnectionQueuedBytes \in Nat
       /\ Len(queue) < limitConnectionQueuedMessages
       /\ queuedBytes <= limitConnectionQueuedBytes - n
  BY <1>4, <1>8 DEF WasmConnAssumption, Overflows
<1>11. QueueInv'
  BY <1>3, <1>4, <1>8, <1>9, <1>10 DEF QueueInv, QueueWithinLimits, QueuedTotal
<1> QED BY <1>1, <1>7, <1>11

(* A Read that copies c bytes of message, of which that many wait in front *)
(* of the bytes of behind.                                                 *)
LEMMA TakeReads ==
  ASSUME NEW n \in Nat, NEW message \in Seq(Int), Take(n, message),
         NEW behind \in Seq(Int), NEW whole, Joins(message, behind, whole)
  PROVE  /\ buffer' \in Seq(Int)
         /\ \E c \in 0..Len(whole) :
              /\ received' = received \o SubSeq(whole, 1, c)
              /\ Joins(buffer', behind, SubSeq(whole, c + 1, Len(whole)))
<1>1. PICK m \in Nat : m = Len(message)
  BY LenProperties
<1>2. PICK c \in Nat : c = Min({n, Len(message)}) /\ c <= m
  BY <1>1, MinOfTwo
<1>3. /\ received' = received \o SubSeq(message, 1, c)
      /\ buffer' = SubSeq(message, c + 1, Len(message))
  BY <1>2 DEF Take
<1>4. PICK k \in Nat : m = c + k
  <2>1. m - c \in Nat /\ m = c + (m - c)
    BY <1>2
  <2> QED BY <2>1
<1>5. /\ whole \in Seq(Int) /\ c <= Len(whole)
      /\ TakesFront(whole, message, c) /\ Remains(whole, message, behind, c)
      /\ SubSeq(message, c + 1, Len(message)) \in Seq(Int)
  BY <1>1, <1>4, TakeOfJoined
<1>6. c \in 0..Len(whole)
  BY <1>5, LenProperties
<1>7. received' = received \o SubSeq(whole, 1, c)
  BY <1>3, <1>5 DEF TakesFront
<1>8. Joins(buffer', behind, SubSeq(whole, c + 1, Len(whole)))
  BY <1>3, <1>5 DEF Remains, Joins
<1> QED BY <1>3, <1>5, <1>6, <1>7, <1>8

(* What a step that reads does.                                            *)
ReadsSome ==
  \E c \in 0..Len(Transit) :
    /\ received' = received \o SubSeq(Transit, 1, c)
    /\ Transit' = SubSeq(Transit, c + 1, Len(Transit))

(* A Read that finds the tail of a message takes from it.                  *)
LEMMA BufferIsRead ==
  ASSUME QueueInv, NEW n \in Nat, Take(n, buffer), UNCHANGED <<queue, queuedBytes, sent>>
  PROVE  QueueInv' /\ ReadsSome
<1>1. FlattenSeq(queue) \in Seq(Int) /\ Joins(buffer, FlattenSeq(queue), Transit)
  BY QueueFacts
<1>2. /\ buffer' \in Seq(Int)
      /\ \E c \in 0..Len(Transit) :
           /\ received' = received \o SubSeq(Transit, 1, c)
           /\ Joins(buffer', FlattenSeq(queue), SubSeq(Transit, c + 1, Len(Transit)))
  BY <1>1, TakeReads DEF QueueInv
<1>3. ReadsSome
  BY <1>2 DEF ReadsSome, Joins, Transit
<1> QED BY <1>2, <1>3 DEF QueueInv, QueueWithinLimits, QueuedTotal

(* A Read that takes the oldest message, and counts it out.                *)
LEMMA MessageIsRead ==
  ASSUME WasmConnAssumption, QueueInv, buffer = <<>>, NEW n \in Nat, ReadShifts(n)
  PROVE  QueueInv' /\ ReadsSome
<1>1. PICK head, tail : head = Head(queue) /\ tail = Tail(queue)
  OBVIOUS
<1>2. /\ queue # <<>> /\ Take(n, head) /\ queue' = tail /\ sent' = sent
      /\ queuedBytes' = IF queuedBytes >= Len(head) THEN queuedBytes - Len(head) ELSE 0
  BY <1>1 DEF ReadShifts
<1>3. /\ head \in Seq(Int) /\ tail \in Seq(Seq(Int))
      /\ Len(tail) = Len(queue) - 1 /\ Len(queue) \in Nat
  BY <1>1, <1>2, HeadTailProperties, LenProperties DEF QueueInv
<1>4. FlattenSeq(tail) \in Seq(Int)
  BY <1>3, FlattenType
<1>5. Joins(head, FlattenSeq(tail), FlattenSeq(queue))
  BY <1>1, <1>2, FlattenHead DEF QueueInv, Joins
<1>6. /\ FlattenSeq(queue) \in Seq(Int)
      /\ queuedBytes \in Nat /\ queuedBytes = Len(FlattenSeq(queue))
  BY QueueFacts
<1>7. Transit = FlattenSeq(queue)
  <2>1. <<>> \o FlattenSeq(queue) = FlattenSeq(queue)
    BY <1>6, ConcatEmptySeq
  <2> QED BY <2>1 DEF Transit
<1>8. /\ buffer' \in Seq(Int)
      /\ \E c \in 0..Len(Transit) :
           /\ received' = received \o SubSeq(Transit, 1, c)
           /\ Joins(buffer', FlattenSeq(tail), SubSeq(Transit, c + 1, Len(Transit)))
  BY <1>2, <1>3, <1>4, <1>5, <1>7, TakeReads
<1>9. ReadsSome
  BY <1>2, <1>8 DEF ReadsSome, Joins, Transit
<1>10. PICK h \in Nat, r \in Nat : h = Len(head) /\ r = Len(FlattenSeq(tail))
  BY <1>3, <1>4, LenProperties
<1>11. queuedBytes = h + r
  BY <1>3, <1>4, <1>5, <1>6, <1>10, ConcatProperties DEF Joins
<1>12. queuedBytes' = r
  BY <1>2, <1>10, <1>11
<1>13. QueueInv'
  <2>1. /\ Len(queue) <= limitConnectionQueuedMessages
        /\ queuedBytes <= limitConnectionQueuedBytes
    BY <1>6 DEF QueueInv, QueueWithinLimits, QueuedTotal
  <2>2. /\ Len(tail) <= limitConnectionQueuedMessages
        /\ r <= limitConnectionQueuedBytes
    BY <1>3, <1>10, <1>11, <2>1 DEF WasmConnAssumption
  <2> QED BY <1>2, <1>3, <1>8, <1>10, <1>12, <2>2 DEF QueueInv, QueueWithinLimits, QueuedTotal
<1> QED BY <1>9, <1>13

(* Steps that leave the queue, the tail and what was read alone, and do    *)
(* not mend a connection that is given up.                                 *)
Aside ==
  /\ UNCHANGED <<queue, queuedBytes, buffer, streamVars>>
  /\ Open' => Open

(* Which steps these are.                                                  *)
LEMMA AsideSteps ==
  ASSUME SafetyInv,
         \/ OnError \/ OnClose \/ Close \/ Signal \/ SendError
         \/ CallbackClosesSocket \/ CloserClosesSocket
         \/ ReadWaits \/ ReadGetsError \/ ReadGetsSignal
         \/ \E p : CloseEnters(p) \/ CloseClosesErrors(p) \/ CloseFindsDone(p)
  PROVE  Aside
<1> USE DEF Aside, Open, Event, queueVars, tailVars, onceVars
<1>1. CASE OnError \/ OnClose \/ Close
  BY <1>1 DEF OnError, OnClose, Close
<1>2. CASE Signal \/ CallbackClosesSocket \/ CloserClosesSocket
  BY <1>2 DEF Signal, CallbackClosesSocket, CloserClosesSocket
<1>3. CASE SendError
  BY <1>3 DEF SendError, StoreError
<1>4. CASE ReadWaits \/ ReadGetsError \/ ReadGetsSignal
  BY <1>4 DEF ReadWaits, ReadGetsError, ReadGetsSignal
<1>5. ASSUME NEW p, CloseEnters(p) PROVE Aside
  BY <1>5 DEF CloseEnters
<1>6. ASSUME NEW p, CloseClosesErrors(p) \/ CloseFindsDone(p) PROVE Aside
  <2>1. isClosed /\ UNCHANGED isClosed
    BY <1>6 DEF CloseClosesErrors, CloseFindsDone, SafetyInv, TeardownInv
  <2> QED BY <1>6, <2>1 DEF CloseClosesErrors, CloseFindsDone
<1> QED BY <1>1, <1>2, <1>3, <1>4, <1>5, <1>6

(* A message that the queue has no room for ends the stream: nothing that  *)
(* comes after it is ever read.                                            *)
LEMMA OverflowBreaks ==
  ASSUME NEW n \in Nat, OnMessage(n), Overflows(n)
  PROVE  Open /\ ~Open' /\ sent' = sent + n /\ UNCHANGED <<queue, queuedBytes, buffer, received>>
BY DEF OnMessage, Open, Event, queueVars, tailVars, onceVars

(* The teardown drops the end of what waits, and nothing of it comes back. *)
LosesEnd ==
  /\ ~Open
  /\ \E c \in 0..Len(Transit) : Transit' = SubSeq(Transit, 1, c)
  /\ UNCHANGED <<sent, received, isClosed, callback>>

(* The queue goes, the tail in front of it stays.                          *)
LEMMA QueueIsDropped ==
  ASSUME WasmConnAssumption, SafetyInv, QueueInv, NEW p, CloseDropsQueue(p)
  PROVE  QueueInv' /\ LosesEnd
<1>1. /\ isClosed /\ queue' = <<>> /\ queuedBytes' = 0
      /\ UNCHANGED <<buffer, sent, received, isClosed, callback>>
  BY DEF CloseDropsQueue, SafetyInv, TeardownInv, tailVars, streamVars
<1>2. FlattenSeq(queue) \in Seq(Int) /\ Joins(buffer, FlattenSeq(queue), Transit)
  BY QueueFacts
<1>3. PICK m \in Nat : m = Len(buffer)
  BY LenProperties DEF QueueInv
<1>4. m <= Len(Transit) /\ TakesFront(Transit, buffer, m) /\ Transit \in Seq(Int)
  <2>1. Len(buffer) = m + 0
    BY <1>3
  <2> QED BY <1>2, <2>1, TakeOfJoined DEF QueueInv
<1>5. SubSeq(Transit, 1, m) = buffer
  <2>1. SubSeq(buffer, 1, Len(buffer)) = buffer
    BY SubSeqFull DEF QueueInv
  <2> QED BY <1>3, <1>4, <2>1 DEF TakesFront
<1>6. Transit' = buffer
  <2>1. buffer \o <<>> = buffer
    BY ConcatEmptySeq DEF QueueInv
  <2>2. FlattenSeq(queue') = <<>>
    BY <1>1, FlattenEmpty
  <2> QED BY <1>1, <2>1, <2>2 DEF Transit
<1>7. m \in 0..Len(Transit)
  BY <1>4, LenProperties
<1>8. LosesEnd
  BY <1>1, <1>5, <1>6, <1>7 DEF LosesEnd, Open
<1>9. <<>> \in Seq(Seq(Int)) /\ Len(<<>>) = 0
  BY EmptySeq
<1>10. QueueInv'
  BY <1>1, <1>9, FlattenEmpty
     DEF QueueInv, QueueWithinLimits, QueuedTotal, WasmConnAssumption
<1> QED BY <1>8, <1>10

(* The tail goes as well, unless a reader is left with it.                 *)
LEMMA BufferIsDropped ==
  ASSUME WasmConnAssumption, SafetyInv, QueueInv, NEW p, CloseDropsBuffer(p)
  PROVE  QueueInv' /\ (LosesEnd \/ Aside)
<1>1. /\ isClosed /\ buffer' \in {<<>>, buffer}
      /\ UNCHANGED <<queue, queuedBytes, sent, received, isClosed, callback>>
      /\ queue = <<>>
  BY DEF CloseDropsBuffer, SafetyInv, TeardownInv, tailVars, streamVars
<1>2. <<>> \in Seq(Int)
  BY EmptySeq
<1>3. QueueInv'
  BY <1>1, <1>2 DEF QueueInv, QueueWithinLimits, QueuedTotal
<1>4. CASE buffer' = buffer
  BY <1>1, <1>3, <1>4 DEF Aside, Open, streamVars
<1>5. CASE buffer' = <<>>
  <2>1. Transit' = <<>>
    <3>1. <<>> \o <<>> = <<>>
      BY <1>2, ConcatEmptySeq
    <3> QED BY <1>1, <1>5, <3>1, FlattenEmpty DEF Transit
  <2>2. SubSeq(Transit, 1, 0) = <<>>
    BY SubSeqEmpty
  <2>3. 0 \in 0..Len(Transit)
    BY QueueFacts, LenProperties
  <2> QED BY <1>1, <1>3, <2>1, <2>2, <2>3 DEF LosesEnd, Open
<1> QED BY <1>1, <1>3, <1>4, <1>5

-----------------------------------------------------------------------------
(* Every step, as one of the abstract stream.                              *)
StreamStep ==
  \/ /\ Open /\ Open' /\ received' = received
     /\ \E n \in Nat : /\ sent' = sent + n
                       /\ Transit' = Transit \o [i \in 1..n |-> sent + i]
  \/ /\ Open /\ ~Open' /\ sent' >= sent
     /\ UNCHANGED <<Transit, received>>
  \/ ReadsSome /\ UNCHANGED <<sent, Open>>
  \/ LosesEnd
  \/ UNCHANGED <<Transit, received, sent, Open>>

(* Such a step is none of the stream's, or it breaks it.                   *)
LEMMA AsideStreams == ASSUME QueueInv, Aside PROVE QueueInv' /\ StreamStep
<1>1. /\ UNCHANGED <<queue, queuedBytes, buffer, sent, received>>
      /\ Open' => Open
  BY DEF Aside, streamVars
<1>2. UNCHANGED Transit
  BY <1>1 DEF Transit
<1>3. sent' >= sent
  BY <1>1 DEF QueueInv
<1>4. QueueInv'
  BY <1>1 DEF QueueInv, QueueWithinLimits, QueuedTotal
<1>5. Open \in BOOLEAN /\ Open' \in BOOLEAN
  BY DEF Open
<1> QED BY <1>1, <1>2, <1>3, <1>4, <1>5 DEF StreamStep

(* Every step keeps the count and is one of the stream's.                  *)
LEMMA QueueStep ==
  ASSUME WasmConnAssumption, SafetyInv, QueueInv, [Next]_vars
  PROVE  QueueInv' /\ StreamStep
<1>1. ASSUME NEW n \in 0..MaxFrame, OnMessage(n) PROVE QueueInv' /\ StreamStep
  <2>0. n \in Nat
    BY <1>1
  <2>1. CASE Overflows(n)
    <3>1. Open /\ ~Open' /\ sent' = sent + n
          /\ UNCHANGED <<queue, queuedBytes, buffer, received>>
      BY <1>1, <2>0, <2>1, OverflowBreaks
    <3>2. UNCHANGED Transit
      BY <3>1 DEF Transit
    <3>3. sent' \in Nat /\ sent' >= sent
      BY <2>0, <3>1 DEF QueueInv
    <3> QED BY <3>1, <3>2, <3>3 DEF StreamStep, QueueInv, QueueWithinLimits, QueuedTotal
  <2>2. CASE ~Overflows(n)
    <3>1. QueueInv' /\ Transit' = Transit \o [i \in 1..n |-> sent + i]
      BY <1>1, <2>0, <2>2, StoreArrives
    <3>2. Open /\ Open' /\ sent' = sent + n /\ received' = received
      BY <1>1, <2>2 DEF OnMessage, Open, Event, onceVars
    <3> QED BY <2>0, <3>1, <3>2 DEF StreamStep
  <2> QED BY <2>1, <2>2
<1>2. ASSUME NEW n \in 1..MaxFrame, ReadBegins(n) PROVE QueueInv' /\ StreamStep
  <2>1. UNCHANGED <<queue, queuedBytes, sent, Open>>
    BY <1>2 DEF ReadBegins, Open, onceVars
  <2>2. CASE ~isClosed /\ buffer # <<>>
    <3>1. Take(n, buffer) /\ n \in Nat
      BY <1>2, <2>2 DEF ReadBegins
    <3> QED BY <2>1, <3>1, BufferIsRead DEF StreamStep
  <2>3. CASE isClosed \/ buffer = <<>>
    <3>1. UNCHANGED <<buffer, received>>
      BY <1>2, <2>3 DEF ReadBegins
    <3> QED BY <2>1, <3>1 DEF StreamStep, Transit, QueueInv, QueueWithinLimits, QueuedTotal
  <2> QED BY <2>2, <2>3
<1>3. ASSUME NEW n \in 1..MaxFrame, ReadShifts(n) PROVE QueueInv' /\ StreamStep
  <2>1. UNCHANGED <<sent, Open>>
    BY <1>3 DEF ReadShifts, Open, onceVars
  <2>2. buffer = <<>> /\ n \in Nat
    BY <1>3 DEF ReadShifts, SafetyInv, TeardownInv
  <2> QED BY <1>3, <2>1, <2>2, MessageIsRead DEF StreamStep
<1>4. ASSUME NEW p, CloseDropsQueue(p) PROVE QueueInv' /\ StreamStep
  BY <1>4, QueueIsDropped DEF StreamStep
<1>5. ASSUME NEW p, CloseDropsBuffer(p) PROVE QueueInv' /\ StreamStep
  BY <1>5, BufferIsDropped, AsideStreams DEF StreamStep
<1>6. ASSUME \/ OnError \/ OnClose \/ Close \/ Signal \/ SendError
             \/ CallbackClosesSocket \/ CloserClosesSocket
             \/ ReadWaits \/ ReadGetsError \/ ReadGetsSignal
             \/ \E p : CloseEnters(p) \/ CloseClosesErrors(p) \/ CloseFindsDone(p)
      PROVE  QueueInv' /\ StreamStep
  BY <1>6, AsideSteps, AsideStreams
<1>7. CASE UNCHANGED vars
  BY <1>7 DEF vars, StreamStep, Open, Transit, QueueInv, QueueWithinLimits, QueuedTotal
<1> QED
  BY <1>1, <1>2, <1>3, <1>4, <1>5, <1>6, <1>7
     DEF Next, CallbackStep, CloserStep, CloseStep, ReadStep

(* Both are so at the start.                                               *)
LEMMA QueueStarts == WasmConnAssumption /\ Init => QueueInv /\ Open /\ Transit = <<>>
<1> SUFFICES ASSUME WasmConnAssumption, Init PROVE QueueInv /\ Open /\ Transit = <<>>
  OBVIOUS
<1>1. queue = <<>> /\ buffer = <<>> /\ queuedBytes = 0 /\ sent = 0
  BY DEF Init
<1>2. <<>> \in Seq(Int) /\ <<>> \in Seq(Seq(Int)) /\ Len(<<>>) = 0
  BY EmptySeq
<1>3. <<>> \o <<>> = <<>>
  BY <1>2, ConcatEmptySeq
<1>4. Transit = <<>>
  BY <1>1, <1>3, FlattenEmpty DEF Transit
<1>5. QueueInv
  BY <1>1, <1>2, FlattenEmpty
     DEF QueueInv, QueueWithinLimits, QueuedTotal, WasmConnAssumption
<1> QED BY <1>4, <1>5 DEF Init, Open

(* The invariant of the teardown and that of the bytes.                    *)
LEMMA QueueInductive == Spec => [](SafetyInv /\ QueueInv)
<1>1. Init => SafetyInv /\ QueueInv
  BY SafetyInit, QueueStarts, WasmConnAssumption
<1>2. SafetyInv /\ QueueInv /\ [Next]_vars => SafetyInv' /\ QueueInv'
  BY SafetyStep, QueueStep, WasmConnAssumption
<1> QED BY <1>1, <1>2, PTL DEF Spec

(* The queue never has more messages or bytes than the limits allow, and   *)
(* the count of bytes is the true one, for any limits and any frames.      *)
THEOREM QueueBounded == Spec => []QueueWithinLimits
<1>1. QueueInv => QueueWithinLimits
  BY DEF QueueInv
<1> QED BY <1>1, QueueInductive, PTL

(* Read returns the bytes the browser received, in order and without a     *)
(* gap, whatever frames they came in and whatever buffers they are read    *)
(* with, until the connection is given up.                                 *)
THEOREM ReadsTheStream == Spec => ImplementsByteStream
<1>1. Init => Stream!Init
  BY QueueStarts, WasmConnAssumption DEF Stream!Init, Init, Open, Transit
<1>2. SafetyInv /\ QueueInv /\ [Next]_vars => [Stream!Next]_(Stream!vars)
  <2> SUFFICES ASSUME SafetyInv, QueueInv, [Next]_vars
               PROVE  Stream!Next \/ UNCHANGED Stream!vars
    OBVIOUS
  <2>1. StreamStep /\ sent \in Nat
    BY QueueStep, WasmConnAssumption DEF QueueInv
  <2>2. CASE /\ Open /\ Open' /\ received' = received
             /\ \E n \in Nat : /\ sent' = sent + n
                               /\ Transit' = Transit \o [i \in 1..n |-> sent + i]
    <3>1. PICK n \in Nat : sent' = sent + n
                         /\ Transit' = Transit \o [i \in 1..n |-> sent + i]
      BY <2>2
    <3>2. sent' - sent = n /\ sent' >= sent
      BY <2>1, <3>1
    <3>3. Transit' = Transit \o [i \in 1..(sent' - sent) |-> sent + i]
      BY <3>1, <3>2
    <3>4. Stream!Put
      BY <2>2, <3>2, <3>3 DEF Stream!Put, Transit, Open
    <3> QED BY <3>4 DEF Stream!Next
  <2>3. CASE /\ Open /\ ~Open' /\ sent' >= sent
             /\ UNCHANGED <<Transit, received>>
    <3>1. Stream!Break
      BY <2>3 DEF Stream!Break, Transit, Open
    <3> QED BY <3>1 DEF Stream!Next
  <2>4. CASE ReadsSome /\ UNCHANGED <<sent, Open>>
    <3>1. \E c \in 0..Len(Transit) : Stream!Get(c)
      BY <2>4 DEF ReadsSome, Stream!Get, Transit, Open
    <3> QED BY <3>1 DEF Stream!Next, Transit
  <2>5. CASE LosesEnd
    <3>1. \E c \in 0..Len(Transit) : Stream!Lose(c)
      BY <2>5 DEF LosesEnd, Stream!Lose, Transit, Open
    <3> QED BY <3>1 DEF Stream!Next, Transit
  <2>6. CASE UNCHANGED <<Transit, received, sent, Open>>
    BY <2>6 DEF Stream!vars, Transit, Open
  <2> QED BY <2>1, <2>2, <2>3, <2>4, <2>5, <2>6 DEF StreamStep
<1> QED BY <1>1, <1>2, QueueInductive, PTL DEF Spec, ImplementsByteStream, Stream!Spec

(* What is read and what waits are the bytes that were sent, from the      *)
(* first on.                                                               *)
InOrder == Numbered(received, Transit, sent, Open)

(* No step of a byte stream changes that.                                  *)
LEMMA StreamKeepsOrder ==
  InOrder /\ (sent \in Nat)' /\ [Stream!Next]_(Stream!vars) => InOrder'
<1> SUFFICES ASSUME InOrder, sent' \in Nat, [Stream!Next]_(Stream!vars) PROVE InOrder'
  OBVIOUS
<1>1. CASE Stream!Next
  <2>1. Moves(received, Transit, sent, Open, received', Transit', sent', Open')
    BY <1>1 DEF Moves, Transit, Open, Stream!Next, Stream!Put, Stream!Break, Stream!Get, Stream!Lose
  <2>2. Open' \in BOOLEAN
    BY DEF Open
  <2> QED BY <2>1, <2>2, NumberedMoves DEF InOrder
<1>2. CASE UNCHANGED Stream!vars
  <2>1. UNCHANGED <<received, Transit, sent, Open>>
    BY <1>2 DEF Stream!vars, Transit, Open
  <2> QED BY <2>1 DEF InOrder
<1> QED BY <1>1, <1>2

(* So Read has returned a beginning of the bytes that were sent, none of   *)
(* them twice, out of order or left out.                                   *)
THEOREM BytesInOrder ==
  Spec => [](received = [i \in 1..Len(received) |-> i] /\ Len(received) <= sent)
<1>1. Stream!Init => InOrder
  <2> SUFFICES ASSUME Stream!Init PROVE InOrder
    OBVIOUS
  <2>1. sent = 0 /\ Transit = <<>> /\ received = <<>>
    BY DEF Stream!Init, Transit
  <2>2. <<>> \in Seq(Int) /\ Len(<<>>) = 0 /\ 1..0 = {}
    OBVIOUS
  <2> QED BY <2>1, <2>2 DEF InOrder, Numbered
<1>2. InOrder => received = [i \in 1..Len(received) |-> i] /\ Len(received) <= sent
  BY NumberedComesOut DEF InOrder
<1>3. QueueInv => sent \in Nat
  BY DEF QueueInv
<1> QED
  BY <1>1, <1>2, <1>3, StreamKeepsOrder, ReadsTheStream, QueueInductive, PTL
     DEF ImplementsByteStream, Stream!Spec

-----------------------------------------------------------------------------
(* An array of size cells, of which the first n are in use, the first      *)
(* start of them consumed: exactly those in between hold a message.        *)
Holds(cells, size, n, start) ==
  /\ size \in Nat /\ n \in 0..size /\ start \in 0..n
  /\ cells \in [0..(size - 1) -> Frames \cup {Nil}]
  /\ \A i \in 0..(size - 1) : cells[i] # Nil <=> i \in start..(n - 1)

(* The messages that wait, as the sequence Fifo has.                       *)
Waiting == [i \in 1..Slice!Depth |-> cell[shiftQueueStart + i - 1]]

(* The slice: its cells, and an array as long as it is open.               *)
ArrayInv ==
  /\ Holds(cell, capacity, length, shiftQueueStart)
  /\ Dropped \in BOOLEAN /\ (Dropped <=> capacity = 0)
  /\ Slice!SpaceBounded

-----------------------------------------------------------------------------
(* A compaction moves the waiting messages to the front, in their order,   *)
(* and leaves nothing behind them.                                         *)
LEMMA CompactedMoves ==
  ASSUME NEW cells, NEW start \in Nat, Holds(cells, capacity, length, start)
  PROVE  /\ Holds(Slice!Compacted(cells, start), capacity, length - start, 0)
         /\ \A i \in 0..(length - start - 1) :
              Slice!Compacted(cells, start)[i] = cells[start + i]
<1> DEFINE moved == Slice!Compacted(cells, start)
<1>0. capacity \in Nat /\ length \in Nat /\ length <= capacity /\ start <= length
  BY DEF Holds
<1>1. \A i \in 0..(capacity - 1) :
        moved[i] = IF i < length - start THEN cells[start + i]
                   ELSE IF i < length THEN Nil ELSE cells[i]
  BY DEF Slice!Compacted
<1>2. \A i \in 0..(length - start - 1) :
        i \in 0..(capacity - 1) /\ start + i \in start..(length - 1)
  BY <1>0
<1>3. \A i \in 0..(length - start - 1) : moved[i] = cells[start + i]
  BY <1>0, <1>1, <1>2
<1>4. \A i \in 0..(capacity - 1) : moved[i] # Nil <=> i \in 0..(length - start - 1)
  <2> SUFFICES ASSUME NEW i \in 0..(capacity - 1)
               PROVE  moved[i] # Nil <=> i \in 0..(length - start - 1)
    OBVIOUS
  <2>1. CASE i < length - start
    BY <1>0, <1>1, <2>1 DEF Holds
  <2>2. CASE i >= length - start
    BY <1>0, <1>1, <2>2 DEF Holds
  <2> QED BY <1>0, <2>1, <2>2
<1>5. moved \in [0..(capacity - 1) -> Frames \cup {Nil}]
  <2>1. \A i \in 0..(capacity - 1) : moved[i] \in Frames \cup {Nil}
    BY <1>0, <1>1, <1>2 DEF Holds
  <2> QED BY <2>1 DEF Slice!Compacted
<1> QED BY <1>0, <1>3, <1>4, <1>5 DEF Holds

(* One message behind the last one, in an array that may be longer.        *)
LEMMA SliceExtends ==
  ASSUME Nil \notin Frames, NEW size \in Nat, NEW n \in Nat, NEW start \in Nat,
         NEW cells, Holds(cells, size, n, start), NEW m \in Frames,
         NEW room \in Nat, size <= room, n + 1 <= room,
         NEW longer, longer = [i \in 0..(room - 1) |->
                                 IF i = n THEN m ELSE IF i < size THEN cells[i] ELSE Nil]
  PROVE  /\ Holds(longer, room, n + 1, start)
         /\ longer[n] = m
         /\ \A i \in 0..(n - 1) : longer[i] = cells[i]
<1>1. n <= size /\ start <= n
  BY DEF Holds
<1>2. \A i \in 0..(size - 1) :
        /\ cells[i] \in Frames \cup {Nil}
        /\ cells[i] # Nil <=> start <= i /\ i < n
  BY <1>1 DEF Holds
<1>3. \A i \in 0..(room - 1) :
        longer[i] = IF i = n THEN m ELSE IF i < size THEN cells[i] ELSE Nil
  OBVIOUS
<1>4. \A i \in 0..(room - 1) : longer[i] \in Frames \cup {Nil}
  BY <1>2, <1>3
<1>5. \A i \in 0..(room - 1) : longer[i] # Nil <=> i \in start..n
  <2> SUFFICES ASSUME NEW i \in 0..(room - 1) PROVE longer[i] # Nil <=> i \in start..n
    OBVIOUS
  <2>1. CASE i = n
    BY <1>1, <1>3, <2>1
  <2>2. CASE i # n /\ i < size
    BY <1>1, <1>2, <1>3, <2>2
  <2>3. CASE i # n /\ i >= size
    BY <1>1, <1>3, <2>3
  <2> QED BY <2>1, <2>2, <2>3
<1>6. longer \in [0..(room - 1) -> Frames \cup {Nil}]
  BY <1>4
<1>7. longer[n] = m /\ \A i \in 0..(n - 1) : longer[i] = cells[i]
  BY <1>1, <1>3
<1> QED BY <1>1, <1>5, <1>6, <1>7 DEF Holds

(* append adds one message and moves no other.                             *)
Adds(longer, room, cells, n, start, m) ==
  /\ room # 0
  /\ Holds(longer, room, n + 1, start)
  /\ longer[n] = m
  /\ \A i \in 0..(n - 1) : longer[i] = cells[i]

(* Go's append, in place or in a longer array.                             *)
LEMMA AppendAdds ==
  ASSUME Slice!QueueAssumption, capacity # 0, NEW cells, NEW n \in Nat,
         NEW start \in Nat, NEW m \in Frames, Holds(cells, capacity, n, start)
  PROVE  Adds(Slice!Appended(cells, n, m), Slice!CapacityFor(n), cells, n, start, m)
<1>1. /\ Slice!CapacityFor(n) \in Nat \ {0} /\ n + 1 <= Slice!CapacityFor(n)
      /\ capacity \in Nat /\ capacity <= Slice!CapacityFor(n)
  BY DEF Slice!CapacityFor, Slice!Grown, Holds
<1>2. Slice!Appended(cells, n, m) = [i \in 0..(Slice!CapacityFor(n) - 1) |->
         IF i = n THEN m ELSE IF i < capacity THEN cells[i] ELSE Nil]
  BY DEF Slice!Appended
<1>3. PICK longer, room : longer = Slice!Appended(cells, n, m) /\ room = Slice!CapacityFor(n)
  OBVIOUS
<1>4. /\ room \in Nat \ {0} /\ n + 1 <= room /\ capacity \in Nat /\ capacity <= room
      /\ longer = [i \in 0..(room - 1) |->
                     IF i = n THEN m ELSE IF i < capacity THEN cells[i] ELSE Nil]
  BY <1>1, <1>2, <1>3
<1>5. Nil \notin Frames
  BY DEF Slice!QueueAssumption
<1>6. /\ Holds(longer, room, n + 1, start) /\ longer[n] = m
      /\ \A i \in 0..(n - 1) : longer[i] = cells[i]
  BY <1>4, <1>5, SliceExtends
<1> QED BY <1>3, <1>4, <1>6 DEF Adds

-----------------------------------------------------------------------------
(* What the steps do to the messages that wait, said of the cells.         *)
LEMMA StoreAppends ==
  ASSUME Slice!QueueAssumption, ArrayInv, NEW m \in Frames, Slice!storeIncomingMessage(m)
  PROVE  /\ ArrayInv'
         /\ Slice!Depth' = Slice!Depth + 1
         /\ cell'[shiftQueueStart' + Slice!Depth] = m
         /\ \A i \in 0..(Slice!Depth - 1) :
              cell'[shiftQueueStart' + i] = cell[shiftQueueStart + i]
<1>1. /\ Holds(cell, capacity, length, shiftQueueStart)
      /\ capacity # 0 /\ Dropped' = Dropped /\ Dropped = FALSE
      /\ Slice!Depth < limitConnectionQueuedMessages
  BY DEF ArrayInv, Slice!storeIncomingMessage
<1>2. /\ capacity \in Nat /\ length \in Nat /\ shiftQueueStart \in Nat
      /\ length <= capacity /\ shiftQueueStart <= length
  BY <1>1 DEF Holds
<1>3. CASE Slice!Compacts(shiftQueueStart)
  <2> DEFINE moved == Slice!Compacted(cell, shiftQueueStart)
  <2>1. /\ Holds(moved, capacity, Slice!Depth, 0)
        /\ \A i \in 0..(Slice!Depth - 1) : moved[i] = cell[shiftQueueStart + i]
    BY <1>1, <1>2, CompactedMoves DEF Slice!Depth
  <2>2. /\ cell' = Slice!Appended(moved, Slice!Depth, m) /\ capacity' = Slice!CapacityFor(Slice!Depth)
        /\ length' = Slice!Depth + 1 /\ shiftQueueStart' = 0
    BY <1>3 DEF Slice!storeIncomingMessage, Slice!AppendTo
  <2>3. Slice!Depth \in Nat /\ Slice!CapacityFor(Slice!Depth) = capacity
    BY <1>2, <1>3 DEF Slice!Compacts, Slice!Depth, Slice!CapacityFor
  <2> HIDE DEF moved
  <2>4. /\ Holds(Slice!Appended(moved, Slice!Depth, m), Slice!CapacityFor(Slice!Depth), Slice!Depth + 1, 0)
        /\ Slice!Appended(moved, Slice!Depth, m)[Slice!Depth] = m
        /\ \A i \in 0..(Slice!Depth - 1) : Slice!Appended(moved, Slice!Depth, m)[i] = moved[i]
    <3>1. Adds(Slice!Appended(moved, Slice!Depth, m), Slice!CapacityFor(Slice!Depth), moved, Slice!Depth, 0, m)
      BY <1>1, <2>1, <2>3, AppendAdds
    <3> QED BY <3>1 DEF Adds
  <2>5. ArrayInv'
    BY <1>1, <2>2, <2>3, <2>4 DEF ArrayInv, Slice!SpaceBounded
  <2>6. Slice!Depth' = Slice!Depth + 1
    BY <2>2, <2>3 DEF Slice!Depth
  <2> QED BY <2>1, <2>2, <2>3, <2>4, <2>5, <2>6
<1>4. CASE ~Slice!Compacts(shiftQueueStart)
  <2>1. /\ cell' = Slice!Appended(cell, length, m) /\ capacity' = Slice!CapacityFor(length)
        /\ length' = length + 1 /\ shiftQueueStart' = shiftQueueStart
    BY <1>4 DEF Slice!storeIncomingMessage, Slice!AppendTo
  <2>2. /\ Slice!CapacityFor(length) # 0
        /\ Holds(Slice!Appended(cell, length, m), Slice!CapacityFor(length), length + 1,
                 shiftQueueStart)
        /\ Slice!Appended(cell, length, m)[length] = m
        /\ \A i \in 0..(length - 1) : Slice!Appended(cell, length, m)[i] = cell[i]
    <3>1. Adds(Slice!Appended(cell, length, m), Slice!CapacityFor(length), cell, length,
               shiftQueueStart, m)
      BY <1>1, <1>2, AppendAdds
    <3> QED BY <3>1 DEF Adds
  <2>3. Slice!SpaceBounded'
    <3>1. CASE length < capacity
      BY <3>1, <2>1 DEF ArrayInv, Slice!SpaceBounded, Slice!CapacityFor
    <3>2. CASE length = capacity
      <4>1. shiftQueueStart = 0
        BY <1>4, <3>2 DEF Slice!Compacts
      <4>2. capacity <= limitConnectionQueuedMessages - 1
        BY <1>1, <1>2, <3>2, <4>1 DEF Slice!Depth, Slice!QueueAssumption
      <4> QED BY <1>2, <2>1, <3>2, <4>2 DEF Slice!SpaceBounded, Slice!CapacityFor, Slice!Grown, Slice!QueueAssumption
    <3> QED BY <1>2, <3>1, <3>2
  <2>4. ArrayInv'
    BY <1>1, <2>1, <2>2, <2>3 DEF ArrayInv
  <2>5. Slice!Depth' = Slice!Depth + 1
    BY <1>2, <2>1 DEF Slice!Depth
  <2>6. shiftQueueStart + Slice!Depth = length
    BY <1>2 DEF Slice!Depth
  <2>7. \A i \in 0..(Slice!Depth - 1) : shiftQueueStart + i \in 0..(length - 1)
    BY <1>2 DEF Slice!Depth
  <2> QED BY <2>1, <2>2, <2>4, <2>5, <2>6, <2>7
<1> QED BY <1>3, <1>4

(* shiftQueuedMessage, when there is a message.                            *)
LEMMA ShiftTakes ==
  ASSUME Slice!QueueAssumption, ArrayInv, Slice!shiftQueuedMessage, shiftQueueStart < length
  PROVE  /\ ArrayInv'
         /\ Slice!Depth' = Slice!Depth - 1
         /\ shifted' = cell[shiftQueueStart]
         /\ \A i \in 0..(Slice!Depth - 2) :
              cell'[shiftQueueStart' + i] = cell[shiftQueueStart + 1 + i]
<1> DEFINE rest == [cell EXCEPT ![shiftQueueStart] = Nil]
           next == shiftQueueStart + 1
<1>1. /\ Holds(cell, capacity, length, shiftQueueStart)
      /\ capacity' = capacity /\ Dropped' = Dropped
  BY DEF ArrayInv, Slice!shiftQueuedMessage
<1>2. /\ capacity \in Nat /\ length \in Nat /\ shiftQueueStart \in Nat
      /\ length <= capacity
  BY <1>1 DEF Holds
<1>3. Holds(rest, capacity, length, next)
  BY <1>1 DEF Holds
<1>4. \A i \in 0..(Slice!Depth - 2) : rest[next + i] = cell[next + i]
  BY <1>1 DEF Holds, Slice!Depth
<1>5. shifted' = cell[shiftQueueStart]
  BY <1>2 DEF Slice!shiftQueuedMessage, Slice!Shift
<1>6. CASE next >= length
  <2>1. cell' = rest /\ length' = 0 /\ shiftQueueStart' = 0
    BY <1>2, <1>6 DEF Slice!shiftQueuedMessage, Slice!Shift
  <2>2. Slice!Depth = 1 /\ Slice!Depth' = 0
    BY <1>2, <1>6, <2>1 DEF Slice!Depth
  <2>3. Holds(rest, capacity, 0, 0)
    BY <1>2, <1>3, <1>6 DEF Holds
  <2>4. ArrayInv'
    BY <1>1, <2>1, <2>3 DEF ArrayInv, Slice!SpaceBounded
  <2> QED BY <1>5, <2>2, <2>4
<1>7. CASE next < length
  <2>1. Slice!ClearHead(rest, next)
    BY <1>2, <1>7 DEF Slice!shiftQueuedMessage, Slice!Shift
  <2>2. next \in Nat /\ length - next = Slice!Depth - 1
    BY <1>2 DEF Slice!Depth
  <2> HIDE DEF rest, next
  <2>3. CASE Slice!Compacts(next)
    <3>1. cell' = Slice!Compacted(rest, next) /\ length' = length - next /\ shiftQueueStart' = 0
      BY <2>1, <2>3 DEF Slice!ClearHead
    <3>2. /\ Holds(Slice!Compacted(rest, next), capacity, length - next, 0)
          /\ \A i \in 0..(length - next - 1) : Slice!Compacted(rest, next)[i] = rest[next + i]
      BY <1>3, <2>2, CompactedMoves
    <3>3. ArrayInv'
      BY <1>1, <3>1, <3>2 DEF ArrayInv, Slice!SpaceBounded
    <3>4. Slice!Depth' = Slice!Depth - 1
      BY <1>2, <2>2, <3>1 DEF Slice!Depth
    <3>5. \A i \in 0..(Slice!Depth - 2) : i \in 0..(length - next - 1)
      BY <1>2, <2>2 DEF Slice!Depth
    <3> QED BY <1>4, <1>5, <3>1, <3>2, <3>3, <3>4, <3>5 DEF next
  <2>4. CASE ~Slice!Compacts(next)
    <3>1. cell' = rest /\ length' = length /\ shiftQueueStart' = next
      BY <2>1, <2>4 DEF Slice!ClearHead
    <3>2. ArrayInv'
      BY <1>1, <1>3, <3>1 DEF ArrayInv, Slice!SpaceBounded
    <3>3. Slice!Depth' = Slice!Depth - 1
      BY <2>2, <3>1 DEF Slice!Depth
    <3> QED BY <1>4, <1>5, <3>1, <3>2, <3>3 DEF next
  <2> QED BY <2>3, <2>4
<1> QED BY <1>2, <1>6, <1>7

(* An empty slice.                                                         *)
LEMMA SliceStarts ==
  ASSUME Slice!QueueAssumption, Slice!Init
  PROVE  ArrayInv /\ Waiting = <<>>
<1>1. Holds([i \in 0..(InitialCapacity - 1) |-> Nil], InitialCapacity, 0, 0)
  BY DEF Holds, Slice!QueueAssumption
<1>2. Holds(cell, capacity, length, shiftQueueStart)
  BY <1>1 DEF Slice!Init
<1>3. Dropped = FALSE /\ capacity = InitialCapacity
  BY DEF Slice!Init
<1>4. InitialCapacity \in Nat \ {0}
  BY DEF Slice!QueueAssumption
<1>5. capacity # 0 /\ Slice!SpaceBounded
  BY <1>3, <1>4 DEF Slice!SpaceBounded
<1>6. Slice!Depth = 0
  BY DEF Slice!Init, Slice!Depth
<1>7. ArrayInv
  BY <1>2, <1>3, <1>5 DEF ArrayInv
<1>8. Waiting = <<>>
  BY <1>6 DEF Waiting
<1> QED BY <1>7, <1>8

(* shiftQueuedMessage, also when there is none.                            *)
LEMMA ShiftKeeps ==
  ASSUME Slice!QueueAssumption, ArrayInv, Slice!shiftQueuedMessage
  PROVE  ArrayInv'
<1>1. CASE shiftQueueStart < length
  BY <1>1, ShiftTakes
<1>2. CASE shiftQueueStart >= length
  <2>1. UNCHANGED <<cell, length, capacity, shiftQueueStart, Dropped>>
    BY <1>2 DEF Slice!shiftQueuedMessage, Slice!Shift
  <2> QED BY <2>1 DEF ArrayInv, Slice!SpaceBounded
<1> QED BY <1>1, <1>2 DEF ArrayInv, Holds

(* closeChannels gives the array away.                                     *)
LEMMA CloseEmpties ==
  ASSUME Slice!QueueAssumption, Slice!closeChannels
  PROVE  ArrayInv' /\ Waiting' = <<>>
<1>1. /\ cell' = [i \in {} |-> Nil] /\ length' = 0 /\ capacity' = 0
      /\ shiftQueueStart' = 0 /\ Dropped' = TRUE
  BY DEF Slice!closeChannels
<1>2. Holds([i \in {} |-> Nil], 0, 0, 0)
  BY DEF Holds
<1>3. Slice!Depth' = 0
  BY <1>1 DEF Slice!Depth
<1> QED BY <1>1, <1>2, <1>3 DEF ArrayInv, Slice!SpaceBounded, Slice!QueueAssumption, Waiting

(* Every step of the slice.                                                *)
LEMMA ArrayStep ==
  ASSUME Slice!QueueAssumption, ArrayInv, [Slice!Next]_(Slice!vars)
  PROVE  ArrayInv'
<1>1. ASSUME NEW m \in Frames, Slice!storeIncomingMessage(m) PROVE ArrayInv'
  BY <1>1, StoreAppends
<1>2. CASE UNCHANGED Slice!vars
  BY <1>2 DEF Slice!vars, ArrayInv, Slice!SpaceBounded
<1> QED BY <1>1, <1>2, ShiftKeeps, CloseEmpties DEF Slice!Next

(* The invariant of the slice.                                             *)
LEMMA ArrayInductive == Slice!Spec => []ArrayInv
BY SliceStarts, ArrayStep, BrowserConnAssumption, PTL DEF Slice!Spec, BrowserConnAssumption

(* No cell but those of waiting messages keeps a message alive: neither in *)
(* the consumed head, nor behind the length after a compaction, nor after  *)
(* a close.                                                                *)
THEOREM OnlyQueued == Slice!Spec => []Slice!OnlyQueuedHeld
<1>1. ArrayInv => Slice!OnlyQueuedHeld
  BY DEF ArrayInv, Holds, Slice!OnlyQueuedHeld
<1> QED BY <1>1, ArrayInductive, PTL

(* The array never has more than twice the cells that messages may wait in.*)
THEOREM StaysSmall == Slice!Spec => []Slice!SpaceBounded
<1>1. ArrayInv => Slice!SpaceBounded
  BY DEF ArrayInv
<1> QED BY <1>1, ArrayInductive, PTL

-----------------------------------------------------------------------------
(* What waits is a sequence of messages.                                   *)
LEMMA WaitingMessages ==
  ASSUME ArrayInv
  PROVE  /\ Slice!Depth \in Nat /\ Waiting \in Seq(Frames) /\ Len(Waiting) = Slice!Depth
         /\ \A i \in 1..Slice!Depth : Waiting[i] = cell[shiftQueueStart + i - 1]
<1>1. Slice!Depth \in Nat
  BY DEF ArrayInv, Holds, Slice!Depth
<1>2. ASSUME NEW i \in 1..Slice!Depth PROVE cell[shiftQueueStart + i - 1] \in Frames
  BY <1>2 DEF ArrayInv, Holds, Slice!Depth
<1>3. Waiting \in [1..Slice!Depth -> Frames]
  BY <1>2 DEF Waiting
<1> QED BY <1>1, <1>3 DEF Waiting

(* A message that is stored is the last of them.                           *)
LEMMA StoreRefines ==
  ASSUME Slice!QueueAssumption, ArrayInv, NEW m \in Frames, Slice!storeIncomingMessage(m)
  PROVE  Len(Waiting) < limitConnectionQueuedMessages /\ Waiting' = Append(Waiting, m)
<1>1. /\ Slice!Depth \in Nat /\ Waiting \in Seq(Frames) /\ Len(Waiting) = Slice!Depth
      /\ \A i \in 1..Slice!Depth : Waiting[i] = cell[shiftQueueStart + i - 1]
  BY WaitingMessages
<1>2. /\ Slice!Depth' = Slice!Depth + 1
      /\ cell'[shiftQueueStart' + Slice!Depth] = m
      /\ \A i \in 0..(Slice!Depth - 1) : cell'[shiftQueueStart' + i] = cell[shiftQueueStart + i]
      /\ ArrayInv'
  BY StoreAppends
<1>3. /\ shiftQueueStart \in Nat /\ shiftQueueStart' \in Nat
  BY <1>2 DEF ArrayInv, Holds
<1>4. Waiting' = [i \in 1..(Slice!Depth + 1) |-> cell'[shiftQueueStart' + i - 1]]
  BY <1>2 DEF Waiting
<1>5. \A i \in 1..Slice!Depth : cell'[shiftQueueStart' + i - 1] = Waiting[i]
  <2> SUFFICES ASSUME NEW i \in 1..Slice!Depth
               PROVE  cell'[shiftQueueStart' + i - 1] = Waiting[i]
    OBVIOUS
  <2>1. i - 1 \in 0..(Slice!Depth - 1) /\ shiftQueueStart' + (i - 1) = shiftQueueStart' + i - 1
        /\ shiftQueueStart + (i - 1) = shiftQueueStart + i - 1
    BY <1>1, <1>3
  <2> QED BY <1>1, <1>2, <2>1
<1>6. cell'[shiftQueueStart' + (Slice!Depth + 1) - 1] = m
  BY <1>1, <1>2, <1>3
<1>7. Append(Waiting, m) = [i \in 1..(Slice!Depth + 1) |-> cell'[shiftQueueStart' + i - 1]]
  <2>1. /\ DOMAIN Append(Waiting, m) = 1..(Slice!Depth + 1)
        /\ Append(Waiting, m)[Slice!Depth + 1] = m
        /\ \A i \in 1..Slice!Depth : Append(Waiting, m)[i] = Waiting[i]
        /\ Append(Waiting, m) \in [1..(Slice!Depth + 1) -> Frames]
    <3>1. /\ Append(Waiting, m) \in Seq(Frames)
          /\ Len(Append(Waiting, m)) = Len(Waiting) + 1
          /\ \A i \in 1..Len(Waiting) : Append(Waiting, m)[i] = Waiting[i]
          /\ Append(Waiting, m)[Len(Waiting) + 1] = m
      BY <1>1, AppendProperties
    <3>2. Append(Waiting, m) \in [1..Len(Append(Waiting, m)) -> Frames]
      BY <3>1, LenProperties
    <3> QED BY <1>1, <3>1, <3>2
  <2>2. \A i \in 1..(Slice!Depth + 1) : i \in 1..Slice!Depth \/ i = Slice!Depth + 1
    BY <1>1
  <2>3. \A i \in 1..(Slice!Depth + 1) :
          Append(Waiting, m)[i] = cell'[shiftQueueStart' + i - 1]
    BY <1>5, <1>6, <2>1, <2>2
  <2> QED BY <2>1, <2>3
<1> QED BY <1>1, <1>4, <1>7 DEF Slice!storeIncomingMessage

(* The first of them is taken.                                             *)
LEMMA ShiftRefines ==
  ASSUME Slice!QueueAssumption, ArrayInv, Slice!shiftQueuedMessage
  PROVE  IF Waiting = <<>>
           THEN shifted' = Nil /\ Waiting' = Waiting
           ELSE shifted' = Head(Waiting) /\ Waiting' = Tail(Waiting)
<1>1. /\ Slice!Depth \in Nat /\ Waiting \in Seq(Frames) /\ Len(Waiting) = Slice!Depth
      /\ \A i \in 1..Slice!Depth : Waiting[i] = cell[shiftQueueStart + i - 1]
  BY WaitingMessages
<1>2. shiftQueueStart \in Nat /\ length \in Nat
  BY DEF ArrayInv, Holds
<1>3. CASE shiftQueueStart >= length
  <2>1. shifted' = Nil /\ cell' = cell /\ length' = length
        /\ shiftQueueStart' = shiftQueueStart
    BY <1>3 DEF Slice!shiftQueuedMessage, Slice!Shift
  <2>2. Waiting = <<>>
    BY <1>1, <1>2, <1>3 DEF Slice!Depth
  <2> QED BY <2>1, <2>2 DEF Waiting, Slice!Depth
<1>4. CASE shiftQueueStart < length
  <2>1. /\ ArrayInv' /\ Slice!Depth' = Slice!Depth - 1 /\ shifted' = cell[shiftQueueStart]
        /\ \A i \in 0..(Slice!Depth - 2) :
             cell'[shiftQueueStart' + i] = cell[shiftQueueStart + 1 + i]
    BY <1>4, ShiftTakes
  <2>2. Slice!Depth > 0 /\ Waiting # <<>>
    BY <1>1, <1>2, <1>4 DEF Slice!Depth
  <2>3. Head(Waiting) = cell[shiftQueueStart]
    BY <1>1, <1>2, <2>2
  <2>4. shiftQueueStart' \in Nat
    BY <2>1 DEF ArrayInv, Holds
  <2>5. Waiting' = [i \in 1..(Slice!Depth - 1) |-> cell'[shiftQueueStart' + i - 1]]
    BY <2>1 DEF Waiting
  <2>6. \A i \in 1..(Slice!Depth - 1) : cell'[shiftQueueStart' + i - 1] = Waiting[i + 1]
    <3> SUFFICES ASSUME NEW i \in 1..(Slice!Depth - 1)
                 PROVE  cell'[shiftQueueStart' + i - 1] = Waiting[i + 1]
      OBVIOUS
    <3>1. /\ i - 1 \in 0..(Slice!Depth - 2) /\ i + 1 \in 1..Slice!Depth
          /\ shiftQueueStart' + (i - 1) = shiftQueueStart' + i - 1
          /\ shiftQueueStart + 1 + (i - 1) = shiftQueueStart + (i + 1) - 1
      BY <1>1, <1>2, <2>4
    <3> QED BY <1>1, <2>1, <3>1
  <2>7. /\ Tail(Waiting) \in [1..(Slice!Depth - 1) -> Frames]
        /\ \A i \in 1..(Slice!Depth - 1) : Tail(Waiting)[i] = Waiting[i + 1]
    <3>1. /\ Tail(Waiting) \in Seq(Frames)
          /\ Len(Tail(Waiting)) = Len(Waiting) - 1
          /\ \A i \in 1..Len(Tail(Waiting)) : Tail(Waiting)[i] = Waiting[i + 1]
      BY <1>1, <2>2, HeadTailProperties
    <3>2. Tail(Waiting) \in [1..Len(Tail(Waiting)) -> Frames]
      BY <3>1, LenProperties
    <3> QED BY <1>1, <3>1, <3>2
  <2>8. Waiting' = Tail(Waiting)
    BY <2>5, <2>6, <2>7
  <2> QED BY <2>1, <2>2, <2>3, <2>8
<1> QED BY <1>2, <1>3, <1>4

(* Whatever is appended, taken and compacted, and however the array grows, *)
(* messages are handed to Read once each, in the order they arrived in.    *)
THEOREM SliceIsQueue == Slice!Spec => Slice!ImplementsFifo
<1>0. Slice!QueueAssumption
  BY BrowserConnAssumption DEF BrowserConnAssumption
<1> USE DEF Slice!Fifo!Init, Slice!Fifo!Store, Slice!Fifo!Shift, Slice!Fifo!Drop, Slice!Fifo!Next
<1>1. Slice!Init => Slice!Fifo!Init
  <2> SUFFICES ASSUME Slice!Init PROVE Waiting = <<>> /\ shifted = Nil
    BY DEF Waiting
  <2>1. Slice!Depth = 0 /\ shifted = Nil
    BY DEF Slice!Init, Slice!Depth
  <2> QED BY <2>1 DEF Waiting
<1>2. ArrayInv /\ [Slice!Next]_(Slice!vars) => [Slice!Fifo!Next]_<<Waiting, shifted>>
  <2> SUFFICES ASSUME ArrayInv, [Slice!Next]_(Slice!vars)
               PROVE  \/ \E m \in Frames : Slice!Fifo!Store(m)
                      \/ Slice!Fifo!Shift \/ Slice!Fifo!Drop
                      \/ UNCHANGED <<Waiting, shifted>>
    BY DEF Slice!Fifo!Next
  <2>1. ASSUME NEW m \in Frames, Slice!storeIncomingMessage(m)
        PROVE  Slice!Fifo!Store(m)
    BY <1>0, <2>1, StoreRefines DEF Waiting, Slice!storeIncomingMessage
  <2>2. CASE Slice!shiftQueuedMessage
    BY <1>0, <2>2, ShiftRefines DEF Waiting
  <2>3. CASE Slice!closeChannels
    <3>1. Slice!Depth' = 0 /\ shifted' = shifted
      BY <2>3 DEF Slice!closeChannels, Slice!Depth
    <3>2. Waiting' = <<>>
      BY <3>1 DEF Waiting
    <3> QED BY <3>1, <3>2 DEF Waiting
  <2>4. CASE UNCHANGED Slice!vars
    BY <2>4 DEF Slice!vars, Waiting, Slice!Depth
  <2> QED BY <2>1, <2>2, <2>3, <2>4 DEF Slice!Next
<1>3. ArrayInv /\ [Slice!Next]_(Slice!vars) => [Slice!Fifo!Next]_<<[i \in 1..Slice!Depth |->
                                    cell[shiftQueueStart + i - 1]], shifted>>
  BY <1>2 DEF Waiting
<1> QED BY <1>1, <1>3, ArrayInductive, PTL DEF Slice!Spec, Slice!ImplementsFifo, Slice!Fifo!Spec

-----------------------------------------------------------------------------
(* The composition: what a step of the connection does to the slice.       *)
ConnInv == SafetyInv /\ QueueInv /\ ArrayInv /\ queue = Waiting

(* A step of the composition is one of the connection.                     *)
LEMMA ComposedStep == ConnNext => Next
BY DEF ConnNext, StoreMessage, TakeMessage, DropMessages, OtherStep, Next,
       CallbackStep, CloserStep, CloseStep, ReadStep

(* Steps that do not touch the queue do not touch the slice.               *)
LEMMA SliceUntouched ==
  ASSUME ArrayInv, queue = Waiting, UNCHANGED <<queue, sliceVars, Dropped>>
  PROVE  ArrayInv' /\ queue' = Waiting' /\ UNCHANGED Slice!vars
BY DEF sliceVars, ArrayInv, Waiting, Slice!Depth, Slice!SpaceBounded, Slice!vars

(* A frame is appended to both, or refused by both.                        *)
LEMMA StoreComposed ==
  ASSUME ConnInv, NEW n \in 0..MaxFrame, StoreMessage(n)
  PROVE  ArrayInv' /\ queue' = Waiting' /\ (Slice!Next \/ UNCHANGED Slice!vars)
<1>1. OnMessage(n) /\ once' = once
  BY DEF StoreMessage, OnMessage, onceVars
<1>2. CASE Overflows(n)
  <2>1. UNCHANGED <<queue, sliceVars, Dropped>>
    BY <1>1, <1>2 DEF StoreMessage, OnMessage, Dropped
  <2> QED BY <2>1, SliceUntouched DEF ConnInv
<1>3. CASE ~Overflows(n)
  <2>1. PICK m : m = Frame(sent, n)
    OBVIOUS
  <2>2. Slice!storeIncomingMessage(m) /\ queue' = Append(queue, m)
    BY <1>1, <1>3, <2>1 DEF StoreMessage, OnMessage, Frame
  <2>3. m \in Frames
    <3>1. sent \in 0..MaxSent
      BY <1>1, WasmConnAssumption DEF OnMessage, ConnInv, QueueInv, WasmConnAssumption
    <3> QED BY <2>1, <3>1 DEF Frames
  <2>4. ArrayInv' /\ Waiting' = Append(Waiting, m)
    BY <2>2, <2>3, BrowserConnAssumption, StoreAppends, StoreRefines
       DEF ConnInv, BrowserConnAssumption
  <2> QED BY <2>2, <2>3, <2>4 DEF ConnInv, Slice!Next
<1> QED BY <1>2, <1>3

(* Both lose their first message.                                          *)
LEMMA TakeComposed ==
  ASSUME ConnInv, TakeMessage
  PROVE  ArrayInv' /\ queue' = Waiting' /\ Slice!Next
<1>1. /\ Slice!shiftQueuedMessage
      /\ IF queue = <<>> THEN queue' = queue ELSE queue' = Tail(queue)
  BY DEF TakeMessage, ReadWaits, ReadShifts, queueVars, tailVars
<1>2. IF Waiting = <<>> THEN Waiting' = Waiting ELSE Waiting' = Tail(Waiting)
  BY <1>1, BrowserConnAssumption, ShiftRefines DEF ConnInv, BrowserConnAssumption
<1>3. ArrayInv'
  BY <1>1, BrowserConnAssumption, ShiftKeeps DEF ConnInv, BrowserConnAssumption
<1> QED BY <1>1, <1>2, <1>3 DEF ConnInv, Slice!Next

(* Both are dropped.                                                       *)
LEMMA DropComposed ==
  ASSUME ConnInv, NEW p, DropMessages(p)
  PROVE  ArrayInv' /\ queue' = Waiting' /\ Slice!Next
<1>1. queue' = <<>> /\ Slice!closeChannels
  BY DEF DropMessages, CloseDropsQueue
<1>2. ArrayInv' /\ Waiting' = <<>>
  BY <1>1, BrowserConnAssumption, CloseEmpties DEF ConnInv, BrowserConnAssumption
<1> QED BY <1>1, <1>2 DEF Slice!Next

(* No other step touches either.                                           *)
LEMMA OtherComposed ==
  ASSUME ConnInv, OtherStep
  PROVE  ArrayInv' /\ queue' = Waiting' /\ UNCHANGED Slice!vars
<1>1. UNCHANGED sliceVars
  BY DEF OtherStep
<1>2. UNCHANGED <<queue, Dropped>>
  <2> USE DEF queueVars, tailVars, onceVars, Dropped
  <2>1. CASE OnError \/ OnClose \/ Close
    BY <2>1 DEF OnError, OnClose, Close
  <2>2. CASE \E n \in 1..MaxFrame : ReadBegins(n)
    BY <2>2 DEF ReadBegins
  <2>3. CASE ReadGetsError \/ ReadGetsSignal
    BY <2>3 DEF ReadGetsError, ReadGetsSignal
  <2>4. CASE Signal \/ SendError \/ CallbackClosesSocket \/ CloserClosesSocket
    BY <2>4 DEF Signal, SendError, CallbackClosesSocket, CloserClosesSocket
  <2>5. ASSUME NEW p, \/ CloseEnters(p) \/ CloseDropsBuffer(p)
                      \/ CloseClosesErrors(p) \/ CloseFindsDone(p)
        PROVE  UNCHANGED <<queue, Dropped>>
    BY <2>5 DEF CloseEnters, CloseDropsBuffer, CloseClosesErrors, CloseFindsDone
  <2> QED BY <2>1, <2>2, <2>3, <2>4, <2>5 DEF OtherStep
<1> QED BY <1>1, <1>2, SliceUntouched DEF ConnInv

(* Every step keeps the two alike, and is one of the slice.                *)
LEMMA ConnStep ==
  ASSUME ConnInv, [ConnNext]_<<vars, sliceVars>>
  PROVE  ConnInv' /\ [Slice!Next]_(Slice!vars)
<1>1. SafetyInv' /\ QueueInv'
  <2>1. [Next]_vars
    BY ComposedStep
  <2> QED BY <2>1, SafetyStep, QueueStep, WasmConnAssumption DEF ConnInv
<1>2. ArrayInv' /\ queue' = Waiting' /\ (Slice!Next \/ UNCHANGED Slice!vars)
  <2>1. CASE UNCHANGED <<vars, sliceVars>>
    <3>1. UNCHANGED <<queue, sliceVars, Dropped>>
      BY <2>1 DEF vars, Dropped
    <3> QED BY <3>1, SliceUntouched DEF ConnInv
  <2>2. CASE ConnNext
    BY <2>2, StoreComposed, TakeComposed, DropComposed, OtherComposed DEF ConnNext
  <2> QED BY <2>1, <2>2
<1> QED BY <1>1, <1>2 DEF ConnInv

(* They start alike.                                                       *)
LEMMA ConnInitial == ConnInit => ConnInv
<1> SUFFICES ASSUME ConnInit PROVE ConnInv
  OBVIOUS
<1>1. SafetyInv /\ QueueInv
  BY SafetyInit, QueueStarts, WasmConnAssumption DEF ConnInit
<1>2. ArrayInv /\ Waiting = <<>>
  BY SliceStarts, BrowserConnAssumption DEF ConnInit, BrowserConnAssumption
<1> QED BY <1>1, <1>2 DEF ConnInv, ConnInit, Init

(* The invariant of the composition, and what it is for.                   *)
LEMMA ConnHolds == ConnSpec => []ConnInv /\ [][Slice!Next]_(Slice!vars)
BY ConnInitial, ConnStep, PTL DEF ConnSpec

(* The connection over the slice behaves as the connection over the        *)
(* sequence, so that all that is proved of the one holds of the other, and *)
(* it uses the slice as the slice expects.                                 *)
THEOREM Composition == ConnSpec => Spec /\ Slice!Spec
<1>1. ConnInit => Init /\ Slice!Init
  BY DEF ConnInit
<1>2. [ConnNext]_<<vars, sliceVars>> => [Next]_vars
  BY ComposedStep
<1> QED BY <1>1, <1>2, ConnHolds, PTL DEF ConnSpec, Spec, Slice!Spec

(* The slice has the waiting messages in their order and no others, in no  *)
(* more room than they need, for any limits, frames and initial capacity.  *)
THEOREM SliceHoldsQueue == ConnSpec => []SliceIsTheQueue
<1>1. ConnInv => SliceIsTheQueue
  BY DEF ConnInv, ArrayInv, Holds, Waiting, SliceIsTheQueue, Slice!OnlyQueuedHeld
<1> QED BY <1>1, ConnHolds, PTL
=============================================================================
