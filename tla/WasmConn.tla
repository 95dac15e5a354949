------------------------------ MODULE WasmConn ------------------------------
(***************************************************************************)
(* browserWebSocketConnection (pkg/wasm/dialer/websocket_conn.go): the     *)
(* net.Conn that gRPC reads from in the browser.  Callbacks of the         *)
(* browser's event loop put frames into a bounded queue; a reader takes    *)
(* them out; a close can come from the browser, from the queue's limits    *)
(* or from the user, at any point of either.                               *)
(*                                                                         *)
(* Go on js/wasm runs on one thread and changes goroutines only where one  *)
(* blocks.  Steps here are cut finer than that, except where the code has  *)
(* no operation at which it could block (named at the step).               *)
(***************************************************************************)
EXTENDS Integers, Sequences, SequencesExt

CONSTANTS
  limitConnectionQueuedMessages,   \* 256 in the code
  limitConnectionQueuedBytes,      \* 16 MiB in the code
  ErrorCapacity,                   \* capacity of the error channel, 4 in the code
  MaxFrame,                        \* bound: bytes of a frame, of a read buffer
  MaxSent                          \* bound: bytes sent to the connection

ASSUME WasmConnAssumption ==
  /\ limitConnectionQueuedMessages \in Nat \ {0}
  /\ limitConnectionQueuedBytes \in Nat
  /\ ErrorCapacity \in Nat \ {0}
  /\ MaxFrame \in Nat \ {0} /\ MaxSent \in Nat

VARIABLES
  socket,       \* the browser's WebSocket: open, or closing/closed
  attached,     \* the three event handlers are installed
  callback,     \* the event callback that is running, and where it is
  queue,        \* queuedMessages from shiftQueueStart on, each a run of bytes
  queuedBytes,  \* queuedBytesSize
  buffer,       \* readMessageBuffer: the unread tail of a message
  array,        \* bytes of the message whose array it keeps, if it is not nil
  signal,       \* the token in incomingMessagesChannel
  errors,       \* how many errors incomingErrorsChannel holds
  errorsClosed, \* that channel is closed
  isClosed,
  once,         \* closeOnce: "free", "done", or the next step of its function
  onceBy,       \* who is executing it
  reader,       \* the goroutine in Read
  closer,       \* the goroutine in Close
  sent,         \* ghost: bytes the browser has received
  received,     \* ghost: bytes Read has returned
  panicked,     \* ghost: a send on a closed channel
  skipped       \* ghost: the teardown found a reader in the way of the tail

vars == <<socket, attached, callback, queue, queuedBytes, buffer, array, signal,
          errors, errorsClosed, isClosed, once, onceBy, reader, closer, sent,
          received, panicked, skipped>>

tailVars   == <<buffer, array>>
queueVars  == <<queue, queuedBytes, tailVars, signal>>
errorVars  == <<errors, errorsClosed, panicked>>
onceVars   == <<isClosed, once, onceBy, skipped>>
streamVars == <<sent, received>>

Init ==
  /\ socket = "open" /\ attached = TRUE /\ callback = "idle"
  /\ queue = <<>> /\ queuedBytes = 0 /\ buffer = <<>> /\ array = 0 /\ signal = FALSE
  /\ errors = 0 /\ errorsClosed = FALSE
  /\ isClosed = FALSE /\ once = "free" /\ onceBy = "nobody"
  /\ reader = "idle" /\ closer = "idle"
  /\ sent = 0 /\ received = <<>> /\ panicked = FALSE /\ skipped = FALSE

-----------------------------------------------------------------------------
(* Callbacks of the browser's event loop, one at a time.                   *)

Event == socket = "open" /\ attached /\ callback = "idle"

(* Wrong...: plausible bugs in the definition that follows, see README.    *)
WrongOverflows(n) ==
  \/ Len(queue) >= limitConnectionQueuedMessages
  \/ queuedBytes > limitConnectionQueuedBytes

Overflows(n) ==
  \/ Len(queue) >= limitConnectionQueuedMessages
  \/ limitConnectionQueuedBytes - n < 0
  \/ queuedBytes > limitConnectionQueuedBytes - n

(* onmessage with a binary frame of n bytes.  Between the check of         *)
(* isClosed and the append nothing can block: no other goroutine is ever   *)
(* suspended while it holds queueMu.                                       *)
OnMessage(n) ==
  /\ Event
  /\ sent + n <= MaxSent
  /\ ~isClosed
  /\ sent' = sent + n
  /\ IF Overflows(n)
       THEN /\ callback' = "overflow"
            /\ UNCHANGED <<queue, queuedBytes>>
       ELSE /\ callback' = "signal"
            /\ queue' = Append(queue, [i \in 1..n |-> sent + i])
            /\ queuedBytes' = queuedBytes + n
  /\ UNCHANGED <<socket, attached, tailVars, signal, errorVars, onceVars,
                 reader, closer, received>>

(* The token for the readers: sent unless one is there already.            *)
Signal ==
  /\ callback = "signal"
  /\ signal' = TRUE
  /\ callback' = "idle"
  /\ UNCHANGED <<socket, attached, queue, queuedBytes, tailVars, errorVars,
                 onceVars, reader, closer, streamVars>>

(* onmessage with a text frame, or onerror: storeConnectionError, which    *)
(* looks at isClosed before and after it takes errorChannelMu.             *)
OnError ==
  /\ Event
  /\ ~isClosed
  /\ callback' = "sendError"
  /\ UNCHANGED <<socket, attached, queueVars, errorVars, onceVars,
                 reader, closer, streamVars>>

WrongMaySendError == TRUE

(* The second look and the send happen under the read lock, so the channel *)
(* cannot be closed between them.                                          *)
MaySendError == ~isClosed

StoreError(next) ==
  /\ errors' = IF MaySendError /\ errors < ErrorCapacity THEN errors + 1 ELSE errors
  /\ panicked' = (panicked \/ (MaySendError /\ errorsClosed))
  /\ callback' = next

SendError ==
  /\ \/ callback = "sendError" /\ StoreError("idle")
     \/ callback = "overflow" /\ StoreError("overflowClose")
  /\ UNCHANGED <<socket, attached, queueVars, errorsClosed, onceVars,
                 reader, closer, streamVars>>

(* onclose: the other end or the network closed the socket.                *)
OnClose ==
  /\ Event
  /\ socket' = "closed"
  /\ callback' = "onClose"
  /\ UNCHANGED <<attached, queueVars, errorVars, onceVars, reader, closer,
                 streamVars>>

-----------------------------------------------------------------------------
(* closeChannels, run once by whoever comes first; the others wait for it. *)

Closing(p) ==
  \/ p = "callback" /\ callback \in {"onClose", "overflowClose"}
  \/ p = "closer" /\ closer = "closeChannels"

(* What p goes on with when closeChannels returns.                         *)
CloseReturns(p) ==
  IF p = "callback"
    THEN /\ callback' = IF callback = "onClose" THEN "idle" ELSE "closeSocket"
         /\ UNCHANGED closer
    ELSE /\ closer' = "closeSocket"
         /\ UNCHANGED callback

CloseEnters(p) ==
  /\ Closing(p) /\ once = "free"
  /\ once' = "queue" /\ onceBy' = p
  /\ isClosed' = TRUE
  /\ attached' = FALSE
  /\ UNCHANGED <<socket, callback, queueVars, errorVars, skipped, reader, closer,
                 streamVars>>

CloseDropsQueue(p) ==
  /\ once = "queue" /\ onceBy = p
  /\ queue' = <<>> /\ queuedBytes' = 0
  /\ once' = "buffer"
  /\ UNCHANGED <<socket, attached, callback, tailVars, signal, errorVars, isClosed,
                 onceBy, skipped, reader, closer, streamVars>>

WrongCloseKeepsBuffer(p) ==
  /\ once = "buffer" /\ onceBy = p
  /\ once' = "errors"
  /\ UNCHANGED <<socket, attached, callback, queueVars, errorVars, isClosed,
                 onceBy, skipped, reader, closer, streamVars>>

(* readMu.TryLock: the tail, or what is left of it, stays where it is when *)
(* a reader holds the lock.                                                *)
CloseDropsBuffer(p) ==
  /\ once = "buffer" /\ onceBy = p
  /\ IF reader = "idle" THEN buffer' = <<>> /\ array' = 0 ELSE UNCHANGED tailVars
  /\ skipped' = (reader # "idle")
  /\ once' = "errors"
  /\ UNCHANGED <<socket, attached, callback, queue, queuedBytes, signal, errorVars,
                 isClosed, onceBy, reader, closer, streamVars>>

WrongCloseKeepsErrors(p) ==
  /\ once = "errors" /\ onceBy = p
  /\ once' = "done"
  /\ CloseReturns(p)
  /\ UNCHANGED <<socket, attached, queueVars, errorVars, isClosed, onceBy,
                 skipped, reader, streamVars>>

CloseClosesErrors(p) ==
  /\ once = "errors" /\ onceBy = p
  /\ errorsClosed' = TRUE
  /\ once' = "done"
  /\ CloseReturns(p)
  /\ UNCHANGED <<socket, attached, queueVars, errors, panicked, isClosed, onceBy,
                 skipped, reader, streamVars>>

CloseFindsDone(p) ==
  /\ Closing(p) /\ once = "done"
  /\ CloseReturns(p)
  /\ UNCHANGED <<socket, attached, queueVars, errorVars, onceVars, reader, streamVars>>

CloseStep(p) ==
  \/ CloseEnters(p) \/ CloseDropsQueue(p) \/ CloseDropsBuffer(p)
  \/ CloseClosesErrors(p) \/ CloseFindsDone(p)

WrongOverflowKeepsSocket ==
  /\ callback = "closeSocket"
  /\ callback' = "idle"
  /\ UNCHANGED <<socket, attached, queueVars, errorVars, onceVars, reader, closer,
                 streamVars>>

(* The overflow handler and Close both close the browser's socket as well. *)
CallbackClosesSocket ==
  /\ callback = "closeSocket"
  /\ socket' = "closed"
  /\ callback' = "idle"
  /\ UNCHANGED <<attached, queueVars, errorVars, onceVars, reader, closer, streamVars>>

CloserClosesSocket ==
  /\ closer = "closeSocket"
  /\ socket' = "closed"
  /\ closer' = "done"
  /\ UNCHANGED <<attached, callback, queueVars, errorVars, onceVars, reader, streamVars>>

Close ==
  /\ closer = "idle"
  /\ closer' = "closeChannels"
  /\ UNCHANGED <<socket, attached, callback, queueVars, errorVars, onceVars,
                 reader, streamVars>>

-----------------------------------------------------------------------------
(* Read.  The reader holds readMu whenever it is not idle.                 *)

WrongTake(n, message) ==
  LET copied == Min({n, Len(message)})
  IN  /\ received' = received \o SubSeq(message, 1, copied)
      /\ buffer' = SubSeq(message, copied + 2, Len(message))

(* Copying into a destination of n bytes.  A message that is read to its   *)
(* end leaves a slice of length zero, which still keeps the array.         *)
Take(n, message) ==
  LET copied == Min({n, Len(message)})
  IN  /\ received' = received \o SubSeq(message, 1, copied)
      /\ buffer' = SubSeq(message, copied + 1, Len(message))

(* A closed connection answers net.ErrClosed; a tail is served before any  *)
(* new message.                                                            *)
ReadBegins(n) ==
  /\ reader = "idle"
  /\ IF isClosed
       THEN UNCHANGED <<reader, buffer, received>>
       ELSE IF buffer # <<>>
         THEN Take(n, buffer) /\ UNCHANGED reader
         ELSE reader' = "shift" /\ UNCHANGED <<buffer, received>>
  /\ UNCHANGED <<socket, attached, callback, queue, queuedBytes, array, signal,
                 errorVars, onceVars, closer, sent>>

(* The message is taken and its tail kept without a point to block at.  A  *)
(* message without a tail leaves readMessageBuffer, of length zero, alone. *)
ReadShifts(n) ==
  /\ reader = "shift" /\ queue # <<>>
  /\ Take(n, Head(queue))
  /\ array' = IF n < Len(Head(queue)) THEN Len(Head(queue)) ELSE array
  /\ queue' = Tail(queue)
  /\ queuedBytes' = IF queuedBytes >= Len(Head(queue))
                      THEN queuedBytes - Len(Head(queue)) ELSE 0
  /\ reader' = "idle"
  /\ UNCHANGED <<socket, attached, callback, signal, errorVars, onceVars, closer, sent>>

ReadWaits ==
  /\ reader = "shift" /\ queue = <<>>
  /\ reader' = "select"
  /\ UNCHANGED <<socket, attached, callback, queueVars, errorVars, onceVars,
                 closer, streamVars>>

(* select takes either ready case.                                         *)
ReadGetsError ==
  /\ reader = "select"
  /\ errors > 0 \/ errorsClosed
  /\ errors' = IF errors > 0 THEN errors - 1 ELSE 0
  /\ reader' = "idle"
  /\ UNCHANGED <<socket, attached, callback, queueVars, errorsClosed, panicked,
                 onceVars, closer, streamVars>>

WrongWaitsAgain ==
  /\ reader = "select"
  /\ signal
  /\ signal' = FALSE
  /\ UNCHANGED <<socket, attached, callback, queue, queuedBytes, tailVars, errorVars,
                 onceVars, reader, closer, streamVars>>

ReadGetsSignal ==
  /\ reader = "select"
  /\ signal
  /\ signal' = FALSE
  /\ reader' = "shift"
  /\ UNCHANGED <<socket, attached, callback, queue, queuedBytes, tailVars, errorVars,
                 onceVars, closer, streamVars>>

-----------------------------------------------------------------------------
CallbackStep == Signal \/ SendError \/ CallbackClosesSocket \/ CloseStep("callback")
CloserStep == CloserClosesSocket \/ CloseStep("closer")
ReadStep ==
  \/ \E n \in 1..MaxFrame : ReadShifts(n)
  \/ ReadWaits \/ ReadGetsError \/ ReadGetsSignal

Next ==
  \/ \E n \in 0..MaxFrame : OnMessage(n)
  \/ OnError \/ OnClose \/ Close
  \/ \E n \in 1..MaxFrame : ReadBegins(n)
  \/ CallbackStep \/ CloserStep \/ ReadStep

(* Goroutines that can run do run; events, calls of Read and of Close come *)
(* or do not.                                                              *)
Fairness == WF_vars(CallbackStep) /\ WF_vars(CloserStep) /\ WF_vars(ReadStep)

Spec == Init /\ [][Next]_vars /\ Fairness

-----------------------------------------------------------------------------
QueuedTotal == Len(FlattenSeq(queue))

(* Types.  No message and no tail is longer than a frame.                  *)
TypeOK ==
  /\ socket \in {"open", "closed"} /\ attached \in BOOLEAN
  /\ callback \in {"idle", "signal", "sendError", "overflow", "overflowClose",
                   "onClose", "closeSocket"}
  /\ \A i \in DOMAIN queue : Len(queue[i]) \in 0..MaxFrame
  /\ queuedBytes \in Nat
  /\ Len(buffer) < MaxFrame /\ array \in 0..MaxFrame
  /\ signal \in BOOLEAN /\ errorsClosed \in BOOLEAN
  /\ errors \in 0..ErrorCapacity
  /\ isClosed \in BOOLEAN
  /\ once \in {"free", "queue", "buffer", "errors", "done"}
  /\ onceBy \in {"nobody", "callback", "closer"}
  /\ reader \in {"idle", "shift", "select"}
  /\ closer \in {"idle", "closeChannels", "closeSocket", "done"}
  /\ sent \in 0..MaxSent /\ panicked \in BOOLEAN
  /\ skipped \in BOOLEAN

(* A slow reader cannot make the browser's memory grow: the queue stays    *)
(* within both limits, and the byte count that the limit is tested on is   *)
(* the real one after any mixture of appends, reads and closes.            *)
QueueWithinLimits ==
  /\ Len(queue) <= limitConnectionQueuedMessages
  /\ queuedBytes = QueuedTotal
  /\ QueuedTotal <= limitConnectionQueuedBytes

(* An error that a callback reports while another goroutine tears the      *)
(* connection down is never sent on the closed channel, which would panic  *)
(* and end the whole program.                                              *)
NoSendOnClosed == ~panicked

(* A reader never sleeps over a message: the single token that stands for  *)
(* any number of messages is there, or about to be, or an error or the     *)
(* teardown wakes the reader.                                              *)
NoLostWakeup ==
  reader = "select" /\ queue # <<>> =>
    signal \/ callback = "signal" \/ errors > 0 \/ once # "free"

(* A connection that was torn down has let go of every byte nobody read,   *)
(* whatever a callback or a reader was doing at that moment.  What the     *)
(* comment of closeChannels promises, that closed sockets release memory   *)
(* promptly, is true but for one case: when a reader was inside Read the   *)
(* lock is only tried, and the array of one message, read to its end,      *)
(* stays for as long as the connection itself.                             *)
ClosedReleasesPayload ==
  once = "done" =>
    /\ queue = <<>> /\ buffer = <<>>
    /\ array > 0 => skipped

(* What Read returns is the byte stream the browser received, in order and *)
(* without a gap, across message boundaries and partial reads; a message   *)
(* is dropped only when the connection is given up.                        *)
Stream == INSTANCE ByteStream WITH
            transit <- buffer \o FlattenSeq(queue),
            got <- received,
            open <- ~isClosed /\ callback \notin {"overflow", "overflowClose"}
ImplementsByteStream == Stream!Spec

(* A Read that finds data, or whose connection is closed under it, comes   *)
(* back.                                                                   *)
ReadReturns ==
  reader # "idle" /\ (queue # <<>> \/ isClosed) ~> reader = "idle"

(* A connection that was given up does not leave its WebSocket open.       *)
SocketClosed == isClosed ~> socket = "closed"
=============================================================================
