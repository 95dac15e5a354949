--------------------------- MODULE WebSocketConn ----------------------------
(***************************************************************************)
(* webSocketConn (pkg/grpctunnel/conn.go, and the same code in             *)
(* pkg/bridge/conn.go): a WebSocket used as a net.Conn by HTTP/2.  The     *)
(* module follows one direction of a tunnel, from the goroutines that call *)
(* Write at the sending end to the one that calls Read at the receiving    *)
(* end; both ends are a webSocketConn, and either can be closed, or lose   *)
(* its socket, at any moment.                                              *)
(*                                                                         *)
(* The WebSocket library (external) sends a message as one or more frames, *)
(* hands each frame to the network as a whole, and lets control frames in  *)
(* between; it gives the frames of a message to its reader one by one.     *)
(***************************************************************************)
EXTENDS Integers, Sequences, SequencesExt

CONSTANTS
  Writer,       \* goroutines that call Write
  MaxMessage,   \* bound: bytes of a Write, and of a Read's buffer
  MaxSent,      \* bound: bytes written altogether
  WireRoom      \* frames the network takes before a writer has to wait

Nobody == "nobody"

ASSUME WebSocketConnAssumption ==
  /\ MaxMessage \in Nat \ {0} /\ MaxSent \in Nat /\ WireRoom \in Nat \ {0}
  /\ Nobody \notin Writer

VARIABLES
  closing,   \* per end, Close: not called, isClosed set, or returned
  socket,    \* per end, the library's connection
  writeErr,  \* the library's write error at the sending end, which is final
  readErr,   \* its read error at the receiving end, which is final as well
  writer,    \* where each Write is
  start,     \* ghost: the number of the byte before its message
  rest,      \* the bytes of its message that are still to be sent
  writeMu,   \* who holds the lock of that name
  numbered,  \* ghost: bytes given a number, when their Write got the lock
  wire,      \* frames under way, the first one possibly in part
  sent,      \* ghost: the bytes that went onto the wire
  reader,    \* where the Read is
  inMessage, \* the conn's reader field is set
  received,  \* ghost: the bytes Read has returned
  failed     \* ghost: bytes of messages whose Write returned an error

vars == <<closing, socket, writeErr, readErr, writer, start, rest, writeMu,
          numbered, wire, sent, reader, inMessage, received, failed>>

endVars    == <<closing, socket>>
writerVars == <<writeErr, writer, start, rest, writeMu, numbered, failed>>
readerVars == <<readErr, reader, inMessage, received>>

End == {"sender", "receiver"}
IsClosed(e) == closing[e] # "open"

Frame(type, data, last) == [type |-> type, data |-> data, last |-> last]
Bytes(from, to) == [i \in 1..(to - from) |-> from + i]

Init ==
  /\ closing = [e \in End |-> "open"]
  /\ socket = [e \in End |-> "open"]
  /\ writeErr = FALSE /\ readErr = FALSE
  /\ writer = [w \in Writer |-> "idle"]
  /\ start = [w \in Writer |-> 0]
  /\ rest = [w \in Writer |-> <<>>]
  /\ writeMu = Nobody
  /\ numbered = 0 /\ wire = <<>> /\ sent = 0
  /\ reader = "idle" /\ inMessage = FALSE
  /\ received = <<>> /\ failed = {}

-----------------------------------------------------------------------------
(* Write.                                                                  *)

WriteBegins(w) ==
  /\ writer[w] = "idle"
  /\ numbered < MaxSent
  /\ writer' = [writer EXCEPT ![w] = "locking"]
  /\ UNCHANGED <<endVars, writeErr, start, rest, writeMu, numbered, failed,
                 wire, sent, readerVars>>

(* Wrong...: plausible bugs in the definition that follows, see README.    *)
WrongLockFree == TRUE

LockFree == writeMu = Nobody

(* The lock is held until Write returns.  A closed connection fails at     *)
(* once; it may still be closed after this look and before the frames.     *)
WriteLocks(w, n) ==
  /\ writer[w] = "locking" /\ LockFree
  /\ IF IsClosed("sender")
       THEN /\ writer' = [writer EXCEPT ![w] = "idle"]
            /\ UNCHANGED <<start, rest, writeMu, numbered>>
       ELSE /\ numbered + n <= MaxSent
            /\ writer' = [writer EXCEPT ![w] = "writing"]
            /\ writeMu' = w
            /\ start' = [start EXCEPT ![w] = numbered]
            /\ rest' = [rest EXCEPT ![w] = Bytes(numbered, numbered + n)]
            /\ numbered' = numbered + n
  /\ UNCHANGED <<endVars, writeErr, failed, wire, sent, readerVars>>

CanWrite == socket["sender"] = "open" /\ ~writeErr

(* Nobody reads what arrives at an end that is gone.                       *)
Arrives == socket["receiver"] = "open" /\ ~readErr

Transmit(frame) ==
  /\ CanWrite
  /\ Len(wire) < WireRoom \/ ~Arrives
  /\ wire' = IF Arrives THEN Append(wire, frame) ELSE wire
  /\ sent' = IF Arrives THEN sent + Len(frame.data) ELSE sent

\* The last byte of w's message.
LastByte(w) == IF rest[w] = <<>> THEN start[w] ELSE rest[w][Len(rest[w])]

WriteReturns(w) ==
  /\ writer' = [writer EXCEPT ![w] = "idle"]
  /\ writeMu' = Nobody
  /\ start' = [start EXCEPT ![w] = 0]

WrongShortWrite(w, k) ==
  /\ writer[w] = "writing"
  /\ k <= Len(rest[w]) /\ (k = 0 => rest[w] = <<>>)
  /\ Transmit(Frame("binary", SubSeq(rest[w], 1, k), TRUE))
  /\ rest' = [rest EXCEPT ![w] = <<>>]
  /\ WriteReturns(w)
  /\ UNCHANGED <<endVars, writeErr, numbered, failed, readerVars>>

(* The next k bytes go out as a frame; WriteMessage, and with it Write,    *)
(* returns with the last one.                                              *)
WriteFrame(w, k) ==
  /\ writer[w] = "writing"
  /\ k <= Len(rest[w]) /\ (k = 0 => rest[w] = <<>>)
  /\ Transmit(Frame("binary", SubSeq(rest[w], 1, k), k = Len(rest[w])))
  /\ rest' = [rest EXCEPT ![w] = SubSeq(@, k + 1, Len(@))]
  /\ IF k = Len(rest[w]) THEN WriteReturns(w) ELSE UNCHANGED <<writer, writeMu, start>>
  /\ UNCHANGED <<endVars, writeErr, numbered, failed, readerVars>>

(* The socket was closed under the writer, or its deadline passes.  The    *)
(* bytes that went out before stay with the receiver.                      *)
WriteFails(w) ==
  /\ writer[w] = "writing"
  /\ writeErr' = TRUE
  /\ failed' = failed \cup {b \in 1..numbered : start[w] < b /\ b <= LastByte(w)}
  /\ rest' = [rest EXCEPT ![w] = <<>>]
  /\ WriteReturns(w)
  /\ UNCHANGED <<endVars, numbered, wire, sent, readerVars>>

(* The sending end's keepalive: pings are far enough apart that one has    *)
(* been seen before the next is sent.                                      *)
SendPing ==
  /\ \A i \in DOMAIN wire : wire[i].type # "ping"
  /\ Transmit(Frame("ping", <<>>, TRUE))
  /\ UNCHANGED <<endVars, writerVars, readerVars>>

(* A peer of another make may send a text message between the binary ones. *)
SendText ==
  /\ \A w \in Writer : writer[w] # "writing"
  /\ Transmit(Frame("text", <<>>, TRUE))
  /\ UNCHANGED <<endVars, writerVars, readerVars>>

-----------------------------------------------------------------------------
(* Read.  The reader holds readMu whenever it is not idle.                 *)

WrongReadOnceClosed ==
  /\ reader = "idle"
  /\ reader' = IF inMessage THEN "reading" ELSE "next"
  /\ UNCHANGED <<endVars, writerVars, wire, sent, readErr, inMessage, received>>

ReadBegins ==
  /\ reader = "idle" /\ ~IsClosed("receiver")
  /\ reader' = IF inMessage THEN "reading" ELSE "next"
  /\ UNCHANGED <<endVars, writerVars, wire, sent, readErr, inMessage, received>>

(* NextReader deals with control frames itself.                            *)
SkipPing ==
  /\ reader \in {"next", "reading"} /\ ~readErr
  /\ wire # <<>> /\ Head(wire).type = "ping"
  /\ wire' = Tail(wire)
  /\ UNCHANGED <<endVars, writerVars, sent, readerVars>>

NextReader ==
  /\ reader = "next" /\ ~readErr
  /\ wire # <<>> /\ Head(wire).type = "binary"
  /\ inMessage' = TRUE
  /\ reader' = "reading"
  /\ UNCHANGED <<endVars, writerVars, wire, sent, readErr, received>>

(* A text message ends the Read with an error, and that is all it does.    *)
ReadGetsText ==
  /\ reader = "next" /\ ~readErr
  /\ wire # <<>> /\ Head(wire).type = "text"
  /\ wire' = Tail(wire)
  /\ reader' = "idle"
  /\ UNCHANGED <<endVars, writerVars, sent, readErr, inMessage, received>>

(* Up to n bytes of the frame are returned; the message's end is seen by   *)
(* the next call.                                                          *)
ReadBytes(n) ==
  /\ reader = "reading" /\ ~readErr
  /\ wire # <<>> /\ Head(wire).type = "binary"
  /\ n <= Len(Head(wire).data)
  /\ received' = received \o SubSeq(Head(wire).data, 1, n)
  /\ wire' = [wire EXCEPT ![1].data = SubSeq(@, n + 1, Len(@))]
  /\ reader' = "idle"
  /\ UNCHANGED <<endVars, writerVars, sent, readErr, inMessage>>

(* With compression the last bytes can come together with the end.         *)
ReadLastBytes(n) ==
  /\ reader = "reading" /\ ~readErr
  /\ wire # <<>> /\ Head(wire).type = "binary" /\ Head(wire).last
  /\ Len(Head(wire).data) = n
  /\ received' = received \o Head(wire).data
  /\ wire' = Tail(wire)
  /\ inMessage' = FALSE
  /\ reader' = "idle"
  /\ UNCHANGED <<endVars, writerVars, sent, readErr>>

(* A frame is used up: a further one of its message is read, or the reader *)
(* is given up and the loop asks for the next message.                     *)
FrameEnds ==
  /\ reader = "reading" /\ ~readErr
  /\ wire # <<>> /\ Head(wire).type = "binary" /\ Head(wire).data = <<>>
  /\ wire' = Tail(wire)
  /\ inMessage' = ~Head(wire).last
  /\ reader' = IF Head(wire).last THEN "next" ELSE "reading"
  /\ UNCHANGED <<endVars, writerVars, sent, readErr, received>>

(* No more can come: an end is gone, or an earlier read has failed.  What  *)
(* the library has buffered may be lost or be read first.                  *)
NothingMore ==
  \/ socket["receiver"] = "closed" \/ readErr
  \/ wire = <<>> /\ ~CanWrite

ReadFails ==
  /\ reader \in {"next", "reading"} /\ NothingMore
  /\ readErr' = TRUE
  /\ reader' = "idle"
  /\ UNCHANGED <<endVars, writerVars, wire, sent, inMessage, received>>

(* The read deadline passes, or a message is longer than the read limit.   *)
ReadTimesOut ==
  /\ reader \in {"next", "reading"}
  /\ readErr' = TRUE
  /\ reader' = "idle"
  /\ UNCHANGED <<endVars, writerVars, wire, sent, inMessage, received>>

-----------------------------------------------------------------------------
(* Close takes neither readMu nor writeMu.                                 *)

Close(e) ==
  /\ closing[e] = "open"
  /\ closing' = [closing EXCEPT ![e] = "flagged"]
  /\ UNCHANGED <<socket, writerVars, wire, sent, readerVars>>

WrongCloseWaits(e) ==
  /\ closing[e] = "flagged"
  /\ IF e = "receiver" THEN reader = "idle" ELSE LockFree
  /\ closing' = [closing EXCEPT ![e] = "closed"]
  /\ socket' = [socket EXCEPT ![e] = "closed"]
  /\ UNCHANGED <<writerVars, wire, sent, readerVars>>

CloseSocket(e) ==
  /\ closing[e] = "flagged"
  /\ closing' = [closing EXCEPT ![e] = "closed"]
  /\ socket' = [socket EXCEPT ![e] = "closed"]
  /\ UNCHANGED <<writerVars, wire, sent, readerVars>>

(* The keepalive goroutine, or the network, takes the socket away without  *)
(* the connection being told.                                              *)
LoseSocket(e) ==
  /\ socket[e] = "open"
  /\ socket' = [socket EXCEPT ![e] = "closed"]
  /\ UNCHANGED <<closing, writerVars, wire, sent, readerVars>>

-----------------------------------------------------------------------------
WriteStep(w) ==
  \/ \E n \in 0..MaxMessage : WriteLocks(w, n)
  \/ \E k \in 0..MaxMessage : WriteFrame(w, k)
  \/ ~CanWrite /\ WriteFails(w)

ReadStep ==
  \/ SkipPing \/ NextReader \/ ReadGetsText \/ FrameEnds \/ ReadFails
  \/ \E n \in 1..MaxMessage : ReadBytes(n) \/ ReadLastBytes(n)

Next ==
  \/ \E w \in Writer : WriteBegins(w) \/ WriteStep(w) \/ WriteFails(w)
  \/ SendPing \/ SendText
  \/ ReadBegins \/ ReadStep \/ ReadTimesOut
  \/ \E e \in End : Close(e) \/ CloseSocket(e) \/ LoseSocket(e)

(* The library and the scheduler carry on with every call that has been    *)
(* made, and HTTP/2 reads on; nothing is assumed of deadlines, of the      *)
(* network's end or of calls of Write and Close.                           *)
Fairness ==
  /\ \A w \in Writer : WF_vars(WriteStep(w))
  /\ WF_vars(ReadBegins) /\ WF_vars(ReadStep)
  /\ \A e \in End : WF_vars(CloseSocket(e))

Spec == Init /\ [][Next]_vars /\ Fairness

-----------------------------------------------------------------------------
(* Types.  A Read that is inside a message has the reader that goes with   *)
(* it, and only then.                                                      *)
TypeOK ==
  /\ closing \in [End -> {"open", "flagged", "closed"}]
  /\ socket \in [End -> {"open", "closed"}]
  /\ writeErr \in BOOLEAN /\ readErr \in BOOLEAN /\ inMessage \in BOOLEAN
  /\ writer \in [Writer -> {"idle", "locking", "writing"}]
  /\ writeMu \in Writer \cup {Nobody}
  /\ numbered \in 0..MaxSent /\ sent \in 0..numbered
  /\ start \in [Writer -> 0..MaxSent]
  /\ \A w \in Writer : Len(rest[w]) <= MaxMessage
  /\ Len(wire) <= WireRoom
  /\ \A i \in DOMAIN wire : wire[i].type \in {"binary", "text", "ping"}
  /\ reader \in {"idle", "next", "reading"}
  /\ reader = "reading" => inMessage
  /\ reader = "next" => ~inMessage
  /\ failed \subseteq 1..numbered

(* The two ends together carry a byte stream: what Read returns is what    *)
(* the Writes were given, one message after the other and without a gap,   *)
(* whatever the number of writers, the cut of the messages into frames and *)
(* of the frames into Reads, empty messages, and the pings and the text    *)
(* messages in between; a break only ever cuts the stream off.             *)
Stream == INSTANCE ByteStream WITH
            transit <- FlattenSeq([i \in DOMAIN wire |-> wire[i].data]),
            got <- received,
            open <- CanWrite /\ Arrives
ImplementsByteStream == Stream!Spec

(* After Close has returned and the Read that was under way has ended, no  *)
(* Read returns a byte any more, although the library may hold some; and   *)
(* after Close at the sending end nothing more goes out.                   *)
ClosedForGood ==
  [][/\ closing["receiver"] = "closed" /\ reader = "idle" =>
          reader' = "idle" /\ received' = received
     /\ closing["sender"] = "closed" => sent' = sent]_vars

(* A Close that is called while another goroutine is blocked in Read, or   *)
(* in Write because the network takes no more, comes through and unblocks  *)
(* it.                                                                     *)
CloseUnblocks ==
  /\ IsClosed("receiver") ~> closing["receiver"] = "closed" /\ reader = "idle"
  /\ \A w \in Writer :
       IsClosed("sender") /\ writer[w] # "idle" ~> writer[w] = "idle"

(* Every byte a Write was given comes out of a Read in the end, unless the *)
(* connection breaks or is closed: no message is forgotten in the reader   *)
(* and no goroutine waits for another forever.                             *)
Broken == ~CanWrite \/ ~Arrives \/ IsClosed("sender") \/ IsClosed("receiver")
EveryByteArrives ==
  \A b \in 1..MaxSent : numbered >= b ~> Len(received) >= b \/ Broken

(* What the comment on Write says (bridge/conn.go:161-162): "WebSocket     *)
(* writes are atomic - either the entire message is sent or none of it     *)
(* is".  Then no byte of a Write that failed is ever read.                 *)
WriteAllOrNothing == \A i \in DOMAIN received : received[i] \notin failed
=============================================================================
