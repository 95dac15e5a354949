------------------------- MODULE WebSocketConnProofs -------------------------
(***************************************************************************)
(* The tunnel's connection, for any number of writers, message sizes and   *)
(* room in the network: a closed end stays closed, and the two ends carry  *)
(* a byte stream.                                                          *)
(***************************************************************************)
EXTENDS WebSocketConn, SequenceFacts

(* Close returns only after the library's connection is closed, and that   *)
(* never opens again.                                                      *)
CloseInv ==
  /\ DOMAIN closing = End /\ DOMAIN socket = End
  /\ \A e \in End : closing[e] = "closed" => socket[e] = "closed"

(* No end is closed at the start.                                          *)
LEMMA CloseInit == Init => CloseInv
BY DEF Init, CloseInv

(* Neither a Write nor a Read touches the two flags of an end.             *)
LEMMA WritesTouchNoEnd ==
  ASSUME NEW w \in Writer, WriteBegins(w) \/ WriteStep(w) \/ WriteFails(w)
  PROVE  UNCHANGED <<closing, socket>>
BY DEF WriteBegins, WriteStep, WriteLocks, WriteFrame, WriteFails, endVars

(* Neither do the peer's frames or the steps of a reader.                  *)
LEMMA ReadsTouchNoEnd ==
  ASSUME SendPing \/ SendText \/ ReadBegins \/ ReadStep \/ ReadTimesOut
  PROVE  UNCHANGED <<closing, socket>>
BY DEF SendPing, SendText, ReadBegins, ReadStep, SkipPing, NextReader, ReadGetsText,
   FrameEnds, ReadFails, ReadBytes, ReadLastBytes, ReadTimesOut, endVars

(* Every step.                                                             *)
LEMMA CloseStep == CloseInv /\ [Next]_vars => CloseInv'
<1> SUFFICES ASSUME CloseInv, [Next]_vars PROVE CloseInv'
  OBVIOUS
<1> USE DEF CloseInv
<1>1. CASE UNCHANGED <<closing, socket>>
  BY <1>1
<1>2. ASSUME NEW e \in End, Close(e) PROVE CloseInv'
  BY <1>2 DEF Close
<1>3. ASSUME NEW e \in End, CloseSocket(e) PROVE CloseInv'
  BY <1>3 DEF CloseSocket
<1>4. ASSUME NEW e \in End, LoseSocket(e) PROVE CloseInv'
  BY <1>4 DEF LoseSocket
<1>5. CASE UNCHANGED vars
  BY <1>1, <1>5 DEF vars
<1> QED
  BY <1>1, <1>2, <1>3, <1>4, <1>5, WritesTouchNoEnd, ReadsTouchNoEnd DEF Next

(* The invariant holds throughout.                                         *)
LEMMA CloseInvHolds == Spec => []CloseInv
BY CloseInit, CloseStep, PTL DEF Spec

-----------------------------------------------------------------------------
(* Only a Write, a ping or a text adds to what was sent, through Transmit. *)
LEMMA SendsNeedASocket ==
  ASSUME CloseInv, closing["sender"] = "closed", [Next]_vars
  PROVE  sent' = sent
<1>0. ~CanWrite
  BY DEF CloseInv, CanWrite, End
<1>1. ASSUME NEW w \in Writer, WriteBegins(w) \/ WriteStep(w) \/ WriteFails(w)
      PROVE  sent' = sent
  BY <1>0, <1>1 DEF WriteBegins, WriteStep, WriteLocks, WriteFrame, WriteFails, Transmit
<1>2. CASE SendPing \/ SendText
  BY <1>0, <1>2 DEF SendPing, SendText, Transmit
<1>3. CASE ReadBegins \/ ReadStep \/ ReadTimesOut
  BY <1>3 DEF ReadBegins, ReadStep, SkipPing, NextReader, ReadGetsText, FrameEnds,
     ReadFails, ReadBytes, ReadLastBytes, ReadTimesOut
<1>4. ASSUME NEW e \in End, Close(e) \/ CloseSocket(e) \/ LoseSocket(e)
      PROVE  sent' = sent
  BY <1>4 DEF Close, CloseSocket, LoseSocket
<1>5. CASE UNCHANGED vars
  BY <1>5 DEF vars
<1> QED
  BY <1>1, <1>2, <1>3, <1>4, <1>5 DEF Next

(* An idle reader starts again only at an end that is open.                *)
LEMMA ReadsNeedAnOpenEnd ==
  ASSUME closing["receiver"] = "closed", reader = "idle", [Next]_vars
  PROVE  reader' = "idle" /\ received' = received
<1>1. ASSUME NEW w \in Writer, WriteBegins(w) \/ WriteStep(w) \/ WriteFails(w)
      PROVE  UNCHANGED <<reader, received>>
  BY <1>1 DEF WriteBegins, WriteStep, WriteLocks, WriteFrame, WriteFails, readerVars
<1>2. CASE SendPing \/ SendText
  BY <1>2 DEF SendPing, SendText, readerVars
<1>3. CASE ReadBegins
  BY <1>3 DEF ReadBegins, IsClosed
<1>4. ~ReadTimesOut /\ ~NextReader /\ ~ReadGetsText /\ ~FrameEnds /\ ~ReadFails /\ ~SkipPing
  BY DEF ReadTimesOut, NextReader, ReadGetsText, FrameEnds, ReadFails, SkipPing
<1>5. \A n : ~ReadBytes(n) /\ ~ReadLastBytes(n)
  BY DEF ReadBytes, ReadLastBytes
<1>6. ASSUME NEW e \in End, Close(e) \/ CloseSocket(e) \/ LoseSocket(e)
      PROVE  UNCHANGED <<reader, received>>
  BY <1>6 DEF Close, CloseSocket, LoseSocket, readerVars
<1>7. CASE UNCHANGED vars
  BY <1>7 DEF vars
<1> QED
  BY <1>1, <1>2, <1>3, <1>4, <1>5, <1>6, <1>7 DEF Next, ReadStep

(* Once Close has returned, and the Read that was under way, no Read       *)
(* returns a byte that the library still holds, and nothing more is sent.  *)
THEOREM StaysClosed == Spec => ClosedForGood
<1>1. CloseInv /\ [Next]_vars =>
        [/\ closing["receiver"] = "closed" /\ reader = "idle" =>
              reader' = "idle" /\ received' = received
         /\ closing["sender"] = "closed" => sent' = sent]_vars
  BY SendsNeedASocket, ReadsNeedAnOpenEnd
<1> QED
  BY <1>1, CloseInvHolds, PTL DEF Spec, ClosedForGood

-----------------------------------------------------------------------------
(* The stream.  Bytes are on the wire in the order of their numbers, since *)
(* the lock gives the numbers and is held until the last byte is out.      *)
Transit == FlattenSeq([i \in DOMAIN wire |-> wire[i].data])
Open == CanWrite /\ Arrives

Frames == [type : {"binary", "text", "ping"}, data : Seq(Int), last : BOOLEAN]

(* Frames under way; only binary ones have bytes.                          *)
WireInv ==
  /\ wire \in Seq(Frames)
  /\ \A i \in DOMAIN wire : wire[i].type # "binary" => wire[i].data = <<>>

(* The lock excludes the other writers.                                    *)
LockInv ==
  /\ DOMAIN writer = Writer /\ DOMAIN rest = Writer
  /\ \A w \in Writer : writer[w] = "writing" => writeMu = w
  /\ writeMu # Nobody => writeMu \in Writer /\ writer[writeMu] = "writing"

(* As long as the connection is whole, the holder of the lock still has to *)
(* send what was numbered and is not on the wire; a free lock means that   *)
(* nothing is left to be sent.                                             *)
OrderInv ==
  /\ sent \in Nat /\ numbered \in Nat
  /\ Open => sent <= numbered
  /\ Open => \A w \in Writer : writer[w] = "writing" => rest[w] = Bytes(sent, numbered)
  /\ Open /\ writeMu = Nobody => sent = numbered

(* The invariant of the stream.                                            *)
StreamInv == CloseInv /\ LockInv /\ OrderInv /\ WireInv

(* What the steps of the wire do to the bytes.                             *)
DataOf(frames) == [i \in DOMAIN frames |-> frames[i].data]

(* As many runs as frames.                                                 *)
LEMMA DataType ==
  ASSUME NEW frames \in Seq(Frames)
  PROVE  DataOf(frames) \in Seq(Seq(Int)) /\ Len(DataOf(frames)) = Len(frames)
<1>1. PICK n \in Nat : n = Len(frames) /\ DOMAIN frames = 1..n
  BY LenProperties
<1>2. \A i \in 1..n : frames[i] \in Frames
  BY <1>1, ElementOfSeq
<1>3. \A i \in 1..n : frames[i].data \in Seq(Int)
  BY <1>2 DEF Frames
<1>4. DataOf(frames) \in [1..n -> Seq(Int)]
  BY <1>1, <1>3 DEF DataOf
<1> QED BY <1>1, <1>4

(* One frame more is one run more.                                         *)
LEMMA DataAppend ==
  ASSUME NEW frames \in Seq(Frames), NEW f \in Frames
  PROVE  DataOf(Append(frames, f)) = Append(DataOf(frames), f.data)
<1>1. PICK n \in Nat : n = Len(frames)
  BY LenProperties
<1>2. /\ Append(frames, f) \in Seq(Frames) /\ Len(Append(frames, f)) = n + 1
      /\ Append(frames, f)[n + 1] = f
      /\ \A i \in 1..n : Append(frames, f)[i] = frames[i]
  BY <1>1, AppendProperties
<1>3. PICK d : d = DataOf(frames)
  OBVIOUS
<1>4. d \in Seq(Seq(Int)) /\ Len(d) = n /\ \A i \in 1..n : d[i] = frames[i].data
  BY <1>1, <1>3, DataType, LenProperties DEF DataOf
<1>5. f.data \in Seq(Int)
  BY DEF Frames
<1>6. /\ Append(d, f.data) \in Seq(Seq(Int)) /\ Len(Append(d, f.data)) = n + 1
      /\ Append(d, f.data)[n + 1] = f.data
      /\ \A i \in 1..n : Append(d, f.data)[i] = d[i]
  BY <1>4, <1>5, AppendProperties
<1>7. PICK e : e = DataOf(Append(frames, f))
  OBVIOUS
<1>8. /\ e \in Seq(Seq(Int)) /\ Len(e) = n + 1
      /\ \A i \in 1..(n + 1) : e[i] = Append(frames, f)[i].data
  BY <1>2, <1>7, DataType, LenProperties DEF DataOf
<1>9. ASSUME NEW i \in 1..(n + 1) PROVE e[i] = Append(d, f.data)[i]
  <2>1. CASE i = n + 1
    BY <1>2, <1>6, <1>8, <2>1
  <2>2. CASE i \in 1..n
    BY <1>2, <1>4, <1>6, <1>8, <2>2
  <2>3. i = n + 1 \/ i \in 1..n
    OBVIOUS
  <2> QED BY <2>1, <2>2, <2>3
<1>10. e = Append(d, f.data)
  BY <1>6, <1>8, <1>9, SeqEqual
<1> QED BY <1>3, <1>7, <1>10

(* The bytes of the first frame come first, then those of the others.      *)
LEMMA DataTail ==
  ASSUME NEW frames \in Seq(Frames), frames # <<>>
  PROVE  /\ Head(frames) \in Frames /\ Tail(frames) \in Seq(Frames)
         /\ \A i \in DOMAIN Tail(frames) : i + 1 \in DOMAIN frames
                                           /\ Tail(frames)[i] = frames[i + 1]
         /\ Joins(Head(frames).data, FlattenSeq(DataOf(Tail(frames))),
                  FlattenSeq(DataOf(frames)))
<1>1. PICK n \in Nat : n = Len(frames) /\ n # 0
  BY LenProperties, EmptySeq
<1>2. /\ Head(frames) \in Frames /\ Tail(frames) \in Seq(Frames)
      /\ Len(Tail(frames)) = n - 1
      /\ \A i \in 1..(n - 1) : Tail(frames)[i] = frames[i + 1]
  BY <1>1, HeadTailProperties
<1>3. PICK d : d = DataOf(frames)
  OBVIOUS
<1>4. d \in Seq(Seq(Int)) /\ Len(d) = n /\ \A i \in 1..n : d[i] = frames[i].data
  BY <1>1, <1>3, DataType, LenProperties DEF DataOf
<1>5. d # <<>>
  BY <1>1, <1>4
<1>6. /\ Tail(d) \in Seq(Seq(Int)) /\ Len(Tail(d)) = n - 1
      /\ \A i \in 1..(n - 1) : Tail(d)[i] = d[i + 1]
  BY <1>4, <1>5, HeadTailProperties
<1>7. PICK t : t = DataOf(Tail(frames))
  OBVIOUS
<1>8. /\ t \in Seq(Seq(Int)) /\ Len(t) = n - 1
      /\ \A i \in 1..(n - 1) : t[i] = Tail(frames)[i].data
  BY <1>2, <1>7, DataType, LenProperties DEF DataOf
<1>9. \A i \in 1..(n - 1) : t[i] = Tail(d)[i]
  BY <1>1, <1>2, <1>4, <1>6, <1>8
<1>10. t = Tail(d)
  BY <1>6, <1>8, <1>9, SeqEqual
<1>11. Head(d) = Head(frames).data
  BY <1>1, <1>4, <1>5
<1>12. FlattenSeq(d) = Head(d) \o FlattenSeq(Tail(d))
  BY <1>4, <1>5, FlattenHead
<1>13. \A i \in DOMAIN Tail(frames) : i + 1 \in DOMAIN frames
                                      /\ Tail(frames)[i] = frames[i + 1]
  BY <1>1, <1>2, LenProperties
<1> QED BY <1>2, <1>3, <1>7, <1>10, <1>11, <1>12, <1>13 DEF Joins

(* A first frame of which a part was read.                                 *)
CutTo(cut, frames, d) == cut = [frames EXCEPT ![1].data = d]

(* The other frames stay as they are behind what is left of it.            *)
LEMMA DataCut ==
  ASSUME NEW frames \in Seq(Frames), frames # <<>>, NEW d \in Seq(Int),
         NEW cut, CutTo(cut, frames, d)
  PROVE  /\ cut \in Seq(Frames) /\ DOMAIN cut = DOMAIN frames
         /\ \A i \in DOMAIN cut : cut[i].type = frames[i].type
                                  /\ (i # 1 => cut[i] = frames[i])
         /\ Joins(d, FlattenSeq(DataOf(Tail(frames))), FlattenSeq(DataOf(cut)))
<1>1. PICK n \in Nat : n = Len(frames) /\ n # 0 /\ DOMAIN frames = 1..n
  BY LenProperties, EmptySeq
<1>2. \A i \in 1..n : frames[i] \in Frames
  BY <1>1, ElementOfSeq
<1>3. PICK f : f = [frames[1] EXCEPT !.data = d]
  OBVIOUS
<1>4. f \in Frames /\ f.data = d /\ f.type = frames[1].type
  <2>1. PICK g \in Frames : g = frames[1]
    BY <1>1, <1>2
  <2>2. f = [g EXCEPT !.data = d]
    BY <1>3, <2>1
  <2>3. f \in Frames /\ f.data = d /\ f.type = g.type
    BY <2>2 DEF Frames
  <2> QED BY <2>1, <2>3
<1>5. DOMAIN cut = 1..n /\ cut[1] = f /\ \A i \in 2..n : cut[i] = frames[i]
  BY <1>1, <1>3 DEF CutTo
<1>6. \A i \in 1..n : cut[i] \in Frames
  BY <1>2, <1>4, <1>5
<1>7. cut \in [1..n -> Frames]
  <2>1. cut = [i \in DOMAIN frames |-> cut[i]]
    BY DEF CutTo
  <2> QED BY <1>1, <1>6, <2>1
<1>8. cut \in Seq(Frames) /\ cut # <<>> /\ Len(cut) = n
  <2>1. cut \in Seq(Frames)
    BY <1>7, SeqDef
  <2>2. Len(cut) = n
    BY <1>5, <2>1, LenProperties
  <2> QED BY <1>1, <2>1, <2>2
<1>9. /\ Tail(cut) \in Seq(Frames) /\ Len(Tail(cut)) = n - 1
      /\ \A i \in 1..(n - 1) : Tail(cut)[i] = cut[i + 1]
  BY <1>8, HeadTailProperties
<1>10. /\ Tail(frames) \in Seq(Frames) /\ Len(Tail(frames)) = n - 1
       /\ \A i \in 1..(n - 1) : Tail(frames)[i] = frames[i + 1]
  BY <1>1, HeadTailProperties
<1>11. \A i \in 1..(n - 1) : Tail(cut)[i] = Tail(frames)[i]
  BY <1>1, <1>5, <1>9, <1>10
<1>12. Tail(cut) = Tail(frames)
  BY <1>9, <1>10, <1>11, SeqEqual
<1>13. Head(cut) = f
  BY <1>5, <1>8
<1>14. Joins(Head(cut).data, FlattenSeq(DataOf(Tail(cut))), FlattenSeq(DataOf(cut)))
  BY <1>8, DataTail
<1>15. Joins(d, FlattenSeq(DataOf(Tail(frames))), FlattenSeq(DataOf(cut)))
  BY <1>4, <1>12, <1>13, <1>14
<1>16. \A i \in DOMAIN cut : cut[i].type = frames[i].type /\ (i # 1 => cut[i] = frames[i])
  BY <1>1, <1>4, <1>5
<1> QED BY <1>1, <1>5, <1>8, <1>15, <1>16

(* A message is as long as its numbers say.                                *)
LEMMA BytesType ==
  ASSUME NEW a \in Nat, NEW b \in Nat, a <= b
  PROVE  Bytes(a, b) \in Seq(Int) /\ Len(Bytes(a, b)) = b - a
<1>1. PICK n \in Nat : n = b - a
  OBVIOUS
<1>2. Bytes(a, b) = [i \in 1..n |-> a + i]
  BY <1>1 DEF Bytes
<1> QED BY <1>1, <1>2

(* The first bytes of a message up to m, and the others.                   *)
SplitAt(m, a, b) ==
  /\ SubSeq(Bytes(a, b), 1, m - a) = Bytes(a, m)
  /\ SubSeq(Bytes(a, b), (m - a) + 1, b - a) = Bytes(m, b)

(* A message is its first bytes and the others, wherever it is cut.        *)
LEMMA BytesSplit ==
  ASSUME NEW a \in Nat, NEW m \in Nat, NEW b \in Nat, a <= m, m <= b
  PROVE  SplitAt(m, a, b)
<1>1. PICK k \in Nat, r \in Nat : k = m - a /\ r = b - m /\ b - a = k + r
  <2>1. m - a \in Nat /\ b - m \in Nat /\ b - a = (m - a) + (b - m)
    OBVIOUS
  <2> QED BY <2>1
<1>2. PICK all : all = Bytes(a, b)
  OBVIOUS
<1>3. all \in Seq(Int) /\ Len(all) = k + r /\ \A i \in 1..(k + r) : all[i] = a + i
  <2>1. all = [i \in 1..(k + r) |-> a + i]
    BY <1>1, <1>2 DEF Bytes
  <2> QED BY <2>1
<1>4. PICK f : f = SubSeq(all, 1, k)
  OBVIOUS
<1>5. f \in Seq(Int) /\ Len(f) = k /\ \A i \in 1..k : f[i] = a + i
  BY <1>3, <1>4, SubSeqProperties
<1>6. PICK g : g = Bytes(a, m)
  OBVIOUS
<1>7. g \in Seq(Int) /\ Len(g) = k /\ \A i \in 1..k : g[i] = a + i
  <2>1. g = [i \in 1..k |-> a + i]
    BY <1>1, <1>6 DEF Bytes
  <2> QED BY <2>1
<1>8. f = g
  BY <1>5, <1>7, SeqEqual
<1>9. PICK h : h = SubSeq(all, k + 1, k + r)
  OBVIOUS
<1>10. h \in Seq(Int) /\ Len(h) = r /\ \A i \in 1..r : h[i] = m + i
  <2>1. \A i \in (k + 1)..(k + r) : all[i] \in Int
    BY <1>3
  <2>2. h \in Seq(Int) /\ Len(h) = r /\ \A i \in 1..r : h[i] = all[k + i]
    BY <1>9, <2>1, SubSeqProperties
  <2>3. \A i \in 1..r : all[k + i] = m + i
    BY <1>1, <1>3
  <2> QED BY <2>2, <2>3
<1>11. PICK l : l = Bytes(m, b)
  OBVIOUS
<1>12. l \in Seq(Int) /\ Len(l) = r /\ \A i \in 1..r : l[i] = m + i
  <2>1. l = [i \in 1..r |-> m + i]
    BY <1>1, <1>11 DEF Bytes
  <2> QED BY <2>1
<1>13. h = l
  BY <1>10, <1>12, SeqEqual
<1>14. SubSeq(Bytes(a, b), 1, m - a) = Bytes(a, m)
  BY <1>1, <1>2, <1>4, <1>6, <1>8
<1>15. SubSeq(Bytes(a, b), (m - a) + 1, b - a) = Bytes(m, b)
  BY <1>1, <1>2, <1>9, <1>11, <1>13
<1> QED BY <1>14, <1>15 DEF SplitAt

(* The stream, in terms of the runs.                                       *)
LEMMA TransitIs == Transit = FlattenSeq(DataOf(wire)) /\ Transit' = FlattenSeq(DataOf(wire'))
BY DEF Transit, DataOf

(* A frame that is sent while the other end is there comes behind all that *)
(* are under way; one that is sent to nobody changes nothing.              *)
LEMMA Transmits ==
  ASSUME WireInv, NEW f, Transmit(f),
         Open => f \in Frames /\ (f.type # "binary" => f.data = <<>>),
         UNCHANGED <<socket, writeErr, readErr>>
  PROVE  /\ WireInv' /\ UNCHANGED Open
         /\ Open => Transit' = Transit \o f.data /\ sent' = sent + Len(f.data)
         /\ ~Open => UNCHANGED <<wire, sent>>
<1>1. UNCHANGED Open /\ (Open <=> Arrives)
  BY DEF Open, CanWrite, Arrives, Transmit
<1>2. CASE ~Open
  BY <1>1, <1>2 DEF Transmit, WireInv
<1>3. CASE Open
  <2>1. /\ wire' = Append(wire, f) /\ sent' = sent + Len(f.data) /\ f \in Frames
        /\ f.type # "binary" => f.data = <<>>
        /\ wire \in Seq(Frames)
    BY <1>1, <1>3 DEF Transmit, WireInv
  <2>2. PICK n \in Nat : n = Len(wire) /\ DOMAIN wire = 1..n
    BY <2>1, LenProperties
  <2>3. /\ wire' \in Seq(Frames) /\ Len(wire') = n + 1 /\ wire'[n + 1] = f
        /\ \A i \in 1..n : wire'[i] = wire[i]
    BY <2>1, <2>2, AppendProperties
  <2>4. \A i \in 1..(n + 1) : i = n + 1 \/ i \in DOMAIN wire
    BY <2>2
  <2>5. \A i \in 1..(n + 1) : wire'[i].type # "binary" => wire'[i].data = <<>>
    BY <2>1, <2>2, <2>3, <2>4 DEF WireInv
  <2>6. DOMAIN wire' = 1..(n + 1)
    BY <2>3, LenProperties
  <2>7. WireInv'
    BY <2>3, <2>5, <2>6 DEF WireInv
  <2>8. DataOf(wire') = Append(DataOf(wire), f.data)
    BY <2>1, DataAppend
  <2>9. DataOf(wire) \in Seq(Seq(Int)) /\ f.data \in Seq(Int)
    BY <2>1, DataType DEF Frames
  <2>10. FlattenSeq(DataOf(wire')) = FlattenSeq(DataOf(wire)) \o f.data
    BY <2>8, <2>9, FlattenAppend
  <2>11. Transit' = Transit \o f.data
    BY <2>10, TransitIs
  <2> QED BY <1>1, <1>3, <2>1, <2>7, <2>11
<1> QED BY <1>2, <1>3

(* What is left when the first frame is gone.                              *)
LEMMA WireTail ==
  ASSUME WireInv, wire # <<>>, wire' = Tail(wire)
  PROVE  /\ WireInv'
         /\ Head(wire) \in Frames /\ Transit' \in Seq(Int)
         /\ Head(wire).type # "binary" => Head(wire).data = <<>>
         /\ Joins(Head(wire).data, Transit', Transit)
<1>1. wire \in Seq(Frames)
  BY DEF WireInv
<1>2. /\ Head(wire) \in Frames /\ Tail(wire) \in Seq(Frames)
      /\ \A i \in DOMAIN Tail(wire) : i + 1 \in DOMAIN wire
                                      /\ Tail(wire)[i] = wire[i + 1]
      /\ Joins(Head(wire).data, FlattenSeq(DataOf(Tail(wire))), FlattenSeq(DataOf(wire)))
  BY <1>1, DataTail
<1>3. WireInv'
  BY <1>2 DEF WireInv
<1>4. Head(wire) = wire[1] /\ 1 \in DOMAIN wire
  BY <1>1, LenProperties, EmptySeq
<1>5. Head(wire).type # "binary" => Head(wire).data = <<>>
  BY <1>4 DEF WireInv
<1>6. FlattenSeq(DataOf(Tail(wire))) \in Seq(Int)
  <2>1. DataOf(Tail(wire)) \in Seq(Seq(Int))
    BY <1>2, DataType
  <2> QED BY <2>1, FlattenType
<1> QED BY <1>2, <1>3, <1>5, <1>6, TransitIs

(* A step that reads, as one of the abstract stream.                       *)
ReadsSome ==
  \E c \in 0..Len(Transit) :
    /\ received' = received \o SubSeq(Transit, 1, c)
    /\ Transit' = SubSeq(Transit, c + 1, Len(Transit))

(* A Read that leaves the frame where it is.                               *)
LEMMA PartIsRead ==
  ASSUME WireInv, NEW n \in Nat, ReadBytes(n)
  PROVE  WireInv' /\ ReadsSome
<1>1. /\ wire # <<>> /\ n <= Len(Head(wire).data)
      /\ received' = received \o SubSeq(Head(wire).data, 1, n)
      /\ Head(wire).type = "binary" /\ wire \in Seq(Frames)
  BY DEF ReadBytes, WireInv
<1>2. PICK d : d = Head(wire).data
  OBVIOUS
<1>3. /\ Head(wire) = wire[1] /\ 1 \in DOMAIN wire
  BY <1>1, LenProperties, EmptySeq
<1>4. wire' = [wire EXCEPT ![1].data = SubSeq(d, n + 1, Len(d))]
  BY <1>2, <1>3 DEF ReadBytes
<1>5. PICK behind : behind = FlattenSeq(DataOf(Tail(wire)))
  OBVIOUS
<1>6. d \in Seq(Int) /\ behind \in Seq(Int) /\ Joins(d, behind, Transit)
  <2>1. /\ Head(wire) \in Frames /\ Tail(wire) \in Seq(Frames)
        /\ Joins(Head(wire).data, FlattenSeq(DataOf(Tail(wire))), FlattenSeq(DataOf(wire)))
    BY <1>1, DataTail
  <2>2. DataOf(Tail(wire)) \in Seq(Seq(Int))
    BY <2>1, DataType
  <2>3. behind \in Seq(Int)
    BY <1>5, <2>2, FlattenType
  <2>4. d \in Seq(Int)
    BY <1>2, <2>1 DEF Frames
  <2> QED BY <1>2, <1>5, <2>1, <2>3, <2>4, TransitIs
<1>7. PICK k \in Nat : Len(d) = n + k
  <2>1. PICK m \in Nat : m = Len(d)
    BY <1>6, LenProperties
  <2>2. m - n \in Nat /\ m = n + (m - n)
    BY <1>1, <1>2, <2>1
  <2> QED BY <2>1, <2>2
<1>8. /\ Transit \in Seq(Int) /\ n <= Len(Transit)
      /\ TakesFront(Transit, d, n) /\ Remains(Transit, d, behind, n)
      /\ SubSeq(d, n + 1, Len(d)) \in Seq(Int)
  BY <1>6, <1>7, TakeOfJoined
<1>9. /\ wire' \in Seq(Frames) /\ DOMAIN wire' = DOMAIN wire
      /\ \A i \in DOMAIN wire' : wire'[i].type = wire[i].type
                                 /\ (i # 1 => wire'[i] = wire[i])
      /\ Joins(SubSeq(d, n + 1, Len(d)), behind, FlattenSeq(DataOf(wire')))
  <2>1. PICK left, cut : left = SubSeq(d, n + 1, Len(d)) /\ cut = wire'
    OBVIOUS
  <2>2. CutTo(cut, wire, left) /\ left \in Seq(Int)
    BY <1>4, <1>8, <2>1 DEF CutTo
  <2>3. /\ cut \in Seq(Frames) /\ DOMAIN cut = DOMAIN wire
        /\ \A i \in DOMAIN cut : cut[i].type = wire[i].type /\ (i # 1 => cut[i] = wire[i])
        /\ Joins(left, FlattenSeq(DataOf(Tail(wire))), FlattenSeq(DataOf(cut)))
    BY <1>1, <2>2, DataCut
  <2> QED BY <1>5, <2>1, <2>3
<1>10. WireInv'
  <2>1. wire[1].type = "binary"
    BY <1>1, <1>3
  <2> QED BY <1>9, <2>1 DEF WireInv
<1>11. Transit' = SubSeq(Transit, n + 1, Len(Transit))
  BY <1>8, <1>9, TransitIs DEF Joins, Remains
<1>12. n \in 0..Len(Transit)
  BY <1>8, LenProperties
<1>13. received' = received \o SubSeq(Transit, 1, n)
  BY <1>1, <1>2, <1>8 DEF TakesFront
<1> QED BY <1>10, <1>11, <1>12, <1>13 DEF ReadsSome

(* A Read that comes to the end of a message with its last bytes.          *)
LEMMA LastPartIsRead ==
  ASSUME WireInv, NEW n \in Nat, ReadLastBytes(n)
  PROVE  WireInv' /\ ReadsSome
<1>1. /\ wire # <<>> /\ wire' = Tail(wire)
      /\ received' = received \o Head(wire).data
  BY DEF ReadLastBytes
<1>2. PICK d : d = Head(wire).data
  OBVIOUS
<1>3. WireInv' /\ d \in Seq(Int) /\ Transit' \in Seq(Int) /\ Joins(d, Transit', Transit)
  BY <1>1, <1>2, WireTail DEF Frames
<1>4. PICK m \in Nat : m = Len(d)
  BY <1>3, LenProperties
<1>5. /\ Transit \in Seq(Int) /\ m <= Len(Transit)
      /\ TakesFront(Transit, d, m) /\ Remains(Transit, d, Transit', m)
  <2>1. Len(d) = m + 0
    BY <1>4
  <2> QED BY <1>3, <2>1, TakeOfJoined
<1>6. SubSeq(Transit, 1, m) = d
  <2>1. SubSeq(d, 1, Len(d)) = d
    BY <1>3, SubSeqFull
  <2> QED BY <1>4, <1>5, <2>1 DEF TakesFront
<1>7. Transit' = SubSeq(Transit, m + 1, Len(Transit))
  <2>1. SubSeq(d, m + 1, Len(d)) = <<>>
    <3>1. m + 1 \in Int /\ Len(d) \in Int /\ Len(d) < m + 1
      BY <1>4
    <3> QED BY <3>1, SubSeqEmpty
  <2>2. <<>> \o Transit' = Transit'
    BY <1>3, ConcatEmptySeq
  <2> QED BY <1>5, <2>1, <2>2 DEF Remains
<1>8. m \in 0..Len(Transit)
  BY <1>5, LenProperties
<1> QED BY <1>1, <1>2, <1>3, <1>6, <1>7, <1>8 DEF ReadsSome

(* Frames without bytes leave the stream as it is.                         *)
LEMMA EmptyFrameGoes ==
  ASSUME WireInv, SkipPing \/ ReadGetsText \/ FrameEnds
  PROVE  WireInv' /\ UNCHANGED Transit
<1>1. wire # <<>> /\ wire' = Tail(wire)
  BY DEF SkipPing, ReadGetsText, FrameEnds
<1>2. Head(wire).type # "binary" \/ Head(wire).data = <<>>
  BY DEF SkipPing, ReadGetsText, FrameEnds
<1>3. /\ WireInv' /\ Transit' \in Seq(Int) /\ Head(wire).data = <<>>
      /\ Joins(Head(wire).data, Transit', Transit)
  BY <1>1, <1>2, WireTail
<1>4. <<>> \o Transit' = Transit'
  BY <1>3, ConcatEmptySeq
<1> QED BY <1>3, <1>4 DEF Joins

-----------------------------------------------------------------------------
(* The steps of the writers.                                               *)
LEMMA LockStep ==
  ASSUME StreamInv, [Next]_vars
  PROVE  LockInv'
<1>0. LockInv /\ Nobody \notin Writer
  BY WebSocketConnAssumption DEF StreamInv, WebSocketConnAssumption
<1> USE DEF LockInv
<1>1. ASSUME NEW w \in Writer, WriteBegins(w) PROVE LockInv'
  BY <1>0, <1>1 DEF WriteBegins
<1>2. ASSUME NEW w \in Writer, NEW n, WriteLocks(w, n) PROVE LockInv'
  <2>1. CASE IsClosed("sender")
    BY <1>0, <1>2, <2>1 DEF WriteLocks, LockFree
  <2>2. CASE ~IsClosed("sender")
    <3>1. /\ writeMu = Nobody /\ writeMu' = w
          /\ writer' = [writer EXCEPT ![w] = "writing"]
          /\ DOMAIN rest' = Writer
      BY <1>0, <1>2, <2>2 DEF WriteLocks, LockFree
    <3> QED BY <1>0, <3>1
  <2> QED BY <2>1, <2>2
<1>3. ASSUME NEW w \in Writer, writer[w] = "writing", WriteReturns(w), DOMAIN rest' = Writer
      PROVE  LockInv'
  BY <1>0, <1>3 DEF WriteReturns
<1>4. ASSUME NEW w \in Writer, NEW k, WriteFrame(w, k) PROVE LockInv'
  <2>1. writer[w] = "writing" /\ DOMAIN rest' = Writer
    BY <1>0, <1>4 DEF WriteFrame
  <2>2. CASE WriteReturns(w)
    BY <1>3, <2>1, <2>2
  <2>3. CASE UNCHANGED <<writer, writeMu>>
    BY <1>0, <2>1, <2>3
  <2> QED BY <1>4, <2>2, <2>3 DEF WriteFrame
<1>5. ASSUME NEW w \in Writer, WriteFails(w) PROVE LockInv'
  <2>1. writer[w] = "writing" /\ WriteReturns(w) /\ DOMAIN rest' = Writer
    BY <1>0, <1>5 DEF WriteFails
  <2> QED BY <1>3, <2>1
<1>6. CASE UNCHANGED <<writer, rest, writeMu>>
  BY <1>0, <1>6
<1>7. CASE SendPing \/ SendText \/ ReadBegins \/ ReadStep \/ ReadTimesOut
  <2>1. UNCHANGED writerVars
    BY <1>7 DEF SendPing, SendText, ReadBegins, ReadStep, SkipPing, NextReader,
       ReadGetsText, FrameEnds, ReadFails, ReadBytes, ReadLastBytes, ReadTimesOut
  <2> QED BY <1>6, <2>1 DEF writerVars
<1>8. CASE \E e \in End : Close(e) \/ CloseSocket(e) \/ LoseSocket(e)
  BY <1>6, <1>8 DEF Close, CloseSocket, LoseSocket, writerVars
<1>9. CASE UNCHANGED vars
  BY <1>6, <1>9 DEF vars
<1> QED BY <1>1, <1>2, <1>4, <1>5, <1>7, <1>8, <1>9 DEF Next, WriteStep

(* What every step is, for the stream.                                     *)
StreamStep ==
  \/ /\ Open /\ Open' /\ received' = received
     /\ \E n \in Nat : /\ sent' = sent + n
                       /\ Transit' = Transit \o [i \in 1..n |-> sent + i]
  \/ Open /\ ~Open' /\ UNCHANGED <<sent, Transit, received>>
  \/ ReadsSome /\ UNCHANGED <<sent, Open>>
  \/ UNCHANGED <<Transit, received, sent, Open>>

(* What is shown of each step: the invariant holds on, and it is one of    *)
(* the stream's.                                                           *)
Kept == WireInv' /\ OrderInv' /\ StreamStep

(* The next bytes of the message of whoever holds the lock.                *)
LEMMA FrameGoesOut ==
  ASSUME StreamInv, NEW w \in Writer, NEW k \in Nat, WriteFrame(w, k)
  PROVE  Kept
<1>1. PICK f : f = Frame("binary", SubSeq(rest[w], 1, k), k = Len(rest[w]))
  OBVIOUS
<1>2. /\ Transmit(f) /\ UNCHANGED <<socket, writeErr, readErr, received, numbered>>
      /\ f.data = SubSeq(rest[w], 1, k) /\ f.type = "binary"
      /\ writer[w] = "writing" /\ k <= Len(rest[w])
      /\ rest' = [rest EXCEPT ![w] = SubSeq(@, k + 1, Len(@))]
      /\ IF k = Len(rest[w]) THEN WriteReturns(w) ELSE UNCHANGED <<writer, writeMu>>
  BY <1>1 DEF WriteFrame, Frame, endVars, readerVars
<1>3. /\ sent \in Nat /\ numbered \in Nat /\ WireInv
      /\ DOMAIN writer = Writer /\ DOMAIN rest = Writer
      /\ \A v \in Writer : writer[v] = "writing" => v = w
      /\ writeMu = w /\ w # Nobody
  BY <1>2, WebSocketConnAssumption
     DEF StreamInv, OrderInv, LockInv, WebSocketConnAssumption
<1>4. CASE Open
  <2>1. sent <= numbered /\ rest[w] = Bytes(sent, numbered)
    BY <1>2, <1>4 DEF StreamInv, OrderInv
  <2>2. Len(rest[w]) = numbered - sent
    BY <1>3, <2>1, BytesType
  <2>3. PICK mid \in Nat : mid = sent + k /\ mid - sent = k /\ sent <= mid /\ mid <= numbered
    <3>1. sent + k \in Nat /\ (sent + k) - sent = k /\ sent <= sent + k
          /\ sent + k <= numbered
      BY <1>2, <1>3, <2>2
    <3> QED BY <3>1
  <2>m. /\ SubSeq(rest[w], 1, k) = Bytes(sent, mid)
        /\ SubSeq(rest[w], k + 1, Len(rest[w])) = Bytes(mid, numbered)
    <3>1. SplitAt(mid, sent, numbered)
      BY <1>3, <2>3, BytesSplit
    <3> QED BY <2>1, <2>2, <2>3, <3>1 DEF SplitAt
  <2>4. f.data = [i \in 1..k |-> sent + i]
    <3>1. f.data = Bytes(sent, mid)
      BY <1>2, <2>m
    <3> QED BY <2>3, <3>1 DEF Bytes
  <2>5. f.data \in Seq(Int) /\ Len(f.data) = k
    BY <1>3, <2>4
  <2>6. f \in Frames
    <3>1. (k = Len(rest[w])) \in BOOLEAN
      OBVIOUS
    <3> QED BY <1>1, <1>2, <2>5, <3>1 DEF Frame, Frames
  <2>7. WireInv' /\ Open' /\ Transit' = Transit \o f.data /\ sent' = sent + Len(f.data)
    BY <1>2, <1>3, <1>4, <2>6, Transmits
  <2>8. sent' = mid /\ numbered' = numbered
    BY <1>2, <2>3, <2>5, <2>7
  <2>9. rest'[w] = Bytes(mid, numbered)
    BY <1>2, <1>3, <2>m
  <2>10. OrderInv'
    <3>1. CASE k = Len(rest[w])
      <4>1. sent' = numbered'
        BY <1>3, <2>2, <2>3, <2>8, <3>1
      <4>2. \A v \in Writer : writer'[v] # "writing"
        BY <1>2, <1>3, <3>1 DEF WriteReturns
      <4> QED BY <1>3, <2>8, <4>1, <4>2 DEF OrderInv
    <3>2. CASE k # Len(rest[w])
      <4>1. writer' = writer /\ writeMu' = w
        BY <1>2, <1>3, <3>2
      <4>2. \A v \in Writer : writer'[v] = "writing" => rest'[v] = Bytes(sent', numbered')
        BY <1>3, <2>8, <2>9, <4>1
      <4>3. sent' <= numbered'
        BY <2>3, <2>8
      <4> QED BY <1>3, <2>8, <4>1, <4>2, <4>3 DEF OrderInv
    <3> QED BY <3>1, <3>2
  <2>11. StreamStep
    BY <1>2, <1>4, <2>3, <2>4, <2>7, <2>8 DEF StreamStep
  <2> QED BY <2>7, <2>10, <2>11 DEF Kept
<1>5. CASE ~Open
  <2>1. WireInv' /\ UNCHANGED Open /\ UNCHANGED <<wire, sent>>
    BY <1>2, <1>3, <1>5, Transmits
  <2>2. OrderInv'
    BY <1>2, <1>3, <1>5, <2>1 DEF OrderInv
  <2> QED BY <1>2, <2>1, <2>2 DEF Kept, StreamStep, Transit
<1> QED BY <1>4, <1>5

(* A frame without bytes.                                                  *)
LEMMA ControlGoesOut ==
  ASSUME StreamInv, SendPing \/ SendText
  PROVE  Kept
<1>1. PICK f : /\ Transmit(f) /\ f.data = <<>>
               /\ f = Frame("ping", <<>>, TRUE) \/ f = Frame("text", <<>>, TRUE)
  BY DEF SendPing, SendText, Frame
<1>2. UNCHANGED <<socket, writeErr, readErr, received, numbered, writer, rest, writeMu>>
  BY DEF SendPing, SendText, endVars, writerVars, readerVars
<1>3. f \in Frames
  <2>1. <<>> \in Seq(Int)
    BY EmptySeq
  <2>2. PICK type \in {"binary", "text", "ping"} :
               f = [type |-> type, data |-> <<>>, last |-> TRUE]
    BY <1>1 DEF Frame
  <2> QED BY <2>1, <2>2 DEF Frames
<1>4. /\ WireInv' /\ UNCHANGED Open
      /\ Open => Transit' = Transit \o f.data /\ sent' = sent + Len(f.data)
      /\ ~Open => UNCHANGED <<wire, sent>>
  BY <1>1, <1>2, <1>3, Transmits DEF StreamInv
<1>5. UNCHANGED Transit /\ sent' = sent
  <2>1. Transit \in Seq(Int)
    BY DataType, FlattenType, TransitIs DEF StreamInv, WireInv
  <2>2. Transit \o <<>> = Transit
    BY <2>1, ConcatEmptySeq
  <2>3. sent + 0 = sent /\ Len(<<>>) = 0
    BY EmptySeq DEF StreamInv, OrderInv
  <2> QED BY <1>1, <1>4, <2>2, <2>3 DEF Transit
<1>6. OrderInv'
  BY <1>2, <1>4, <1>5 DEF StreamInv, OrderInv
<1> QED BY <1>2, <1>4, <1>5, <1>6 DEF Kept, StreamStep

(* Steps that put nothing on the wire and take nothing from it.            *)
LEMMA WireUntouched ==
  ASSUME StreamInv, UNCHANGED <<wire, sent, received>>, Open' => Open, OrderInv'
  PROVE  Kept
<1>1. UNCHANGED Transit /\ WireInv'
  BY DEF Transit, WireInv, StreamInv
<1>2. Open \in BOOLEAN /\ Open' \in BOOLEAN
  BY DEF Open, CanWrite, Arrives
<1> QED BY <1>1, <1>2 DEF Kept, StreamStep

(* The next message gets the numbers that follow, or none if the end is    *)
(* closed.                                                                 *)
LEMMA LockGivesNumbers ==
  ASSUME StreamInv, NEW w \in Writer, NEW n \in Nat, WriteLocks(w, n)
  PROVE  Kept
<1>1. /\ UNCHANGED <<wire, sent, received, socket, writeErr, readErr>>
      /\ writeMu = Nobody /\ Nobody \notin Writer
  BY WebSocketConnAssumption
     DEF WriteLocks, LockFree, endVars, readerVars, WebSocketConnAssumption
<1>2. Open' = Open
  BY <1>1 DEF Open, CanWrite, Arrives
<1>3. /\ DOMAIN writer = Writer /\ DOMAIN rest = Writer /\ sent \in Nat /\ numbered \in Nat
      /\ \A v \in Writer : writer[v] # "writing"
      /\ Open => sent = numbered
  BY <1>1 DEF StreamInv, LockInv, OrderInv
<1>4. CASE IsClosed("sender")
  <2>1. writer' = [writer EXCEPT ![w] = "idle"] /\ UNCHANGED <<writeMu, numbered>>
    BY <1>4 DEF WriteLocks
  <2>2. \A v \in Writer : writer'[v] # "writing"
    BY <1>3, <2>1
  <2>3. OrderInv'
    BY <1>1, <1>2, <1>3, <2>1, <2>2 DEF OrderInv
  <2> QED BY <1>1, <1>2, <2>3, WireUntouched
<1>5. CASE ~IsClosed("sender")
  <2>1. /\ writer' = [writer EXCEPT ![w] = "writing"] /\ writeMu' = w
        /\ rest' = [rest EXCEPT ![w] = Bytes(numbered, numbered + n)]
        /\ numbered' = numbered + n
    BY <1>5 DEF WriteLocks
  <2>2. \A v \in Writer : writer'[v] = "writing" => v = w
    BY <1>3, <2>1
  <2>3. Open => rest'[w] = Bytes(sent', numbered')
    BY <1>1, <1>3, <2>1
  <2>4. numbered' \in Nat /\ sent' \in Nat /\ (Open => sent' <= numbered') /\ writeMu' # Nobody
    BY <1>1, <1>3, <2>1
  <2>5. OrderInv'
    BY <1>2, <2>2, <2>3, <2>4 DEF OrderInv
  <2> QED BY <1>1, <1>2, <2>5, WireUntouched
<1> QED BY <1>4, <1>5

(* The connection breaks, or something happens elsewhere.                  *)
LEMMA ElsewhereSteps ==
  ASSUME StreamInv,
         \/ \E w \in Writer : WriteBegins(w) \/ WriteFails(w)
         \/ ReadBegins \/ NextReader \/ ReadFails \/ ReadTimesOut
         \/ \E e \in End : Close(e) \/ CloseSocket(e) \/ LoseSocket(e)
         \/ UNCHANGED vars
  PROVE  Kept
<1>0. /\ DOMAIN writer = Writer /\ DOMAIN rest = Writer /\ DOMAIN socket = End
      /\ sent \in Nat /\ numbered \in Nat
  BY DEF StreamInv, CloseInv, LockInv, OrderInv
<1>1. ASSUME NEW w \in Writer, WriteBegins(w) PROVE Kept
  <2>1. UNCHANGED <<wire, sent, received, numbered, rest, writeMu, socket, writeErr, readErr>>
    BY <1>1 DEF WriteBegins, endVars, readerVars
  <2>2. Open' = Open
    BY <2>1 DEF Open, CanWrite, Arrives
  <2>3. \A v \in Writer : writer'[v] = "writing" => writer[v] = "writing"
    BY <1>0, <1>1 DEF WriteBegins
  <2>4. OrderInv'
    BY <2>1, <2>2, <2>3 DEF StreamInv, OrderInv
  <2> QED BY <2>1, <2>2, <2>4, WireUntouched
<1>2. ASSUME NEW w \in Writer, WriteFails(w) PROVE Kept
  <2>1. UNCHANGED <<wire, sent, received, numbered>> /\ ~Open'
    BY <1>2 DEF WriteFails, readerVars, Open, CanWrite
  <2>2. OrderInv'
    BY <1>0, <2>1 DEF OrderInv
  <2> QED BY <2>1, <2>2, WireUntouched
<1>3. ASSUME UNCHANGED <<wire, sent, received, numbered, writer, rest, writeMu>>, Open' => Open
      PROVE  Kept
  <2>1. OrderInv'
    BY <1>3 DEF StreamInv, OrderInv
  <2> QED BY <1>3, <2>1, WireUntouched
<1>4. CASE ReadBegins \/ NextReader \/ ReadFails \/ ReadTimesOut
  <2>1. UNCHANGED <<wire, sent, received, socket, writeErr, writerVars>>
    BY <1>4 DEF ReadBegins, NextReader, ReadFails, ReadTimesOut, endVars, writerVars
  <2>2. Open' => Open
    BY <1>4, <2>1 DEF ReadBegins, NextReader, ReadFails, ReadTimesOut, Open, CanWrite, Arrives
  <2> QED BY <1>3, <2>1, <2>2 DEF writerVars
<1>5. ASSUME NEW e \in End, Close(e) \/ CloseSocket(e) \/ LoseSocket(e) PROVE Kept
  <2>1. UNCHANGED <<wire, sent, received, writerVars, readErr>>
    BY <1>5 DEF Close, CloseSocket, LoseSocket, writerVars, readerVars
  <2>2. \A x \in End : socket'[x] = "open" => socket[x] = "open"
    BY <1>0, <1>5 DEF Close, CloseSocket, LoseSocket
  <2>3. Open' => Open
    BY <2>1, <2>2 DEF Open, CanWrite, Arrives, End, writerVars
  <2> QED BY <1>3, <2>1, <2>3 DEF writerVars
<1>6. CASE UNCHANGED vars
  <2>1. Open' = Open
    BY <1>6 DEF vars, Open, CanWrite, Arrives
  <2> QED BY <1>3, <1>6, <2>1 DEF vars
<1> QED BY <1>1, <1>2, <1>4, <1>5, <1>6

(* The reader's steps.                                                     *)
LEMMA ReaderTakes ==
  ASSUME StreamInv,
         \/ SkipPing \/ ReadGetsText \/ FrameEnds
         \/ \E n \in Nat : ReadBytes(n) \/ ReadLastBytes(n)
  PROVE  Kept
<1>1. UNCHANGED <<sent, socket, writeErr, readErr, numbered, writer, rest, writeMu>>
  BY DEF SkipPing, ReadGetsText, FrameEnds, ReadBytes, ReadLastBytes, endVars, writerVars,
         readerVars
<1>2. Open' = Open
  BY <1>1 DEF Open, CanWrite, Arrives
<1>3. OrderInv'
  BY <1>1, <1>2 DEF StreamInv, OrderInv
<1>4. CASE SkipPing \/ ReadGetsText \/ FrameEnds
  <2>1. WireInv' /\ UNCHANGED Transit
    BY <1>4, EmptyFrameGoes DEF StreamInv
  <2>2. received' = received
    BY <1>4 DEF SkipPing, ReadGetsText, FrameEnds, readerVars
  <2> QED BY <1>1, <1>2, <1>3, <2>1, <2>2 DEF Kept, StreamStep
<1>5. ASSUME NEW n \in Nat, ReadBytes(n) \/ ReadLastBytes(n) PROVE Kept
  <2>1. WireInv' /\ ReadsSome
    BY <1>5, PartIsRead, LastPartIsRead DEF StreamInv
  <2> QED BY <1>1, <1>2, <1>3, <2>1 DEF Kept, StreamStep
<1> QED BY <1>4, <1>5

(* Every step.                                                             *)
LEMMA StreamKept == ASSUME StreamInv, [Next]_vars PROVE StreamInv' /\ StreamStep
<1>1. CloseInv' /\ LockInv'
  BY CloseStep, LockStep DEF StreamInv
<1>2. Kept
  <2>1. ASSUME NEW w \in Writer, NEW n \in 0..MaxMessage, WriteLocks(w, n) PROVE Kept
    <3>1. n \in Nat
      BY <2>1
    <3> QED BY <2>1, <3>1, LockGivesNumbers
  <2>2. ASSUME NEW w \in Writer, NEW k \in 0..MaxMessage, WriteFrame(w, k) PROVE Kept
    <3>1. k \in Nat
      BY <2>2
    <3> QED BY <2>2, <3>1, FrameGoesOut
  <2>3. ASSUME NEW n \in 1..MaxMessage, ReadBytes(n) \/ ReadLastBytes(n) PROVE Kept
    <3>1. n \in Nat
      BY <2>3
    <3> QED BY <2>3, <3>1, ReaderTakes
  <2>4. CASE \/ \E w \in Writer : WriteBegins(w) \/ WriteFails(w)
             \/ ReadBegins \/ NextReader \/ ReadFails \/ ReadTimesOut
             \/ \E e \in End : Close(e) \/ CloseSocket(e) \/ LoseSocket(e)
             \/ UNCHANGED vars
    BY <2>4, ElsewhereSteps
  <2>5. CASE SkipPing \/ ReadGetsText \/ FrameEnds
    BY <2>5, ReaderTakes
  <2>6. CASE SendPing \/ SendText
    BY <2>6, ControlGoesOut
  <2> QED BY <2>1, <2>2, <2>3, <2>4, <2>5, <2>6 DEF Next, WriteStep, ReadStep
<1> QED BY <1>1, <1>2 DEF Kept, StreamInv

(* Nothing is under way at the start.                                      *)
LEMMA StreamStarts == Init => StreamInv /\ Open /\ Transit = <<>>
<1> SUFFICES ASSUME Init PROVE StreamInv /\ Open /\ Transit = <<>>
  OBVIOUS
<1>1. wire = <<>> /\ sent = 0 /\ numbered = 0 /\ writeMu = Nobody
  BY DEF Init
<1>2. WireInv
  <2>1. <<>> \in Seq(Frames) /\ DOMAIN <<>> = {}
    BY EmptySeq
  <2> QED BY <1>1, <2>1 DEF WireInv
<1>3. DataOf(<<>>) = <<>>
  <2>1. <<>> \in Seq(Frames) /\ Len(<<>>) = 0
    BY EmptySeq
  <2>2. DataOf(<<>>) \in Seq(Seq(Int)) /\ Len(DataOf(<<>>)) = 0
    BY <2>1, DataType
  <2> QED BY <2>2, EmptySeq
<1>4. Transit = <<>>
  BY <1>1, <1>3, FlattenEmpty, TransitIs
<1>5. LockInv
  BY DEF Init, LockInv
<1>6. Open
  BY DEF Init, Open, CanWrite, Arrives, End
<1>7. OrderInv
  BY <1>1 DEF OrderInv, Init
<1> QED BY <1>2, <1>4, <1>5, <1>6, <1>7, CloseInit DEF StreamInv

(* The invariant holds throughout.                                         *)
LEMMA StreamInvHolds == Spec => []StreamInv
BY StreamStarts, StreamKept, PTL DEF Spec

(* The two ends carry a byte stream, for any number of writers, any sizes  *)
(* of messages and frames and any room in the network.                     *)
THEOREM CarriesTheStream == Spec => ImplementsByteStream
<1>1. Init => Stream!Init
  BY StreamStarts DEF Stream!Init, Init, Open, Transit
<1>2. StreamInv /\ [Next]_vars => [Stream!Next]_(Stream!vars)
  <2> SUFFICES ASSUME StreamInv, [Next]_vars
               PROVE  Stream!Next \/ UNCHANGED Stream!vars
    OBVIOUS
  <2>1. StreamStep /\ sent \in Nat
    BY StreamKept DEF StreamInv, OrderInv
  <2>2. CASE /\ Open /\ Open' /\ received' = received
             /\ \E n \in Nat : /\ sent' = sent + n
                               /\ Transit' = Transit \o [i \in 1..n |-> sent + i]
    <3>1. PICK n \in Nat : sent' = sent + n
                         /\ Transit' = Transit \o [i \in 1..n |-> sent + i]
      BY <2>2
    <3>2. sent' - sent = n /\ sent' >= sent
      BY <2>1, <3>1
    <3>3. Transit' = Transit \o [i \in 1..(sent' - sent) |-> sent + i]
      BY <3>1, <3>2
    <3>4. Stream!Put
      BY <2>2, <3>2, <3>3 DEF Stream!Put, Transit, Open
    <3> QED BY <3>4 DEF Stream!Next
  <2>3. CASE Open /\ ~Open' /\ UNCHANGED <<sent, Transit, received>>
    <3>1. sent' >= sent
      BY <2>1, <2>3
    <3>2. Stream!Break
      BY <2>3, <3>1 DEF Stream!Break, Transit, Open
    <3> QED BY <3>2 DEF Stream!Next
  <2>4. CASE ReadsSome /\ UNCHANGED <<sent, Open>>
    <3>1. \E c \in 0..Len(Transit) : Stream!Get(c)
      BY <2>4 DEF ReadsSome, Stream!Get, Transit, Open
    <3> QED BY <3>1 DEF Stream!Next, Transit
  <2>5. CASE UNCHANGED <<Transit, received, sent, Open>>
    BY <2>5 DEF Stream!vars, Transit, Open
  <2> QED BY <2>1, <2>2, <2>3, <2>4, <2>5 DEF StreamStep
<1> QED BY <1>1, <1>2, StreamInvHolds, PTL DEF Spec, ImplementsByteStream, Stream!Spec

(* What is read and what waits are the bytes that were sent, from the      *)
(* first on.                                                               *)
InOrder == Numbered(received, Transit, sent, Open)

(* No step of a byte stream changes that.                                  *)
LEMMA StreamKeepsOrder ==
  InOrder /\ (sent \in Nat)' /\ [Stream!Next]_(Stream!vars) => InOrder'
<1> SUFFICES ASSUME InOrder, sent' \in Nat, [Stream!Next]_(Stream!vars) PROVE InOrder'
  OBVIOUS
<1>1. CASE Stream!Next
  <2>1. Moves(received, Transit, sent, Open, received', Transit', sent', Open')
    BY <1>1 DEF Moves, Transit, Open, Stream!Next, Stream!Put, Stream!Break, Stream!Get, Stream!Lose
  <2>2. Open' \in BOOLEAN
    BY DEF Open
  <2> QED BY <2>1, <2>2, NumberedMoves DEF InOrder
<1>2. CASE UNCHANGED Stream!vars
  <2>1. UNCHANGED <<received, Transit, sent, Open>>
    BY <1>2 DEF Stream!vars, Transit, Open
  <2> QED BY <2>1 DEF InOrder
<1> QED BY <1>1, <1>2

(* So Read has returned a beginning of the bytes that went on the wire,    *)
(* none of them twice, out of order or left out.                           *)
THEOREM BytesInOrder ==
  Spec => [](received = [i \in 1..Len(received) |-> i] /\ Len(received) <= sent)
<1>1. Stream!Init => InOrder
  <2> SUFFICES ASSUME Stream!Init PROVE InOrder
    OBVIOUS
  <2>1. sent = 0 /\ Transit = <<>> /\ received = <<>>
    BY DEF Stream!Init, Transit
  <2>2. <<>> \in Seq(Int) /\ Len(<<>>) = 0 /\ 1..0 = {}
    OBVIOUS
  <2> QED BY <2>1, <2>2 DEF InOrder, Numbered
<1>2. InOrder => received = [i \in 1..Len(received) |-> i] /\ Len(received) <= sent
  BY NumberedComesOut DEF InOrder
<1>3. StreamInv => sent \in Nat
  BY DEF StreamInv, OrderInv
<1> QED
  BY <1>1, <1>2, <1>3, StreamKeepsOrder, CarriesTheStream, StreamInvHolds, PTL
     DEF ImplementsByteStream, Stream!Spec
=============================================================================
