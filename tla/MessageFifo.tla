----------------------------- MODULE MessageFifo -----------------------------
(***************************************************************************)
(* What the readers and the callbacks of browserWebSocketConnection rely   *)
(* on: a queue of at most Limit messages that come out as they went in,    *)
(* until the connection is torn down and what is left is dropped.          *)
(***************************************************************************)
EXTENDS Integers, Sequences

CONSTANTS Message, Nil, Limit

VARIABLES
  fifo,      \* the messages that were stored and not taken
  shifted    \* what the latest attempt to take one returned, Nil for nothing

Init == fifo = <<>> /\ shifted = Nil

Store(m) ==
  /\ Len(fifo) < Limit
  /\ fifo' = Append(fifo, m)
  /\ UNCHANGED shifted

Shift ==
  IF fifo = <<>>
    THEN shifted' = Nil /\ UNCHANGED fifo
    ELSE shifted' = Head(fifo) /\ fifo' = Tail(fifo)

Drop == fifo' = <<>> /\ UNCHANGED shifted

Next == (\E m \in Message : Store(m)) \/ Shift \/ Drop

Spec == Init /\ [][Next]_<<fifo, shifted>>
=============================================================================
