----------------------------- MODULE ByteStream -----------------------------
(***************************************************************************)
(* What a tunnel connection promises its reader: the bytes the other end   *)
(* sent, numbered 1, 2, 3, ..., come out in order and without a gap, until *)
(* the connection breaks; a broken connection may lose what was under way, *)
(* but only from some byte on.                                             *)
(***************************************************************************)
EXTENDS Integers, Sequences

VARIABLES
  sent,      \* the number of the last byte sent
  transit,   \* bytes that have arrived and were not read yet
  got,       \* bytes read
  open

vars == <<sent, transit, got, open>>

Init ==
  /\ sent = 0
  /\ transit = <<>>
  /\ got = <<>>
  /\ open = TRUE

(* The next bytes arrive.                                                  *)
Put ==
  /\ open
  /\ sent' >= sent
  /\ transit' = transit \o [i \in 1..(sent' - sent) |-> sent + i]
  /\ UNCHANGED <<got, open>>

(* A read returns the first n bytes, be they of one message or of several. *)
Get(n) ==
  /\ got' = got \o SubSeq(transit, 1, n)
  /\ transit' = SubSeq(transit, n + 1, Len(transit))
  /\ UNCHANGED <<sent, open>>

(* The connection breaks, possibly over bytes that it could not take.      *)
Break ==
  /\ open /\ ~open'
  /\ sent' >= sent
  /\ UNCHANGED <<transit, got>>

Lose(n) ==
  /\ ~open
  /\ transit' = SubSeq(transit, 1, n)
  /\ UNCHANGED <<sent, got, open>>

Next ==
  \/ Put \/ Break
  \/ \E n \in 0..Len(transit) : Get(n) \/ Lose(n)

Spec == Init /\ [][Next]_vars
=============================================================================
