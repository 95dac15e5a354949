--------------------------- MODULE SequenceFacts ---------------------------
(***************************************************************************)
(* Facts that the proofs about several components cite: induction, the     *)
(* concatenation of sequences, streams of numbered elements.  Nothing in   *)
(* here is about the program.                                              *)
(*                                                                         *)
(* The library's induction theorems take an operator as their parameter,   *)
(* which the provers at hand cannot instantiate.  Its theorem on minimal   *)
(* elements takes a set, so the induction here is about sets: a set of     *)
(* numbers with 0 and with the successor of each member has every number.  *)
(***************************************************************************)
EXTENDS Integers, Sequences, SequencesExt, SequenceTheorems, WellFoundedInduction, TLAPS

(* The order that the induction is over.                                   *)
Below == OpToRel(<, Nat)

(* There is no infinite descent in it.                                     *)
LEMMA BelowWellFounded == IsWellFoundedOn(Below, Nat)
BY NatLessThanWellFounded DEF Below

(* It is the order of the numbers.                                         *)
LEMMA BelowIsLess == \A i, j \in Nat : <<i, j>> \in Below <=> i < j
BY DEF Below, OpToRel

(* Induction: a set of numbers that has 0, and with each number the next,  *)
(* has them all.                                                           *)
THEOREM SetInduction ==
  ASSUME NEW T, T \subseteq Nat, 0 \in T, \A n \in T : n + 1 \in T
  PROVE  T = Nat
<1> SUFFICES ASSUME Nat \ T # {} PROVE FALSE
  OBVIOUS
<1>1. PICK n \in Nat \ T : \A i \in Nat \ T : ~(<<i, n>> \in Below)
  BY BelowWellFounded, WFMin
<1>2. n \in Nat /\ n # 0
  BY <1>1
<1>3. n - 1 \in Nat /\ n - 1 < n
  BY <1>2
<1>4. <<n - 1, n>> \in Below
  BY <1>2, <1>3, BelowIsLess
<1>5. n - 1 \in T
  BY <1>1, <1>3, <1>4
<1>6. (n - 1) + 1 = n
  BY <1>2
<1> QED BY <1>1, <1>5, <1>6

-----------------------------------------------------------------------------
(* f[i] is the concatenation of the first i sequences of seqs, as the      *)
(* library defines FlattenSeq.                                             *)
Concatenates(f, seqs, n) ==
  f = [i \in 1..n |-> IF i = 1 THEN seqs[i] ELSE f[i - 1] \o seqs[i]]

(* The library's definition in these terms.                                *)
LEMMA FlattenChooses ==
  ASSUME NEW seqs, Len(seqs) # 0
  PROVE  FlattenSeq(seqs) = (CHOOSE f : Concatenates(f, seqs, Len(seqs)))[Len(seqs)]
BY DEF FlattenSeq, Concatenates

(* There is such an f for every length, by induction on it.                *)
LEMMA ConcatenationExists ==
  ASSUME NEW seqs, NEW m \in Nat
  PROVE  \E f : Concatenates(f, seqs, m)
<1> DEFINE T == {n \in Nat : \E f : Concatenates(f, seqs, n)}
<1>1. 0 \in T
  <2>1. Concatenates([i \in 1..0 |-> 0], seqs, 0)
    BY DEF Concatenates
  <2> QED BY <2>1
<1>2. ASSUME NEW n \in T PROVE n + 1 \in T
  <2>0. n \in Nat /\ \E f : Concatenates(f, seqs, n)
    BY <1>2
  <2>1. PICK f : Concatenates(f, seqs, n)
    BY <2>0
  <2> DEFINE g == [i \in 1..(n + 1) |-> IF i = 1 THEN seqs[i] ELSE f[i - 1] \o seqs[i]]
  <2>2. ASSUME NEW i \in 1..n PROVE g[i] = f[i]
    <3>1. f[i] = IF i = 1 THEN seqs[i] ELSE f[i - 1] \o seqs[i]
      BY <2>0, <2>1 DEF Concatenates
    <3> QED BY <2>0, <3>1
  <2>3. ASSUME NEW i \in 1..(n + 1)
        PROVE  g[i] = IF i = 1 THEN seqs[i] ELSE g[i - 1] \o seqs[i]
    <3>1. CASE i = 1
      BY <3>1
    <3>2. CASE i # 1
      <4>1. i - 1 \in 1..n
        BY <2>0, <3>2
      <4> QED BY <2>2, <4>1, <3>2
    <3> QED BY <3>1, <3>2
  <2>4. Concatenates(g, seqs, n + 1)
    <3> DEFINE h == [i \in 1..(n + 1) |-> IF i = 1 THEN seqs[i] ELSE g[i - 1] \o seqs[i]]
    <3>1. \A i \in 1..(n + 1) : h[i] = g[i]
      BY <2>3
    <3>2. g = h
      BY <3>1
    <3> QED BY <3>2 DEF Concatenates
  <2> QED BY <2>0, <2>4
<1> HIDE DEF T
<1>3. T = Nat
  <2>1. T \subseteq Nat BY DEF T
  <2> QED BY <1>1, <1>2, <2>1, SetInduction
<1> QED BY <1>3 DEF T

(* A longer one continues a shorter one, by induction on the position.     *)
LEMMA ConcatenationsAgree ==
  ASSUME NEW seqs, NEW m \in Nat, NEW k \in Nat, m <= k, NEW f, NEW g,
         Concatenates(f, seqs, m), Concatenates(g, seqs, k)
  PROVE  \A i \in 1..m : f[i] = g[i]
<1> DEFINE T == {n \in Nat : n \in 1..m => f[n] = g[n]}
<1>0. 0 \in T
  OBVIOUS
<1>1. ASSUME NEW n \in T PROVE n + 1 \in T
  <2> SUFFICES ASSUME n + 1 \in 1..m PROVE f[n + 1] = g[n + 1]
    BY <1>1
  <2>0. n \in Nat /\ n + 1 \in 1..k /\ (n + 1) - 1 = n
    BY <1>1
  <2>1. f[n + 1] = IF n + 1 = 1 THEN seqs[n + 1] ELSE f[(n + 1) - 1] \o seqs[n + 1]
    BY DEF Concatenates
  <2>2. g[n + 1] = IF n + 1 = 1 THEN seqs[n + 1] ELSE g[(n + 1) - 1] \o seqs[n + 1]
    BY <2>0 DEF Concatenates
  <2>3. CASE n = 0
    BY <2>1, <2>2, <2>3
  <2>4. CASE n # 0
    <3>1. f[n] = g[n]
      BY <1>1, <2>0, <2>4
    <3> QED BY <2>0, <2>1, <2>2, <2>4, <3>1
  <2> QED BY <2>3, <2>4
<1> HIDE DEF T
<1>2. T = Nat
  <2>1. T \subseteq Nat BY DEF T
  <2> QED BY <1>0, <1>1, <2>1, SetInduction
<1> QED BY <1>2 DEF T

(* FlattenSeq can be read off any such f, also one of a longer sequence.   *)
LEMMA FlattenIs ==
  ASSUME NEW seqs, Len(seqs) \in Nat \ {0}, NEW k \in Nat, Len(seqs) <= k,
         NEW f, NEW longer, Concatenates(f, longer, k),
         \A i \in 1..Len(seqs) : longer[i] = seqs[i]
  PROVE  FlattenSeq(seqs) = f[Len(seqs)]
<1>1. PICK g : Concatenates(g, seqs, Len(seqs)) /\ FlattenSeq(seqs) = g[Len(seqs)]
  <2> DEFINE c == CHOOSE g : Concatenates(g, seqs, Len(seqs))
  <2>1. Concatenates(c, seqs, Len(seqs))
    BY ConcatenationExists
  <2>2. FlattenSeq(seqs) = c[Len(seqs)]
    BY FlattenChooses
  <2> QED BY <2>1, <2>2
<1>2. Concatenates(g, longer, Len(seqs))
  <2>1. [i \in 1..Len(seqs) |-> IF i = 1 THEN seqs[i] ELSE g[i - 1] \o seqs[i]]
      = [i \in 1..Len(seqs) |-> IF i = 1 THEN longer[i] ELSE g[i - 1] \o longer[i]]
    OBVIOUS
  <2> QED BY <1>1, <2>1 DEF Concatenates
<1>3. \A i \in 1..Len(seqs) : g[i] = f[i]
  BY <1>2, ConcatenationsAgree
<1> QED BY <1>1, <1>3

(* The next value of f.                                                    *)
LEMMA ConcatenationSteps ==
  ASSUME NEW seqs, NEW m \in Nat, NEW f, Concatenates(f, seqs, m), NEW i \in Nat, i < m
  PROVE  f[i + 1] = IF i = 0 THEN seqs[1] ELSE f[i] \o seqs[i + 1]
<1>1. i + 1 \in 1..m /\ (i + 1) - 1 = i /\ (i + 1 = 1 <=> i = 0)
  OBVIOUS
<1>2. f[i + 1] = IF i + 1 = 1 THEN seqs[i + 1] ELSE f[(i + 1) - 1] \o seqs[i + 1]
  BY <1>1 DEF Concatenates
<1>3. CASE i = 0
  BY <1>1, <1>2, <1>3
<1>4. CASE i # 0
  BY <1>1, <1>2, <1>4
<1> QED BY <1>3, <1>4

(* Concatenation as a relation, for steps with several of them.            *)
Joins(a, b, ab) == ab = a \o b
JoinAlike(ab, c, a, bc) == ab \o c = a \o bc

(* Concatenation is associative.                                           *)
LEMMA JoinsRegroup ==
  ASSUME NEW T, NEW a \in Seq(T), NEW b \in Seq(T), NEW c \in Seq(T),
         NEW ab, Joins(a, b, ab), NEW bc, Joins(b, c, bc)
  PROVE  JoinAlike(ab, c, a, bc)
BY ConcatAssociative DEF Joins, JoinAlike

(* Nothing flattens to nothing.                                            *)
LEMMA FlattenEmpty == FlattenSeq(<<>>) = <<>>
BY DEF FlattenSeq

(* A sequence more at the end is its elements more at the end.             *)
LEMMA FlattenAppend ==
  ASSUME NEW T, NEW seqs \in Seq(Seq(T)), NEW new \in Seq(T)
  PROVE  FlattenSeq(Append(seqs, new)) = FlattenSeq(seqs) \o new
<1> DEFINE more == Append(seqs, new)
<1>n. PICK n \in Nat : n = Len(seqs)
  BY LenProperties
<1>0. /\ n + 1 \in Nat /\ Len(more) = n + 1 /\ more[n + 1] = new
      /\ \A i \in 1..n : more[i] = seqs[i]
  BY <1>n, AppendProperties
<1> HIDE DEF more
<1>1. PICK f : Concatenates(f, more, n + 1)
  BY <1>0, ConcatenationExists
<1>2. FlattenSeq(more) = f[n + 1]
  BY <1>n, <1>0, <1>1, FlattenIs
<1>3. f[n + 1] = IF n = 0 THEN more[1] ELSE f[n] \o more[n + 1]
  <2>1. n < n + 1
    OBVIOUS
  <2> QED BY <1>0, <1>1, <2>1, ConcatenationSteps
<1>4. CASE n = 0
  <2>1. seqs = <<>>
    BY <1>n, <1>4, EmptySeq
  <2>2. <<>> \o new = new
    BY ConcatEmptySeq
  <2> QED BY <1>0, <1>2, <1>3, <1>4, <2>1, <2>2, FlattenEmpty DEF more
<1>5. CASE n # 0
  <2>1. FlattenSeq(seqs) = f[n]
    <3>1. Len(seqs) \in Nat \ {0} /\ Len(seqs) <= n + 1 /\ n + 1 \in Nat
      BY <1>n, <1>5
    <3>2. \A i \in 1..Len(seqs) : more[i] = seqs[i]
      BY <1>n, <1>0
    <3> HIDE <1>n
    <3>3. FlattenSeq(seqs) = f[Len(seqs)]
      BY <1>1, <3>1, <3>2, FlattenIs
    <3> QED BY <1>n, <3>3
  <2> QED BY <1>0, <1>2, <1>3, <1>5, <2>1 DEF more
<1> QED BY <1>4, <1>5

(* Sequences over T flatten to one over T, by induction on their number.   *)
LEMMA FlattenType ==
  ASSUME NEW T, NEW seqs \in Seq(Seq(T))
  PROVE  FlattenSeq(seqs) \in Seq(T)
<1> DEFINE L == {n \in Nat : \A s \in Seq(Seq(T)) : Len(s) = n => FlattenSeq(s) \in Seq(T)}
<1>1. 0 \in L
  <2> SUFFICES ASSUME NEW s \in Seq(Seq(T)), Len(s) = 0 PROVE FlattenSeq(s) \in Seq(T)
    OBVIOUS
  <2>1. s = <<>>
    BY EmptySeq
  <2>2. <<>> \in Seq(T)
    BY EmptySeq
  <2> QED BY <2>1, <2>2, FlattenEmpty
<1>2. ASSUME NEW n \in L PROVE n + 1 \in L
  <2> SUFFICES ASSUME NEW s \in Seq(Seq(T)), Len(s) = n + 1 PROVE FlattenSeq(s) \in Seq(T)
    BY <1>2
  <2>0. n \in Nat /\ \A t \in Seq(Seq(T)) : Len(t) = n => FlattenSeq(t) \in Seq(T)
    BY <1>2
  <2>1. s # <<>>
    BY <2>0
  <2>2. PICK t \in Seq(Seq(T)), m \in Seq(T) : s = Append(t, m)
    BY <2>1, SequenceEmptyOrAppend
  <2>3. Len(t) = n
    BY <2>0, <2>2
  <2>4. FlattenSeq(t) \in Seq(T)
    BY <2>0, <2>3
  <2>5. FlattenSeq(s) = FlattenSeq(t) \o m
    BY <2>2, FlattenAppend
  <2> QED BY <2>4, <2>5
<1> HIDE DEF L
<1>3. L = Nat
  <2>1. L \subseteq Nat BY DEF L
  <2> QED BY <1>1, <1>2, <2>1, SetInduction
<1>4. Len(seqs) \in L
  BY <1>3
<1> QED BY <1>4 DEF L

(* The first sequence, and then the others flattened.                      *)
SplitsAtHead(seqs) ==
  seqs # <<>> => FlattenSeq(seqs) = Head(seqs) \o FlattenSeq(Tail(seqs))

(* The step of the induction that follows.                                 *)
LEMMA SplitsGrows ==
  ASSUME NEW T, NEW t \in Seq(Seq(T)), NEW m \in Seq(T), SplitsAtHead(t),
         NEW s, s = Append(t, m)
  PROVE  SplitsAtHead(s)
<1>0. s # <<>> /\ FlattenSeq(s) = FlattenSeq(t) \o m
  <2>1. FlattenSeq(Append(t, m)) = FlattenSeq(t) \o m
    BY FlattenAppend
  <2>2. Append(t, m) # <<>>
    BY AppendProperties
  <2> QED BY <2>1, <2>2
<1>1. CASE t = <<>>
  <2>1. Head(s) = m /\ Tail(s) = <<>>
    BY <1>1
  <2>2. <<>> \o m = m /\ m \o <<>> = m
    BY ConcatEmptySeq
  <2> QED BY <1>0, <1>1, <2>1, <2>2, FlattenEmpty DEF SplitsAtHead
<1>2. CASE t # <<>>
  <2>1. FlattenSeq(t) = Head(t) \o FlattenSeq(Tail(t))
    BY <1>2 DEF SplitsAtHead
  <2>2. Head(s) = Head(t) /\ Tail(s) = Append(Tail(t), m)
    BY <1>2, HeadTailAppend
  <2>3. Tail(t) \in Seq(Seq(T)) /\ Head(t) \in Seq(T)
    BY <1>2, HeadTailProperties
  <2>4. FlattenSeq(Tail(s)) = FlattenSeq(Tail(t)) \o m
    BY <2>2, <2>3, FlattenAppend
  <2>5. FlattenSeq(Tail(t)) \in Seq(T)
    BY <2>3, FlattenType
  <2>6. FlattenSeq(t) \o m = Head(t) \o FlattenSeq(Tail(s))
    <3>1. /\ Joins(Head(t), FlattenSeq(Tail(t)), FlattenSeq(t))
          /\ Joins(FlattenSeq(Tail(t)), m, FlattenSeq(Tail(s)))
      BY <2>1, <2>4 DEF Joins
    <3>2. JoinAlike(FlattenSeq(t), m, Head(t), FlattenSeq(Tail(s)))
      BY <2>3, <2>5, <3>1, JoinsRegroup
    <3> QED BY <3>2 DEF JoinAlike
  <2> QED BY <1>0, <2>2, <2>6 DEF SplitsAtHead
<1> QED BY <1>1, <1>2

(* By induction on the length: the elements of the first sequence come     *)
(* first.                                                                  *)
LEMMA FlattenHead ==
  ASSUME NEW T, NEW seqs \in Seq(Seq(T)), seqs # <<>>
  PROVE  FlattenSeq(seqs) = Head(seqs) \o FlattenSeq(Tail(seqs))
<1> DEFINE L == {n \in Nat : \A s \in Seq(Seq(T)) : Len(s) = n => SplitsAtHead(s)}
<1>1. 0 \in L
  <2>1. ASSUME NEW s \in Seq(Seq(T)), Len(s) = 0 PROVE SplitsAtHead(s)
    BY <2>1, EmptySeq DEF SplitsAtHead
  <2> QED BY <2>1
<1>2. ASSUME NEW n \in L PROVE n + 1 \in L
  <2>0. n \in Nat /\ \A t \in Seq(Seq(T)) : Len(t) = n => SplitsAtHead(t)
    BY <1>2
  <2>1. ASSUME NEW s \in Seq(Seq(T)), Len(s) = n + 1 PROVE SplitsAtHead(s)
    <3>1. s # <<>>
      BY <2>0, <2>1
    <3>2. PICK t \in Seq(Seq(T)), m \in Seq(T) : s = Append(t, m)
      BY <3>1, SequenceEmptyOrAppend
    <3>3. Len(t) = n
      BY <2>0, <2>1, <3>2
    <3> QED BY <2>0, <3>2, <3>3, SplitsGrows
  <2> QED BY <2>0, <2>1
<1> HIDE DEF L
<1>3. L = Nat
  <2>1. L \subseteq Nat BY DEF L
  <2> QED BY <1>1, <1>2, <2>1, SetInduction
<1>4. Len(seqs) \in L
  BY <1>3
<1>5. SplitsAtHead(seqs)
  BY <1>4 DEF L
<1> QED BY <1>5 DEF SplitsAtHead

-----------------------------------------------------------------------------
(* Taking the first c elements of two sequences one behind the other, when *)
(* the first one has as many: they are its elements, and the rest of it    *)
(* stays in front of the other.                                            *)
TakesFront(whole, a, c) == SubSeq(whole, 1, c) = SubSeq(a, 1, c)
Remains(whole, a, b, c) ==
  SubSeq(whole, c + 1, Len(whole)) = SubSeq(a, c + 1, Len(a)) \o b

(* Both hold, and what is taken and left has the right type.               *)
LEMMA TakeOfJoined ==
  ASSUME NEW T, NEW a \in Seq(T), NEW b \in Seq(T), NEW whole, Joins(a, b, whole),
         NEW c \in Nat, NEW k \in Nat, Len(a) = c + k
  PROVE  /\ whole \in Seq(T) /\ c <= Len(whole)
         /\ TakesFront(whole, a, c) /\ Remains(whole, a, b, c)
         /\ SubSeq(a, 1, c) \in Seq(T) /\ SubSeq(a, c + 1, Len(a)) \in Seq(T)
<1>1. PICK n \in Nat : n = Len(b)
  BY LenProperties
<1>2. /\ whole \in Seq(T) /\ Len(whole) = (c + k) + n
      /\ \A i \in 1..((c + k) + n) : whole[i] = IF i <= c + k THEN a[i] ELSE b[i - (c + k)]
  BY <1>1, ConcatProperties DEF Joins
<1>3. /\ \A i \in 1..(c + k) : a[i] \in T
      /\ \A i \in 1..((c + k) + n) : whole[i] \in T
  BY <1>1, <1>2, ElementOfSeq
<1>4. /\ SubSeq(a, 1, c) \in Seq(T) /\ Len(SubSeq(a, 1, c)) = c
      /\ \A i \in 1..c : SubSeq(a, 1, c)[i] = a[i]
  BY <1>3, SubSeqProperties
<1>5. /\ SubSeq(whole, 1, c) \in Seq(T) /\ Len(SubSeq(whole, 1, c)) = c
      /\ \A i \in 1..c : SubSeq(whole, 1, c)[i] = whole[i]
  BY <1>1, <1>3, SubSeqProperties
<1>6. TakesFront(whole, a, c)
  <2>1. \A i \in 1..c : whole[i] = a[i]
    BY <1>1, <1>2
  <2>2. \A i \in 1..c : SubSeq(whole, 1, c)[i] = SubSeq(a, 1, c)[i]
    BY <1>4, <1>5, <2>1
  <2> QED BY <1>4, <1>5, <2>2, SeqEqual DEF TakesFront
<1>7. PICK rest : rest = SubSeq(a, c + 1, c + k)
  OBVIOUS
<1>8. rest \in Seq(T) /\ Len(rest) = k /\ \A i \in 1..k : rest[i] = a[c + i]
  <2>1. \A i \in (c + 1)..(c + k) : a[i] \in T
    BY <1>3
  <2> QED BY <1>7, <2>1, SubSeqProperties
<1>9. PICK left : left = SubSeq(whole, c + 1, (c + k) + n)
  OBVIOUS
<1>10. /\ left \in Seq(T) /\ Len(left) = k + n
       /\ \A i \in 1..(k + n) : left[i] = whole[c + i]
  <2>1. \A i \in (c + 1)..((c + k) + n) : whole[i] \in T
    BY <1>3
  <2> QED BY <1>9, <2>1, SubSeqProperties
<1>11. PICK r : Joins(rest, b, r)
  BY DEF Joins
<1>12. /\ r \in Seq(T) /\ Len(r) = k + n
       /\ \A i \in 1..(k + n) : r[i] = IF i <= k THEN rest[i] ELSE b[i - k]
  BY <1>1, <1>8, <1>11, ConcatProperties DEF Joins
<1>13. ASSUME NEW i \in 1..(k + n) PROVE left[i] = r[i]
  <2>0. c + i \in 1..((c + k) + n)
    OBVIOUS
  <2>1. left[i] = whole[c + i]
    BY <1>10
  <2>2. CASE i <= k
    <3>1. whole[c + i] = a[c + i]
      BY <1>2, <2>0, <2>2
    <3>2. r[i] = a[c + i]
      BY <1>8, <1>12, <2>2
    <3> QED BY <2>1, <3>1, <3>2
  <2>3. CASE i > k
    <3>1. ~(c + i <= c + k) /\ (c + i) - (c + k) = i - k
      BY <2>3
    <3>2. whole[c + i] = b[i - k]
      BY <1>2, <2>0, <3>1
    <3>3. r[i] = b[i - k]
      BY <1>12, <2>3
    <3> QED BY <2>1, <3>2, <3>3
  <2> QED BY <2>2, <2>3
<1>14. left = r
  BY <1>10, <1>12, <1>13, SeqEqual
<1>15. Remains(whole, a, b, c)
  BY <1>2, <1>7, <1>9, <1>11, <1>14 DEF Remains, Joins
<1>16. SubSeq(a, c + 1, Len(a)) \in Seq(T) /\ c <= Len(whole)
  BY <1>2, <1>7, <1>8
<1> QED BY <1>2, <1>4, <1>6, <1>15, <1>16

(* The smaller of two numbers.                                             *)
LEMMA MinOfTwo ==
  ASSUME NEW n \in Nat, NEW k \in Nat
  PROVE  /\ Min({n, k}) \in Nat /\ Min({n, k}) \in {n, k}
         /\ Min({n, k}) <= n /\ Min({n, k}) <= k
<1>1. \E x \in {n, k} : \A y \in {n, k} : x <= y
  OBVIOUS
<1> QED BY <1>1 DEF Min
-----------------------------------------------------------------------------
(* A stream of elements that are numbered from 1: got has come out of it,  *)
(* transit waits in it, sent have been put into it.  While the stream is   *)
(* open all that was sent is in one of the two.                            *)
Numbered(got, transit, sent, open) ==
  /\ got \in Seq(Int) /\ transit \in Seq(Int) /\ sent \in Nat
  /\ \A i \in 1..Len(got) : got[i] = i
  /\ \A i \in 1..Len(transit) : transit[i] = Len(got) + i
  /\ Len(got) + Len(transit) <= sent
  /\ open => Len(got) + Len(transit) = sent

(* The next n elements are put into it.                                    *)
LEMMA NumberedPut ==
  ASSUME NEW got, NEW transit, NEW sent, Numbered(got, transit, sent, TRUE), NEW n \in Nat,
         NEW more, more = [i \in 1..n |-> sent + i], NEW longer, Joins(transit, more, longer)
  PROVE  Numbered(got, longer, sent + n, TRUE)
<1>1. PICK g \in Nat, t \in Nat : g = Len(got) /\ t = Len(transit) /\ g + t = sent
  BY LenProperties DEF Numbered
<1>2. more \in Seq(Int) /\ Len(more) = n /\ \A i \in 1..n : more[i] = sent + i
  BY <1>1
<1>3. /\ longer \in Seq(Int) /\ Len(longer) = t + n
      /\ \A i \in 1..(t + n) : longer[i] = IF i <= t THEN transit[i] ELSE more[i - t]
  <2>1. transit \in Seq(Int) /\ longer = transit \o more
    BY DEF Numbered, Joins
  <2> QED BY <1>1, <1>2, <2>1, ConcatProperties
<1>4. ASSUME NEW i \in 1..(t + n) PROVE longer[i] = g + i
  <2>1. CASE i <= t
    BY <1>1, <1>3, <2>1 DEF Numbered
  <2>2. CASE i > t
    <3>1. i - t \in 1..n /\ ~(i <= t)
      BY <2>2
    <3>2. longer[i] = sent + (i - t)
      BY <1>2, <1>3, <3>1
    <3> QED BY <1>1, <3>2
  <2> QED BY <2>1, <2>2
<1>5. sent + n \in Nat /\ g + (t + n) = sent + n
  BY <1>1
<1> QED BY <1>1, <1>3, <1>4, <1>5 DEF Numbered

(* The first n of those that wait.                                         *)
LEMMA NumberedFront ==
  ASSUME NEW got, NEW transit, NEW sent, NEW open, Numbered(got, transit, sent, open),
         NEW n \in 0..Len(transit)
  PROVE  LET a == SubSeq(transit, 1, n) IN
         a \in Seq(Int) /\ Len(a) = n /\ \A i \in 1..n : a[i] = Len(got) + i
<1>1. PICK t \in Nat : t = Len(transit) /\ n \in Nat /\ n <= t
  BY LenProperties DEF Numbered
<1>2. \A i \in 1..n : transit[i] \in Int
  BY <1>1, ElementOfSeq DEF Numbered
<1>3. /\ SubSeq(transit, 1, n) \in Seq(Int) /\ Len(SubSeq(transit, 1, n)) = n
      /\ \A i \in 1..n : SubSeq(transit, 1, n)[i] = transit[i]
  BY <1>1, <1>2, SubSeqProperties
<1>4. \A i \in 1..n : transit[i] = Len(got) + i
  BY <1>1 DEF Numbered
<1> QED BY <1>3, <1>4

(* They come out of it.                                                    *)
LEMMA NumberedGet ==
  ASSUME NEW got, NEW transit, NEW sent, NEW open, Numbered(got, transit, sent, open),
         NEW n \in 0..Len(transit), NEW new, Joins(got, SubSeq(transit, 1, n), new)
  PROVE  Numbered(new, SubSeq(transit, n + 1, Len(transit)), sent, open)
<1>1. PICK g \in Nat, t \in Nat : g = Len(got) /\ t = Len(transit) /\ n \in 0..t
  BY LenProperties DEF Numbered
<1>2. PICK a : a = SubSeq(transit, 1, n)
  OBVIOUS
<1>3. a \in Seq(Int) /\ Len(a) = n /\ \A i \in 1..n : a[i] = g + i
  BY <1>1, <1>2, NumberedFront
<1>4. PICK b : b = SubSeq(transit, n + 1, t)
  OBVIOUS
<1>5. b \in Seq(Int) /\ Len(b) = t - n /\ \A i \in 1..(t - n) : b[i] = g + n + i
  <2>1. \A i \in (n + 1)..t : transit[i] \in Int /\ transit[i] = g + i
    BY <1>1 DEF Numbered
  <2>2. b \in Seq(Int) /\ Len(b) = t - n /\ \A i \in 1..(t - n) : b[i] = transit[n + i]
    BY <1>1, <1>4, <2>1, SubSeqProperties
  <2>3. \A i \in 1..(t - n) : n + i \in (n + 1)..t
    BY <1>1
  <2> QED BY <1>1, <2>1, <2>2, <2>3
<1>6. /\ new \in Seq(Int) /\ Len(new) = g + n
      /\ \A i \in 1..(g + n) : new[i] = IF i <= g THEN got[i] ELSE a[i - g]
  <2>1. got \in Seq(Int) /\ a \in Seq(Int) /\ new = got \o a
    BY <1>2, <1>3 DEF Numbered, Joins
  <2>2. Len(got) = g /\ Len(a) = n
    BY <1>1, <1>3
  <2> QED BY <2>1, <2>2, ConcatProperties
<1>7. ASSUME NEW i \in 1..(g + n) PROVE new[i] = i
  <2>1. CASE i <= g
    BY <1>1, <1>6, <2>1 DEF Numbered
  <2>2. CASE i > g
    <3>1. i - g \in 1..n /\ ~(i <= g)
      BY <1>1, <2>2
    <3> QED BY <1>1, <1>3, <1>6, <3>1
  <2> QED BY <1>1, <2>1, <2>2
<1>8. Len(new) + Len(b) = g + t
  BY <1>1, <1>5, <1>6
<1>9. Numbered(new, b, sent, open)
  BY <1>1, <1>5, <1>6, <1>7, <1>8 DEF Numbered
<1> QED BY <1>1, <1>4, <1>9

(* All but the first n of those that wait are lost.                        *)
LEMMA NumberedLose ==
  ASSUME NEW got, NEW transit, NEW sent, Numbered(got, transit, sent, FALSE),
         NEW n \in 0..Len(transit)
  PROVE  Numbered(got, SubSeq(transit, 1, n), sent, FALSE)
<1>1. PICK g \in Nat, t \in Nat : g = Len(got) /\ t = Len(transit) /\ n \in 0..t
  BY LenProperties DEF Numbered
<1>2. PICK a : a = SubSeq(transit, 1, n)
  OBVIOUS
<1>3. a \in Seq(Int) /\ Len(a) = n /\ \A i \in 1..n : a[i] = g + i
  BY <1>1, <1>2, NumberedFront
<1>4. Numbered(got, a, sent, FALSE)
  BY <1>1, <1>3 DEF Numbered
<1> QED BY <1>2, <1>4

(* The steps of such a stream, from (got, transit, sent, open) to the next *)
(* values of the four.                                                     *)
Moves(got, transit, sent, open, gotNow, transitNow, sentNow, openNow) ==
  \/ /\ open /\ openNow /\ gotNow = got /\ sentNow >= sent
     /\ transitNow = transit \o [i \in 1..(sentNow - sent) |-> sent + i]
  \/ ~openNow /\ sentNow >= sent /\ gotNow = got /\ transitNow = transit
  \/ \E n \in 0..Len(transit) :
       /\ sentNow = sent /\ openNow = open
       /\ \/ /\ gotNow = got \o SubSeq(transit, 1, n)
             /\ transitNow = SubSeq(transit, n + 1, Len(transit))
          \/ ~open /\ gotNow = got /\ transitNow = SubSeq(transit, 1, n)

(* None of them changes the order.                                         *)
LEMMA NumberedMoves ==
  ASSUME NEW got, NEW transit, NEW sent, NEW open, Numbered(got, transit, sent, open),
         NEW gotNow, NEW transitNow, NEW sentNow \in Nat, NEW openNow \in BOOLEAN,
         Moves(got, transit, sent, open, gotNow, transitNow, sentNow, openNow)
  PROVE  Numbered(gotNow, transitNow, sentNow, openNow)
<1>0. sent \in Nat
  BY DEF Numbered
<1>1. CASE /\ open /\ openNow /\ gotNow = got /\ sentNow >= sent
           /\ transitNow = transit \o [i \in 1..(sentNow - sent) |-> sent + i]
  <2>1. PICK n \in Nat : n = sentNow - sent /\ sentNow = sent + n
    BY <1>0, <1>1
  <2>2. Joins(transit, [i \in 1..n |-> sent + i], transitNow)
    BY <1>1, <2>1 DEF Joins
  <2>3. Numbered(got, transit, sent, TRUE)
    BY <1>1 DEF Numbered
  <2>4. Numbered(got, transitNow, sent + n, TRUE)
    BY <2>2, <2>3, NumberedPut
  <2> QED BY <1>1, <2>1, <2>4
<1>2. CASE ~openNow /\ sentNow >= sent /\ gotNow = got /\ transitNow = transit
  <2>1. PICK g \in Nat, t \in Nat : g = Len(got) /\ t = Len(transit) /\ g + t <= sent
    BY LenProperties DEF Numbered
  <2>2. g + t <= sentNow
    BY <1>0, <1>2, <2>1
  <2> QED BY <1>2, <2>1, <2>2 DEF Numbered
<1>3. ASSUME NEW n \in 0..Len(transit), sentNow = sent, openNow = open,
             gotNow = got \o SubSeq(transit, 1, n),
             transitNow = SubSeq(transit, n + 1, Len(transit))
      PROVE  Numbered(gotNow, transitNow, sentNow, openNow)
  <2>1. Joins(got, SubSeq(transit, 1, n), gotNow)
    BY <1>3 DEF Joins
  <2>2. Numbered(gotNow, SubSeq(transit, n + 1, Len(transit)), sent, open)
    BY <2>1, NumberedGet
  <2> QED BY <1>3, <2>2
<1>4. ASSUME NEW n \in 0..Len(transit), sentNow = sent, openNow = open,
             ~open, gotNow = got, transitNow = SubSeq(transit, 1, n)
      PROVE  Numbered(gotNow, transitNow, sentNow, openNow)
  <2>1. Numbered(got, transit, sent, FALSE)
    BY <1>4 DEF Numbered
  <2>2. Numbered(got, SubSeq(transit, 1, n), sent, FALSE)
    BY <2>1, NumberedLose
  <2> QED BY <1>4, <2>2 DEF Numbered
<1> QED BY <1>1, <1>2, <1>3, <1>4 DEF Moves

(* What has come out is a beginning of what was put in.                    *)
LEMMA NumberedComesOut ==
  ASSUME NEW got, NEW transit, NEW sent, NEW open, Numbered(got, transit, sent, open)
  PROVE  got = [i \in 1..Len(got) |-> i] /\ Len(got) <= sent
<1>1. PICK g \in Nat, t \in Nat : g = Len(got) /\ t = Len(transit)
  BY LenProperties DEF Numbered
<1>2. g <= sent
  BY <1>1 DEF Numbered
<1>3. got = [i \in 1..g |-> got[i]]
  BY <1>1, LenProperties DEF Numbered
<1>4. \A i \in 1..g : got[i] = i
  BY <1>1 DEF Numbered
<1> QED BY <1>1, <1>2, <1>3, <1>4
=============================================================================
