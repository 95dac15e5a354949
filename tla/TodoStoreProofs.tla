-------------------------- MODULE TodoStoreProofs ---------------------------
(***************************************************************************)
(* The persist worker of the to-do server never forgets a change, its list *)
(* and its map agree, and the two servers over one file keep the promise   *)
(* of TodoList: for any ids, values, initial files and number of changes.  *)
(***************************************************************************)
EXTENDS TodoStore, SequenceFacts

Starting == {"creating", "reading", "loading", "resetting"}

(* The part of TypeOK the proof needs.                                     *)
Shapes ==
  /\ pc \in [Server -> {"down"} \cup Starting \cup Serving]
  /\ signal \in [Server -> BOOLEAN]
  /\ DOMAIN version = Server
  /\ DOMAIN taken = Server

(* A process that does not serve yet has changed nothing: what an earlier  *)
(* one had not saved does not count as its own.                            *)
StartsUnchanged == \A s \in Server : pc[s] \notin Serving => version[s] = taken[s]

(* ChangesAreScheduled is not inductive alone: a server enters "waiting"   *)
(* from its start-up too, and has no signal then.                          *)
WInv == Shapes /\ StartsUnchanged /\ ChangesAreScheduled

-----------------------------------------------------------------------------
(* At the start there is no change to forget.                              *)
LEMMA InitScheduled == Init => WInv
BY DEF Init, WInv, Shapes, StartsUnchanged, ChangesAreScheduled, Starting, Serving

(* A process that starts or ends has changed nothing.                      *)
LEMMA StartScheduled ==
  ASSUME NEW s \in Server, WInv, StartStep(s)
  PROVE  WInv'
<1> USE DEF WInv, Shapes, StartsUnchanged, ChangesAreScheduled, Starting, Serving,
            memory, ghosts, Goto
<1>1. CASE Start(s)
  BY <1>1 DEF Start
<1>2. CASE StartFails(s) \/ Crash(s)
  <2>1. /\ signal' = [signal EXCEPT ![s] = FALSE]
        /\ version' = [version EXCEPT ![s] = 0] /\ taken' = [taken EXCEPT ![s] = 0]
    BY <1>2 DEF StartFails, Crash, Ends
  <2>2. pc' = [pc EXCEPT ![s] = "down"]
    BY <1>2 DEF StartFails, Crash
  <2> QED
    BY <2>1, <2>2
<1> QED
  BY <1>1, <1>2 DEF StartStep

(* The server's own file operations: the last of its start-up leads to     *)
(* "waiting" with nothing changed, the end of a save with what has come    *)
(* since the snapshot still signalled.                                     *)
LEMMA FileScheduled ==
  ASSUME NEW s \in Server, WInv, FileStep(s) \/ WriteFails(s)
  PROVE  WInv'
<1>0. UNCHANGED <<signal, version, taken>>
  BY DEF FileStep, ReadStarts, ReadEnds, Open, WritePart, WriteEnds, WriteFails, memory, ghosts
<1> USE DEF WInv, Shapes, StartsUnchanged, ChangesAreScheduled, Starting, Serving,
            Writing, Goto
<1>1. CASE ReadStarts(s)
  BY <1>0, <1>1 DEF ReadStarts
<1>2. CASE ReadEnds(s)
  <2>1. PICK to \in {"resetting", "waiting"} : Goto(s, "loading", to)
    BY <1>2 DEF ReadEnds
  <2> QED
    BY <1>0, <2>1
<1>3. CASE Open(s) \/ WritePart(s)
  BY <1>0, <1>3 DEF Open, WritePart
<1>4. CASE WriteEnds(s) \/ WriteFails(s)
  <2>1. pc[s] \in Writing /\ AfterWrite(s)
    BY <1>4 DEF WriteEnds, WriteFails
  <2> QED
    BY <1>0, <2>1 DEF AfterWrite
<1> QED
  BY <1>1, <1>2, <1>3, <1>4 DEF FileStep

(* A signal is taken only on the way to a snapshot, and a snapshot has     *)
(* every change so far.                                                    *)
LEMMA WorkerScheduled ==
  ASSUME NEW s \in Server, WInv, WorkerStep(s)
  PROVE  WInv'
<1> USE DEF WInv, Shapes, StartsUnchanged, ChangesAreScheduled, Starting, Serving,
            memory, ghosts, Goto
<1>1. CASE WorkerWakes(s)
  BY <1>1 DEF WorkerWakes
<1>2. CASE DebounceRestarts(s)
  BY <1>2 DEF DebounceRestarts
<1>3. CASE DebounceEnds(s)
  BY <1>3 DEF DebounceEnds
<1>4. CASE TakeSnapshot(s)
  BY <1>4 DEF TakeSnapshot
<1> QED
  BY <1>1, <1>2, <1>3, <1>4 DEF WorkerStep

(* A change of the list leaves a signal for the worker.                    *)
LEMMA ChangeScheduled ==
  ASSUME NEW s \in Server, NEW list, NEW ids, WInv, Changed(s, list, ids)
  PROVE  WInv'
BY DEF WInv, Shapes, StartsUnchanged, ChangesAreScheduled, Starting, Serving,
       Changed, signalTodosPersistLocked

(* So does every call of a client that changes the list.                   *)
LEMMA CallScheduled ==
  ASSUME NEW s \in Server, WInv, Call(s)
  PROVE  WInv'
<1>1. PICK id \in Id : \/ DeleteTodo(s, id)
                       \/ \E v \in NewValue : CreateTodo(s, id, v)
                       \/ \E v \in Value : UpdateTodo(s, id, v)
  BY DEF Call
<1>2. CASE DeleteTodo(s, id)
  BY <1>2, ChangeScheduled DEF DeleteTodo
<1>3. ASSUME NEW v \in NewValue, CreateTodo(s, id, v)
      PROVE  WInv'
  BY <1>3, ChangeScheduled DEF CreateTodo
<1>4. ASSUME NEW v \in Value, UpdateTodo(s, id, v)
      PROVE  WInv'
  BY <1>4, ChangeScheduled DEF UpdateTodo
<1> QED
  BY <1>1, <1>2, <1>3, <1>4

(* Every step keeps the invariant.                                         *)
LEMMA StepScheduled == WInv /\ [Next]_vars => WInv'
<1> SUFFICES ASSUME WInv, [Next]_vars PROVE WInv'
  OBVIOUS
<1>1. CASE UNCHANGED vars
  BY <1>1 DEF vars, WInv, Shapes, StartsUnchanged, ChangesAreScheduled, Starting, Serving
<1>2. CASE Next
  <2>1. PICK s \in Server : StartStep(s) \/ FileStep(s) \/ WriteFails(s) \/ WorkerStep(s) \/ Call(s)
    BY <1>2 DEF Next, GrpcServer, DirectStore, DirectWorker, DirectCalls, Server
  <2> QED
    BY <2>1, StartScheduled, FileScheduled, WorkerScheduled, CallScheduled
<1> QED
  BY <1>1, <1>2

(* In every behaviour of the to-do servers a change that no snapshot has   *)
(* yet is signalled, or the worker is on its way to the next snapshot:     *)
(* the one-element channel of signalTodosPersistLocked loses no wake-up.   *)
THEOREM NoChangeForgotten == Spec => []ChangesAreScheduled
<1>1. WInv => ChangesAreScheduled
  BY DEF WInv
<1> QED
  BY <1>1, InitScheduled, StepScheduled, PTL DEF Spec

-----------------------------------------------------------------------------
(* What buildTodoStore makes of any entries.                               *)

(* f[i] is the store after the first i entries.                            *)
Builds(f, entries, n) ==
  f = [i \in 0..n |-> IF i = 0 THEN NoTodos ELSE AddEntry(f[i - 1], entries[i])]

(* There is such an f for every number of entries, by induction on it.     *)
LEMMA BuildExists ==
  ASSUME NEW entries, NEW m \in Nat
  PROVE  \E f : Builds(f, entries, m)
<1> DEFINE T == {n \in Nat : \E f : Builds(f, entries, n)}
<1>1. 0 \in T
  <2>1. Builds([i \in 0..0 |-> NoTodos], entries, 0)
    BY DEF Builds
  <2> QED BY <2>1
<1>2. ASSUME NEW n \in T PROVE n + 1 \in T
  <2>0. n \in Nat /\ \E f : Builds(f, entries, n)
    BY <1>2
  <2>1. PICK f : Builds(f, entries, n)
    BY <2>0
  <2> DEFINE g == [i \in 0..(n + 1) |->
                     IF i = 0 THEN NoTodos ELSE AddEntry(f[i - 1], entries[i])]
  <2>2. ASSUME NEW i \in 0..n PROVE g[i] = f[i]
    <3>1. f[i] = IF i = 0 THEN NoTodos ELSE AddEntry(f[i - 1], entries[i])
      BY <2>0, <2>1 DEF Builds
    <3> QED BY <2>0, <3>1
  <2>3. ASSUME NEW i \in 0..(n + 1)
        PROVE  g[i] = IF i = 0 THEN NoTodos ELSE AddEntry(g[i - 1], entries[i])
    <3>1. CASE i = 0
      BY <2>0, <3>1
    <3>2. CASE i # 0
      <4>1. i - 1 \in 0..n
        BY <2>0, <3>2
      <4>2. g[i] = AddEntry(f[i - 1], entries[i])
        BY <3>2
      <4> QED BY <2>2, <4>1, <4>2, <3>2
    <3> QED BY <3>1, <3>2
  <2>4. Builds(g, entries, n + 1)
    <3> DEFINE h == [i \in 0..(n + 1) |->
                       IF i = 0 THEN NoTodos ELSE AddEntry(g[i - 1], entries[i])]
    <3>1. \A i \in 0..(n + 1) : h[i] = g[i]
      BY <2>3
    <3>2. g = h
      BY <3>1
    <3> QED BY <3>2 DEF Builds
  <2> QED BY <2>0, <2>4
<1> HIDE DEF T
<1>3. T = Nat
  <2>1. T \subseteq Nat BY DEF T
  <2> QED BY <1>1, <1>2, <2>1, SetInduction
<1> QED BY <1>3 DEF T

(* buildTodoStore in these terms.                                          *)
LEMMA BuildChooses ==
  ASSUME NEW entries
  PROVE  buildTodoStore(entries) = (CHOOSE f : Builds(f, entries, Len(entries)))[Len(entries)]
BY DEF buildTodoStore, Builds

(* So the result of buildTodoStore is the last of a sequence of stores,    *)
(* each the one before with one entry added.                               *)
LEMMA BuildSteps ==
  ASSUME NEW entries, Len(entries) \in Nat
  PROVE  \E f : /\ buildTodoStore(entries) = f[Len(entries)]
                /\ f[0] = NoTodos
                /\ \A i \in 1..Len(entries) : f[i] = AddEntry(f[i - 1], entries[i])
<1> DEFINE f == CHOOSE g : Builds(g, entries, Len(entries))
<1>1. Builds(f, entries, Len(entries))
  BY BuildExists
<1>2. buildTodoStore(entries) = f[Len(entries)]
  BY BuildChooses
<1> HIDE DEF f
<1>3. f[0] = NoTodos
  BY <1>1 DEF Builds
<1>4. ASSUME NEW i \in 1..Len(entries) PROVE f[i] = AddEntry(f[i - 1], entries[i])
  <2>1. i \in 0..Len(entries) /\ i # 0
    OBVIOUS
  <2> QED BY <1>1, <2>1 DEF Builds
<1> QED BY <1>2, <1>3, <1>4

(* A list that a server can serve: todos only, and no id twice.            *)
Distinct(list) == \A i, j \in DOMAIN list : list[i].id = list[j].id => i = j
Tidy(list) == list \in Seq(Entries(Id)) /\ Distinct(list)

(* The list of a store is tidy and its map knows the ids of the list.      *)
Consistent(st) == Tidy(st.order) /\ st.byID = Ids(st.order)

(* A todo more, with an id the list does not have.                         *)
LEMMA TidyAppend ==
  ASSUME NEW list, Tidy(list), NEW e \in Entries(Id), e.id \notin Ids(list)
  PROVE  Tidy(Append(list, e)) /\ Ids(Append(list, e)) = Ids(list) \cup {e.id}
<1>1. PICK n \in Nat : n = Len(list)
  BY LenProperties DEF Tidy
<1>2. list \in Seq(Entries(Id)) /\ Distinct(list) /\ DOMAIN list = 1..n
  BY <1>1, LenProperties DEF Tidy
<1> DEFINE more == Append(list, e)
<1>3. /\ more \in Seq(Entries(Id)) /\ DOMAIN more = 1..(n + 1)
      /\ more[n + 1] = e /\ \A i \in 1..n : more[i] = list[i]
  BY <1>1, <1>2, AppendProperties, LenProperties
<1> HIDE DEF more
<1>4. \A i \in 1..(n + 1) : i \in 1..n \/ i = n + 1
  OBVIOUS
<1>5. \A i \in 1..n : list[i].id # e.id
  BY <1>2 DEF Ids
<1>6. Distinct(more)
  <2> SUFFICES ASSUME NEW i \in 1..(n + 1), NEW j \in 1..(n + 1), more[i].id = more[j].id
               PROVE  i = j
    BY <1>3 DEF Distinct
  <2>1. CASE i \in 1..n /\ j \in 1..n
    BY <1>2, <1>3, <2>1 DEF Distinct
  <2>2. CASE i = n + 1 \/ j = n + 1
    BY <1>3, <1>4, <1>5, <2>2
  <2> QED BY <1>4, <2>1, <2>2
<1>7. Ids(more) = Ids(list) \cup {e.id}
  <2>1. ASSUME NEW x \in Ids(more) PROVE x \in Ids(list) \cup {e.id}
    <3>1. PICK i \in 1..(n + 1) : x = more[i].id
      BY <1>3 DEF Ids
    <3> QED BY <1>2, <1>3, <1>4, <3>1 DEF Ids
  <2>2. ASSUME NEW x \in Ids(list) PROVE x \in Ids(more)
    <3>1. PICK i \in 1..n : x = list[i].id
      BY <1>2 DEF Ids
    <3>2. i \in 1..(n + 1)
      OBVIOUS
    <3> QED BY <1>3, <3>1, <3>2 DEF Ids
  <2>3. n + 1 \in 1..(n + 1)
    OBVIOUS
  <2>4. e.id \in Ids(more)
    BY <1>3, <2>3 DEF Ids
  <2> QED BY <2>1, <2>2, <2>4
<1> QED BY <1>3, <1>6, <1>7 DEF more, Tidy

(* The empty list is tidy.                                                 *)
LEMMA TidyEmpty == Tidy(<<>>) /\ Ids(<<>>) = {}
BY DEF Tidy, Distinct, Ids

(* Whatever the entries are, the store that is built of them is consistent.*)
LEMMA BuildConsistent ==
  ASSUME NEW entries \in Seq(Entries(Id \cup {NoId, Null}))
  PROVE  Consistent(buildTodoStore(entries))
<1>0. PICK n \in Nat : n = Len(entries)
  BY LenProperties
<1>1. PICK f : /\ buildTodoStore(entries) = f[n]
               /\ f[0] = NoTodos
               /\ \A i \in 1..n : f[i] = AddEntry(f[i - 1], entries[i])
  BY <1>0, BuildSteps
<1> DEFINE T == {i \in Nat : i <= n => Consistent(f[i])}
<1>2. 0 \in T
  <2>1. NoTodos.order = <<>> /\ NoTodos.byID = {}
    BY DEF NoTodos
  <2>2. Consistent(NoTodos)
    BY <2>1, TidyEmpty DEF Consistent
  <2> QED BY <1>1, <2>2
<1>3. ASSUME NEW i \in T PROVE i + 1 \in T
  <2> SUFFICES ASSUME i + 1 <= n PROVE Consistent(f[i + 1])
    BY <1>3
  <2>1. i \in Nat /\ Consistent(f[i])
    BY <1>3
  <2>2. i + 1 \in 1..n /\ (i + 1) - 1 = i
    BY <2>1
  <2>3. f[i + 1] = AddEntry(f[i], entries[i + 1])
    <3>1. f[i + 1] = AddEntry(f[(i + 1) - 1], entries[i + 1])
      BY <1>1, <2>2
    <3> QED BY <2>2, <3>1
  <2>4. PICK e \in Entries(Id \cup {NoId, Null}) : e = entries[i + 1]
    BY <1>0, <2>2, ElementOfSeq
  <2>5. CASE e.id \in {Null, NoId} \cup f[i].byID
    BY <2>1, <2>3, <2>4, <2>5 DEF AddEntry
  <2>6. CASE ~(e.id \in {Null, NoId} \cup f[i].byID)
    <3>1. e \in Entries(Id)
      BY <2>6 DEF Entries
    <3>2. Tidy(f[i].order) /\ e.id \notin Ids(f[i].order) /\ f[i].byID = Ids(f[i].order)
      BY <2>1, <2>6 DEF Consistent
    <3>3. /\ Tidy(Append(f[i].order, e))
          /\ Ids(Append(f[i].order, e)) = Ids(f[i].order) \cup {e.id}
      BY <3>1, <3>2, TidyAppend
    <3>4. f[i + 1] = [order |-> Append(f[i].order, e), byID |-> f[i].byID \cup {e.id}]
      BY <2>3, <2>4, <2>6 DEF AddEntry
    <3> QED BY <3>2, <3>3, <3>4 DEF Consistent
  <2> QED BY <2>5, <2>6
<1> HIDE DEF T
<1>4. T = Nat
  <2>1. T \subseteq Nat BY DEF T
  <2> QED BY <1>2, <1>3, <2>1, SetInduction
<1> QED BY <1>1, <1>4 DEF T

(* A tidy list is the store's list as it was: nothing is skipped.          *)
LEMMA BuildKeepsTidy ==
  ASSUME NEW list, Tidy(list)
  PROVE  buildTodoStore(list).order = list
<1>0. list \in Seq(Entries(Id)) /\ Distinct(list)
  BY DEF Tidy
<1>n. PICK n \in Nat : n = Len(list)
  BY <1>0, LenProperties
<1>d. DOMAIN list = 1..n
  BY <1>0, <1>n, LenProperties
<1>1. PICK f : /\ buildTodoStore(list) = f[n]
               /\ f[0] = NoTodos
               /\ \A i \in 1..n : f[i] = AddEntry(f[i - 1], list[i])
  BY <1>n, BuildSteps
(* The first i todos of the list, in their order, and their ids.           *)
<1> DEFINE Taken(i) == /\ f[i].order \in Seq(Entries(Id))
                       /\ Len(f[i].order) = i
                       /\ \A j \in 1..i : f[i].order[j] = list[j]
                       /\ f[i].byID = {list[j].id : j \in 1..i}
           T == {i \in Nat : i <= n => Taken(i)}
<1>2. 0 \in T
  <2>1. <<>> \in Seq(Entries(Id)) /\ Len(<<>>) = 0
    OBVIOUS
  <2>2. f[0].order = <<>> /\ f[0].byID = {}
    BY <1>1 DEF NoTodos
  <2>3. 1..0 = {}
    OBVIOUS
  <2>4. Taken(0)
    BY <2>1, <2>2, <2>3
  <2> QED BY <2>4
<1>3. ASSUME NEW i \in T PROVE i + 1 \in T
  <2> SUFFICES ASSUME i + 1 <= n PROVE Taken(i + 1)
    BY <1>3
  <2>1. i \in Nat /\ Taken(i)
    BY <1>3
  <2>2. i + 1 \in 1..n /\ (i + 1) - 1 = i /\ i + 1 \in Nat
    BY <2>1
  <2>3. f[i + 1] = AddEntry(f[i], list[i + 1])
    <3>1. f[i + 1] = AddEntry(f[(i + 1) - 1], list[i + 1])
      BY <1>1, <2>2
    <3> QED BY <2>2, <3>1
  <2>4. PICK e \in Entries(Id) : e = list[i + 1]
    BY <1>0, <1>n, <2>2, ElementOfSeq
  <2>5. e.id \notin {Null, NoId}
    BY <2>4, StoreAssumption DEF Entries
  <2>6. e.id \notin f[i].byID
    <3>1. ASSUME NEW j \in 1..i PROVE list[j].id # e.id
      <4>1. j \in 1..n /\ j # i + 1
        BY <2>1, <2>2
      <4> QED BY <1>0, <1>d, <2>2, <2>4, <4>1 DEF Distinct
    <3> QED BY <2>1, <3>1
  <2>7. f[i + 1].order = Append(f[i].order, e) /\ f[i + 1].byID = f[i].byID \cup {e.id}
    BY <2>3, <2>4, <2>5, <2>6 DEF AddEntry
  <2>8. PICK o \in Seq(Entries(Id)) : o = f[i].order /\ Len(o) = i
    BY <2>1
  <2>9. /\ Append(o, e) \in Seq(Entries(Id)) /\ Len(Append(o, e)) = i + 1
        /\ Append(o, e)[i + 1] = e /\ \A j \in 1..i : Append(o, e)[j] = o[j]
    BY <2>8, AppendProperties
  <2>10. \A j \in 1..(i + 1) : j \in 1..i \/ j = i + 1
    BY <2>1
  <2>11. \A j \in 1..(i + 1) : f[i + 1].order[j] = list[j]
    BY <2>1, <2>4, <2>7, <2>8, <2>9, <2>10
  <2>12. f[i + 1].byID = {list[j].id : j \in 1..(i + 1)}
    <3>1. 1..(i + 1) = 1..i \cup {i + 1}
      BY <2>1
    <3> QED BY <2>1, <2>4, <2>7, <3>1
  <2> QED BY <2>7, <2>8, <2>9, <2>11, <2>12
<1>4. T \subseteq Nat
  OBVIOUS
<1>5. \A i \in T : i <= n => Taken(i)
  OBVIOUS
<1> HIDE DEF T
<1>6. T = Nat
  BY <1>2, <1>3, <1>4, SetInduction
<1>7. Taken(n)
  BY <1>5, <1>6
<1>8. f[n].order \in Seq(Entries(Id)) /\ Len(f[n].order) = n /\ \A j \in 1..n : f[n].order[j] = list[j]
  BY <1>7
<1>9. f[n].order = list
  BY <1>0, <1>n, <1>8, SeqEqual
<1> QED BY <1>1, <1>9

(* Setting a todo keeps the ids.                                           *)
LEMMA TidyUpdate ==
  ASSUME NEW list, Tidy(list), NEW p \in DOMAIN list, NEW v \in Value
  PROVE  /\ Tidy([list EXCEPT ![p].value = v])
         /\ Ids([list EXCEPT ![p].value = v]) = Ids(list)
<1> DEFINE new == [list EXCEPT ![p].value = v]
<1>1. list \in Seq(Entries(Id)) /\ Distinct(list)
  BY DEF Tidy
<1>2. PICK n \in Nat : n = Len(list) /\ DOMAIN list = 1..n
  BY <1>1, LenProperties
<1>3. \A i \in 1..n : list[i] \in Entries(Id)
  BY <1>1, <1>2, ElementOfSeq
<1>4. DOMAIN new = 1..n
  BY <1>2
<1>5. ASSUME NEW i \in 1..n PROVE new[i] \in Entries(Id) /\ new[i].id = list[i].id
  BY <1>2, <1>3 DEF Entries
<1>6. new \in Seq(Entries(Id))
  <2>1. [list[p] EXCEPT !.value = v] \in Entries(Id)
    BY <1>2, <1>3 DEF Entries
  <2>2. new = [list EXCEPT ![p] = [list[p] EXCEPT !.value = v]]
    OBVIOUS
  <2> HIDE DEF new
  <2> QED BY <1>1, <1>2, <2>1, <2>2, ExceptSeq
<1> HIDE DEF new
<1>7. Distinct(new)
  BY <1>1, <1>2, <1>4, <1>5 DEF Distinct
<1>8. Ids(new) = Ids(list)
  BY <1>2, <1>4, <1>5 DEF Ids
<1> QED BY <1>6, <1>7, <1>8 DEF new, Tidy

(* Removing a todo takes its id away and no other.                         *)
LEMMA TidyRemove ==
  ASSUME NEW list, Tidy(list), NEW p \in DOMAIN list
  PROVE  Tidy(RemoveAt(list, p)) /\ Ids(RemoveAt(list, p)) = Ids(list) \ {list[p].id}
<1>1. list \in Seq(Entries(Id)) /\ Distinct(list)
  BY DEF Tidy
<1>2. PICK n \in Nat : n = Len(list) /\ DOMAIN list = 1..n
  BY <1>1, LenProperties
<1> DEFINE front == SubSeq(list, 1, p - 1)
           back  == SubSeq(list, p + 1, n)
           new   == front \o back
<1>0. p \in 1..n /\ p \in Nat /\ n - p \in Nat /\ p - 1 \in Nat
  BY <1>2
<1>3. /\ front \in Seq(Entries(Id)) /\ Len(front) = p - 1
      /\ \A i \in 1..(p - 1) : front[i] = list[i]
  BY <1>0, <1>1, <1>2, SubSeqProperties
<1>4. /\ back \in Seq(Entries(Id)) /\ Len(back) = n - p
      /\ \A i \in 1..(n - p) : back[i] = list[p + i]
  <2>1. CASE p < n
    BY <1>0, <1>1, <1>2, <2>1, SubSeqProperties
  <2>2. CASE p = n
    BY <1>0, <1>1, <1>2, <2>2, SubSeqProperties
  <2> QED BY <1>0, <2>1, <2>2
<1> HIDE DEF front, back
<1>5. /\ new \in Seq(Entries(Id)) /\ Len(new) = n - 1
      /\ \A i \in 1..(p - 1) : new[i] = front[i]
      /\ \A i \in p..(n - 1) : new[i] = back[i - (p - 1)]
  <2>1. new \in Seq(Entries(Id)) /\ Len(new) = Len(front) + Len(back)
    BY <1>3, <1>4, ConcatProperties
  <2>2. \A i \in 1..Len(new) : new[i] = IF i <= Len(front) THEN front[i] ELSE back[i - Len(front)]
    BY <1>3, <1>4, ConcatProperties
  <2>3. Len(new) = n - 1
    BY <1>0, <1>3, <1>4, <2>1
  <2>4. ASSUME NEW i \in 1..(p - 1) PROVE new[i] = front[i]
    <3>1. i \in 1..(n - 1) /\ i <= p - 1
      BY <1>0
    <3> QED BY <1>3, <2>2, <2>3, <3>1
  <2>5. ASSUME NEW i \in p..(n - 1) PROVE new[i] = back[i - (p - 1)]
    <3>1. i \in 1..(n - 1) /\ ~(i <= p - 1)
      BY <1>0
    <3> QED BY <1>3, <2>2, <2>3, <3>1
  <2> QED BY <2>1, <2>3, <2>4, <2>5
<1> HIDE DEF new
<1>6. DOMAIN new = 1..(n - 1)
  BY <1>5, LenProperties
(* Where the todo at i of the new list was in the old one.                 *)
<1> DEFINE Old(i) == IF i < p THEN i ELSE i + 1
<1>7. ASSUME NEW i \in 1..(n - 1)
      PROVE  new[i] = list[Old(i)] /\ Old(i) \in 1..n /\ Old(i) # p
  <2>1. CASE i < p
    <3>1. i \in 1..(p - 1)
      BY <1>0, <2>1
    <3> QED BY <1>0, <1>3, <1>5, <2>1, <3>1
  <2>2. CASE ~(i < p)
    <3>1. i \in p..(n - 1) /\ i - (p - 1) \in 1..(n - p) /\ p + (i - (p - 1)) = i + 1
      BY <1>0, <2>2
    <3> QED BY <1>0, <1>4, <1>5, <2>2, <3>1
  <2> QED BY <2>1, <2>2
<1>8. ASSUME NEW i \in 1..n, i # p
      PROVE  \E j \in 1..(n - 1) : Old(j) = i
  <2>1. CASE i < p
    <3>1. i \in 1..(n - 1)
      BY <1>0, <2>1
    <3> QED BY <2>1, <3>1
  <2>2. CASE i > p
    <3>1. i - 1 \in 1..(n - 1) /\ ~(i - 1 < p) /\ (i - 1) + 1 = i
      BY <1>0, <2>2
    <3> QED BY <3>1
  <2> QED BY <1>0, <1>8, <2>1, <2>2
<1>9. \A i, j \in 1..(n - 1) : Old(i) = Old(j) => i = j
  BY <1>0
<1> HIDE DEF Old
<1>10. Distinct(new)
  BY <1>1, <1>2, <1>6, <1>7, <1>9 DEF Distinct
<1>11. Ids(new) = Ids(list) \ {list[p].id}
  <2>1. ASSUME NEW x \in Ids(new) PROVE x \in Ids(list) /\ x # list[p].id
    <3>1. PICK i \in 1..(n - 1) : x = new[i].id
      BY <1>6 DEF Ids
    <3>2. x = list[Old(i)].id /\ Old(i) \in DOMAIN list /\ Old(i) # p
      BY <1>2, <1>7, <3>1
    <3> QED BY <1>1, <3>2 DEF Ids, Distinct
  <2>2. ASSUME NEW x \in Ids(list), x # list[p].id PROVE x \in Ids(new)
    <3>1. PICK i \in 1..n : x = list[i].id
      BY <1>2 DEF Ids
    <3>2. PICK j \in 1..(n - 1) : Old(j) = i
      BY <1>8, <2>2, <3>1
    <3>3. x = new[j].id
      BY <1>7, <3>1, <3>2
    <3> QED BY <1>6, <3>3 DEF Ids
  <2> QED BY <2>1, <2>2
<1>12. RemoveAt(list, p) = new
  BY <1>2 DEF RemoveAt, new, front, back
<1> QED BY <1>5, <1>10, <1>11, <1>12 DEF Tidy

-----------------------------------------------------------------------------
(* The lists.                                                              *)

(* A file is a list of entries, or has none.                               *)
FileTyped(f) ==
  /\ f.list \in Seq(Entries(Id \cup {NoId, Null}))
  /\ f.kind # "json" => f.list = <<>>

(* What a server that reads f would serve is a list that is known.         *)
FileKnown(f) == buildTodoStore(f.list).order \in known

(* What is served, what is about to be saved and, unless two processes may *)
(* have mixed it, what the file would give at a start are lists that have  *)
(* been served before (or the initial one), and all these are tidy.  This  *)
(* is what makes a new id new to every list and a restart a return to an   *)
(* earlier list.  A process that does not serve has no list.               *)
ListInv ==
  /\ <<>> \in known /\ \A list \in known : Tidy(list)
  /\ store \in [Server -> known] /\ snapshot \in [Server -> known]
  /\ DOMAIN storeByID = Server
  /\ \A s \in Server : storeByID[s] = Ids(store[s])
  /\ \A s \in Server : pc[s] \notin Serving => store[s] = <<>>
  /\ FileTyped(file) /\ (mixed \/ FileKnown(file))
  /\ DOMAIN pc = Server /\ DOMAIN opened = Server /\ DOMAIN torn = Server

(* No entries give no todos.                                               *)
LEMMA BuildNothing == buildTodoStore(<<>>).order = <<>>
BY TidyEmpty, BuildKeepsTidy

(* Ids of todos and ids a file may have.                                   *)
LEMMA EntriesGrow == Seq(Entries(Id)) \subseteq Seq(Entries(Id \cup {NoId, Null}))
<1>1. Entries(Id) \subseteq Entries(Id \cup {NoId, Null})
  BY DEF Entries
<1> QED BY <1>1, SeqMonotonic

(* Before the first start the file gives a tidy list, whatever it holds.   *)
LEMMA ListInit == Init => ListInv
<1> SUFFICES ASSUME Init PROVE ListInv
  OBVIOUS
<1>1. FileTyped(file)
  BY StoreAssumption DEF Init, Entries, FileTyped
<1>2. Consistent(buildTodoStore(file.list))
  BY <1>1, BuildConsistent DEF FileTyped
<1>3. known = {<<>>, buildTodoStore(file.list).order}
  BY DEF Init
<1>4. \A list \in known : Tidy(list)
  BY <1>2, <1>3, TidyEmpty DEF Consistent
<1>5. FileKnown(file)
  BY <1>3 DEF FileKnown
<1>6. /\ store = [s \in Server |-> <<>>] /\ snapshot = [s \in Server |-> <<>>]
      /\ storeByID = [s \in Server |-> {}]
  BY DEF Init
<1>7. DOMAIN pc = Server /\ DOMAIN opened = Server /\ DOMAIN torn = Server
  BY DEF Init
<1> QED BY <1>1, <1>3, <1>4, <1>5, <1>6, <1>7, TidyEmpty DEF ListInv

(* A truncated or damaged file gives the empty list, a complete one the    *)
(* list that was written.                                                  *)
LEMMA FilesKnown ==
  ASSUME ListInv
  PROVE  /\ FileTyped(Empty) /\ FileKnown(Empty)
         /\ FileTyped(Damaged) /\ FileKnown(Damaged)
         /\ \A list \in known : FileTyped(Json(list)) /\ FileKnown(Json(list))
<1>1. <<>> \in known
  BY DEF ListInv
<1>2. <<>> \in Seq(Entries(Id \cup {NoId, Null}))
  BY EmptySeq
<1>3. Empty.list = <<>> /\ Damaged.list = <<>>
  BY DEF Empty, Damaged
<1>4. /\ FileTyped(Empty) /\ FileKnown(Empty)
      /\ FileTyped(Damaged) /\ FileKnown(Damaged)
  BY <1>1, <1>2, <1>3, BuildNothing DEF FileTyped, FileKnown
<1>5. ASSUME NEW list \in known PROVE FileTyped(Json(list)) /\ FileKnown(Json(list))
  <2>1. Tidy(list)
    BY DEF ListInv
  <2>2. list \in Seq(Entries(Id \cup {NoId, Null}))
    BY <2>1, EntriesGrow DEF Tidy
  <2>3. Json(list).list = list /\ Json(list).kind = "json"
    BY DEF Json
  <2> QED BY <2>1, <2>2, <2>3, BuildKeepsTidy DEF FileTyped, FileKnown
<1> QED BY <1>4, <1>5

(* A mixture is a list of entries, if of no one that is known.             *)
LEMMA MixturesTyped == \A list \in Mixtures : FileTyped(Json(list))
BY StoreAssumption DEF FileTyped, Json, Entries

(* What os.WriteFile leaves: a known list, or none, unless the file is     *)
(* mixed.                                                                  *)
LEMMA WritesKnown ==
  ASSUME ListInv, NEW s \in Server, Open(s) \/ WritePart(s) \/ WriteEnds(s)
  PROVE  FileTyped(file') /\ (mixed' \/ FileKnown(file'))
<1>1. Content(s) \in known
  BY DEF Content, ListInv
<1>2. CASE Open(s)
  BY <1>2, FilesKnown DEF Open
<1>3. CASE WritePart(s) \/ WriteEnds(s)
  <2>1. mixed' = mixed
    BY <1>3 DEF WritePart, WriteEnds
  <2>2. CASE mixed
    <3>1. Overwrites(s)
      BY <1>3, <2>2 DEF WritePart, WriteEnds
    <3>2. FileTyped(file)
      BY DEF ListInv
    <3> QED BY <1>1, <2>1, <2>2, <3>1, <3>2, FilesKnown, MixturesTyped DEF Overwrites
  <2>3. CASE ~mixed
    <3>1. file' \in {Damaged, Json(Content(s))}
      BY <1>3, <2>3 DEF WritePart, WriteEnds
    <3> QED BY <1>1, <3>1, FilesKnown
  <2> QED BY <2>2, <2>3
<1> QED BY <1>2, <1>3

(* A server becomes unsure of what it reads only while two of them use the *)
(* file.                                                                   *)
LEMMA SureAlone ==
  ASSUME ListInv, NEW s \in Server, StartStep(s) \/ FileStep(s) \/ WriteFails(s)
  PROVE  Promise!UseFile
<1> USE DEF Promise!UseFile, ListInv
<1>1. CASE UNCHANGED <<mixed, torn>>
  BY <1>1
<1>2. CASE mixed /\ mixed'
  BY <1>2
<1>3. CASE UNCHANGED mixed /\ torn' = [torn EXCEPT ![s] = FALSE]
  BY <1>3
<1>4. CASE Open(s)
  <2>1. /\ mixed' = (\E o \in Server \ {s} : opened[o] # "no")
        /\ opened' = [opened EXCEPT ![s] = "truncated"] /\ UNCHANGED pc
        /\ torn' = [o \in Server |-> torn[o] \/ pc[o] = "loading"]
        /\ pc[s] \in Writing
    BY <1>4 DEF Open, TearReads
  <2>2. opened'[s] # "no" /\ \A o \in Server \ {s} : opened'[o] = opened[o]
    BY <2>1
  <2>3. CASE mixed'
    <3>1. \E o \in Server \ {s} : opened[o] # "no"
      BY <2>1, <2>3
    <3>2. PICK o \in Server \ {s} : opened'[o] # "no"
      BY <2>2, <3>1
    <3> QED BY <2>2, <3>2
  <2>4. ASSUME ~mixed', NEW o \in Server, pc[o] = "loading"
        PROVE  Promise!UseFile
    <3>1. o # s
      BY <2>1, <2>4 DEF Writing
    <3> QED BY <2>1, <2>2, <2>4, <3>1
  <2>5. CASE ~mixed' /\ \A o \in Server : pc[o] # "loading"
    <3>1. \A o \in Server : torn'[o] => torn[o]
      BY <2>1, <2>5
    <3> QED BY <2>5, <3>1
  <2> QED BY <2>3, <2>4, <2>5
<1>5. CASE WritePart(s) \/ WriteEnds(s)
  BY <1>1, <1>2, <1>5 DEF WritePart, WriteEnds
<1>6. CASE StartStep(s) \/ WriteFails(s) \/ ReadStarts(s) \/ ReadEnds(s)
  BY <1>1, <1>3, <1>6 DEF StartStep, Start, StartFails, Crash, Ends, CloseFile,
                          WriteFails, ReadStarts, ReadEnds, disk
<1> QED BY <1>4, <1>5, <1>6 DEF FileStep

(* What a starting server reads is a list that is known, if it is sure of  *)
(* it, and a tidy list always.                                             *)
LEMMA ReadServes ==
  ASSUME ListInv, NEW s \in Server, ReadEnds(s)
  PROVE  ListInv' /\ [Promise!Next]_(Promise!vars)
<1>1. PICK f \in ReadResults(s) :
         /\ Goto(s, "loading", IF f.kind = "damaged" THEN "resetting" ELSE "waiting")
         /\ store' = [store EXCEPT ![s] = buildTodoStore(f.list).order]
         /\ storeByID' = [storeByID EXCEPT ![s] = buildTodoStore(f.list).byID]
         /\ known' = known \cup {buildTodoStore(f.list).order}
  BY DEF ReadEnds
<1>2. UNCHANGED <<file, mixed, opened, snapshot>> /\ torn' = [torn EXCEPT ![s] = FALSE]
  BY DEF ReadEnds
<1>3. FileTyped(f) /\ (mixed \/ torn[s] \/ FileKnown(f))
  BY FilesKnown, MixturesTyped DEF ReadResults, ListInv
<1>4. PICK list : list = buildTodoStore(f.list).order
  OBVIOUS
<1>5. Tidy(list) /\ buildTodoStore(f.list).byID = Ids(list)
  BY <1>3, <1>4, BuildConsistent DEF FileTyped, Consistent
<1>6. /\ store' = [store EXCEPT ![s] = list] /\ known' = known \cup {list}
      /\ storeByID' = [storeByID EXCEPT ![s] = Ids(list)]
  BY <1>1, <1>4, <1>5
<1>7. f.kind = "damaged" => list = <<>>
  BY <1>3, <1>4, BuildNothing DEF FileTyped
<1>8. /\ pc[s] = "loading"
      /\ pc' = [pc EXCEPT ![s] = IF f.kind = "damaged" THEN "resetting" ELSE "waiting"]
  BY <1>1 DEF Goto
<1> HIDE DEF ReadResults
<1>9. ListInv'
  <2>1. store' \in [Server -> known'] /\ snapshot' \in [Server -> known']
    BY <1>2, <1>6 DEF ListInv
  <2>2. DOMAIN storeByID' = Server /\ \A o \in Server : storeByID'[o] = Ids(store'[o])
    BY <1>6 DEF ListInv
  <2>3. <<>> \in known' /\ \A l \in known' : Tidy(l)
    BY <1>5, <1>6 DEF ListInv
  <2>4. \A o \in Server : pc'[o] \notin Serving => store'[o] = <<>>
    BY <1>6, <1>7, <1>8 DEF ListInv, Serving
  <2>5. (FileTyped(file) /\ (mixed \/ FileKnown(file)))'
    BY <1>2, <1>6 DEF ListInv, FileTyped, FileKnown
  <2>6. DOMAIN pc' = Server /\ DOMAIN opened' = Server /\ DOMAIN torn' = Server
    BY <1>2, <1>8 DEF ListInv
  <2> QED BY <2>1, <2>2, <2>3, <2>4, <2>5, <2>6 DEF ListInv
<1>10. Promise!UseFile
  BY SureAlone DEF FileStep
<1>11. CASE f.kind = "damaged"
  <2>1. list = <<>> /\ store[s] = <<>> /\ <<>> \in known
    BY <1>7, <1>8, <1>11 DEF ListInv, Serving
  <2>2. UNCHANGED <<store, known>>
    BY <1>6, <2>1 DEF ListInv
  <2>3. {t \in Server : pc'[t] \in Serving} = {t \in Server : pc[t] \in Serving}
    BY <1>8, <1>11 DEF ListInv, Serving
  <2> QED BY <1>9, <1>10, <2>2, <2>3 DEF Promise!Next
<1>12. CASE f.kind # "damaged"
  <2>1. /\ pc[s] \notin Serving
        /\ {t \in Server : pc'[t] \in Serving} = {t \in Server : pc[t] \in Serving} \cup {s}
    BY <1>8, <1>12 DEF ListInv, Serving
  <2>2. store'[s] = list /\ store' = [store EXCEPT ![s] = store'[s]]
    BY <1>6 DEF ListInv
  <2>3. list \in known \/ (mixed \/ torn[s])
    BY <1>3, <1>4 DEF FileKnown
  <2>4. Promise!Served(list)
    <3>1. list \in Seq(Entries(Id)) /\ Distinct(list)
      BY <1>5 DEF Tidy
    <3>2. \A i \in DOMAIN list : list[i] \in Entries(Id)
      BY <3>1, ElementOfSeq, LenProperties
    <3> QED BY <3>1, <3>2 DEF Promise!Served, Distinct, Entries
  <2>5. Promise!Start(s)
    BY <1>6, <1>10, <2>1, <2>2, <2>3, <2>4 DEF Promise!Start
  <2> QED BY <1>9, <2>5 DEF Promise!Next
<1> QED BY <1>11, <1>12

(* A step that leaves the lists in memory alone.                           *)
LEMMA ListsKept ==
  ASSUME ListInv, UNCHANGED <<store, storeByID, known>>,
         snapshot' \in [Server -> known],
         FileTyped(file'), mixed' \/ FileKnown(file'),
         DOMAIN pc' = Server, DOMAIN opened' = Server, DOMAIN torn' = Server,
         \A s \in Server : pc'[s] \in Serving \/ pc[s] \notin Serving
  PROVE  ListInv'
BY DEF ListInv, FileTyped, FileKnown

(* Reading and writing the file leave what is served alone; a server that  *)
(* has reset the file, or failed to, serves the empty list.                *)
LEMMA FileStepsKeep ==
  ASSUME ListInv, NEW s \in Server,
         Start(s) \/ ReadStarts(s) \/ Open(s) \/ WritePart(s) \/ WriteEnds(s) \/ WriteFails(s)
  PROVE  ListInv' /\ [Promise!Next]_(Promise!vars)
<1>1. UNCHANGED <<store, storeByID, known>>
  BY DEF Start, ReadStarts, Open, WritePart, WriteEnds, WriteFails, memory, ghosts
<1>2. snapshot' \in [Server -> known]
  BY DEF Start, ReadStarts, Open, WritePart, WriteEnds, WriteFails, AfterWrite, ListInv
<1>3. FileTyped(file') /\ (mixed' \/ FileKnown(file'))
  <2>1. CASE Open(s) \/ WritePart(s) \/ WriteEnds(s)
    BY <2>1, WritesKnown
  <2>2. CASE Start(s) \/ ReadStarts(s) \/ WriteFails(s)
    BY <2>2 DEF Start, ReadStarts, WriteFails, CloseFile, disk, ListInv
  <2> QED BY <2>1, <2>2
<1>4. DOMAIN opened' = Server /\ DOMAIN torn' = Server
  <2>1. opened' = opened \/ \E o : opened' = [opened EXCEPT ![s] = o]
    BY DEF Start, ReadStarts, Open, WritePart, WriteEnds, WriteFails, CloseFile, disk
  <2>2. torn' = torn \/ torn' = [torn EXCEPT ![s] = FALSE] \/ TearReads
    BY DEF Start, ReadStarts, Open, WritePart, WriteEnds, WriteFails, CloseFile, disk, Overwrites
  <2> QED BY <2>1, <2>2 DEF ListInv, TearReads
<1>5. PICK to : /\ DOMAIN pc' = Server /\ pc'[s] = to
                /\ \A o \in Server \ {s} : pc'[o] = pc[o]
  <2>1. pc' = pc \/ \E to : pc' = [pc EXCEPT ![s] = to]
    BY DEF Start, ReadStarts, Open, WritePart, WriteEnds, WriteFails, AfterWrite, Goto
  <2> QED BY <2>1 DEF ListInv
<1>6. to \in Serving \/ pc[s] \notin Serving
  <2>1. CASE pc' = pc
    BY <1>5, <2>1 DEF ListInv
  <2>2. CASE Start(s) \/ ReadStarts(s)
    BY <2>2 DEF Start, ReadStarts, Goto, Serving
  <2>3. CASE WriteEnds(s) \/ WriteFails(s)
    BY <1>5, <2>3 DEF WriteEnds, WriteFails, AfterWrite, Goto, Serving, ListInv
  <2> QED BY <2>1, <2>2, <2>3 DEF Open, WritePart
<1>7. ListInv'
  <2>1. DOMAIN pc' = Server /\ \A o \in Server : pc'[o] \in Serving \/ pc[o] \notin Serving
    BY <1>5, <1>6 DEF ListInv
  <2> QED BY <1>1, <1>2, <1>3, <1>4, <2>1, ListsKept
<1>8. Promise!UseFile
  BY SureAlone DEF StartStep, FileStep
<1>9. CASE to \in Serving /\ pc[s] \notin Serving
  <2>1. /\ {t \in Server : pc'[t] \in Serving} = {t \in Server : pc[t] \in Serving} \cup {s}
        /\ s \notin {t \in Server : pc[t] \in Serving}
    BY <1>5, <1>9 DEF ListInv
  <2>2. store'[s] \in known /\ store' = [store EXCEPT ![s] = store'[s]]
        /\ known' = known \cup {store'[s]}
    BY <1>1 DEF ListInv
  <2>3. Promise!Start(s)
    BY <1>8, <2>1, <2>2 DEF Promise!Start
  <2> QED BY <1>7, <2>3 DEF Promise!Next
<1>10. CASE ~(to \in Serving /\ pc[s] \notin Serving)
  <2>1. {t \in Server : pc'[t] \in Serving} = {t \in Server : pc[t] \in Serving}
    BY <1>5, <1>6, <1>10 DEF ListInv
  <2> QED BY <1>1, <1>7, <1>8, <2>1 DEF Promise!Next
<1> QED BY <1>9, <1>10

(* A process that ends, at whatever point, takes its list with it.         *)
LEMMA EndsKeep ==
  ASSUME ListInv, NEW s \in Server, StartFails(s) \/ Crash(s)
  PROVE  ListInv' /\ [Promise!Next]_(Promise!vars)
<1>1. /\ store' = [store EXCEPT ![s] = <<>>] /\ storeByID' = [storeByID EXCEPT ![s] = {}]
      /\ snapshot' = [snapshot EXCEPT ![s] = <<>>]
      /\ UNCHANGED <<known, file, mixed>>
      /\ opened' = [opened EXCEPT ![s] = "no"] /\ torn' = [torn EXCEPT ![s] = FALSE]
  BY DEF StartFails, Crash, Ends, CloseFile
<1>2. pc' = [pc EXCEPT ![s] = "down"]
  BY DEF StartFails, Crash, Goto
<1>3. ListInv'
  <2>1. store' \in [Server -> known'] /\ snapshot' \in [Server -> known']
    BY <1>1 DEF ListInv
  <2>2. DOMAIN storeByID' = Server /\ \A o \in Server : storeByID'[o] = Ids(store'[o])
    BY <1>1, TidyEmpty DEF ListInv
  <2>3. \A o \in Server : pc'[o] \notin Serving => store'[o] = <<>>
    BY <1>1, <1>2 DEF ListInv
  <2>4. (FileTyped(file) /\ (mixed \/ FileKnown(file)))'
    BY <1>1 DEF ListInv, FileTyped, FileKnown
  <2> QED BY <1>1, <1>2, <2>1, <2>2, <2>3, <2>4 DEF ListInv
<1>4. Promise!UseFile
  BY SureAlone DEF StartStep
<1>5. {t \in Server : pc'[t] \in Serving} = {t \in Server : pc[t] \in Serving} \ {s}
  BY <1>2 DEF ListInv, Serving
<1>6. CASE pc[s] \in Serving
  <2>1. Promise!Stop(s)
    BY <1>1, <1>4, <1>5, <1>6 DEF Promise!Stop
  <2> QED BY <1>3, <2>1 DEF Promise!Next
<1>7. CASE pc[s] \notin Serving
  <2>1. UNCHANGED <<store, known>>
    BY <1>1, <1>7 DEF ListInv
  <2>2. {t \in Server : pc'[t] \in Serving} = {t \in Server : pc[t] \in Serving}
    BY <1>5, <1>7
  <2> QED BY <1>3, <1>4, <2>1, <2>2 DEF Promise!Next
<1> QED BY <1>6, <1>7

(* The worker saves what is served.                                        *)
LEMMA WorkerKeeps ==
  ASSUME ListInv, NEW s \in Server, WorkerStep(s)
  PROVE  ListInv' /\ UNCHANGED Promise!vars
<1>1. UNCHANGED <<store, storeByID, known, file, mixed, opened, torn>>
  BY DEF WorkerStep, WorkerWakes, DebounceRestarts, DebounceEnds, TakeSnapshot,
         disk, memory, ghosts
<1>2. snapshot' = snapshot \/ snapshot' = [snapshot EXCEPT ![s] = store[s]]
  BY DEF WorkerStep, WorkerWakes, DebounceRestarts, DebounceEnds, TakeSnapshot
<1>3. snapshot' \in [Server -> known]
  BY <1>2 DEF ListInv
<1>4. FileTyped(file') /\ (mixed' \/ FileKnown(file'))
  BY <1>1 DEF ListInv
<1>5. /\ pc[s] \in {"waiting", "debouncing", "locking"}
      /\ pc' = pc \/ \E to \in {"debouncing", "locking", "saving"} : pc' = [pc EXCEPT ![s] = to]
  BY DEF WorkerStep, WorkerWakes, DebounceRestarts, DebounceEnds, TakeSnapshot, Goto
<1>6. /\ DOMAIN pc' = Server
      /\ \A o \in Server : pc'[o] \in Serving <=> pc[o] \in Serving
      /\ \A o \in Server : pc'[o] = "loading" <=> pc[o] = "loading"
  BY <1>5 DEF ListInv, Serving
<1>7. ListInv'
  BY <1>1, <1>3, <1>4, <1>6, ListsKept DEF ListInv
<1> QED BY <1>1, <1>6, <1>7 DEF Promise!vars

(* A call that leaves a tidy list.                                         *)
LEMMA ChangeKeeps ==
  ASSUME ListInv, NEW s \in Server, NEW list, Tidy(list), NEW ids, ids = Ids(list),
         Changed(s, list, ids)
  PROVE  /\ ListInv' /\ Promise!Become(s, list)
<1>2. /\ store \in [Server -> known] /\ snapshot \in [Server -> known]
      /\ DOMAIN storeByID = Server /\ \A o \in Server : storeByID[o] = Ids(store[o])
      /\ <<>> \in known /\ \A l \in known : Tidy(l)
      /\ \A o \in Server : pc[o] \notin Serving => store[o] = <<>>
      /\ FileTyped(file) /\ (mixed \/ FileKnown(file))
      /\ DOMAIN pc = Server /\ DOMAIN opened = Server /\ DOMAIN torn = Server
  BY DEF ListInv
<1>1. /\ pc[s] \in Serving
      /\ store' = [store EXCEPT ![s] = list]
      /\ storeByID' = [storeByID EXCEPT ![s] = ids]
      /\ known' = known \cup {list}
      /\ UNCHANGED <<file, mixed, opened, torn, pc, snapshot>>
  BY <1>2 DEF Changed, disk
<1>3. store' \in [Server -> known'] /\ snapshot' \in [Server -> known']
  BY <1>1, <1>2
<1>4. \A o \in Server : storeByID'[o] = Ids(store'[o])
  BY <1>1, <1>2
<1>5. (FileTyped(file) /\ (mixed \/ FileKnown(file)))'
  BY <1>1, <1>2 DEF FileTyped, FileKnown
<1>6. \A o \in Server : pc'[o] \notin Serving => store'[o] = <<>>
  BY <1>1, <1>2
<1>7. ListInv'
  BY <1>1, <1>2, <1>3, <1>4, <1>5, <1>6 DEF ListInv
<1> QED BY <1>1, <1>7 DEF Promise!Become

(* The element that the map gives for an id.                               *)
LEMMA PlaceFound ==
  ASSUME ListInv, NEW s \in Server, NEW id \in storeByID[s]
  PROVE  PlaceOf(s, id) \in DOMAIN store[s] /\ store[s][PlaceOf(s, id)].id = id
<1>1. \E i \in DOMAIN store[s] : store[s][i].id = id
  BY DEF ListInv, Ids
<1> QED BY <1>1 DEF PlaceOf

(* Every call is one change of the promised list.                          *)
LEMMA CallKeeps ==
  ASSUME ListInv, NEW s \in Server, Call(s)
  PROVE  ListInv' /\ Promise!Next
<1>0. store[s] \in known /\ Tidy(store[s]) /\ storeByID[s] = Ids(store[s])
  BY DEF ListInv
<1>1. ASSUME NEW id \in Id, NEW v \in NewValue, CreateTodo(s, id, v)
      PROVE  ListInv' /\ Promise!Next
  <2> DEFINE e == [id |-> id, value |-> v]
  <2>1. e \in Entries(Id) /\ e.id = id /\ v \in Value
    BY StoreAssumption DEF Entries
  <2>2. \A list \in known : id \notin Ids(list)
    BY <1>1 DEF CreateTodo
  <2>3. Changed(s, Append(store[s], e), storeByID[s] \cup {id})
    BY <1>1 DEF CreateTodo
  <2> HIDE DEF e
  <2>4. /\ Tidy(Append(store[s], e))
        /\ Ids(Append(store[s], e)) = storeByID[s] \cup {id}
    BY <1>0, <2>1, <2>2, TidyAppend
  <2>5. ListInv' /\ Promise!Become(s, Append(store[s], e))
    BY <2>3, <2>4, ChangeKeeps
  <2>6. \A list \in known : id \notin Promise!Ids(list)
    BY <2>2 DEF Promise!Ids, Ids
  <2>7. Promise!Create(s, id, v)
    BY <2>5, <2>6 DEF Promise!Create, e
  <2> QED BY <2>1, <2>5, <2>7 DEF Promise!Next
<1>2. ASSUME NEW id \in Id, NEW v \in Value, UpdateTodo(s, id, v)
      PROVE  ListInv' /\ Promise!Next
  <2>0. id \in storeByID[s]
    BY <1>2 DEF UpdateTodo
  <2>1. PICK p \in DOMAIN store[s] : p = PlaceOf(s, id)
    BY <2>0, PlaceFound
  <2>2. Changed(s, [store[s] EXCEPT ![p].value = v], storeByID[s])
    BY <1>2, <2>1 DEF UpdateTodo
  <2>3. /\ Tidy([store[s] EXCEPT ![p].value = v])
        /\ Ids([store[s] EXCEPT ![p].value = v]) = Ids(store[s])
    BY <1>0, TidyUpdate
  <2>4. ListInv' /\ Promise!Become(s, [store[s] EXCEPT ![p].value = v])
    BY <1>0, <2>2, <2>3, ChangeKeeps
  <2>5. Promise!Update(s, p, v)
    BY <2>4 DEF Promise!Update
  <2> QED BY <2>4, <2>5 DEF Promise!Next
<1>3. ASSUME NEW id \in Id, DeleteTodo(s, id)
      PROVE  ListInv' /\ Promise!Next
  <2>0. id \in storeByID[s]
    BY <1>3 DEF DeleteTodo
  <2>1. PICK p \in DOMAIN store[s] : p = PlaceOf(s, id) /\ store[s][p].id = id
    BY <2>0, PlaceFound
  <2>2. Changed(s, RemoveAt(store[s], p), storeByID[s] \ {id})
    BY <1>3, <2>1 DEF DeleteTodo
  <2>3. /\ Tidy(RemoveAt(store[s], p))
        /\ Ids(RemoveAt(store[s], p)) = Ids(store[s]) \ {id}
    BY <1>0, <2>1, TidyRemove
  <2>4. ListInv' /\ Promise!Become(s, RemoveAt(store[s], p))
    BY <1>0, <2>2, <2>3, ChangeKeeps
  <2>5. Promise!Delete(s, p)
    BY <2>4 DEF Promise!Delete, RemoveAt
  <2> QED BY <2>1, <2>4, <2>5 DEF Promise!Next
<1> QED BY <1>1, <1>2, <1>3 DEF Call

(* The invariant is kept, and every step is one of the promised list's or  *)
(* leaves it alone.                                                        *)
LEMMA ListStep ==
  ASSUME ListInv, [Next]_vars
  PROVE  ListInv' /\ [Promise!Next]_(Promise!vars)
<1>1. CASE UNCHANGED vars
  BY <1>1 DEF vars, ListInv, FileTyped, FileKnown, Promise!vars
<1>2. CASE Next
  <2>1. PICK s \in Server :
           StartStep(s) \/ FileStep(s) \/ WriteFails(s) \/ WorkerStep(s) \/ Call(s)
    BY <1>2 DEF Next, GrpcServer, DirectStore, DirectWorker, DirectCalls, Server
  <2>2. CASE ReadEnds(s)
    BY <2>2, ReadServes
  <2>3. CASE StartFails(s) \/ Crash(s)
    BY <2>3, EndsKeep
  <2>4. CASE \/ Start(s) \/ ReadStarts(s) \/ Open(s) \/ WritePart(s) \/ WriteEnds(s)
             \/ WriteFails(s)
    BY <2>4, FileStepsKeep
  <2>5. CASE WorkerStep(s)
    BY <2>5, WorkerKeeps
  <2>6. CASE Call(s)
    BY <2>6, CallKeeps
  <2> QED BY <2>1, <2>2, <2>3, <2>4, <2>5, <2>6 DEF StartStep, FileStep
<1> QED BY <1>1, <1>2

(* So the invariant holds in every reachable state.                        *)
LEMMA ListInvHolds == Spec => []ListInv
<1>1. ListInv /\ [Next]_vars => ListInv'
  BY ListStep
<1> QED BY <1>1, ListInit, PTL DEF Spec

(* The list and the lookup map agree, whatever the file held at start-up,  *)
(* through every call, save, crash and restart: so UpdateTodo and          *)
(* DeleteTodo, which find a todo through the map, find the one that        *)
(* ListTodos shows.                                                        *)
THEOREM MapMatchesList == Spec => []IndexMatchesList
<1>1. ListInv => IndexMatchesList
  <2> SUFFICES ASSUME ListInv, NEW s \in Server
               PROVE  /\ storeByID[s] = Ids(store[s])
                      /\ IsInjective([i \in DOMAIN store[s] |-> store[s][i].id])
    BY DEF IndexMatchesList
  <2>1. Tidy(store[s]) /\ storeByID[s] = Ids(store[s])
    BY DEF ListInv
  <2>2. IsInjective([i \in DOMAIN store[s] |-> store[s][i].id])
    BY <2>1 DEF Tidy, Distinct, IsInjective
  <2> QED BY <2>1, <2>2
<1> QED BY <1>1, ListInvHolds, PTL

(* The two servers over one file keep the promise of TodoList: their       *)
(* clients' calls change one todo at a time, no id is used twice, and a    *)
(* server that starts, after any crash, failed or cut-off save, serves a   *)
(* list that was served before, the initial one or none; a list that       *)
(* nobody served takes two processes that had the file open at once.       *)
THEOREM KeepsThePromise == Spec => ImplementsTodoList
<1>1. Init => Promise!Init
  BY TidyEmpty DEF Init, Promise!Init, Serving
<1>2. ListInv /\ [Next]_vars => [Promise!Next]_(Promise!vars)
  BY ListStep
<1> QED
  BY <1>1, <1>2, ListInvHolds, PTL DEF Spec, ImplementsTodoList, Promise!Spec
=============================================================================
