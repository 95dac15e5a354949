------------------------------ MODULE TodoList ------------------------------
(***************************************************************************)
(* What the example's to-do servers promise their clients: a server that   *)
(* is up serves a list that its clients' calls change one todo at a time,  *)
(* under ids that are never used twice.  A server that starts serves a     *)
(* list that has been served before, or the initial file held, or the      *)
(* empty one.                                                              *)
(*                                                                         *)
(* The servers keep their lists in one file and do not coordinate.  Once   *)
(* two of them have used it at the same time (unsure) a server that starts *)
(* may find a list that nobody ever served; the promise is that this takes *)
(* two at a time, whatever is cut off, fails or crashes otherwise.         *)
(***************************************************************************)
EXTENDS Integers, Sequences

CONSTANTS Server, Id, Value

VARIABLES
  todos,   \* per server, the list its clients see
  up,      \* the servers that serve their list
  known,   \* every list that has been served, or was in the initial file
  using,   \* the servers that are reading or writing the file
  unsure   \* those that would not be sure to read a known list from it

vars == <<todos, up, known, using, unsure>>

Ids(list) == {list[i].id : i \in DOMAIN list}

Init ==
  /\ todos = [s \in Server |-> <<>>]
  /\ <<>> \in known
  /\ up = {} /\ using = {} /\ unsure = {}

Become(s, list) ==
  /\ s \in up
  /\ todos' = [todos EXCEPT ![s] = list]
  /\ known' = known \cup {list}
  /\ UNCHANGED <<up, using, unsure>>

Create(s, id, v) ==
  /\ \A list \in known : id \notin Ids(list)
  /\ Become(s, Append(todos[s], [id |-> id, value |-> v]))

Update(s, i, v) == Become(s, [todos[s] EXCEPT ![i].value = v])

Delete(s, i) ==
  Become(s, SubSeq(todos[s], 1, i - 1) \o SubSeq(todos[s], i + 1, Len(todos[s])))

(* Servers become unsure only while two of them use the file.              *)
UseFile ==
  \/ unsure' \subseteq unsure
  \/ \E s, o \in Server : s # o /\ {s, o} \subseteq using'

Served(list) ==
  /\ \A i \in DOMAIN list : list[i] \in [id : Id, value : Value]
  /\ \A i, j \in DOMAIN list : list[i].id = list[j].id => i = j

(* The list comes from the file; only an unsure server may serve a new one.*)
Start(s) ==
  /\ s \notin up /\ up' = up \cup {s}
  /\ todos'[s] \in known \/ (s \in unsure /\ Served(todos'[s]))
  /\ todos' = [todos EXCEPT ![s] = todos'[s]]
  /\ known' = known \cup {todos'[s]}
  /\ UseFile

Stop(s) ==
  /\ s \in up /\ up' = up \ {s}
  /\ todos' = [todos EXCEPT ![s] = <<>>]
  /\ UNCHANGED known
  /\ UseFile

Next ==
  \/ \E s \in Server :
       \/ \E id \in Id, v \in Value : Create(s, id, v)
       \/ \E i \in DOMAIN todos[s] : Delete(s, i) \/ \E v \in Value : Update(s, i, v)
       \/ Start(s) \/ Stop(s)
  \/ UseFile /\ UNCHANGED <<todos, up, known>>

Spec == Init /\ [][Next]_vars
=============================================================================
