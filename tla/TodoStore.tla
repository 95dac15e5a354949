----------------------------- MODULE TodoStore ------------------------------
(***************************************************************************)
(* The to-do server of the examples (examples/grpc-server/main.go, and the *)
(* same code in examples/direct-bridge/main.go): a list in memory that the *)
(* RPC handlers change under a lock, and a worker goroutine that saves it, *)
(* some time after the last change, to a JSON file both examples share.    *)
(*                                                                         *)
(* A process can end at any moment.  os.WriteFile truncates the file when  *)
(* it opens it and writes from the start, one piece after the other; so a  *)
(* save that is cut off leaves an empty file or the front of a list.  Two  *)
(* processes that have it open together write over each other, and what a  *)
(* file then holds may be no JSON, or JSON of a list that neither wrote.   *)
(***************************************************************************)
EXTENDS Integers, Sequences, SequencesExt

CONSTANTS
  Grpc, Direct, \* the processes of the two examples, which share the file
  Id,           \* ids that uuid.New can return
  Value,        \* what a client can set a todo to: its text and done flag
  NewValue,     \* those of a new todo: done is false
  NoId, Null,   \* entries of a hand-edited file: an empty id, a JSON null
  InitialFile,  \* what the file may hold before the first start
  Mixtures,     \* lists that a file two processes write at once may hold
  MaxChanges    \* bound: changes altogether

Server == {Grpc, Direct}

ASSUME StoreAssumption ==
  /\ Grpc # Direct
  /\ NewValue \subseteq Value
  /\ NoId \notin Id /\ Null \notin Id /\ NoId # Null
  /\ InitialFile \subseteq [kind : {"missing", "empty", "damaged", "json"},
                            list : Seq([id : Id \cup {NoId, Null}, value : Value])]
  /\ \A f \in InitialFile : f.kind = "json" \/ f.list = <<>>
  /\ Mixtures \subseteq Seq([id : Id \cup {NoId, Null}, value : Value])
  /\ MaxChanges \in Nat

VARIABLES
  file,       \* the JSON file
  mixed,      \* two processes had it open since it was truncated by one alone
  pc,         \* what each process is doing; the RPCs are served in Serving
  opened,     \* whether it has the file open for writing: no, truncated, partly
  torn,       \* the file lost bytes while the process was reading it
  store,      \* the todos in their order (parseTodoOrder)
  storeByID,  \* the ids its lookup map has an element for
  signal,     \* persistSignal holds its one element
  snapshot,   \* what runTodosPersistWorker is saving
  version,    \* ghost: the number of its last change, 0 since its start
  taken,      \* ghost: the one the last snapshot contains
  changes,    \* ghost: the number of changes so far
  known       \* ghost: every list served so far, and the initial one

vars == <<file, mixed, pc, opened, torn, store, storeByID, signal, snapshot,
          version, taken, changes, known>>

disk   == <<file, mixed, opened, torn>>
memory == <<store, storeByID, signal>>
ghosts == <<version, taken, changes, known>>

Ids(list) == {list[i].id : i \in DOMAIN list}

\* The file: absent, truncated, not JSON, or a list of entries.
Missing    == [kind |-> "missing", list |-> <<>>]
Empty      == [kind |-> "empty",   list |-> <<>>]
Damaged    == [kind |-> "damaged", list |-> <<>>]
Json(list) == [kind |-> "json",    list |-> list]

Serving == {"waiting", "debouncing", "locking", "saving"}
Writing == {"creating", "resetting", "saving"}

-----------------------------------------------------------------------------
(* Wrong...: plausible bugs in the definition that follows, see README.    *)
WrongAddEntry(s, e) ==
  IF e.id \in {Null, NoId} THEN s
  ELSE [order |-> Append(s.order, e), byID |-> s.byID \cup {e.id}]

(* An entry that is null, has no id or one that was seen is skipped.       *)
AddEntry(s, e) ==
  IF e.id \in {Null, NoId} \cup s.byID THEN s
  ELSE [order |-> Append(s.order, e), byID |-> s.byID \cup {e.id}]

NoTodos == [order |-> <<>>, byID |-> {}]

(* One entry after the other; built[n] is the store after the first n.     *)
buildTodoStore(entries) ==
  LET built[n \in 0..Len(entries)] ==
        IF n = 0 THEN NoTodos ELSE AddEntry(built[n - 1], entries[n])
  IN  built[Len(entries)]

Init ==
  /\ file \in InitialFile
  /\ pc = [s \in Server |-> "down"]
  /\ mixed = FALSE
  /\ opened = [s \in Server |-> "no"]
  /\ torn = [s \in Server |-> FALSE]
  /\ store = [s \in Server |-> <<>>]
  /\ storeByID = [s \in Server |-> {}]
  /\ signal = [s \in Server |-> FALSE]
  /\ snapshot = [s \in Server |-> <<>>]
  /\ version = [s \in Server |-> 0]
  /\ taken = [s \in Server |-> 0]
  /\ changes = 0
  /\ known = {<<>>, buildTodoStore(file.list).order}

Goto(s, from, to) ==
  /\ pc[s] = from
  /\ pc' = [pc EXCEPT ![s] = to]

-----------------------------------------------------------------------------
(* Start-up: newTodoServer and loadTodos.                                  *)

Start(s) ==
  /\ Goto(s, "down", IF file.kind = "missing" THEN "creating" ELSE "reading")
  /\ UNCHANGED <<disk, memory, snapshot, ghosts>>

(* os.ReadFile reads piece by piece up to the end of the file.             *)
ReadStarts(s) ==
  /\ Goto(s, "reading", "loading")
  /\ UNCHANGED <<disk, memory, snapshot, ghosts>>

(* A file that meanwhile only grew is read as it is at the end.  One that  *)
(* was truncated or written over may be read partly as it was and partly   *)
(* as it is; when it was read whole before, that is a read that ended then.*)
ReadResults(s) ==
  {file} \cup IF torn[s] THEN {Damaged} \cup {Json(list) : list \in Mixtures} ELSE {}

(* What is not JSON is reset before the server starts.                     *)
ReadEnds(s) ==
  /\ \E f \in ReadResults(s) :
       LET built == buildTodoStore(f.list) IN
       /\ Goto(s, "loading", IF f.kind = "damaged" THEN "resetting" ELSE "waiting")
       /\ store' = [store EXCEPT ![s] = built.order]
       /\ storeByID' = [storeByID EXCEPT ![s] = built.byID]
       /\ known' = known \cup {built.order}
  /\ torn' = [torn EXCEPT ![s] = FALSE]
  /\ UNCHANGED <<file, mixed, opened, signal, snapshot, version, taken, changes>>

(* A process that closes the file leaves there what it has written.        *)
CloseFile(s) ==
  /\ opened' = [opened EXCEPT ![s] = "no"]
  /\ torn' = [torn EXCEPT ![s] = FALSE]
  /\ UNCHANGED <<file, mixed>>

(* What a process has in memory goes with it.                              *)
Ends(s) ==
  /\ CloseFile(s)
  /\ store' = [store EXCEPT ![s] = <<>>]
  /\ storeByID' = [storeByID EXCEPT ![s] = {}]
  /\ signal' = [signal EXCEPT ![s] = FALSE]
  /\ snapshot' = [snapshot EXCEPT ![s] = <<>>]
  /\ version' = [version EXCEPT ![s] = 0]
  /\ taken' = [taken EXCEPT ![s] = 0]
  /\ UNCHANGED <<changes, known>>

(* Stat, ReadFile or the WriteFile of "[]" returns an error: main gives up.*)
StartFails(s) ==
  /\ \E at \in {"creating", "reading", "loading"} : Goto(s, at, "down")
  /\ Ends(s)

-----------------------------------------------------------------------------
(* os.WriteFile: the file is truncated when it is opened, and then written.*)

Content(s) == IF pc[s] = "saving" THEN snapshot[s] ELSE <<>>

AfterWrite(s) ==
  /\ Goto(s, pc[s], IF pc[s] = "creating" THEN "reading" ELSE "waiting")
  /\ snapshot' = [snapshot EXCEPT ![s] = <<>>]

(* The bytes that others are reading are not the ones they began with.     *)
TearReads == torn' = [o \in Server |-> torn[o] \/ pc[o] = "loading"]

Open(s) ==
  /\ pc[s] \in Writing /\ opened[s] = "no"
  /\ opened' = [opened EXCEPT ![s] = "truncated"]
  /\ mixed' = \E o \in Server \ {s} : opened[o] # "no"
  /\ file' = Empty
  /\ TearReads
  /\ UNCHANGED <<pc, memory, snapshot, ghosts>>

(* The bytes of s go to where it has got to in the file, over or behind    *)
(* those of another process, which may leave a hole, a longer rest or a    *)
(* list put together of both.                                              *)
Overwrites(s) ==
  /\ file' \in {Damaged, Json(Content(s))} \cup {Json(list) : list \in Mixtures}
                 \cup ({file} \ {Empty})
  /\ TearReads

(* All the pieces but the last.                                            *)
WritePart(s) ==
  /\ pc[s] \in Writing /\ opened[s] = "truncated"
  /\ opened' = [opened EXCEPT ![s] = "partly"]
  /\ IF mixed THEN Overwrites(s) ELSE file' = Damaged /\ UNCHANGED torn
  /\ UNCHANGED <<mixed, pc, memory, snapshot, ghosts>>

(* A file that was not truncated keeps the rest of an older, longer list.  *)
WrongWriteEnds(s) ==
  /\ pc[s] \in Writing /\ opened[s] # "no"
  /\ opened' = [opened EXCEPT ![s] = "no"]
  /\ Overwrites(s)
  /\ AfterWrite(s)
  /\ UNCHANGED <<mixed, memory, ghosts>>

WriteEnds(s) ==
  /\ pc[s] \in Writing /\ opened[s] # "no"
  /\ opened' = [opened EXCEPT ![s] = "no"]
  /\ IF mixed THEN Overwrites(s) ELSE file' = Json(Content(s)) /\ UNCHANGED torn
  /\ AfterWrite(s)
  /\ UNCHANGED <<mixed, memory, ghosts>>

(* The error of a reset is ignored and that of a save is logged: no retry. *)
WriteFails(s) ==
  /\ pc[s] \in {"resetting", "saving"}
  /\ CloseFile(s)
  /\ AfterWrite(s)
  /\ UNCHANGED <<memory, ghosts>>

Crash(s) ==
  /\ pc[s] # "down"
  /\ pc' = [pc EXCEPT ![s] = "down"]
  /\ Ends(s)

-----------------------------------------------------------------------------
(* runTodosPersistWorker: wait for a signal, then until none has come for  *)
(* a while, and save.  The timer and a signal can be ready together, and   *)
(* the select then takes either.                                           *)

WorkerWakes(s) ==
  /\ signal[s] /\ Goto(s, "waiting", "debouncing")
  /\ signal' = [signal EXCEPT ![s] = FALSE]
  /\ UNCHANGED <<disk, store, storeByID, snapshot, ghosts>>

DebounceRestarts(s) ==
  /\ pc[s] = "debouncing" /\ signal[s]
  /\ signal' = [signal EXCEPT ![s] = FALSE]
  /\ UNCHANGED <<disk, pc, store, storeByID, snapshot, ghosts>>

DebounceEnds(s) ==
  /\ Goto(s, "debouncing", "locking")
  /\ UNCHANGED <<disk, memory, snapshot, ghosts>>

TakeSnapshot(s) ==
  /\ Goto(s, "locking", "saving")
  /\ snapshot' = [snapshot EXCEPT ![s] = store[s]]
  /\ taken' = [taken EXCEPT ![s] = version[s]]
  /\ UNCHANGED <<disk, memory, version, changes, known>>

-----------------------------------------------------------------------------
(* The RPC handlers, each atomic under mu.  ListTodos only reads.  A node  *)
(* that is no todo, which UpdateTodo would drop, is never in the list.     *)

WrongSignal(s) ==
  signal' = IF pc[s] = "saving" THEN signal ELSE [signal EXCEPT ![s] = TRUE]

signalTodosPersistLocked(s) == signal' = [signal EXCEPT ![s] = TRUE]

(* A call that leaves the list as it was signals the worker all the same.  *)
Changed(s, list, ids) ==
  /\ pc[s] \in Serving
  /\ store' = [store EXCEPT ![s] = list]
  /\ storeByID' = [storeByID EXCEPT ![s] = ids]
  /\ signalTodosPersistLocked(s)
  /\ IF list = store[s] THEN UNCHANGED <<changes, version, known>>
     ELSE /\ changes < MaxChanges
          /\ changes' = changes + 1
          /\ version' = [version EXCEPT ![s] = changes']
          /\ known' = known \cup {list}
  /\ UNCHANGED <<disk, pc, snapshot, taken>>

PlaceOf(s, id) == CHOOSE i \in DOMAIN store[s] : store[s][i].id = id

(* uuid.New returns an id that no process has given to a todo before.      *)
CreateTodo(s, id, v) ==
  /\ \A list \in known : id \notin Ids(list)
  /\ Changed(s, Append(store[s], [id |-> id, value |-> v]), storeByID[s] \cup {id})

UpdateTodo(s, id, v) ==
  /\ id \in storeByID[s]
  /\ Changed(s, [store[s] EXCEPT ![PlaceOf(s, id)].value = v], storeByID[s])

DeleteTodo(s, id) ==
  /\ id \in storeByID[s]
  /\ Changed(s, RemoveAt(store[s], PlaceOf(s, id)), storeByID[s] \ {id})

-----------------------------------------------------------------------------
FileStep(s) == ReadStarts(s) \/ ReadEnds(s) \/ Open(s) \/ WritePart(s) \/ WriteEnds(s)

WorkerStep(s) == WorkerWakes(s) \/ DebounceRestarts(s) \/ DebounceEnds(s) \/ TakeSnapshot(s)

StartStep(s) == Start(s) \/ StartFails(s) \/ Crash(s)

Call(s) ==
  \E id \in Id :
    \/ DeleteTodo(s, id)
    \/ \E v \in NewValue : CreateTodo(s, id, v)
    \/ \E v \in Value : UpdateTodo(s, id, v)

GrpcServer == StartStep(Grpc) \/ FileStep(Grpc) \/ WriteFails(Grpc) \/ WorkerStep(Grpc) \/ Call(Grpc)

(* The direct bridge has its own copy of the code.                         *)
DirectStore == StartStep(Direct) \/ FileStep(Direct) \/ WriteFails(Direct)
DirectWorker == WorkerStep(Direct)
DirectCalls == Call(Direct)

Next == GrpcServer \/ DirectStore \/ DirectWorker \/ DirectCalls

(* The goroutines that are ready keep running; nothing makes a process     *)
(* start, a write fail or a client call.                                   *)
Fairness == \A s \in Server : WF_vars(FileStep(s)) /\ WF_vars(WorkerStep(s))

Spec == Init /\ [][Next]_vars /\ Fairness

-----------------------------------------------------------------------------
(* Properties                                                              *)

Entries(ids) == [id : ids, value : Value]

(* The types of all variables.                                             *)
TypeOK ==
  /\ file.kind \in {"missing", "empty", "damaged", "json"}
  /\ file.list \in Seq(Entries(Id \cup {NoId, Null}))
  /\ pc \in [Server -> {"down", "creating", "reading", "loading", "resetting"} \cup Serving]
  /\ mixed \in BOOLEAN /\ opened \in [Server -> {"no", "truncated", "partly"}]
  /\ torn \in [Server -> BOOLEAN] /\ signal \in [Server -> BOOLEAN]
  /\ store \in [Server -> Seq(Entries(Id))] /\ snapshot \in [Server -> Seq(Entries(Id))]
  /\ storeByID \in [Server -> SUBSET Id]
  /\ version \in [Server -> 0..MaxChanges] /\ taken \in [Server -> 0..MaxChanges]
  /\ changes \in 0..MaxChanges

(* The list and the lookup map stay in step: every id in the map has       *)
(* exactly one element in the list, whatever the file held at start-up.    *)
(* UpdateTodo and DeleteTodo find their element through the map only.      *)
IndexMatchesList ==
  \A s \in Server : storeByID[s] = Ids(store[s]) /\ IsInjective([i \in DOMAIN store[s] |-> store[s][i].id])

(* No change is forgotten: as long as the newest one is in no snapshot,    *)
(* the worker holds a signal or is on its way to the next snapshot, though *)
(* the channel has room for one signal and a full one drops the rest.      *)
ChangesAreScheduled ==
  \A s \in Server :
    pc[s] \in Serving /\ version[s] # taken[s]
      => signal[s] \/ pc[s] \in {"debouncing", "locking"}

(* What a server serves to its clients, and whether it may read a mixture. *)
Promise == INSTANCE TodoList WITH
             todos <- store,
             up <- {s \in Server : pc[s] \in Serving},
             using <- {s \in Server : opened[s] # "no" \/ pc[s] = "loading"},
             unsure <- {s \in Server : mixed \/ torn[s]}

(* A server that starts serves a list that a server has served before, or  *)
(* none, after any crash, failed or cut-off save, unless two processes had *)
(* the file open at once: a list that nobody served needs both.  An id is  *)
(* never used twice, and every call changes one todo.                      *)
ImplementsTodoList == Promise!Spec

(* After some time the worker of s has done nothing but start its debounce *)
(* again: signals keep coming before the timer fires.                      *)
OnlyRestarts(s) ==
  <>[](pc[s] = "debouncing") /\ []<><<DebounceRestarts(s)>>_vars

(* Every change gets into a save that comes to its end, its own or that of *)
(* a later change.  The exceptions, both of them the code's: the process   *)
(* ends first; or calls keep coming faster than the debounce, which puts   *)
(* the save off without a limit.  A save that ends has put the change into *)
(* the file unless it failed or another process wrote at the same time;    *)
(* neither is retried, and neither excuses the changes that come after.    *)
EveryChangeIsSaved ==
  \A s \in Server : \A n \in 1..MaxChanges :
    \/ OnlyRestarts(s)
    \/ pc[s] \in Serving /\ version[s] = n
         ~> (taken[s] >= n /\ pc[s] # "saving") \/ pc[s] = "down"
=============================================================================
