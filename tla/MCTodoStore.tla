---------------------------- MODULE MCTodoStore -----------------------------
(* Two processes and one id, which is new to them or in the list of an     *)
(* older file, with a duplicate and entries that are skipped; a mixture    *)
(* that gives the id twice, with a value that nobody may have set it to.   *)
EXTENDS TodoStore

CONSTANTS id, open, done

MCValue == {open, done}
MCNewValue == {open}
Entry(i, v) == [id |-> i, value |-> v]

MCInitialFile ==
  {Missing, Json(<<Entry(id, done), Entry(NoId, done), Entry(Null, done), Entry(id, done)>>)}
MCMixtures == {<<Entry(id, done), Entry(id, open)>>}
=============================================================================
