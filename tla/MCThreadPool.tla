---------------------------- MODULE MCThreadPool ----------------------------
(***************************************************************************)
(* Instances of ThreadPool for TLC.  The ids are those gen_new_id gives to *)
(* the three mutexes in the order of the members: the first is lowest(),   *)
(* here 0, and the others get 1 (see MutexIds).                            *)
(***************************************************************************)
EXTENDS ThreadPool

CONSTANTS w1, w2, w3, c1

OneThread == <<w1>>
TwoThreads == <<w1, w2>>
FirstPoolIds == [threads |-> 0, task_queues |-> 1, waiting_locations |-> 1]

\* Where a thread still uses what it chose, and what it has seen.
UsesBest(t) ==
  pc[t] \in Searching \cup
    {"write_location", "wait", "asleep", "check_idle", "find_thread", "join",
     "stop_location", "stop_queue", "erase_queue", "erase_thread"}

\* The mode of threads, which shares its id with no mutex, is not read before
\* it is stored again once nobody holds the mutex.
LocksView ==
  IF locks.writer["threads"] = NoThread /\ locks.readers["threads"] = {}
  THEN [locks EXCEPT !.mode["threads"] = "None"] ELSE locks

\* For the run of the invariants: a program that died is not told apart by
\* where its threads were, nor a live one by the choices and results of
\* threads that will not read them again.
PoolView ==
  IF ~Alive THEN <<failure>>
  ELSE <<LocksView, tables, stop_token, queues, places, pc, tasks,
         [t \in Thread |-> IF UsesBest(t) THEN best[t] ELSE NoThread],
         [t \in Thread |-> IF pc[t] \in Searching THEN seen[t] ELSE {}],
         Destroying>>
=============================================================================
