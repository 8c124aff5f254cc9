------------------------------- MODULE TaskPool -------------------------------
(***************************************************************************)
(* What ThreadPool promises about tasks, without queues, tables and locks: *)
(* a task is handed in once, a worker that runs nothing begins one that    *)
(* nobody has begun, and the worker that began it ends it.  Tasks that     *)
(* nobody has begun can be given up; nothing happens to them after that.   *)
(***************************************************************************)
CONSTANTS
  Task,     \* the tasks that can be handed in
  Worker,   \* the workers
  NoTask    \* what a worker runs that runs nothing

VARIABLES
  handed_in,   \* the tasks that were handed in and not begun or given up
  runs,        \* runs[w]: the task w runs
  done,        \* the tasks that were run to their end
  given_up     \* the tasks that will never be run

vars == <<handed_in, runs, done, given_up>>

Init ==
  /\ handed_in = {} /\ done = {} /\ given_up = {}
  /\ runs = [w \in Worker |-> NoTask]

\* A task is new that was never handed in.
New(k) ==
  k \notin handed_in \cup done \cup given_up /\ \A w \in Worker : runs[w] # k

HandIn(k) ==
  /\ New(k)
  /\ handed_in' = handed_in \cup {k}
  /\ UNCHANGED <<runs, done, given_up>>

Begin(w, k) ==
  /\ k \in handed_in /\ runs[w] = NoTask
  /\ handed_in' = handed_in \ {k}
  /\ runs' = [runs EXCEPT ![w] = k]
  /\ UNCHANGED <<done, given_up>>

Finish(w) ==
  /\ runs[w] # NoTask
  /\ done' = done \cup {runs[w]}
  /\ runs' = [runs EXCEPT ![w] = NoTask]
  /\ UNCHANGED <<handed_in, given_up>>

GiveUp(S) ==
  /\ handed_in' = handed_in \ S /\ given_up' = given_up \cup S
  /\ UNCHANGED <<runs, done>>

Next ==
  \/ \E S \in SUBSET handed_in : GiveUp(S)
  \/ \E w \in Worker : Finish(w)
  \/ \E k \in Task : HandIn(k) \/ \E w \in Worker : Begin(w, k)

Spec == Init /\ [][Next]_vars
=============================================================================
