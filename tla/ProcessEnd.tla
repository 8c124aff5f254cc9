----------------------------- MODULE ProcessEnd -----------------------------
(***************************************************************************)
(* How the process ends: the registry of destructors (util/destructors.cpp)*)
(* that ~InitDeinit, std::quick_exit and std::terminate go through.  The   *)
(* initial state is behind the constructor of InitDeinit, that has called  *)
(* call_constructors and set_cleanup_handlers.                             *)
(*                                                                         *)
(* A destructor is what it does: "plain", "throws", or "adds", when it     *)
(* calls add_destructor itself.                                            *)
(***************************************************************************)
EXTENDS Integers, Sequences, FiniteSets

CONSTANTS
  Thread,             \* the threads that can end the process
  NoThread,           \* the owner of destructors_mutex when it is free
  FirstDestructors,   \* the destructors registered so far
  MaxDestructors      \* bound on the destructors registered

Kind == {"plain", "throws", "adds"}

ASSUME EndAssumption ==
  /\ NoThread \notin Thread
  /\ FirstDestructors \in Seq(Kind)
  /\ MaxDestructors \in Nat /\ Len(FirstDestructors) <= MaxDestructors

VARIABLES
  process,             \* "up", "exited" or "aborted"
  destructors,         \* the vector of destructors
  destructors_called,  \* a pass over them is complete
  destructors_mutex,   \* who holds it
  way,                 \* way[t]: how t ends the process, "none" when it does not
  at,                  \* at[t]: where t is in that
  next,                \* next[t]: the destructor t runs next
  torn,                \* the statics of the program are destroyed
  \* Not in the code:
  runs,                \* runs[i]: how often destructor i was run
  early,               \* the endings that began before a pass was complete
  complete             \* a pass was complete

registry == <<destructors, destructors_called, destructors_mutex>>
endVars == <<process, registry, way, at, next, torn, runs, early, complete>>

Way == {"exit", "quick_exit", "terminate"}
Index == 1 .. MaxDestructors

EndInit ==
  /\ process = "up"
  /\ destructors = FirstDestructors
  /\ destructors_called = FALSE
  /\ destructors_mutex = NoThread
  /\ way = [t \in Thread |-> "none"]
  /\ at = [t \in Thread |-> "out"]
  /\ next = [t \in Thread |-> 1]
  /\ torn = FALSE
  /\ runs = [i \in Index |-> 0]
  /\ early = {}
  /\ complete = FALSE

Running(t) == process = "up" /\ at[t] = "out"

\* The process is over, and with it every thread.
Over(how) ==
  /\ process' = how
  /\ UNCHANGED <<registry, way, at, next, torn, runs, early, complete>>

-----------------------------------------------------------------------------
(* Ways to end.                                                            *)

Begin(t, w) ==
  /\ way' = [way EXCEPT ![t] = w]
  /\ at' = [at EXCEPT ![t] = "look"]
  /\ UNCHANGED <<process, registry, next, torn, runs, early, complete>>

\* main returns, or std::exit, which only one thread may call.
Exit(t) ==
  /\ Running(t)
  /\ \A u \in Thread : way[u] # "exit"
  /\ Begin(t, "exit")

\* std::quick_exit calls its handler once: a second call ends the process.
QuickExit(t) ==
  /\ Running(t)
  /\ \A u \in Thread : way[u] # "quick_exit"
  /\ Begin(t, "quick_exit")

QuickExitAgain(t) ==
  /\ Running(t)
  /\ \E u \in Thread : way[u] = "quick_exit"
  /\ process' = "exited"
  /\ way' = [way EXCEPT ![t] = "quick_exit"]
  /\ UNCHANGED <<registry, at, next, torn, runs, early, complete>>

\* std::terminate calls its handler on every thread.
Terminate(t) == Running(t) /\ Begin(t, "terminate")

-----------------------------------------------------------------------------
(* call_destructors.                                                       *)

\* The flag is read before the mutex is locked, and not again.
Look(t) ==
  /\ process = "up" /\ at[t] = "look"
  /\ at' = [at EXCEPT ![t] = IF destructors_called THEN "after" ELSE "lock"]
  /\ early' = IF complete THEN early ELSE early \cup {t}
  /\ UNCHANGED <<process, registry, way, next, torn, runs, complete>>

Lock(t) ==
  /\ process = "up" /\ at[t] = "lock"
  /\ destructors_mutex = NoThread
  /\ destructors_mutex' = t
  /\ at' = [at EXCEPT ![t] = "run"]
  /\ next' = [next EXCEPT ![t] = 1]
  /\ UNCHANGED <<process, destructors, destructors_called, way, torn, runs, early, complete>>

InPass(t) == process = "up" /\ at[t] = "run" /\ next[t] <= Len(destructors)
Ran(t) == runs' = [runs EXCEPT ![next[t]] = @ + 1]

RunPlain(t) ==
  /\ InPass(t) /\ destructors[next[t]] = "plain"
  /\ Ran(t)
  /\ next' = [next EXCEPT ![t] = @ + 1]
  /\ UNCHANGED <<process, registry, way, at, torn, early, complete>>

\* add_destructor locks the mutex that its own thread holds.
RunAdds(t) ==
  /\ InPass(t) /\ destructors[next[t]] = "adds"
  /\ Ran(t)
  /\ at' = [at EXCEPT ![t] = "stuck"]
  /\ UNCHANGED <<process, registry, way, next, torn, early, complete>>

\* The handlers catch and abort.  ~InitDeinit is noexcept: it terminates, and
\* whether the lock is released on the way there is up to the implementation.
RunThrows(t) ==
  /\ InPass(t) /\ destructors[next[t]] = "throws"
  /\ Ran(t)
  /\ IF way[t] = "exit"
     THEN /\ way' = [way EXCEPT ![t] = "terminate"]
          /\ at' = [at EXCEPT ![t] = "look"]
          /\ destructors_mutex' \in {t, NoThread}
          /\ UNCHANGED process
     ELSE process' = "aborted" /\ UNCHANGED <<way, at, destructors_mutex>>
  /\ UNCHANGED <<destructors, destructors_called, next, torn, early, complete>>

\* A faulty variant: the pass is not marked.
PassUnmarked(t) ==
  /\ process = "up" /\ at[t] = "run" /\ next[t] > Len(destructors)
  /\ complete' = TRUE
  /\ destructors_mutex' = NoThread
  /\ at' = [at EXCEPT ![t] = "after"]
  /\ UNCHANGED <<process, destructors, destructors_called, way, next, torn, runs, early>>

\* The end of the pass: the flag is set under the mutex.
Pass(t) ==
  /\ process = "up" /\ at[t] = "run" /\ next[t] > Len(destructors)
  /\ destructors_called' = TRUE
  /\ complete' = TRUE
  /\ destructors_mutex' = NoThread
  /\ at' = [at EXCEPT ![t] = "after"]
  /\ UNCHANGED <<process, destructors, way, next, torn, runs, early>>

-----------------------------------------------------------------------------
(* Behind call_destructors.                                                *)

\* exit: the statics that were constructed before InitDeinit, the registry too.
TearDown(t) ==
  /\ process = "up" /\ at[t] = "after" /\ way[t] = "exit"
  /\ torn' = TRUE
  /\ at' = [at EXCEPT ![t] = "torn"]
  /\ UNCHANGED <<process, registry, way, next, runs, early, complete>>

Exited(t) ==
  /\ process = "up" /\ at[t] = "torn"
  /\ Over("exited")

\* A faulty variant: nothing behind the destructors aborts.
HandlerReturnsAlive(t) ==
  /\ process = "up" /\ at[t] = "after" /\ way[t] = "quick_exit"
  /\ Over("exited")

\* terminate aborts.  The handler of quick_exit returns, although it is declared
\* not to: the process exits or crashes.
HandlerReturns(t) ==
  /\ process = "up" /\ at[t] = "after" /\ way[t] # "exit"
  /\ \E how \in IF way[t] = "quick_exit" THEN {"exited", "aborted"} ELSE {"aborted"} :
       Over(how)

\* A pass over destructors that are destroyed may go on, or crash.
Crash(t) ==
  /\ process = "up" /\ torn /\ at[t] \in {"lock", "run"}
  /\ Over("aborted")

\* add_destructor, from outside of a destructor.
AddDestructor(t, kind) ==
  /\ Running(t) /\ ~torn
  /\ destructors_mutex = NoThread
  /\ Len(destructors) < MaxDestructors
  /\ destructors' = Append(destructors, kind)
  /\ UNCHANGED <<process, destructors_called, destructors_mutex, way, at, next, torn, runs, early, complete>>

End(t) ==
  \/ Look(t) \/ Lock(t) \/ RunPlain(t) \/ RunAdds(t) \/ RunThrows(t) \/ Pass(t)
  \/ TearDown(t) \/ Exited(t) \/ HandlerReturns(t)

-----------------------------------------------------------------------------
(* Properties *)

EndTypeOK ==
  /\ process \in {"up", "exited", "aborted"}
  /\ destructors \in Seq(Kind) /\ Len(destructors) <= MaxDestructors
  /\ destructors_called \in BOOLEAN
  /\ destructors_mutex \in Thread \cup {NoThread}
  /\ way \in [Thread -> Way \cup {"none"}]
  /\ at \in [Thread -> {"out", "look", "lock", "run", "stuck", "after", "torn"}]
  /\ next \in [Thread -> 1 .. MaxDestructors + 1]
  /\ torn \in BOOLEAN
  /\ runs \in [Index -> Nat]
  /\ early \in SUBSET Thread
  /\ complete \in BOOLEAN

Threw == \E i \in Index : runs[i] > 0 /\ i <= Len(destructors) /\ destructors[i] = "throws"

\* A destructor runs again only in endings that began before the first pass was
\* complete, once in each, or once more where one of them threw: the flag that is
\* read outside of the mutex stops every later ending.
RunsAgainOnlyTogether ==
  \A i \in Index : runs[i] <= Cardinality(early) + (IF Threw THEN 1 ELSE 0)

\* When the process is over, each destructor registered at its start has run,
\* unless one threw, or std::quick_exit was called a second time.
EndsAfterAllRan ==
  process # "up" => \/ \A i \in DOMAIN FirstDestructors : runs[i] > 0
                    \/ Threw
                    \/ \E t \in Thread : way[t] = "quick_exit" /\ at[t] = "out"

\* The destructors run, and only threads that end the process together run them
\* again.
DestructorsRun == EndTypeOK /\ RunsAgainOnlyTogether /\ EndsAfterAllRan

\* An ending that began ends the process, unless a thread is stuck in a
\* destructor that registers another, or one threw and left the mutex locked.
EndingEnds ==
  (\E t \in Thread : way[t] # "none") ~>
    process # "up" \/ Threw \/ \E t \in Thread : at[t] = "stuck"
=============================================================================
