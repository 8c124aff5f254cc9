------------------------------ MODULE ThreadPool ------------------------------
(***************************************************************************)
(* SupDef::ThreadPool: workers with a task queue each, which steal from    *)
(* each other, three tables (threads, task_queues, waiting_locations) and  *)
(* a RecursiveSharedMutex for each table.                                  *)
(*                                                                         *)
(* The mutexes count acquisitions by id, and ids can coincide (MutexIds):  *)
(* under a shared id only the first acquisition of a thread is real.       *)
(* Locking is one step here, whose parts RecursiveSharedMutex shows; the   *)
(* parts of a wait and of a push are in ThreadSafeQueue.  An operation     *)
(* goes from one lock or queue access to the next.  Task bodies end.       *)
(*                                                                         *)
(* Clients enqueue.  The owner is the thread that also adds and removes    *)
(* threads and destroys the pool, when nobody else is inside a call.       *)
(***************************************************************************)
EXTENDS Integers, Sequences, FiniteSets, Functions, SequencesExt

CONSTANTS
  Worker,        \* the threads the pool can have
  FirstThreads,  \* the threads of the constructor, in order
  Client,        \* threads that call the pool
  owner,         \* the client that also adds, removes and destroys
  NoThread,      \* the writer of a mutex nobody holds exclusively
  Id,            \* Id[m]: the id of the mutex m
  MaxTasks,      \* bound on the calls of enqueue
  Calls          \* the operations used

Mutexes == {"threads", "task_queues", "waiting_locations"}
AllCalls == {"enqueue", "size", "remove_threads", "add_threads", "destroy"}

ASSUME PoolAssumption ==
  /\ FirstThreads \in Seq(Worker) /\ FirstThreads # <<>> /\ IsInjective(FirstThreads)
  /\ owner \in Client /\ Client \cap Worker = {}
  /\ NoThread \notin Client \cup Worker
  /\ Id \in [Mutexes -> Int]
  /\ MaxTasks \in Nat
  /\ Calls \subseteq AllCalls

VARIABLES
  locks,              \* the three mutexes and the counts of the threads
  threads,            \* the vector of jthreads
  go,                 \* the workers that were told to go
  stop_token,         \* the workers of which stop was requested
  joined,             \* the workers that were joined: their jthread has no id
  task_queues,        \* the map from threads to queues of tasks
  queue_stop,         \* the queues of which stop was requested
  asleep,             \* asleep[q]: the workers asleep in the wait of queue q
  waiting_locations,  \* the map from threads to the queue they wait in
  pc,                 \* where a thread is
  best,               \* best[t]: the queue t has chosen, or the thread it stops
  seen,               \* seen[t]: the queues looked at by t in its search
  has_task,           \* has_task[t]: the task t runs or is enqueueing
  futures,            \* futures[k]: the state of the future of task k
  created,            \* how many tasks were made, by calls of enqueue
  result,             \* result[c]: how the last call of c ended
  failure             \* what stopped the program

tables == <<threads, go, joined>>
queues == <<task_queues, queue_stop>>
tasks == <<has_task, futures, created>>
places == <<asleep, waiting_locations>>
search == <<best, seen>>
vars == <<locks, tables, stop_token, queues, places, pc, search, tasks, result, failure>>

Thread == Worker \cup Client
Task == 1 .. MaxTasks
NoTask == -1
Nothing == 0   \* the task [](){} that request_thread_stop pushes

InitialWorkers == Range(FirstThreads)

\* After the constructor: it held the three mutexes, so no worker moved.
Init ==
  /\ locks = [writer |-> [m \in Mutexes |-> NoThread],
              readers |-> [m \in Mutexes |-> {}],
              mode |-> [m \in Mutexes |-> "None"],
              count |-> [t \in Thread |-> [i \in Range(Id) |-> 0]]]
  /\ threads = FirstThreads
  /\ go = InitialWorkers
  /\ stop_token = {}
  /\ joined = {}
  /\ task_queues = [w \in InitialWorkers |-> <<>>]
  /\ queue_stop = {}
  /\ asleep = [q \in Worker \cup {NoThread} |-> {}]
  /\ waiting_locations = [w \in InitialWorkers |-> w]
  /\ pc = [t \in Thread |-> IF t \in Client THEN "idle"
                            ELSE IF t \in InitialWorkers THEN "created" ELSE "none"]
  /\ best = [t \in Thread |-> FirstThreads[1]]
  /\ seen = [t \in Thread |-> {}]
  /\ has_task = [t \in Thread |-> NoTask]
  /\ futures = [k \in Task |-> "none"]
  /\ created = 0
  /\ result = [c \in Client |-> "none"]
  /\ failure = "none"

-----------------------------------------------------------------------------
(* The mutexes: L is a value of locks.  READ is shared, WRITE and           *)
(* READ_WRITE are exclusive.                                                *)

Holds(L, t, m) == L.count[t][Id[m]] > 0

Counted(L, t, m, n) == [L EXCEPT !.count[t][Id[m]] = @ + n]

\* A thread can have the mutex now, for good or because its id is counted.
CanRead(L, t, m) == Holds(L, t, m) \/ L.writer[m] = NoThread
CanWrite(L, t, m) ==
  IF Holds(L, t, m) THEN L.mode[m] # "Shared"
  ELSE L.writer[m] = NoThread /\ L.readers[m] = {}

\* lock(READ_WRITE) throws InternalError: the count says held, the mode shared.
Refused(L, t, m) == Holds(L, t, m) /\ L.mode[m] = "Shared"

Read(L, t, m) ==
  LET N == Counted(L, t, m, 1) IN
  IF Holds(L, t, m) THEN N
  ELSE [N EXCEPT !.readers[m] = @ \cup {t}, !.mode[m] = "Shared"]

Write(L, t, m) ==
  LET N == Counted(L, t, m, 1) IN
  IF Holds(L, t, m) THEN N
  ELSE [N EXCEPT !.writer[m] = t, !.mode[m] = "Exclusive"]

LastCount(L, t, m) == L.count[t][Id[m]] = 1

EndRead(L, t, m) ==
  LET N == Counted(L, t, m, -1) IN
  IF LastCount(L, t, m) THEN [N EXCEPT !.readers[m] = @ \ {t}] ELSE N

EndWrite(L, t, m) ==
  LET N == Counted(L, t, m, -1) IN
  IF LastCount(L, t, m) THEN [N EXCEPT !.writer[m] = NoThread, !.mode[m] = "None"] ELSE N

-----------------------------------------------------------------------------
(* Helpers *)

Alive == failure = "none"

\* enqueue, remove_threads and get_next_task look for a queue.
Searching == {"search_most_busy", "search_least_busy", "search_idle"}

Goto(t, from, to) == Alive /\ pc[t] = from /\ pc' = [pc EXCEPT ![t] = to]

Returns(c, r) == result' = [result EXCEPT ![c] = r]

Chooses(t, w) == best' = [best EXCEPT ![t] = w]

\* thread.get_id() of an element of threads, NoThread once it was joined.
GetId(w) == IF w \in joined THEN NoThread ELSE w

\* get_most_busy_thread and get_least_busy_thread start from threads.at(0).
StartSearch(t) ==
  /\ Chooses(t, GetId(threads[1]))
  /\ seen' = [seen EXCEPT ![t] = {}]

\* A program that dies does so wherever its threads are.
Dies(why) ==
  /\ failure' = why
  /\ UNCHANGED <<locks, tables, stop_token, queues, places, pc, search, tasks, result>>

\* The loop condition of thread_main, at the end of an iteration.
Iterate(w, from) == Goto(w, from, IF w \in stop_token THEN "exited" ELSE "loop")

-----------------------------------------------------------------------------
(* thread_main and get_next_task *)

\* A new worker locks threads, to wait for its go signal.
Start(w) ==
  /\ Goto(w, "created", "spin")
  /\ CanRead(locks, w, "threads")
  /\ locks' = Read(locks, w, "threads")
  /\ UNCHANGED <<tables, stop_token, queues, places, search, tasks, result, failure>>

Go(w) ==
  /\ Goto(w, "spin", "loop")
  /\ w \in go
  /\ locks' = EndRead(locks, w, "threads")
  /\ UNCHANGED <<tables, stop_token, queues, places, search, tasks, result, failure>>

\* get_next_task locks task_queues and looks into the worker's own queue.
GetNextTask(w) ==
  /\ pc[w] = "loop"
  /\ CanRead(locks, w, "task_queues")
  /\ locks' = Read(locks, w, "task_queues")
  /\ IF task_queues[w] = <<>>
     THEN Goto(w, "loop", "most_busy") /\ UNCHANGED best
     ELSE Goto(w, "loop", "write_location") /\ Chooses(w, w)
  /\ UNCHANGED <<tables, stop_token, queues, places, seen, tasks, result, failure>>

\* get_most_busy_thread: the lock of threads, and the search.
MostBusy(w) ==
  /\ Goto(w, "most_busy", "search_most_busy")
  /\ CanRead(locks, w, "threads")
  /\ locks' = Read(locks, w, "threads")
  /\ StartSearch(w)
  /\ UNCHANGED <<tables, stop_token, queues, places, tasks, result, failure>>

\* A queue is compared with the best so far.  Queues change meanwhile: their
\* owners pop without the mutex of the table.
Compare(t) ==
  /\ Alive /\ pc[t] \in Searching
  /\ best[t] \in DOMAIN task_queues
  /\ \E q \in DOMAIN task_queues \ seen[t] :
       LET here == Len(task_queues[q])
           there == Len(task_queues[best[t]])
           better == IF pc[t] = "search_most_busy" THEN here > there ELSE here < there
       IN  /\ seen' = [seen EXCEPT ![t] = @ \cup {q}]
           /\ best' = IF better THEN [best EXCEPT ![t] = q] ELSE best
  /\ UNCHANGED <<locks, tables, stop_token, queues, places, pc, tasks, result, failure>>

Searched(t) == DOMAIN task_queues \subseteq seen[t]

\* The search has ended: a queue that is still not empty is stolen from.
\* (The mutex of threads was released at the end of the search.)
Steal(w) ==
  /\ Goto(w, "search_most_busy", "write_location")
  /\ Searched(w)
  /\ locks' = EndRead(locks, w, "threads")
  /\ Chooses(w, IF task_queues[best[w]] = <<>> THEN w ELSE best[w])
  /\ UNCHANGED <<tables, stop_token, queues, places, seen, tasks, result, failure>>

\* Faulty variant: the location is not updated when stealing.
WriteLocationOwn(w) ==
  /\ Goto(w, "write_location", "wait")
  /\ CanWrite(locks, w, "waiting_locations")
  /\ waiting_locations' = [waiting_locations EXCEPT ![w] = w]
  /\ locks' = EndRead(EndWrite(Write(locks, w, "waiting_locations"), w, "waiting_locations"),
                      w, "task_queues")
  /\ UNCHANGED <<tables, stop_token, queues, asleep, search, tasks, result, failure>>

\* waiting_locations[this thread] is set, and both mutexes released.
WriteLocation(w) ==
  /\ Goto(w, "write_location", "wait")
  /\ CanWrite(locks, w, "waiting_locations")
  /\ waiting_locations' = [waiting_locations EXCEPT ![w] = best[w]]
  /\ locks' = EndRead(EndWrite(Write(locks, w, "waiting_locations"), w, "waiting_locations"),
                      w, "task_queues")
  /\ UNCHANGED <<tables, stop_token, queues, asleep, search, tasks, result, failure>>

\* The queue a worker waits in.  It may be gone: see Dangling.
At(w) == best[w]
Exists(q) == q \in DOMAIN task_queues

\* wait_for_next_or on an empty queue, without a stop: the worker sleeps.
Sleep(w) ==
  LET q == At(w) IN
  /\ Goto(w, "wait", "asleep")
  /\ Exists(q) /\ task_queues[q] = <<>> /\ q \notin queue_stop /\ w \notin stop_token
  /\ asleep' = [asleep EXCEPT ![q] = @ \cup {w}]
  /\ UNCHANGED <<locks, tables, stop_token, queues, waiting_locations, search, tasks, result, failure>>

\* A worker leaves its sleep once it was notified.
WakeUp(w) ==
  /\ Goto(w, "asleep", "wait")
  /\ Exists(At(w)) /\ w \notin asleep[At(w)]
  /\ UNCHANGED <<locks, tables, stop_token, queues, places, search, tasks, result, failure>>

\* A stop of the queue or of the thread makes the wait throw StopRequired.
StopRequired(w) ==
  /\ Exists(At(w))
  /\ At(w) \in queue_stop \/ w \in stop_token
  /\ Iterate(w, "wait")
  /\ UNCHANGED <<locks, tables, stop_token, queues, places, search, tasks, result, failure>>

\* Faulty variant: the task stays at the front of the queue.
TakeCopies(w) ==
  LET q == At(w) IN
  /\ Goto(w, "wait", "running")
  /\ Exists(q) /\ q \notin queue_stop /\ w \notin stop_token /\ task_queues[q] # <<>>
  /\ has_task' = [has_task EXCEPT ![w] = Head(task_queues[q])]
  /\ UNCHANGED <<locks, tables, stop_token, queues, places, search, futures, created, result, failure>>

Take(w) ==
  LET q == At(w) IN
  /\ Goto(w, "wait", "running")
  /\ Exists(q) /\ q \notin queue_stop /\ w \notin stop_token /\ task_queues[q] # <<>>
  /\ has_task' = [has_task EXCEPT ![w] = Head(task_queues[q])]
  /\ task_queues' = [task_queues EXCEPT ![q] = Tail(@)]
  /\ UNCHANGED <<locks, tables, stop_token, queue_stop, places, search, futures, created, result, failure>>

\* The task ends and sets its promise, with a value or an exception.
Finish(w) ==
  /\ Iterate(w, "running")
  /\ futures' = IF has_task[w] = Nothing THEN futures
                ELSE [futures EXCEPT ![has_task[w]] = "ready"]
  /\ has_task' = [has_task EXCEPT ![w] = NoTask]
  /\ UNCHANGED <<locks, tables, stop_token, queues, places, search, created, result, failure>>

\* A condition variable may wake a worker for no reason.
SpuriousWakeUp(w) ==
  /\ Alive /\ pc[w] = "asleep" /\ w \in asleep[At(w)]
  /\ asleep' = [asleep EXCEPT ![At(w)] = @ \ {w}]
  /\ UNCHANGED <<locks, tables, stop_token, queues, waiting_locations, pc, search, tasks, result, failure>>

\* A worker inside the wait of a queue that was erased uses freed memory.
Dangling(w) ==
  /\ Alive
  /\ ~Exists(At(w))
  /\ pc[w] = "wait" \/ (pc[w] = "asleep" /\ w \notin asleep[At(w)])
  /\ Dies("dangling queue")

-----------------------------------------------------------------------------
(* enqueue *)

\* No call is made once the destructor has begun.
Destroying == result[owner] = "destroying"

Calling(c, call, first) ==
  call \in Calls /\ ~Destroying /\ Goto(c, "idle", first) /\ Returns(c, "none")

\* The task is made, with its promise.
Enqueue(c) ==
  /\ Calling(c, "enqueue", "lock_locations")
  /\ created < MaxTasks
  /\ created' = created + 1
  /\ has_task' = [has_task EXCEPT ![c] = created + 1]
  /\ UNCHANGED <<locks, tables, stop_token, queues, places, search, futures, failure>>

\* Faulty variant: enqueue locks threads first, as the constructor does.
LockThreadsFirst(c) ==
  /\ Goto(c, "lock_locations", "lock_queues")
  /\ CanWrite(locks, c, "threads")
  /\ locks' = Write(locks, c, "threads")
  /\ UNCHANGED <<tables, stop_token, queues, places, search, tasks, result, failure>>

LockLocations(c) ==
  /\ Goto(c, "lock_locations", "lock_queues")
  /\ CanWrite(locks, c, "waiting_locations")
  /\ locks' = Write(locks, c, "waiting_locations")
  /\ UNCHANGED <<tables, stop_token, queues, places, search, tasks, result, failure>>

LockQueues(c) ==
  /\ Goto(c, "lock_queues", "lock_threads")
  /\ CanWrite(locks, c, "task_queues")
  /\ locks' = Write(locks, c, "task_queues")
  /\ UNCHANGED <<tables, stop_token, queues, places, search, tasks, result, failure>>

\* get_least_busy_thread follows; its own locks only raise counts.
LockThreads(c) ==
  /\ Goto(c, "lock_threads", "search_least_busy")
  /\ CanWrite(locks, c, "threads")
  /\ locks' = Write(locks, c, "threads")
  /\ StartSearch(c)
  /\ UNCHANGED <<tables, stop_token, queues, places, tasks, result, failure>>

\* The guards of enqueue are released in the reverse order.
Release1(L, c) == EndWrite(L, c, "waiting_locations")

\* Faulty variant: one guard is forgotten.
Release2Keeps(L, c) == EndWrite(L, c, "task_queues")

Release2(L, c) == Release1(EndWrite(L, c, "task_queues"), c)
Release3(L, c) == Release2(EndWrite(L, c, "threads"), c)

\* A lock that takes itself for an upgrade throws, and so does a search whose
\* best queue is not in the table.  The task is destroyed with the call.
EnqueueThrows(c) ==
  /\ \/ /\ Refused(locks, c, "task_queues")
        /\ Goto(c, "lock_queues", "idle")
        /\ locks' = Release1(locks, c)
     \/ /\ Refused(locks, c, "threads")
        /\ Goto(c, "lock_threads", "idle")
        /\ locks' = Release2(locks, c)
     \/ /\ ~Searched(c) /\ ~Exists(best[c])
        /\ Goto(c, "search_least_busy", "idle")
        /\ locks' = Release3(locks, c)
  /\ Returns(c, "InternalError")
  /\ has_task' = [has_task EXCEPT ![c] = NoTask]
  /\ UNCHANGED <<tables, stop_token, queues, places, search, futures, created, failure>>

\* Faulty variant: nobody is notified.
NotifyNobody(q) == UNCHANGED asleep

\* notify_one wakes one of the workers asleep in the queue, if any.
NotifyOne(q) ==
  \/ asleep[q] = {} /\ UNCHANGED asleep
  \/ \E w \in asleep[q] : asleep' = [asleep EXCEPT ![q] = @ \ {w}]

\* An insertion into a map keeps the entry that is there.
Inserted(f, x, y) == [z \in DOMAIN f \cup {x} |-> IF z \in DOMAIN f THEN f[z] ELSE y]

\* operator[] makes a queue that is not there.
Pushed(q, k) ==
  IF Exists(q) THEN [task_queues EXCEPT ![q] = Append(@, k)]
  ELSE Inserted(task_queues, q, <<k>>)

\* The task is pushed to the queue found, and enqueue returns the future.
Push(c) ==
  LET q == best[c] IN
  /\ Goto(c, "search_least_busy", "idle")
  /\ Searched(c)
  /\ task_queues' = Pushed(q, has_task[c])
  /\ futures' = [futures EXCEPT ![has_task[c]] = "pending"]
  /\ has_task' = [has_task EXCEPT ![c] = NoTask]
  /\ NotifyOne(q)
  /\ locks' = Release3(locks, c)
  /\ Returns(c, "future")
  /\ UNCHANGED <<tables, stop_token, queue_stop, waiting_locations, search, created, failure>>

-----------------------------------------------------------------------------
(* size, try_remove_threads and remove_threads *)

Size(c) ==
  /\ "size" \in Calls /\ Alive /\ pc[c] = "idle" /\ ~Destroying
  /\ CanRead(locks, c, "threads")
  /\ locks' = EndRead(Read(locks, c, "threads"), c, "threads")
  /\ UNCHANGED <<tables, stop_token, queues, places, pc, search, tasks, result, failure>>

\* One thread is to be removed: the least busy one, if it is idle.
RemoveThreads ==
  /\ Calling(owner, "remove_threads", "least_busy")
  /\ UNCHANGED <<locks, tables, stop_token, queues, places, search, tasks, failure>>

LeastBusyQueues ==
  /\ Goto(owner, "least_busy", "least_busy_threads")
  /\ CanRead(locks, owner, "task_queues")
  /\ locks' = Read(locks, owner, "task_queues")
  /\ UNCHANGED <<tables, stop_token, queues, places, search, tasks, result, failure>>

LeastBusyThreads ==
  /\ Goto(owner, "least_busy_threads", "search_idle")
  /\ CanRead(locks, owner, "threads")
  /\ locks' = Read(locks, owner, "threads")
  /\ StartSearch(owner)
  /\ UNCHANGED <<tables, stop_token, queues, places, tasks, result, failure>>

LeastBusyFound ==
  /\ Goto(owner, "search_idle", "check_idle")
  /\ Searched(owner)
  /\ locks' = EndRead(EndRead(locks, owner, "threads"), owner, "task_queues")
  /\ UNCHANGED <<tables, stop_token, queues, places, search, tasks, result, failure>>

\* The queue is looked at once more, under the mutex of the table.  One that
\* is not empty makes remove_threads throw and try_remove_threads return
\* false.
CheckIdle ==
  /\ pc[owner] = "check_idle"
  /\ CanRead(locks, owner, "task_queues")
  /\ locks' = EndRead(Read(locks, owner, "task_queues"), owner, "task_queues")
  /\ IF task_queues[best[owner]] = <<>>
     THEN Goto(owner, "check_idle", "find_thread") /\ UNCHANGED result
     ELSE Goto(owner, "check_idle", "idle") /\ Returns(owner, "not idle")
  /\ UNCHANGED <<tables, stop_token, queues, places, search, tasks, failure>>

-----------------------------------------------------------------------------
(* request_thread_stop, of the thread best[owner] *)

\* get_thread_from_id finds the thread, under the mutex of threads, and its
\* stop is requested.  Nobody is notified.
FindThread ==
  /\ Goto(owner, "find_thread", "join")
  /\ CanRead(locks, owner, "threads")
  /\ locks' = EndRead(Read(locks, owner, "threads"), owner, "threads")
  /\ stop_token' = stop_token \cup {best[owner]}
  /\ UNCHANGED <<tables, queues, places, search, tasks, result, failure>>

\* join() returns when the thread has ended; its jthread has no id from now.
Join ==
  /\ Goto(owner, "join", "stop_location")
  /\ pc[best[owner]] = "exited"
  /\ joined' = joined \cup {best[owner]}
  /\ UNCHANGED <<locks, threads, go, stop_token, queues, places, search, tasks, result, failure>>

\* waiting_where refers to the entry that is erased: what it holds later is
\* not known.
StopLocation ==
  /\ Goto(owner, "stop_location", "stop_queue")
  /\ CanWrite(locks, owner, "waiting_locations")
  /\ waiting_locations' = Restrict(waiting_locations, DOMAIN waiting_locations \ {best[owner]})
  /\ locks' = EndWrite(Write(locks, owner, "waiting_locations"), owner, "waiting_locations")
  /\ UNCHANGED <<tables, stop_token, queues, asleep, search, tasks, result, failure>>

\* Faulty variant: another queue gets what lies in this one, which keeps it.
StopQueueCopies ==
  LET w == best[owner] IN
  /\ Goto(owner, "stop_queue", "erase_queue")
  /\ CanWrite(locks, owner, "task_queues")
  /\ locks' = Write(locks, owner, "task_queues")
  /\ queue_stop' = queue_stop \cup {w}
  /\ \E q \in DOMAIN task_queues \ {w} :
       /\ asleep' = [asleep EXCEPT ![w] = {}, ![q] = {}]
       /\ task_queues' = [task_queues EXCEPT ![q] = @ \o task_queues[w]]
  /\ UNCHANGED <<tables, stop_token, waiting_locations, search, tasks, result, failure>>

\* The queue of the thread is stopped.  If waiting_where names another queue
\* that exists, that one gets a task that does nothing, and all are notified.
StopQueue ==
  LET w == best[owner] IN
  /\ Goto(owner, "stop_queue", "erase_queue")
  /\ CanWrite(locks, owner, "task_queues")
  /\ locks' = Write(locks, owner, "task_queues")
  /\ queue_stop' = queue_stop \cup {w}
  /\ \/ /\ asleep' = [asleep EXCEPT ![w] = {}]
        /\ UNCHANGED task_queues
     \/ \E q \in DOMAIN task_queues \ {w} :
          /\ asleep' = [asleep EXCEPT ![w] = {}, ![q] = {}]
          /\ task_queues' = [task_queues EXCEPT ![q] = Append(@, Nothing)]
  /\ UNCHANGED <<tables, stop_token, waiting_locations, search, tasks, result, failure>>

\* The queue is destroyed: the promises of the tasks in it are broken.
EraseQueue ==
  LET w == best[owner] IN
  /\ Goto(owner, "erase_queue", "erase_thread")
  /\ futures' = [k \in Task |-> IF Contains(task_queues[w], k) THEN "broken" ELSE futures[k]]
  /\ task_queues' = Restrict(task_queues, DOMAIN task_queues \ {w})
  /\ locks' = EndWrite(locks, owner, "task_queues")
  /\ UNCHANGED <<tables, stop_token, queue_stop, places, search, has_task, created, result, failure>>

\* The elements of threads whose id is the thread's: none, since a jthread
\* that was joined has no id.
SameId(w) == {x \in Range(threads) : GetId(x) = w}

EraseThread ==
  /\ Alive
  /\ pc[owner] = "erase_thread"
  /\ CanWrite(locks, owner, "threads")
  /\ IF Cardinality(SameId(best[owner])) # 1
     THEN Dies("hard_assert ret_size_t == 1")
     ELSE /\ threads' = SelectSeq(threads, LAMBDA x : x \notin SameId(best[owner]))
          /\ pc' = [pc EXCEPT ![owner] = IF Destroying THEN "destroy" ELSE "idle"]
          /\ UNCHANGED <<locks, go, joined, stop_token, queues, places, search, tasks, result, failure>>

-----------------------------------------------------------------------------
(* ~ThreadPool *)

\* Under the mutex of threads the ids are collected.
Destroy ==
  /\ "destroy" \in Calls /\ ~Destroying
  /\ Goto(owner, "idle", "destroy")
  /\ \A c \in Client : pc[c] = "idle"
  /\ CanWrite(locks, owner, "threads")
  /\ locks' = EndWrite(Write(locks, owner, "threads"), owner, "threads")
  /\ Returns(owner, "destroying")
  /\ UNCHANGED <<tables, stop_token, queues, places, search, tasks, failure>>

\* request_thread_stop of one of them.  It never comes back (EraseThread), so
\* what the destructor does later is not modelled.
DestroyNext ==
  /\ \E w \in Range(threads) : Goto(owner, "destroy", "find_thread") /\ Chooses(owner, w)
  /\ UNCHANGED <<locks, tables, stop_token, queues, places, seen, tasks, result, failure>>

-----------------------------------------------------------------------------
(* add_threads *)

AddThreads ==
  /\ Calling(owner, "add_threads", "add_threads")
  /\ UNCHANGED <<locks, tables, stop_token, queues, places, search, tasks, failure>>

AddLock ==
  /\ \E step \in {<<"add_threads", "threads", "add_queues">>,
                  <<"add_queues", "task_queues", "add_locations">>,
                  <<"add_locations", "waiting_locations", "add_loop">>} :
       /\ Goto(owner, step[1], step[3])
       /\ CanWrite(locks, owner, step[2])
       /\ locks' = Write(locks, owner, step[2])
  /\ UNCHANGED <<tables, stop_token, queues, places, search, tasks, result, failure>>

\* The bound of the loop is recomputed from threads.size(), which grows with
\* every thread that is added: the loop goes on while threads can be made.
AddThread ==
  /\ Alive /\ pc[owner] = "add_loop"
  /\ \E w \in {u \in Worker : pc[u] = "none"} :
       /\ threads' = Append(threads, w)
       /\ task_queues' = Inserted(task_queues, w, <<>>)
       /\ waiting_locations' = Inserted(waiting_locations, w, w)
       /\ pc' = [pc EXCEPT ![w] = "created"]
  /\ UNCHANGED <<locks, go, joined, stop_token, queue_stop, asleep, search, tasks, result, failure>>

\* No more threads can be made: InternalError, before any go signal.
AddThreadFails ==
  /\ Goto(owner, "add_loop", "idle")
  /\ \A w \in Worker : pc[w] # "none"
  /\ Returns(owner, "InternalError")
  /\ locks' = EndWrite(EndWrite(EndWrite(locks, owner, "waiting_locations"),
                                owner, "task_queues"), owner, "threads")
  /\ UNCHANGED <<tables, stop_token, queues, places, search, tasks, failure>>

-----------------------------------------------------------------------------
(* get_access and release_access end in UNREACHABLE(), which a call that     *)
(* locked or released its mutex runs into: the program may die there.        *)
RunsIntoUnreachable(t) ==
  /\ Alive
  /\ pc[t] \in {"spin", "most_busy", "write_location", "lock_queues", "least_busy_threads", "add_queues"}
  /\ Dies("unreachable")

OfWorker(w) ==
  \/ Start(w) \/ Go(w) \/ GetNextTask(w) \/ MostBusy(w) \/ Compare(w) \/ Steal(w)
  \/ WriteLocation(w) \/ Sleep(w) \/ WakeUp(w) \/ StopRequired(w) \/ Take(w) \/ Finish(w)

OfClient(c) ==
  \/ LockLocations(c) \/ LockQueues(c) \/ LockThreads(c) \/ Compare(c) \/ Push(c)
  \/ EnqueueThrows(c)

OfOwner ==
  \/ LeastBusyQueues \/ LeastBusyThreads \/ LeastBusyFound \/ CheckIdle
  \/ FindThread \/ Join \/ StopLocation \/ StopQueue \/ EraseQueue \/ EraseThread
  \/ DestroyNext \/ AddLock \/ AddThread \/ AddThreadFails

Next ==
  \/ \E w \in Worker : OfWorker(w) \/ SpuriousWakeUp(w) \/ Dangling(w)
  \/ \E c \in Client : Enqueue(c) \/ OfClient(c) \/ Size(c)
  \/ OfOwner \/ RemoveThreads \/ Destroy \/ AddThreads
  \/ \E t \in Thread : RunsIntoUnreachable(t)

Spec == Init /\ [][Next]_vars

\* A thread inside a call goes on; a mutex that is free again and again is
\* obtained in the end; task bodies end.  Nobody owes a call or a spurious
\* wake-up, and a program need not die.
Fairness ==
  /\ \A w \in Worker : SF_vars(OfWorker(w))
  /\ \A c \in Client : SF_vars(OfClient(c))
  /\ SF_vars(OfOwner)

FairSpec == Spec /\ Fairness

-----------------------------------------------------------------------------
(* Properties *)

Queue == Worker \cup {NoThread}

\* Every variable keeps its type, and tables have entries of known threads.
TypeOK ==
  /\ locks \in [writer : [Mutexes -> Thread \cup {NoThread}],
                readers : [Mutexes -> SUBSET Thread],
                mode : [Mutexes -> {"None", "Exclusive", "Shared"}],
                count : [Thread -> [Range(Id) -> Nat]]]
  /\ threads \in Seq(Worker)
  /\ \A S \in {go, stop_token, joined} : S \subseteq Range(threads)
  /\ queue_stop \subseteq Queue
  /\ DOMAIN task_queues \subseteq Queue
  /\ \A q \in DOMAIN task_queues : task_queues[q] \in Seq(Task \cup {Nothing})
  /\ asleep \in [Queue -> SUBSET {w \in Worker : pc[w] = "asleep"}]
  /\ DOMAIN waiting_locations \subseteq Range(threads)
  /\ Range(waiting_locations) \subseteq Queue
  /\ best \in [Thread -> Queue] /\ seen \in [Thread -> SUBSET Queue]
  /\ has_task \in [Thread -> Task \cup {Nothing, NoTask}]
  /\ futures \in [Task -> {"none", "pending", "ready", "broken"}]
  /\ created \in 0 .. MaxTasks

\* A task whose future is pending is in one place, once: it is never lost, run
\* twice or kept after it ran, whatever workers steal from each other.
PendingInOnePlace ==
  \A k \in Task :
    LET queued == {q \in DOMAIN task_queues : Contains(task_queues[q], k)}
        having == {t \in Thread : has_task[t] = k}
    IN  /\ futures[k] = "pending" => Cardinality(queued) + Cardinality(having) = 1
        /\ futures[k] \in {"ready", "broken"} => queued = {} /\ having = {}
        /\ \A q \in queued : Cardinality({i \in DOMAIN task_queues[q] : task_queues[q][i] = k}) = 1

\* waiting_locations tells in which queue a worker waits, which is what a
\* stop of that worker reads to wake it there.
WaitsWhereItSays ==
  \A w \in Worker :
    pc[w] \in {"wait", "asleep"} =>
      w \in DOMAIN waiting_locations /\ waiting_locations[w] = At(w)

\* The tables of the pool can be trusted: their entries are those of threads that
\* exist, and where a worker waits is known to whoever stops it.
TablesAreTrue == TypeOK /\ WaitsWhereItSays

\* What the threads at a lock want.
Requests ==
  [created |-> <<"threads", "READ">>, loop |-> <<"task_queues", "READ">>,
   most_busy |-> <<"threads", "READ">>, write_location |-> <<"waiting_locations", "WRITE">>,
   lock_locations |-> <<"waiting_locations", "WRITE">>, lock_queues |-> <<"task_queues", "WRITE">>,
   lock_threads |-> <<"threads", "WRITE">>, least_busy |-> <<"task_queues", "READ">>,
   least_busy_threads |-> <<"threads", "READ">>, check_idle |-> <<"task_queues", "READ">>,
   find_thread |-> <<"threads", "READ">>, stop_location |-> <<"waiting_locations", "WRITE">>,
   stop_queue |-> <<"task_queues", "WRITE">>, erase_thread |-> <<"threads", "WRITE">>,
   add_threads |-> <<"threads", "WRITE">>, add_queues |-> <<"task_queues", "WRITE">>,
   add_locations |-> <<"waiting_locations", "WRITE">>]

Blockers(t) ==
  IF pc[t] \notin DOMAIN Requests \/ Holds(locks, t, Requests[pc[t]][1]) THEN {}
  ELSE LET m == Requests[pc[t]][1] IN
       ({locks.writer[m]} \ {NoThread})
         \cup (IF Requests[pc[t]][2] = "READ" THEN {} ELSE locks.readers[m])

\* No threads wait for each other in a circle, although enqueue,
\* get_next_task and the removal of threads nest the mutexes in different
\* orders.  add_threads has a fourth order and is left out: it locks threads
\* before task_queues, where a worker that searches does the reverse.
NoLockCycle ==
  LET blockers == [t \in Thread |-> Blockers(t)]
      stuck == {t \in Thread : blockers[t] # {} /\ pc[t] \notin {"add_queues", "add_locations"}}
  IN  \A S \in SUBSET stuck : S # {} => \E t \in S : blockers[t] \cap S = {}

\* Which task a worker runs, if it runs one of the clients'.
Runs == [w \in Worker |-> IF has_task[w] \in Task THEN has_task[w] ELSE NoTask]

Promised ==
  INSTANCE TaskPool
    WITH handed_in <- {k \in Task : futures[k] = "pending" /\ \A w \in Worker : has_task[w] # k},
         runs <- Runs,
         done <- {k \in Task : futures[k] = "ready"},
         given_up <- {k \in Task : futures[k] = "broken"}

\* For its clients the pool is one of tasks that are begun once, by one worker, which
\* ends them; none is given up that was begun, whatever workers steal and whichever
\* are removed.
ImplementsTaskPool == Promised!Spec

\* A task that was accepted runs in the end, whichever worker it was given
\* to and wherever the workers sleep.
AcceptedTasksRun ==
  \A k \in Task : futures[k] = "pending" ~> (futures[k] = "ready" \/ ~Alive)

\* enqueue comes back, with a future or an exception.
EnqueueReturns ==
  \A c \in Client \ {owner} : pc[c] # "idle" ~> (pc[c] = "idle" \/ ~Alive)
=============================================================================
