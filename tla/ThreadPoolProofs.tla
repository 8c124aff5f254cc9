-------------------------- MODULE ThreadPoolProofs --------------------------
(***************************************************************************)
(* Proofs about ThreadPool, for any workers, clients, tasks and ids.       *)
(***************************************************************************)
EXTENDS ThreadPool, FiniteSetTheorems, TLAPS

-----------------------------------------------------------------------------
(* Where a thread can be                                                   *)

WorkerPlace ==
  {"none", "created", "spin", "loop", "most_busy", "search_most_busy", "write_location", "wait",
   "asleep", "running", "exited"}

Enqueueing == {"lock_locations", "lock_queues", "lock_threads", "search_least_busy"}

\* From here on the thread that is removed is chosen, is ended, has no queue to wait in
\* and no queue.
Removing == {"find_thread", "join", "stop_location", "stop_queue", "erase_queue", "erase_thread"}
Ended == {"stop_location", "stop_queue", "erase_queue", "erase_thread"}
Unplaced == {"stop_queue", "erase_queue", "erase_thread"}

OwnerPlace ==
  Removing \cup
  {"least_busy", "least_busy_threads", "search_idle", "check_idle", "destroy",
   "add_threads", "add_queues", "add_locations", "add_loop"}

Place == WorkerPlace \cup {"idle"} \cup Enqueueing \cup OwnerPlace

PlacesOK ==
  /\ pc \in [Thread -> Place]
  /\ \A w \in Worker : pc[w] \in WorkerPlace
  /\ \A c \in Client : pc[c] \in {"idle"} \cup Enqueueing \/ (c = owner /\ pc[c] \in OwnerPlace)

-----------------------------------------------------------------------------
(* The mutexes: what a thread has locked follows from where it is.         *)

\* The mutex m is locked in the code from here to there.  (No thread stays at
\* "location_written": it is where WriteLocation has both its mutexes.)
CountedAt(m) ==
  CASE m = "threads" ->
         {"spin", "search_most_busy", "search_idle", "search_least_busy", "add_queues",
          "add_locations", "add_loop"}
    [] m = "task_queues" ->
         {"most_busy", "search_most_busy", "write_location", "location_written",
          "least_busy_threads", "search_idle", "lock_threads", "search_least_busy", "erase_queue",
          "add_locations", "add_loop"}
    [] m = "waiting_locations" ->
         {"lock_queues", "lock_threads", "search_least_busy", "add_loop", "location_written"}

Same(m, n) == Id[m] = Id[n]
Unless(condition, there) == IF condition THEN {} ELSE there

\* It is really locked unless another one with its id was before it.
ReadAt(m) ==
  CASE m = "threads" ->
         {"spin"} \cup Unless(Same("threads", "task_queues"), {"search_most_busy", "search_idle"})
    [] m = "task_queues" ->
         {"most_busy", "search_most_busy", "write_location", "location_written",
          "least_busy_threads", "search_idle"}
    [] m = "waiting_locations" -> {}

WrittenAt(m) ==
  CASE m = "threads" ->
         {"add_queues", "add_locations", "add_loop"} \cup
         Unless(Same("threads", "task_queues") \/ Same("threads", "waiting_locations"),
                {"search_least_busy"})
    [] m = "task_queues" ->
         {"erase_queue"} \cup
         Unless(Same("task_queues", "waiting_locations"), {"lock_threads", "search_least_busy"}) \cup
         Unless(Same("task_queues", "threads"), {"add_locations", "add_loop"})
    [] m = "waiting_locations" ->
         {"lock_queues", "lock_threads", "search_least_busy"} \cup
         Unless(Same("waiting_locations", "threads") \/ Same("waiting_locations", "task_queues"),
                {"add_loop"}) \cup
         Unless(Same("waiting_locations", "task_queues"), {"location_written"})

\* How often the id i is counted at place p.
OneIf(condition) == IF condition THEN 1 ELSE 0
CountAt(p, i) ==
  OneIf(p \in CountedAt("threads") /\ Id["threads"] = i)
  + OneIf(p \in CountedAt("task_queues") /\ Id["task_queues"] = i)
  + OneIf(p \in CountedAt("waiting_locations") /\ Id["waiting_locations"] = i)

LocksOK(L) ==
  L \in [writer : [Mutexes -> Thread \cup {NoThread}],
         readers : [Mutexes -> SUBSET Thread],
         mode : [Mutexes -> {"None", "Exclusive", "Shared"}],
         count : [Thread -> [Range(Id) -> Nat]]]

\* L is the state of the mutexes when each thread t is at P[t].
Follows(L, P) ==
  /\ LocksOK(L)
  /\ \A t \in Thread, m \in Mutexes :
       /\ L.writer[m] = t <=> P[t] \in WrittenAt(m)
       /\ t \in L.readers[m] <=> P[t] \in ReadAt(m)
  /\ \A t \in Thread, i \in Range(Id) : L.count[t][i] = CountAt(P[t], i)

LocksFollow == PlacesOK /\ Follows(locks, pc)

-----------------------------------------------------------------------------
(* The tables                                                              *)

NoLonger(there) == IF pc[owner] \in there THEN {best[owner]} ELSE {}

TablesOK ==
  /\ threads \in Seq(Worker) /\ threads # <<>>
  /\ go \subseteq Range(threads) /\ stop_token \subseteq Range(threads)
  /\ queue_stop \subseteq Queue
  /\ DOMAIN task_queues \subseteq Queue
  /\ asleep \in [Queue -> SUBSET Worker]
  /\ waiting_locations \in [DOMAIN waiting_locations -> Queue]
  /\ best \in [Thread -> Queue] /\ seen \in [Thread -> SUBSET Queue]

\* The tables have entries for the threads there are, but for the one that is removed.
EntriesAreThreads ==
  /\ \A w \in Worker : w \in Range(threads) <=> pc[w] # "none"
  /\ joined = NoLonger(Ended)
  /\ DOMAIN waiting_locations = Range(threads) \ NoLonger(Unplaced)
  /\ pc[owner] # "erase_thread" => DOMAIN task_queues = Range(threads)

\* The thread that is removed is one of the pool, and is ended when it is joined.
RemovedIsThread ==
  /\ pc[owner] \in Removing \cup {"check_idle"} => best[owner] \in Range(threads)
  /\ pc[owner] \in Ended => pc[best[owner]] = "exited"

\* A search that saw a queue has chosen one that exists.
ChoiceExists ==
  pc[owner] # "erase_thread" =>
    \A t \in Thread : pc[t] \in Searching /\ seen[t] # {} => best[t] \in DOMAIN task_queues

SleepersWait ==
  /\ \A q \in Queue : \A w \in asleep[q] : pc[w] = "asleep" /\ best[w] = q
  /\ \A w \in Worker : pc[w] \in {"wait", "asleep"} => waiting_locations[w] = best[w]

TablesIInv ==
  /\ PlacesOK /\ TablesOK /\ EntriesAreThreads /\ RemovedIsThread /\ ChoiceExists /\ SleepersWait

-----------------------------------------------------------------------------
(* The tasks                                                               *)

TasksOK ==
  /\ \A q \in DOMAIN task_queues : task_queues[q] \in Seq(Task \cup {Nothing})
  /\ has_task \in [Thread -> Task \cup {Nothing, NoTask}]
  /\ futures \in [Task -> {"none", "pending", "ready", "broken"}]
  /\ created \in 0 .. MaxTasks

\* Task k is the i-th of queue q.
Lies(k, q, i) == q \in DOMAIN task_queues /\ i \in DOMAIN task_queues[q] /\ task_queues[q][i] = k

\* Who has a task, and what its future is then.
HavingOK ==
  /\ \A c \in Client : IF pc[c] \in Enqueueing
                       THEN has_task[c] \in 1 .. created /\ futures[has_task[c]] = "none"
                       ELSE has_task[c] = NoTask
  /\ \A w \in Worker : /\ pc[w] = "running" <=> has_task[w] # NoTask
                       /\ has_task[w] \in Task => futures[has_task[w]] = "pending"
  /\ \A k \in Task, q \in Queue : \A i \in Nat : Lies(k, q, i) => futures[k] = "pending"
  /\ \A k \in Task : k > created => futures[k] = "none"

NowhereTwice ==
  \A k \in Task :
    /\ \A t, u \in Thread : has_task[t] = k /\ has_task[u] = k => t = u
    /\ \A q, r \in Queue : \A i, j \in Nat : Lies(k, q, i) /\ Lies(k, r, j) => q = r /\ i = j
    /\ \A t \in Thread, q \in Queue : \A i \in Nat : ~(has_task[t] = k /\ Lies(k, q, i))

PendingIsSomewhere ==
  \A k \in Task : futures[k] = "pending" =>
    \/ \E w \in Worker : has_task[w] = k
    \/ \E q \in Queue : \E i \in Nat : Lies(k, q, i)

TasksIInv == TasksOK /\ HavingOK /\ NowhereTwice /\ PendingIsSomewhere

-----------------------------------------------------------------------------
(* Locking and unlocking, one mutex at a time                              *)

\* From p to q the mutex m is locked, behind all that are locked at p.
Nests(p, q, m) ==
  /\ p \notin CountedAt(m) /\ q \in CountedAt(m)
  /\ \A n \in Mutexes \ {m} :
       /\ q \in CountedAt(n) <=> p \in CountedAt(n)
       /\ q \in ReadAt(n) <=> p \in ReadAt(n)
       /\ q \in WrittenAt(n) <=> p \in WrittenAt(n)
  /\ p \notin ReadAt(m) /\ p \notin WrittenAt(m)

Covered(p, m) == \E n \in Mutexes \ {m} : p \in CountedAt(n) /\ Same(m, n)

NestsRead(p, q, m) ==
  Nests(p, q, m) /\ q \notin WrittenAt(m) /\ (q \in ReadAt(m) <=> ~Covered(p, m))
NestsWrite(p, q, m) ==
  Nests(p, q, m) /\ q \notin ReadAt(m) /\ (q \in WrittenAt(m) <=> ~Covered(p, m))

\* An id is counted at most once for each of the three mutexes.
LEMMA CountTypes ==
  ASSUME NEW p, NEW i
  PROVE  CountAt(p, i) \in 0 .. 3
  BY DEF CountAt, OneIf

\* A place and an id are counted once more when one more mutex with the id is locked there.
LEMMA OneMore ==
  ASSUME NEW m \in Mutexes, NEW n \in Mutexes, NEW o \in Mutexes, m # n, m # o, n # o, NEW p, NEW i
  PROVE  CountAt(p, i) = OneIf(p \in CountedAt(m) /\ Id[m] = i) +
           (OneIf(p \in CountedAt(n) /\ Id[n] = i) + OneIf(p \in CountedAt(o) /\ Id[o] = i))
<1> DEFINE c(x) == OneIf(p \in CountedAt(x) /\ Id[x] = i)
<1>1. CountAt(p, i) = c("threads") + c("task_queues") + c("waiting_locations")
  BY DEF CountAt
<1>2. c("threads") \in Int /\ c("task_queues") \in Int /\ c("waiting_locations") \in Int
  BY DEF OneIf
<1> HIDE DEF c
<1>3. CountAt(p, i) = c(m) + (c(n) + c(o))
  BY <1>1, <1>2 DEF Mutexes
<1> QED
  BY <1>3 DEF c

\* The lock counts one more, and the id of the mutex is counted before if it is covered.
LEMMA NestedCounts ==
  ASSUME NEW p, NEW q, NEW m \in Mutexes, Nests(p, q, m)
  PROVE  /\ \A i : CountAt(q, i) = CountAt(p, i) + OneIf(Id[m] = i)
         /\ CountAt(p, Id[m]) > 0 <=> Covered(p, m)
<1>1. PICK n \in Mutexes, o \in Mutexes : m # n /\ m # o /\ n # o /\ Mutexes \ {m} = {n, o}
  <2>1. CASE m = "threads"
    BY <2>1 DEF Mutexes
  <2>2. CASE m = "task_queues"
    BY <2>2 DEF Mutexes
  <2>3. CASE m = "waiting_locations"
    BY <2>3 DEF Mutexes
  <2> QED
    BY <2>1, <2>2, <2>3 DEF Mutexes
<1>2. /\ p \notin CountedAt(m) /\ q \in CountedAt(m)
      /\ q \in CountedAt(n) <=> p \in CountedAt(n)
      /\ q \in CountedAt(o) <=> p \in CountedAt(o)
  <2>1. n \in Mutexes \ {m} /\ o \in Mutexes \ {m}
    BY <1>1
  <2> QED
    BY <2>1 DEF Nests
<1>3. Covered(p, m) <=> (p \in CountedAt(n) /\ Id[n] = Id[m]) \/ (p \in CountedAt(o) /\ Id[o] = Id[m])
  BY <1>1 DEF Covered, Same
<1>4. ASSUME NEW i
      PROVE  CountAt(q, i) = CountAt(p, i) + OneIf(Id[m] = i)
  <2>1. CountAt(q, i) = OneIf(q \in CountedAt(m) /\ Id[m] = i) +
           (OneIf(q \in CountedAt(n) /\ Id[n] = i) + OneIf(q \in CountedAt(o) /\ Id[o] = i))
    BY <1>1, OneMore
  <2>2. CountAt(p, i) = OneIf(p \in CountedAt(m) /\ Id[m] = i) +
           (OneIf(p \in CountedAt(n) /\ Id[n] = i) + OneIf(p \in CountedAt(o) /\ Id[o] = i))
    BY <1>1, OneMore
  <2> QED
    BY <1>2, <2>1, <2>2 DEF OneIf
<1>5. CountAt(p, Id[m]) = OneIf(p \in CountedAt(m) /\ Id[m] = Id[m]) +
         (OneIf(p \in CountedAt(n) /\ Id[n] = Id[m]) + OneIf(p \in CountedAt(o) /\ Id[o] = Id[m]))
  BY <1>1, OneMore
<1>6. CountAt(p, Id[m]) > 0 <=> Covered(p, m)
  BY <1>2, <1>3, <1>5 DEF OneIf
<1> QED
  BY <1>4, <1>6

\* Every mutex has an id.
LEMMA Ids == \A m \in Mutexes : Id[m] \in Range(Id)
  BY PoolAssumption DEF Range

\* A thread moves, and changes nothing but its own count and its place in m.
MovesOnly(L, N, P, t, m, q) ==
  /\ LocksOK(N)
  /\ \A n \in Mutexes \ {m} :
       /\ N.writer[n] = L.writer[n] /\ N.readers[n] = L.readers[n]
       /\ q \in ReadAt(n) <=> P[t] \in ReadAt(n)
       /\ q \in WrittenAt(n) <=> P[t] \in WrittenAt(n)
  /\ \A u \in Thread \ {t} :
       /\ N.writer[m] = u <=> L.writer[m] = u
       /\ u \in N.readers[m] <=> u \in L.readers[m]
       /\ N.count[u] = L.count[u]
  /\ N.writer[m] = t <=> q \in WrittenAt(m)
  /\ t \in N.readers[m] <=> q \in ReadAt(m)
  /\ \A i \in Range(Id) : N.count[t][i] = CountAt(q, i)

\* When one thread changes one mutex as its move to place q demands, the mutexes follow the
\* places again.
LEMMA Moves ==
  ASSUME NEW L, NEW P, Follows(L, P), DOMAIN P = Thread, NEW N, NEW t \in Thread,
         NEW m \in Mutexes, NEW q, MovesOnly(L, N, P, t, m, q)
  PROVE  Follows(N, [P EXCEPT ![t] = q])
<1> USE DEF MovesOnly
<1> DEFINE Q == [P EXCEPT ![t] = q]
<1>1. Q[t] = q /\ \A u \in Thread \ {t} : Q[u] = P[u]
  OBVIOUS
<1> HIDE DEF Q
<1>2. ASSUME NEW u \in Thread, NEW n \in Mutexes
      PROVE  (N.writer[n] = u <=> Q[u] \in WrittenAt(n)) /\ (u \in N.readers[n] <=> Q[u] \in ReadAt(n))
  <2>1. /\ L.writer[n] = u <=> P[u] \in WrittenAt(n)
        /\ u \in L.readers[n] <=> P[u] \in ReadAt(n)
    BY DEF Follows
  <2>2. CASE n = m
    <3>1. CASE u = t
      BY <1>1, <2>2, <3>1
    <3>2. CASE u # t
      <4>1. u \in Thread \ {t}
        BY <3>2
      <4>2. /\ N.writer[m] = u <=> L.writer[m] = u
            /\ u \in N.readers[m] <=> u \in L.readers[m]
        BY <4>1
      <4> QED
        BY <1>1, <2>1, <2>2, <4>1, <4>2
    <3> QED
      BY <3>1, <3>2
  <2>3. CASE n # m
    <3>1. /\ N.writer[n] = L.writer[n] /\ N.readers[n] = L.readers[n]
          /\ q \in ReadAt(n) <=> P[t] \in ReadAt(n)
          /\ q \in WrittenAt(n) <=> P[t] \in WrittenAt(n)
      <4>1. n \in Mutexes \ {m}
        BY <2>3
      <4> QED
        BY <4>1
    <3>2. CASE u = t
      BY <1>1, <2>1, <3>1, <3>2
    <3>3. CASE u # t
      BY <1>1, <2>1, <3>1, <3>3
    <3> QED
      BY <3>2, <3>3
  <2> QED
    BY <2>2, <2>3
<1>3. ASSUME NEW u \in Thread, NEW i \in Range(Id)
      PROVE  N.count[u][i] = CountAt(Q[u], i)
  <2>1. L.count[u][i] = CountAt(P[u], i)
    BY DEF Follows
  <2>2. CASE u = t
    BY <1>1, <2>2
  <2>3. CASE u # t
    <3>1. u \in Thread \ {t}
      BY <2>3
    <3>2. N.count[u] = L.count[u]
      BY <3>1
    <3> QED
      BY <1>1, <2>1, <3>1, <3>2
  <2> QED
    BY <2>2, <2>3
<1>4. Follows(N, Q)
  BY <1>2, <1>3 DEF Follows
<1> QED
  BY <1>4 DEF Q

\* Counting under the id of a mutex changes this count of this thread and nothing else.
LEMMA Counting ==
  ASSUME NEW L, LocksOK(L), NEW t \in Thread, NEW m \in Mutexes, NEW n \in Int,
         L.count[t][Id[m]] + n \in Nat
  PROVE  LET N == Counted(L, t, m, n) IN
         /\ LocksOK(N)
         /\ N.writer = L.writer /\ N.readers = L.readers /\ N.mode = L.mode
         /\ \A u \in Thread \ {t} : N.count[u] = L.count[u]
         /\ \A i \in Range(Id) : N.count[t][i] = L.count[t][i] + (IF Id[m] = i THEN n ELSE 0)
<1> DEFINE d == [L.count[t] EXCEPT ![Id[m]] = L.count[t][Id[m]] + n]
           c == [L.count EXCEPT ![t] = d]
           N == [L EXCEPT !.count = c]
<1>1. Counted(L, t, m, n) = N
  BY DEF Counted
<1>2. L.count \in [Thread -> [Range(Id) -> Nat]]
  BY DEF LocksOK
<1>3. L.count[t] \in [Range(Id) -> Nat] /\ Id[m] \in Range(Id)
  BY <1>2, Ids
<1>4. d \in [Range(Id) -> Nat]
  BY <1>3
<1>5. \A i \in Range(Id) : d[i] = L.count[t][i] + (IF Id[m] = i THEN n ELSE 0)
  BY <1>3
<1> HIDE DEF d
<1>6. c \in [Thread -> [Range(Id) -> Nat]] /\ c[t] = d /\ \A u \in Thread \ {t} : c[u] = L.count[u]
  BY <1>2, <1>4
<1> HIDE DEF c
<1>7. /\ LocksOK(N) /\ N.count = c
      /\ N.writer = L.writer /\ N.readers = L.readers /\ N.mode = L.mode
  BY <1>6 DEF LocksOK
<1> HIDE DEF N
<1> QED
  BY <1>1, <1>5, <1>6, <1>7

\* NoThread is no thread.
LEMMA NoThreadIsNone == NoThread \notin Thread
  BY PoolAssumption DEF Thread

\* Whether the id of m is counted for a thread, and what the thread has of m.
LEMMA AtPlace ==
  ASSUME NEW L, NEW P, Follows(L, P), NEW t \in Thread, NEW m \in Mutexes
  PROVE  /\ LocksOK(L)
         /\ L.count[t][Id[m]] = CountAt(P[t], Id[m])
         /\ \A i \in Range(Id) : L.count[t][i] = CountAt(P[t], i)
         /\ L.writer[m] = t <=> P[t] \in WrittenAt(m)
         /\ t \in L.readers[m] <=> P[t] \in ReadAt(m)
         /\ L.writer[m] \in Thread \cup {NoThread}
  BY Ids DEF Follows, LocksOK

\* get_access for reading: the mutexes follow a thread that goes on behind the lock.
LEMMA ReadFollows ==
  ASSUME NEW L, NEW P, Follows(L, P), DOMAIN P = Thread, NEW t \in Thread, NEW m \in Mutexes,
         NEW q, NestsRead(P[t], q, m)
  PROVE  Follows(Read(L, t, m), [P EXCEPT ![t] = q])
<1> DEFINE C == Counted(L, t, m, 1)
           N == Read(L, t, m)
           W == [C EXCEPT !.readers = [C.readers EXCEPT ![m] = @ \cup {t}],
                          !.mode = [C.mode EXCEPT ![m] = "Shared"]]
<1>1. /\ Nests(P[t], q, m) /\ q \notin WrittenAt(m)
      /\ q \in ReadAt(m) <=> ~Covered(P[t], m)
      /\ P[t] \notin ReadAt(m) /\ P[t] \notin WrittenAt(m)
  BY DEF NestsRead, Nests
<1>2. /\ \A i : CountAt(q, i) = CountAt(P[t], i) + OneIf(Id[m] = i)
      /\ CountAt(P[t], Id[m]) > 0 <=> Covered(P[t], m)
  BY <1>1, NestedCounts
<1>3. /\ LocksOK(L)
      /\ L.count[t][Id[m]] = CountAt(P[t], Id[m])
      /\ \A i \in Range(Id) : L.count[t][i] = CountAt(P[t], i)
      /\ L.writer[m] # t /\ t \notin L.readers[m]
  BY <1>1, AtPlace
<1>4. L.count[t][Id[m]] + 1 \in Nat
  BY <1>3, CountTypes
<1>5. /\ LocksOK(C)
      /\ C.writer = L.writer /\ C.readers = L.readers /\ C.mode = L.mode
      /\ \A u \in Thread \ {t} : C.count[u] = L.count[u]
      /\ \A i \in Range(Id) : C.count[t][i] = L.count[t][i] + (IF Id[m] = i THEN 1 ELSE 0)
  BY <1>3, <1>4, Counting
<1>6. \A i \in Range(Id) : C.count[t][i] = CountAt(q, i)
  BY <1>2, <1>3, <1>5 DEF OneIf
<1>7. Holds(L, t, m) <=> Covered(P[t], m)
  BY <1>2, <1>3 DEF Holds
<1>8. N = IF Holds(L, t, m) THEN C ELSE W
  BY DEF Read
<1> HIDE DEF C
<1>9. /\ LocksOK(W) /\ W.count = C.count /\ W.writer = C.writer
      /\ W.readers = [C.readers EXCEPT ![m] = @ \cup {t}]
  BY <1>5 DEF LocksOK
<1>10. C.readers \in [Mutexes -> SUBSET Thread]
  BY <1>5 DEF LocksOK
<1> HIDE DEF W, N
<1>11. /\ LocksOK(N) /\ N.count = C.count /\ N.writer = L.writer
       /\ \A n \in Mutexes \ {m} : N.readers[n] = L.readers[n]
       /\ \A u \in Thread \ {t} : u \in N.readers[m] <=> u \in L.readers[m]
       /\ t \in N.readers[m] <=> ~Covered(P[t], m)
  <2>1. CASE Holds(L, t, m)
    BY <1>3, <1>5, <1>7, <1>8, <2>1
  <2>2. CASE ~Holds(L, t, m)
    <3>1. N = W
      BY <1>8, <2>2
    <3>2. N.readers[m] = L.readers[m] \cup {t} /\ \A n \in Mutexes \ {m} : N.readers[n] = L.readers[n]
      BY <1>5, <1>9, <1>10, <3>1
    <3> QED
      BY <1>5, <1>7, <1>9, <2>2, <3>1, <3>2
  <2> QED
    BY <2>1, <2>2
<1>12. \A n \in Mutexes \ {m} :
         /\ N.writer[n] = L.writer[n] /\ N.readers[n] = L.readers[n]
         /\ q \in ReadAt(n) <=> P[t] \in ReadAt(n)
         /\ q \in WrittenAt(n) <=> P[t] \in WrittenAt(n)
  BY <1>1, <1>11 DEF Nests
<1>13. \A u \in Thread \ {t} :
         /\ N.writer[m] = u <=> L.writer[m] = u
         /\ u \in N.readers[m] <=> u \in L.readers[m]
         /\ N.count[u] = L.count[u]
  BY <1>5, <1>11
<1>14. /\ N.writer[m] = t <=> q \in WrittenAt(m)
       /\ t \in N.readers[m] <=> q \in ReadAt(m)
       /\ \A i \in Range(Id) : N.count[t][i] = CountAt(q, i)
  BY <1>1, <1>3, <1>6, <1>11
<1>15. MovesOnly(L, N, P, t, m, q)
  BY <1>11, <1>12, <1>13, <1>14 DEF MovesOnly
<1>16. Follows(N, [P EXCEPT ![t] = q])
  BY <1>15, Moves
<1> QED
  BY <1>16 DEF N

\* get_access for writing.
LEMMA WriteFollows ==
  ASSUME NEW L, NEW P, Follows(L, P), DOMAIN P = Thread, NEW t \in Thread, NEW m \in Mutexes,
         NEW q, NestsWrite(P[t], q, m), CanWrite(L, t, m)
  PROVE  Follows(Write(L, t, m), [P EXCEPT ![t] = q])
<1> DEFINE C == Counted(L, t, m, 1)
           N == Write(L, t, m)
           W == [C EXCEPT !.writer = [C.writer EXCEPT ![m] = t],
                          !.mode = [C.mode EXCEPT ![m] = "Exclusive"]]
<1>1. /\ Nests(P[t], q, m) /\ q \notin ReadAt(m)
      /\ q \in WrittenAt(m) <=> ~Covered(P[t], m)
      /\ P[t] \notin ReadAt(m) /\ P[t] \notin WrittenAt(m)
  BY DEF NestsWrite, Nests
<1>2. /\ \A i : CountAt(q, i) = CountAt(P[t], i) + OneIf(Id[m] = i)
      /\ CountAt(P[t], Id[m]) > 0 <=> Covered(P[t], m)
  BY <1>1, NestedCounts
<1>3. /\ LocksOK(L)
      /\ L.count[t][Id[m]] = CountAt(P[t], Id[m])
      /\ \A i \in Range(Id) : L.count[t][i] = CountAt(P[t], i)
      /\ L.writer[m] # t /\ t \notin L.readers[m]
  BY <1>1, AtPlace
<1>4. L.count[t][Id[m]] + 1 \in Nat
  BY <1>3, CountTypes
<1>5. /\ LocksOK(C)
      /\ C.writer = L.writer /\ C.readers = L.readers /\ C.mode = L.mode
      /\ \A u \in Thread \ {t} : C.count[u] = L.count[u]
      /\ \A i \in Range(Id) : C.count[t][i] = L.count[t][i] + (IF Id[m] = i THEN 1 ELSE 0)
  BY <1>3, <1>4, Counting
<1>6. \A i \in Range(Id) : C.count[t][i] = CountAt(q, i)
  BY <1>2, <1>3, <1>5 DEF OneIf
<1>7. /\ Holds(L, t, m) <=> Covered(P[t], m)
      /\ ~Holds(L, t, m) => L.writer[m] \notin Thread
  BY <1>2, <1>3, NoThreadIsNone DEF Holds, CanWrite
<1>8. N = IF Holds(L, t, m) THEN C ELSE W
  BY DEF Write
<1> HIDE DEF C
<1>9. /\ LocksOK(W) /\ W.count = C.count /\ W.readers = C.readers
      /\ W.writer = [C.writer EXCEPT ![m] = t]
  BY <1>5 DEF LocksOK
<1>10. C.writer \in [Mutexes -> Thread \cup {NoThread}]
  BY <1>5 DEF LocksOK
<1> HIDE DEF W, N
<1>11. /\ LocksOK(N) /\ N.count = C.count /\ N.readers = L.readers
       /\ \A n \in Mutexes \ {m} : N.writer[n] = L.writer[n]
       /\ \A u \in Thread \ {t} : N.writer[m] = u <=> L.writer[m] = u
       /\ N.writer[m] = t <=> ~Covered(P[t], m)
  <2>1. CASE Holds(L, t, m)
    BY <1>3, <1>5, <1>7, <1>8, <2>1
  <2>2. CASE ~Holds(L, t, m)
    <3>1. N = W
      BY <1>8, <2>2
    <3>2. N.writer[m] = t /\ \A n \in Mutexes \ {m} : N.writer[n] = L.writer[n]
      BY <1>5, <1>9, <1>10, <3>1
    <3> QED
      BY <1>5, <1>7, <1>9, <2>2, <3>1, <3>2
  <2> QED
    BY <2>1, <2>2
<1>12. \A n \in Mutexes \ {m} :
         /\ N.writer[n] = L.writer[n] /\ N.readers[n] = L.readers[n]
         /\ q \in ReadAt(n) <=> P[t] \in ReadAt(n)
         /\ q \in WrittenAt(n) <=> P[t] \in WrittenAt(n)
  BY <1>1, <1>11 DEF Nests
<1>13. \A u \in Thread \ {t} :
         /\ N.writer[m] = u <=> L.writer[m] = u
         /\ u \in N.readers[m] <=> u \in L.readers[m]
         /\ N.count[u] = L.count[u]
  BY <1>5, <1>11
<1>14. /\ N.writer[m] = t <=> q \in WrittenAt(m)
       /\ t \in N.readers[m] <=> q \in ReadAt(m)
       /\ \A i \in Range(Id) : N.count[t][i] = CountAt(q, i)
  BY <1>1, <1>3, <1>6, <1>11
<1>15. MovesOnly(L, N, P, t, m, q)
  BY <1>11, <1>12, <1>13, <1>14 DEF MovesOnly
<1>16. Follows(N, [P EXCEPT ![t] = q])
  BY <1>15, Moves
<1> QED
  BY <1>16 DEF N

\* release_access of a reader: the mutexes follow a thread that goes back before the lock.
LEMMA EndReadFollows ==
  ASSUME NEW L, NEW P, Follows(L, P), DOMAIN P = Thread, NEW t \in Thread, NEW m \in Mutexes,
         NEW q, NestsRead(q, P[t], m)
  PROVE  Follows(EndRead(L, t, m), [P EXCEPT ![t] = q])
<1> DEFINE C == Counted(L, t, m, -1)
           N == EndRead(L, t, m)
           W == [C EXCEPT !.readers = [C.readers EXCEPT ![m] = @ \ {t}]]
<1>1. /\ Nests(q, P[t], m) /\ P[t] \notin WrittenAt(m)
      /\ P[t] \in ReadAt(m) <=> ~Covered(q, m)
      /\ q \notin ReadAt(m) /\ q \notin WrittenAt(m)
  BY DEF NestsRead, Nests
<1>2. /\ \A i : CountAt(P[t], i) = CountAt(q, i) + OneIf(Id[m] = i)
      /\ CountAt(q, Id[m]) > 0 <=> Covered(q, m)
  BY <1>1, NestedCounts
<1>3. /\ LocksOK(L)
      /\ L.count[t][Id[m]] = CountAt(P[t], Id[m])
      /\ \A i \in Range(Id) : L.count[t][i] = CountAt(P[t], i)
      /\ L.writer[m] # t
      /\ t \in L.readers[m] <=> ~Covered(q, m)
  BY <1>1, AtPlace
<1>4. /\ L.count[t][Id[m]] = CountAt(q, Id[m]) + 1
      /\ L.count[t][Id[m]] + (-1) \in Nat
  BY <1>2, <1>3, CountTypes DEF OneIf
<1>5. /\ LocksOK(C)
      /\ C.writer = L.writer /\ C.readers = L.readers /\ C.mode = L.mode
      /\ \A u \in Thread \ {t} : C.count[u] = L.count[u]
      /\ \A i \in Range(Id) : C.count[t][i] = L.count[t][i] + (IF Id[m] = i THEN -1 ELSE 0)
  BY <1>3, <1>4, Counting
<1>6. \A i \in Range(Id) : C.count[t][i] = CountAt(q, i)
  <2> TAKE i \in Range(Id)
  <2>1. CountAt(P[t], i) = CountAt(q, i) + OneIf(Id[m] = i) /\ CountAt(q, i) \in 0 .. 3
    BY <1>2, CountTypes
  <2>2. C.count[t][i] = CountAt(P[t], i) + (IF Id[m] = i THEN -1 ELSE 0)
    BY <1>3, <1>5
  <2> QED
    BY <2>1, <2>2 DEF OneIf
<1>7. LastCount(L, t, m) <=> ~Covered(q, m)
  BY <1>2, <1>4, CountTypes DEF LastCount
<1>8. N = IF LastCount(L, t, m) THEN W ELSE C
  BY DEF EndRead
<1> HIDE DEF C
<1>9. /\ LocksOK(W) /\ W.count = C.count /\ W.writer = C.writer
      /\ W.readers = [C.readers EXCEPT ![m] = @ \ {t}]
  BY <1>5 DEF LocksOK
<1>10. C.readers \in [Mutexes -> SUBSET Thread]
  BY <1>5 DEF LocksOK
<1> HIDE DEF W, N
<1>11. /\ LocksOK(N) /\ N.count = C.count /\ N.writer = L.writer
       /\ \A n \in Mutexes \ {m} : N.readers[n] = L.readers[n]
       /\ \A u \in Thread \ {t} : u \in N.readers[m] <=> u \in L.readers[m]
       /\ t \notin N.readers[m]
  <2>1. CASE ~LastCount(L, t, m)
    BY <1>3, <1>5, <1>7, <1>8, <2>1
  <2>2. CASE LastCount(L, t, m)
    <3>1. N = W
      BY <1>8, <2>2
    <3>2. N.readers[m] = L.readers[m] \ {t} /\ \A n \in Mutexes \ {m} : N.readers[n] = L.readers[n]
      BY <1>5, <1>9, <1>10, <3>1
    <3> QED
      BY <1>5, <1>9, <3>1, <3>2
  <2> QED
    BY <2>1, <2>2
<1>12. \A n \in Mutexes \ {m} :
         /\ N.writer[n] = L.writer[n] /\ N.readers[n] = L.readers[n]
         /\ q \in ReadAt(n) <=> P[t] \in ReadAt(n)
         /\ q \in WrittenAt(n) <=> P[t] \in WrittenAt(n)
  BY <1>1, <1>11 DEF Nests
<1>13. \A u \in Thread \ {t} :
         /\ N.writer[m] = u <=> L.writer[m] = u
         /\ u \in N.readers[m] <=> u \in L.readers[m]
         /\ N.count[u] = L.count[u]
  BY <1>5, <1>11
<1>14. /\ N.writer[m] = t <=> q \in WrittenAt(m)
       /\ t \in N.readers[m] <=> q \in ReadAt(m)
       /\ \A i \in Range(Id) : N.count[t][i] = CountAt(q, i)
  BY <1>1, <1>3, <1>6, <1>11
<1>15. MovesOnly(L, N, P, t, m, q)
  BY <1>11, <1>12, <1>13, <1>14 DEF MovesOnly
<1>16. Follows(N, [P EXCEPT ![t] = q])
  BY <1>15, Moves
<1> QED
  BY <1>16 DEF N

\* release_access of a writer.
LEMMA EndWriteFollows ==
  ASSUME NEW L, NEW P, Follows(L, P), DOMAIN P = Thread, NEW t \in Thread, NEW m \in Mutexes,
         NEW q, NestsWrite(q, P[t], m)
  PROVE  Follows(EndWrite(L, t, m), [P EXCEPT ![t] = q])
<1> DEFINE C == Counted(L, t, m, -1)
           N == EndWrite(L, t, m)
           W == [C EXCEPT !.writer = [C.writer EXCEPT ![m] = NoThread],
                          !.mode = [C.mode EXCEPT ![m] = "None"]]
<1>1. /\ Nests(q, P[t], m) /\ P[t] \notin ReadAt(m)
      /\ P[t] \in WrittenAt(m) <=> ~Covered(q, m)
      /\ q \notin ReadAt(m) /\ q \notin WrittenAt(m)
  BY DEF NestsWrite, Nests
<1>2. /\ \A i : CountAt(P[t], i) = CountAt(q, i) + OneIf(Id[m] = i)
      /\ CountAt(q, Id[m]) > 0 <=> Covered(q, m)
  BY <1>1, NestedCounts
<1>3. /\ LocksOK(L)
      /\ L.count[t][Id[m]] = CountAt(P[t], Id[m])
      /\ \A i \in Range(Id) : L.count[t][i] = CountAt(P[t], i)
      /\ t \notin L.readers[m]
      /\ L.writer[m] = t <=> ~Covered(q, m)
  BY <1>1, AtPlace
<1>4. /\ L.count[t][Id[m]] = CountAt(q, Id[m]) + 1
      /\ L.count[t][Id[m]] + (-1) \in Nat
  BY <1>2, <1>3, CountTypes DEF OneIf
<1>5. /\ LocksOK(C)
      /\ C.writer = L.writer /\ C.readers = L.readers /\ C.mode = L.mode
      /\ \A u \in Thread \ {t} : C.count[u] = L.count[u]
      /\ \A i \in Range(Id) : C.count[t][i] = L.count[t][i] + (IF Id[m] = i THEN -1 ELSE 0)
  BY <1>3, <1>4, Counting
<1>6. \A i \in Range(Id) : C.count[t][i] = CountAt(q, i)
  <2> TAKE i \in Range(Id)
  <2>1. CountAt(P[t], i) = CountAt(q, i) + OneIf(Id[m] = i) /\ CountAt(q, i) \in 0 .. 3
    BY <1>2, CountTypes
  <2>2. C.count[t][i] = CountAt(P[t], i) + (IF Id[m] = i THEN -1 ELSE 0)
    BY <1>3, <1>5
  <2> QED
    BY <2>1, <2>2 DEF OneIf
<1>7. LastCount(L, t, m) <=> ~Covered(q, m)
  BY <1>2, <1>4, CountTypes DEF LastCount
<1>8. N = IF LastCount(L, t, m) THEN W ELSE C
  BY DEF EndWrite
<1> HIDE DEF C
<1>9. /\ LocksOK(W) /\ W.count = C.count /\ W.readers = C.readers
      /\ W.writer = [C.writer EXCEPT ![m] = NoThread]
  BY <1>5 DEF LocksOK
<1>10. C.writer \in [Mutexes -> Thread \cup {NoThread}]
  BY <1>5 DEF LocksOK
<1> HIDE DEF W, N
<1>11. /\ LocksOK(N) /\ N.count = C.count /\ N.readers = L.readers
       /\ \A n \in Mutexes \ {m} : N.writer[n] = L.writer[n]
       /\ \A u \in Thread \ {t} : N.writer[m] = u <=> L.writer[m] = u
       /\ N.writer[m] # t
  <2>1. CASE ~LastCount(L, t, m)
    BY <1>3, <1>5, <1>7, <1>8, <2>1
  <2>2. CASE LastCount(L, t, m)
    <3>1. N = W
      BY <1>8, <2>2
    <3>2. N.writer[m] = NoThread /\ \A n \in Mutexes \ {m} : N.writer[n] = L.writer[n]
      BY <1>5, <1>9, <1>10, <3>1
    <3>3. L.writer[m] = t
      BY <1>3, <1>7, <2>2
    <3> QED
      BY <1>5, <1>9, <3>1, <3>2, <3>3, NoThreadIsNone
  <2> QED
    BY <2>1, <2>2
<1>12. \A n \in Mutexes \ {m} :
         /\ N.writer[n] = L.writer[n] /\ N.readers[n] = L.readers[n]
         /\ q \in ReadAt(n) <=> P[t] \in ReadAt(n)
         /\ q \in WrittenAt(n) <=> P[t] \in WrittenAt(n)
  BY <1>1, <1>11 DEF Nests
<1>13. \A u \in Thread \ {t} :
         /\ N.writer[m] = u <=> L.writer[m] = u
         /\ u \in N.readers[m] <=> u \in L.readers[m]
         /\ N.count[u] = L.count[u]
  BY <1>5, <1>11
<1>14. /\ N.writer[m] = t <=> q \in WrittenAt(m)
       /\ t \in N.readers[m] <=> q \in ReadAt(m)
       /\ \A i \in Range(Id) : N.count[t][i] = CountAt(q, i)
  BY <1>1, <1>3, <1>6, <1>11
<1>15. MovesOnly(L, N, P, t, m, q)
  BY <1>11, <1>12, <1>13, <1>14 DEF MovesOnly
<1>16. Follows(N, [P EXCEPT ![t] = q])
  BY <1>15, Moves
<1> QED
  BY <1>16 DEF N

-----------------------------------------------------------------------------
(* Which moves lock a mutex, behind those that are locked                  *)

\* The places before and after a mutex is locked, to read or to write.
Reads ==
  {<<"created", "spin", "threads">>, <<"loop", "spin", "threads">>,
   <<"idle", "spin", "threads">>, <<"find_thread", "spin", "threads">>,
   <<"join", "spin", "threads">>, <<"loop", "most_busy", "task_queues">>,
   <<"check_idle", "most_busy", "task_queues">>, <<"find_thread", "most_busy", "task_queues">>,
   <<"idle", "most_busy", "task_queues">>, <<"loop", "write_location", "task_queues">>,
   <<"wait", "write_location", "task_queues">>, <<"most_busy", "search_most_busy", "threads">>,
   <<"write_location", "search_most_busy", "threads">>, <<"least_busy", "least_busy_threads", "task_queues">>,
   <<"check_idle", "least_busy_threads", "task_queues">>, <<"least_busy_threads", "search_idle", "threads">>}
Writes ==
  {<<"write_location", "location_written", "waiting_locations">>, <<"lock_locations", "lock_queues", "waiting_locations">>,
   <<"idle", "lock_queues", "waiting_locations">>, <<"stop_location", "lock_queues", "waiting_locations">>,
   <<"stop_queue", "lock_queues", "waiting_locations">>, <<"lock_queues", "lock_threads", "task_queues">>,
   <<"lock_threads", "search_least_busy", "threads">>, <<"stop_queue", "erase_queue", "task_queues">>,
   <<"erase_thread", "erase_queue", "task_queues">>, <<"add_threads", "add_queues", "threads">>,
   <<"idle", "add_queues", "threads">>, <<"destroy", "add_queues", "threads">>,
   <<"add_queues", "add_locations", "task_queues">>, <<"add_locations", "add_loop", "waiting_locations">>}

\* The places between which the code locks a mutex for reading nest.
LEMMA ReadsNest ==
  ASSUME NEW r \in Reads
  PROVE  NestsRead(r[1], r[2], r[3]) /\ r[3] \in Mutexes
<1>1. CASE r = <<"created", "spin", "threads">>
  BY <1>1 DEF NestsRead, Nests, Covered, Same, Unless, CountedAt, ReadAt, WrittenAt, Mutexes
<1>2. CASE r = <<"loop", "spin", "threads">>
  BY <1>2 DEF NestsRead, Nests, Covered, Same, Unless, CountedAt, ReadAt, WrittenAt, Mutexes
<1>3. CASE r = <<"idle", "spin", "threads">>
  BY <1>3 DEF NestsRead, Nests, Covered, Same, Unless, CountedAt, ReadAt, WrittenAt, Mutexes
<1>4. CASE r = <<"find_thread", "spin", "threads">>
  BY <1>4 DEF NestsRead, Nests, Covered, Same, Unless, CountedAt, ReadAt, WrittenAt, Mutexes
<1>5. CASE r = <<"join", "spin", "threads">>
  BY <1>5 DEF NestsRead, Nests, Covered, Same, Unless, CountedAt, ReadAt, WrittenAt, Mutexes
<1>6. CASE r = <<"loop", "most_busy", "task_queues">>
  BY <1>6 DEF NestsRead, Nests, Covered, Same, Unless, CountedAt, ReadAt, WrittenAt, Mutexes
<1>7. CASE r = <<"check_idle", "most_busy", "task_queues">>
  BY <1>7 DEF NestsRead, Nests, Covered, Same, Unless, CountedAt, ReadAt, WrittenAt, Mutexes
<1>8. CASE r = <<"find_thread", "most_busy", "task_queues">>
  BY <1>8 DEF NestsRead, Nests, Covered, Same, Unless, CountedAt, ReadAt, WrittenAt, Mutexes
<1>9. CASE r = <<"idle", "most_busy", "task_queues">>
  BY <1>9 DEF NestsRead, Nests, Covered, Same, Unless, CountedAt, ReadAt, WrittenAt, Mutexes
<1>10. CASE r = <<"loop", "write_location", "task_queues">>
  BY <1>10 DEF NestsRead, Nests, Covered, Same, Unless, CountedAt, ReadAt, WrittenAt, Mutexes
<1>11. CASE r = <<"wait", "write_location", "task_queues">>
  BY <1>11 DEF NestsRead, Nests, Covered, Same, Unless, CountedAt, ReadAt, WrittenAt, Mutexes
<1>12. CASE r = <<"most_busy", "search_most_busy", "threads">>
  BY <1>12 DEF NestsRead, Nests, Covered, Same, Unless, CountedAt, ReadAt, WrittenAt, Mutexes
<1>13. CASE r = <<"write_location", "search_most_busy", "threads">>
  BY <1>13 DEF NestsRead, Nests, Covered, Same, Unless, CountedAt, ReadAt, WrittenAt, Mutexes
<1>14. CASE r = <<"least_busy", "least_busy_threads", "task_queues">>
  BY <1>14 DEF NestsRead, Nests, Covered, Same, Unless, CountedAt, ReadAt, WrittenAt, Mutexes
<1>15. CASE r = <<"check_idle", "least_busy_threads", "task_queues">>
  BY <1>15 DEF NestsRead, Nests, Covered, Same, Unless, CountedAt, ReadAt, WrittenAt, Mutexes
<1>16. CASE r = <<"least_busy_threads", "search_idle", "threads">>
  BY <1>16 DEF NestsRead, Nests, Covered, Same, Unless, CountedAt, ReadAt, WrittenAt, Mutexes
<1> QED
  BY <1>1, <1>2, <1>3, <1>4, <1>5, <1>6, <1>7, <1>8, <1>9, <1>10, <1>11, <1>12, <1>13, <1>14, <1>15, <1>16 DEF Reads

\* The places between which the code locks a mutex for writing nest.
LEMMA WritesNest ==
  ASSUME NEW r \in Writes
  PROVE  NestsWrite(r[1], r[2], r[3]) /\ r[3] \in Mutexes
<1>1. CASE r = <<"write_location", "location_written", "waiting_locations">>
  BY <1>1 DEF NestsWrite, Nests, Covered, Same, Unless, CountedAt, ReadAt, WrittenAt, Mutexes
<1>2. CASE r = <<"lock_locations", "lock_queues", "waiting_locations">>
  BY <1>2 DEF NestsWrite, Nests, Covered, Same, Unless, CountedAt, ReadAt, WrittenAt, Mutexes
<1>3. CASE r = <<"idle", "lock_queues", "waiting_locations">>
  BY <1>3 DEF NestsWrite, Nests, Covered, Same, Unless, CountedAt, ReadAt, WrittenAt, Mutexes
<1>4. CASE r = <<"stop_location", "lock_queues", "waiting_locations">>
  BY <1>4 DEF NestsWrite, Nests, Covered, Same, Unless, CountedAt, ReadAt, WrittenAt, Mutexes
<1>5. CASE r = <<"stop_queue", "lock_queues", "waiting_locations">>
  BY <1>5 DEF NestsWrite, Nests, Covered, Same, Unless, CountedAt, ReadAt, WrittenAt, Mutexes
<1>6. CASE r = <<"lock_queues", "lock_threads", "task_queues">>
  BY <1>6 DEF NestsWrite, Nests, Covered, Same, Unless, CountedAt, ReadAt, WrittenAt, Mutexes
<1>7. CASE r = <<"lock_threads", "search_least_busy", "threads">>
  BY <1>7 DEF NestsWrite, Nests, Covered, Same, Unless, CountedAt, ReadAt, WrittenAt, Mutexes
<1>8. CASE r = <<"stop_queue", "erase_queue", "task_queues">>
  BY <1>8 DEF NestsWrite, Nests, Covered, Same, Unless, CountedAt, ReadAt, WrittenAt, Mutexes
<1>9. CASE r = <<"erase_thread", "erase_queue", "task_queues">>
  BY <1>9 DEF NestsWrite, Nests, Covered, Same, Unless, CountedAt, ReadAt, WrittenAt, Mutexes
<1>10. CASE r = <<"add_threads", "add_queues", "threads">>
  BY <1>10 DEF NestsWrite, Nests, Covered, Same, Unless, CountedAt, ReadAt, WrittenAt, Mutexes
<1>11. CASE r = <<"idle", "add_queues", "threads">>
  BY <1>11 DEF NestsWrite, Nests, Covered, Same, Unless, CountedAt, ReadAt, WrittenAt, Mutexes
<1>12. CASE r = <<"destroy", "add_queues", "threads">>
  BY <1>12 DEF NestsWrite, Nests, Covered, Same, Unless, CountedAt, ReadAt, WrittenAt, Mutexes
<1>13. CASE r = <<"add_queues", "add_locations", "task_queues">>
  BY <1>13 DEF NestsWrite, Nests, Covered, Same, Unless, CountedAt, ReadAt, WrittenAt, Mutexes
<1>14. CASE r = <<"add_locations", "add_loop", "waiting_locations">>
  BY <1>14 DEF NestsWrite, Nests, Covered, Same, Unless, CountedAt, ReadAt, WrittenAt, Mutexes
<1> QED
  BY <1>1, <1>2, <1>3, <1>4, <1>5, <1>6, <1>7, <1>8, <1>9, <1>10, <1>11, <1>12, <1>13, <1>14 DEF Writes

-----------------------------------------------------------------------------
(* The steps move one thread, and lock and unlock as they move it          *)

\* The owner is a client, and nobody is worker and client.
LEMMA Kinds ==
  /\ owner \in Client /\ Client \cap Worker = {}
  /\ Thread = Worker \cup Client /\ Worker \subseteq Thread /\ Client \subseteq Thread
  BY PoolAssumption DEF Thread

\* The places of the code, as they are read from the guards and the assignments.
LEMMA PlacesStep ==
  ASSUME PlacesOK, [Next]_vars
  PROVE  PlacesOK'
<1>1. ASSUME NEW w \in Worker, NEW q \in WorkerPlace, pc' = [pc EXCEPT ![w] = q]
      PROVE  PlacesOK'
  <2>1. /\ pc \in [Thread -> Place] /\ w \in Thread /\ q \in Place /\ w \notin Client
    BY Kinds DEF PlacesOK, Place
  <2>2. pc' \in [Thread -> Place] /\ pc'[w] = q /\ \A u \in Thread \ {w} : pc'[u] = pc[u]
    BY <1>1, <2>1
  <2>3. (\A u \in Worker : pc'[u] \in WorkerPlace) /\ \A c \in Client : pc'[c] = pc[c]
    BY <2>1, <2>2, Kinds DEF PlacesOK
  <2> QED
    BY <2>2, <2>3 DEF PlacesOK
<1>2. ASSUME NEW c \in Client, NEW q, q \in {"idle"} \cup Enqueueing \/ (c = owner /\ q \in OwnerPlace),
             pc' = [pc EXCEPT ![c] = q]
      PROVE  PlacesOK'
  <2>1. /\ pc \in [Thread -> Place] /\ c \in Thread /\ q \in Place /\ c \notin Worker
    BY <1>2, Kinds DEF PlacesOK, Place
  <2>2. pc' \in [Thread -> Place] /\ pc'[c] = q /\ \A u \in Thread \ {c} : pc'[u] = pc[u]
    BY <1>2, <2>1
  <2>3. \A u \in Worker : pc'[u] \in WorkerPlace
    BY <2>1, <2>2, Kinds DEF PlacesOK
  <2>4. ASSUME NEW d \in Client
        PROVE  pc'[d] \in {"idle"} \cup Enqueueing \/ (d = owner /\ pc'[d] \in OwnerPlace)
    BY <1>2, <2>2, Kinds DEF PlacesOK
  <2> QED
    BY <2>2, <2>3, <2>4 DEF PlacesOK
<1>3. ASSUME pc' = pc
      PROVE  PlacesOK'
  BY <1>3 DEF PlacesOK
<1>4. ASSUME NEW w \in Worker, OfWorker(w) \/ SpuriousWakeUp(w) \/ Dangling(w)
      PROVE  PlacesOK'
  <2>1. pc' = pc \/ \E q \in WorkerPlace : pc' = [pc EXCEPT ![w] = q]
    BY <1>4 DEF OfWorker, SpuriousWakeUp, Dangling, Start, Go, GetNextTask, MostBusy, Compare, Steal,
      WriteLocation, Sleep, WakeUp, StopRequired, Take, Finish, Goto, Iterate, Dies, WorkerPlace
  <2> QED
    BY <1>1, <1>3, <2>1
<1>5. ASSUME NEW c \in Client, Enqueue(c) \/ OfClient(c) \/ Size(c)
      PROVE  PlacesOK'
  <2>1. pc' = pc \/ \E q \in {"idle"} \cup Enqueueing : pc' = [pc EXCEPT ![c] = q]
    BY <1>5 DEF Enqueue, OfClient, Size, Calling, LockLocations, LockQueues, LockThreads, Compare,
      Push, EnqueueThrows, Goto, Enqueueing
  <2> QED
    BY <1>2, <1>3, <2>1
<1>6. ASSUME OfOwner \/ RemoveThreads \/ Destroy \/ AddThreads
      PROVE  PlacesOK'
  <2>1. CASE \/ LeastBusyQueues \/ LeastBusyThreads \/ LeastBusyFound \/ CheckIdle \/ FindThread
             \/ Join \/ StopLocation \/ StopQueue \/ EraseQueue \/ EraseThread
             \/ RemoveThreads \/ Destroy \/ AddThreads
    <3>1. pc' = pc \/ \E q \in {"idle"} \cup OwnerPlace : pc' = [pc EXCEPT ![owner] = q]
      BY <2>1 DEF LeastBusyQueues, LeastBusyThreads, LeastBusyFound, CheckIdle, FindThread, Join,
        StopLocation, StopQueue, EraseQueue, EraseThread, RemoveThreads, Destroy, AddThreads,
        Calling, Goto, Dies, OwnerPlace, Removing
    <3> QED
      BY <1>2, <1>3, <3>1, Kinds
  <2>2. CASE DestroyNext \/ AddLock \/ AddThreadFails
    <3>1. \E q \in {"idle"} \cup OwnerPlace : pc' = [pc EXCEPT ![owner] = q]
      BY <2>2 DEF DestroyNext, AddLock, AddThreadFails, Goto, OwnerPlace, Removing
    <3> QED
      BY <1>2, <3>1, Kinds
  <2>3. CASE AddThread
    <3>1. \E w \in Worker : pc' = [pc EXCEPT ![w] = "created"]
      BY <2>3 DEF AddThread
    <3> QED
      BY <1>1, <3>1 DEF WorkerPlace
  <2> QED
    BY <1>6, <2>1, <2>2, <2>3 DEF OfOwner
<1>7. ASSUME NEW t \in Thread, RunsIntoUnreachable(t)
      PROVE  PlacesOK'
  BY <1>3, <1>7 DEF RunsIntoUnreachable, Dies
<1>8. ASSUME UNCHANGED vars
      PROVE  PlacesOK'
  BY <1>3, <1>8 DEF vars
<1> QED
  BY <1>4, <1>5, <1>6, <1>7, <1>8 DEF Next

\* A mutex is locked or unlocked on the way from a place to another.
LEMMA Locking ==
  ASSUME NEW L, NEW P, Follows(L, P), DOMAIN P = Thread, NEW t \in Thread, NEW m, NEW q
  PROVE  /\ <<P[t], q, m>> \in Reads => Follows(Read(L, t, m), [P EXCEPT ![t] = q])
         /\ <<q, P[t], m>> \in Reads => Follows(EndRead(L, t, m), [P EXCEPT ![t] = q])
         /\ <<P[t], q, m>> \in Writes /\ CanWrite(L, t, m) => Follows(Write(L, t, m), [P EXCEPT ![t] = q])
         /\ <<q, P[t], m>> \in Writes => Follows(EndWrite(L, t, m), [P EXCEPT ![t] = q])
<1>1. <<P[t], q, m>> \in Reads => NestsRead(P[t], q, m) /\ m \in Mutexes
  BY ReadsNest
<1>2. <<q, P[t], m>> \in Reads => NestsRead(q, P[t], m) /\ m \in Mutexes
  BY ReadsNest
<1>3. <<P[t], q, m>> \in Writes => NestsWrite(P[t], q, m) /\ m \in Mutexes
  BY WritesNest
<1>4. <<q, P[t], m>> \in Writes => NestsWrite(q, P[t], m) /\ m \in Mutexes
  BY WritesNest
<1> QED
  BY <1>1, <1>2, <1>3, <1>4, ReadFollows, EndReadFollows, WriteFollows, EndWriteFollows

\* A mutex that is locked and unlocked in one step, on the way through q.
LEMMA LockedOnTheWay ==
  ASSUME NEW L, NEW P, Follows(L, P), DOMAIN P = Thread, NEW t \in Thread, NEW m, NEW q, NEW r
  PROVE  /\ <<P[t], q, m>> \in Reads /\ <<r, q, m>> \in Reads =>
              Follows(EndRead(Read(L, t, m), t, m), [P EXCEPT ![t] = r])
         /\ <<P[t], q, m>> \in Writes /\ CanWrite(L, t, m) /\ <<r, q, m>> \in Writes =>
              Follows(EndWrite(Write(L, t, m), t, m), [P EXCEPT ![t] = r])
<1> DEFINE Q == [P EXCEPT ![t] = q]
<1>1. DOMAIN Q = Thread /\ Q[t] = q /\ [Q EXCEPT ![t] = r] = [P EXCEPT ![t] = r]
  OBVIOUS
<1> HIDE DEF Q
<1>2. ASSUME <<P[t], q, m>> \in Reads, <<r, q, m>> \in Reads
      PROVE  Follows(EndRead(Read(L, t, m), t, m), [P EXCEPT ![t] = r])
  <2>1. Follows(Read(L, t, m), Q)
    BY <1>2, Locking DEF Q
  <2> QED
    BY <1>1, <1>2, <2>1, Locking
<1>3. ASSUME <<P[t], q, m>> \in Writes, CanWrite(L, t, m), <<r, q, m>> \in Writes
      PROVE  Follows(EndWrite(Write(L, t, m), t, m), [P EXCEPT ![t] = r])
  <2>1. Follows(Write(L, t, m), Q)
    BY <1>3, Locking DEF Q
  <2> QED
    BY <1>1, <1>3, <2>1, Locking
<1> QED
  BY <1>2, <1>3

\* Where no mutex is locked.
Unlocked ==
  {"none", "created", "loop", "wait", "asleep", "running", "exited", "idle", "lock_locations",
   "least_busy", "check_idle", "find_thread", "join", "stop_location", "stop_queue",
   "erase_thread", "destroy", "add_threads"}

\* At an unlocked place nothing is locked.
LEMMA Unlocks ==
  ASSUME NEW p \in Unlocked, NEW m \in Mutexes
  PROVE  p \notin CountedAt(m) /\ p \notin ReadAt(m) /\ p \notin WrittenAt(m)
<1>1. CASE m = "threads"
  BY <1>1 DEF Unlocked, CountedAt, ReadAt, WrittenAt, Unless
<1>2. CASE m = "task_queues"
  BY <1>2 DEF Unlocked, CountedAt, ReadAt, WrittenAt, Unless
<1>3. CASE m = "waiting_locations"
  BY <1>3 DEF Unlocked, CountedAt, ReadAt, WrittenAt, Unless
<1> QED
  BY <1>1, <1>2, <1>3 DEF Mutexes

\* At an unlocked place nothing is counted.
LEMMA UnlockedCounts ==
  ASSUME NEW p \in Unlocked, NEW i
  PROVE  CountAt(p, i) = 0
<1>1. p \notin CountedAt("threads") /\ p \notin CountedAt("task_queues") /\ p \notin CountedAt("waiting_locations")
  BY Unlocks DEF Mutexes
<1> QED
  BY <1>1 DEF CountAt, OneIf

\* Between unlocked places the mutexes need not change.
LEMMA UnlockedMoves ==
  ASSUME NEW L, NEW P, Follows(L, P), DOMAIN P = Thread, NEW t \in Thread, NEW q \in Unlocked,
         P[t] \in Unlocked
  PROVE  Follows(L, [P EXCEPT ![t] = q])
<1>1. PICK m \in Mutexes : TRUE
  BY DEF Mutexes
<1>2. \A n \in Mutexes :
         /\ q \notin ReadAt(n) /\ P[t] \notin ReadAt(n)
         /\ q \notin WrittenAt(n) /\ P[t] \notin WrittenAt(n)
  BY Unlocks
<1>3. \A i \in Range(Id) : L.count[t][i] = CountAt(q, i)
  BY AtPlace, UnlockedCounts, <1>1
<1>4. LocksOK(L) /\ L.writer[m] # t /\ t \notin L.readers[m]
  BY <1>2, AtPlace
<1>5. MovesOnly(L, L, P, t, m, q)
  BY <1>2, <1>3, <1>4 DEF MovesOnly
<1> QED
  BY <1>5, Moves

\* A step between unlocked places keeps the mutexes and the places together.
LEMMA StaysUnlocked ==
  ASSUME Follows(locks, pc), DOMAIN pc = Thread, NEW t \in Thread, pc[t] \in Unlocked,
         UNCHANGED locks, \E q \in Unlocked : pc' = [pc EXCEPT ![t] = q]
  PROVE  Follows(locks', pc')
<1>1. PICK q \in Unlocked : pc' = [pc EXCEPT ![t] = q]
  OBVIOUS
<1>2. Follows(locks, [pc EXCEPT ![t] = q])
  BY UnlockedMoves
<1> QED
  BY <1>1, <1>2

\* At the start nobody has locked anything.
LEMMA LocksStart == Init => LocksFollow
<1> SUFFICES ASSUME Init PROVE LocksFollow
  OBVIOUS
<1>1. PlacesOK
  <2>1. pc \in [Thread -> Place]
    BY DEF Init, Place, WorkerPlace
  <2>2. \A w \in Worker : pc[w] \in {"created", "none"}
    BY Kinds DEF Init
  <2>3. \A c \in Client : pc[c] = "idle"
    BY Kinds DEF Init
  <2> QED
    BY <2>1, <2>2, <2>3 DEF PlacesOK, WorkerPlace
<1>2. LocksOK(locks)
  BY DEF Init, LocksOK
<1>3. \A t \in Thread : pc[t] \in Unlocked
  BY DEF Init, Unlocked
<1>4. \A t \in Thread, m \in Mutexes : locks.writer[m] # t /\ t \notin locks.readers[m]
  BY NoThreadIsNone DEF Init
<1>5. \A t \in Thread, i \in Range(Id) : locks.count[t][i] = 0
  BY DEF Init
<1>6. \A t \in Thread, m \in Mutexes : pc[t] \notin ReadAt(m) /\ pc[t] \notin WrittenAt(m)
  BY <1>3, Unlocks
<1>7. \A t \in Thread, i \in Range(Id) : CountAt(pc[t], i) = 0
  BY <1>3, UnlockedCounts
<1> QED
  BY <1>1, <1>2, <1>4, <1>5, <1>6, <1>7 DEF LocksFollow, Follows

\* Every step of every thread leaves the mutexes as the places say.
LEMMA LocksStep ==
  ASSUME LocksFollow, [Next]_vars
  PROVE  LocksFollow'
<1>1. Follows(locks, pc) /\ DOMAIN pc = Thread /\ PlacesOK'
  BY PlacesStep DEF LocksFollow, PlacesOK
<1> DEFINE F == Follows(locks', pc')
<1>2. ASSUME UNCHANGED <<locks, pc>>
      PROVE  F
  BY <1>1, <1>2
<1>3. ASSUME NEW w \in Worker, OfWorker(w)
      PROVE  F
  <2>0. w \in Thread
    BY Kinds
  <2>1. CASE Start(w)
    <3>1. pc[w] = "created" /\ pc' = [pc EXCEPT ![w] = "spin"] /\ locks' = Read(locks, w, "threads")
      BY <2>1 DEF Start, Goto
    <3> QED
      BY <1>1, <2>0, <3>1, Locking DEF Reads
  <2>2. CASE Go(w)
    <3>1. pc[w] = "spin" /\ pc' = [pc EXCEPT ![w] = "loop"] /\ locks' = EndRead(locks, w, "threads")
      BY <2>2 DEF Go, Goto
    <3> QED
      BY <1>1, <2>0, <3>1, Locking DEF Reads
  <2>3. CASE GetNextTask(w)
    <3>1. /\ pc[w] = "loop" /\ locks' = Read(locks, w, "task_queues")
          /\ \/ pc' = [pc EXCEPT ![w] = "most_busy"]
             \/ pc' = [pc EXCEPT ![w] = "write_location"]
      BY <2>3 DEF GetNextTask, Goto
    <3>2. CASE pc' = [pc EXCEPT ![w] = "most_busy"]
      BY <1>1, <2>0, <3>1, <3>2, Locking DEF Reads
    <3>3. CASE pc' = [pc EXCEPT ![w] = "write_location"]
      BY <1>1, <2>0, <3>1, <3>3, Locking DEF Reads
    <3> QED
      BY <3>1, <3>2, <3>3
  <2>4. CASE MostBusy(w)
    <3>1. /\ pc[w] = "most_busy" /\ pc' = [pc EXCEPT ![w] = "search_most_busy"]
          /\ locks' = Read(locks, w, "threads")
      BY <2>4 DEF MostBusy, Goto
    <3> QED
      BY <1>1, <2>0, <3>1, Locking DEF Reads
  <2>5. CASE Compare(w)
    BY <1>2, <2>5 DEF Compare
  <2>6. CASE Steal(w)
    <3>1. /\ pc[w] = "search_most_busy" /\ pc' = [pc EXCEPT ![w] = "write_location"]
          /\ locks' = EndRead(locks, w, "threads")
      BY <2>6 DEF Steal, Goto
    <3> QED
      BY <1>1, <2>0, <3>1, Locking DEF Reads
  <2>7. CASE WriteLocation(w)
    <3> DEFINE L == EndWrite(Write(locks, w, "waiting_locations"), w, "waiting_locations")
               P == [pc EXCEPT ![w] = "write_location"]
    <3>1. /\ pc[w] = "write_location" /\ pc' = [pc EXCEPT ![w] = "wait"]
          /\ CanWrite(locks, w, "waiting_locations")
          /\ locks' = EndRead(L, w, "task_queues")
      BY <2>7 DEF WriteLocation, Goto
    <3>2. Follows(L, P)
      BY <1>1, <2>0, <3>1, LockedOnTheWay DEF Writes
    <3>3. DOMAIN P = Thread /\ P[w] = "write_location" /\ pc' = [P EXCEPT ![w] = "wait"]
      BY <1>1, <2>0, <3>1
    <3>4. <<"wait", P[w], "task_queues">> \in Reads
      BY <3>3 DEF Reads
    <3> HIDE DEF L, P
    <3>5. Follows(EndRead(L, w, "task_queues"), [P EXCEPT ![w] = "wait"])
      BY <2>0, <3>2, <3>3, <3>4, Locking
    <3> QED
      BY <3>1, <3>3, <3>5
  <2>8. CASE Sleep(w) \/ WakeUp(w) \/ StopRequired(w) \/ Take(w) \/ Finish(w)
    <3>1. /\ pc[w] \in Unlocked /\ UNCHANGED locks
          /\ \E q \in Unlocked : pc' = [pc EXCEPT ![w] = q]
      BY <2>8 DEF Sleep, WakeUp, StopRequired, Take, Finish, Iterate, Goto, Unlocked
    <3> QED
      BY <1>1, <2>0, <3>1, StaysUnlocked
  <2> QED
    BY <1>3, <2>1, <2>2, <2>3, <2>4, <2>5, <2>6, <2>7, <2>8 DEF OfWorker
<1>4. ASSUME NEW c \in Client, OfClient(c)
      PROVE  F
  <2>0. c \in Thread
    BY Kinds
  <2>1. CASE LockLocations(c)
    <3>1. /\ pc[c] = "lock_locations" /\ pc' = [pc EXCEPT ![c] = "lock_queues"]
          /\ CanWrite(locks, c, "waiting_locations")
          /\ locks' = Write(locks, c, "waiting_locations")
      BY <2>1 DEF LockLocations, Goto
    <3> QED
      BY <1>1, <2>0, <3>1, Locking DEF Writes
  <2>2. CASE LockQueues(c)
    <3>1. /\ pc[c] = "lock_queues" /\ pc' = [pc EXCEPT ![c] = "lock_threads"]
          /\ CanWrite(locks, c, "task_queues")
          /\ locks' = Write(locks, c, "task_queues")
      BY <2>2 DEF LockQueues, Goto
    <3> QED
      BY <1>1, <2>0, <3>1, Locking DEF Writes
  <2>3. CASE LockThreads(c)
    <3>1. /\ pc[c] = "lock_threads" /\ pc' = [pc EXCEPT ![c] = "search_least_busy"]
          /\ CanWrite(locks, c, "threads")
          /\ locks' = Write(locks, c, "threads")
      BY <2>3 DEF LockThreads, Goto
    <3> QED
      BY <1>1, <2>0, <3>1, Locking DEF Writes
  <2>4. CASE Compare(c)
    BY <1>2, <2>4 DEF Compare
  <2>5. ASSUME NEW L, NEW P, Follows(L, P), DOMAIN P = Thread, P[c] = "lock_queues"
        PROVE  Follows(Release1(L, c), [P EXCEPT ![c] = "idle"])
    BY <2>0, <2>5, Locking DEF Writes, Release1
  <2>6. ASSUME NEW L, NEW P, Follows(L, P), DOMAIN P = Thread, P[c] = "lock_threads"
        PROVE  Follows(Release2(L, c), [P EXCEPT ![c] = "idle"])
    <3> DEFINE M == EndWrite(L, c, "task_queues")
               Q == [P EXCEPT ![c] = "lock_queues"]
    <3>1. Follows(M, Q)
      BY <2>0, <2>6, Locking DEF Writes
    <3>2. DOMAIN Q = Thread /\ Q[c] = "lock_queues" /\ [Q EXCEPT ![c] = "idle"] = [P EXCEPT ![c] = "idle"]
      BY <2>0, <2>6
    <3>3. Release2(L, c) = Release1(M, c)
      BY DEF Release2
    <3> HIDE DEF M, Q
    <3> QED
      BY <2>5, <3>1, <3>2, <3>3
  <2>7. ASSUME NEW L, NEW P, Follows(L, P), DOMAIN P = Thread, P[c] = "search_least_busy"
        PROVE  Follows(Release3(L, c), [P EXCEPT ![c] = "idle"])
    <3> DEFINE M == EndWrite(L, c, "threads")
               Q == [P EXCEPT ![c] = "lock_threads"]
    <3>1. Follows(M, Q)
      BY <2>0, <2>7, Locking DEF Writes
    <3>2. DOMAIN Q = Thread /\ Q[c] = "lock_threads" /\ [Q EXCEPT ![c] = "idle"] = [P EXCEPT ![c] = "idle"]
      BY <2>0, <2>7
    <3>3. Release3(L, c) = Release2(M, c)
      BY DEF Release3
    <3> HIDE DEF M, Q
    <3> QED
      BY <2>6, <3>1, <3>2, <3>3
  <2>8. CASE Push(c)
    <3>1. /\ pc[c] = "search_least_busy" /\ pc' = [pc EXCEPT ![c] = "idle"]
          /\ locks' = Release3(locks, c)
      BY <2>8 DEF Push, Goto
    <3> QED
      BY <1>1, <2>7, <3>1
  <2>9. CASE EnqueueThrows(c)
    <3>1. /\ pc' = [pc EXCEPT ![c] = "idle"]
          /\ \/ pc[c] = "lock_queues" /\ locks' = Release1(locks, c)
             \/ pc[c] = "lock_threads" /\ locks' = Release2(locks, c)
             \/ pc[c] = "search_least_busy" /\ locks' = Release3(locks, c)
      BY <2>9 DEF EnqueueThrows, Goto
    <3> QED
      BY <1>1, <2>5, <2>6, <2>7, <3>1
  <2> QED
    BY <1>4, <2>1, <2>2, <2>3, <2>4, <2>8, <2>9 DEF OfClient
<1>5. ASSUME NEW c \in Client, Enqueue(c) \/ Size(c)
      PROVE  F
  <2>0. c \in Thread
    BY Kinds
  <2>1. CASE Enqueue(c)
    <3>1. pc[c] \in Unlocked /\ UNCHANGED locks /\ \E q \in Unlocked : pc' = [pc EXCEPT ![c] = q]
      BY <2>1 DEF Enqueue, Calling, Goto, Unlocked
    <3> QED
      BY <1>1, <2>0, <3>1, StaysUnlocked
  <2>2. CASE Size(c)
    <3>1. pc[c] = "idle" /\ pc' = pc /\ locks' = EndRead(Read(locks, c, "threads"), c, "threads")
      BY <2>2 DEF Size
    <3>2. Follows(locks', [pc EXCEPT ![c] = "idle"])
      BY <1>1, <2>0, <3>1, LockedOnTheWay DEF Reads
    <3>3. [pc EXCEPT ![c] = "idle"] = pc
      BY <1>1, <3>1 DEF LocksFollow, PlacesOK
    <3> QED
      BY <3>1, <3>2, <3>3
  <2> QED
    BY <1>5, <2>1, <2>2
<1>6. ASSUME OfOwner
      PROVE  F
  <2>0. owner \in Thread
    BY Kinds
  <2>1. CASE LeastBusyQueues
    <3>1. /\ pc[owner] = "least_busy" /\ pc' = [pc EXCEPT ![owner] = "least_busy_threads"]
          /\ locks' = Read(locks, owner, "task_queues")
      BY <2>1 DEF LeastBusyQueues, Goto
    <3> QED
      BY <1>1, <2>0, <3>1, Locking DEF Reads
  <2>2. CASE LeastBusyThreads
    <3>1. /\ pc[owner] = "least_busy_threads" /\ pc' = [pc EXCEPT ![owner] = "search_idle"]
          /\ locks' = Read(locks, owner, "threads")
      BY <2>2 DEF LeastBusyThreads, Goto
    <3> QED
      BY <1>1, <2>0, <3>1, Locking DEF Reads
  <2>3. CASE LeastBusyFound
    <3> DEFINE L == EndRead(locks, owner, "threads")
               P == [pc EXCEPT ![owner] = "least_busy_threads"]
    <3>1. /\ pc[owner] = "search_idle" /\ pc' = [pc EXCEPT ![owner] = "check_idle"]
          /\ locks' = EndRead(L, owner, "task_queues")
      BY <2>3 DEF LeastBusyFound, Goto
    <3>2. Follows(L, P)
      BY <1>1, <2>0, <3>1, Locking DEF Reads
    <3>3. DOMAIN P = Thread /\ P[owner] = "least_busy_threads" /\ pc' = [P EXCEPT ![owner] = "check_idle"]
      BY <1>1, <2>0, <3>1
    <3>4. <<"check_idle", P[owner], "task_queues">> \in Reads
      BY <3>3 DEF Reads
    <3> HIDE DEF L, P
    <3>5. Follows(EndRead(L, owner, "task_queues"), [P EXCEPT ![owner] = "check_idle"])
      BY <2>0, <3>2, <3>3, <3>4, Locking
    <3> QED
      BY <3>1, <3>3, <3>5
  <2>4. CASE CheckIdle
    <3>1. /\ pc[owner] = "check_idle"
          /\ locks' = EndRead(Read(locks, owner, "task_queues"), owner, "task_queues")
          /\ pc' = [pc EXCEPT ![owner] = "find_thread"] \/ pc' = [pc EXCEPT ![owner] = "idle"]
      BY <2>4 DEF CheckIdle, Goto
    <3>2. CASE pc' = [pc EXCEPT ![owner] = "find_thread"]
      BY <1>1, <2>0, <3>1, <3>2, LockedOnTheWay DEF Reads
    <3>3. CASE pc' = [pc EXCEPT ![owner] = "idle"]
      BY <1>1, <2>0, <3>1, <3>3, LockedOnTheWay DEF Reads
    <3> QED
      BY <3>1, <3>2, <3>3
  <2>5. CASE FindThread
    <3>1. /\ pc[owner] = "find_thread" /\ pc' = [pc EXCEPT ![owner] = "join"]
          /\ locks' = EndRead(Read(locks, owner, "threads"), owner, "threads")
      BY <2>5 DEF FindThread, Goto
    <3> QED
      BY <1>1, <2>0, <3>1, LockedOnTheWay DEF Reads
  <2>6. CASE Join \/ DestroyNext
    <3>1. /\ pc[owner] \in Unlocked /\ UNCHANGED locks
          /\ \E q \in Unlocked : pc' = [pc EXCEPT ![owner] = q]
      BY <2>6 DEF Join, DestroyNext, Goto, Unlocked
    <3> QED
      BY <1>1, <2>0, <3>1, StaysUnlocked
  <2>7. CASE StopLocation
    <3>1. /\ pc[owner] = "stop_location" /\ pc' = [pc EXCEPT ![owner] = "stop_queue"]
          /\ CanWrite(locks, owner, "waiting_locations")
          /\ locks' = EndWrite(Write(locks, owner, "waiting_locations"), owner, "waiting_locations")
      BY <2>7 DEF StopLocation, Goto
    <3> QED
      BY <1>1, <2>0, <3>1, LockedOnTheWay DEF Writes
  <2>8. CASE StopQueue
    <3>1. /\ pc[owner] = "stop_queue" /\ pc' = [pc EXCEPT ![owner] = "erase_queue"]
          /\ CanWrite(locks, owner, "task_queues")
          /\ locks' = Write(locks, owner, "task_queues")
      BY <2>8 DEF StopQueue, Goto
    <3> QED
      BY <1>1, <2>0, <3>1, Locking DEF Writes
  <2>9. CASE EraseQueue
    <3>1. /\ pc[owner] = "erase_queue" /\ pc' = [pc EXCEPT ![owner] = "erase_thread"]
          /\ locks' = EndWrite(locks, owner, "task_queues")
      BY <2>9 DEF EraseQueue, Goto
    <3> QED
      BY <1>1, <2>0, <3>1, Locking DEF Writes
  <2>10. CASE EraseThread
    <3>1. \/ UNCHANGED <<locks, pc>>
          \/ /\ pc[owner] \in Unlocked /\ UNCHANGED locks
             /\ \E q \in Unlocked : pc' = [pc EXCEPT ![owner] = q]
      BY <2>10 DEF EraseThread, Dies, Unlocked
    <3>2. CASE UNCHANGED <<locks, pc>>
      BY <1>2, <3>2
    <3>3. CASE /\ pc[owner] \in Unlocked /\ UNCHANGED locks
               /\ \E q \in Unlocked : pc' = [pc EXCEPT ![owner] = q]
      BY <1>1, <2>0, <3>3, StaysUnlocked
    <3> QED
      BY <3>1, <3>2, <3>3
  <2>11. CASE AddLock
    <3>1. PICK step \in {<<"add_threads", "threads", "add_queues">>,
                         <<"add_queues", "task_queues", "add_locations">>,
                         <<"add_locations", "waiting_locations", "add_loop">>} :
            /\ pc[owner] = step[1] /\ pc' = [pc EXCEPT ![owner] = step[3]]
            /\ CanWrite(locks, owner, step[2])
            /\ locks' = Write(locks, owner, step[2])
      BY <2>11 DEF AddLock, Goto
    <3>2. <<pc[owner], step[3], step[2]>> \in Writes
      BY <3>1 DEF Writes
    <3> QED
      BY <1>1, <2>0, <3>1, <3>2, Locking
  <2>12. CASE AddThread
    <3>1. UNCHANGED locks /\ \E w \in Worker : pc[w] = "none" /\ pc' = [pc EXCEPT ![w] = "created"]
      BY <2>12 DEF AddThread
    <3>2. "none" \in Unlocked /\ "created" \in Unlocked
      BY DEF Unlocked
    <3>3. PICK w \in Worker : pc[w] = "none" /\ pc' = [pc EXCEPT ![w] = "created"]
      BY <3>1
    <3>4. w \in Thread
      BY Kinds
    <3> QED
      BY <1>1, <3>1, <3>2, <3>3, <3>4, StaysUnlocked
  <2>13. CASE AddThreadFails
    <3> DEFINE L == EndWrite(locks, owner, "waiting_locations")
               P == [pc EXCEPT ![owner] = "add_locations"]
               M == EndWrite(L, owner, "task_queues")
               Q == [P EXCEPT ![owner] = "add_queues"]
    <3>1. /\ pc[owner] = "add_loop" /\ pc' = [pc EXCEPT ![owner] = "idle"]
          /\ locks' = EndWrite(M, owner, "threads")
      BY <2>13 DEF AddThreadFails, Goto
    <3>2. Follows(L, P)
      BY <1>1, <2>0, <3>1, Locking DEF Writes
    <3>3. DOMAIN P = Thread /\ P[owner] = "add_locations" /\ pc' = [P EXCEPT ![owner] = "idle"]
      BY <1>1, <2>0, <3>1
    <3> HIDE DEF L, P
    <3>4. Follows(M, Q)
      BY <2>0, <3>2, <3>3, Locking DEF Writes
    <3>5. DOMAIN Q = Thread /\ Q[owner] = "add_queues" /\ pc' = [Q EXCEPT ![owner] = "idle"]
      BY <2>0, <3>3
    <3>6. <<"idle", Q[owner], "threads">> \in Writes
      BY <3>5 DEF Writes
    <3> HIDE DEF M, Q
    <3>7. Follows(EndWrite(M, owner, "threads"), [Q EXCEPT ![owner] = "idle"])
      BY <2>0, <3>4, <3>5, <3>6, Locking
    <3> QED
      BY <3>1, <3>5, <3>7
  <2> QED
    BY <1>6, <2>1, <2>2, <2>3, <2>4, <2>5, <2>6, <2>7, <2>8, <2>9, <2>10, <2>11, <2>12, <2>13 DEF OfOwner
<1>7. ASSUME RemoveThreads \/ AddThreads
      PROVE  F
  <2>1. pc[owner] \in Unlocked /\ UNCHANGED locks /\ \E q \in Unlocked : pc' = [pc EXCEPT ![owner] = q]
    BY <1>7 DEF RemoveThreads, AddThreads, Calling, Goto, Unlocked
  <2> QED
    BY <1>1, <2>1, StaysUnlocked, Kinds
<1>8. ASSUME Destroy
      PROVE  F
  <2>1. /\ pc[owner] = "idle" /\ pc' = [pc EXCEPT ![owner] = "destroy"]
        /\ CanWrite(locks, owner, "threads")
        /\ locks' = EndWrite(Write(locks, owner, "threads"), owner, "threads")
    BY <1>8 DEF Destroy, Goto
  <2> QED
    BY <1>1, <2>1, LockedOnTheWay, Kinds DEF Writes
<1>9. ASSUME NEW w \in Worker, SpuriousWakeUp(w) \/ Dangling(w)
      PROVE  F
  BY <1>2, <1>9 DEF SpuriousWakeUp, Dangling, Dies
<1>10. ASSUME NEW t \in Thread, RunsIntoUnreachable(t)
       PROVE  F
  BY <1>2, <1>10 DEF RunsIntoUnreachable, Dies
<1>11. F
  BY <1>2, <1>3, <1>4, <1>5, <1>6, <1>7, <1>8, <1>9, <1>10 DEF Next, vars
<1> QED
  BY <1>1, <1>11 DEF LocksFollow

\* What each thread has locked, of which mutexes and how, and how often it is counted,
\* is what its place in the code says: no lock is leaked, lost or released by another
\* thread, on no path of no operation and whichever mutexes share an id.
THEOREM LocksAreThoseOfThePlace == Spec => []LocksFollow
<1>1. Init => LocksFollow
  BY LocksStart
<1>2. LocksFollow /\ [Next]_vars => LocksFollow'
  BY LocksStep
<1> QED
  BY <1>1, <1>2, PTL DEF Spec

-----------------------------------------------------------------------------
(* No deadlock among the mutexes                                           *)

\* What threads ask for at the places where they already have a mutex, and where they have none.
LEMMA Requesting ==
  /\ \A p \in DOMAIN Requests : Requests[p][1] \in Mutexes
  /\ \A p \in {"most_busy", "least_busy_threads", "lock_threads"} : Requests[p][1] = "threads"
  /\ Requests["write_location"][1] = "waiting_locations"
  /\ Requests["lock_queues"][1] = "task_queues"
  /\ \A p \in DOMAIN Requests \ {"most_busy", "least_busy_threads", "lock_threads", "write_location",
                                 "lock_queues", "add_queues", "add_locations"} : p \in Unlocked
<1>1. DOMAIN Requests =
        {"created", "loop", "most_busy", "write_location", "lock_locations", "lock_queues",
         "lock_threads", "least_busy", "least_busy_threads", "check_idle", "find_thread",
         "stop_location", "stop_queue", "erase_thread", "add_threads", "add_queues", "add_locations"}
  BY DEF Requests
<1>2. \A p \in {"created", "most_busy", "lock_threads", "least_busy_threads", "find_thread",
                "erase_thread", "add_threads"} : Requests[p][1] = "threads"
  BY DEF Requests
<1>3. \A p \in {"loop", "lock_queues", "least_busy", "check_idle", "stop_queue", "add_queues"} :
         Requests[p][1] = "task_queues"
  BY DEF Requests
<1>4. \A p \in {"write_location", "lock_locations", "stop_location", "add_locations"} :
         Requests[p][1] = "waiting_locations"
  BY DEF Requests
<1>5. \A p \in DOMAIN Requests : Requests[p][1] \in Mutexes
  BY <1>1, <1>2, <1>3, <1>4 DEF Mutexes
<1>6. \A p \in DOMAIN Requests \ {"most_busy", "least_busy_threads", "lock_threads", "write_location",
                                 "lock_queues", "add_queues", "add_locations"} : p \in Unlocked
  BY <1>1 DEF Unlocked
<1> QED
  BY <1>2, <1>3, <1>4, <1>5, <1>6

\* Who counts a mutex, or one with its id, has it; who has locked it counts it.
LEMMA HeldWhereCounted ==
  ASSUME LocksFollow, NEW t \in Thread, NEW m \in Mutexes
  PROVE  /\ pc[t] \in CountedAt(m) => Holds(locks, t, m)
         /\ \A n \in Mutexes : Same(m, n) /\ pc[t] \in CountedAt(n) => Holds(locks, t, m)
         /\ locks.writer[m] = t \/ t \in locks.readers[m] => pc[t] \in CountedAt(m)
<1>1. Follows(locks, pc)
  BY DEF LocksFollow
<1>2. /\ locks.count[t][Id[m]] = CountAt(pc[t], Id[m])
      /\ locks.writer[m] = t <=> pc[t] \in WrittenAt(m)
      /\ t \in locks.readers[m] <=> pc[t] \in ReadAt(m)
  BY <1>1, AtPlace
<1>3. \A n \in Mutexes : Same(m, n) /\ pc[t] \in CountedAt(n) => CountAt(pc[t], Id[m]) > 0
  BY DEF CountAt, OneIf, Same, Mutexes
<1>4. ReadAt(m) \subseteq CountedAt(m) /\ WrittenAt(m) \subseteq CountedAt(m)
  <2>1. CASE m = "threads"
    BY <2>1 DEF CountedAt, ReadAt, WrittenAt, Unless
  <2>2. CASE m = "task_queues"
    BY <2>2 DEF CountedAt, ReadAt, WrittenAt, Unless
  <2>3. CASE m = "waiting_locations"
    BY <2>3 DEF CountedAt, ReadAt, WrittenAt, Unless
  <2> QED
    BY <2>1, <2>2, <2>3 DEF Mutexes
<1> QED
  BY <1>2, <1>3, <1>4 DEF Holds, Same

\* Whoever blocks a thread has the mutex that the thread wants, and the thread does not.
LEMMA Blocking ==
  ASSUME LocksFollow, NEW t \in Thread, NEW u \in Blockers(t)
  PROVE  /\ u \in Thread /\ pc[t] \in DOMAIN Requests
         /\ pc[u] \in CountedAt(Requests[pc[t]][1])
         /\ ~Holds(locks, t, Requests[pc[t]][1])
<1> DEFINE m == Requests[pc[t]][1]
<1>1. /\ pc[t] \in DOMAIN Requests /\ ~Holds(locks, t, m)
      /\ u \in ({locks.writer[m]} \ {NoThread}) \cup locks.readers[m]
  BY DEF Blockers
<1>2. m \in Mutexes
  BY <1>1, Requesting
<1> HIDE DEF m
<1>3. LocksOK(locks)
  BY DEF LocksFollow, Follows
<1>4. locks.writer[m] \in Thread \cup {NoThread} /\ locks.readers[m] \subseteq Thread
  BY <1>2, <1>3 DEF LocksOK
<1>5. u \in Thread /\ (locks.writer[m] = u \/ u \in locks.readers[m])
  BY <1>1, <1>4
<1>6. pc[u] \in CountedAt(m)
  BY <1>2, <1>5, HeldWhereCounted
<1> QED
  BY <1>1, <1>5, <1>6 DEF m

\* If the ids of task_queues and of waiting_locations coincide no threads wait for each
\* other in a circle: who has one of the two is not kept from the other, and who has
\* threads waits for none.
THEOREM IdsAvoidCycles ==
  ASSUME Same("task_queues", "waiting_locations")
  PROVE  Spec => []NoLockCycle
<1>1. LocksFollow => NoLockCycle
  <2> SUFFICES ASSUME LocksFollow PROVE NoLockCycle
    OBVIOUS
  <2> DEFINE blockers == [t \in Thread |-> Blockers(t)]
             stuck == {t \in Thread : blockers[t] # {} /\ pc[t] \notin {"add_queues", "add_locations"}}
             Inside == {"most_busy", "least_busy_threads", "lock_threads"}
  <2>1. \A t \in Thread : blockers[t] = Blockers(t)
    OBVIOUS
  <2>2. ASSUME NEW t \in stuck
        PROVE  /\ t \in Thread /\ pc[t] \in Inside \cup Unlocked
               /\ pc[t] \in Inside => Requests[pc[t]][1] = "threads"
    <3>1. PICK u : u \in Blockers(t)
      BY <2>1
    <3>2. t \in Thread /\ pc[t] \in DOMAIN Requests /\ ~Holds(locks, t, Requests[pc[t]][1])
      BY <3>1, Blocking
    <3>3. pc[t] # "write_location"
      <4>1. SUFFICES ASSUME pc[t] = "write_location" PROVE FALSE
        OBVIOUS
      <4>2. "write_location" \in CountedAt("task_queues")
        BY DEF CountedAt
      <4>3. Holds(locks, t, "waiting_locations")
        BY <3>2, <4>1, <4>2, HeldWhereCounted DEF Mutexes, Same
      <4> QED
        BY <3>2, <4>1, <4>3, Requesting
    <3>4. pc[t] # "lock_queues"
      <4>1. SUFFICES ASSUME pc[t] = "lock_queues" PROVE FALSE
        OBVIOUS
      <4>2. "lock_queues" \in CountedAt("waiting_locations")
        BY DEF CountedAt
      <4>3. Holds(locks, t, "task_queues")
        BY <3>2, <4>1, <4>2, HeldWhereCounted DEF Mutexes
      <4> QED
        BY <3>2, <4>1, <4>3, Requesting
    <3> QED
      BY <3>2, <3>3, <3>4, Requesting
  <2>3. \A t \in stuck : pc[t] \notin CountedAt("threads")
    BY <2>2, Unlocks DEF CountedAt, Mutexes
  <2>4. ASSUME NEW t \in stuck, NEW u \in Blockers(t)
        PROVE  /\ u \in Thread /\ pc[u] \notin Unlocked
               /\ pc[t] \in Inside => u \notin stuck
    <3>1. /\ u \in Thread /\ pc[t] \in DOMAIN Requests /\ pc[u] \in CountedAt(Requests[pc[t]][1])
      BY <2>2, Blocking
    <3>2. pc[u] \notin Unlocked
      BY <3>1, Requesting, Unlocks
    <3>3. pc[t] \in Inside => u \notin stuck
      BY <2>2, <2>3, <3>1
    <3> QED
      BY <3>1, <3>2, <3>3
  <2> HIDE DEF stuck
  <2>5. ASSUME NEW S \in SUBSET stuck, S # {}
        PROVE  \E t \in S : blockers[t] \cap S = {}
    <3>1. CASE \E t \in S : pc[t] \in Inside
      <4>1. PICK t \in S : pc[t] \in Inside
        BY <3>1
      <4>2. blockers[t] \cap S = {}
        BY <2>1, <2>2, <2>4, <4>1
      <4> QED
        BY <4>2
    <3>2. CASE \A t \in S : pc[t] \notin Inside
      <4>1. PICK t : t \in S
        BY <2>5
      <4>2. \A u \in S : pc[u] \in Unlocked
        BY <2>2, <3>2
      <4>3. blockers[t] \cap S = {}
        BY <2>1, <2>2, <2>4, <4>1, <4>2
      <4> QED
        BY <4>1, <4>3
    <3> QED
      BY <3>1, <3>2
  <2> QED
    BY <2>5 DEF NoLockCycle, stuck
<1> QED
  BY <1>1, LocksAreThoseOfThePlace, PTL

-----------------------------------------------------------------------------
(* The tables and where the workers wait                                   *)

\* The threads of the pool are workers, and there is a first one.
LEMMA Elements ==
  ASSUME TablesOK
  PROVE  /\ Range(threads) \subseteq Worker /\ Range(threads) \subseteq Queue
         /\ threads[1] \in Range(threads)
<1>1. threads \in Seq(Worker) /\ Len(threads) \in Nat \ {0}
  BY DEF TablesOK
<1> QED
  BY <1>1 DEF Range, Queue

\* A step of t changes the choice of t only.
OwnChoice(t) ==
  /\ best' \in [Thread -> Queue] /\ seen' \in [Thread -> SUBSET Queue]
  /\ \A u \in Thread \ {t} : best'[u] = best[u] /\ seen'[u] = seen[u]

\* Each way a step sets its choice leaves the choices of the other threads alone.
LEMMA OwnChoices ==
  ASSUME TablesOK, NEW t \in Thread
  PROVE  /\ UNCHANGED search => OwnChoice(t)
         /\ \A b \in Queue : Chooses(t, b) /\ UNCHANGED seen => OwnChoice(t) /\ best'[t] = b
         /\ StartSearch(t) => OwnChoice(t) /\ seen'[t] = {}
<1>1. best \in [Thread -> Queue] /\ seen \in [Thread -> SUBSET Queue]
  BY DEF TablesOK
<1>2. UNCHANGED search => OwnChoice(t)
  BY <1>1 DEF OwnChoice, search
<1>3. ASSUME NEW b \in Queue, Chooses(t, b), UNCHANGED seen
      PROVE  OwnChoice(t) /\ best'[t] = b
  BY <1>1, <1>3 DEF OwnChoice, Chooses
<1>4. ASSUME StartSearch(t)
      PROVE  OwnChoice(t) /\ seen'[t] = {}
  <2>1. GetId(threads[1]) \in Queue
    BY Elements DEF GetId, Queue
  <2>2. best' = [best EXCEPT ![t] = GetId(threads[1])] /\ seen' = [seen EXCEPT ![t] = {}]
    BY <1>4 DEF StartSearch, Chooses
  <2> QED
    BY <1>1, <2>1, <2>2 DEF OwnChoice
<1> QED
  BY <1>2, <1>3, <1>4

\* A worker moves, neither from where it is not yet or no longer.
LEMMA WorkerMoves ==
  ASSUME TablesIInv, NEW w \in Worker, NEW q \in WorkerPlace, q # "none",
         pc[w] \notin {"none", "exited"}, pc' = [pc EXCEPT ![w] = q],
         UNCHANGED <<threads, joined>>, DOMAIN task_queues' = DOMAIN task_queues,
         DOMAIN waiting_locations' = DOMAIN waiting_locations,
         OwnChoice(w), q \notin Searching \/ seen'[w] = {}
  PROVE  EntriesAreThreads' /\ RemovedIsThread' /\ ChoiceExists'
<1>1. /\ w \in Thread /\ owner \in Thread /\ owner # w
      /\ pc'[w] = q /\ \A u \in Thread \ {w} : pc'[u] = pc[u]
  BY Kinds DEF TablesIInv, PlacesOK
<1>2. pc'[owner] = pc[owner] /\ best'[owner] = best[owner]
  BY <1>1 DEF OwnChoice
<1>3. Range(threads) \subseteq Worker
  BY Elements DEF TablesIInv
<1>4. EntriesAreThreads'
  <2>1. \A u \in Worker : u \in Range(threads) <=> pc'[u] # "none"
    BY <1>1, Kinds DEF TablesIInv, EntriesAreThreads
  <2>2. \A S : NoLonger(S)' = NoLonger(S)
    BY <1>2 DEF NoLonger
  <2> QED
    BY <1>2, <2>1, <2>2 DEF TablesIInv, EntriesAreThreads
<1>5. RemovedIsThread'
  <2>1. pc[owner] \in Removing \cup {"check_idle"} => best[owner] \in Range(threads)
    BY DEF TablesIInv, RemovedIsThread
  <2>2. pc[owner] \in Ended => pc[best[owner]] = "exited" /\ best[owner] \in Range(threads)
    BY <2>1 DEF TablesIInv, RemovedIsThread, Ended, Removing
  <2>3. pc[owner] \in Ended => pc'[best[owner]] = "exited"
    BY <1>1, <1>3, <2>2, Kinds
  <2> QED
    BY <1>2, <2>1, <2>3 DEF RemovedIsThread
<1>6. ChoiceExists'
  <2> SUFFICES ASSUME pc'[owner] # "erase_thread", NEW t \in Thread, pc'[t] \in Searching, seen'[t] # {}
               PROVE  best'[t] \in DOMAIN task_queues
    BY DEF ChoiceExists
  <2>1. t # w
    BY <1>1
  <2>2. pc'[t] = pc[t] /\ seen'[t] = seen[t] /\ best'[t] = best[t]
    BY <1>1, <2>1 DEF OwnChoice
  <2> QED
    BY <1>2, <2>2 DEF TablesIInv, ChoiceExists
<1> QED
  BY <1>4, <1>5, <1>6

\* It was not asleep, and does not wait after.
LEMMA WaitersStay ==
  ASSUME TablesIInv, NEW w \in Worker, NEW q, q \notin {"wait", "asleep"},
         pc[w] # "asleep", pc' = [pc EXCEPT ![w] = q], UNCHANGED places, OwnChoice(w)
  PROVE  SleepersWait'
<1>1. /\ Worker \subseteq Thread
      /\ pc'[w] = q /\ \A u \in Thread \ {w} : pc'[u] = pc[u] /\ best'[u] = best[u]
  BY Kinds DEF TablesIInv, PlacesOK, OwnChoice
<1>2. asleep' = asleep /\ waiting_locations' = waiting_locations
  BY DEF places
<1>3. asleep \in [Queue -> SUBSET Worker]
  BY DEF TablesIInv, TablesOK
<1>4. ASSUME NEW r \in Queue, NEW u \in asleep[r]
      PROVE  pc'[u] = "asleep" /\ best'[u] = r
  <2>1. pc[u] = "asleep" /\ best[u] = r /\ u \in Thread
    BY <1>1, <1>3 DEF TablesIInv, SleepersWait
  <2> QED
    BY <1>1, <2>1
<1>5. ASSUME NEW u \in Worker, pc'[u] \in {"wait", "asleep"}
      PROVE  waiting_locations[u] = best'[u]
  BY <1>1, <1>5 DEF TablesIInv, SleepersWait
<1> QED
  BY <1>2, <1>4, <1>5 DEF SleepersWait

\* A client moves, outside of a removal of a thread.
LEMMA ClientMoves ==
  ASSUME TablesIInv, NEW c \in Client, NEW q,
         {pc[c], q} \cap (Removing \cup {"check_idle"}) = {}, pc' = [pc EXCEPT ![c] = q],
         UNCHANGED <<threads, joined, waiting_locations>>,
         DOMAIN task_queues' = DOMAIN task_queues \/ pc[owner] = "erase_thread",
         \A r \in Queue : asleep'[r] \subseteq asleep[r],
         OwnChoice(c), q \notin Searching \/ seen'[c] = {}
  PROVE  EntriesAreThreads' /\ RemovedIsThread' /\ ChoiceExists' /\ SleepersWait'
<1>1. /\ c \in Thread /\ c \notin Worker /\ Worker \subseteq Thread
      /\ pc'[c] = q /\ \A u \in Thread \ {c} : pc'[u] = pc[u] /\ best'[u] = best[u] /\ seen'[u] = seen[u]
  BY Kinds DEF TablesIInv, PlacesOK, OwnChoice
<1>2. \A S : S \subseteq Removing => NoLonger(S)' = NoLonger(S)
  <2>1. CASE c = owner
    BY <1>1, <2>1 DEF NoLonger
  <2>2. CASE c # owner
    BY <1>1, <2>2, Kinds DEF NoLonger
  <2> QED
    BY <2>1, <2>2
<1>3. \/ pc'[owner] = pc[owner] /\ best'[owner] = best[owner]
      \/ {pc[owner], pc'[owner]} \cap (Removing \cup {"check_idle"}) = {}
  <2>1. CASE c = owner
    BY <1>1, <2>1
  <2>2. CASE c # owner
    BY <1>1, <2>2, Kinds
  <2> QED
    BY <2>1, <2>2
<1>4. Ended \subseteq Removing /\ Unplaced \subseteq Removing /\ "erase_thread" \in Removing
  BY DEF Ended, Unplaced, Removing
<1>5. EntriesAreThreads'
  <2>1. \A u \in Worker : u \in Range(threads) <=> pc'[u] # "none"
    BY <1>1 DEF TablesIInv, EntriesAreThreads
  <2>2. pc'[owner] # "erase_thread" => DOMAIN task_queues' = Range(threads)
    BY <1>3, <1>4 DEF TablesIInv, EntriesAreThreads
  <2> QED
    BY <1>2, <1>4, <2>1, <2>2 DEF TablesIInv, EntriesAreThreads
<1>6. RemovedIsThread'
  <2>1. CASE pc'[owner] \notin Removing \cup {"check_idle"}
    BY <1>4, <2>1 DEF RemovedIsThread
  <2>2. CASE pc'[owner] = pc[owner] /\ best'[owner] = best[owner]
    <3>1. pc[owner] \in Ended => pc'[best[owner]] = pc[best[owner]]
      <4>1. Range(threads) \subseteq Worker
        BY Elements DEF TablesIInv
      <4>2. pc[owner] \in Ended => best[owner] \in Range(threads)
        BY <1>4 DEF TablesIInv, RemovedIsThread
      <4> QED
        BY <1>1, <4>1, <4>2
    <3> QED
      BY <2>2, <3>1 DEF TablesIInv, RemovedIsThread
  <2> QED
    BY <1>3, <2>1, <2>2
<1>7. ChoiceExists'
  <2> SUFFICES ASSUME pc'[owner] # "erase_thread", NEW t \in Thread, pc'[t] \in Searching, seen'[t] # {}
               PROVE  best'[t] \in DOMAIN task_queues'
    BY DEF ChoiceExists
  <2>1. t # c
    BY <1>1
  <2>2. pc'[t] = pc[t] /\ seen'[t] = seen[t] /\ best'[t] = best[t]
    BY <1>1, <2>1
  <2>3. pc[owner] # "erase_thread"
    BY <1>3, <1>4
  <2> QED
    BY <2>2, <2>3 DEF TablesIInv, ChoiceExists
<1>8. SleepersWait'
  <2>1. asleep \in [Queue -> SUBSET Worker]
    BY DEF TablesIInv, TablesOK
  <2>2. ASSUME NEW r \in Queue, NEW u \in asleep'[r]
        PROVE  pc'[u] = "asleep" /\ best'[u] = r
    <3>1. u \in asleep[r] /\ u \in Worker
      BY <2>1
    <3>2. pc[u] = "asleep" /\ best[u] = r
      BY <3>1 DEF TablesIInv, SleepersWait
    <3> QED
      BY <1>1, <3>1, <3>2
  <2>3. ASSUME NEW u \in Worker, pc'[u] \in {"wait", "asleep"}
        PROVE  waiting_locations[u] = best'[u]
    <3>1. u \in Thread \ {c}
      BY <1>1
    <3> QED
      BY <1>1, <2>3, <3>1 DEF TablesIInv, SleepersWait
  <2> QED
    BY <2>2, <2>3 DEF SleepersWait
<1> QED
  BY <1>5, <1>6, <1>7, <1>8

\* The constructor fills the tables.
LEMMA TablesStart == Init => TablesIInv
<1> SUFFICES ASSUME Init PROVE TablesIInv
  OBVIOUS
<1>1. PlacesOK
  BY LocksStart DEF LocksFollow
<1>2. /\ FirstThreads \in Seq(Worker) /\ FirstThreads # <<>>
      /\ FirstThreads[1] \in Worker /\ InitialWorkers \subseteq Worker
  BY PoolAssumption DEF InitialWorkers, Range
<1>3. /\ threads = FirstThreads /\ Range(threads) = InitialWorkers
      /\ go = InitialWorkers /\ stop_token = {} /\ joined = {} /\ queue_stop = {}
      /\ DOMAIN task_queues = InitialWorkers /\ DOMAIN waiting_locations = InitialWorkers
      /\ \A w \in InitialWorkers : waiting_locations[w] = w
      /\ \A q \in Queue : asleep[q] = {}
  BY DEF Init, InitialWorkers, Queue
<1>4. TablesOK
  <2>1. asleep \in [Queue -> SUBSET Worker]
    BY DEF Init, Queue
  <2>2. waiting_locations \in [InitialWorkers -> Queue]
    BY <1>2 DEF Init, Queue
  <2>3. best \in [Thread -> Queue] /\ seen \in [Thread -> SUBSET Queue]
    BY <1>2 DEF Init, Queue
  <2> QED
    BY <1>2, <1>3, <2>1, <2>2, <2>3 DEF TablesOK, Queue
<1>5. /\ pc[owner] = "idle"
      /\ \A w \in Worker : pc[w] = IF w \in InitialWorkers THEN "created" ELSE "none"
      /\ \A t \in Thread : pc[t] \in {"idle", "created", "none"}
  <2>1. owner \in Thread /\ \A w \in Worker : w \in Thread /\ w \notin Client
    BY Kinds
  <2> QED
    BY <2>1, Kinds DEF Init
<1>6. EntriesAreThreads
  <2>1. \A S : S \subseteq Removing => NoLonger(S) = {}
    BY <1>5 DEF NoLonger, Removing
  <2>2. Ended \subseteq Removing /\ Unplaced \subseteq Removing
    BY DEF Ended, Unplaced, Removing
  <2> QED
    BY <1>3, <1>5, <2>1, <2>2 DEF EntriesAreThreads
<1>7. RemovedIsThread /\ ChoiceExists /\ SleepersWait
  BY <1>3, <1>5 DEF RemovedIsThread, ChoiceExists, SleepersWait, Removing, Ended, Searching
<1> QED
  BY <1>1, <1>4, <1>6, <1>7 DEF TablesIInv

\* The types of the tables, which most steps leave alone.
LEMMA TablesTypes ==
  ASSUME TablesOK, NEW t \in Thread, UNCHANGED <<tables, waiting_locations, stop_token, queue_stop>>,
         DOMAIN task_queues' = DOMAIN task_queues, asleep' \in [Queue -> SUBSET Worker], OwnChoice(t)
  PROVE  TablesOK'
  BY DEF TablesOK, OwnChoice, tables

\* A search goes on: what it has chosen exists.
LEMMA CompareTables ==
  ASSUME TablesIInv, NEW t \in Thread, Compare(t)
  PROVE  TablesIInv'
<1>1. PICK q \in DOMAIN task_queues \ seen[t] :
        /\ pc[t] \in Searching /\ best[t] \in DOMAIN task_queues
        /\ seen' = [seen EXCEPT ![t] = @ \cup {q}]
        /\ best' = [best EXCEPT ![t] = q] \/ best' = best
        /\ UNCHANGED <<tables, stop_token, queues, places, pc>>
  BY DEF Compare
<1>2. /\ best \in [Thread -> Queue] /\ seen \in [Thread -> SUBSET Queue]
      /\ asleep \in [Queue -> SUBSET Worker] /\ DOMAIN task_queues \subseteq Queue
  BY DEF TablesIInv, TablesOK
<1>3. OwnChoice(t) /\ best'[t] \in DOMAIN task_queues
  BY <1>1, <1>2 DEF OwnChoice
<1>4. UNCHANGED <<threads, go, joined, stop_token, task_queues, queue_stop, asleep, waiting_locations, pc>>
  BY <1>1 DEF tables, queues, places
<1>5. TablesOK' /\ PlacesOK'
  BY <1>2, <1>3, <1>4, TablesTypes DEF TablesIInv, PlacesOK, tables
<1>6. pc[owner] \in Removing \cup {"check_idle"} => best'[owner] = best[owner]
  <2>1. CASE t = owner
    BY <1>1, <2>1 DEF Searching, Removing
  <2>2. CASE t # owner
    BY <1>3, <2>2, Kinds DEF OwnChoice
  <2> QED
    BY <2>1, <2>2
<1>7. Ended \subseteq Removing /\ Unplaced \subseteq Removing
  BY DEF Ended, Unplaced, Removing
<1>8. \A S : S \subseteq Removing => NoLonger(S)' = NoLonger(S)
  BY <1>4, <1>6 DEF NoLonger
<1>9. EntriesAreThreads' /\ RemovedIsThread'
  BY <1>4, <1>6, <1>7, <1>8 DEF TablesIInv, EntriesAreThreads, RemovedIsThread
<1>10. ChoiceExists'
  BY <1>3, <1>4 DEF TablesIInv, ChoiceExists, OwnChoice
<1>11. \A u \in Worker : pc[u] \in {"wait", "asleep"} => best'[u] = best[u]
  BY <1>1, <1>3, Kinds DEF OwnChoice, Searching
<1>12. SleepersWait'
  <2>1. ASSUME NEW r \in Queue, NEW u \in asleep[r]
        PROVE  pc[u] = "asleep" /\ best'[u] = r
    BY <1>2, <1>11 DEF TablesIInv, SleepersWait
  <2> QED
    BY <1>4, <1>11, <2>1 DEF TablesIInv, SleepersWait
<1> QED
  BY <1>5, <1>9, <1>10, <1>12 DEF TablesIInv

\* The steps of a worker keep the tables.
LEMMA WorkerTables ==
  ASSUME TablesIInv, NEW w \in Worker, OfWorker(w)
  PROVE  TablesIInv'
<1>0. /\ w \in Thread /\ TablesOK /\ asleep \in [Queue -> SUBSET Worker] /\ w \in Queue
      /\ best \in [Thread -> Queue] /\ seen \in [Thread -> SUBSET Queue] /\ best[w] \in Queue
  BY Kinds DEF TablesIInv, TablesOK, Queue
<1>1. PlacesOK'
  <2>1. [Next]_vars
    BY DEF Next
  <2> QED
    BY <2>1, PlacesStep DEF TablesIInv
<1>2. ASSUME NEW q \in WorkerPlace, q # "none", pc[w] \notin {"none", "exited"},
             pc' = [pc EXCEPT ![w] = q],
             UNCHANGED <<tables, stop_token, queue_stop>>, DOMAIN task_queues' = DOMAIN task_queues,
             OwnChoice(w), q \notin Searching \/ seen'[w] = {},
             q \notin {"wait", "asleep"}, pc[w] # "asleep", UNCHANGED places
      PROVE  TablesIInv'
  <2>1. UNCHANGED <<threads, joined, waiting_locations, asleep>>
    BY <1>2 DEF tables, places
  <2>2. TablesOK'
    BY <1>0, <1>2, <2>1, TablesTypes
  <2>3. SleepersWait'
    BY <1>2, WaitersStay
  <2>4. EntriesAreThreads' /\ RemovedIsThread' /\ ChoiceExists'
    BY <1>2, <2>1, WorkerMoves
  <2> QED
    BY <1>1, <2>2, <2>3, <2>4 DEF TablesIInv
<1>3. ASSUME UNCHANGED search
      PROVE  OwnChoice(w)
  BY <1>0, <1>3, OwnChoices
<1>4. CASE Start(w) \/ Go(w)
  <2>1. /\ UNCHANGED <<tables, stop_token, queue_stop, places, search>> /\ DOMAIN task_queues' = DOMAIN task_queues
        /\ pc[w] \in {"created", "spin"}
        /\ \E q \in {"spin", "loop"} : pc' = [pc EXCEPT ![w] = q]
    BY <1>4 DEF Start, Go, Goto, queues
  <2> QED
    BY <1>2, <1>3, <2>1 DEF WorkerPlace, Searching
<1>5. CASE GetNextTask(w)
  <2>1. /\ UNCHANGED <<tables, stop_token, queue_stop, places>> /\ DOMAIN task_queues' = DOMAIN task_queues
        /\ pc[w] = "loop" /\ UNCHANGED seen
        /\ \/ pc' = [pc EXCEPT ![w] = "most_busy"] /\ UNCHANGED best
           \/ pc' = [pc EXCEPT ![w] = "write_location"] /\ Chooses(w, w)
    BY <1>5 DEF GetNextTask, Goto, queues
  <2>2. OwnChoice(w)
    BY <1>0, <1>3, <2>1, OwnChoices DEF search
  <2> QED
    BY <1>2, <2>1, <2>2 DEF WorkerPlace, Searching
<1>6. CASE MostBusy(w)
  <2>1. /\ UNCHANGED <<tables, stop_token, queue_stop, places>> /\ DOMAIN task_queues' = DOMAIN task_queues
        /\ pc[w] = "most_busy" /\ StartSearch(w) /\ pc' = [pc EXCEPT ![w] = "search_most_busy"]
    BY <1>6 DEF MostBusy, Goto, queues
  <2>2. OwnChoice(w) /\ seen'[w] = {}
    BY <1>0, <2>1, OwnChoices
  <2> QED
    BY <1>2, <2>1, <2>2 DEF WorkerPlace
<1>7. CASE Steal(w)
  <2> DEFINE b == IF task_queues[best[w]] = <<>> THEN w ELSE best[w]
  <2>1. /\ UNCHANGED <<tables, stop_token, queue_stop, places>> /\ DOMAIN task_queues' = DOMAIN task_queues
        /\ pc[w] = "search_most_busy" /\ pc' = [pc EXCEPT ![w] = "write_location"]
        /\ UNCHANGED seen /\ Chooses(w, b)
    BY <1>7 DEF Steal, Goto, queues
  <2>2. b \in Queue
    BY <1>0
  <2> HIDE DEF b
  <2>3. OwnChoice(w)
    BY <1>0, <2>1, <2>2, OwnChoices
  <2> QED
    BY <1>2, <2>1, <2>3 DEF WorkerPlace, Searching
<1>8. CASE StopRequired(w) \/ Take(w) \/ Finish(w)
  <2>1. /\ UNCHANGED <<tables, stop_token, queue_stop, places, search>>
        /\ DOMAIN task_queues' = DOMAIN task_queues
        /\ pc[w] \in {"wait", "running"}
        /\ \E q \in {"exited", "loop", "running"} : pc' = [pc EXCEPT ![w] = q]
    BY <1>8 DEF StopRequired, Take, Finish, Iterate, Goto, queues
  <2> QED
    BY <1>2, <1>3, <2>1 DEF WorkerPlace, Searching
<1>9. CASE WriteLocation(w)
  <2>1. /\ UNCHANGED <<tables, stop_token, queue_stop, asleep, search>> /\ DOMAIN task_queues' = DOMAIN task_queues
        /\ pc[w] = "write_location" /\ pc' = [pc EXCEPT ![w] = "wait"]
        /\ waiting_locations' = [waiting_locations EXCEPT ![w] = best[w]]
    BY <1>9 DEF WriteLocation, Goto, queues
  <2>2. OwnChoice(w) /\ best' = best
    BY <1>3, <2>1 DEF search
  <2>3. EntriesAreThreads' /\ RemovedIsThread' /\ ChoiceExists'
    BY <2>1, <2>2, WorkerMoves DEF WorkerPlace, Searching, tables
  <2>4. waiting_locations \in [DOMAIN waiting_locations -> Queue]
    BY DEF TablesIInv, TablesOK
  <2>5. TablesOK'
    BY <1>0, <2>1, <2>2, <2>4 DEF TablesOK, OwnChoice, tables
  <2>6. w \in DOMAIN waiting_locations
    <3>1. w \in Range(threads)
      BY <2>1 DEF TablesIInv, EntriesAreThreads
    <3>2. w \notin NoLonger(Unplaced)
      BY <2>1 DEF TablesIInv, RemovedIsThread, NoLonger, Unplaced, Ended
    <3> QED
      BY <3>1, <3>2 DEF TablesIInv, EntriesAreThreads
  <2>7. /\ waiting_locations'[w] = best[w] /\ pc'[w] = "wait"
        /\ \A u \in Worker \ {w} : pc'[u] = pc[u] /\ waiting_locations'[u] = waiting_locations[u]
    BY <1>0, <2>1, <2>4, <2>6, Kinds DEF TablesIInv, PlacesOK
  <2>8. SleepersWait'
    <3>1. ASSUME NEW r \in Queue, NEW u \in asleep[r]
          PROVE  pc'[u] = "asleep" /\ best[u] = r
      <4>1. pc[u] = "asleep" /\ best[u] = r /\ u \in Worker
        BY <1>0 DEF TablesIInv, SleepersWait
      <4> QED
        BY <2>1, <2>7, <4>1
    <3>2. ASSUME NEW u \in Worker, pc'[u] \in {"wait", "asleep"}
          PROVE  waiting_locations'[u] = best[u]
      BY <2>7, <3>2 DEF TablesIInv, SleepersWait
    <3> QED
      BY <2>1, <2>2, <3>1, <3>2 DEF SleepersWait
  <2> QED
    BY <1>1, <2>3, <2>5, <2>8 DEF TablesIInv
<1>10. CASE Sleep(w)
  <2> DEFINE q == best[w]
  <2>1. /\ UNCHANGED <<tables, stop_token, queue_stop, waiting_locations, search>>
        /\ DOMAIN task_queues' = DOMAIN task_queues
        /\ pc[w] = "wait" /\ pc' = [pc EXCEPT ![w] = "asleep"]
        /\ asleep' = [asleep EXCEPT ![q] = @ \cup {w}]
    BY <1>10 DEF Sleep, Goto, queues, At
  <2>2. OwnChoice(w) /\ best' = best
    BY <1>3, <2>1 DEF search
  <2>3. EntriesAreThreads' /\ RemovedIsThread' /\ ChoiceExists'
    BY <2>1, <2>2, WorkerMoves DEF WorkerPlace, Searching, tables
  <2>4. /\ asleep' \in [Queue -> SUBSET Worker]
        /\ \A r \in Queue : asleep'[r] \subseteq asleep[r] \cup (IF r = q THEN {w} ELSE {})
    BY <1>0, <2>1
  <2>5. TablesOK'
    BY <1>0, <2>1, <2>2, <2>4, TablesTypes
  <2>6. pc'[w] = "asleep" /\ \A u \in Worker \ {w} : pc'[u] = pc[u]
    BY <1>0, <2>1, Kinds DEF TablesIInv, PlacesOK
  <2>7. SleepersWait'
    <3>1. ASSUME NEW r \in Queue, NEW u \in asleep'[r]
          PROVE  pc'[u] = "asleep" /\ best[u] = r
      <4>1. CASE u = w
        <5>1. w \notin asleep[r]
          BY <2>1 DEF TablesIInv, SleepersWait
        <5> QED
          BY <2>4, <2>6, <4>1, <5>1
      <4>2. CASE u # w
        <5>1. u \in asleep[r] /\ u \in Worker
          BY <2>4, <4>2
        <5>2. pc[u] = "asleep" /\ best[u] = r
          BY <5>1 DEF TablesIInv, SleepersWait
        <5> QED
          BY <2>6, <4>2, <5>1, <5>2
      <4> QED
        BY <4>1, <4>2
    <3>2. ASSUME NEW u \in Worker, pc'[u] \in {"wait", "asleep"}
          PROVE  waiting_locations[u] = best[u]
      BY <2>1, <2>6, <3>2 DEF TablesIInv, SleepersWait
    <3> QED
      BY <2>1, <2>2, <3>1, <3>2 DEF SleepersWait
  <2> QED
    BY <1>1, <2>3, <2>5, <2>7 DEF TablesIInv
<1>11. CASE WakeUp(w)
  <2>1. /\ UNCHANGED <<tables, stop_token, queue_stop, places, search>>
        /\ DOMAIN task_queues' = DOMAIN task_queues
        /\ pc[w] = "asleep" /\ pc' = [pc EXCEPT ![w] = "wait"] /\ w \notin asleep[best[w]]
    BY <1>11 DEF WakeUp, Goto, queues, At
  <2>2. OwnChoice(w) /\ UNCHANGED <<best, asleep, waiting_locations>>
    BY <1>3, <2>1 DEF search, places
  <2>3. EntriesAreThreads' /\ RemovedIsThread' /\ ChoiceExists'
    BY <2>1, <2>2, WorkerMoves DEF WorkerPlace, Searching, tables
  <2>4. TablesOK'
    BY <1>0, <2>1, <2>2, TablesTypes
  <2>5. \A u \in Worker \ {w} : pc'[u] = pc[u]
    BY <1>0, <2>1, Kinds DEF TablesIInv, PlacesOK
  <2>6. SleepersWait'
    <3>1. ASSUME NEW r \in Queue, NEW u \in asleep[r]
          PROVE  pc'[u] = "asleep" /\ best[u] = r
      <4>1. pc[u] = "asleep" /\ best[u] = r /\ u \in Worker
        BY <1>0 DEF TablesIInv, SleepersWait
      <4> QED
        BY <2>1, <2>5, <4>1
    <3>2. ASSUME NEW u \in Worker, pc'[u] \in {"wait", "asleep"}
          PROVE  waiting_locations[u] = best[u]
      BY <2>1, <2>5, <3>2 DEF TablesIInv, SleepersWait
    <3> QED
      BY <2>1, <2>2, <3>1, <3>2 DEF SleepersWait
  <2> QED
    BY <1>1, <2>3, <2>4, <2>6 DEF TablesIInv
<1>12. CASE Compare(w)
  BY <1>0, <1>12, CompareTables
<1> QED
  BY <1>4, <1>5, <1>6, <1>7, <1>8, <1>9, <1>10, <1>11, <1>12 DEF OfWorker

\* Once there is a queue, a search that has ended has found one.
LEMMA SearchFinds ==
  ASSUME TablesIInv, NEW t \in Thread, pc[t] \in Searching, Searched(t), pc[owner] # "erase_thread"
  PROVE  best[t] \in DOMAIN task_queues /\ DOMAIN task_queues = Range(threads)
<1>1. threads[1] \in DOMAIN task_queues /\ DOMAIN task_queues = Range(threads)
  BY Elements DEF TablesIInv, EntriesAreThreads
<1>2. seen[t] # {}
  BY <1>1 DEF Searched
<1> QED
  BY <1>1, <1>2 DEF TablesIInv, ChoiceExists

\* A client moves, and leaves the tables and the sleepers alone.
LEMMA ClientStays ==
  ASSUME TablesIInv, PlacesOK', NEW c \in Client, NEW q,
         {pc[c], q} \cap (Removing \cup {"check_idle"}) = {}, pc' = [pc EXCEPT ![c] = q],
         UNCHANGED <<tables, stop_token, queues, places>>,
         OwnChoice(c), q \notin Searching \/ seen'[c] = {}
  PROVE  TablesIInv'
<1>1. /\ UNCHANGED <<threads, joined, task_queues, queue_stop, asleep, waiting_locations>>
      /\ asleep \in [Queue -> SUBSET Worker] /\ TablesOK /\ c \in Thread
  BY Kinds DEF TablesIInv, TablesOK, tables, queues, places
<1>2. TablesOK'
  BY <1>1, TablesTypes
<1>3. EntriesAreThreads' /\ RemovedIsThread' /\ ChoiceExists' /\ SleepersWait'
  BY <1>1, ClientMoves
<1> QED
  BY <1>2, <1>3 DEF TablesIInv

\* The steps of a client keep the tables.
LEMMA ClientTables ==
  ASSUME TablesIInv, NEW c \in Client, Enqueue(c) \/ OfClient(c) \/ Size(c)
  PROVE  TablesIInv'
<1>0. c \in Thread /\ TablesOK
  BY Kinds DEF TablesIInv
<1>1. PlacesOK'
  <2>1. [Next]_vars
    BY DEF Next
  <2> QED
    BY <2>1, PlacesStep DEF TablesIInv
<1>2. UNCHANGED search => OwnChoice(c)
  BY <1>0, OwnChoices
<1>3. CASE Enqueue(c) \/ LockLocations(c) \/ LockQueues(c) \/ EnqueueThrows(c)
  <2>1. /\ UNCHANGED <<tables, stop_token, queues, places, search>>
        /\ pc[c] \in {"idle"} \cup Enqueueing
        /\ \E q \in {"lock_locations", "lock_queues", "lock_threads", "idle"} : pc' = [pc EXCEPT ![c] = q]
    BY <1>3 DEF Enqueue, LockLocations, LockQueues, EnqueueThrows, Calling, Goto, Enqueueing
  <2> QED
    BY <1>1, <1>2, <2>1, ClientStays DEF Searching, Removing, Enqueueing
<1>4. CASE LockThreads(c)
  <2>1. /\ UNCHANGED <<tables, stop_token, queues, places>> /\ StartSearch(c)
        /\ pc[c] = "lock_threads" /\ pc' = [pc EXCEPT ![c] = "search_least_busy"]
    BY <1>4 DEF LockThreads, Goto
  <2>2. OwnChoice(c) /\ seen'[c] = {}
    BY <1>0, <2>1, OwnChoices
  <2> QED
    BY <1>1, <2>1, <2>2, ClientStays DEF Removing
<1>5. CASE Compare(c)
  BY <1>0, <1>5, CompareTables
<1>6. CASE Push(c)
  <2>1. /\ UNCHANGED <<tables, stop_token, queue_stop, waiting_locations, search>>
        /\ pc[c] = "search_least_busy" /\ pc' = [pc EXCEPT ![c] = "idle"] /\ Searched(c)
        /\ task_queues' = Pushed(best[c], has_task[c]) /\ NotifyOne(best[c])
    BY <1>6 DEF Push, Goto
  <2>2. /\ asleep \in [Queue -> SUBSET Worker] /\ best[c] \in Queue /\ DOMAIN task_queues \subseteq Queue
    BY <1>0 DEF TablesOK
  <2>3. /\ asleep' \in [Queue -> SUBSET Worker]
        /\ \A r \in Queue : asleep'[r] \subseteq asleep[r]
    BY <2>1, <2>2 DEF NotifyOne
  <2>4. /\ DOMAIN task_queues' \subseteq Queue
        /\ DOMAIN task_queues' = DOMAIN task_queues \/ pc[owner] = "erase_thread"
    <3>1. CASE Exists(best[c])
      BY <2>1, <2>2, <3>1 DEF Pushed
    <3>2. CASE ~Exists(best[c])
      <4>1. pc[owner] = "erase_thread"
        BY <1>0, <2>1, <3>2, SearchFinds DEF Exists, Searching
      <4>2. DOMAIN task_queues' = DOMAIN task_queues \cup {best[c]}
        BY <2>1, <3>2 DEF Pushed, Inserted
      <4> QED
        BY <2>2, <4>1, <4>2
    <3> QED
      BY <3>1, <3>2
  <2>5. OwnChoice(c)
    BY <1>2, <2>1
  <2>6. TablesOK'
    BY <1>0, <2>1, <2>3, <2>4, <2>5 DEF TablesOK, OwnChoice, tables
  <2>7. UNCHANGED <<threads, joined, waiting_locations>>
    BY <2>1 DEF tables
  <2>8. {pc[c], "idle"} \cap (Removing \cup {"check_idle"}) = {} /\ "idle" \notin Searching
    BY <2>1 DEF Removing, Searching
  <2>9. EntriesAreThreads' /\ RemovedIsThread' /\ ChoiceExists' /\ SleepersWait'
    BY <2>1, <2>3, <2>4, <2>5, <2>7, <2>8, ClientMoves
  <2> QED
    BY <1>1, <2>6, <2>9 DEF TablesIInv
<1>7. CASE Size(c)
  <2>1. UNCHANGED <<tables, stop_token, queues, places, pc, search>>
    BY <1>7 DEF Size
  <2> QED
    BY <2>1 DEF tables, queues, places, search, TablesIInv, PlacesOK, TablesOK, EntriesAreThreads,
      RemovedIsThread, ChoiceExists, SleepersWait, NoLonger
<1> QED
  BY <1>3, <1>4, <1>5, <1>6, <1>7 DEF OfClient

\* A step that touches no table keeps the tables.
LEMMA AllStays ==
  ASSUME TablesIInv, UNCHANGED <<tables, stop_token, queues, places, pc, search>>
  PROVE  TablesIInv'
  BY DEF tables, queues, places, search, TablesIInv, PlacesOK, TablesOK, EntriesAreThreads,
    RemovedIsThread, ChoiceExists, SleepersWait, NoLonger

\* The thread that is joined has no id any more: nothing is found to be erased.
LEMMA EraseThreadDies ==
  ASSUME TablesIInv, EraseThread
  PROVE  UNCHANGED <<locks, tables, stop_token, queues, places, pc, search, tasks, result>>
<1>1. pc[owner] = "erase_thread"
  BY DEF EraseThread
<1>2. best[owner] \in joined /\ best[owner] \in Worker
  <2>1. joined = {best[owner]} /\ best[owner] \in Range(threads)
    BY <1>1 DEF TablesIInv, EntriesAreThreads, RemovedIsThread, NoLonger, Ended, Removing
  <2> QED
    BY <2>1, Elements DEF TablesIInv
<1>3. best[owner] # NoThread
  BY <1>2, NoThreadIsNone DEF Thread
<1>4. SameId(best[owner]) = {}
  BY <1>2, <1>3 DEF SameId, GetId
<1>5. Cardinality(SameId(best[owner])) = 0
  BY <1>4, FS_EmptySet
<1>6. Cardinality(SameId(best[owner])) # 1
  BY <1>5
<1>7. Dies("hard_assert ret_size_t == 1")
  BY <1>6, Zenon DEF EraseThread
<1> QED
  BY <1>7 DEF Dies

\* Removing, adding and destroying keep the tables, the thread being removed apart.
LEMMA OwnerTables ==
  ASSUME TablesIInv, OfOwner \/ RemoveThreads \/ Destroy \/ AddThreads
  PROVE  TablesIInv'
<1>0. /\ owner \in Client /\ owner \in Thread /\ owner \notin Worker /\ TablesOK
      /\ best \in [Thread -> Queue] /\ seen \in [Thread -> SUBSET Queue] /\ pc \in [Thread -> Place]
      /\ Range(threads) \subseteq Worker /\ Range(threads) \subseteq Queue /\ Worker \subseteq Thread
  BY Kinds, Elements DEF TablesIInv, TablesOK, PlacesOK
<1>1. PlacesOK'
  <2>1. [Next]_vars
    BY DEF Next
  <2> QED
    BY <2>1, PlacesStep DEF TablesIInv
<1>2. UNCHANGED search => OwnChoice(owner)
  BY <1>0, OwnChoices
<1>3. Ended \subseteq Removing /\ Unplaced \subseteq Ended
  BY DEF Ended, Unplaced, Removing
<1>4. CASE LeastBusyQueues \/ RemoveThreads \/ AddThreads \/ AddThreadFails \/ AddLock \/ Destroy
  <2>1. /\ UNCHANGED <<tables, stop_token, queues, places, search>>
        /\ pc[owner] \in {"least_busy", "idle", "add_threads", "add_queues", "add_locations", "add_loop"}
        /\ \E q \in {"least_busy_threads", "least_busy", "add_threads", "idle", "add_queues",
                     "add_locations", "add_loop", "destroy"} : pc' = [pc EXCEPT ![owner] = q]
    <3>1. CASE LeastBusyQueues \/ RemoveThreads \/ AddThreads \/ AddThreadFails \/ Destroy
      BY <3>1 DEF LeastBusyQueues, RemoveThreads, AddThreads, AddThreadFails, Destroy, Calling, Goto
    <3>2. CASE AddLock
      <4>1. PICK step \in {<<"add_threads", "threads", "add_queues">>,
                           <<"add_queues", "task_queues", "add_locations">>,
                           <<"add_locations", "waiting_locations", "add_loop">>} :
              pc[owner] = step[1] /\ pc' = [pc EXCEPT ![owner] = step[3]]
        BY <3>2 DEF AddLock, Goto
      <4>2. UNCHANGED <<tables, stop_token, queues, places, search>>
        BY <3>2 DEF AddLock
      <4>3. /\ step[1] \in {"add_threads", "add_queues", "add_locations"}
            /\ step[3] \in {"add_queues", "add_locations", "add_loop"}
        OBVIOUS
      <4> QED
        BY <4>1, <4>2, <4>3
    <3> QED
      BY <1>4, <3>1, <3>2
  <2> QED
    BY <1>0, <1>1, <1>2, <2>1, ClientStays DEF Searching, Removing
<1>5. CASE LeastBusyThreads
  <2>1. /\ UNCHANGED <<tables, stop_token, queues, places>> /\ StartSearch(owner)
        /\ pc[owner] = "least_busy_threads" /\ pc' = [pc EXCEPT ![owner] = "search_idle"]
    BY <1>5 DEF LeastBusyThreads, Goto
  <2>2. OwnChoice(owner) /\ seen'[owner] = {}
    BY <1>0, <2>1, OwnChoices
  <2> QED
    BY <1>0, <1>1, <2>1, <2>2, ClientStays DEF Removing
\* The steps of a removal leave the workers, their choices and their sleep.
<1>6. ASSUME NEW q \in Place, pc' = [pc EXCEPT ![owner] = q], q \notin Searching,
             UNCHANGED <<threads, search>>,
             pc[owner] # "erase_thread",
             q # "erase_thread" => DOMAIN task_queues' = DOMAIN task_queues,
             \A r \in Queue : asleep'[r] \subseteq asleep[r],
             \A w \in Worker : pc[w] \in {"wait", "asleep"} => waiting_locations'[w] = waiting_locations[w]
      PROVE  /\ \A w \in Worker : pc'[w] = pc[w]
             /\ pc'[owner] = q /\ best' = best /\ seen' = seen
             /\ \A w \in Worker : w \in Range(threads') <=> pc'[w] # "none"
             /\ pc'[owner] # "erase_thread" => DOMAIN task_queues' = Range(threads')
             /\ ChoiceExists' /\ SleepersWait'
  <2>1. /\ pc'[owner] = q /\ \A u \in Thread \ {owner} : pc'[u] = pc[u]
        /\ \A w \in Worker : pc'[w] = pc[w]
    BY <1>0, <1>6
  <2>2. best' = best /\ seen' = seen /\ threads' = threads
    BY <1>6 DEF search
  <2>3. \A w \in Worker : w \in Range(threads') <=> pc'[w] # "none"
    BY <2>1, <2>2 DEF TablesIInv, EntriesAreThreads
  <2>4. q # "erase_thread" => DOMAIN task_queues' = Range(threads') /\ DOMAIN task_queues' = DOMAIN task_queues
    BY <1>6, <2>2 DEF TablesIInv, EntriesAreThreads
  <2>5. ChoiceExists'
    BY <1>6, <2>1, <2>2, <2>4 DEF TablesIInv, ChoiceExists
  <2>6. SleepersWait'
    <3>1. asleep \in [Queue -> SUBSET Worker]
      BY <1>0 DEF TablesOK
    <3>2. ASSUME NEW r \in Queue, NEW w \in asleep'[r]
          PROVE  pc'[w] = "asleep" /\ best'[w] = r
      <4>1. w \in asleep[r] /\ w \in Worker
        BY <1>6, <3>1
      <4> QED
        BY <2>1, <2>2, <4>1 DEF TablesIInv, SleepersWait
    <3>3. ASSUME NEW w \in Worker, pc'[w] \in {"wait", "asleep"}
          PROVE  waiting_locations'[w] = best'[w]
      BY <1>6, <2>1, <2>2, <3>3 DEF TablesIInv, SleepersWait
    <3> QED
      BY <3>2, <3>3 DEF SleepersWait
  <2> QED
    BY <2>1, <2>2, <2>3, <2>4, <2>5, <2>6
\* Where a step before the join goes.
<1>7. ASSUME NEW q \in {"check_idle", "find_thread", "join", "idle"}, pc' = [pc EXCEPT ![owner] = q],
             pc[owner] \in {"search_idle", "check_idle", "find_thread"},
             best[owner] \in Range(threads),
             UNCHANGED <<tables, queues, places, search>>,
             stop_token' = stop_token \/ stop_token' = stop_token \cup {best[owner]}
      PROVE  TablesIInv'
  <2>1. /\ UNCHANGED <<threads, go, joined, task_queues, queue_stop, asleep, waiting_locations, best, seen>>
    BY <1>7 DEF tables, queues, places, search
  <2>2. q \in Place /\ q \notin Searching /\ q # "erase_thread" /\ pc[owner] # "erase_thread"
    BY <1>7 DEF Place, OwnerPlace, Removing, Searching
  <2>3. /\ pc'[owner] = q /\ ChoiceExists' /\ SleepersWait'
        /\ \A w \in Worker : w \in Range(threads') <=> pc'[w] # "none"
        /\ pc'[owner] # "erase_thread" => DOMAIN task_queues' = Range(threads')
    BY <1>6, <1>7, <2>1, <2>2
  <2>4. TablesOK'
    BY <1>0, <1>7, <2>1 DEF TablesOK
  <2>5. pc[owner] \notin Ended /\ q \notin Ended
    BY <1>7 DEF Ended
  <2>6. NoLonger(Ended) = {} /\ NoLonger(Ended)' = {} /\ NoLonger(Unplaced) = {} /\ NoLonger(Unplaced)' = {}
    BY <1>3, <2>3, <2>5 DEF NoLonger
  <2>7. EntriesAreThreads'
    BY <2>1, <2>3, <2>6 DEF TablesIInv, EntriesAreThreads
  <2>8. RemovedIsThread'
    BY <1>7, <2>1, <2>3, <2>5 DEF RemovedIsThread
  <2> QED
    BY <1>1, <2>3, <2>4, <2>7, <2>8 DEF TablesIInv
<1>8. CASE LeastBusyFound
  <2>1. /\ UNCHANGED <<tables, stop_token, queues, places, search>>
        /\ pc[owner] = "search_idle" /\ pc' = [pc EXCEPT ![owner] = "check_idle"] /\ Searched(owner)
    BY <1>8 DEF LeastBusyFound, Goto
  <2>2. best[owner] \in Range(threads)
    BY <1>0, <2>1, SearchFinds DEF Searching
  <2> QED
    BY <1>7, <2>1, <2>2
<1>9. CASE CheckIdle \/ FindThread
  <2>1. /\ UNCHANGED <<tables, queues, places, search>>
        /\ stop_token' = stop_token \/ stop_token' = stop_token \cup {best[owner]}
        /\ pc[owner] \in {"check_idle", "find_thread"}
        /\ \E q \in {"find_thread", "join", "idle"} : pc' = [pc EXCEPT ![owner] = q]
    BY <1>9 DEF CheckIdle, FindThread, Goto
  <2>2. best[owner] \in Range(threads)
    BY <2>1 DEF TablesIInv, RemovedIsThread, Removing
  <2> QED
    BY <1>7, <2>1, <2>2
<1>10. CASE DestroyNext
  <2>1. PICK w \in Range(threads) : pc[owner] = "destroy" /\ pc' = [pc EXCEPT ![owner] = "find_thread"]
                                    /\ Chooses(owner, w) /\ UNCHANGED <<tables, stop_token, queues, places, seen>>
    BY <1>10 DEF DestroyNext, Goto
  <2>2. /\ UNCHANGED <<threads, go, joined, task_queues, queue_stop, asleep, waiting_locations, stop_token>>
    BY <2>1 DEF tables, queues, places
  <2>3. OwnChoice(owner) /\ best'[owner] = w
    BY <1>0, <2>1, OwnChoices
  <2>4. TablesOK'
    BY <1>0, <2>1, <2>2, <2>3, TablesTypes DEF TablesOK
  <2>5. pc'[owner] = "find_thread" /\ \A u \in Thread \ {owner} : pc'[u] = pc[u]
    BY <1>0, <2>1
  <2>6. \A u \in Worker : pc'[u] = pc[u] /\ best'[u] = best[u]
    BY <1>0, <2>3, <2>5 DEF OwnChoice
  <2>7. NoLonger(Ended) = {} /\ NoLonger(Ended)' = {} /\ NoLonger(Unplaced) = {} /\ NoLonger(Unplaced)' = {}
    BY <2>1, <2>5 DEF NoLonger, Ended, Unplaced
  <2>8. EntriesAreThreads'
    BY <2>1, <2>2, <2>6, <2>7 DEF TablesIInv, EntriesAreThreads
  <2>9. RemovedIsThread'
    BY <2>2, <2>3, <2>5 DEF RemovedIsThread, Ended
  <2>10. ChoiceExists'
    <3> SUFFICES ASSUME NEW t \in Thread, pc'[t] \in Searching, seen'[t] # {}
                 PROVE  best'[t] \in DOMAIN task_queues
      BY <2>2 DEF ChoiceExists
    <3>1. t # owner
      BY <2>5 DEF Searching
    <3>2. pc[owner] # "erase_thread" /\ pc'[t] = pc[t] /\ best'[t] = best[t] /\ seen'[t] = seen[t]
      BY <2>1, <2>3, <2>5, <3>1 DEF OwnChoice
    <3> QED
      BY <3>2 DEF TablesIInv, ChoiceExists
  <2>11. SleepersWait'
    <3>1. asleep \in [Queue -> SUBSET Worker]
      BY <1>0 DEF TablesOK
    <3> QED
      BY <2>2, <2>6, <3>1 DEF TablesIInv, SleepersWait
  <2> QED
    BY <1>1, <2>4, <2>8, <2>9, <2>10, <2>11 DEF TablesIInv
<1>11. CASE Join
  <2>1. /\ UNCHANGED <<threads, go, stop_token, queues, places, search>>
        /\ pc[owner] = "join" /\ pc' = [pc EXCEPT ![owner] = "stop_location"]
        /\ pc[best[owner]] = "exited" /\ joined' = joined \cup {best[owner]}
    BY <1>11 DEF Join, Goto
  <2>2. /\ UNCHANGED <<task_queues, queue_stop, asleep, waiting_locations>>
    BY <2>1 DEF queues, places
  <2>3. best[owner] \in Range(threads)
    BY <2>1 DEF TablesIInv, RemovedIsThread, Removing
  <2>4. /\ \A w \in Worker : pc'[w] = pc[w]
        /\ pc'[owner] = "stop_location" /\ best' = best /\ seen' = seen /\ ChoiceExists' /\ SleepersWait'
        /\ \A w \in Worker : w \in Range(threads') <=> pc'[w] # "none"
        /\ pc'[owner] # "erase_thread" => DOMAIN task_queues' = Range(threads')
    BY <1>6, <2>1, <2>2 DEF Place, OwnerPlace, Removing, Searching
  <2>5. TablesOK'
    BY <1>0, <2>1, <2>2, <2>4 DEF TablesOK
  <2>6. joined = {} /\ NoLonger(Unplaced) = {}
    BY <2>1 DEF TablesIInv, EntriesAreThreads, NoLonger, Ended, Unplaced
  <2>7. NoLonger(Ended)' = {best[owner]} /\ NoLonger(Unplaced)' = {}
    BY <2>4 DEF NoLonger, Ended, Unplaced
  <2>8. EntriesAreThreads'
    BY <2>1, <2>2, <2>4, <2>6, <2>7 DEF TablesIInv, EntriesAreThreads
  <2>9. RemovedIsThread'
    BY <1>0, <2>1, <2>3, <2>4 DEF RemovedIsThread
  <2> QED
    BY <1>1, <2>4, <2>5, <2>8, <2>9 DEF TablesIInv
\* The thread that is removed is ended.
<1>12. ASSUME pc[owner] \in Ended
       PROVE  /\ best[owner] \in Range(threads) /\ best[owner] \in Worker /\ pc[best[owner]] = "exited"
              /\ joined = {best[owner]}
  BY <1>0, <1>3, <1>12 DEF TablesIInv, RemovedIsThread, EntriesAreThreads, NoLonger
<1>13. ASSUME NEW q \in Unplaced, pc' = [pc EXCEPT ![owner] = q], pc[owner] \in Ended, pc[owner] # "erase_thread",
              UNCHANGED <<tables, search, stop_token>>,
              queue_stop' = queue_stop \/ queue_stop' = queue_stop \cup {best[owner]},
              IF q = "erase_thread" THEN DOMAIN task_queues' = DOMAIN task_queues \ {best[owner]}
              ELSE DOMAIN task_queues' = DOMAIN task_queues,
              asleep' \in [Queue -> SUBSET Worker],
              \A r \in Queue : asleep'[r] \subseteq asleep[r],
              waiting_locations' = IF pc[owner] \in Unplaced THEN waiting_locations
                                   ELSE Restrict(waiting_locations, DOMAIN waiting_locations \ {best[owner]})
       PROVE  TablesIInv'
  <2>1. UNCHANGED <<threads, go, joined, best, seen>>
    BY <1>13 DEF tables, search
  <2>2. /\ best[owner] \in Range(threads) /\ best[owner] \in Worker /\ pc[best[owner]] = "exited"
        /\ joined = {best[owner]}
    BY <1>12, <1>13
  <2>3. /\ waiting_locations \in [DOMAIN waiting_locations -> Queue]
        /\ DOMAIN waiting_locations = Range(threads) \ NoLonger(Unplaced)
    BY <1>0 DEF TablesOK, TablesIInv, EntriesAreThreads
  <2>4. /\ DOMAIN waiting_locations' = Range(threads) \ {best[owner]}
        /\ waiting_locations' \in [DOMAIN waiting_locations' -> Queue]
        /\ \A w \in DOMAIN waiting_locations' : waiting_locations'[w] = waiting_locations[w]
    BY <1>13, <2>2, <2>3 DEF NoLonger, Restrict
  <2>5. \A w \in Worker : pc[w] \in {"wait", "asleep"} => waiting_locations'[w] = waiting_locations[w]
    <3> SUFFICES ASSUME NEW w \in Worker, pc[w] \in {"wait", "asleep"}
                 PROVE  waiting_locations'[w] = waiting_locations[w]
      OBVIOUS
    <3>1. w \in Range(threads) /\ w # best[owner]
      BY <2>2 DEF TablesIInv, EntriesAreThreads
    <3> QED
      BY <2>4, <3>1
  <2>6. q \in Place /\ q \notin Searching /\ pc[owner] # "erase_thread"
    BY <1>13 DEF Unplaced, Place, OwnerPlace, Removing, Searching
  <2>7. /\ \A w \in Worker : pc'[w] = pc[w]
        /\ pc'[owner] = q /\ ChoiceExists' /\ SleepersWait'
        /\ \A w \in Worker : w \in Range(threads') <=> pc'[w] # "none"
        /\ pc'[owner] # "erase_thread" => DOMAIN task_queues' = Range(threads')
    BY <1>6, <1>13, <2>1, <2>5, <2>6
  <2>8. TablesOK'
    <3>1. DOMAIN task_queues' \subseteq Queue /\ queue_stop' \subseteq Queue
      BY <1>0, <1>13, <2>2 DEF TablesOK
    <3> QED
      BY <1>0, <1>13, <2>1, <2>4, <3>1 DEF TablesOK
  <2>9. NoLonger(Ended)' = {best[owner]} /\ NoLonger(Unplaced)' = {best[owner]}
    BY <1>3, <2>1, <2>7 DEF NoLonger
  <2>10. EntriesAreThreads'
    BY <2>1, <2>2, <2>4, <2>7, <2>9 DEF EntriesAreThreads
  <2>11. RemovedIsThread'
    BY <2>1, <2>2, <2>7 DEF RemovedIsThread
  <2> QED
    BY <1>1, <2>7, <2>8, <2>10, <2>11 DEF TablesIInv
<1>14. CASE StopLocation
  <2>1. /\ UNCHANGED <<tables, stop_token, queues, asleep, search>>
        /\ pc[owner] = "stop_location" /\ pc' = [pc EXCEPT ![owner] = "stop_queue"]
        /\ waiting_locations' = Restrict(waiting_locations, DOMAIN waiting_locations \ {best[owner]})
    BY <1>14 DEF StopLocation, Goto
  <2>2. "stop_location" \in Ended /\ "stop_location" \notin Unplaced /\ "stop_queue" \in Unplaced
    BY DEF Ended, Unplaced
  <2>3. /\ UNCHANGED <<task_queues, queue_stop>> /\ asleep' \in [Queue -> SUBSET Worker]
    BY <1>0, <2>1 DEF queues, TablesOK
  <2> QED
    BY <1>13, <2>1, <2>2, <2>3
<1>15. CASE StopQueue
  <2>1. /\ UNCHANGED <<tables, stop_token, waiting_locations, search>>
        /\ pc[owner] = "stop_queue" /\ pc' = [pc EXCEPT ![owner] = "erase_queue"]
        /\ queue_stop' = queue_stop \cup {best[owner]}
        /\ DOMAIN task_queues' = DOMAIN task_queues
        /\ \/ asleep' = [asleep EXCEPT ![best[owner]] = {}]
           \/ \E q \in DOMAIN task_queues \ {best[owner]} : asleep' = [asleep EXCEPT ![best[owner]] = {}, ![q] = {}]
    BY <1>15 DEF StopQueue, Goto
  <2>2. "stop_queue" \in Ended /\ "stop_queue" \in Unplaced /\ "erase_queue" \in Unplaced
    BY DEF Ended, Unplaced
  <2>3. asleep \in [Queue -> SUBSET Worker]
    BY <1>0 DEF TablesOK
  <2>4. asleep' \in [Queue -> SUBSET Worker] /\ \A r \in Queue : asleep'[r] \subseteq asleep[r]
    <3>1. CASE asleep' = [asleep EXCEPT ![best[owner]] = {}]
      BY <2>3, <3>1
    <3>2. CASE \E q \in DOMAIN task_queues \ {best[owner]} : asleep' = [asleep EXCEPT ![best[owner]] = {}, ![q] = {}]
      BY <2>3, <3>2
    <3> QED
      BY <2>1, <3>1, <3>2
  <2> QED
    BY <1>13, <2>1, <2>2, <2>4
<1>16. CASE EraseQueue
  <2>1. /\ UNCHANGED <<tables, stop_token, queue_stop, places, search>>
        /\ pc[owner] = "erase_queue" /\ pc' = [pc EXCEPT ![owner] = "erase_thread"]
        /\ task_queues' = Restrict(task_queues, DOMAIN task_queues \ {best[owner]})
    BY <1>16 DEF EraseQueue, Goto
  <2>2. "erase_queue" \in Ended /\ "erase_queue" \in Unplaced /\ "erase_thread" \in Unplaced
    BY DEF Ended, Unplaced
  <2>3. /\ UNCHANGED <<asleep, waiting_locations>> /\ asleep' \in [Queue -> SUBSET Worker]
        /\ DOMAIN task_queues' = DOMAIN task_queues \ {best[owner]}
    BY <1>0, <2>1 DEF places, TablesOK, Restrict
  <2> QED
    BY <1>13, <2>1, <2>2, <2>3
<1>17. CASE EraseThread
  BY <1>17, EraseThreadDies, AllStays
<1>18. CASE AddThread
  <2>1. PICK w \in Worker :
          /\ pc[owner] = "add_loop" /\ pc[w] = "none" /\ pc' = [pc EXCEPT ![w] = "created"]
          /\ threads' = Append(threads, w)
          /\ task_queues' = Inserted(task_queues, w, <<>>)
          /\ waiting_locations' = Inserted(waiting_locations, w, w)
          /\ UNCHANGED <<go, joined, stop_token, queue_stop, asleep, search>>
    BY <1>18 DEF AddThread
  <2>2. best' = best /\ seen' = seen /\ w # owner /\ w \in Thread
    BY <1>0, <2>1 DEF search
  <2>3. pc'[owner] = "add_loop" /\ pc'[w] = "created" /\ \A u \in Thread \ {w} : pc'[u] = pc[u]
    BY <1>0, <2>1, <2>2
  <2>4. threads' \in Seq(Worker) /\ threads' # <<>> /\ Range(threads') = Range(threads) \cup {w}
    <3>1. threads \in Seq(Worker) /\ Len(threads) \in Nat /\ DOMAIN threads = 1 .. Len(threads)
      BY <1>0 DEF TablesOK
    <3>2. /\ threads' \in Seq(Worker) /\ DOMAIN threads' = 1 .. Len(threads) + 1
          /\ \A i \in 1 .. Len(threads) : threads'[i] = threads[i]
          /\ threads'[Len(threads) + 1] = w
      BY <2>1, <3>1
    <3>3. \A i \in 1 .. Len(threads) + 1 : i \in 1 .. Len(threads) \/ i = Len(threads) + 1
      BY <3>1
    <3>4. Range(threads') = Range(threads) \cup {w}
      BY <3>1, <3>2, <3>3 DEF Range
    <3> QED
      BY <3>1, <3>2, <3>4
  <2>5. NoLonger(Ended) = {} /\ NoLonger(Ended)' = {} /\ NoLonger(Unplaced) = {} /\ NoLonger(Unplaced)' = {}
    BY <2>1, <2>3 DEF NoLonger, Ended, Unplaced
  <2>6. /\ DOMAIN waiting_locations = Range(threads) /\ DOMAIN task_queues = Range(threads) /\ joined = {}
        /\ w \notin Range(threads)
    BY <2>1, <2>5 DEF TablesIInv, EntriesAreThreads
  <2>7. /\ DOMAIN waiting_locations' = Range(threads) \cup {w} /\ DOMAIN task_queues' = Range(threads) \cup {w}
        /\ \A u \in Range(threads) : waiting_locations'[u] = waiting_locations[u]
        /\ waiting_locations'[w] = w
        /\ waiting_locations' \in [DOMAIN waiting_locations' -> Queue]
    <3>1. waiting_locations \in [DOMAIN waiting_locations -> Queue] /\ w \in Queue
      BY <1>0 DEF TablesOK, Queue
    <3> QED
      BY <2>1, <2>6, <3>1 DEF Inserted
  <2>8. TablesOK'
    <3>1. DOMAIN task_queues' \subseteq Queue
      BY <1>0, <2>7 DEF Queue
    <3> QED
      BY <1>0, <2>1, <2>2, <2>4, <2>7, <3>1 DEF TablesOK
  <2>9. EntriesAreThreads'
    <3>1. \A u \in Worker : u \in Range(threads') <=> pc'[u] # "none"
      BY <1>0, <2>3, <2>4 DEF TablesIInv, EntriesAreThreads
    <3> QED
      BY <2>1, <2>4, <2>5, <2>6, <2>7, <3>1 DEF EntriesAreThreads
  <2>10. RemovedIsThread'
    BY <2>3 DEF RemovedIsThread, Removing, Ended
  <2>11. ChoiceExists'
    <3> SUFFICES ASSUME NEW t \in Thread, pc'[t] \in Searching, seen'[t] # {}
                 PROVE  best'[t] \in DOMAIN task_queues'
      BY DEF ChoiceExists
    <3>1. t # w
      BY <2>3 DEF Searching
    <3>2. best[t] \in DOMAIN task_queues
      BY <2>1, <2>2, <2>3, <3>1 DEF TablesIInv, ChoiceExists
    <3> QED
      BY <2>2, <2>6, <2>7, <3>2
  <2>12. SleepersWait'
    <3>1. asleep \in [Queue -> SUBSET Worker]
      BY <1>0 DEF TablesOK
    <3>2. ASSUME NEW r \in Queue, NEW u \in asleep[r]
          PROVE  pc'[u] = "asleep" /\ best'[u] = r
      <4>1. pc[u] = "asleep" /\ best[u] = r /\ u \in Worker
        BY <3>1 DEF TablesIInv, SleepersWait
      <4>2. u # w /\ u \in Thread
        BY <1>0, <2>1, <4>1
      <4> QED
        BY <2>2, <2>3, <4>1, <4>2
    <3>3. ASSUME NEW u \in Worker, pc'[u] \in {"wait", "asleep"}
          PROVE  waiting_locations'[u] = best'[u]
      <4>1. u # w /\ u \in Thread
        BY <1>0, <2>3, <3>3
      <4>2. pc[u] \in {"wait", "asleep"}
        BY <2>3, <3>3, <4>1
      <4>3. u \in Range(threads) /\ waiting_locations[u] = best[u]
        BY <4>2 DEF TablesIInv, EntriesAreThreads, SleepersWait
      <4> QED
        BY <2>2, <2>7, <4>3
    <3> QED
      BY <2>1, <3>2, <3>3 DEF SleepersWait
  <2> QED
    BY <1>1, <2>8, <2>9, <2>10, <2>11, <2>12 DEF TablesIInv
<1> QED
  BY <1>4, <1>5, <1>8, <1>9, <1>10, <1>11, <1>14, <1>15, <1>16, <1>17, <1>18 DEF OfOwner

\* Every step keeps the tables.
LEMMA TablesStep ==
  ASSUME TablesIInv, [Next]_vars
  PROVE  TablesIInv'
<1>1. ASSUME NEW w \in Worker, SpuriousWakeUp(w)
      PROVE  TablesIInv'
  <2>1. /\ UNCHANGED <<tables, stop_token, queues, waiting_locations, pc, search>>
        /\ asleep' = [asleep EXCEPT ![best[w]] = @ \ {w}]
    BY <1>1 DEF SpuriousWakeUp, At
  <2>2. UNCHANGED <<threads, go, joined, task_queues, queue_stop, best, seen>>
    BY <2>1 DEF tables, queues, search
  <2>3. asleep \in [Queue -> SUBSET Worker]
    BY DEF TablesIInv, TablesOK
  <2>4. asleep' \in [Queue -> SUBSET Worker] /\ \A r \in Queue : asleep'[r] \subseteq asleep[r]
    BY <2>1, <2>3
  <2>5. TablesOK' /\ PlacesOK'
    BY <2>1, <2>2, <2>4 DEF TablesIInv, TablesOK, PlacesOK
  <2>6. EntriesAreThreads' /\ RemovedIsThread' /\ ChoiceExists'
    BY <2>1, <2>2 DEF TablesIInv, EntriesAreThreads, RemovedIsThread, ChoiceExists, NoLonger
  <2>7. SleepersWait'
    BY <2>1, <2>2, <2>4 DEF TablesIInv, SleepersWait
  <2> QED
    BY <2>5, <2>6, <2>7 DEF TablesIInv
<1>2. ASSUME (\E w \in Worker : Dangling(w)) \/ (\E t \in Thread : RunsIntoUnreachable(t))
      PROVE  TablesIInv'
  BY <1>2, AllStays DEF Dangling, RunsIntoUnreachable, Dies
<1>3. ASSUME UNCHANGED vars
      PROVE  TablesIInv'
  BY <1>3, AllStays DEF vars
<1> QED
  BY <1>1, <1>2, <1>3, WorkerTables, ClientTables, OwnerTables DEF Next

-----------------------------------------------------------------------------
(* The tasks                                                               *)

\* Tasks, an empty task and no task are three things.
LEMMA TaskKinds ==
  /\ \A k \in Task : k \in Nat /\ k # Nothing /\ k # NoTask
  /\ Nothing # NoTask
  BY PoolAssumption DEF Task, Nothing, NoTask

\* At the start there are no tasks.
LEMMA TasksStart == Init => TasksIInv
<1> SUFFICES ASSUME Init PROVE TasksIInv
  OBVIOUS
<1>1. /\ \A q \in DOMAIN task_queues : task_queues[q] = <<>>
      /\ has_task = [t \in Thread |-> NoTask] /\ futures = [k \in Task |-> "none"] /\ created = 0
  BY DEF Init
<1>2. \A k, q, i : ~Lies(k, q, i)
  BY <1>1 DEF Lies
<1>3. TasksOK
  <2>1. <<>> \in Seq(Task \cup {Nothing}) /\ 0 \in 0 .. MaxTasks
    BY PoolAssumption
  <2> QED
    BY <1>1, <2>1 DEF TasksOK
<1>4. \A t \in Thread : has_task[t] = NoTask /\ pc[t] \notin Enqueueing /\ pc[t] # "running"
  BY <1>1 DEF Init, Enqueueing
<1>5. HavingOK
  <2>1. \A k \in Task : futures[k] = "none"
    BY <1>1
  <2> QED
    BY <1>2, <1>4, <2>1, Kinds, TaskKinds DEF HavingOK
<1>6. NowhereTwice
  BY <1>2, <1>4, TaskKinds DEF NowhereTwice
<1>7. PendingIsSomewhere
  BY <1>1 DEF PendingIsSomewhere
<1> QED
  BY <1>3, <1>5, <1>6, <1>7 DEF TasksIInv

\* Nothing of the tasks changes, nor who is enqueueing or running.
LEMMA TasksStay ==
  ASSUME TasksIInv, UNCHANGED tasks,
         \A q \in DOMAIN task_queues' : task_queues'[q] \in Seq(Task \cup {Nothing}),
         \A k \in Task, q \in Queue : \A i \in Nat : Lies(k, q, i)' <=> Lies(k, q, i),
         \A c \in Client : pc'[c] \in Enqueueing <=> pc[c] \in Enqueueing,
         \A w \in Worker : pc'[w] = "running" <=> pc[w] = "running"
  PROVE  TasksIInv'
<1>1. has_task' = has_task /\ futures' = futures /\ created' = created
  BY DEF tasks
<1>2. TasksOK'
  BY <1>1 DEF TasksIInv, TasksOK
<1>3. HavingOK'
  <2>1. \A c \in Client : IF pc'[c] \in Enqueueing
                          THEN has_task[c] \in 1 .. created /\ futures[has_task[c]] = "none"
                          ELSE has_task[c] = NoTask
    BY DEF TasksIInv, HavingOK
  <2>2. \A w \in Worker : /\ pc'[w] = "running" <=> has_task[w] # NoTask
                          /\ has_task[w] \in Task => futures[has_task[w]] = "pending"
    BY DEF TasksIInv, HavingOK
  <2>3. \A k \in Task, q \in Queue : \A i \in Nat : Lies(k, q, i)' => futures[k] = "pending"
    BY DEF TasksIInv, HavingOK
  <2>4. \A k \in Task : k > created => futures[k] = "none"
    BY DEF TasksIInv, HavingOK
  <2> QED
    BY <1>1, <2>1, <2>2, <2>3, <2>4 DEF HavingOK
<1>4. NowhereTwice'
  BY <1>1 DEF TasksIInv, NowhereTwice
<1>5. PendingIsSomewhere'
  BY <1>1 DEF TasksIInv, PendingIsSomewhere
<1> QED
  BY <1>2, <1>3, <1>4, <1>5 DEF TasksIInv

\* A task lies where it did when the queues are the same.
LEMMA SameQueues ==
  ASSUME UNCHANGED task_queues, NEW k, NEW q, NEW i
  PROVE  Lies(k, q, i)' <=> Lies(k, q, i)
  BY DEF Lies

\* The steps that neither change the tasks nor the queues.
LEMMA PlainTasks ==
  ASSUME TasksIInv, UNCHANGED <<tasks, task_queues>>,
         \/ UNCHANGED pc
         \/ \E c \in Client : \E q :
              pc' = [pc EXCEPT ![c] = q] /\ (q \in Enqueueing <=> pc[c] \in Enqueueing)
         \/ \E w \in Worker : \E q :
              pc' = [pc EXCEPT ![w] = q] /\ (q = "running" <=> pc[w] = "running"),
         pc \in [Thread -> Place]
  PROVE  TasksIInv'
<1>1. \A q \in DOMAIN task_queues' : task_queues'[q] \in Seq(Task \cup {Nothing})
  BY DEF TasksIInv, TasksOK
<1>2. \A k \in Task, q \in Queue : \A i \in Nat : Lies(k, q, i)' <=> Lies(k, q, i)
  BY SameQueues
<1>3. /\ \A c \in Client : pc'[c] \in Enqueueing <=> pc[c] \in Enqueueing
      /\ \A w \in Worker : pc'[w] = "running" <=> pc[w] = "running"
  <2>1. CASE UNCHANGED pc
    BY <2>1
  <2>2. CASE \E c \in Client : \E q :
               pc' = [pc EXCEPT ![c] = q] /\ (q \in Enqueueing <=> pc[c] \in Enqueueing)
    BY <2>2, Kinds
  <2>3. CASE \E w \in Worker : \E q :
               pc' = [pc EXCEPT ![w] = q] /\ (q = "running" <=> pc[w] = "running")
    BY <2>3, Kinds
  <2> QED
    BY <2>1, <2>2, <2>3
<1> QED
  BY <1>1, <1>2, <1>3, TasksStay

\* A task is taken from a queue, or a task ends.
LEMMA WorkerTasks ==
  ASSUME TablesIInv, TasksIInv, NEW w \in Worker, OfWorker(w)
  PROVE  TasksIInv'
<1>0. /\ w \in Thread /\ pc \in [Thread -> Place] /\ best[w] \in Queue
      /\ has_task \in [Thread -> Task \cup {Nothing, NoTask}]
      /\ futures \in [Task -> {"none", "pending", "ready", "broken"}]
      /\ \A c \in Client : c \in Thread /\ c # w
  BY Kinds DEF TablesIInv, TablesOK, PlacesOK, TasksIInv, TasksOK
<1>1. CASE Start(w) \/ Go(w) \/ GetNextTask(w) \/ MostBusy(w) \/ Steal(w) \/ WriteLocation(w)
           \/ Sleep(w) \/ WakeUp(w) \/ StopRequired(w)
  <2>1. /\ UNCHANGED <<tasks, queues>> /\ pc[w] # "running"
        /\ \E q \in {"spin", "loop", "most_busy", "write_location", "search_most_busy", "wait", "asleep",
                     "exited"} : pc' = [pc EXCEPT ![w] = q]
    BY <1>1 DEF Start, Go, GetNextTask, MostBusy, Steal, WriteLocation, Sleep, WakeUp, StopRequired,
      Iterate, Goto
  <2> QED
    BY <1>0, <2>1, PlainTasks DEF queues
<1>2. CASE Compare(w)
  BY <1>0, <1>2, PlainTasks DEF Compare, queues
<1>3. CASE Take(w)
  <2>a. PICK q0 \in Queue : q0 = best[w]
    BY <1>0
  <2>0. PICK k0 : q0 = best[w] /\ k0 = Head(task_queues[best[w]])
    BY <2>a
  <2>1. /\ pc[w] = "wait" /\ pc' = [pc EXCEPT ![w] = "running"]
        /\ q0 \in DOMAIN task_queues /\ task_queues[q0] # <<>>
        /\ has_task' = [has_task EXCEPT ![w] = k0]
        /\ task_queues' = [task_queues EXCEPT ![q0] = Tail(task_queues[q0])]
        /\ UNCHANGED <<futures, created>>
    BY <1>3, <2>0 DEF Take, Goto, Exists, At
  <2>2. /\ q0 \in Queue /\ task_queues[q0] \in Seq(Task \cup {Nothing})
        /\ k0 \in Task \cup {Nothing} /\ k0 = task_queues[q0][1]
        /\ Len(task_queues[q0]) \in Nat \ {0}
        /\ Tail(task_queues[q0]) \in Seq(Task \cup {Nothing})
        /\ DOMAIN task_queues[q0] = 1 .. Len(task_queues[q0])
        /\ DOMAIN Tail(task_queues[q0]) = 1 .. Len(task_queues[q0]) - 1
        /\ \A i \in 1 .. Len(task_queues[q0]) - 1 : Tail(task_queues[q0])[i] = task_queues[q0][i + 1]
    BY <1>0, <2>0, <2>1 DEF TasksIInv, TasksOK
  <2>3. /\ DOMAIN task_queues' = DOMAIN task_queues
        /\ task_queues'[q0] = Tail(task_queues[q0])
        /\ \A q \in DOMAIN task_queues \ {q0} : task_queues'[q] = task_queues[q]
    BY <2>1
  <2>4. /\ has_task'[w] = k0 /\ \A t \in Thread \ {w} : has_task'[t] = has_task[t]
        /\ pc'[w] = "running" /\ \A t \in Thread \ {w} : pc'[t] = pc[t]
        /\ has_task[w] = NoTask
    BY <1>0, <2>1 DEF TasksIInv, HavingOK
  <2>5. /\ \A k \in Task : \A i \in Nat : Lies(k, q0, i)' <=> i # 0 /\ Lies(k, q0, i + 1)
        /\ \A k \in Task : k0 = k <=> Lies(k, q0, 1)
        /\ \A k \in Task, q \in Queue \ {q0} : \A i \in Nat : Lies(k, q, i)' <=> Lies(k, q, i)
    <3>1. ASSUME NEW k \in Task, NEW i \in Nat
          PROVE  Lies(k, q0, i)' <=> i # 0 /\ Lies(k, q0, i + 1)
      BY <2>1, <2>2, <2>3 DEF Lies
    <3>2. \A k \in Task : k0 = k <=> Lies(k, q0, 1)
      BY <2>1, <2>2 DEF Lies
    <3>3. \A k \in Task, q \in Queue \ {q0} : \A i \in Nat : Lies(k, q, i)' <=> Lies(k, q, i)
      BY <2>3 DEF Lies
    <3> QED
      BY <3>1, <3>2, <3>3
  <2>6. ASSUME NEW k \in Task, NEW q \in Queue, NEW i \in Nat, Lies(k, q, i)'
        PROVE  \E j \in Nat : Lies(k, q, j) /\ (q = q0 => j = i + 1) /\ (q # q0 => j = i)
    BY <2>5, <2>6
  <2>7. TasksOK'
    <3>1. \A q \in DOMAIN task_queues' : task_queues'[q] \in Seq(Task \cup {Nothing})
      BY <2>2, <2>3 DEF TasksIInv, TasksOK
    <3>2. has_task' \in [Thread -> Task \cup {Nothing, NoTask}]
      BY <1>0, <2>1, <2>2
    <3> QED
      BY <2>1, <3>1, <3>2 DEF TasksIInv, TasksOK
  <2>8. HavingOK'
    <3>1. \A c \in Client : IF pc'[c] \in Enqueueing
                            THEN has_task'[c] \in 1 .. created /\ futures[has_task'[c]] = "none"
                            ELSE has_task'[c] = NoTask
      BY <1>0, <2>4 DEF TasksIInv, HavingOK
    <3>2. ASSUME NEW u \in Worker
          PROVE  /\ pc'[u] = "running" <=> has_task'[u] # NoTask
                 /\ has_task'[u] \in Task => futures[has_task'[u]] = "pending"
      <4>1. CASE u = w
        BY <2>2, <2>4, <2>5, <4>1, TaskKinds DEF TasksIInv, HavingOK
      <4>2. CASE u # w
        BY <2>4, <4>2, Kinds DEF TasksIInv, HavingOK
      <4> QED
        BY <4>1, <4>2
    <3>3. \A k \in Task, q \in Queue : \A i \in Nat : Lies(k, q, i)' => futures[k] = "pending"
      BY <2>6 DEF TasksIInv, HavingOK
    <3>4. \A k \in Task : k > created => futures[k] = "none"
      BY DEF TasksIInv, HavingOK
    <3> QED
      BY <2>1, <3>1, <3>2, <3>3, <3>4 DEF HavingOK
  <2>9. NowhereTwice'
    <3> SUFFICES ASSUME NEW k \in Task
                 PROVE  /\ \A t, u \in Thread : has_task'[t] = k /\ has_task'[u] = k => t = u
                        /\ \A q, r \in Queue : \A i, j \in Nat : Lies(k, q, i)' /\ Lies(k, r, j)' => q = r /\ i = j
                        /\ \A t \in Thread, q \in Queue : \A i \in Nat : ~(has_task'[t] = k /\ Lies(k, q, i)')
      BY DEF NowhereTwice
    <3>1. /\ \A t, u \in Thread : has_task[t] = k /\ has_task[u] = k => t = u
          /\ \A q, r \in Queue : \A i, j \in Nat : Lies(k, q, i) /\ Lies(k, r, j) => q = r /\ i = j
          /\ \A t \in Thread, q \in Queue : \A i \in Nat : ~(has_task[t] = k /\ Lies(k, q, i))
      BY DEF TasksIInv, NowhereTwice
    <3>2. \A t \in Thread : has_task[t] = k => ~Lies(k, q0, 1)
      BY <2>2, <3>1
    <3>3. \A t, u \in Thread : has_task'[t] = k /\ has_task'[u] = k => t = u
      BY <2>4, <2>5, <3>1, <3>2
    <3>4. ASSUME NEW q \in Queue, NEW r \in Queue, NEW i \in Nat, NEW j \in Nat,
                 Lies(k, q, i)', Lies(k, r, j)'
          PROVE  q = r /\ i = j
      <4>1. PICK m \in Nat : Lies(k, q, m) /\ (q = q0 => m = i + 1) /\ (q # q0 => m = i)
        BY <2>6, <3>4
      <4>2. PICK n \in Nat : Lies(k, r, n) /\ (r = q0 => n = j + 1) /\ (r # q0 => n = j)
        BY <2>6, <3>4
      <4> QED
        BY <3>1, <4>1, <4>2
    <3>5. ASSUME NEW t \in Thread, NEW q \in Queue, NEW i \in Nat, has_task'[t] = k, Lies(k, q, i)'
          PROVE  FALSE
      <4>1. PICK m \in Nat : Lies(k, q, m) /\ (q = q0 => m = i + 1)
        BY <2>6, <3>5
      <4>2. CASE t = w
        <5>1. Lies(k, q0, 1)
          BY <2>4, <2>5, <3>5, <4>2
        <5>2. q = q0 /\ m = 1
          BY <2>2, <3>1, <4>1, <5>1
        <5>3. i = 0 /\ (i # 0)
          BY <2>5, <3>5, <4>1, <5>2
        <5> QED
          BY <5>3
      <4>3. CASE t # w
        BY <2>4, <3>1, <3>5, <4>1, <4>3
      <4> QED
        BY <4>2, <4>3
    <3> QED
      BY <3>3, <3>4, <3>5
  <2>10. PendingIsSomewhere'
    <3> SUFFICES ASSUME NEW k \in Task, futures[k] = "pending"
                 PROVE  \/ \E u \in Worker : has_task'[u] = k
                        \/ \E q \in Queue : \E i \in Nat : Lies(k, q, i)'
      BY <2>1 DEF PendingIsSomewhere
    <3>1. CASE \E u \in Worker : has_task[u] = k
      BY <2>4, <3>1, TaskKinds, Kinds
    <3>2. CASE \E q \in Queue : \E i \in Nat : Lies(k, q, i)
      <4>1. PICK q \in Queue, i \in Nat : Lies(k, q, i)
        BY <3>2
      <4>2. CASE q # q0
        BY <2>5, <4>1, <4>2
      <4>3. CASE q = q0 /\ i = 1
        BY <2>4, <2>5, <4>1, <4>3
      <4>4. CASE q = q0 /\ i # 1
        <5>1. i \in 1 .. Len(task_queues[q0])
          BY <2>2, <4>1, <4>4 DEF Lies
        <5>2. i - 1 \in Nat /\ i - 1 # 0 /\ (i - 1) + 1 = i
          BY <2>2, <4>4, <5>1
        <5>3. Lies(k, q0, i - 1)'
          BY <2>5, <4>1, <4>4, <5>2
        <5> QED
          BY <2>2, <5>2, <5>3
      <4> QED
        BY <4>2, <4>3, <4>4
    <3> QED
      BY <3>1, <3>2 DEF TasksIInv, PendingIsSomewhere
  <2> QED
    BY <2>7, <2>8, <2>9, <2>10 DEF TasksIInv
<1>4. CASE Finish(w)
  <2> DEFINE k0 == has_task[w]
  <2>1. /\ pc[w] = "running" /\ \E q \in {"exited", "loop"} : pc' = [pc EXCEPT ![w] = q]
        /\ futures' = IF k0 = Nothing THEN futures ELSE [futures EXCEPT ![k0] = "ready"]
        /\ has_task' = [has_task EXCEPT ![w] = NoTask]
        /\ UNCHANGED <<queues, created>>
    BY <1>4 DEF Finish, Iterate, Goto
  <2>2. k0 \in Task \cup {Nothing} /\ k0 # NoTask
    BY <1>0, <2>1, TaskKinds DEF TasksIInv, HavingOK
  <2> HIDE DEF k0
  <2>3. /\ has_task'[w] = NoTask /\ \A t \in Thread \ {w} : has_task'[t] = has_task[t]
        /\ pc'[w] # "running" /\ \A t \in Thread \ {w} : pc'[t] = pc[t]
    BY <1>0, <2>1
  <2>4. \A k \in Task \ {k0} : futures'[k] = futures[k]
    BY <1>0, <2>1, <2>2
  <2>5. \A k, q, i : Lies(k, q, i)' <=> Lies(k, q, i)
    BY <2>1, SameQueues DEF queues
  <2>6. k0 \in Task => /\ futures'[k0] = "ready"
                       /\ \A t \in Thread : has_task'[t] # k0
                       /\ \A q \in Queue : \A i \in Nat : ~Lies(k0, q, i)
    <3> SUFFICES ASSUME k0 \in Task
                 PROVE  /\ futures'[k0] = "ready"
                        /\ \A t \in Thread : has_task'[t] # k0
                        /\ \A q \in Queue : \A i \in Nat : ~Lies(k0, q, i)
      OBVIOUS
    <3>1. futures'[k0] = "ready"
      BY <1>0, <2>1, TaskKinds
    <3>2. has_task[w] = k0
      BY DEF k0
    <3>3. \A t \in Thread : has_task'[t] # k0
      BY <1>0, <2>3, <3>2, TaskKinds DEF TasksIInv, NowhereTwice
    <3>4. \A q \in Queue : \A i \in Nat : ~Lies(k0, q, i)
      BY <1>0, <3>2 DEF TasksIInv, NowhereTwice
    <3> QED
      BY <3>1, <3>3, <3>4
  <2>7. TasksOK'
    <3>1. futures' \in [Task -> {"none", "pending", "ready", "broken"}]
      BY <1>0, <2>1
    <3>2. has_task' \in [Thread -> Task \cup {Nothing, NoTask}]
      BY <1>0, <2>1
    <3> QED
      BY <2>1, <3>1, <3>2 DEF TasksIInv, TasksOK, queues
  <2>8. HavingOK'
    <3>1. ASSUME NEW c \in Client
          PROVE  IF pc'[c] \in Enqueueing
                 THEN has_task'[c] \in 1 .. created /\ futures'[has_task'[c]] = "none"
                 ELSE has_task'[c] = NoTask
      <4>1. /\ pc'[c] = pc[c] /\ has_task'[c] = has_task[c]
        BY <1>0, <2>3
      <4>2. IF pc[c] \in Enqueueing
            THEN has_task[c] \in 1 .. created /\ futures[has_task[c]] = "none"
            ELSE has_task[c] = NoTask
        BY DEF TasksIInv, HavingOK
      <4>3. 1 .. created \subseteq Task
        BY PoolAssumption DEF TasksIInv, TasksOK, Task
      <4>4. CASE pc[c] \in Enqueueing
        <5>1. has_task[c] # k0
          BY <1>0, <2>6, <4>1, <4>2, <4>3, <4>4
        <5> QED
          BY <2>4, <4>1, <4>2, <4>3, <4>4, <5>1
      <4>5. CASE pc[c] \notin Enqueueing
        BY <4>1, <4>2, <4>5
      <4> QED
        BY <4>4, <4>5
    <3>2. ASSUME NEW u \in Worker
          PROVE  /\ pc'[u] = "running" <=> has_task'[u] # NoTask
                 /\ has_task'[u] \in Task => futures'[has_task'[u]] = "pending"
      <4>1. CASE u = w
        BY <2>3, <4>1, TaskKinds
      <4>2. CASE u # w
        <5>1. u \in Thread /\ has_task'[u] = has_task[u] /\ pc'[u] = pc[u]
          BY <2>3, <4>2, Kinds
        <5>2. has_task'[u] \in Task => has_task'[u] # k0
          BY <2>6, <5>1
        <5>3. /\ pc[u] = "running" <=> has_task[u] # NoTask
              /\ has_task[u] \in Task => futures[has_task[u]] = "pending"
          BY DEF TasksIInv, HavingOK
        <5> QED
          BY <2>4, <5>1, <5>2, <5>3
      <4> QED
        BY <4>1, <4>2
    <3>3. ASSUME NEW k \in Task, NEW q \in Queue, NEW i \in Nat, Lies(k, q, i)'
          PROVE  futures'[k] = "pending"
      <4>1. Lies(k, q, i)
        BY <2>5, <3>3
      <4>2. k # k0 /\ futures[k] = "pending"
        BY <2>6, <4>1 DEF TasksIInv, HavingOK
      <4> QED
        BY <2>4, <4>2
    <3>4. ASSUME NEW k \in Task, k > created
          PROVE  futures'[k] = "none"
      <4>1. futures[k] = "none"
        BY <3>4 DEF TasksIInv, HavingOK
      <4>2. k0 \in Task => futures[k0] = "pending"
        BY DEF k0, TasksIInv, HavingOK
      <4>3. k # k0
        BY <4>1, <4>2
      <4> QED
        BY <2>4, <4>1, <4>3
    <3> QED
      BY <2>1, <3>1, <3>2, <3>3, <3>4 DEF HavingOK
  <2>9. NowhereTwice'
    <3>1. \A t \in Thread : \A k \in Task : has_task'[t] = k => has_task[t] = k
      BY <2>3, TaskKinds
    <3> QED
      BY <2>5, <3>1 DEF TasksIInv, NowhereTwice
  <2>10. PendingIsSomewhere'
    <3> SUFFICES ASSUME NEW k \in Task, futures'[k] = "pending"
                 PROVE  \/ \E u \in Worker : has_task'[u] = k
                        \/ \E q \in Queue : \E i \in Nat : Lies(k, q, i)'
      BY DEF PendingIsSomewhere
    <3>1. k # k0 /\ futures[k] = "pending"
      BY <2>4, <2>6
    <3>2. \A u \in Worker : has_task[u] = k => has_task'[u] = k
      <4>1. has_task[w] # k
        BY <3>1 DEF k0
      <4> QED
        BY <2>3, <4>1, Kinds
    <3> QED
      BY <2>5, <3>1, <3>2 DEF TasksIInv, PendingIsSomewhere
  <2> QED
    BY <2>7, <2>8, <2>9, <2>10 DEF TasksIInv
<1> QED
  BY <1>1, <1>2, <1>3, <1>4 DEF OfWorker

\* A call of enqueue makes a task, and pushes it or destroys it.
LEMMA ClientTasks ==
  ASSUME TablesIInv, TasksIInv, NEW c \in Client, Enqueue(c) \/ OfClient(c) \/ Size(c)
  PROVE  TasksIInv'
<1>0. /\ c \in Thread /\ pc \in [Thread -> Place] /\ best[c] \in Queue
      /\ has_task \in [Thread -> Task \cup {Nothing, NoTask}]
      /\ futures \in [Task -> {"none", "pending", "ready", "broken"}]
      /\ \A w \in Worker : w \in Thread /\ w # c
      /\ created \in 0 .. MaxTasks /\ MaxTasks \in Nat /\ \A d \in Client : d \in Thread
  BY Kinds, PoolAssumption DEF TablesIInv, TablesOK, PlacesOK, TasksIInv, TasksOK
<1>1. CASE LockLocations(c) \/ LockQueues(c) \/ LockThreads(c)
  <2>1. /\ UNCHANGED <<tasks, queues>> /\ pc[c] \in Enqueueing
        /\ \E q \in Enqueueing : pc' = [pc EXCEPT ![c] = q]
    BY <1>1 DEF LockLocations, LockQueues, LockThreads, Goto, Enqueueing
  <2> QED
    BY <1>0, <2>1, PlainTasks DEF queues
<1>2. CASE Compare(c) \/ Size(c)
  BY <1>0, <1>2, PlainTasks DEF Compare, Size, queues
<1>3. CASE Enqueue(c)
  <2>0. PICK k0 : k0 = created + 1
    OBVIOUS
  <2>1. /\ pc[c] = "idle" /\ pc' = [pc EXCEPT ![c] = "lock_locations"]
        /\ created < MaxTasks /\ created' = k0 /\ has_task' = [has_task EXCEPT ![c] = k0]
        /\ UNCHANGED <<queues, futures>>
    BY <1>3, <2>0 DEF Enqueue, Calling, Goto
  <2>2. k0 \in Task /\ created' \in 0 .. MaxTasks /\ k0 > created
    BY <1>0, <2>0, <2>1 DEF Task
  <2>3. /\ has_task'[c] = k0 /\ \A t \in Thread \ {c} : has_task'[t] = has_task[t]
        /\ pc'[c] = "lock_locations" /\ \A t \in Thread \ {c} : pc'[t] = pc[t]
    BY <1>0, <2>1
  <2>4. \A k, q, i : Lies(k, q, i)' <=> Lies(k, q, i)
    BY <2>1, SameQueues DEF queues
  <2>5. /\ futures[k0] = "none" /\ \A t \in Thread \ {c} : has_task[t] # k0
        /\ \A q \in Queue : \A i \in Nat : ~Lies(k0, q, i)
    <3>1. futures[k0] = "none"
      BY <2>2 DEF TasksIInv, HavingOK
    <3>2. ASSUME NEW t \in Thread \ {c}
          PROVE  has_task[t] # k0
      <4>1. CASE t \in Client
        BY <1>0, <2>2, <4>1, TaskKinds DEF TasksIInv, HavingOK
      <4>2. CASE t \in Worker
        BY <2>2, <3>1, <4>2 DEF TasksIInv, HavingOK
      <4> QED
        BY <4>1, <4>2, Kinds
    <3>3. \A q \in Queue : \A i \in Nat : ~Lies(k0, q, i)
      BY <2>2, <3>1 DEF TasksIInv, HavingOK
    <3> QED
      BY <3>1, <3>2, <3>3
  <2>6. TasksOK'
    <3>1. has_task' \in [Thread -> Task \cup {Nothing, NoTask}]
      BY <1>0, <2>1, <2>2
    <3> QED
      BY <2>1, <2>2, <3>1 DEF TasksIInv, TasksOK, queues
  <2>7. HavingOK'
    <3>1. ASSUME NEW d \in Client
          PROVE  IF pc'[d] \in Enqueueing
                 THEN has_task'[d] \in 1 .. created' /\ futures[has_task'[d]] = "none"
                 ELSE has_task'[d] = NoTask
      <4>1. CASE d = c
        BY <1>0, <2>0, <2>1, <2>3, <2>5, <4>1 DEF Enqueueing
      <4>2. CASE d # c
        <5>1. pc'[d] = pc[d] /\ has_task'[d] = has_task[d]
          BY <1>0, <2>3, <4>2
        <5>2. IF pc[d] \in Enqueueing
              THEN has_task[d] \in 1 .. created /\ futures[has_task[d]] = "none"
              ELSE has_task[d] = NoTask
          BY DEF TasksIInv, HavingOK
        <5>3. 1 .. created \subseteq 1 .. created'
          BY <1>0, <2>0, <2>1
        <5> QED
          BY <5>1, <5>2, <5>3
      <4> QED
        BY <4>1, <4>2
    <3>2. ASSUME NEW u \in Worker
          PROVE  /\ pc'[u] = "running" <=> has_task'[u] # NoTask
                 /\ has_task'[u] \in Task => futures[has_task'[u]] = "pending"
      BY <1>0, <2>3 DEF TasksIInv, HavingOK
    <3>3. ASSUME NEW k \in Task, k > created'
          PROVE  futures[k] = "none"
      <4>1. k > created
        BY <1>0, <2>0, <2>1, <3>3, TaskKinds
      <4> QED
        BY <4>1 DEF TasksIInv, HavingOK
    <3> QED
      BY <2>1, <2>4, <3>1, <3>2, <3>3 DEF TasksIInv, HavingOK
  <2>8. NowhereTwice'
    <3> SUFFICES ASSUME NEW k \in Task
                 PROVE  /\ \A t, u \in Thread : has_task'[t] = k /\ has_task'[u] = k => t = u
                        /\ \A q, r \in Queue : \A i, j \in Nat : Lies(k, q, i)' /\ Lies(k, r, j)' => q = r /\ i = j
                        /\ \A t \in Thread, q \in Queue : \A i \in Nat : ~(has_task'[t] = k /\ Lies(k, q, i)')
      BY DEF NowhereTwice
    <3>1. /\ \A t, u \in Thread : has_task[t] = k /\ has_task[u] = k => t = u
          /\ \A q, r \in Queue : \A i, j \in Nat : Lies(k, q, i) /\ Lies(k, r, j) => q = r /\ i = j
          /\ \A t \in Thread, q \in Queue : \A i \in Nat : ~(has_task[t] = k /\ Lies(k, q, i))
      BY DEF TasksIInv, NowhereTwice
    <3>2. CASE k = k0
      BY <2>3, <2>4, <2>5, <3>2
    <3>3. CASE k # k0
      BY <2>3, <2>4, <3>1, <3>3
    <3> QED
      BY <3>2, <3>3
  <2>9. PendingIsSomewhere'
    <3>1. \A u \in Worker : has_task'[u] = has_task[u]
      BY <1>0, <2>3
    <3> QED
      BY <2>1, <2>4, <3>1 DEF TasksIInv, PendingIsSomewhere
  <2> QED
    BY <2>6, <2>7, <2>8, <2>9 DEF TasksIInv
<1>4. CASE EnqueueThrows(c)
  <2>1. /\ pc[c] \in Enqueueing /\ pc' = [pc EXCEPT ![c] = "idle"]
        /\ has_task' = [has_task EXCEPT ![c] = NoTask] /\ UNCHANGED <<queues, futures, created>>
    BY <1>4 DEF EnqueueThrows, Goto, Enqueueing
  <2>2. /\ has_task'[c] = NoTask /\ \A t \in Thread \ {c} : has_task'[t] = has_task[t]
        /\ pc'[c] = "idle" /\ \A t \in Thread \ {c} : pc'[t] = pc[t]
    BY <1>0, <2>1
  <2>3. \A k, q, i : Lies(k, q, i)' <=> Lies(k, q, i)
    BY <2>1, SameQueues DEF queues
  <2>4. TasksOK'
    <3>1. has_task' \in [Thread -> Task \cup {Nothing, NoTask}]
      BY <1>0, <2>1
    <3> QED
      BY <2>1, <3>1 DEF TasksIInv, TasksOK, queues
  <2>5. HavingOK'
    <3>1. ASSUME NEW d \in Client
          PROVE  IF pc'[d] \in Enqueueing
                 THEN has_task'[d] \in 1 .. created /\ futures[has_task'[d]] = "none"
                 ELSE has_task'[d] = NoTask
      <4>1. CASE d = c
        BY <2>2, <4>1 DEF Enqueueing
      <4>2. CASE d # c
        BY <1>0, <2>2, <4>2 DEF TasksIInv, HavingOK
      <4> QED
        BY <4>1, <4>2
    <3>2. ASSUME NEW u \in Worker
          PROVE  /\ pc'[u] = "running" <=> has_task'[u] # NoTask
                 /\ has_task'[u] \in Task => futures[has_task'[u]] = "pending"
      BY <1>0, <2>2 DEF TasksIInv, HavingOK
    <3> QED
      BY <2>1, <2>3, <3>1, <3>2 DEF TasksIInv, HavingOK
  <2>6. NowhereTwice'
    <3>1. \A t \in Thread : \A k \in Task : has_task'[t] = k => has_task[t] = k
      BY <2>2, TaskKinds
    <3> QED
      BY <2>3, <3>1 DEF TasksIInv, NowhereTwice
  <2>7. PendingIsSomewhere'
    <3>1. \A u \in Worker : has_task'[u] = has_task[u]
      BY <1>0, <2>2
    <3> QED
      BY <2>1, <2>3, <3>1 DEF TasksIInv, PendingIsSomewhere
  <2> QED
    BY <2>4, <2>5, <2>6, <2>7 DEF TasksIInv
<1>5. CASE Push(c)
  <2>a. PICK q0 \in Queue : q0 = best[c]
    BY <1>0
  <2>0. PICK k0 : q0 = best[c] /\ k0 = has_task[c]
    BY <2>a
  <2>1. /\ pc[c] = "search_least_busy" /\ pc' = [pc EXCEPT ![c] = "idle"]
        /\ task_queues' = Pushed(q0, k0)
        /\ futures' = [futures EXCEPT ![k0] = "pending"]
        /\ has_task' = [has_task EXCEPT ![c] = NoTask]
        /\ UNCHANGED created
    BY <1>5, <2>0 DEF Push, Goto
  <2>2. k0 \in 1 .. created /\ k0 \in Task /\ futures[k0] = "none"
    <3>1. pc[c] \in Enqueueing
      BY <2>1 DEF Enqueueing
    <3>2. k0 \in 1 .. created /\ futures[k0] = "none"
      BY <2>0, <3>1 DEF TasksIInv, HavingOK
    <3> QED
      BY <1>0, <3>2 DEF Task
  <2>3. /\ has_task'[c] = NoTask /\ \A t \in Thread \ {c} : has_task'[t] = has_task[t]
        /\ pc'[c] = "idle" /\ \A t \in Thread \ {c} : pc'[t] = pc[t]
        /\ futures'[k0] = "pending" /\ \A k \in Task \ {k0} : futures'[k] = futures[k]
    BY <1>0, <2>1, <2>2
  <2>4. \A q \in Queue : \A i \in Nat : ~Lies(k0, q, i)
    BY <2>2 DEF TasksIInv, HavingOK
  <2>5. PICK n \in Nat :
          /\ \A k \in Task, q \in Queue : \A i \in Nat :
               Lies(k, q, i)' <=> Lies(k, q, i) \/ (k = k0 /\ q = q0 /\ i = n)
          /\ \A q \in DOMAIN task_queues' : task_queues'[q] \in Seq(Task \cup {Nothing})
    <3>1. CASE Exists(q0)
      <4>1. q0 \in DOMAIN task_queues /\ task_queues' = [task_queues EXCEPT ![q0] = Append(task_queues[q0], k0)]
        BY <2>1, <3>1 DEF Pushed, Exists
      <4> DEFINE s == task_queues[q0]
                 u == Append(s, k0)
      <4>2. s \in Seq(Task \cup {Nothing})
        BY <4>1 DEF TasksIInv, TasksOK
      <4>3. /\ u \in Seq(Task \cup {Nothing}) /\ Len(s) \in Nat /\ DOMAIN s = 1 .. Len(s)
            /\ DOMAIN u = 1 .. Len(s) + 1 /\ u[Len(s) + 1] = k0
            /\ \A i \in 1 .. Len(s) : u[i] = s[i]
        BY <2>2, <4>2
      <4>4. /\ DOMAIN task_queues' = DOMAIN task_queues /\ task_queues'[q0] = u
            /\ \A q \in DOMAIN task_queues \ {q0} : task_queues'[q] = task_queues[q]
        BY <4>1
      <4>5. PICK m \in Nat : m = Len(s) + 1
        BY <4>3
      <4>6. PICK v, x : v = s /\ x = u
        OBVIOUS
      <4>7. /\ DOMAIN v = 1 .. m - 1 /\ DOMAIN x = 1 .. m /\ x[m] = k0 /\ \A i \in 1 .. m - 1 : x[i] = v[i]
            /\ task_queues[q0] = v /\ task_queues'[q0] = x /\ q0 \in DOMAIN task_queues /\ m >= 1
        BY <4>1, <4>3, <4>4, <4>5, <4>6
      <4> HIDE DEF s, u
      <4>8. ASSUME NEW k \in Task, NEW q \in Queue, NEW i \in Nat
            PROVE  Lies(k, q, i)' <=> Lies(k, q, i) \/ (k = k0 /\ q = q0 /\ i = m)
        <5>1. CASE q = q0
          <6>1. Lies(k, q, i)' <=> i \in 1 .. m /\ x[i] = k
            BY <4>4, <4>7, <5>1 DEF Lies
          <6>2. Lies(k, q, i) <=> i \in 1 .. m - 1 /\ v[i] = k
            BY <4>7, <5>1 DEF Lies
          <6>3. i \in 1 .. m <=> i \in 1 .. m - 1 \/ i = m
            BY <4>7
          <6>4. m \notin 1 .. m - 1
            OBVIOUS
          <6> QED
            BY <4>7, <5>1, <6>1, <6>2, <6>3, <6>4
        <5>2. CASE q # q0
          BY <4>4, <5>2 DEF Lies
        <5> QED
          BY <5>1, <5>2
      <4>9. \A q \in DOMAIN task_queues' : task_queues'[q] \in Seq(Task \cup {Nothing})
        BY <4>3, <4>4 DEF TasksIInv, TasksOK
      <4> QED
        BY <4>8, <4>9
    <3>2. CASE ~Exists(q0)
      <4>1. q0 \notin DOMAIN task_queues /\ task_queues' = Inserted(task_queues, q0, <<k0>>)
        BY <2>1, <3>2 DEF Pushed, Exists
      <4>2. /\ DOMAIN task_queues' = DOMAIN task_queues \cup {q0} /\ task_queues'[q0] = <<k0>>
            /\ \A q \in DOMAIN task_queues : task_queues'[q] = task_queues[q]
        BY <4>1 DEF Inserted
      <4>3. <<k0>> \in Seq(Task \cup {Nothing}) /\ DOMAIN <<k0>> = {1} /\ <<k0>>[1] = k0
        BY <2>2
      <4>4. ASSUME NEW k \in Task, NEW q \in Queue, NEW i \in Nat
            PROVE  Lies(k, q, i)' <=> Lies(k, q, i) \/ (k = k0 /\ q = q0 /\ i = 1)
        <5>1. CASE q = q0
          <6>1. ~Lies(k, q, i)
            BY <4>1, <5>1 DEF Lies
          <6>2. Lies(k, q, i)' <=> i = 1 /\ k0 = k
            BY <4>2, <4>3, <5>1 DEF Lies
          <6> QED
            BY <5>1, <6>1, <6>2
        <5>2. CASE q # q0
          BY <4>2, <5>2 DEF Lies
        <5> QED
          BY <5>1, <5>2
      <4>5. \A q \in DOMAIN task_queues' : task_queues'[q] \in Seq(Task \cup {Nothing})
        BY <4>2, <4>3 DEF TasksIInv, TasksOK
      <4>6. 1 \in Nat
        OBVIOUS
      <4> QED
        BY <4>4, <4>5, <4>6
    <3> QED
      BY <3>1, <3>2
  <2>6. TasksOK'
    <3>1. futures' \in [Task -> {"none", "pending", "ready", "broken"}]
      BY <1>0, <2>1
    <3>2. has_task' \in [Thread -> Task \cup {Nothing, NoTask}]
      BY <1>0, <2>1
    <3> QED
      BY <2>1, <2>5, <3>1, <3>2 DEF TasksIInv, TasksOK
  <2>7. \A t \in Thread : has_task'[t] # k0
    BY <1>0, <2>0, <2>2, <2>3, TaskKinds DEF TasksIInv, NowhereTwice
  <2>8. HavingOK'
    <3>1. ASSUME NEW d \in Client
          PROVE  IF pc'[d] \in Enqueueing
                 THEN has_task'[d] \in 1 .. created /\ futures'[has_task'[d]] = "none"
                 ELSE has_task'[d] = NoTask
      <4>1. CASE d = c
        BY <2>3, <4>1 DEF Enqueueing
      <4>2. CASE d # c
        <5>1. d \in Thread /\ pc'[d] = pc[d] /\ has_task'[d] = has_task[d] /\ has_task'[d] # k0
          BY <1>0, <2>3, <2>7, <4>2
        <5>2. IF pc[d] \in Enqueueing
              THEN has_task[d] \in 1 .. created /\ futures[has_task[d]] = "none"
              ELSE has_task[d] = NoTask
          BY DEF TasksIInv, HavingOK
        <5>3. 1 .. created \subseteq Task
          BY <1>0 DEF Task
        <5> QED
          BY <2>3, <5>1, <5>2, <5>3
      <4> QED
        BY <4>1, <4>2
    <3>2. ASSUME NEW u \in Worker
          PROVE  /\ pc'[u] = "running" <=> has_task'[u] # NoTask
                 /\ has_task'[u] \in Task => futures'[has_task'[u]] = "pending"
      BY <1>0, <2>3, <2>7 DEF TasksIInv, HavingOK
    <3>3. \A k \in Task, q \in Queue : \A i \in Nat : Lies(k, q, i)' => futures'[k] = "pending"
      BY <2>3, <2>5 DEF TasksIInv, HavingOK
    <3>4. ASSUME NEW k \in Task, k > created
          PROVE  futures'[k] = "none"
      <4>1. k # k0
        BY <1>0, <2>2, <3>4
      <4> QED
        BY <2>3, <3>4, <4>1 DEF TasksIInv, HavingOK
    <3> QED
      BY <2>1, <3>1, <3>2, <3>3, <3>4 DEF HavingOK
  <2>9. NowhereTwice'
    <3> SUFFICES ASSUME NEW k \in Task
                 PROVE  /\ \A t, u \in Thread : has_task'[t] = k /\ has_task'[u] = k => t = u
                        /\ \A q, r \in Queue : \A i, j \in Nat : Lies(k, q, i)' /\ Lies(k, r, j)' => q = r /\ i = j
                        /\ \A t \in Thread, q \in Queue : \A i \in Nat : ~(has_task'[t] = k /\ Lies(k, q, i)')
      BY DEF NowhereTwice
    <3>1. /\ \A t, u \in Thread : has_task[t] = k /\ has_task[u] = k => t = u
          /\ \A q, r \in Queue : \A i, j \in Nat : Lies(k, q, i) /\ Lies(k, r, j) => q = r /\ i = j
          /\ \A t \in Thread, q \in Queue : \A i \in Nat : ~(has_task[t] = k /\ Lies(k, q, i))
      BY DEF TasksIInv, NowhereTwice
    <3>2. CASE k = k0
      BY <2>4, <2>5, <2>7, <3>2
    <3>3. CASE k # k0
      <4>1. \A t \in Thread : has_task'[t] = k => has_task[t] = k
        BY <2>3, TaskKinds
      <4>2. \A q \in Queue : \A i \in Nat : Lies(k, q, i)' <=> Lies(k, q, i)
        BY <2>5, <3>3
      <4> QED
        BY <3>1, <4>1, <4>2
    <3> QED
      BY <3>2, <3>3
  <2>10. PendingIsSomewhere'
    <3> SUFFICES ASSUME NEW k \in Task, futures'[k] = "pending"
                 PROVE  \/ \E u \in Worker : has_task'[u] = k
                        \/ \E q \in Queue : \E i \in Nat : Lies(k, q, i)'
      BY DEF PendingIsSomewhere
    <3>1. CASE k = k0
      BY <2>5, <3>1
    <3>2. CASE k # k0
      <4>1. futures[k] = "pending"
        BY <2>3, <3>2
      <4>2. \A u \in Worker : has_task'[u] = has_task[u]
        BY <1>0, <2>3
      <4> QED
        BY <2>5, <4>1, <4>2 DEF TasksIInv, PendingIsSomewhere
    <3> QED
      BY <3>1, <3>2
  <2> QED
    BY <2>6, <2>8, <2>9, <2>10 DEF TasksIInv
<1> QED
  BY <1>1, <1>2, <1>3, <1>4, <1>5 DEF OfClient

\* The removal of a thread pushes a task that does nothing, and breaks the promises of
\* the tasks in the queue it erases.
LEMMA OwnerTasks ==
  ASSUME TablesIInv, TasksIInv, OfOwner \/ RemoveThreads \/ Destroy \/ AddThreads
  PROVE  TasksIInv'
<1>0. /\ owner \in Client /\ owner \in Thread /\ pc \in [Thread -> Place] /\ best[owner] \in Queue
      /\ futures \in [Task -> {"none", "pending", "ready", "broken"}]
  BY Kinds DEF TablesIInv, TablesOK, PlacesOK, TasksIInv, TasksOK
<1>1. CASE \/ LeastBusyQueues \/ LeastBusyThreads \/ LeastBusyFound \/ CheckIdle \/ FindThread
           \/ Join \/ StopLocation \/ RemoveThreads \/ Destroy \/ AddThreads \/ DestroyNext
           \/ AddThreadFails
  <2>1. /\ UNCHANGED <<tasks, queues>> /\ pc[owner] \notin Enqueueing
        /\ \E q \in {"least_busy_threads", "search_idle", "check_idle", "find_thread", "idle", "join",
                     "stop_location", "stop_queue", "least_busy", "destroy", "add_threads"} :
             pc' = [pc EXCEPT ![owner] = q]
    BY <1>1 DEF LeastBusyQueues, LeastBusyThreads, LeastBusyFound, CheckIdle, FindThread, Join,
      StopLocation, RemoveThreads, Destroy, AddThreads, DestroyNext, AddThreadFails, Calling, Goto,
      Enqueueing
  <2>2. \E c \in Client : \E q : pc' = [pc EXCEPT ![c] = q] /\ (q \in Enqueueing <=> pc[c] \in Enqueueing)
    BY <1>0, <2>1 DEF Enqueueing
  <2> QED
    BY <1>0, <2>1, <2>2, PlainTasks DEF queues
<1>2. CASE AddLock
  <2>1. PICK step \in {<<"add_threads", "threads", "add_queues">>,
                       <<"add_queues", "task_queues", "add_locations">>,
                       <<"add_locations", "waiting_locations", "add_loop">>} :
          pc[owner] = step[1] /\ pc' = [pc EXCEPT ![owner] = step[3]]
    BY <1>2 DEF AddLock, Goto
  <2>2. step[1] \notin Enqueueing /\ step[3] \notin Enqueueing
    BY DEF Enqueueing
  <2>3. UNCHANGED <<tasks, queues>>
    BY <1>2 DEF AddLock
  <2>4. \E c \in Client : \E q : pc' = [pc EXCEPT ![c] = q] /\ (q \in Enqueueing <=> pc[c] \in Enqueueing)
    BY <1>0, <2>1, <2>2
  <2> QED
    BY <1>0, <2>3, <2>4, PlainTasks DEF queues
<1>3. CASE EraseThread
  <2>1. UNCHANGED <<tasks, queues, pc>>
    BY <1>3, EraseThreadDies
  <2> QED
    BY <1>0, <2>1, PlainTasks DEF queues
<1>4. CASE StopQueue
  <2>1. /\ pc[owner] = "stop_queue" /\ pc' = [pc EXCEPT ![owner] = "erase_queue"] /\ UNCHANGED tasks
        /\ \/ UNCHANGED task_queues
           \/ \E q \in DOMAIN task_queues \ {best[owner]} :
                task_queues' = [task_queues EXCEPT ![q] = Append(@, Nothing)]
    BY <1>4 DEF StopQueue, Goto
  <2>2. /\ \A c \in Client : pc'[c] \in Enqueueing <=> pc[c] \in Enqueueing
        /\ \A w \in Worker : pc'[w] = "running" <=> pc[w] = "running"
    BY <1>0, <2>1, Kinds DEF Enqueueing
  <2>3. CASE UNCHANGED task_queues
    <3>1. \A q \in DOMAIN task_queues' : task_queues'[q] \in Seq(Task \cup {Nothing})
      BY <2>3 DEF TasksIInv, TasksOK
    <3>2. \A k \in Task, q \in Queue : \A i \in Nat : Lies(k, q, i)' <=> Lies(k, q, i)
      BY <2>3, SameQueues
    <3> QED
      BY <2>1, <2>2, <3>1, <3>2, TasksStay
  <2>4. ASSUME NEW q0 \in DOMAIN task_queues, task_queues' = [task_queues EXCEPT ![q0] = Append(@, Nothing)]
        PROVE  TasksIInv'
    <3>0. task_queues[q0] \in Seq(Task \cup {Nothing})
      BY DEF TasksIInv, TasksOK
    <3>a. PICK v : v = task_queues[q0]
      OBVIOUS
    <3>b. PICK x : x = Append(task_queues[q0], Nothing)
      OBVIOUS
    <3>c. PICK n \in Nat : n = Len(task_queues[q0])
      BY <3>0
    <3>1. v = task_queues[q0] /\ x = Append(task_queues[q0], Nothing) /\ n = Len(task_queues[q0])
      BY <3>a, <3>b, <3>c
    <3>2. v \in Seq(Task \cup {Nothing}) /\ Nothing \in Task \cup {Nothing} /\ x = Append(v, Nothing) /\ n = Len(v)
      BY <3>1 DEF TasksIInv, TasksOK
    <3>3. /\ x \in Seq(Task \cup {Nothing}) /\ DOMAIN v = 1 .. n /\ DOMAIN x = 1 .. n + 1
          /\ x[n + 1] = Nothing /\ \A i \in 1 .. n : x[i] = v[i]
      BY <3>2
    <3>4. /\ DOMAIN task_queues' = DOMAIN task_queues /\ task_queues'[q0] = x /\ task_queues[q0] = v
          /\ \A q \in DOMAIN task_queues \ {q0} : task_queues'[q] = task_queues[q]
      BY <2>4, <3>1
    <3>5. \A q \in DOMAIN task_queues' : task_queues'[q] \in Seq(Task \cup {Nothing})
      BY <3>3, <3>4 DEF TasksIInv, TasksOK
    <3>6. ASSUME NEW k \in Task, NEW q \in Queue, NEW i \in Nat
          PROVE  Lies(k, q, i)' <=> Lies(k, q, i)
      <4>1. CASE q = q0
        <5>1. Lies(k, q, i)' <=> i \in 1 .. n + 1 /\ x[i] = k
          BY <3>3, <3>4, <4>1 DEF Lies
        <5>2. Lies(k, q, i) <=> i \in 1 .. n /\ v[i] = k
          BY <3>3, <3>4, <4>1 DEF Lies
        <5>3. i \in 1 .. n + 1 <=> i \in 1 .. n \/ i = n + 1
          OBVIOUS
        <5>4. x[n + 1] # k
          BY <3>3, TaskKinds
        <5> QED
          BY <3>3, <5>1, <5>2, <5>3, <5>4
      <4>2. CASE q # q0
        BY <3>4, <4>2 DEF Lies
      <4> QED
        BY <4>1, <4>2
    <3> QED
      BY <2>1, <2>2, <3>5, <3>6, TasksStay
  <2> QED
    BY <2>1, <2>3, <2>4
<1>5. CASE EraseQueue
  <2>0. PICK w \in Queue : w = best[owner]
    BY <1>0
  <2>1. /\ pc[owner] = "erase_queue" /\ pc' = [pc EXCEPT ![owner] = "erase_thread"]
        /\ futures' = [k \in Task |-> IF Contains(task_queues[w], k) THEN "broken" ELSE futures[k]]
        /\ task_queues' = Restrict(task_queues, DOMAIN task_queues \ {w})
        /\ UNCHANGED <<has_task, created>>
    BY <1>5, <2>0 DEF EraseQueue, Goto
  <2>2. w \in DOMAIN task_queues
    BY <2>0, <2>1 DEF TablesIInv, EntriesAreThreads, RemovedIsThread, Removing
  <2>3. task_queues[w] \in Seq(Task \cup {Nothing})
    BY <2>2 DEF TasksIInv, TasksOK
  <2>4. \A k \in Task : Contains(task_queues[w], k) <=> \E i \in Nat : Lies(k, w, i)
    <3>1. DOMAIN task_queues[w] = 1 .. Len(task_queues[w]) /\ Len(task_queues[w]) \in Nat
      BY <2>3
    <3> QED
      BY <2>2, <3>1 DEF Contains, Lies
  <2>5. \A k \in Task, q \in Queue : \A i \in Nat : Lies(k, q, i)' <=> Lies(k, q, i) /\ q # w
    <3>1. /\ DOMAIN task_queues' = DOMAIN task_queues \ {w}
          /\ \A q \in DOMAIN task_queues \ {w} : task_queues'[q] = task_queues[q]
      BY <2>1 DEF Restrict
    <3> QED
      BY <3>1 DEF Lies
  <2>6. \A k \in Task : futures'[k] = IF \E i \in Nat : Lies(k, w, i) THEN "broken" ELSE futures[k]
    BY <2>1, <2>4
  <2>7. /\ \A c \in Client : pc'[c] \in Enqueueing <=> pc[c] \in Enqueueing
        /\ \A u \in Worker : pc'[u] = "running" <=> pc[u] = "running"
    BY <1>0, <2>1, Kinds DEF Enqueueing
  <2>8. TasksOK'
    <3>1. \A q \in DOMAIN task_queues' : task_queues'[q] \in Seq(Task \cup {Nothing})
      BY <2>1 DEF Restrict, TasksIInv, TasksOK
    <3>2. futures' \in [Task -> {"none", "pending", "ready", "broken"}]
      BY <1>0, <2>1
    <3> QED
      BY <2>1, <3>1, <3>2 DEF TasksIInv, TasksOK
  <2>9. HavingOK'
    <3>1. ASSUME NEW c \in Client
          PROVE  IF pc'[c] \in Enqueueing
                 THEN has_task[c] \in 1 .. created /\ futures'[has_task[c]] = "none"
                 ELSE has_task[c] = NoTask
      <4>1. IF pc[c] \in Enqueueing
            THEN has_task[c] \in 1 .. created /\ futures[has_task[c]] = "none"
            ELSE has_task[c] = NoTask
        BY DEF TasksIInv, HavingOK
      <4>2. 1 .. created \subseteq Task
        BY PoolAssumption DEF Task, TasksIInv, TasksOK
      <4>3. CASE pc[c] \in Enqueueing
        <5>1. has_task[c] \in Task /\ futures[has_task[c]] = "none"
          BY <4>1, <4>2, <4>3
        <5>2. \A i \in Nat : ~Lies(has_task[c], w, i)
          BY <5>1 DEF TasksIInv, HavingOK
        <5> QED
          BY <2>6, <2>7, <4>1, <4>3, <5>1, <5>2
      <4>4. CASE pc[c] \notin Enqueueing
        BY <2>7, <4>1, <4>4
      <4> QED
        BY <4>3, <4>4
    <3>2. ASSUME NEW u \in Worker
          PROVE  /\ pc'[u] = "running" <=> has_task[u] # NoTask
                 /\ has_task[u] \in Task => futures'[has_task[u]] = "pending"
      <4>1. /\ pc[u] = "running" <=> has_task[u] # NoTask
            /\ has_task[u] \in Task => futures[has_task[u]] = "pending"
        BY DEF TasksIInv, HavingOK
      <4>2. has_task[u] \in Task => \A i \in Nat : ~Lies(has_task[u], w, i)
        BY Kinds DEF TasksIInv, NowhereTwice
      <4> QED
        BY <2>6, <2>7, <4>1, <4>2
    <3>3. ASSUME NEW k \in Task, NEW q \in Queue, NEW i \in Nat, Lies(k, q, i)'
          PROVE  futures'[k] = "pending"
      <4>1. Lies(k, q, i) /\ q # w
        BY <2>5, <3>3
      <4>2. \A j \in Nat : ~Lies(k, w, j)
        BY <4>1 DEF TasksIInv, NowhereTwice
      <4> QED
        BY <2>6, <4>1, <4>2 DEF TasksIInv, HavingOK
    <3>4. ASSUME NEW k \in Task, k > created
          PROVE  futures'[k] = "none"
      <4>1. futures[k] = "none"
        BY <3>4 DEF TasksIInv, HavingOK
      <4>2. \A j \in Nat : ~Lies(k, w, j)
        BY <4>1 DEF TasksIInv, HavingOK
      <4> QED
        BY <2>6, <4>1, <4>2
    <3> QED
      BY <2>1, <3>1, <3>2, <3>3, <3>4 DEF HavingOK
  <2>10. NowhereTwice'
    BY <2>1, <2>5 DEF TasksIInv, NowhereTwice
  <2>11. PendingIsSomewhere'
    <3> SUFFICES ASSUME NEW k \in Task, futures'[k] = "pending"
                 PROVE  \/ \E u \in Worker : has_task[u] = k
                        \/ \E q \in Queue : \E i \in Nat : Lies(k, q, i)'
      BY <2>1 DEF PendingIsSomewhere
    <3>1. futures[k] = "pending" /\ \A i \in Nat : ~Lies(k, w, i)
      BY <2>6
    <3> QED
      BY <2>5, <3>1 DEF TasksIInv, PendingIsSomewhere
  <2> QED
    BY <2>8, <2>9, <2>10, <2>11 DEF TasksIInv
<1>6. CASE AddThread
  <2>1. PICK w \in Worker :
          /\ pc[owner] = "add_loop" /\ pc[w] = "none" /\ pc' = [pc EXCEPT ![w] = "created"]
          /\ task_queues' = Inserted(task_queues, w, <<>>)
          /\ UNCHANGED tasks
    BY <1>6 DEF AddThread
  <2>2. /\ DOMAIN task_queues' = DOMAIN task_queues \cup {w} /\ w \notin DOMAIN task_queues
        /\ task_queues'[w] = <<>>
        /\ \A q \in DOMAIN task_queues : task_queues'[q] = task_queues[q]
    BY <2>1 DEF Inserted, TablesIInv, EntriesAreThreads
  <2>3. \A q \in DOMAIN task_queues' : task_queues'[q] \in Seq(Task \cup {Nothing})
    <3>1. <<>> \in Seq(Task \cup {Nothing})
      OBVIOUS
    <3>2. \A q \in DOMAIN task_queues : task_queues'[q] \in Seq(Task \cup {Nothing})
      BY <2>2 DEF TasksIInv, TasksOK
    <3> QED
      BY <2>2, <3>1, <3>2
  <2>4. \A k \in Task, q \in Queue : \A i \in Nat : Lies(k, q, i)' <=> Lies(k, q, i)
    BY <2>2 DEF Lies
  <2>5. /\ \A c \in Client : pc'[c] \in Enqueueing <=> pc[c] \in Enqueueing
        /\ \A u \in Worker : pc'[u] = "running" <=> pc[u] = "running"
    BY <1>0, <2>1, Kinds
  <2> QED
    BY <2>1, <2>3, <2>4, <2>5, TasksStay
<1> QED
  BY <1>1, <1>2, <1>3, <1>4, <1>5, <1>6 DEF OfOwner

\* Every step keeps the tasks where they belong.
LEMMA TasksStep ==
  ASSUME TablesIInv, TasksIInv, [Next]_vars
  PROVE  TasksIInv'
<1>1. pc \in [Thread -> Place]
  BY DEF TablesIInv, PlacesOK
<1>2. ASSUME (\E w \in Worker : SpuriousWakeUp(w) \/ Dangling(w)) \/ (\E t \in Thread : RunsIntoUnreachable(t))
      PROVE  TasksIInv'
  BY <1>1, <1>2, PlainTasks DEF SpuriousWakeUp, Dangling, RunsIntoUnreachable, Dies, queues
<1>3. ASSUME UNCHANGED vars
      PROVE  TasksIInv'
  BY <1>1, <1>3, PlainTasks DEF vars, queues
<1> QED
  BY <1>2, <1>3, WorkerTasks, ClientTasks, OwnerTasks DEF Next

\* The three invariants of the pool hold together: each step needs those before it.
LEMMA PoolInvariants == Spec => [](LocksFollow /\ TablesIInv /\ TasksIInv)
<1>1. Init => LocksFollow /\ TablesIInv /\ TasksIInv
  BY LocksStart, TablesStart, TasksStart
<1>2. LocksFollow /\ TablesIInv /\ TasksIInv /\ [Next]_vars => (LocksFollow /\ TablesIInv /\ TasksIInv)'
  BY LocksStep, TablesStep, TasksStep
<1> QED
  BY <1>1, <1>2, PTL DEF Spec

\* The tables keep their types and have entries of known threads, and waiting_locations
\* tells where each worker waits, through all the steps in which a worker steals, sleeps
\* or is removed, for any number of workers and tasks and any ids.
THEOREM TablesStayTrue == Spec => []TablesAreTrue
<1>1. LocksFollow /\ TablesIInv /\ TasksIInv => TablesAreTrue
  <2> SUFFICES ASSUME LocksFollow, TablesIInv, TasksIInv PROVE TablesAreTrue
    OBVIOUS
  <2>1. Range(threads) \subseteq Worker
    BY Elements DEF TablesIInv
  <2>2. joined \subseteq Range(threads)
    BY DEF TablesIInv, EntriesAreThreads, RemovedIsThread, NoLonger, Ended, Removing
  <2>3. asleep \in [Queue -> SUBSET {w \in Worker : pc[w] = "asleep"}]
    BY DEF TablesIInv, TablesOK, SleepersWait
  <2>4. Range(waiting_locations) \subseteq Queue
    BY DEF TablesIInv, TablesOK, Range
  <2>5. DOMAIN waiting_locations \subseteq Range(threads)
    BY DEF TablesIInv, EntriesAreThreads
  <2>6. LocksOK(locks)
    BY DEF LocksFollow, Follows
  <2>7. TypeOK
    BY <2>2, <2>3, <2>4, <2>5, <2>6 DEF TypeOK, LocksOK, TablesIInv, TablesOK, TasksIInv, TasksOK
  <2>8. ASSUME NEW w \in Worker, pc[w] \in {"wait", "asleep"}
        PROVE  w \in DOMAIN waiting_locations /\ waiting_locations[w] = best[w]
    <3>1. w \in Range(threads) /\ w \notin NoLonger(Unplaced)
      BY <2>8 DEF TablesIInv, EntriesAreThreads, RemovedIsThread, NoLonger, Unplaced, Ended
    <3> QED
      BY <2>8, <3>1 DEF TablesIInv, EntriesAreThreads, SleepersWait
  <2>9. WaitsWhereItSays
    BY <2>8 DEF WaitsWhereItSays, At
  <2> QED
    BY <2>7, <2>9 DEF TablesAreTrue
<1> QED
  BY <1>1, PoolInvariants, PTL

\* A task with a pending future is in one queue once or with one worker, and nowhere once
\* its future is ready or broken: stealing, stopping and removing workers neither lose
\* nor repeat a task, for any number of workers, clients and tasks.
THEOREM TasksInOnePlace == Spec => []PendingInOnePlace
<1>1. TablesIInv /\ TasksIInv => PendingInOnePlace
  <2> SUFFICES ASSUME TablesIInv, TasksIInv, NEW k \in Task
               PROVE  LET queued == {q \in DOMAIN task_queues : Contains(task_queues[q], k)}
                          having == {t \in Thread : has_task[t] = k}
                      IN  /\ futures[k] = "pending" => Cardinality(queued) + Cardinality(having) = 1
                          /\ futures[k] \in {"ready", "broken"} => queued = {} /\ having = {}
                          /\ \A q \in queued : Cardinality({i \in DOMAIN task_queues[q] : task_queues[q][i] = k}) = 1
    BY DEF PendingInOnePlace
  <2> DEFINE queued == {q \in DOMAIN task_queues : Contains(task_queues[q], k)}
             having == {t \in Thread : has_task[t] = k}
  <2>1. \A q \in DOMAIN task_queues : q \in Queue
    BY DEF TablesIInv, TablesOK
  <2>2. \A q \in DOMAIN task_queues :
          DOMAIN task_queues[q] = 1 .. Len(task_queues[q]) /\ Len(task_queues[q]) \in Nat
    BY DEF TasksIInv, TasksOK
  <2>3. \A q : q \in queued <=> q \in Queue /\ \E i \in Nat : Lies(k, q, i)
    BY <2>1, <2>2 DEF Contains, Lies
  <2>4. /\ \A t, u \in Thread : has_task[t] = k /\ has_task[u] = k => t = u
        /\ \A q, r \in Queue : \A i, j \in Nat : Lies(k, q, i) /\ Lies(k, r, j) => q = r /\ i = j
        /\ \A t \in Thread, q \in Queue : \A i \in Nat : ~(has_task[t] = k /\ Lies(k, q, i))
    BY DEF TasksIInv, NowhereTwice
  <2> HIDE DEF queued
  <2>5. ASSUME futures[k] = "pending"
        PROVE  Cardinality(queued) + Cardinality(having) = 1
    <3>1. CASE \E w \in Worker : has_task[w] = k
      <4>1. PICK w \in Thread : has_task[w] = k
        BY <3>1, Kinds
      <4>2. having = {w} /\ queued = {}
        BY <2>3, <2>4, <4>1
      <4>3. Cardinality(having) = 1
        BY <4>2, FS_Singleton
      <4>4. Cardinality(queued) = 0
        BY <4>2, FS_EmptySet
      <4> QED
        BY <4>3, <4>4
    <3>2. CASE \E q \in Queue : \E i \in Nat : Lies(k, q, i)
      <4>1. PICK q \in Queue, i \in Nat : Lies(k, q, i)
        BY <3>2
      <4>2. having = {} /\ queued = {q}
        BY <2>3, <2>4, <4>1
      <4> QED
        BY <4>2, FS_Singleton, FS_EmptySet
    <3> QED
      BY <2>5, <3>1, <3>2 DEF TasksIInv, PendingIsSomewhere
  <2>6. ASSUME futures[k] \in {"ready", "broken"}
        PROVE  queued = {} /\ having = {}
    <3>1. \A q \in Queue : \A i \in Nat : ~Lies(k, q, i)
      BY <2>6 DEF TasksIInv, HavingOK
    <3>2. \A t \in Thread : has_task[t] # k
      BY <2>6, Kinds, TaskKinds DEF TasksIInv, HavingOK
    <3> QED
      BY <2>3, <3>1, <3>2
  <2>7. ASSUME NEW q \in queued
        PROVE  Cardinality({i \in DOMAIN task_queues[q] : task_queues[q][i] = k}) = 1
    <3>1. PICK i \in Nat : Lies(k, q, i)
      BY <2>3
    <3>2. q \in Queue /\ q \in DOMAIN task_queues
      BY <2>3, <3>1 DEF Lies
    <3>3. {j \in DOMAIN task_queues[q] : task_queues[q][j] = k} = {i}
      <4>1. i \in DOMAIN task_queues[q] /\ task_queues[q][i] = k
        BY <3>1 DEF Lies
      <4>2. ASSUME NEW j \in DOMAIN task_queues[q], task_queues[q][j] = k
            PROVE  j = i
        <5>1. j \in Nat /\ Lies(k, q, j)
          BY <2>2, <3>2, <4>2 DEF Lies
        <5> QED
          BY <2>4, <3>1, <3>2, <5>1
      <4> QED
        BY <4>1, <4>2
    <3> QED
      BY <3>3, FS_Singleton
  <2> QED
    BY <2>5, <2>6, <2>7 DEF queued
<1> QED
  BY <1>1, PoolInvariants, PTL

-----------------------------------------------------------------------------
(* The pool as one of tasks that are begun once                            *)

\* Nothing a client sees of its tasks changes.
SameTasks == futures' = futures /\ \A w \in Worker : has_task'[w] = has_task[w]

\* Most steps leave the tasks alone, a call of enqueue while it is on its way included.
LEMMA TasksRest ==
  ASSUME SameTasks
  PROVE  UNCHANGED Promised!vars
<1>1. Runs' = Runs
  BY DEF SameTasks, Runs
<1>2. {k \in Task : futures'[k] = "pending" /\ \A w \in Worker : has_task'[w] # k}
        = {k \in Task : futures[k] = "pending" /\ \A w \in Worker : has_task[w] # k}
  BY DEF SameTasks
<1> QED
  BY <1>1, <1>2 DEF SameTasks, Promised!vars

\* A worker takes the task at the front of the queue it waits in.  It lay there, so nobody
\* had it; the task that does nothing is not one of the clients'.
LEMMA TakeBegins ==
  ASSUME TablesIInv, TasksIInv, NEW w \in Worker, Take(w)
  PROVE  (\E k \in Task : Promised!Begin(w, k)) \/ UNCHANGED Promised!vars
<1>0. /\ w \in Thread /\ has_task \in [Thread -> Task \cup {Nothing, NoTask}]
      /\ \A u \in Worker : u \in Thread
  BY Kinds DEF TasksIInv, TasksOK
<1>1. PICK k : k = Head(task_queues[best[w]])
  OBVIOUS
<1>2. /\ pc[w] = "wait" /\ best[w] \in DOMAIN task_queues /\ task_queues[best[w]] # <<>>
      /\ has_task' = [has_task EXCEPT ![w] = k] /\ futures' = futures
  BY <1>1 DEF Take, Goto, At, Exists
<1>3. has_task[w] = NoTask
  BY <1>2 DEF TasksIInv, HavingOK
<1>4. /\ has_task'[w] = k /\ \A u \in Worker \ {w} : has_task'[u] = has_task[u]
  BY <1>0, <1>2
<1>5. k \in Task \cup {Nothing} /\ 1 \in DOMAIN task_queues[best[w]] /\ task_queues[best[w]][1] = k
  <2>1. task_queues[best[w]] \in Seq(Task \cup {Nothing})
    BY <1>2 DEF TasksIInv, TasksOK
  <2> QED
    BY <1>1, <1>2, <2>1
<1>6. CASE k = Nothing
  <2>1. Runs' = Runs
    BY <1>3, <1>4, <1>6, TaskKinds DEF Runs
  <2>2. \A j \in Task : (\A u \in Worker : has_task'[u] # j) <=> (\A u \in Worker : has_task[u] # j)
    BY <1>3, <1>4, <1>6, TaskKinds
  <2> QED
    BY <1>2, <2>1, <2>2 DEF Promised!vars
<1>7. CASE k \in Task
  <2>1. best[w] \in Queue /\ Lies(k, best[w], 1)
    BY <1>2, <1>5 DEF Lies, TablesIInv, TablesOK
  <2>2. futures[k] = "pending" /\ \A u \in Worker : has_task[u] # k
    <3>1. 1 \in Nat
      OBVIOUS
    <3>2. futures[k] = "pending"
      BY <1>7, <2>1, <3>1 DEF TasksIInv, HavingOK
    <3>3. \A u \in Thread : has_task[u] # k
      BY <1>7, <2>1, <3>1 DEF TasksIInv, NowhereTwice
    <3> QED
      BY <1>0, <3>2, <3>3
  <2>3. Runs[w] = NoTask /\ Runs' = [Runs EXCEPT ![w] = k]
    BY <1>3, <1>4, <1>7, TaskKinds DEF Runs
  <2>4. {j \in Task : futures'[j] = "pending" /\ \A u \in Worker : has_task'[u] # j}
          = {j \in Task : futures[j] = "pending" /\ \A u \in Worker : has_task[u] # j} \ {k}
    <3>1. \A j \in Task \ {k} : (\A u \in Worker : has_task'[u] # j) <=> (\A u \in Worker : has_task[u] # j)
      BY <1>3, <1>4, TaskKinds
    <3>2. has_task'[w] = k
      BY <1>4
    <3> QED
      BY <1>2, <3>1, <3>2
  <2>5. Promised!Begin(w, k)
    BY <1>2, <1>7, <2>2, <2>3, <2>4 DEF Promised!Begin
  <2> QED
    BY <1>7, <2>5
<1> QED
  BY <1>5, <1>6, <1>7

\* A worker that ran a task of the clients ends it; its future was pending until then.
LEMMA FinishEnds ==
  ASSUME TasksIInv, NEW w \in Worker, Finish(w)
  PROVE  Promised!Finish(w) \/ UNCHANGED Promised!vars
<1>0. /\ w \in Thread /\ has_task \in [Thread -> Task \cup {Nothing, NoTask}]
      /\ futures \in [Task -> {"none", "pending", "ready", "broken"}]
      /\ \A u \in Worker : u \in Thread
  BY Kinds DEF TasksIInv, TasksOK
<1>1. PICK k \in Task \cup {Nothing, NoTask} : k = has_task[w]
  BY <1>0
<1>2. /\ pc[w] = "running" /\ has_task' = [has_task EXCEPT ![w] = NoTask]
      /\ futures' = IF k = Nothing THEN futures ELSE [futures EXCEPT ![k] = "ready"]
  BY <1>1 DEF Finish, Iterate, Goto
<1>3. k # NoTask /\ (k \in Task => futures[k] = "pending")
  BY <1>1, <1>2 DEF TasksIInv, HavingOK
<1>4. /\ has_task'[w] = NoTask /\ \A u \in Worker \ {w} : has_task'[u] = has_task[u]
  BY <1>0, <1>2
<1>5. CASE k = Nothing
  <2>1. Runs' = Runs
    BY <1>1, <1>4, <1>5, TaskKinds DEF Runs
  <2>2. \A j \in Task : (\A u \in Worker : has_task'[u] # j) <=> (\A u \in Worker : has_task[u] # j)
    BY <1>1, <1>4, <1>5, TaskKinds
  <2> QED
    BY <1>2, <1>5, <2>1, <2>2 DEF Promised!vars
<1>6. CASE k \in Task
  <2>1. futures'[k] = "ready" /\ \A j \in Task \ {k} : futures'[j] = futures[j]
    BY <1>0, <1>2, <1>6, TaskKinds
  <2>2. Runs[w] = k /\ k # NoTask /\ Runs' = [Runs EXCEPT ![w] = NoTask]
    <3>1. Runs[w] = k /\ k # NoTask
      BY <1>1, <1>6, TaskKinds DEF Runs
    <3>2. NoTask \notin Task
      BY TaskKinds
    <3>3. Runs' = [Runs EXCEPT ![w] = NoTask]
      BY <1>4, <3>2 DEF Runs
    <3> QED
      BY <3>1, <3>3
  <2>3. {j \in Task : futures'[j] = "pending" /\ \A u \in Worker : has_task'[u] # j}
          = {j \in Task : futures[j] = "pending" /\ \A u \in Worker : has_task[u] # j}
    <3>1. \A j \in Task \ {k} : (\A u \in Worker : has_task'[u] # j) <=> (\A u \in Worker : has_task[u] # j)
      BY <1>1, <1>4, TaskKinds
    <3> QED
      BY <1>1, <2>1, <3>1
  <2>4. {j \in Task : futures'[j] = "ready"} = {j \in Task : futures[j] = "ready"} \cup {k}
    BY <1>6, <2>1
  <2>5. {j \in Task : futures'[j] = "broken"} = {j \in Task : futures[j] = "broken"}
    BY <1>3, <1>6, <2>1
  <2>6. Promised!Finish(w)
    BY <2>2, <2>3, <2>4, <2>5 DEF Promised!Finish
  <2> QED
    BY <2>6
<1> QED
  BY <1>3, <1>5, <1>6

\* A task becomes one of the pool when it is pushed: nobody has heard of it before.
LEMMA PushHandsIn ==
  ASSUME TasksIInv, NEW c \in Client, Push(c)
  PROVE  \E k \in Task : Promised!HandIn(k)
<1>0. /\ c \in Thread /\ has_task \in [Thread -> Task \cup {Nothing, NoTask}]
      /\ futures \in [Task -> {"none", "pending", "ready", "broken"}]
      /\ created \in 0 .. MaxTasks /\ MaxTasks \in Nat
      /\ \A u \in Worker : u \in Thread /\ u # c
  BY Kinds, PoolAssumption DEF TasksIInv, TasksOK
<1>1. PICK k : k = has_task[c]
  OBVIOUS
<1>2. /\ pc[c] = "search_least_busy" /\ futures' = [futures EXCEPT ![k] = "pending"]
      /\ has_task' = [has_task EXCEPT ![c] = NoTask]
  BY <1>1 DEF Push, Goto
<1>3. k \in Task /\ futures[k] = "none"
  <2>1. pc[c] \in Enqueueing
    BY <1>2 DEF Enqueueing
  <2>2. k \in 1 .. created /\ futures[k] = "none"
    BY <1>1, <2>1 DEF TasksIInv, HavingOK
  <2> QED
    BY <1>0, <2>2 DEF Task
<1>4. \A u \in Worker : has_task'[u] = has_task[u] /\ has_task[u] # k
  <2>1. \A u \in Worker : has_task'[u] = has_task[u]
    BY <1>0, <1>2
  <2>2. \A u \in Worker : has_task[u] # k
    BY <1>3 DEF TasksIInv, HavingOK
  <2> QED
    BY <2>1, <2>2
<1>5. futures'[k] = "pending" /\ \A j \in Task \ {k} : futures'[j] = futures[j]
  BY <1>0, <1>2, <1>3
<1>6. Runs' = Runs /\ \A u \in Worker : Runs[u] # k
  BY <1>3, <1>4, TaskKinds DEF Runs
<1>7. {j \in Task : futures'[j] = "pending" /\ \A u \in Worker : has_task'[u] # j}
        = {j \in Task : futures[j] = "pending" /\ \A u \in Worker : has_task[u] # j} \cup {k}
  BY <1>3, <1>4, <1>5
<1>8. /\ {j \in Task : futures'[j] = "ready"} = {j \in Task : futures[j] = "ready"}
      /\ {j \in Task : futures'[j] = "broken"} = {j \in Task : futures[j] = "broken"}
  BY <1>3, <1>5
<1>9. Promised!New(k)
  BY <1>3, <1>6 DEF Promised!New
<1> QED
  BY <1>3, <1>6, <1>7, <1>8, <1>9 DEF Promised!HandIn

\* What lies in a queue that is erased is given up, and no worker has it.
LEMMA EraseGivesUp ==
  ASSUME TablesIInv, TasksIInv, EraseQueue
  PROVE  Promised!Next
<1>0. /\ \A u \in Worker : u \in Thread
      /\ best[owner] \in Queue
      /\ futures \in [Task -> {"none", "pending", "ready", "broken"}]
  BY Kinds DEF TasksIInv, TasksOK, TablesIInv, TablesOK
<1>1. PICK q \in Queue : q = best[owner]
  BY <1>0
<1>2. /\ pc[owner] = "erase_queue" /\ has_task' = has_task
      /\ futures' = [k \in Task |-> IF Contains(task_queues[q], k) THEN "broken" ELSE futures[k]]
  BY <1>1 DEF EraseQueue, Goto
<1>3. q \in DOMAIN task_queues
  BY <1>1, <1>2 DEF TablesIInv, EntriesAreThreads, RemovedIsThread, Removing
<1>a. PICK S : S = {k \in Task : Contains(task_queues[q], k)}
  OBVIOUS
<1>4. \A k \in S : futures[k] = "pending" /\ \A u \in Worker : has_task[u] # k
  <2> SUFFICES ASSUME NEW k \in S
               PROVE  futures[k] = "pending" /\ \A u \in Worker : has_task[u] # k
    OBVIOUS
  <2>a. k \in Task /\ Contains(task_queues[q], k)
    BY <1>a
  <2>1. task_queues[q] \in Seq(Task \cup {Nothing})
    BY <1>3 DEF TasksIInv, TasksOK
  <2>2. DOMAIN task_queues[q] = 1 .. Len(task_queues[q]) /\ Len(task_queues[q]) \in Nat
    BY <2>1
  <2>3. PICK i \in Nat : Lies(k, q, i)
    BY <1>3, <2>a, <2>2 DEF Contains, Lies
  <2>4. futures[k] = "pending"
    BY <2>a, <2>3 DEF TasksIInv, HavingOK
  <2>5. \A u \in Thread : has_task[u] # k
    BY <2>a, <2>3 DEF TasksIInv, NowhereTwice
  <2> QED
    BY <1>0, <2>4, <2>5
<1>5. \A k \in Task : futures'[k] = IF k \in S THEN "broken" ELSE futures[k]
  BY <1>2, <1>a
<1>6. Runs' = Runs
  BY <1>2 DEF Runs
<1>7. S \subseteq Task
  BY <1>a
<1>8. {k \in Task : futures'[k] = "pending" /\ \A u \in Worker : has_task'[u] # k}
        = {k \in Task : futures[k] = "pending" /\ \A u \in Worker : has_task[u] # k} \ S
  BY <1>2, <1>5
<1>9. {k \in Task : futures'[k] = "broken"} = {k \in Task : futures[k] = "broken"} \cup S
  BY <1>5, <1>7
<1>10. {k \in Task : futures'[k] = "ready"} = {k \in Task : futures[k] = "ready"}
  BY <1>4, <1>5
<1>11. Promised!GiveUp(S)
  BY <1>6, <1>8, <1>9, <1>10 DEF Promised!GiveUp
<1>12. \E T \in SUBSET {k \in Task : futures[k] = "pending" /\ \A u \in Worker : has_task[u] # k} :
         Promised!GiveUp(T)
  <2>1. S \in SUBSET {k \in Task : futures[k] = "pending" /\ \A u \in Worker : has_task[u] # k}
    BY <1>4, <1>7
  <2> QED
    BY <1>11, <2>1, Zenon
<1> QED
  BY <1>12 DEF Promised!Next

\* Every step of the pool is one of the abstract pool, or none.
LEMMA PoolStepMaps ==
  ASSUME TablesIInv, TasksIInv, [Next]_vars
  PROVE  [Promised!Next]_(Promised!vars)
<1>1. ASSUME NEW w \in Worker, OfWorker(w) \/ SpuriousWakeUp(w) \/ Dangling(w)
      PROVE  [Promised!Next]_(Promised!vars)
  <2>1. CASE Take(w)
    BY <2>1, TakeBegins DEF Promised!Next
  <2>2. CASE Finish(w)
    BY <2>2, FinishEnds DEF Promised!Next
  <2>3. CASE ~Take(w) /\ ~Finish(w)
    <3>1. UNCHANGED tasks
      BY <1>1, <2>3 DEF OfWorker, SpuriousWakeUp, Dangling, Start, Go, GetNextTask, MostBusy, Compare,
        Steal, WriteLocation, Sleep, WakeUp, StopRequired, Dies
    <3> QED
      BY <3>1, TasksRest DEF tasks, SameTasks
  <2> QED
    BY <2>1, <2>2, <2>3
<1>2. ASSUME NEW c \in Client, Enqueue(c) \/ OfClient(c) \/ Size(c)
      PROVE  [Promised!Next]_(Promised!vars)
  <2>1. CASE Push(c)
    BY <2>1, PushHandsIn DEF Promised!Next
  <2>2. CASE Enqueue(c) \/ EnqueueThrows(c)
    <3>1. futures' = futures /\ \E k : has_task' = [has_task EXCEPT ![c] = k]
      BY <2>2 DEF Enqueue, EnqueueThrows
    <3>2. has_task \in [Thread -> Task \cup {Nothing, NoTask}] /\ \A w \in Worker : w \in Thread /\ w # c
      BY Kinds DEF TasksIInv, TasksOK
    <3> QED
      BY <3>1, <3>2, TasksRest DEF SameTasks
  <2>3. CASE LockLocations(c) \/ LockQueues(c) \/ LockThreads(c) \/ Compare(c) \/ Size(c)
    <3>1. UNCHANGED tasks
      BY <2>3 DEF LockLocations, LockQueues, LockThreads, Compare, Size
    <3> QED
      BY <3>1, TasksRest DEF tasks, SameTasks
  <2> QED
    BY <1>2, <2>1, <2>2, <2>3 DEF OfClient
<1>3. ASSUME OfOwner \/ RemoveThreads \/ Destroy \/ AddThreads
      PROVE  [Promised!Next]_(Promised!vars)
  <2>1. CASE EraseQueue
    BY <2>1, EraseGivesUp
  <2>2. CASE ~EraseQueue
    <3>1. UNCHANGED tasks
      BY <1>3, <2>2 DEF OfOwner, LeastBusyQueues, LeastBusyThreads, LeastBusyFound, CheckIdle, FindThread,
        Join, StopLocation, StopQueue, EraseThread, DestroyNext, AddLock, AddThread, AddThreadFails,
        RemoveThreads, Destroy, AddThreads, Dies
    <3> QED
      BY <3>1, TasksRest DEF tasks, SameTasks
  <2> QED
    BY <2>1, <2>2
<1>4. ASSUME (\E t \in Thread : RunsIntoUnreachable(t)) \/ UNCHANGED vars
      PROVE  [Promised!Next]_(Promised!vars)
  <2>1. UNCHANGED tasks
    BY <1>4 DEF RunsIntoUnreachable, Dies, vars
  <2> QED
    BY <2>1, TasksRest DEF tasks, SameTasks
<1> QED
  BY <1>1, <1>2, <1>3, <1>4 DEF Next

\* At the start nobody runs anything and no task was handed in.
LEMMA PoolInitMaps == Init => Promised!Init
<1> SUFFICES ASSUME Init PROVE Promised!Init
  OBVIOUS
<1>1. \A w \in Worker : has_task[w] = NoTask
  BY Kinds DEF Init
<1>2. \A k \in Task : futures[k] = "none"
  BY DEF Init
<1>3. Runs = [w \in Worker |-> NoTask]
  BY <1>1, TaskKinds DEF Runs
<1> QED
  BY <1>2, <1>3 DEF Promised!Init

\* The pool with its queues, searches, stops and locks implements the pool of tasks that
\* are begun once and ended by the worker that began them, or given up before anybody
\* began them, for any workers, clients and tasks and any ids.
THEOREM PoolImplementsTasks == Spec => ImplementsTaskPool
<1>1. TablesIInv /\ TasksIInv /\ [Next]_vars => [Promised!Next]_(Promised!vars)
  BY PoolStepMaps
<1> QED
  BY <1>1, PoolInitMaps, PoolInvariants, PTL DEF Spec, ImplementsTaskPool, Promised!Spec
=============================================================================
