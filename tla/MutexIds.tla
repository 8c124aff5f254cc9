------------------------------ MODULE MutexIds ------------------------------
(***************************************************************************)
(* The ids that tie a RecursiveSharedMutex to its thread-local counts.     *)
(* gen_new_id gives an id to a mutex that is constructed, release_id takes *)
(* it back when the mutex is destroyed, and lock()/unlock() find the       *)
(* calling thread's count under the id.  Ids count from the lowest value   *)
(* of MutexId (an __int128): 0 here is lowest().                           *)
(*                                                                         *)
(* Locking is exclusive and atomic here; RecursiveSharedMutex has its      *)
(* steps and the shared mode.  Callers unlock what they locked, and        *)
(* destroy a mutex nobody uses.                                            *)
(***************************************************************************)
EXTENDS Integers, FiniteSetsExt

CONSTANTS Thread,    \* threads
          NoThread,  \* the holder of a mutex nobody holds
          Mutex,     \* RecursiveSharedMutex objects, constructed or not
          MaxId,     \* bound on the ids
          MaxDepth   \* bound on the acquisitions of a mutex by a thread

NoId == -1
NoEntry == -1

VARIABLES
  ids,          \* the ids given out
  mtx_id,       \* mtx_id[m]: the id of m, NoId when m is not constructed
  lock_counts,  \* lock_counts[t][i]: count of t under id i, NoEntry if absent
  holder,       \* holder[m]: the thread that has the std::shared_mutex of m
  open,         \* open[t][m]: acquisitions of m by t not released yet
  failure       \* what went wrong, and stopped the program

idsVars == <<ids, mtx_id, lock_counts, holder, open, failure>>

Id == 0 .. MaxId
Failures == {"none", "hard_assert", "not_locked_error", "foreign_unlock"}

Alive(m) == mtx_id[m] # NoId

IdsInit ==
  /\ ids = {}
  /\ mtx_id = [m \in Mutex |-> NoId]
  /\ lock_counts = [t \in Thread |-> [i \in Id |-> NoEntry]]
  /\ holder = [m \in Mutex |-> NoThread]
  /\ open = [t \in Thread |-> [m \in Mutex |-> 0]]
  /\ failure = "none"

-----------------------------------------------------------------------------
(* gen_new_id walks the ids upwards, comparing each with the one before    *)
(* it; before the first, prev_id is the first itself.                      *)

Previous(S, i) == IF i = Min(S) THEN i ELSE Max({j \in S : j < i})

Gaps(S) == {i \in S : i # Previous(S, i) + 1}

\* Faulty variant: the next id is the number of ids given out.
NewIdBySize(S) == Cardinality(S)

NewId(S) ==
  IF S = {} THEN 0
  ELSE IF Gaps(S) = {} THEN Max(S) + 1
  ELSE Previous(S, Min(Gaps(S))) + 1

\* operator[] of the thread-local map: an absent entry is made, with 0.
Count(t, i) == IF lock_counts[t][i] = NoEntry THEN 0 ELSE lock_counts[t][i]

SetCount(t, i, n) == lock_counts' = [lock_counts EXCEPT ![t][i] = n]

-----------------------------------------------------------------------------
\* The constructor, in thread t: a new id, and a zero count for t under it.
ConstructMutex(t, m) ==
  /\ failure = "none"
  /\ ~Alive(m)
  /\ NewId(ids) \in Id
  /\ ids' = ids \cup {NewId(ids)}
  /\ mtx_id' = [mtx_id EXCEPT ![m] = NewId(ids)]
  /\ SetCount(t, NewId(ids), 0)
  /\ UNCHANGED <<holder, open, failure>>

\* The destructor, in thread t: the id is free again and the entry of t is
\* erased.  A count that is not zero throws, which release_id reports; an
\* entry that is not there fails hard_assert(ret >= 1).
DestroyMutex(t, m) ==
  LET i == mtx_id[m] IN
  /\ failure = "none"
  /\ Alive(m)
  /\ holder[m] = NoThread /\ \A u \in Thread : open[u][m] = 0
  /\ ids' = ids \ {i}
  /\ mtx_id' = [mtx_id EXCEPT ![m] = NoId]
  /\ lock_counts' = IF Count(t, i) = 0 THEN [lock_counts EXCEPT ![t][i] = NoEntry]
                                       ELSE lock_counts
  /\ failure' = IF lock_counts[t][i] = NoEntry THEN "hard_assert" ELSE "none"
  /\ UNCHANGED <<holder, open>>

\* lock(): only a thread whose count under the id is zero takes the rwlock.
Lock(t, m) ==
  LET i == mtx_id[m] IN
  /\ failure = "none"
  /\ Alive(m) /\ open[t][m] < MaxDepth
  /\ IF Count(t, i) = 0
     THEN holder[m] = NoThread /\ holder' = [holder EXCEPT ![m] = t]
     ELSE UNCHANGED holder
  /\ SetCount(t, i, Count(t, i) + 1)
  /\ open' = [open EXCEPT ![t][m] = @ + 1]
  /\ UNCHANGED <<ids, mtx_id, failure>>

\* unlock(): throws at count zero; the count that reaches zero releases the
\* rwlock of m, which t may turn out not to have.
Unlock(t, m) ==
  LET i == mtx_id[m] IN
  /\ failure = "none"
  /\ open[t][m] > 0
  /\ open' = [open EXCEPT ![t][m] = @ - 1]
  /\ SetCount(t, i, IF Count(t, i) = 0 THEN 0 ELSE Count(t, i) - 1)
  /\ holder' = IF Count(t, i) = 1 /\ holder[m] = t
               THEN [holder EXCEPT ![m] = NoThread] ELSE holder
  /\ failure' = IF Count(t, i) = 0 THEN "not_locked_error"
                ELSE IF Count(t, i) = 1 /\ holder[m] # t THEN "foreign_unlock"
                ELSE "none"
  /\ UNCHANGED <<ids, mtx_id>>

IdsNext ==
  \E t \in Thread, m \in Mutex :
    ConstructMutex(t, m) \/ DestroyMutex(t, m) \/ Lock(t, m) \/ Unlock(t, m)

IdsSpec == IdsInit /\ [][IdsNext]_idsVars

-----------------------------------------------------------------------------
(* Properties *)

\* Every variable keeps its type.
IdsTypeOK ==
  /\ ids \subseteq Id
  /\ mtx_id \in [Mutex -> Id \cup {NoId}]
  /\ lock_counts \in [Thread -> [Id -> Int]]
  /\ open \in [Thread -> [Mutex -> 0 .. MaxDepth]]
  /\ holder \in [Mutex -> Thread \cup {NoThread}]
  /\ failure \in Failures

\* Mutexes that live together have ids of their own.
DistinctIds ==
  \A m, n \in Mutex : Alive(m) /\ mtx_id[m] = mtx_id[n] => m = n

\* One mutex, one owner: two threads never have the same mutex locked, also
\* after ids have been released and given out again.
MutualExclusion ==
  \A m \in Mutex, t, u \in Thread : open[t][m] > 0 /\ open[u][m] > 0 => t = u

\* A thread that unlocks what it locked never meets "Attempted to unlock a
\* mutex that is not locked", nor the lock of somebody else.
BalancedUnlockWorks == failure \notin {"not_locked_error", "foreign_unlock"}

\* Ids that are released and given out again keep the locks of two mutexes
\* apart: each has an id and an owner of its own, and the count under the id
\* is never that of another mutex, alive or gone.
IdsKeepLocksApart == IdsTypeOK /\ DistinctIds /\ MutualExclusion /\ BalancedUnlockWorks

\* util.cpp:77: hard_assert(ret >= 1), the destroying thread has an entry
\* for the id that it releases.
ReleaseFindsEntry == failure # "hard_assert"
=============================================================================
