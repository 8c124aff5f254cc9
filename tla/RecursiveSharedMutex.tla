------------------------ MODULE RecursiveSharedMutex ------------------------
(***************************************************************************)
(* SupDef::Util::RecursiveSharedMutex: a std::shared_mutex made recursive  *)
(* by a thread-local count of acquisitions, with an atomic current_mode    *)
(* that a nested exclusive lock consults to refuse an upgrade.             *)
(*                                                                         *)
(* The count belongs to one thread, so reading and changing it merges with *)
(* the next shared access.  The shared accesses are separate steps:        *)
(* acquiring the std::shared_mutex, storing current_mode after it,         *)
(* releasing the std::shared_mutex, storing None after that.               *)
(*                                                                         *)
(* One mutex is modelled, whose id no other mutex shares; MutexIds models  *)
(* how ids are given out.  Callers balance their calls: unlock() answers   *)
(* an exclusive acquisition that is still open and unlock_shared() a       *)
(* shared one, in any order.  unlock() at count zero is also tried.        *)
(***************************************************************************)
EXTENDS Integers

CONSTANTS Thread,    \* the threads that use the mutex
          NoThread,  \* the writer of a mutex nobody holds exclusively
          MaxDepth   \* bound on lock_counts (a uint_fast64_t in the code)

ASSUME MutexAssumption == /\ NoThread \notin Thread
                          /\ MaxDepth \in Nat \ {0}

VARIABLES
  writer,        \* std::shared_mutex: the thread holding it exclusively
  readers,       \* std::shared_mutex: the threads holding it shared
  current_mode,  \* the atomic LockingMode
  lock_counts,   \* lock_counts[t]: the thread-local count of t for this id
  pc,            \* what t does next inside the call it is in
  exclusive,     \* exclusive[t]: successful lock()/try_lock() calls still open
  shared,        \* shared[t]: successful lock_shared()/try_lock_shared() open
  result         \* result[t]: how the last call of t came out

rwlock  == <<writer, readers>>
granted == <<exclusive, shared>>
vars == <<writer, readers, current_mode, lock_counts, pc, exclusive, shared, result>>

LockingMode == {"None", "Exclusive", "Shared"}
Results == {"ok", "false", "upgrade_error", "not_locked_error"}
Steps == {"idle", "want_exclusive", "store_exclusive",
          "want_shared", "store_shared", "store_none"}

Init ==
  /\ writer = NoThread
  /\ readers = {}
  /\ current_mode = "None"
  /\ lock_counts = [t \in Thread |-> 0]
  /\ pc = [t \in Thread |-> "idle"]
  /\ exclusive = [t \in Thread |-> 0]
  /\ shared = [t \in Thread |-> 0]
  /\ result = [t \in Thread |-> "ok"]

-----------------------------------------------------------------------------
(* Helpers *)

Goto(t, from, to) == pc[t] = from /\ pc' = [pc EXCEPT ![t] = to]

Returns(t, r) == result' = [result EXCEPT ![t] = r]

FreeForWriter == writer = NoThread /\ readers = {}
FreeForReader == writer = NoThread

\* The lock is taken already: only the count moves.
Reenter(t) ==
  /\ lock_counts[t] \in 1 .. MaxDepth - 1
  /\ lock_counts' = [lock_counts EXCEPT ![t] = @ + 1]

GrantExclusive(t) == exclusive' = [exclusive EXCEPT ![t] = @ + 1] /\ UNCHANGED shared
GrantShared(t)    == shared' = [shared EXCEPT ![t] = @ + 1] /\ UNCHANGED exclusive

\* pthread_rwlock_unlock, behind both unlock() and unlock_shared() of
\* std::shared_mutex, gives up whatever the calling thread holds.
ReleaseRwlock(t) ==
  /\ writer' = IF writer = t THEN NoThread ELSE writer
  /\ readers' = readers \ {t}

-----------------------------------------------------------------------------
(* Faulty variants of steps below, one plausible slip each: a run must      *)
(* notice when a step is replaced by its variant.                           *)

\* A nested lock_shared() stores Shared although the count was not zero.
LockSharedAgainStores(t) ==
  /\ pc[t] = "idle"
  /\ Reenter(t)
  /\ GrantShared(t)
  /\ Returns(t, "ok")
  /\ current_mode' = "Shared"
  /\ UNCHANGED <<rwlock, pc>>

\* Every unlock() releases the rwlock, nested or not.
UnlockEager(t) ==
  /\ pc[t] = "idle"
  /\ lock_counts[t] > 0 /\ exclusive[t] > 0
  /\ lock_counts' = [lock_counts EXCEPT ![t] = @ - 1]
  /\ exclusive' = [exclusive EXCEPT ![t] = @ - 1]
  /\ Returns(t, "ok")
  /\ ReleaseRwlock(t)
  /\ pc' = [pc EXCEPT ![t] = "store_none"]
  /\ UNCHANGED <<current_mode, shared>>

\* The last unlock() forgets to release the rwlock.
UnlockKeeps(t) ==
  /\ pc[t] = "idle"
  /\ lock_counts[t] > 0 /\ exclusive[t] > 0
  /\ lock_counts' = [lock_counts EXCEPT ![t] = @ - 1]
  /\ exclusive' = [exclusive EXCEPT ![t] = @ - 1]
  /\ Returns(t, "ok")
  /\ pc' = IF lock_counts[t] = 1 THEN [pc EXCEPT ![t] = "store_none"] ELSE pc
  /\ UNCHANGED <<rwlock, current_mode, shared>>

\* The last unlock_shared() tests the count before it lowers it, so it
\* releases one call too early.
UnlockSharedEarly(t) ==
  /\ pc[t] = "idle"
  /\ lock_counts[t] > 0 /\ shared[t] > 0
  /\ lock_counts' = [lock_counts EXCEPT ![t] = @ - 1]
  /\ shared' = [shared EXCEPT ![t] = @ - 1]
  /\ Returns(t, "ok")
  /\ IF lock_counts[t] <= 2 THEN ReleaseRwlock(t) ELSE UNCHANGED rwlock
  /\ UNCHANGED <<current_mode, pc, exclusive>>

-----------------------------------------------------------------------------
(* lock() and try_lock() *)

\* lock() by a thread that holds nothing: it goes to wait for the rwlock.
Lock(t) ==
  /\ Goto(t, "idle", "want_exclusive")
  /\ lock_counts[t] = 0
  /\ Returns(t, "ok")
  /\ UNCHANGED <<rwlock, current_mode, lock_counts, granted>>

\* mutex.lock() inside lock() returns.
AcquireExclusive(t) ==
  /\ Goto(t, "want_exclusive", "store_exclusive")
  /\ FreeForWriter
  /\ writer' = t
  /\ UNCHANGED <<readers, current_mode, lock_counts, granted, result>>

\* The mode is stored and the count raised; lock() or try_lock() returns.
StoreExclusive(t) ==
  /\ Goto(t, "store_exclusive", "idle")
  /\ current_mode' = "Exclusive"
  /\ lock_counts' = [lock_counts EXCEPT ![t] = @ + 1]
  /\ GrantExclusive(t)
  /\ UNCHANGED <<rwlock, result>>

\* lock() or try_lock() by a holder, when the mode it reads is not Shared.
LockAgain(t) ==
  /\ pc[t] = "idle"
  /\ current_mode # "Shared"
  /\ Reenter(t)
  /\ GrantExclusive(t)
  /\ Returns(t, "ok")
  /\ UNCHANGED <<rwlock, current_mode, pc>>

\* lock() by a holder that reads Shared throws InternalError, and
\* try_lock() returns false.
RefuseUpgrade(t) ==
  /\ pc[t] = "idle"
  /\ lock_counts[t] > 0
  /\ current_mode = "Shared"
  /\ Returns(t, "upgrade_error") \/ Returns(t, "false")
  /\ UNCHANGED <<rwlock, current_mode, lock_counts, pc, granted>>

\* try_lock() by a thread that holds nothing.
TryLock(t) ==
  /\ lock_counts[t] = 0
  /\ \/ /\ Goto(t, "idle", "store_exclusive")
        /\ FreeForWriter
        /\ writer' = t
        /\ Returns(t, "ok")
        /\ UNCHANGED readers
     \/ /\ pc[t] = "idle"
        /\ ~FreeForWriter
        /\ Returns(t, "false")
        /\ UNCHANGED <<rwlock, pc>>
  /\ UNCHANGED <<current_mode, lock_counts, granted>>

-----------------------------------------------------------------------------
(* lock_shared() and try_lock_shared() *)

LockShared(t) ==
  /\ Goto(t, "idle", "want_shared")
  /\ lock_counts[t] = 0
  /\ Returns(t, "ok")
  /\ UNCHANGED <<rwlock, current_mode, lock_counts, granted>>

AcquireShared(t) ==
  /\ Goto(t, "want_shared", "store_shared")
  /\ FreeForReader
  /\ readers' = readers \cup {t}
  /\ UNCHANGED <<writer, current_mode, lock_counts, granted, result>>

StoreShared(t) ==
  /\ Goto(t, "store_shared", "idle")
  /\ current_mode' = "Shared"
  /\ lock_counts' = [lock_counts EXCEPT ![t] = @ + 1]
  /\ GrantShared(t)
  /\ UNCHANGED <<rwlock, result>>

\* lock_shared() or try_lock_shared() by a holder of either kind.
LockSharedAgain(t) ==
  /\ pc[t] = "idle"
  /\ Reenter(t)
  /\ GrantShared(t)
  /\ Returns(t, "ok")
  /\ UNCHANGED <<rwlock, current_mode, pc>>

TryLockShared(t) ==
  /\ lock_counts[t] = 0
  /\ \/ /\ Goto(t, "idle", "store_shared")
        /\ FreeForReader
        /\ readers' = readers \cup {t}
        /\ Returns(t, "ok")
        /\ UNCHANGED writer
     \/ /\ pc[t] = "idle"
        /\ ~FreeForReader
        /\ Returns(t, "false")
        /\ UNCHANGED <<rwlock, pc>>
  /\ UNCHANGED <<current_mode, lock_counts, granted>>

-----------------------------------------------------------------------------
(* unlock() and unlock_shared() *)

\* unlock(): the last one releases the rwlock, and only then goes on to
\* store None.
Unlock(t) ==
  /\ pc[t] = "idle"
  /\ lock_counts[t] > 0 /\ exclusive[t] > 0
  /\ lock_counts' = [lock_counts EXCEPT ![t] = @ - 1]
  /\ exclusive' = [exclusive EXCEPT ![t] = @ - 1]
  /\ Returns(t, "ok")
  /\ IF lock_counts[t] = 1
     THEN ReleaseRwlock(t) /\ pc' = [pc EXCEPT ![t] = "store_none"]
     ELSE UNCHANGED <<rwlock, pc>>
  /\ UNCHANGED <<current_mode, shared>>

StoreNone(t) ==
  /\ Goto(t, "store_none", "idle")
  /\ current_mode' = "None"
  /\ UNCHANGED <<rwlock, lock_counts, granted, result>>

\* unlock_shared(): the last one releases the rwlock and leaves the mode.
UnlockShared(t) ==
  /\ pc[t] = "idle"
  /\ lock_counts[t] > 0 /\ shared[t] > 0
  /\ lock_counts' = [lock_counts EXCEPT ![t] = @ - 1]
  /\ shared' = [shared EXCEPT ![t] = @ - 1]
  /\ Returns(t, "ok")
  /\ IF lock_counts[t] = 1 THEN ReleaseRwlock(t) ELSE UNCHANGED rwlock
  /\ UNCHANGED <<current_mode, pc, exclusive>>

\* Either unlock at count zero throws InternalError.
UnlockUnlocked(t) ==
  /\ pc[t] = "idle"
  /\ lock_counts[t] = 0
  /\ Returns(t, "not_locked_error")
  /\ UNCHANGED <<rwlock, current_mode, lock_counts, pc, granted>>

-----------------------------------------------------------------------------
Release(t) == Unlock(t) \/ UnlockShared(t)

Next == \E t \in Thread :
  \/ Lock(t) \/ AcquireExclusive(t) \/ StoreExclusive(t)
  \/ LockAgain(t) \/ RefuseUpgrade(t) \/ TryLock(t)
  \/ LockShared(t) \/ AcquireShared(t) \/ StoreShared(t)
  \/ LockSharedAgain(t) \/ TryLockShared(t)
  \/ Unlock(t) \/ StoreNone(t) \/ UnlockShared(t) \/ UnlockUnlocked(t)

Spec == Init /\ [][Next]_vars

\* A call that was entered keeps running; a rwlock that is free again and
\* again for a waiter is handed to it in the end (glibc passes the lock on at
\* every release); critical sections are finite: what was nested is unnested,
\* and a thread that comes back to depth one again and again leaves once.
Fairness == \A t \in Thread :
  /\ WF_vars(StoreExclusive(t)) /\ WF_vars(StoreShared(t)) /\ WF_vars(StoreNone(t))
  /\ SF_vars(AcquireExclusive(t)) /\ SF_vars(AcquireShared(t))
  /\ WF_vars(Release(t))
  /\ SF_vars(lock_counts[t] = 1 /\ Release(t))

FairSpec == Spec /\ Fairness

-----------------------------------------------------------------------------
(* Properties *)

\* Every variable keeps its type, lock_counts stays within MaxDepth.
TypeOK ==
  /\ writer \in Thread \cup {NoThread}
  /\ readers \in SUBSET Thread
  /\ current_mode \in LockingMode
  /\ lock_counts \in [Thread -> 0 .. MaxDepth]
  /\ pc \in [Thread -> Steps]
  /\ exclusive \in [Thread -> 0 .. MaxDepth]
  /\ shared \in [Thread -> 0 .. MaxDepth]
  /\ result \in [Thread -> Results]

Open(t) == exclusive[t] + shared[t]

\* A thread whose outermost acquisition was exclusive is alone: nobody else
\* has an acquisition of any kind open, however it nests (lock_impl,
\* unlock_impl and the count that ties them together).
ExclusiveIsAlone ==
  \A t \in Thread : writer = t /\ Open(t) > 0
                      => \A u \in Thread \ {t} : Open(u) = 0

\* The count is the truth about ownership: a thread between calls owns the
\* rwlock exactly when its count is positive, so the shortcut "count > 0"
\* never skips a lock that is needed nor releases one that is not held.
CountMeansOwnership ==
  \A t \in Thread :
    /\ lock_counts[t] = Open(t)
    /\ pc[t] = "idle" => (lock_counts[t] > 0 <=> t \in readers \cup {writer})

\* A thread that holds the mutex exclusively is never told that it holds it
\* in shared mode: late stores of current_mode by others cannot make a
\* recursive lock() throw or a recursive try_lock() return false.
OwnerNeverRefused ==
  \A t \in Thread : writer = t => result[t] \notin {"upgrade_error", "false"}

\* A thread never waits for the rwlock it holds itself: recursion does not
\* deadlock on the non-recursive std::shared_mutex below.
NoSelfWait ==
  \A t \in Thread : pc[t] \in {"want_exclusive", "want_shared"}
                      => t # writer /\ t \notin readers

\* Once a reader is in, the mode is not Exclusive: an old Exclusive does not
\* outlive the writer that stored it, also when that writer left through
\* unlock_shared(), which stores nothing.
ReadersNotExclusive ==
  (\E t \in readers : lock_counts[t] > 0) => current_mode # "Exclusive"

\* Owners exclude each other and everybody can tell: who entered exclusively is
\* alone, and the mode that nested calls read is not that of an owner that left.
ExclusionHolds == ExclusiveIsAlone /\ ReadersNotExclusive

\* Recursion works: an owner is neither refused nor left waiting for itself.
OwnersNest == OwnerNeverRefused /\ NoSelfWait

\* What a thread owns in the eyes of its callers: it enters when its count
\* becomes positive and leaves when the count is back at zero.
Kind == [t \in Thread |-> IF lock_counts[t] = 0 THEN "none"
                          ELSE IF writer = t THEN "exclusive" ELSE "shared"]

Ownership == INSTANCE ReentrantOwnership WITH kind <- Kind, depth <- lock_counts

\* The mutex implements the abstract reentrant ownership.
OwnershipSpec == Ownership!Spec

ReaderProgress ==
  \A t \in Thread : pc[t] = "want_shared" ~> t \in readers

WriterProgress ==
  []<>(readers = {}) => \A t \in Thread : pc[t] = "want_exclusive" ~> writer = t

\* A waiting reader gets in: lock_shared() returns, whatever the writers do.  A
\* waiting writer gets in unless readers keep the mutex busy forever (the
\* rwlock prefers readers): nothing else can hold lock() up.
Progress == ReaderProgress /\ WriterProgress
=============================================================================
