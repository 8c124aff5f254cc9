--------------------- MODULE RecursiveSharedMutexProofs ---------------------
(***************************************************************************)
(* Proofs about RecursiveSharedMutex, for any set of threads and any bound *)
(* on the count.                                                           *)
(***************************************************************************)
EXTENDS RecursiveSharedMutex, TLAPS

\* The std::shared_mutex never has a writer and readers together.
RwlockExclusion == writer # NoThread => readers = {}

\* Where a thread stands inside a call says whether it owns the rwlock.
StepMeansOwnership ==
  \A t \in Thread :
    /\ pc[t] # "idle" => lock_counts[t] = 0 /\ result[t] = "ok"
    /\ pc[t] = "store_exclusive" => writer = t
    /\ pc[t] = "store_shared" => t \in readers
    /\ pc[t] \in {"want_exclusive", "want_shared", "store_none"}
         => writer # t /\ t \notin readers

\* A writer that has stored its mode is not followed by a late Shared.
WriterNotShared ==
  \A t \in Thread : writer = t /\ pc[t] = "idle" => current_mode # "Shared"

\* The inductive invariant: the properties themselves, and what ties the
\* place of every thread to the rwlock and the mode.
IInv ==
  /\ TypeOK
  /\ RwlockExclusion
  /\ CountMeansOwnership
  /\ StepMeansOwnership
  /\ WriterNotShared
  /\ OwnerNeverRefused
  /\ ReadersNotExclusive

-----------------------------------------------------------------------------
\* The inductive invariant holds initially.
LEMMA InitIInv == Init => IInv
  BY MutexAssumption
     DEF Init, IInv, TypeOK, RwlockExclusion, CountMeansOwnership, Open,
         StepMeansOwnership, WriterNotShared, OwnerNeverRefused,
         ReadersNotExclusive, LockingMode, Steps, Results

\* Every step preserves the inductive invariant.
LEMMA NextIInv == IInv /\ [Next]_vars => IInv'
<1> SUFFICES ASSUME IInv, [Next]_vars PROVE IInv'
  OBVIOUS
<1> USE MutexAssumption
<1> USE DEF IInv, TypeOK, RwlockExclusion, CountMeansOwnership, Open,
            StepMeansOwnership, WriterNotShared, OwnerNeverRefused,
            ReadersNotExclusive, LockingMode, Steps, Results, rwlock, granted
<1>1. ASSUME NEW t \in Thread, Lock(t) PROVE IInv'
  BY <1>1 DEF Lock, Goto, Returns
<1>2. ASSUME NEW t \in Thread, AcquireExclusive(t) PROVE IInv'
  BY <1>2 DEF AcquireExclusive, Goto, FreeForWriter
<1>3. ASSUME NEW t \in Thread, StoreExclusive(t) PROVE IInv'
  <2> USE <1>3 DEF StoreExclusive, Goto, GrantExclusive
  <2>1. TypeOK'
    OBVIOUS
  <2>2. RwlockExclusion'
    OBVIOUS
  <2>3. CountMeansOwnership'
    OBVIOUS
  <2>4. StepMeansOwnership'
    OBVIOUS
  <2>5. WriterNotShared'
    OBVIOUS
  <2>6. OwnerNeverRefused'
    OBVIOUS
  <2>7. ReadersNotExclusive'
    OBVIOUS
  <2> QED
    BY <2>1, <2>2, <2>3, <2>4, <2>5, <2>6, <2>7
<1>4. ASSUME NEW t \in Thread, LockAgain(t) PROVE IInv'
  <2> USE <1>4 DEF LockAgain, Reenter, GrantExclusive, Returns
  <2>1. TypeOK'
    OBVIOUS
  <2>2. RwlockExclusion'
    OBVIOUS
  <2>3. CountMeansOwnership'
    OBVIOUS
  <2>4. StepMeansOwnership'
    OBVIOUS
  <2>5. WriterNotShared'
    OBVIOUS
  <2>6. OwnerNeverRefused'
    OBVIOUS
  <2>7. ReadersNotExclusive'
    OBVIOUS
  <2> QED
    BY <2>1, <2>2, <2>3, <2>4, <2>5, <2>6, <2>7
<1>5. ASSUME NEW t \in Thread, RefuseUpgrade(t) PROVE IInv'
  BY <1>5 DEF RefuseUpgrade, Returns
<1>6. ASSUME NEW t \in Thread, TryLock(t) PROVE IInv'
  <2> USE <1>6 DEF TryLock, Goto, FreeForWriter, Returns
  <2>1. TypeOK'
    OBVIOUS
  <2>2. RwlockExclusion'
    OBVIOUS
  <2>3. CountMeansOwnership'
    OBVIOUS
  <2>4. StepMeansOwnership'
    OBVIOUS
  <2>5. WriterNotShared'
    OBVIOUS
  <2>6. OwnerNeverRefused'
    OBVIOUS
  <2>7. ReadersNotExclusive'
    OBVIOUS
  <2> QED
    BY <2>1, <2>2, <2>3, <2>4, <2>5, <2>6, <2>7
<1>7. ASSUME NEW t \in Thread, LockShared(t) PROVE IInv'
  BY <1>7 DEF LockShared, Goto, Returns
<1>8. ASSUME NEW t \in Thread, AcquireShared(t) PROVE IInv'
  BY <1>8 DEF AcquireShared, Goto, FreeForReader
<1>9. ASSUME NEW t \in Thread, StoreShared(t) PROVE IInv'
  <2> USE <1>9 DEF StoreShared, Goto, GrantShared
  <2>1. TypeOK'
    OBVIOUS
  <2>2. RwlockExclusion'
    OBVIOUS
  <2>3. CountMeansOwnership'
    OBVIOUS
  <2>4. StepMeansOwnership'
    OBVIOUS
  <2>5. WriterNotShared'
    OBVIOUS
  <2>6. OwnerNeverRefused'
    OBVIOUS
  <2>7. ReadersNotExclusive'
    OBVIOUS
  <2> QED
    BY <2>1, <2>2, <2>3, <2>4, <2>5, <2>6, <2>7
<1>10. ASSUME NEW t \in Thread, LockSharedAgain(t) PROVE IInv'
  <2> USE <1>10 DEF LockSharedAgain, Reenter, GrantShared, Returns
  <2>1. TypeOK'
    OBVIOUS
  <2>2. RwlockExclusion'
    OBVIOUS
  <2>3. CountMeansOwnership'
    OBVIOUS
  <2>4. StepMeansOwnership'
    OBVIOUS
  <2>5. WriterNotShared'
    OBVIOUS
  <2>6. OwnerNeverRefused'
    OBVIOUS
  <2>7. ReadersNotExclusive'
    OBVIOUS
  <2> QED
    BY <2>1, <2>2, <2>3, <2>4, <2>5, <2>6, <2>7
<1>11. ASSUME NEW t \in Thread, TryLockShared(t) PROVE IInv'
  <2> USE <1>11 DEF TryLockShared, Goto, FreeForReader, Returns
  <2>1. TypeOK'
    OBVIOUS
  <2>2. RwlockExclusion'
    OBVIOUS
  <2>3. CountMeansOwnership'
    OBVIOUS
  <2>4. StepMeansOwnership'
    OBVIOUS
  <2>5. WriterNotShared'
    OBVIOUS
  <2>6. OwnerNeverRefused'
    OBVIOUS
  <2>7. ReadersNotExclusive'
    OBVIOUS
  <2> QED
    BY <2>1, <2>2, <2>3, <2>4, <2>5, <2>6, <2>7
<1>12. ASSUME NEW t \in Thread, Unlock(t) PROVE IInv'
  <2> USE <1>12 DEF Unlock, ReleaseRwlock, Returns
  <2>1. TypeOK'
    <3>1. CASE lock_counts[t] = 1
      BY <3>1
    <3>2. CASE lock_counts[t] # 1
      BY <3>2
    <3> QED
      BY <3>1, <3>2
  <2>2. RwlockExclusion'
    OBVIOUS
  <2>3. CountMeansOwnership'
    OBVIOUS
  <2>4. StepMeansOwnership'
    OBVIOUS
  <2>5. WriterNotShared'
    OBVIOUS
  <2>6. OwnerNeverRefused'
    OBVIOUS
  <2>7. ReadersNotExclusive'
    OBVIOUS
  <2> QED
    BY <2>1, <2>2, <2>3, <2>4, <2>5, <2>6, <2>7
<1>13. ASSUME NEW t \in Thread, StoreNone(t) PROVE IInv'
  BY <1>13 DEF StoreNone, Goto
<1>14. ASSUME NEW t \in Thread, UnlockShared(t) PROVE IInv'
  <2> USE <1>14 DEF UnlockShared, ReleaseRwlock, Returns
  <2>1. TypeOK'
    OBVIOUS
  <2>2. RwlockExclusion'
    OBVIOUS
  <2>3. CountMeansOwnership'
    OBVIOUS
  <2>4. StepMeansOwnership'
    OBVIOUS
  <2>5. WriterNotShared'
    OBVIOUS
  <2>6. OwnerNeverRefused'
    OBVIOUS
  <2>7. ReadersNotExclusive'
    OBVIOUS
  <2> QED
    BY <2>1, <2>2, <2>3, <2>4, <2>5, <2>6, <2>7
<1>15. ASSUME NEW t \in Thread, UnlockUnlocked(t) PROVE IInv'
  BY <1>15 DEF UnlockUnlocked, Returns
<1>16. CASE UNCHANGED vars
  BY <1>16 DEF vars
<1> QED
  BY <1>1, <1>2, <1>3, <1>4, <1>5, <1>6, <1>7, <1>8, <1>9, <1>10, <1>11, <1>12, <1>13, <1>14, <1>15, <1>16 DEF Next

-----------------------------------------------------------------------------
\* The inductive invariant holds in every reachable state.
THEOREM Invariance == Spec => []IInv
  BY InitIInv, NextIInv, PTL DEF Spec

\* Type correctness: in particular the nesting counts never leave their range.
THEOREM Typing == Spec => []TypeOK
  BY Invariance, PTL DEF IInv

\* A thread that entered exclusively is alone, and the mode that a writer stored
\* does not outlive it: a reader never meets it.
THEOREM Exclusion == Spec => []ExclusionHolds
<1>1. IInv => ExclusiveIsAlone
  BY MutexAssumption
     DEF IInv, TypeOK, ExclusiveIsAlone, CountMeansOwnership, Open,
         RwlockExclusion, StepMeansOwnership
<1>2. IInv => ExclusionHolds
  BY <1>1 DEF IInv, ExclusionHolds
<1> QED
  BY <1>2, Invariance, PTL

\* The thread-local count is above zero exactly when the thread owns the rwlock.
THEOREM CountIsOwnership == Spec => []CountMeansOwnership
  BY Invariance, PTL DEF IInv

\* An exclusive owner is never refused a nested exclusive lock, and nobody waits
\* for the rwlock it holds.
THEOREM OwnersCanNest == Spec => []OwnersNest
<1>1. IInv => NoSelfWait
  BY DEF IInv, StepMeansOwnership, NoSelfWait
<1>2. IInv => OwnersNest
  BY <1>1 DEF IInv, OwnersNest
<1> QED
  BY <1>2, Invariance, PTL

-----------------------------------------------------------------------------
\* Calls that do not change the count change nothing a caller sees: the
\* rwlock moves only for threads whose count is still zero.
LEMMA SilentStep ==
  ASSUME IInv, UNCHANGED lock_counts,
         \A u \in Thread : lock_counts[u] > 0 => (writer' = u <=> writer = u)
  PROVE  UNCHANGED Ownership!vars
<1>1. Kind' = Kind
  BY DEF Kind, IInv, TypeOK
<1> QED
  BY <1>1 DEF Ownership!vars

\* A thread that raises its count from zero enters, and nobody else moves.
LEMMA EnterStep ==
  ASSUME NEW t \in Thread, IInv, UNCHANGED rwlock, lock_counts[t] = 0,
         t \in readers \cup {writer},
         lock_counts' = [lock_counts EXCEPT ![t] = @ + 1]
  PROVE  Ownership!EnterExclusive(t) \/ Ownership!EnterShared(t)
<1> USE MutexAssumption DEF IInv, TypeOK, rwlock
<1>1. lock_counts' = [lock_counts EXCEPT ![t] = 1]
  OBVIOUS
<1>2. /\ \A u \in Thread \ {t} : Kind'[u] = Kind[u]
      /\ Kind'[t] = IF writer = t THEN "exclusive" ELSE "shared"
  BY DEF Kind
<1>3. Kind' = [Kind EXCEPT ![t] = IF writer = t THEN "exclusive" ELSE "shared"]
  BY <1>2 DEF Kind
<1>4. CASE writer = t
  <2>1. \A u \in Thread : lock_counts[u] = 0
    BY <1>4 DEF CountMeansOwnership, StepMeansOwnership, RwlockExclusion
  <2>2. \A u \in Thread : Kind[u] = "none"
    BY <2>1 DEF Kind
  <2> QED
    BY <1>1, <1>3, <1>4, <2>2 DEF Ownership!EnterExclusive
<1>5. CASE writer # t
  <2>1. writer = NoThread
    BY <1>5 DEF RwlockExclusion
  <2>2. Kind[t] = "none" /\ \A u \in Thread : Kind[u] # "exclusive"
    BY <2>1 DEF Kind
  <2> QED
    BY <1>1, <1>3, <1>5, <2>2 DEF Ownership!EnterShared
<1> QED
  BY <1>4, <1>5

\* A holder that raises its count nests.
LEMMA NestStep ==
  ASSUME NEW t \in Thread, IInv, UNCHANGED rwlock, Reenter(t)
  PROVE  Ownership!Nest(t)
<1> USE MutexAssumption DEF Kind, IInv, TypeOK, rwlock, Reenter
<1>1. Kind' = Kind
  OBVIOUS
<1>2. Kind[t] # "none"
  OBVIOUS
<1> QED
  BY <1>1, <1>2 DEF Ownership!Nest

\* A holder that lowers its count unnests, or leaves when it was at one.
LEMMA ReleaseStep ==
  ASSUME NEW t \in Thread, IInv, Release(t)
  PROVE  Ownership!Unnest(t) \/ Ownership!Leave(t)
<1> USE MutexAssumption
    DEF Kind, IInv, TypeOK, rwlock, Release, Unlock, UnlockShared, ReleaseRwlock
<1>1. CASE lock_counts[t] = 1
  <2>1. lock_counts' = [lock_counts EXCEPT ![t] = 0]
    BY <1>1
  <2>2. \A u \in Thread \ {t} : writer' = u <=> writer = u
    BY <1>1
  <2>3. Kind' = [Kind EXCEPT ![t] = "none"]
    BY <2>1, <2>2
  <2> QED
    BY <1>1, <2>1, <2>3 DEF Ownership!Leave
<1>2. CASE lock_counts[t] # 1
  <2>1. lock_counts[t] > 1
    BY <1>2
  <2>2. lock_counts' = [lock_counts EXCEPT ![t] = @ - 1] /\ UNCHANGED writer
    BY <1>2
  <2>3. Kind' = Kind
    BY <2>1, <2>2
  <2> QED
    BY <2>1, <2>2, <2>3 DEF Ownership!Unnest
<1> QED
  BY <1>1, <1>2

\* RecursiveSharedMutex implements ReentrantOwnership: whatever the rwlock,
\* the mode and the late stores do, callers see threads that enter alone or
\* among readers, nest, and leave.
THEOREM ImplementsOwnership == Spec => OwnershipSpec
<1>1. Init => Ownership!Init
  BY DEF Init, Ownership!Init, Kind
<1>2. IInv /\ [Next]_vars => [Ownership!Next]_Ownership!vars
  <2> SUFFICES ASSUME IInv, [Next]_vars
               PROVE  Ownership!Next \/ UNCHANGED Ownership!vars
    OBVIOUS
  <2>1. ASSUME NEW t \in Thread, Lock(t) \/ LockShared(t) \/ RefuseUpgrade(t)
                                   \/ StoreNone(t) \/ UnlockUnlocked(t)
        PROVE  UNCHANGED Ownership!vars
    BY <2>1, SilentStep
       DEF Lock, LockShared, RefuseUpgrade, StoreNone, UnlockUnlocked, rwlock
  <2>2. ASSUME NEW t \in Thread, AcquireExclusive(t) \/ TryLock(t)
        PROVE  UNCHANGED Ownership!vars
    <3>1. UNCHANGED lock_counts
      BY <2>2 DEF AcquireExclusive, TryLock
    <3>2. lock_counts[t] = 0
      BY <2>2 DEF AcquireExclusive, TryLock, Goto, IInv, StepMeansOwnership
    <3>3. UNCHANGED writer \/ (writer = NoThread /\ writer' = t)
      BY <2>2 DEF AcquireExclusive, TryLock, FreeForWriter, rwlock
    <3> QED
      BY <3>1, <3>2, <3>3, SilentStep, MutexAssumption
  <2>3. ASSUME NEW t \in Thread, AcquireShared(t) \/ TryLockShared(t)
        PROVE  UNCHANGED Ownership!vars
    BY <2>3, SilentStep DEF AcquireShared, TryLockShared, rwlock
  <2>4. ASSUME NEW t \in Thread, StoreExclusive(t) \/ StoreShared(t)
        PROVE  Ownership!EnterExclusive(t) \/ Ownership!EnterShared(t)
    BY <2>4, EnterStep
       DEF StoreExclusive, StoreShared, Goto, IInv, StepMeansOwnership
  <2>5. ASSUME NEW t \in Thread, LockAgain(t) \/ LockSharedAgain(t)
        PROVE  Ownership!Nest(t)
    BY <2>5, NestStep DEF LockAgain, LockSharedAgain
  <2>6. ASSUME NEW t \in Thread, Unlock(t) \/ UnlockShared(t)
        PROVE  Ownership!Unnest(t) \/ Ownership!Leave(t)
    BY <2>6, ReleaseStep DEF Release
  <2>7. CASE UNCHANGED vars
    BY <2>7, SilentStep DEF vars
  <2> QED
    BY <2>1, <2>2, <2>3, <2>4, <2>5, <2>6, <2>7 DEF Next, Ownership!Next
<1> QED
  BY <1>1, <1>2, Invariance, PTL DEF Spec, OwnershipSpec, Ownership!Spec
=============================================================================
