----------------------------- MODULE MCMutexIds -----------------------------
(***************************************************************************)
(* Instances of MutexIds for TLC.                                          *)
(***************************************************************************)
EXTENDS MutexIds, TLC

CONSTANTS t1, t2, m1, m2, m3

\* Threads and mutexes are interchangeable.
IdsSymmetry == Permutations(Thread) \cup Permutations(Mutex)
=============================================================================
