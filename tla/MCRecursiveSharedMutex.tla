----------------------- MODULE MCRecursiveSharedMutex -----------------------
(***************************************************************************)
(* Instances of RecursiveSharedMutex for TLC: three threads, so that one   *)
(* can be late with a store while two others hold the mutex together.      *)
(***************************************************************************)
EXTENDS RecursiveSharedMutex

CONSTANTS t1, t2, t3
=============================================================================
