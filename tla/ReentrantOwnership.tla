------------------------- MODULE ReentrantOwnership -------------------------
(***************************************************************************)
(* What RecursiveSharedMutex promises about ownership, without saying how: *)
(* every thread has a kind of ownership and a nesting depth.  A thread     *)
(* that owns nothing may enter exclusively when nobody owns anything, or   *)
(* shared when nobody owns exclusively; an owner may nest and unnest at    *)
(* will, and its kind never changes until it has left completely.          *)
(***************************************************************************)
EXTENDS Naturals

CONSTANTS Thread,    \* the threads that use the mutex
          MaxDepth   \* bound on the nesting depth

VARIABLES kind,      \* kind[t]: what t owns
          depth      \* depth[t]: acquisitions of t not released yet

vars == <<kind, depth>>

Init == /\ kind = [t \in Thread |-> "none"]
        /\ depth = [t \in Thread |-> 0]

EnterExclusive(t) ==
  /\ \A u \in Thread : kind[u] = "none"
  /\ kind' = [kind EXCEPT ![t] = "exclusive"]
  /\ depth' = [depth EXCEPT ![t] = 1]

EnterShared(t) ==
  /\ kind[t] = "none"
  /\ \A u \in Thread : kind[u] # "exclusive"
  /\ kind' = [kind EXCEPT ![t] = "shared"]
  /\ depth' = [depth EXCEPT ![t] = 1]

Nest(t) ==
  /\ kind[t] # "none"
  /\ depth[t] < MaxDepth
  /\ depth' = [depth EXCEPT ![t] = @ + 1]
  /\ UNCHANGED kind

Unnest(t) ==
  /\ depth[t] > 1
  /\ depth' = [depth EXCEPT ![t] = @ - 1]
  /\ UNCHANGED kind

Leave(t) ==
  /\ depth[t] = 1
  /\ depth' = [depth EXCEPT ![t] = 0]
  /\ kind' = [kind EXCEPT ![t] = "none"]

Next == \E t \in Thread : \/ EnterExclusive(t) \/ EnterShared(t)
                          \/ Nest(t) \/ Unnest(t) \/ Leave(t)

Spec == Init /\ [][Next]_vars
=============================================================================
