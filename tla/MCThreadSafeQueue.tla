------------------------- MODULE MCThreadSafeQueue -------------------------
(***************************************************************************)
(* The instance of ThreadSafeQueue with one queue.                         *)
(***************************************************************************)
EXTENDS ThreadSafeQueue

CONSTANTS q1, c1, c2, p1

\* Every call that a single queue has.
OneQueueCalls ==
  {"wait_for_next", "wait_for_next_or", "request_stop", "notify_all", "stop_thread",
   "next", "restart_after_stop"}
=============================================================================
