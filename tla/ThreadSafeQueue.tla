--------------------------- MODULE ThreadSafeQueue ---------------------------
(***************************************************************************)
(* SupDef::Util::ThreadSafeQueue: a std::queue behind a mutex, with a      *)
(* condition variable on which consumers wait.                             *)
(*                                                                         *)
(* The predicate of the wait reads two atomics: empty_state, written only  *)
(* under the mutex, and stop_required_state, written without it.  An       *)
(* operation that holds the mutex from start to end is one step.  What     *)
(* happens outside the mutex is a step of its own: a notification after    *)
(* the unlock, the store of stop_required_state, the reads of it.          *)
(*                                                                         *)
(* wait_for_next_or is called as the thread pool calls it: its additional  *)
(* predicate asks the stop token of the calling thread, and to_invoke      *)
(* throws.  Threads are consumers, which wait, and callers, which do the   *)
(* rest.  Values are numbered in the order they are pushed.                *)
(***************************************************************************)
EXTENDS Naturals, Sequences, FiniteSets

CONSTANTS
  Queue,        \* queue objects
  Consumer,     \* threads that call wait_for_next and wait_for_next_or
  Caller,       \* threads that call the other operations
  Nobody,       \* the owner of a free mutex
  MaxPush,      \* bound on the values pushed
  Calls         \* the operations used, a subset of AllCalls

AllCalls == {"wait_for_next", "wait_for_next_or", "next", "swap", "move",
             "request_stop", "restart_after_stop", "notify_all", "stop_thread"}

ASSUME QueueAssumption ==
  /\ Queue # {}
  /\ Nobody \notin Consumer \cup Caller
  /\ Consumer \cap Caller = {}
  /\ MaxPush \in Nat
  /\ Calls \subseteq AllCalls

VARIABLES
  queue,                \* queue[q]: the std::queue
  empty_state,          \* empty_state[q]
  stop_required_state,  \* stop_required_state[q]
  mutex,                \* mutex[q]: its owner
  waiting,              \* waiting[q]: the consumers asleep on queue_cv
  pc,                   \* where a thread is inside its call
  at,                   \* at[t]: the queue of t's current or last call
  with_token,           \* with_token[c]: the call of c is wait_for_next_or
  stop_token,           \* stop_token[c]: stop was requested of c's jthread
  outcome,              \* outcome[c]: how the last wait of c ended
  pushed,               \* how many values were pushed so far
  taken,                \* the values taken out, in order
  restarted             \* restart_after_stop was called

data == <<queue, empty_state, pushed, taken>>
stops == <<stop_required_state, stop_token, restarted>>
vars == <<data, stops, mutex, waiting, pc, at, with_token, outcome>>

QueueThread == Consumer \cup Caller
Outcomes == {"none", "value", "StopRequired", "to_invoke", "empty after waking up"}
Steps == {"idle", "check_predicate", "block", "asleep", "check_stop", "take",
          "notify_one", "notify_all", "relock"}
Holding == {"check_predicate", "block", "check_stop", "take"}

Init ==
  /\ queue = [q \in Queue |-> <<>>]
  /\ empty_state = [q \in Queue |-> TRUE]
  /\ stop_required_state = [q \in Queue |-> FALSE]
  /\ mutex = [q \in Queue |-> Nobody]
  /\ waiting = [q \in Queue |-> {}]
  /\ pc = [t \in QueueThread |-> "idle"]
  /\ at \in [QueueThread -> {CHOOSE q \in Queue : TRUE}]
  /\ with_token = [c \in Consumer |-> FALSE]
  /\ stop_token = [c \in Consumer |-> FALSE]
  /\ outcome = [c \in Consumer |-> "none"]
  /\ pushed = 0
  /\ taken = <<>>
  /\ restarted = FALSE

-----------------------------------------------------------------------------
(* Helpers *)

Goto(t, from, to) == pc[t] = from /\ pc' = [pc EXCEPT ![t] = to]

Start(t, q, step) == Goto(t, "idle", step) /\ at' = [at EXCEPT ![t] = q]

Acquire(t, q) == mutex[q] = Nobody /\ mutex' = [mutex EXCEPT ![q] = t]
UnlockMutex(q) == mutex' = [mutex EXCEPT ![q] = Nobody]

Ends(c, o) == outcome' = [outcome EXCEPT ![c] = o]

\* The additional predicate of a wait_for_next_or.
TokenStopped(c) == with_token[c] /\ stop_token[c]

\* Faulty variant: the wait forgets to ask for the stop.
PredicateNoStop(c) == ~empty_state[at[c]] \/ TokenStopped(c)

Predicate(c) == \/ ~empty_state[at[c]]
                \/ stop_required_state[at[c]]
                \/ TokenStopped(c)

-----------------------------------------------------------------------------
(* Faulty variants of steps below.                                         *)

\* front() is read and pop() forgotten.
PopFrontCopies(q) ==
  /\ taken' = Append(taken, Head(queue[q]))
  /\ UNCHANGED <<queue, empty_state, pushed>>

\* empty_state becomes true with every element that leaves.
PopFrontAlwaysEmpty(q) ==
  /\ taken' = Append(taken, Head(queue[q]))
  /\ queue' = [queue EXCEPT ![q] = Tail(@)]
  /\ empty_state' = [empty_state EXCEPT ![q] = TRUE]
  /\ UNCHANGED pushed

\* The element at the back leaves first.
PopBack(q) ==
  LET last == Len(queue[q]) IN
  /\ taken' = Append(taken, queue[q][last])
  /\ queue' = [queue EXCEPT ![q] = SubSeq(@, 1, last - 1)]
  /\ empty_state' = [empty_state EXCEPT ![q] = @ \/ last = 1]
  /\ UNCHANGED pushed

\* front() and pop() of the std::queue, then empty_state follows.
PopFront(q) ==
  /\ taken' = Append(taken, Head(queue[q]))
  /\ queue' = [queue EXCEPT ![q] = Tail(@)]
  /\ empty_state' = [empty_state EXCEPT ![q] = @ \/ Tail(queue[q]) = <<>>]
  /\ UNCHANGED pushed

\* push() returns without its notification.
PushSilent(t, q) ==
  /\ pushed < MaxPush
  /\ pc[t] = "idle" /\ mutex[q] = Nobody
  /\ queue' = [queue EXCEPT ![q] = Append(@, pushed + 1)]
  /\ empty_state' = [empty_state EXCEPT ![q] = FALSE]
  /\ pushed' = pushed + 1
  /\ UNCHANGED <<taken, stops, mutex, waiting, pc, at, with_token, outcome>>

-----------------------------------------------------------------------------
(* wait_for_next and wait_for_next_or *)

\* The call is entered and locks the mutex.
BeginWait(c, q, token) ==
  /\ (IF token THEN "wait_for_next_or" ELSE "wait_for_next") \in Calls
  /\ Start(c, q, "check_predicate")
  /\ Acquire(c, q)
  /\ with_token' = [with_token EXCEPT ![c] = token]
  /\ Ends(c, "none")
  /\ UNCHANGED <<data, stops, waiting>>

\* The predicate of the wait is evaluated, with the mutex held.
CheckPredicate(c) ==
  /\ Goto(c, "check_predicate", IF Predicate(c) THEN "check_stop" ELSE "block")
  /\ UNCHANGED <<data, stops, mutex, waiting, at, with_token, outcome>>

\* The condition variable unlocks the mutex and puts the thread to sleep.
Block(c) ==
  /\ Goto(c, "block", "asleep")
  /\ waiting' = [waiting EXCEPT ![at[c]] = @ \cup {c}]
  /\ UnlockMutex(at[c])
  /\ UNCHANGED <<data, stops, at, with_token, outcome>>

\* A thread that was notified locks the mutex again, and looks again.
WakeUp(c) ==
  /\ Goto(c, "asleep", "check_predicate")
  /\ c \notin waiting[at[c]]
  /\ Acquire(c, at[c])
  /\ UNCHANGED <<data, stops, waiting, at, with_token, outcome>>

\* Condition variables may wake a thread for no reason.
SpuriousWakeUp(c) ==
  /\ c \in waiting[at[c]]
  /\ waiting' = [waiting EXCEPT ![at[c]] = @ \ {c}]
  /\ UNCHANGED <<data, stops, mutex, pc, at, with_token, outcome>>

\* Back from the wait, the stop is asked for again; it may throw.
CheckStop(c) ==
  /\ IF stop_required_state[at[c]]
     THEN Goto(c, "check_stop", "idle") /\ Ends(c, "StopRequired") /\ UnlockMutex(at[c])
     ELSE Goto(c, "check_stop", "take") /\ UNCHANGED <<outcome, mutex>>
  /\ UNCHANGED <<data, stops, waiting, at, with_token>>

\* The additional predicate may throw by to_invoke; a queue that is empty
\* throws InternalException; else the front is the result.
TakeNext(c) ==
  LET q == at[c] IN
  /\ Goto(c, "take", "idle")
  /\ UnlockMutex(q)
  /\ IF TokenStopped(c) THEN Ends(c, "to_invoke") /\ UNCHANGED data
     ELSE IF queue[q] = <<>> THEN Ends(c, "empty after waking up") /\ UNCHANGED data
     ELSE Ends(c, "value") /\ PopFront(q)
  /\ UNCHANGED <<stops, waiting, at, with_token>>

-----------------------------------------------------------------------------
(* push, emplace, pop, next, swap and move *)

\* push or emplace under the mutex; the notification follows the unlock.
Push(t, q) ==
  /\ pushed < MaxPush
  /\ Start(t, q, "notify_one")
  /\ mutex[q] = Nobody
  /\ queue' = [queue EXCEPT ![q] = Append(@, pushed + 1)]
  /\ empty_state' = [empty_state EXCEPT ![q] = FALSE]
  /\ pushed' = pushed + 1
  /\ UNCHANGED <<taken, stops, mutex, waiting, with_token, outcome>>

\* notify_one wakes one of the threads asleep, if any.
NotifyOne(t) ==
  LET q == at[t] IN
  /\ Goto(t, "notify_one", "idle")
  /\ \/ waiting[q] = {} /\ UNCHANGED waiting
     \/ \E c \in waiting[q] : waiting' = [waiting EXCEPT ![q] = @ \ {c}]
  /\ UNCHANGED <<data, stops, mutex, at, with_token, outcome>>

\* next() or pop(): on an empty queue they throw and change nothing.
TakeNow(t, q) ==
  /\ "next" \in Calls
  /\ pc[t] = "idle"
  /\ mutex[q] = Nobody
  /\ queue[q] # <<>>
  /\ PopFront(q)
  /\ UNCHANGED <<stops, mutex, waiting, pc, at, with_token, outcome>>

\* swap() exchanges the std::queue members, under both mutexes.
Swap(t, q, r) ==
  /\ "swap" \in Calls
  /\ pc[t] = "idle"
  /\ q # r /\ mutex[q] = Nobody /\ mutex[r] = Nobody
  /\ queue' = [queue EXCEPT ![q] = queue[r], ![r] = queue[q]]
  /\ UNCHANGED <<empty_state, pushed, taken, stops, mutex, waiting, pc, at, with_token, outcome>>

\* Move assignment, which locks nothing: the caller has both queues to
\* itself.  What q held is destroyed, so the caller moves onto an empty q;
\* the moved-from std::queue is left empty and its empty_state as it was.
Move(t, q, r) ==
  /\ "move" \in Calls
  /\ q # r /\ queue[q] = <<>>
  /\ \A u \in QueueThread : pc[u] = "idle"
  /\ queue' = [queue EXCEPT ![q] = queue[r], ![r] = <<>>]
  /\ stop_required_state' = [stop_required_state EXCEPT ![q] = stop_required_state[r]]
  /\ empty_state' = [empty_state EXCEPT ![q] = queue[r] = <<>>]
  /\ UNCHANGED <<pushed, taken, stop_token, restarted, mutex, waiting, pc, at, with_token, outcome>>

-----------------------------------------------------------------------------
(* request_stop, notify_all, restart_after_stop, and the callers' tokens *)

\* request_stop stores the flag without the mutex, then notifies all.
RequestStop(t, q) ==
  /\ "request_stop" \in Calls
  /\ Start(t, q, "notify_all")
  /\ stop_required_state' = [stop_required_state EXCEPT ![q] = TRUE]
  /\ UNCHANGED <<data, stop_token, restarted, mutex, waiting, with_token, outcome>>

\* notify_all, on its own or as the end of another operation.
NotifyAll(t) ==
  /\ Goto(t, "notify_all", "idle")
  /\ waiting' = [waiting EXCEPT ![at[t]] = {}]
  /\ UNCHANGED <<data, stops, mutex, at, with_token, outcome>>

CallNotifyAll(t, q) ==
  /\ "notify_all" \in Calls
  /\ Start(t, q, "notify_all")
  /\ UNCHANGED <<data, stops, mutex, waiting, with_token, outcome>>

\* restart_after_stop stores the flag, and then locks the mutex.
RestartAfterStop(t, q) ==
  /\ "restart_after_stop" \in Calls
  /\ Start(t, q, "relock")
  /\ stop_required_state' = [stop_required_state EXCEPT ![q] = FALSE]
  /\ restarted' = TRUE
  /\ UNCHANGED <<data, stop_token, mutex, waiting, with_token, outcome>>

\* A queue that is not empty is declared so, and all are notified.
RestartRefresh(t) ==
  LET q == at[t] IN
  /\ mutex[q] = Nobody
  /\ Goto(t, "relock", IF queue[q] = <<>> THEN "idle" ELSE "notify_all")
  /\ empty_state' = [empty_state EXCEPT ![q] = @ /\ queue[q] = <<>>]
  /\ UNCHANGED <<queue, pushed, taken, stops, mutex, waiting, at, with_token, outcome>>

\* The caller requests the stop of a consumer thread, and then has the
\* queue notify all: its additional predicate is true from now on.
StopThread(t, c, q) ==
  /\ "stop_thread" \in Calls
  /\ Start(t, q, "notify_all")
  /\ stop_token' = [stop_token EXCEPT ![c] = TRUE]
  /\ UNCHANGED <<data, stop_required_state, restarted, mutex, waiting, with_token, outcome>>

-----------------------------------------------------------------------------
Wait(c) == \/ CheckPredicate(c) \/ Block(c) \/ WakeUp(c)
           \/ CheckStop(c) \/ TakeNext(c)

Next ==
  \/ \E c \in Consumer :
       \/ \E q \in Queue, token \in BOOLEAN : BeginWait(c, q, token)
       \/ Wait(c) \/ SpuriousWakeUp(c)
  \/ \E t \in Caller :
       \/ NotifyOne(t) \/ NotifyAll(t) \/ RestartRefresh(t)
       \/ \E q \in Queue :
            \/ Push(t, q) \/ TakeNow(t, q)
            \/ RequestStop(t, q) \/ CallNotifyAll(t, q) \/ RestartAfterStop(t, q)
            \/ \E c \in Consumer : StopThread(t, c, q)

\* A std::queue is handed from one ThreadSafeQueue to another.
Exchange == \E t \in Caller, q, r \in Queue : Swap(t, q, r) \/ Move(t, q, r)

NextExchanging == Next \/ Exchange

\* Every queue keeps what is its own; NextExchanging is for those that do not.
Spec == Init /\ [][Next]_vars

ExchangingSpec == Init /\ [][NextExchanging]_vars

\* A call that was entered keeps running, and a mutex that is free again and
\* again is obtained in the end.  Consumers call again after a wait has
\* returned a value.  Callers and spurious wake-ups owe nothing.
Fairness ==
  /\ \A c \in Consumer :
       /\ WF_vars(CheckPredicate(c)) /\ WF_vars(Block(c))
       /\ WF_vars(CheckStop(c)) /\ WF_vars(TakeNext(c))
       /\ SF_vars(WakeUp(c))
       /\ SF_vars(\E q \in Queue, token \in BOOLEAN : BeginWait(c, q, token))
  /\ \A t \in Caller :
       WF_vars(NotifyOne(t)) /\ WF_vars(NotifyAll(t)) /\ SF_vars(RestartRefresh(t))

FairSpec == Spec /\ Fairness

-----------------------------------------------------------------------------
(* Properties *)

\* Every variable keeps its type; only a thread inside a wait, awake, owns a
\* mutex between two steps, and only a sleeping one is listed as waiting.
TypeOK ==
  /\ queue \in [Queue -> Seq(1 .. MaxPush)]
  /\ empty_state \in [Queue -> BOOLEAN]
  /\ stop_required_state \in [Queue -> BOOLEAN]
  /\ mutex \in [Queue -> {c \in Consumer : pc[c] \in Holding} \cup {Nobody}]
  /\ waiting \in [Queue -> SUBSET {c \in Consumer : pc[c] = "asleep"}]
  /\ pc \in [QueueThread -> Steps]
  /\ at \in [QueueThread -> Queue]
  /\ with_token \in [Consumer -> BOOLEAN]
  /\ stop_token \in [Consumer -> BOOLEAN]
  /\ outcome \in [Consumer -> Outcomes]
  /\ pushed \in 0 .. MaxPush
  /\ taken \in Seq(1 .. MaxPush)
  /\ restarted \in BOOLEAN

\* What came out, followed by what is still in, is what was pushed, in order:
\* no value is lost, doubled or overtaken, whichever calls interleave.  One
\* queue only.
FirstInFirstOut ==
  \A q \in Queue : taken \o queue[q] = [i \in 1 .. pushed |-> i]

Contents(s) == {s[i] : i \in DOMAIN s}
Distinct(s) == \A i, j \in DOMAIN s : s[i] = s[j] => i = j

\* However queues are swapped and moved while others push and take, every value
\* pushed is in one place: taken out once, or in one queue once.
ExactlyOnce ==
  LET held == UNION {Contents(queue[q]) : q \in Queue}
  IN  /\ TypeOK
      /\ Contents(taken) \cup held = 1 .. pushed
      /\ Contents(taken) \cap held = {}
      /\ Distinct(taken) /\ \A q \in Queue : Distinct(queue[q])
      /\ \A q, r \in Queue : q # r => Contents(queue[q]) \cap Contents(queue[r]) = {}

\* empty_state, read by the predicates, tells the truth about the std::queue.
EmptyStateExact == \A q \in Queue : empty_state[q] <=> queue[q] = <<>>

\* A consumer that goes to sleep does so in front of an empty queue: the test
\* thread_safe_queue1 (thread_safe_queue.ipp:64) takes for granted that
\* wait_for_next returns the front of a queue that holds something.
SleepsOnlyWhenEmpty ==
  \A c \in Consumer : pc[c] = "block" => queue[at[c]] = <<>>

\* "queue is empty after waking up" is thrown only where restart_after_stop
\* took back the stop that had ended a wait.
EmptyWakeOnlyByRestart ==
  \A c \in Consumer : outcome[c] = "empty after waking up" => restarted

\* A wait that sleeps, and a wait that ends without a value, are justified by
\* the queue or by a stop, as empty_state is no older than the queue.
WaitsAreJustified ==
  TypeOK /\ EmptyStateExact /\ SleepsOnlyWhenEmpty /\ EmptyWakeOnlyByRestart

\* Every value pushed is taken in the end, while consumers keep waiting and
\* unless a stop is requested, also after restart_after_stop took one back:
\* notify_one after the unlock loses no wake-up.
Delivered ==
  \A v \in 1 .. MaxPush :
    pushed >= v ~> \/ v \in Contents(taken)
                   \/ \E q \in Queue : stop_required_state[q]
                   \/ \E c \in Consumer : stop_token[c]

\* A stop reaches every thread that is asleep when all are notified: it looks
\* at the predicate again and leaves the wait, whatever else goes on, unless
\* restart_after_stop takes the stop back.
SleepersAreReached ==
  \A c \in Consumer :
    /\ c \in waiting[at[c]]
    /\ stop_required_state[at[c]] \/ TokenStopped(c)
    /\ \E t \in Caller : pc[t] = "notify_all" /\ at[t] = at[c]
    ~> pc[c] = "idle" \/ restarted
=============================================================================
