----------------------------- MODULE TimedTask -----------------------------
(***************************************************************************)
(* TimedTask (sup_def.hpp) under the timed ThreadPool::enqueue: a call runs*)
(* the function on a thread of its own and waits for it until a deadline.  *)
(* The thread works on locals of the call: mtx, cv, done and result, and   *)
(* on the task, of which it reads func; a call that times out detaches it. *)
(*                                                                         *)
(* A caller is a worker of the pool, that makes its calls from the same    *)
(* depth: the frame of a call lies where the frame of the call before it   *)
(* lay.  So a thread that outlives its call works on dead memory, or on    *)
(* the locals of the caller's next call.  Time is not modelled: a deadline *)
(* may pass at any time.                                                   *)
(*                                                                         *)
(* A function that throws does so on a thread that has no handler, and     *)
(* ends the process (ProcessEnd).                                          *)
(***************************************************************************)
EXTENDS ProcessEnd

CONSTANTS
  Caller,         \* the workers that run timed tasks
  Client,         \* the other threads, which may end the process
  MaxCalls        \* MaxCalls[c]: bound on the calls of c

ASSUME TimedAssumption ==
  MaxCalls \in [Caller -> Nat]

\* The k-th call of c, which also names the thread of the call.
Call == UNION {{<<c, k>> : k \in 1 .. MaxCalls[c]} : c \in Caller}

ASSUME ThreadAssumption == Thread = Call \cup Client

VARIABLES
  calls,      \* calls[c]: how many calls c has made
  pc,         \* pc[c]: where c is in its call
  locals,     \* locals[c]: the frame of the call, also when it is gone
  in_call,    \* the callers whose frame is alive
  stage,      \* stage[i]: where the thread of call i is
  answer,     \* answer[i]: what the promise of call i holds, and its value
  strays      \* not in the code: the threads that worked on a dead frame

timedVars == <<calls, pc, locals, in_call, stage, answer, strays>>
vars == <<endVars, timedVars>>

Nothing == 0   \* a result that was not written

\* What a promise holds: "none", "pending", "value", "timeout" or "no thread".
Promise(is) == [is |-> is, value |-> Nothing]
Value(v) == [is |-> "value", value |-> v]

Fresh == [mtx |-> NoThread, done |-> FALSE, result |-> Nothing, notified |-> FALSE]

Init ==
  /\ EndInit
  /\ calls = [c \in Caller |-> 0]
  /\ pc = [c \in Caller |-> "idle"]
  /\ locals = [c \in Caller |-> Fresh]
  /\ in_call = {}
  /\ stage = [i \in Call |-> "none"]
  /\ answer = [i \in Call |-> Promise("none")]
  /\ strays = {}

Up == process = "up" /\ UNCHANGED endVars

Current(c) == <<c, calls[c]>>

-----------------------------------------------------------------------------
(* The caller: wrap_func, and the task of the pool around it.              *)

\* The thread is started, or std::thread throws, which the promise is told.
BeginCall(c) ==
  LET i == <<c, calls[c] + 1>> IN
  /\ Up /\ pc[c] = "idle" /\ calls[c] < MaxCalls[c]
  /\ calls' = [calls EXCEPT ![c] = @ + 1]
  /\ locals' = [locals EXCEPT ![c] = Fresh]
  /\ \/ /\ pc' = [pc EXCEPT ![c] = "lock"]
        /\ in_call' = in_call \cup {c}
        /\ stage' = [stage EXCEPT ![i] = "started"]
        /\ answer' = [answer EXCEPT ![i] = Promise("pending")]
     \/ /\ answer' = [answer EXCEPT ![i] = Promise("no thread")]
        /\ UNCHANGED <<pc, in_call, stage>>
  /\ UNCHANGED strays

\* wait_for with mtx locked, up to the sleep, and after each wake-up.
LookDone(c) ==
  /\ Up /\ pc[c] = "lock" /\ locals[c].mtx = NoThread
  /\ pc' = [pc EXCEPT ![c] = IF locals[c].done THEN "join" ELSE "asleep"]
  /\ locals' = [locals EXCEPT ![c].notified = FALSE]
  /\ UNCHANGED <<calls, in_call, stage, answer, strays>>

WakeUp(c) ==
  /\ Up /\ pc[c] = "asleep" /\ locals[c].notified
  /\ pc' = [pc EXCEPT ![c] = "lock"]
  /\ UNCHANGED <<calls, locals, in_call, stage, answer, strays>>

SpuriousWakeUp(c) ==
  /\ Up /\ pc[c] = "asleep"
  /\ pc' = [pc EXCEPT ![c] = "lock"]
  /\ UNCHANGED <<calls, locals, in_call, stage, answer, strays>>

\* The call is over: its frame is gone, and so is the task with func.
Return(c, promise) ==
  /\ answer' = [answer EXCEPT ![Current(c)] = promise]
  /\ in_call' = in_call \ {c}
  /\ pc' = [pc EXCEPT ![c] = "idle"]

\* A faulty variant: the deadline is looked at after a notification only.
DeadlineWhenNotified(c) ==
  /\ Up /\ pc[c] = "asleep" /\ locals[c].mtx = NoThread /\ locals[c].notified
  /\ IF locals[c].done
     THEN pc' = [pc EXCEPT ![c] = "join"] /\ UNCHANGED <<in_call, answer>>
     ELSE Return(c, Promise("timeout"))
  /\ UNCHANGED <<calls, locals, stage, strays>>

\* The deadline has passed, in the sleep or around it: done is looked at once
\* more, under mtx.
\* TimedOut detaches the thread and becomes the exception of the promise.
Deadline(c) ==
  /\ Up /\ pc[c] \in {"lock", "asleep"} /\ locals[c].mtx = NoThread
  /\ IF locals[c].done
     THEN pc' = [pc EXCEPT ![c] = "join"] /\ UNCHANGED <<in_call, answer>>
     ELSE Return(c, Promise("timeout"))
  /\ UNCHANGED <<calls, locals, stage, strays>>

\* A faulty variant: the thread is not waited for.
ReturnEarly(c) ==
  /\ Up /\ pc[c] = "join"
  /\ Return(c, Value(locals[c].result))
  /\ UNCHANGED <<calls, locals, stage, strays>>

Join(c) ==
  /\ Up /\ pc[c] = "join" /\ stage[Current(c)] = "ended"
  /\ Return(c, Value(locals[c].result))
  /\ UNCHANGED <<calls, locals, stage, strays>>

-----------------------------------------------------------------------------
(* The thread of call i.                                                   *)

CallerOf(i) == i[1]

\* The thread is at its stage "from", and the frame it works on is that of its
\* own call, or the thread is a stray.
Step(i, from, to) ==
  /\ Up /\ stage[i] = from /\ at[i] = "out"
  /\ stage' = [stage EXCEPT ![i] = to]
  /\ strays' = IF CallerOf(i) \in in_call /\ Current(CallerOf(i)) = i
               THEN strays ELSE strays \cup {i}
  /\ UNCHANGED <<calls, pc, in_call, answer>>

\* std::invoke reads this->func.
Invoke(i) == Step(i, "started", "runs") /\ UNCHANGED locals

\* The function returns, when it does; result is written without mtx.
WriteResult(i) ==
  /\ Step(i, "runs", "has result")
  /\ locals' = [locals EXCEPT ![CallerOf(i)].result = i[2]]

\* The function throws, or ends the process as a failed assertion does.
EndInside(i) ==
  /\ stage[i] = "runs"
  /\ Terminate(i) \/ Exit(i) \/ QuickExit(i) \/ QuickExitAgain(i)
  /\ UNCHANGED timedVars

LockMtx(i) ==
  /\ locals[CallerOf(i)].mtx = NoThread
  /\ Step(i, "has result", "locked")
  /\ locals' = [locals EXCEPT ![CallerOf(i)].mtx = i]

\* A mutex that is gone may look locked for good.
LockDead(i) ==
  /\ CallerOf(i) \notin in_call
  /\ Step(i, "has result", "stuck")
  /\ UNCHANGED locals

\* done is set and mtx unlocked, also when it is another frame's by now.
SetDone(i) ==
  /\ Step(i, "locked", "unlocked")
  /\ locals' = [locals EXCEPT ![CallerOf(i)].done = TRUE, ![CallerOf(i)].mtx = NoThread]

\* notify_one, after the unlock.
Notify(i) ==
  /\ Step(i, "unlocked", "ended")
  /\ locals' = [locals EXCEPT ![CallerOf(i)].notified = pc[CallerOf(i)] = "asleep"]

-----------------------------------------------------------------------------
CallerStep(c) ==
  \/ BeginCall(c) \/ LookDone(c) \/ WakeUp(c) \/ SpuriousWakeUp(c) \/ Deadline(c) \/ Join(c)

ThreadStep(i) ==
  \/ Invoke(i) \/ WriteResult(i) \/ LockMtx(i) \/ LockDead(i) \/ SetDone(i) \/ Notify(i)

EndStep ==
  \/ \E t \in Client :
       \/ Exit(t) \/ QuickExit(t) \/ QuickExitAgain(t)
       \/ \E kind \in Kind : AddDestructor(t, kind)
  \/ \E t \in Thread : End(t) \/ Crash(t)

Next ==
  \/ \E c \in Caller : CallerStep(c)
  \/ \E i \in Call : ThreadStep(i) \/ EndInside(i)
  \/ EndStep /\ UNCHANGED timedVars

Spec == Init /\ [][Next]_vars

\* A thread goes on with a call, or with the end of the process, and a deadline
\* passes.  Weak fairness does: each thread locks a mutex a few times only.
\* Nothing makes a caller call, a function return or throw, or a client end the
\* process.
Fairness ==
  /\ \A c \in Caller : WF_vars(Join(c)) /\ WF_vars(Deadline(c))
  /\ \A i \in Call : WF_vars(Invoke(i) \/ LockMtx(i) \/ SetDone(i) \/ Notify(i))
  /\ \A t \in Thread : WF_vars(End(t) /\ UNCHANGED timedVars)

FairSpec == Spec /\ Fairness

-----------------------------------------------------------------------------
(* Properties *)

TimedTypeOK ==
  /\ calls \in [Caller -> Nat] /\ \A c \in Caller : calls[c] <= MaxCalls[c]
  /\ pc \in [Caller -> {"idle", "lock", "asleep", "join"}]
  /\ \A c \in Caller : locals[c].mtx \in Call \cup {NoThread}
  /\ in_call = {c \in Caller : pc[c] # "idle"}
  /\ strays \in SUBSET Call

\* A value that a promise gets is the value of its own call, or that of an
\* earlier call of the same worker that was given up and came back late.
ValuesAreOwn ==
  \A i \in Call :
    LET v == answer[i].value IN
    answer[i].is = "value" =>
      v = i[2] \/ (v \in 1 .. i[2] - 1 /\ answer[<<i[1], v>>].is = "timeout")

\* Only the thread of a call that timed out touches memory of a call that is
\* over: the join keeps every other frame alive through the notification.
StraysTimedOut == \A i \in strays : answer[i].is = "timeout"

\* A call that returns in time is answered by its own function, and leaves no
\* thread behind that could answer another.
AnswersAreOwn == TimedTypeOK /\ ValuesAreOwn /\ StraysTimedOut

\* The deadline of a call holds, however long its function takes: unless a
\* stray says "done" in its place, when the call waits for its own thread.
CallsAreAnswered ==
  \A i \in Call :
    answer[i].is = "pending" ~>
      \/ answer[i].is # "pending"
      \/ process # "up"
      \/ \E j \in strays : j[1] = i[1] /\ j[2] < i[2]
=============================================================================
