--------------------------- MODULE TimedTaskProofs ---------------------------
(***************************************************************************)
(* Proofs about TimedTask, for any set of callers and clients, any number  *)
(* of calls, and whatever ways the process ends in meanwhile; and about    *)
(* ProcessEnd, as TimedTask uses it.                                       *)
(***************************************************************************)
EXTENDS TimedTask, FiniteSetTheorems, TLAPS

Stage == {"none", "started", "runs", "has result", "locked", "stuck", "unlocked", "ended"}
Answer == [is : {"none", "pending", "value", "timeout", "no thread"}, value : Nat]
Locals == [mtx : Call \cup {NoThread}, done : BOOLEAN, result : Nat, notified : BOOLEAN]

\* A caller is in the call that it made last.
CallsTypeOK ==
  /\ calls \in [Caller -> Nat]
  /\ \A c \in Caller : calls[c] <= MaxCalls[c] /\ (c \in in_call => calls[c] >= 1)
  /\ pc \in [Caller -> {"idle", "lock", "asleep", "join"}]
  /\ in_call \subseteq Caller
  /\ \A c \in Caller : c \in in_call <=> pc[c] # "idle"

FramesTypeOK ==
  /\ locals \in [Caller -> Locals]
  /\ stage \in [Call -> Stage]
  /\ answer \in [Call -> Answer]
  /\ strays \in SUBSET Call

\* A call is to come, or the caller is inside of it, or it is over.
Phase(i) ==
  IF i[2] > calls[i[1]] THEN "to come"
  ELSE IF i[2] = calls[i[1]] /\ i[1] \in in_call THEN "inside" ELSE "over"

\* What the promise of a call says of its thread: it is pending as long as the
\* caller is inside, and only a timeout leaves a thread on its way.
Kept(i) ==
  /\ Phase(i) = "to come" => stage[i] = "none" /\ answer[i].is = "none"
  /\ Phase(i) = "inside" => stage[i] # "none" /\ answer[i].is = "pending"
  /\ Phase(i) = "over" => answer[i].is \in {"value", "timeout", "no thread"}
  /\ answer[i].is = "value" => stage[i] = "ended"
  /\ answer[i].is = "no thread" => stage[i] = "none"
PromisesAreKept == \A i \in Call : Kept(i)

\* What a call reads as its result, when it is not its own, is from a call of
\* the same worker that was given up.
Own(c, v) ==
  v = calls[c] \/ (v \in 1 .. calls[c] - 1 /\ answer[<<c, v>>].is = "timeout")
ResultsAreOwn ==
  \A c \in Caller : locals[c].result # Nothing => Own(c, locals[c].result)

\* A thread that wrote its result, in the frame of its own call, left something.
ResultsAreThere ==
  \A c \in in_call :
    stage[Current(c)] \notin {"started", "runs"} => locals[c].result # Nothing

\* The inductive invariant.
AnswersIInv ==
  /\ CallsTypeOK /\ FramesTypeOK
  /\ PromisesAreKept /\ ResultsAreOwn /\ ResultsAreThere
  /\ ValuesAreOwn /\ StraysTimedOut

----------------------------------------------------------------------------
\* A call is a caller and a number, and two calls differ in one of them.
LEMMA CallParts ==
  ASSUME NEW i \in Call
  PROVE  /\ i[1] \in Caller /\ i[2] \in Nat /\ i = <<i[1], i[2]>>
         /\ i[2] >= 1 /\ i[2] <= MaxCalls[i[1]]
<1>1. PICK c \in Caller : i \in {<<c, k>> : k \in 1 .. MaxCalls[c]}
  BY DEF Call
<1>2. PICK k \in 1 .. MaxCalls[c] : i = <<c, k>>
  BY <1>1
<1> QED
  BY <1>2, TimedAssumption

\* A caller and a number make a call.
LEMMA PairIsCall ==
  ASSUME NEW c \in Caller, NEW k \in Nat, k >= 1, k <= MaxCalls[c]
  PROVE  /\ <<c, k>> \in Call /\ <<c, k>>[1] = c /\ <<c, k>>[2] = k
         /\ \A i \in Call : i = <<c, k>> <=> i[1] = c /\ i[2] = k
<1>1. <<c, k>> \in {<<c, n>> : n \in 1 .. MaxCalls[c]}
  BY TimedAssumption
<1>2. <<c, k>> \in Call
  BY <1>1 DEF Call
<1> QED
  BY <1>2, CallParts

\* What the steps of the end of the process leave alone is all of this.
LEMMA OtherSteps ==
  ASSUME AnswersIInv, UNCHANGED timedVars
  PROVE  AnswersIInv'
<1> USE DEF AnswersIInv, timedVars
<1>1. CallsTypeOK' /\ FramesTypeOK'
  BY DEF CallsTypeOK, FramesTypeOK
<1>2. PromisesAreKept'
  BY DEF PromisesAreKept, Kept, Phase
<1>3. ResultsAreOwn' /\ ResultsAreThere'
  BY DEF ResultsAreOwn, ResultsAreThere, Own, Current
<1>4. ValuesAreOwn' /\ StraysTimedOut'
  BY DEF ValuesAreOwn, StraysTimedOut
<1> QED
  BY <1>1, <1>2, <1>3, <1>4

\* The inductive invariant holds initially.
LEMMA AnswersInit == Init => AnswersIInv
<1> SUFFICES ASSUME Init PROVE AnswersIInv
  OBVIOUS
<1>1. CallsTypeOK
  BY TimedAssumption DEF Init, CallsTypeOK
<1>2. FramesTypeOK
  BY DEF Init, FramesTypeOK, Stage, Answer, Locals, Promise, Nothing, Fresh
<1>3. /\ in_call = {} /\ strays = {}
      /\ \A c \in Caller : calls[c] = 0 /\ locals[c].result = Nothing
      /\ \A i \in Call : stage[i] = "none" /\ answer[i].is = "none"
  BY DEF Init, Promise, Fresh
<1>4. PromisesAreKept
  <2> SUFFICES ASSUME NEW i \in Call PROVE Kept(i)
    BY DEF PromisesAreKept
  <2>1. Phase(i) = "to come"
    BY <1>3, CallParts DEF Phase
  <2>2. stage[i] = "none" /\ answer[i].is = "none"
    BY <1>3
  <2> QED
    BY <2>1, <2>2 DEF Kept
<1>5. ResultsAreOwn /\ ResultsAreThere
  BY <1>3 DEF ResultsAreOwn, ResultsAreThere
<1>6. ValuesAreOwn /\ StraysTimedOut
  BY <1>3 DEF ValuesAreOwn, StraysTimedOut
<1> QED
  BY <1>1, <1>2, <1>4, <1>5, <1>6 DEF AnswersIInv

\* A call begins: what its promise and its thread were is nothing so far.
LEMMA CallBegins ==
  ASSUME AnswersIInv, NEW c \in Caller, BeginCall(c)
  PROVE  AnswersIInv'
<1> DEFINE k == calls[c] + 1
           i == <<c, k>>
<1>1. /\ k \in Nat /\ k >= 1 /\ k <= MaxCalls[c] /\ c \notin in_call
      /\ calls[c] \in Nat
  <2>1. calls[c] < MaxCalls[c] /\ pc[c] = "idle"
    BY DEF BeginCall
  <2> QED
    BY <2>1, TimedAssumption DEF AnswersIInv, CallsTypeOK
<1>2. /\ i \in Call /\ i[1] = c /\ i[2] = k
      /\ \A j \in Call : j = i <=> j[1] = c /\ j[2] = k
  BY <1>1, PairIsCall
<1>3. stage[i] = "none" /\ answer[i].is = "none"
  <2>1. Kept(i) /\ Phase(i) = "to come"
    BY <1>1, <1>2 DEF AnswersIInv, PromisesAreKept, Phase
  <2> QED
    BY <2>1 DEF Kept
<1>4. /\ calls' = [calls EXCEPT ![c] = k] /\ strays' = strays
      /\ locals' = [locals EXCEPT ![c] = Fresh]
  BY DEF BeginCall
<1>5. \/ /\ pc' = [pc EXCEPT ![c] = "lock"]
         /\ in_call' = in_call \cup {c}
         /\ stage' = [stage EXCEPT ![i] = "started"]
         /\ answer' = [answer EXCEPT ![i] = Promise("pending")]
      \/ /\ answer' = [answer EXCEPT ![i] = Promise("no thread")]
         /\ pc' = pc /\ in_call' = in_call /\ stage' = stage
  BY DEF BeginCall
<1>6. k = calls[c] + 1
  OBVIOUS
<1> HIDE DEF k, i
<1>7. CallsTypeOK'
  BY <1>1, <1>4, <1>5 DEF AnswersIInv, CallsTypeOK
<1>8. /\ Promise("pending") \in Answer /\ Promise("no thread") \in Answer
      /\ Fresh \in Locals /\ Fresh.result = Nothing
  BY DEF Answer, Locals, Fresh, Nothing, Promise
<1>9. FramesTypeOK'
  BY <1>2, <1>4, <1>5, <1>8 DEF AnswersIInv, FramesTypeOK, Stage
\* What is left alone, and what is new.
<1>10. ASSUME NEW j \in Call, j # i
       PROVE  stage'[j] = stage[j] /\ answer'[j] = answer[j]
  BY <1>5, <1>10 DEF AnswersIInv, FramesTypeOK
<1>11. ASSUME NEW d \in Caller, d # c
       PROVE  calls'[d] = calls[d] /\ locals'[d] = locals[d] /\ (d \in in_call' <=> d \in in_call)
  BY <1>4, <1>5, <1>11 DEF AnswersIInv, FramesTypeOK, CallsTypeOK
<1>12. calls'[c] = k /\ locals'[c].result = Nothing
  BY <1>4, <1>8 DEF AnswersIInv, FramesTypeOK, CallsTypeOK
<1>13. \/ c \in in_call' /\ answer'[i].is = "pending" /\ stage'[i] = "started"
       \/ c \notin in_call' /\ answer'[i].is = "no thread" /\ stage'[i] = "none"
  <2>1. CASE /\ in_call' = in_call \cup {c}
             /\ stage' = [stage EXCEPT ![i] = "started"]
             /\ answer' = [answer EXCEPT ![i] = Promise("pending")]
    BY <1>2, <2>1 DEF AnswersIInv, FramesTypeOK, Promise
  <2>2. CASE /\ answer' = [answer EXCEPT ![i] = Promise("no thread")]
             /\ in_call' = in_call /\ stage' = stage
    BY <1>1, <1>2, <1>3, <2>2 DEF AnswersIInv, FramesTypeOK, Promise
  <2> QED
    BY <1>5, <2>1, <2>2
<1>14. PromisesAreKept'
  <2> SUFFICES ASSUME NEW j \in Call PROVE Kept(j)'
    BY DEF PromisesAreKept
  <2>1. j[1] \in Caller /\ j[2] \in Nat /\ Kept(j) /\ calls[j[1]] \in Nat
    BY CallParts DEF AnswersIInv, PromisesAreKept, CallsTypeOK
  <2>2. CASE j = i
    <3>1. i[1] = c /\ i[2] = k /\ calls'[c] = k /\ k \in Nat
      BY <1>1, <1>2, <1>12
    <3>2. j[1] = c /\ j[2] = calls'[j[1]] /\ ~(j[2] > calls'[j[1]])
      BY <2>2, <3>1
    <3>3. CASE c \in in_call'
      <4>1. Phase(j)' = "inside"
        BY <3>2, <3>3 DEF Phase
      <4> QED
        BY <1>13, <2>2, <3>3, <4>1 DEF Kept
    <3>4. CASE c \notin in_call'
      <4>1. Phase(j)' = "over"
        BY <3>2, <3>4 DEF Phase
      <4> QED
        BY <1>13, <2>2, <3>4, <4>1 DEF Kept
    <3> QED
      BY <3>3, <3>4
  <2>3. CASE j # i
    <3>1. stage'[j] = stage[j] /\ answer'[j] = answer[j]
      BY <1>10, <2>3
    <3>2. ASSUME j[1] # c PROVE Phase(j)' = Phase(j)
      BY <1>11, <2>1, <3>2 DEF Phase
    <3>3. ASSUME j[1] = c PROVE Phase(j)' = Phase(j)
      <4>1. /\ j[2] # k /\ calls'[j[1]] = k /\ calls[j[1]] = k - 1
            /\ j[2] \in Nat /\ k \in Nat /\ j[1] \notin in_call
        BY <1>1, <1>2, <1>6, <1>12, <2>1, <2>3, <3>3
      <4>2. j[2] > k <=> j[2] > k - 1
        BY <4>1
      <4> QED
        BY <4>1, <4>2 DEF Phase
    <3>4. Phase(j)' = Phase(j)
      BY <3>2, <3>3
    <3> QED
      BY <2>1, <3>1, <3>4 DEF Kept
  <2> QED
    BY <2>2, <2>3
<1>15. ResultsAreOwn'
  <2> SUFFICES ASSUME NEW d \in Caller, locals'[d].result # Nothing
               PROVE  Own(d, locals[d].result)'
    BY DEF ResultsAreOwn
  <2>1. d # c /\ locals'[d] = locals[d] /\ calls'[d] = calls[d]
    BY <1>11, <1>12
  <2>2. Own(d, locals[d].result)
    BY <2>1 DEF AnswersIInv, ResultsAreOwn
  <2>3. <<d, locals[d].result>> # i
    BY <2>1 DEF i
  <2>4. CASE locals[d].result = calls[d]
    BY <2>1, <2>4 DEF Own
  <2>5. CASE locals[d].result \in 1 .. calls[d] - 1
    <3>1. <<d, locals[d].result>> \in Call
      BY <2>5, PairIsCall, TimedAssumption DEF AnswersIInv, CallsTypeOK
    <3>2. answer'[<<d, locals[d].result>>] = answer[<<d, locals[d].result>>]
      BY <1>10, <2>3, <3>1
    <3> QED
      BY <2>1, <2>2, <3>2 DEF Own
  <2> QED
    BY <2>2, <2>4, <2>5 DEF Own
<1>16. ResultsAreThere'
  <2> SUFFICES ASSUME NEW d \in in_call', stage'[Current(d)'] \notin {"started", "runs"}
               PROVE  locals'[d].result # Nothing
    BY DEF ResultsAreThere
  <2>1. d \in Caller
    BY <1>7 DEF CallsTypeOK
  <2>2. d # c
    BY <1>12, <1>13 DEF Current, i
  <2>3. Current(d) = Current(d)' /\ d \in in_call /\ locals'[d] = locals[d]
    BY <1>11, <2>1, <2>2 DEF Current
  <2>4. Current(d) \in Call /\ Current(d) # i
    BY <2>1, <2>2, <2>3, PairIsCall, TimedAssumption DEF AnswersIInv, CallsTypeOK, Current, i
  <2> QED
    BY <1>10, <2>3, <2>4 DEF AnswersIInv, ResultsAreThere
<1>17. ValuesAreOwn'
  <2> SUFFICES ASSUME NEW j \in Call, answer'[j].is = "value"
               PROVE  LET v == answer'[j].value IN
                        v = j[2] \/ (v \in 1 .. j[2] - 1 /\ answer'[<<j[1], v>>].is = "timeout")
    BY DEF ValuesAreOwn
  <2> DEFINE v == answer[j].value
  <2>1. j # i /\ answer'[j] = answer[j]
    BY <1>10, <1>13
  <2>2. v = j[2] \/ (v \in 1 .. j[2] - 1 /\ answer[<<j[1], v>>].is = "timeout")
    BY <2>1 DEF AnswersIInv, ValuesAreOwn
  <2>3. CASE v \in 1 .. j[2] - 1 /\ answer[<<j[1], v>>].is = "timeout"
    <3>1. <<j[1], v>> \in Call
      <4>1. j[1] \in Caller /\ j[2] \in Nat /\ j[2] <= MaxCalls[j[1]]
        BY CallParts
      <4> QED
        BY <2>3, <4>1, PairIsCall, TimedAssumption
    <3>2. <<j[1], v>> # i
      BY <1>3, <2>3
    <3> QED
      BY <1>10, <2>1, <2>3, <3>1, <3>2
  <2> QED
    BY <2>1, <2>2, <2>3
<1>18. StraysTimedOut'
  <2> SUFFICES ASSUME NEW j \in strays PROVE answer'[j].is = "timeout"
    BY <1>4 DEF StraysTimedOut
  <2>1. j \in Call /\ answer[j].is = "timeout" /\ j # i
    BY <1>3 DEF AnswersIInv, StraysTimedOut, FramesTypeOK
  <2> QED
    BY <1>10, <2>1
<1> QED
  BY <1>7, <1>9, <1>14, <1>15, <1>16, <1>17, <1>18 DEF AnswersIInv

\* A thread takes a step: what it writes into the frame of its caller is its
\* own result, and one that works on a dead frame was given up.
LEMMA ThreadSteps ==
  ASSUME AnswersIInv, NEW i \in Call, NEW from \in Stage, NEW to \in Stage,
         from \notin {"none", "ended"}, to # "none", from = "started" => to = "runs",
         Step(i, from, to),
         locals' \in [Caller -> Locals],
         \A d \in Caller : d # i[1] => locals'[d] = locals[d],
         locals'[i[1]].result = IF from = "runs" THEN i[2] ELSE locals[i[1]].result
  PROVE  AnswersIInv'
<1> DEFINE c == i[1]
<1>1. /\ stage[i] = from /\ stage' = [stage EXCEPT ![i] = to]
      /\ strays' = IF c \in in_call /\ Current(c) = i THEN strays ELSE strays \cup {i}
      /\ calls' = calls /\ pc' = pc /\ in_call' = in_call /\ answer' = answer
  BY DEF Step, CallerOf
<1>2. /\ c \in Caller /\ i[2] \in Nat /\ i[2] >= 1 /\ i = <<c, i[2]>>
      /\ calls[c] \in Nat
  BY CallParts DEF AnswersIInv, CallsTypeOK
<1>3. Kept(i)
  BY DEF AnswersIInv, PromisesAreKept
<1>4. /\ stage'[i] = to
      /\ \A j \in Call : j # i => stage'[j] = stage[j]
  BY <1>1 DEF AnswersIInv, FramesTypeOK
\* The call of the thread is over only by a timeout.
<1>5. Phase(i) = "inside" \/ (Phase(i) = "over" /\ answer[i].is = "timeout")
  BY <1>1, <1>3 DEF Kept, Phase
<1>6. CallsTypeOK'
  BY <1>1 DEF AnswersIInv, CallsTypeOK
<1>7. FramesTypeOK'
  BY <1>1 DEF AnswersIInv, FramesTypeOK
<1>8. PromisesAreKept'
  <2> SUFFICES ASSUME NEW j \in Call PROVE Kept(j)'
    BY DEF PromisesAreKept
  <2>1. Phase(j)' = Phase(j) /\ answer'[j] = answer[j] /\ Kept(j)
    BY <1>1 DEF Phase, AnswersIInv, PromisesAreKept
  <2>2. CASE j = i
    <3>1. answer[i].is \in {"pending", "timeout"}
      BY <1>3, <1>5 DEF Kept
    <3> QED
      BY <1>3, <1>4, <2>1, <2>2, <3>1 DEF Kept
  <2>3. CASE j # i
    BY <1>4, <2>1, <2>3 DEF Kept
  <2> QED
    BY <2>2, <2>3
<1>9. ResultsAreOwn'
  <2> SUFFICES ASSUME NEW d \in Caller, locals'[d].result # Nothing
               PROVE  Own(d, locals'[d].result)
    BY <1>1 DEF ResultsAreOwn, Own
  <2>1. CASE locals'[d].result = locals[d].result
    BY <2>1 DEF AnswersIInv, ResultsAreOwn
  <2>2. CASE d = c /\ from = "runs"
    <3>1. locals'[d].result = i[2]
      BY <2>2
    <3>2. i[2] = calls[c] \/ (i[2] < calls[c] /\ answer[i].is = "timeout")
      BY <1>2, <1>5 DEF Phase
    <3> QED
      BY <1>2, <2>2, <3>1, <3>2 DEF Own
  <2> QED
    BY <2>1, <2>2
<1>10. ResultsAreThere'
  <2> SUFFICES ASSUME NEW d \in in_call, stage'[Current(d)] \notin {"started", "runs"}
               PROVE  locals'[d].result # Nothing
    BY <1>1 DEF ResultsAreThere, Current
  <2>1. /\ d \in Caller /\ Current(d) \in Call
        /\ stage[Current(d)] \notin {"started", "runs"} => locals[d].result # Nothing
    BY PairIsCall, TimedAssumption DEF AnswersIInv, CallsTypeOK, ResultsAreThere, Current
  <2>2. CASE d = c /\ from = "runs"
    BY <1>2, <2>2 DEF Nothing
  <2>3. CASE d # c \/ from # "runs"
    <3>1. locals'[d].result = locals[d].result
      BY <2>1, <2>3
    <3>2. CASE Current(d) = i
      BY <1>1, <1>2, <1>4, <2>1, <2>3, <3>1, <3>2 DEF Current
    <3>3. CASE Current(d) # i
      BY <1>4, <2>1, <3>1, <3>3
    <3> QED
      BY <3>2, <3>3
  <2> QED
    BY <2>2, <2>3
<1>11. ValuesAreOwn'
  BY <1>1 DEF AnswersIInv, ValuesAreOwn
<1>12. StraysTimedOut'
  <2>1. ASSUME ~(c \in in_call /\ Current(c) = i) PROVE answer[i].is = "timeout"
    BY <1>2, <1>5, <2>1 DEF Phase, Current
  <2> QED
    BY <1>1, <2>1 DEF AnswersIInv, StraysTimedOut
<1> QED
  BY <1>6, <1>7, <1>8, <1>9, <1>10, <1>11, <1>12 DEF AnswersIInv

\* The caller looks, sleeps or wakes up: its call goes on.
LEMMA CallGoesOn ==
  ASSUME AnswersIInv, NEW c \in in_call,
         UNCHANGED <<calls, in_call, stage, answer, strays>>,
         pc' \in [Caller -> {"idle", "lock", "asleep", "join"}],
         \A d \in Caller : pc'[d] = "idle" <=> pc[d] = "idle",
         locals' \in [Caller -> Locals],
         \A d \in Caller : locals'[d].result = locals[d].result
  PROVE  AnswersIInv'
<1>1. CallsTypeOK'
  BY DEF AnswersIInv, CallsTypeOK
<1>2. FramesTypeOK'
  BY DEF AnswersIInv, FramesTypeOK
<1>3. PromisesAreKept'
  BY DEF AnswersIInv, PromisesAreKept, Kept, Phase
<1>4. ResultsAreOwn'
  BY DEF AnswersIInv, ResultsAreOwn, Own
<1>5. ResultsAreThere'
  <2> SUFFICES ASSUME NEW d \in in_call, stage[Current(d)] \notin {"started", "runs"}
               PROVE  locals'[d].result # Nothing
    BY DEF ResultsAreThere, Current
  <2> QED
    BY DEF AnswersIInv, ResultsAreThere, CallsTypeOK
<1>6. ValuesAreOwn' /\ StraysTimedOut'
  BY DEF AnswersIInv, ValuesAreOwn, StraysTimedOut
<1> QED
  BY <1>1, <1>2, <1>3, <1>4, <1>5, <1>6 DEF AnswersIInv

\* A call returns: with the value that was written, behind its thread, or with
\* nothing, at the deadline.
LEMMA CallReturns ==
  ASSUME AnswersIInv, NEW c \in Caller, pc[c] # "idle", NEW p \in Answer, Return(c, p),
         UNCHANGED <<calls, locals, stage, strays>>,
         \/ p.is = "timeout"
         \/ p.is = "value" /\ p.value = locals[c].result /\ stage[Current(c)] = "ended"
  PROVE  AnswersIInv'
<1> DEFINE i == Current(c)
<1>1. /\ answer' = [answer EXCEPT ![i] = p]
      /\ in_call' = in_call \ {c} /\ pc' = [pc EXCEPT ![c] = "idle"]
  BY DEF Return
<1>2. c \in in_call /\ calls[c] \in Nat /\ calls[c] >= 1 /\ calls[c] <= MaxCalls[c]
  BY DEF AnswersIInv, CallsTypeOK
<1>3. /\ i \in Call /\ i[1] = c /\ i[2] = calls[c] /\ i = <<c, calls[c]>>
      /\ \A j \in Call : j = i <=> j[1] = c /\ j[2] = calls[c]
  BY <1>2, PairIsCall DEF Current
<1> HIDE DEF i
<1>4. answer[i].is = "pending" /\ stage[i] # "none"
  <2>1. Phase(i) = "inside"
    BY <1>2, <1>3 DEF Phase
  <2> QED
    BY <1>3, <2>1 DEF AnswersIInv, PromisesAreKept, Kept
<1>5. CallsTypeOK'
  BY <1>1 DEF AnswersIInv, CallsTypeOK
<1>6. FramesTypeOK'
  BY <1>1 DEF AnswersIInv, FramesTypeOK
<1>7. /\ answer'[i] = p
      /\ \A j \in Call : j # i => answer'[j] = answer[j]
      /\ \A j \in Call : answer[j].is = "timeout" => answer'[j].is = "timeout"
  BY <1>1, <1>3, <1>4 DEF AnswersIInv, FramesTypeOK
<1>8. PromisesAreKept'
  <2> SUFFICES ASSUME NEW j \in Call PROVE Kept(j)'
    BY DEF PromisesAreKept
  <2>1. Kept(j)
    BY DEF AnswersIInv, PromisesAreKept
  <2>2. CASE j = i
    <3>1. Phase(j)' = "over"
      BY <1>1, <1>2, <1>3, <2>2 DEF Phase
    <3> QED
      BY <1>7, <2>2, <3>1 DEF Kept, i
  <2>3. CASE j # i
    <3>1. Phase(j)' = Phase(j)
      BY <1>1, <1>3, <2>3 DEF Phase
    <3> QED
      BY <1>7, <2>1, <2>3, <3>1 DEF Kept
  <2> QED
    BY <2>2, <2>3
<1>9. ResultsAreOwn'
  <2> SUFFICES ASSUME NEW d \in Caller, locals[d].result # Nothing
               PROVE  Own(d, locals[d].result)'
    BY DEF ResultsAreOwn
  <2>1. Own(d, locals[d].result)
    BY DEF AnswersIInv, ResultsAreOwn
  <2>2. CASE locals[d].result = calls[d]
    BY <2>2 DEF Own
  <2>3. CASE locals[d].result \in 1 .. calls[d] - 1 /\ answer[<<d, locals[d].result>>].is = "timeout"
    <3>1. <<d, locals[d].result>> \in Call
      BY <2>3, PairIsCall, TimedAssumption DEF AnswersIInv, CallsTypeOK
    <3> QED
      BY <1>7, <2>3, <3>1 DEF Own
  <2> QED
    BY <2>1, <2>2, <2>3 DEF Own
<1>10. ResultsAreThere'
  BY <1>1 DEF AnswersIInv, ResultsAreThere, Current
<1>11. ValuesAreOwn'
  <2> SUFFICES ASSUME NEW j \in Call, answer'[j].is = "value"
               PROVE  LET v == answer'[j].value IN
                        v = j[2] \/ (v \in 1 .. j[2] - 1 /\ answer'[<<j[1], v>>].is = "timeout")
    BY DEF ValuesAreOwn
  <2> DEFINE v == answer'[j].value
  <2>1. v = j[2] \/ (v \in 1 .. j[2] - 1 /\ answer[<<j[1], v>>].is = "timeout")
    <3>1. CASE j # i
      BY <1>7, <3>1 DEF AnswersIInv, ValuesAreOwn
    <3>2. CASE j = i
      <4>1. v = locals[c].result /\ stage[i] = "ended"
        BY <1>7, <3>2 DEF i
      <4>2. locals[c].result # Nothing
        BY <1>2, <4>1 DEF AnswersIInv, ResultsAreThere, i
      <4> QED
        BY <1>3, <3>2, <4>1, <4>2 DEF AnswersIInv, ResultsAreOwn, Own
    <3> QED
      BY <3>1, <3>2
  <2>2. CASE v \in 1 .. j[2] - 1 /\ answer[<<j[1], v>>].is = "timeout"
    <3>1. j[1] \in Caller /\ j[2] \in Nat /\ j[2] <= MaxCalls[j[1]]
      BY CallParts
    <3>2. <<j[1], v>> \in Call
      BY <2>2, <3>1, PairIsCall, TimedAssumption
    <3> QED
      BY <1>7, <2>2, <3>2
  <2> QED
    BY <2>1, <2>2
<1>12. StraysTimedOut'
  BY <1>7 DEF AnswersIInv, StraysTimedOut, FramesTypeOK
<1> QED
  BY <1>5, <1>6, <1>8, <1>9, <1>10, <1>11, <1>12 DEF AnswersIInv

\* Every step of a caller preserves the inductive invariant.
LEMMA CallerSteps ==
  ASSUME AnswersIInv, NEW c \in Caller, CallerStep(c)
  PROVE  AnswersIInv'
<1> USE DEF Up
<1>1. CASE BeginCall(c)
  BY <1>1, CallBegins
<1>2. CASE LookDone(c)
  <2>1. /\ pc[c] = "lock" /\ locals' = [locals EXCEPT ![c].notified = FALSE]
        /\ pc' = [pc EXCEPT ![c] = IF locals[c].done THEN "join" ELSE "asleep"]
        /\ UNCHANGED <<calls, in_call, stage, answer, strays>>
    BY <1>2 DEF LookDone
  <2>2. c \in in_call /\ locals' \in [Caller -> Locals]
        /\ \A d \in Caller : locals'[d].result = locals[d].result
    BY <2>1 DEF AnswersIInv, CallsTypeOK, FramesTypeOK, Locals
  <2>3. /\ pc' \in [Caller -> {"idle", "lock", "asleep", "join"}]
        /\ \A d \in Caller : pc'[d] = "idle" <=> pc[d] = "idle"
    BY <2>1 DEF AnswersIInv, CallsTypeOK
  <2> QED
    BY <2>1, <2>2, <2>3, CallGoesOn
<1>3. CASE WakeUp(c) \/ SpuriousWakeUp(c)
  <2>1. /\ pc[c] = "asleep" /\ pc' = [pc EXCEPT ![c] = "lock"]
        /\ UNCHANGED <<calls, locals, in_call, stage, answer, strays>>
    BY <1>3 DEF WakeUp, SpuriousWakeUp
  <2>2. c \in in_call /\ locals' \in [Caller -> Locals]
    BY <2>1 DEF AnswersIInv, CallsTypeOK, FramesTypeOK
  <2>3. /\ pc' \in [Caller -> {"idle", "lock", "asleep", "join"}]
        /\ \A d \in Caller : pc'[d] = "idle" <=> pc[d] = "idle"
    BY <2>1 DEF AnswersIInv, CallsTypeOK
  <2> QED
    BY <2>1, <2>2, <2>3, CallGoesOn
<1>4. CASE Deadline(c)
  <2>1. /\ pc[c] \in {"lock", "asleep"} /\ UNCHANGED <<calls, locals, stage, strays>>
        /\ \/ pc' = [pc EXCEPT ![c] = "join"] /\ UNCHANGED <<in_call, answer>>
           \/ Return(c, Promise("timeout"))
    BY <1>4 DEF Deadline
  <2>2. CASE pc' = [pc EXCEPT ![c] = "join"] /\ UNCHANGED <<in_call, answer>>
    <3>1. c \in in_call /\ locals' \in [Caller -> Locals]
      BY <2>1 DEF AnswersIInv, CallsTypeOK, FramesTypeOK
    <3>2. /\ pc' \in [Caller -> {"idle", "lock", "asleep", "join"}]
          /\ \A d \in Caller : pc'[d] = "idle" <=> pc[d] = "idle"
      BY <2>1, <2>2 DEF AnswersIInv, CallsTypeOK
    <3> QED
      BY <2>1, <2>2, <3>1, <3>2, CallGoesOn
  <2>3. CASE Return(c, Promise("timeout"))
    <3>1. Promise("timeout") \in Answer /\ Promise("timeout").is = "timeout"
      BY DEF Promise, Answer, Nothing
    <3> QED
      BY <2>1, <2>3, <3>1, CallReturns
  <2> QED
    BY <2>1, <2>2, <2>3
<1>5. CASE Join(c)
  <2> DEFINE p == Value(locals[c].result)
  <2>1. /\ pc[c] # "idle" /\ stage[Current(c)] = "ended" /\ Return(c, p)
        /\ UNCHANGED <<calls, locals, stage, strays>>
    BY <1>5 DEF Join
  <2>2. p \in Answer /\ p.is = "value" /\ p.value = locals[c].result
    BY DEF Value, Answer, AnswersIInv, FramesTypeOK, Locals
  <2> HIDE DEF p
  <2> QED
    BY <2>1, <2>2, CallReturns
<1> QED
  BY <1>1, <1>2, <1>3, <1>4, <1>5 DEF CallerStep

\* Every step of the thread of a call preserves the inductive invariant.
LEMMA StepsOfThreads ==
  ASSUME AnswersIInv, NEW i \in Call, ThreadStep(i)
  PROVE  AnswersIInv'
<1> DEFINE c == i[1]
<1>1. /\ c \in Caller /\ i[2] \in Nat /\ locals \in [Caller -> Locals]
      /\ CallerOf(i) = c
  BY CallParts DEF AnswersIInv, FramesTypeOK, CallerOf
<1> HIDE DEF c
<1>2. {"started", "runs", "has result", "locked", "stuck", "unlocked", "ended"} \subseteq Stage
  BY DEF Stage
<1>3. CASE Invoke(i)
  <2>1. Step(i, "started", "runs") /\ locals' = locals
    BY <1>3 DEF Invoke
  <2> QED
    BY <1>1, <1>2, <2>1, ThreadSteps
<1>4. CASE WriteResult(i)
  <2>1. Step(i, "runs", "has result") /\ locals' = [locals EXCEPT ![c].result = i[2]]
    BY <1>1, <1>4 DEF WriteResult
  <2>2. /\ locals' \in [Caller -> Locals] /\ locals'[c].result = i[2]
        /\ \A d \in Caller : d # c => locals'[d] = locals[d]
    BY <1>1, <2>1 DEF Locals
  <2> QED
    BY <1>1, <1>2, <2>1, <2>2, ThreadSteps DEF c
<1>5. CASE LockMtx(i)
  <2>1. Step(i, "has result", "locked") /\ locals' = [locals EXCEPT ![c].mtx = i]
    BY <1>1, <1>5 DEF LockMtx
  <2>2. /\ locals' \in [Caller -> Locals] /\ locals'[c].result = locals[c].result
        /\ \A d \in Caller : d # c => locals'[d] = locals[d]
    BY <1>1, <2>1 DEF Locals
  <2> QED
    BY <1>1, <1>2, <2>1, <2>2, ThreadSteps DEF c
<1>6. CASE LockDead(i)
  <2>1. Step(i, "has result", "stuck") /\ locals' = locals
    BY <1>6 DEF LockDead
  <2> QED
    BY <1>1, <1>2, <2>1, ThreadSteps
<1>7. CASE SetDone(i)
  <2> DEFINE l == [locals[c] EXCEPT !.done = TRUE, !.mtx = NoThread]
  <2>1. /\ Step(i, "locked", "unlocked")
        /\ locals' = [locals EXCEPT ![c].done = TRUE, ![c].mtx = NoThread]
    BY <1>1, <1>7 DEF SetDone
  <2>2. l \in Locals /\ l.result = locals[c].result
    BY <1>1 DEF Locals
  <2>3. locals' = [locals EXCEPT ![c] = l]
    BY <1>1, <2>1
  <2> HIDE DEF l
  <2>4. /\ locals' \in [Caller -> Locals] /\ locals'[c].result = locals[c].result
        /\ \A d \in Caller : d # c => locals'[d] = locals[d]
    BY <1>1, <2>2, <2>3
  <2> QED
    BY <1>1, <1>2, <2>1, <2>4, ThreadSteps DEF c
<1>8. CASE Notify(i)
  <2> DEFINE asleep == pc[c] = "asleep"
  <2>1. /\ Step(i, "unlocked", "ended")
        /\ locals' = [locals EXCEPT ![c].notified = asleep]
    BY <1>1, <1>8 DEF Notify
  <2>. asleep \in BOOLEAN
    OBVIOUS
  <2> HIDE DEF asleep
  <2>2. /\ locals' \in [Caller -> Locals] /\ locals'[c].result = locals[c].result
        /\ \A d \in Caller : d # c => locals'[d] = locals[d]
    BY <1>1, <2>1 DEF Locals
  <2> QED
    BY <1>1, <1>2, <2>1, <2>2, ThreadSteps DEF c
<1> QED
  BY <1>3, <1>4, <1>5, <1>6, <1>7, <1>8 DEF ThreadStep

\* TimedTask: for any callers, any number of calls and any interleaving with
\* threads that were given up and with the end of the process, a call that is
\* answered with a value got its own or that of an earlier call of the same
\* worker that timed out, and only threads of calls that timed out work on
\* frames that are gone.
THEOREM CallsAreAnsweredByTheirOwn == Spec => []AnswersAreOwn
<1>1. AnswersIInv /\ [Next]_vars => AnswersIInv'
  <2> SUFFICES ASSUME AnswersIInv, [Next]_vars PROVE AnswersIInv'
    OBVIOUS
  <2>1. CASE \E c \in Caller : CallerStep(c)
    BY <2>1, CallerSteps
  <2>2. CASE \E i \in Call : ThreadStep(i) \/ EndInside(i)
    BY <2>2, StepsOfThreads, OtherSteps DEF EndInside
  <2>3. CASE EndStep /\ UNCHANGED timedVars
    BY <2>3, OtherSteps
  <2>4. CASE UNCHANGED vars
    BY <2>4, OtherSteps DEF vars
  <2> QED
    BY <2>1, <2>2, <2>3, <2>4 DEF Next
<1>2. AnswersIInv => AnswersAreOwn
  <2> SUFFICES ASSUME AnswersIInv PROVE AnswersAreOwn
    OBVIOUS
  <2>1. TimedTypeOK
    BY DEF AnswersIInv, CallsTypeOK, FramesTypeOK, TimedTypeOK, Locals
  <2> QED
    BY <2>1 DEF AnswersIInv, AnswersAreOwn
<1> QED
  BY <1>1, <1>2, AnswersInit, PTL DEF Spec

-----------------------------------------------------------------------------
(***************************************************************************)
(* ProcessEnd: for any threads, timed calls among them or not, and any     *)
(* destructors.                                                            *)
(***************************************************************************)

\* What a thread that ends the process, or registers a destructor, may do.
EndingStep(t) ==
  \/ Exit(t) \/ QuickExit(t) \/ QuickExitAgain(t) \/ Terminate(t)
  \/ \E kind \in Kind : AddDestructor(t, kind)
  \/ End(t) \/ Crash(t)

-----------------------------------------------------------------------------
(* The inductive invariant.  The count of the runs of a destructor is that *)
(* of the threads whose pass it is behind, with one pass more that a       *)
(* thread may begin after its first one threw, and never complete.         *)

\* A thread that runs destructors holds the mutex and has run those before next,
\* none of which threw or got stuck.
PassIsAlone(t) ==
  at[t] = "run" =>
    /\ destructors_mutex = t
    /\ \A j \in 1 .. next[t] - 1 : destructors[j] = "plain" /\ runs[j] > 0

\* Whoever began a pass found the flag unset; whoever is past one, or past the
\* flag, knows that a pass was complete.
PlaceTells(t) ==
  /\ at[t] \in {"lock", "run", "stuck"} => t \in early
  /\ at[t] \in {"after", "torn"} => complete

\* A complete pass ran what was there at the start.
CompleteRanAll ==
  /\ destructors_called = complete
  /\ torn => complete
  /\ complete => \A i \in DOMAIN FirstDestructors : runs[i] > 0
  /\ Len(FirstDestructors) <= Len(destructors)

\* The threads in W threw once, at the first destructor that is not plain, and
\* terminate; a second pass of theirs gets no further.
ThrewOnce(W) ==
  /\ \A t \in W : way[t] = "terminate" /\ at[t] \in {"look", "lock", "run", "after"}
  /\ W # {} => \E k \in 1 .. Len(destructors) :
       /\ destructors[k] = "throws" /\ runs[k] > 0
       /\ \A j \in 1 .. k - 1 : destructors[j] = "plain"
       /\ \A t \in W : at[t] = "run" => next[t] <= k

\* The threads whose first pass destructor i is behind, and the second pass it is
\* behind.
Behind(W, i) ==
  {t \in early : \/ t \in W \/ at[t] \in {"stuck", "after", "torn"}
                 \/ at[t] = "run" /\ i < next[t]}
BehindAgain(W, i) == IF \E t \in W : at[t] = "run" /\ i < next[t] THEN 1 ELSE 0

RunsAreCounted(W) ==
  \A i \in Index : runs[i] <= Cardinality(Behind(W, i)) + BehindAgain(W, i)

PassesAreOrderly ==
  /\ \A t \in Thread : PassIsAlone(t) /\ PlaceTells(t)
  /\ CompleteRanAll
  /\ \E W \in SUBSET early : ThrewOnce(W) /\ RunsAreCounted(W)

EndIInv ==
  /\ EndTypeOK /\ IsFiniteSet(early) /\ EndsAfterAllRan
  /\ process = "up" => PassesAreOrderly
  /\ process # "up" => RunsAgainOnlyTogether

-----------------------------------------------------------------------------
(* Counting                                                                *)

\* A part of a finite set has no more members than the set.
LEMMA Larger ==
  ASSUME NEW T, IsFiniteSet(T), NEW S \in SUBSET T
  PROVE  /\ IsFiniteSet(S) /\ Cardinality(S) \in Nat /\ Cardinality(T) \in Nat
         /\ Cardinality(S) <= Cardinality(T)
  BY FS_Subset, FS_CardinalityType

\* One that lacks a member of the set has fewer.
LEMMA LargerByOne ==
  ASSUME NEW T, IsFiniteSet(T), NEW S \in SUBSET T, NEW t \in T, t \notin S
  PROVE  Cardinality(S) + 1 <= Cardinality(T)
<1>1. IsFiniteSet(S)
  BY Larger
<1>2. Cardinality(S \cup {t}) = Cardinality(S) + 1
  BY <1>1, FS_AddElement
<1>3. S \cup {t} \in SUBSET T
  OBVIOUS
<1>4. Cardinality(S \cup {t}) <= Cardinality(T)
  BY <1>3, Larger
<1> QED
  BY <1>2, <1>4

\* What is counted is bounded as RunsAgainOnlyTogether says.
LEMMA CountedIsBounded ==
  ASSUME EndTypeOK, IsFiniteSet(early), PassesAreOrderly
  PROVE  RunsAgainOnlyTogether
<1>1. PICK W \in SUBSET early : ThrewOnce(W) /\ RunsAreCounted(W)
  BY DEF PassesAreOrderly
<1>2. SUFFICES ASSUME NEW i \in Index
               PROVE  runs[i] <= Cardinality(early) + (IF Threw THEN 1 ELSE 0)
  BY DEF RunsAgainOnlyTogether
<1>3. W # {} => Threw
  BY <1>1, EndAssumption DEF ThrewOnce, Threw, EndTypeOK, Index
<1>4. Behind(W, i) \in SUBSET early
  BY DEF Behind
<1>5. /\ Cardinality(Behind(W, i)) \in Nat /\ Cardinality(early) \in Nat
      /\ Cardinality(Behind(W, i)) <= Cardinality(early)
  BY <1>4, Larger
<1>6. runs[i] \in Nat /\ runs[i] <= Cardinality(Behind(W, i)) + BehindAgain(W, i)
  BY <1>1 DEF RunsAreCounted, EndTypeOK
<1>7. BehindAgain(W, i) = 0 \/ (BehindAgain(W, i) = 1 /\ Threw)
  BY <1>3 DEF BehindAgain
<1> QED
  BY <1>5, <1>6, <1>7

\* A step that runs no destructor takes no thread back from what it is behind.
LEMMA NothingTakenBack ==
  ASSUME EndTypeOK, NEW t \in Thread, NEW W \in SUBSET early, RunsAreCounted(W),
         early \subseteq early', IsFiniteSet(early'), runs' = runs,
         \A u \in Thread : u # t => at'[u] = at[u] /\ next'[u] = next[u],
         at[t] \in {"stuck", "after", "torn"} => at'[t] \in {"stuck", "after", "torn"},
         at[t] = "run" => at'[t] = "after" /\ t \notin W
  PROVE  RunsAreCounted(W)'
<1>0. early \subseteq Thread
  BY DEF EndTypeOK
<1>1. SUFFICES ASSUME NEW i \in Index
               PROVE  runs[i] <= Cardinality(Behind(W, i)') + BehindAgain(W, i)'
  BY DEF RunsAreCounted
<1>2. Behind(W, i) \in SUBSET Behind(W, i)' /\ Behind(W, i)' \in SUBSET early'
  BY <1>0 DEF Behind
<1>3. /\ Cardinality(Behind(W, i)) \in Nat /\ Cardinality(Behind(W, i)') \in Nat
      /\ Cardinality(Behind(W, i)) <= Cardinality(Behind(W, i)')
  BY <1>2, Larger
<1>4. \/ BehindAgain(W, i) = 0 /\ BehindAgain(W, i)' \in {0, 1}
      \/ BehindAgain(W, i) = 1 /\ BehindAgain(W, i)' = 1
  BY <1>0 DEF BehindAgain
<1>5. runs[i] \in Nat /\ runs[i] <= Cardinality(Behind(W, i)) + BehindAgain(W, i)
  BY DEF RunsAreCounted, EndTypeOK
<1> QED
  BY <1>3, <1>4, <1>5

-----------------------------------------------------------------------------
(* The initial state, and the steps that run no destructor                 *)

\* At the start no destructor has run.
LEMMA EndStart == Init => EndIInv
<1> SUFFICES ASSUME EndInit PROVE EndIInv
  BY DEF Init
<1> USE DEF EndInit
<1>0. Len(FirstDestructors) \in Nat /\ MaxDestructors \in Nat
  BY EndAssumption
<1>1. EndTypeOK
  <2>1. destructors \in Seq(Kind) /\ Len(destructors) <= MaxDestructors
    BY EndAssumption
  <2>2. next \in [Thread -> 1 .. MaxDestructors + 1]
    BY <1>0
  <2> QED
    BY <2>1, <2>2 DEF EndTypeOK
<1>2. IsFiniteSet(early)
  BY FS_EmptySet
<1>3. \A t \in Thread : PassIsAlone(t) /\ PlaceTells(t)
  BY DEF PassIsAlone, PlaceTells
<1>4. CompleteRanAll
  <2>1. Len(FirstDestructors) <= Len(destructors)
    BY <1>0
  <2>2. destructors_called = complete /\ ~torn /\ ~complete
    OBVIOUS
  <2> QED
    BY <2>1, <2>2 DEF CompleteRanAll
<1>5. ThrewOnce({}) /\ RunsAreCounted({})
  <2>1. ASSUME NEW i \in Index
        PROVE  runs[i] <= Cardinality(Behind({}, i)) + BehindAgain({}, i)
    <3>1. Behind({}, i) = {} /\ BehindAgain({}, i) = 0 /\ runs[i] = 0
      BY DEF Behind, BehindAgain
    <3> QED
      BY <3>1, FS_EmptySet
  <2> QED
    BY <2>1 DEF ThrewOnce, RunsAreCounted
<1> QED
  BY <1>1, <1>2, <1>3, <1>4, <1>5 DEF EndIInv, PassesAreOrderly, EndsAfterAllRan

\* The process ends, and leaves the registry as it is.
LEMMA EndLeaves ==
  ASSUME EndIInv, process = "up", process' \in {"exited", "aborted"}, EndTypeOK', EndsAfterAllRan',
         destructors' = destructors, runs' = runs, early' = early
  PROVE  EndIInv'
<1>1. RunsAgainOnlyTogether
  BY CountedIsBounded DEF EndIInv
<1>2. RunsAgainOnlyTogether'
  BY <1>1 DEF RunsAgainOnlyTogether, Threw
<1> QED
  BY <1>2 DEF EndIInv

\* A thread begins to end the process.
LEMMA BeginStep ==
  ASSUME EndIInv, NEW t \in Thread, NEW w \in Way, Running(t), Begin(t, w)
  PROVE  EndIInv'
<1>1. /\ EndTypeOK /\ IsFiniteSet(early) /\ PassesAreOrderly /\ process = "up" /\ at[t] = "out"
      /\ way' = [way EXCEPT ![t] = w] /\ at' = [at EXCEPT ![t] = "look"]
      /\ UNCHANGED <<process, destructors, destructors_called, destructors_mutex, next, torn, runs,
                     early, complete>>
  BY DEF EndIInv, Running, Begin, registry
<1>2. PICK W \in SUBSET early : ThrewOnce(W) /\ RunsAreCounted(W)
  BY <1>1 DEF PassesAreOrderly
<1>3. EndTypeOK'
  BY <1>1 DEF EndTypeOK
<1>4. RunsAreCounted(W)'
  BY <1>1, <1>2, NothingTakenBack DEF EndTypeOK
<1>5. ThrewOnce(W)'
  <2>1. t \notin W /\ W \subseteq Thread
    BY <1>1, <1>2 DEF ThrewOnce, EndTypeOK
  <2> QED
    BY <1>1, <1>2, <2>1 DEF ThrewOnce, EndTypeOK
<1>6. \A u \in Thread : PassIsAlone(u)' /\ PlaceTells(u)'
  BY <1>1 DEF PassesAreOrderly, PassIsAlone, PlaceTells, EndTypeOK
<1>7. CompleteRanAll'
  BY <1>1 DEF PassesAreOrderly, CompleteRanAll
<1> QED
  BY <1>1, <1>3, <1>4, <1>5, <1>6, <1>7, <1>2 DEF EndIInv, PassesAreOrderly, EndsAfterAllRan

\* A thread looks at the flag.
LEMMA LookStep ==
  ASSUME EndIInv, NEW t \in Thread, Look(t)
  PROVE  EndIInv'
<1>1. /\ EndTypeOK /\ IsFiniteSet(early) /\ PassesAreOrderly /\ process = "up" /\ at[t] = "look"
      /\ at' = [at EXCEPT ![t] = IF destructors_called THEN "after" ELSE "lock"]
      /\ early' = IF complete THEN early ELSE early \cup {t}
      /\ UNCHANGED <<process, destructors, destructors_called, destructors_mutex, way, next, torn,
                     runs, complete>>
  BY DEF EndIInv, Look, registry
<1>2. PICK W \in SUBSET early : ThrewOnce(W) /\ RunsAreCounted(W)
  BY <1>1 DEF PassesAreOrderly
<1>3. EndTypeOK' /\ early \subseteq early'
  BY <1>1 DEF EndTypeOK
<1>4. IsFiniteSet(early')
  BY <1>1, FS_AddElement
<1>5. RunsAreCounted(W)'
  BY <1>1, <1>2, <1>3, <1>4, NothingTakenBack DEF EndTypeOK
<1>6. ThrewOnce(W)'
  BY <1>1, <1>2 DEF ThrewOnce, EndTypeOK
<1>7. \A u \in Thread : PassIsAlone(u)' /\ PlaceTells(u)'
  BY <1>1 DEF PassesAreOrderly, PassIsAlone, PlaceTells, CompleteRanAll, EndTypeOK
<1>8. CompleteRanAll'
  BY <1>1 DEF PassesAreOrderly, CompleteRanAll
<1> QED
  BY <1>1, <1>2, <1>3, <1>4, <1>5, <1>6, <1>7, <1>8 DEF EndIInv, PassesAreOrderly, EndsAfterAllRan

\* A thread locks the mutex of the destructors.
LEMMA LockStep ==
  ASSUME EndIInv, NEW t \in Thread, Lock(t)
  PROVE  EndIInv'
<1>1. /\ EndTypeOK /\ IsFiniteSet(early) /\ PassesAreOrderly /\ process = "up" /\ at[t] = "lock"
      /\ destructors_mutex = NoThread /\ destructors_mutex' = t
      /\ at' = [at EXCEPT ![t] = "run"] /\ next' = [next EXCEPT ![t] = 1]
      /\ UNCHANGED <<process, destructors, destructors_called, way, torn, runs, early, complete>>
  BY DEF EndIInv, Lock
<1>2. PICK W \in SUBSET early : ThrewOnce(W) /\ RunsAreCounted(W)
  BY <1>1 DEF PassesAreOrderly
<1>3. EndTypeOK'
  BY <1>1, EndAssumption DEF EndTypeOK
<1>4. RunsAreCounted(W)'
  BY <1>1, <1>2, NothingTakenBack DEF EndTypeOK
<1>5. ThrewOnce(W)'
  <2>1. \A u \in W : way'[u] = "terminate" /\ at'[u] \in {"look", "lock", "run", "after"}
    BY <1>1, <1>2 DEF ThrewOnce, EndTypeOK
  <2>2. ASSUME W # {}
        PROVE  \E k \in 1 .. Len(destructors) :
                 /\ destructors[k] = "throws" /\ runs[k] > 0
                 /\ \A j \in 1 .. k - 1 : destructors[j] = "plain"
                 /\ \A u \in W : at'[u] = "run" => next'[u] <= k
    <3>1. PICK k \in 1 .. Len(destructors) :
            /\ destructors[k] = "throws" /\ runs[k] > 0
            /\ \A j \in 1 .. k - 1 : destructors[j] = "plain"
            /\ \A u \in W : at[u] = "run" => next[u] <= k
      BY <1>2, <2>2 DEF ThrewOnce
    <3>2. \A u \in W : at'[u] = "run" => next'[u] <= k
      BY <1>1, <3>1 DEF EndTypeOK
    <3> QED
      BY <3>1, <3>2
  <2> QED
    BY <1>1, <2>1, <2>2 DEF ThrewOnce
<1>6. ASSUME NEW u \in Thread PROVE PassIsAlone(u)' /\ PlaceTells(u)'
  <2>1. PassIsAlone(u) /\ PlaceTells(u) /\ PlaceTells(t)
    BY <1>1 DEF PassesAreOrderly
  <2>2. u # t => at[u] # "run"
    BY <1>1, <2>1, EndAssumption DEF PassIsAlone
  <2>3. at'[t] = "run" /\ next'[t] = 1 /\ (u # t => at'[u] = at[u])
    BY <1>1 DEF EndTypeOK
  <2> QED
    BY <1>1, <2>1, <2>2, <2>3 DEF PassIsAlone, PlaceTells
<1>7. CompleteRanAll'
  BY <1>1 DEF PassesAreOrderly, CompleteRanAll
<1> QED
  BY <1>1, <1>2, <1>3, <1>4, <1>5, <1>6, <1>7 DEF EndIInv, PassesAreOrderly, EndsAfterAllRan

\* A thread goes past the last destructor, and unlocks the mutex.
LEMMA PassStep ==
  ASSUME EndIInv, NEW t \in Thread, Pass(t)
  PROVE  EndIInv'
<1>1. /\ EndTypeOK /\ IsFiniteSet(early) /\ PassesAreOrderly /\ process = "up" /\ at[t] = "run"
      /\ next[t] > Len(destructors) /\ destructors_called' = TRUE /\ complete' = TRUE
      /\ destructors_mutex' = NoThread /\ at' = [at EXCEPT ![t] = "after"]
      /\ UNCHANGED <<process, destructors, way, next, torn, runs, early>>
  BY DEF EndIInv, Pass
<1>2. PICK W \in SUBSET early : ThrewOnce(W) /\ RunsAreCounted(W)
  BY <1>1 DEF PassesAreOrderly
<1>3. EndTypeOK'
  BY <1>1 DEF EndTypeOK
<1>4. next[t] \in Nat /\ Len(destructors) \in Nat
  BY <1>1, EndAssumption DEF EndTypeOK
<1>5. t \notin W
  BY <1>1, <1>2, <1>4 DEF ThrewOnce
<1>6. RunsAreCounted(W)'
  BY <1>1, <1>2, <1>5, NothingTakenBack DEF EndTypeOK
<1>7. ThrewOnce(W)'
  BY <1>1, <1>2, <1>5 DEF ThrewOnce, EndTypeOK
<1>8. ASSUME NEW u \in Thread PROVE PassIsAlone(u)' /\ PlaceTells(u)'
  <2>1. PassIsAlone(u) /\ PassIsAlone(t) /\ PlaceTells(u)
    BY <1>1 DEF PassesAreOrderly
  <2>2. at'[t] = "after" /\ (u # t => at'[u] = at[u] /\ at[u] # "run")
    BY <1>1, <2>1 DEF PassIsAlone, EndTypeOK
  <2> QED
    BY <1>1, <2>1, <2>2 DEF PassIsAlone, PlaceTells
<1>9. CompleteRanAll'
  <2>1. CompleteRanAll /\ PassIsAlone(t)
    BY <1>1 DEF PassesAreOrderly
  <2>2. Len(FirstDestructors) \in Nat /\ DOMAIN FirstDestructors = 1 .. Len(FirstDestructors)
    BY EndAssumption
  <2>3. \A j \in 1 .. next[t] - 1 : runs[j] > 0
    BY <1>1, <2>1 DEF PassIsAlone
  <2>4. \A i \in DOMAIN FirstDestructors : runs[i] > 0
    BY <1>1, <1>4, <2>1, <2>2, <2>3 DEF CompleteRanAll
  <2> QED
    BY <1>1, <2>1, <2>4 DEF CompleteRanAll
<1> QED
  BY <1>1, <1>2, <1>3, <1>6, <1>7, <1>8, <1>9 DEF EndIInv, PassesAreOrderly, EndsAfterAllRan

\* A thread tears the process down.
LEMMA TearDownStep ==
  ASSUME EndIInv, NEW t \in Thread, TearDown(t)
  PROVE  EndIInv'
<1>1. /\ EndTypeOK /\ IsFiniteSet(early) /\ PassesAreOrderly /\ process = "up" /\ at[t] = "after"
      /\ way[t] = "exit" /\ torn' = TRUE /\ at' = [at EXCEPT ![t] = "torn"]
      /\ UNCHANGED <<process, destructors, destructors_called, destructors_mutex, way, next, runs,
                     early, complete>>
  BY DEF EndIInv, TearDown, registry
<1>2. PICK W \in SUBSET early : ThrewOnce(W) /\ RunsAreCounted(W)
  BY <1>1 DEF PassesAreOrderly
<1>3. EndTypeOK'
  BY <1>1 DEF EndTypeOK
<1>4. t \notin W
  BY <1>1, <1>2 DEF ThrewOnce
<1>5. RunsAreCounted(W)'
  BY <1>1, <1>2, NothingTakenBack DEF EndTypeOK
<1>6. ThrewOnce(W)'
  BY <1>1, <1>2, <1>4 DEF ThrewOnce, EndTypeOK
<1>7. \A u \in Thread : PassIsAlone(u)' /\ PlaceTells(u)'
  BY <1>1 DEF PassesAreOrderly, PassIsAlone, PlaceTells, EndTypeOK
<1>8. CompleteRanAll'
  BY <1>1 DEF PassesAreOrderly, PlaceTells, CompleteRanAll
<1> QED
  BY <1>1, <1>2, <1>3, <1>5, <1>6, <1>7, <1>8 DEF EndIInv, PassesAreOrderly, EndsAfterAllRan

\* A destructor is registered.
LEMMA AddStep ==
  ASSUME EndIInv, NEW t \in Thread, NEW kind \in Kind, AddDestructor(t, kind)
  PROVE  EndIInv'
<1>1. /\ EndTypeOK /\ IsFiniteSet(early) /\ PassesAreOrderly /\ process = "up"
      /\ destructors_mutex = NoThread /\ Len(destructors) < MaxDestructors
      /\ destructors' = Append(destructors, kind)
      /\ UNCHANGED <<process, destructors_called, destructors_mutex, way, at, next, torn, runs,
                     early, complete>>
  BY DEF EndIInv, AddDestructor, Running
<1>2. PICK W \in SUBSET early : ThrewOnce(W) /\ RunsAreCounted(W)
  BY <1>1 DEF PassesAreOrderly
<1>3. /\ Len(destructors') = Len(destructors) + 1 /\ Len(destructors) \in Nat
      /\ destructors' \in Seq(Kind)
      /\ \A j \in 1 .. Len(destructors) : destructors'[j] = destructors[j]
  BY <1>1 DEF EndTypeOK
<1>4. EndTypeOK'
  <2>1. Len(destructors') <= MaxDestructors
    BY <1>1, <1>3, EndAssumption
  <2> QED
    BY <1>1, <1>3, <2>1 DEF EndTypeOK
<1>5. RunsAreCounted(W)'
  BY <1>1, <1>2 DEF RunsAreCounted, Behind, BehindAgain
<1>6. ThrewOnce(W)'
  BY <1>1, <1>2, <1>3 DEF ThrewOnce
<1>7. \A u \in Thread : PassIsAlone(u)' /\ PlaceTells(u)'
  <2>1. \A u \in Thread : at[u] # "run"
    BY <1>1, EndAssumption DEF PassesAreOrderly, PassIsAlone
  <2> QED
    BY <1>1, <2>1 DEF PassesAreOrderly, PassIsAlone, PlaceTells
<1>8. CompleteRanAll'
  <2>1. CompleteRanAll /\ Len(FirstDestructors) \in Nat
    BY <1>1, EndAssumption DEF PassesAreOrderly
  <2> QED
    BY <1>1, <1>3, <2>1 DEF CompleteRanAll
<1> QED
  BY <1>1, <1>2, <1>4, <1>5, <1>6, <1>7, <1>8 DEF EndIInv, PassesAreOrderly, EndsAfterAllRan

-----------------------------------------------------------------------------
(* The steps that run a destructor                                         *)

\* What a thread knows that is about to run a destructor.
LEMMA Inside ==
  ASSUME EndIInv, NEW t \in Thread, InPass(t)
  PROVE  /\ EndTypeOK /\ IsFiniteSet(early) /\ PassesAreOrderly /\ process = "up"
         /\ at[t] = "run" /\ t \in early /\ destructors_mutex = t
         /\ next[t] \in Nat /\ next[t] \in Index /\ next[t] \in 1 .. Len(destructors)
         /\ \A j \in 1 .. next[t] - 1 : destructors[j] = "plain" /\ runs[j] > 0
         /\ \A u \in Thread : u # t => at[u] # "run"
<1>1. EndTypeOK /\ PassesAreOrderly /\ at[t] = "run" /\ next[t] <= Len(destructors)
  BY DEF EndIInv, InPass
<1>2. /\ \A u \in Thread : PassIsAlone(u)
      /\ PlaceTells(t)
  BY <1>1 DEF PassesAreOrderly
<1>3. next[t] \in Nat /\ next[t] >= 1 /\ Len(destructors) \in Nat
  BY <1>1, EndAssumption DEF EndTypeOK
<1>4. Len(destructors) <= MaxDestructors /\ MaxDestructors \in Nat
  BY <1>1, EndAssumption DEF EndTypeOK
<1>5. next[t] \in Index /\ next[t] \in 1 .. Len(destructors)
  BY <1>1, <1>3, <1>4 DEF Index
<1>6. \A u \in Thread : u # t => at[u] # "run"
  BY <1>1, <1>2 DEF PassIsAlone
<1> QED
  BY <1>1, <1>2, <1>3, <1>5, <1>6 DEF EndIInv, InPass, PassIsAlone, PlaceTells

\* A destructor that is run more is behind one thread more, or behind the second
\* pass of one.
LEMMA OneRunMore ==
  ASSUME EndIInv, NEW t \in Thread, InPass(t), Ran(t), early' = early,
         NEW W \in SUBSET early, NEW V \in SUBSET early, RunsAreCounted(W),
         \A u \in Thread : u # t => at'[u] = at[u] /\ next'[u] = next[u],
         \/ V = W /\ at'[t] = "run" /\ next'[t] = next[t] + 1
         \/ V = W /\ t \notin W /\ at'[t] = "stuck"
         \/ V = W \cup {t} /\ t \notin W /\ at'[t] = "look"
  PROVE  RunsAreCounted(V)'
<1>1. /\ EndTypeOK /\ IsFiniteSet(early)
      /\ at[t] = "run" /\ t \in early /\ next[t] \in Nat /\ next[t] \in Index
      /\ \A u \in Thread : u # t => at[u] # "run"
  BY Inside
<1>2. runs \in [Index -> Nat] /\ runs' = [runs EXCEPT ![next[t]] = @ + 1] /\ early \subseteq Thread
  BY <1>1 DEF Ran, EndTypeOK
<1>3. SUFFICES ASSUME NEW i \in Index
               PROVE  runs'[i] <= Cardinality(Behind(V, i)') + BehindAgain(V, i)'
  BY DEF RunsAreCounted
<1>4. i \in Nat
  BY EndAssumption DEF Index
<1>5. Behind(W, i) \in SUBSET Behind(V, i)' /\ Behind(V, i)' \in SUBSET early
  BY <1>1, <1>2, <1>4 DEF Behind
<1>6. /\ IsFiniteSet(Behind(V, i)')
      /\ Cardinality(Behind(W, i)) \in Nat /\ Cardinality(Behind(V, i)') \in Nat
      /\ Cardinality(Behind(W, i)) <= Cardinality(Behind(V, i)')
  <2>1. IsFiniteSet(Behind(V, i)')
    BY <1>1, <1>5, Larger
  <2> QED
    BY <1>5, <2>1, Larger
<1>7. runs[i] \in Nat /\ runs[i] <= Cardinality(Behind(W, i)) + BehindAgain(W, i)
  BY <1>2 DEF RunsAreCounted
<1>8. BehindAgain(W, i) = 1 => t \in W /\ i < next[t]
  BY <1>1, <1>2 DEF BehindAgain
<1>9. BehindAgain(W, i) \in {0, 1} /\ BehindAgain(V, i)' \in {0, 1}
  BY DEF BehindAgain
<1>10. BehindAgain(W, i) = 1 => BehindAgain(V, i)' = 1
  BY <1>1, <1>2, <1>4, <1>8 DEF BehindAgain
<1>11. CASE i # next[t]
  <2>1. runs'[i] = runs[i]
    BY <1>2, <1>11
  <2> QED
    BY <2>1, <1>6, <1>7, <1>9, <1>10
<1>12. CASE i = next[t] /\ t \in W
  <2>1. runs'[i] = runs[i] + 1
    BY <1>2, <1>12
  <2>2. BehindAgain(W, i) = 0
    BY <1>4, <1>8, <1>9, <1>12
  <2>3. at'[t] = "run" /\ i < next'[t] /\ V = W
    BY <1>1, <1>12
  <2>4. BehindAgain(V, i)' = 1
    BY <1>12, <2>3 DEF BehindAgain
  <2> QED
    BY <2>1, <2>2, <2>4, <1>6, <1>7
<1>13. CASE i = next[t] /\ t \notin W
  <2>1. runs'[i] = runs[i] + 1
    BY <1>2, <1>13
  <2>2. t \notin Behind(W, i)
    BY <1>1, <1>4, <1>13 DEF Behind
  <2>3. t \in Behind(V, i)'
    BY <1>1, <1>13 DEF Behind
  <2>4. Cardinality(Behind(W, i)) + 1 <= Cardinality(Behind(V, i)')
    BY <1>5, <1>6, <2>2, <2>3, LargerByOne
  <2>5. BehindAgain(W, i) = 0
    BY <1>8, <1>9, <1>13
  <2> QED
    BY <2>1, <2>4, <2>5, <1>6, <1>7, <1>9
<1> QED
  BY <1>11, <1>12, <1>13

\* A destructor runs and returns.
LEMMA RunPlainStep ==
  ASSUME EndIInv, NEW t \in Thread, RunPlain(t)
  PROVE  EndIInv'
<1>1. /\ InPass(t) /\ destructors[next[t]] = "plain" /\ Ran(t)
      /\ next' = [next EXCEPT ![t] = next[t] + 1]
      /\ UNCHANGED <<process, destructors, destructors_called, destructors_mutex, way, at, torn,
                     early, complete>>
  BY DEF RunPlain, registry
<1>2. /\ EndTypeOK /\ IsFiniteSet(early) /\ PassesAreOrderly /\ process = "up"
      /\ at[t] = "run" /\ t \in early /\ destructors_mutex = t
      /\ next[t] \in Nat /\ next[t] \in Index /\ next[t] \in 1 .. Len(destructors)
      /\ \A j \in 1 .. next[t] - 1 : destructors[j] = "plain" /\ runs[j] > 0
      /\ \A u \in Thread : u # t => at[u] # "run"
  BY <1>1, Inside
<1>3. /\ runs' = [runs EXCEPT ![next[t]] = runs[next[t]] + 1] /\ runs \in [Index -> Nat]
      /\ next'[t] = next[t] + 1 /\ \A u \in Thread : u # t => next'[u] = next[u]
  BY <1>1, <1>2 DEF Ran, EndTypeOK
<1>4. PICK W \in SUBSET early : ThrewOnce(W) /\ RunsAreCounted(W)
  BY <1>2 DEF PassesAreOrderly
<1>5. EndTypeOK'
  <2>1. next' \in [Thread -> 1 .. MaxDestructors + 1]
    BY <1>1, <1>2, EndAssumption DEF EndTypeOK, Index
  <2>2. runs' \in [Index -> Nat]
    BY <1>2, <1>3
  <2> QED
    BY <1>1, <1>2, <2>1, <2>2 DEF EndTypeOK
<1>6. RunsAreCounted(W)'
  BY <1>1, <1>2, <1>3, <1>4, OneRunMore
<1>7. \A i \in Index : runs[i] > 0 => runs'[i] > 0
  BY <1>3
<1>8. ThrewOnce(W)'
  <2>1. \A u \in W : way'[u] = "terminate" /\ at'[u] \in {"look", "lock", "run", "after"}
    BY <1>1, <1>4 DEF ThrewOnce
  <2>2. ASSUME W # {}
        PROVE  \E k \in 1 .. Len(destructors) :
                 /\ destructors[k] = "throws" /\ runs'[k] > 0
                 /\ \A j \in 1 .. k - 1 : destructors[j] = "plain"
                 /\ \A u \in W : at'[u] = "run" => next'[u] <= k
    <3>1. PICK k \in 1 .. Len(destructors) :
            /\ destructors[k] = "throws" /\ runs[k] > 0
            /\ \A j \in 1 .. k - 1 : destructors[j] = "plain"
            /\ \A u \in W : at[u] = "run" => next[u] <= k
      BY <1>4, <2>2 DEF ThrewOnce
    <3>2. k \in Nat /\ k \in Index
      BY <1>2, EndAssumption DEF EndTypeOK, Index
    <3>3. next[t] # k
      BY <1>1, <3>1
    <3>4. ASSUME NEW u \in W, at'[u] = "run" PROVE next'[u] <= k
      <4>1. u = t
        BY <1>1, <1>2, <3>4 DEF EndTypeOK
      <4>2. next[t] <= k
        BY <1>2, <3>1, <4>1
      <4> QED
        BY <1>2, <1>3, <3>2, <3>3, <4>1, <4>2
    <3> QED
      BY <1>7, <3>1, <3>2, <3>4
  <2> QED
    BY <1>1, <2>1, <2>2 DEF ThrewOnce
<1>9. ASSUME NEW u \in Thread PROVE PassIsAlone(u)' /\ PlaceTells(u)'
  <2>1. PlaceTells(u)'
    BY <1>1, <1>2 DEF PassesAreOrderly, PlaceTells
  <2>2. ASSUME NEW j \in 1 .. next[t] PROVE destructors[j] = "plain" /\ runs'[j] > 0
    <3>1. j \in Index
      BY <1>2, EndAssumption DEF Index
    <3>2. CASE j = next[t]
      BY <1>1, <1>3, <3>1, <3>2
    <3>3. CASE j # next[t]
      <4>1. j \in 1 .. next[t] - 1
        BY <1>2, <3>3
      <4> QED
        BY <1>2, <1>7, <3>1, <4>1
    <3> QED
      BY <3>2, <3>3
  <2>3. PassIsAlone(u)'
    <3>1. u # t => at'[u] # "run"
      BY <1>1, <1>2
    <3>2. next'[t] - 1 = next[t]
      BY <1>2, <1>3
    <3> QED
      BY <1>1, <1>2, <2>2, <3>1, <3>2 DEF PassIsAlone
  <2> QED
    BY <2>1, <2>3
<1>10. CompleteRanAll'
  <2>1. CompleteRanAll /\ DOMAIN FirstDestructors \subseteq Index
    BY <1>2, EndAssumption DEF PassesAreOrderly, Index
  <2> QED
    BY <1>1, <1>7, <2>1 DEF CompleteRanAll
<1> QED
  BY <1>1, <1>2, <1>4, <1>5, <1>6, <1>8, <1>9, <1>10 DEF EndIInv, PassesAreOrderly, EndsAfterAllRan

\* A destructor runs and registers another.
LEMMA RunAddsStep ==
  ASSUME EndIInv, NEW t \in Thread, RunAdds(t)
  PROVE  EndIInv'
<1>1. /\ InPass(t) /\ destructors[next[t]] = "adds" /\ Ran(t)
      /\ at' = [at EXCEPT ![t] = "stuck"]
      /\ UNCHANGED <<process, destructors, destructors_called, destructors_mutex, way, next, torn,
                     early, complete>>
  BY DEF RunAdds, registry
<1>2. /\ EndTypeOK /\ IsFiniteSet(early) /\ PassesAreOrderly /\ process = "up"
      /\ at[t] = "run" /\ t \in early /\ destructors_mutex = t
      /\ next[t] \in Nat /\ next[t] \in Index /\ next[t] \in 1 .. Len(destructors)
      /\ \A j \in 1 .. next[t] - 1 : destructors[j] = "plain" /\ runs[j] > 0
      /\ \A u \in Thread : u # t => at[u] # "run"
  BY <1>1, Inside
<1>3. /\ runs' = [runs EXCEPT ![next[t]] = runs[next[t]] + 1] /\ runs \in [Index -> Nat]
      /\ at'[t] = "stuck" /\ \A u \in Thread : u # t => at'[u] = at[u]
  BY <1>1, <1>2 DEF Ran, EndTypeOK
<1>4. PICK W \in SUBSET early : ThrewOnce(W) /\ RunsAreCounted(W)
  BY <1>2 DEF PassesAreOrderly
<1>5. EndTypeOK'
  <2>1. runs' \in [Index -> Nat]
    BY <1>2, <1>3
  <2> QED
    BY <1>1, <1>2, <2>1 DEF EndTypeOK
<1>6. \A i \in Index : runs[i] > 0 => runs'[i] > 0
  BY <1>3
<1>7. t \notin W
  <2>1. SUFFICES ASSUME t \in W PROVE FALSE
    OBVIOUS
  <2>2. PICK k \in 1 .. Len(destructors) :
          /\ destructors[k] = "throws"
          /\ \A j \in 1 .. k - 1 : destructors[j] = "plain"
          /\ \A u \in W : at[u] = "run" => next[u] <= k
    BY <1>4, <2>1 DEF ThrewOnce
  <2>3. next[t] <= k
    BY <1>2, <2>1, <2>2
  <2>4. next[t] = k \/ next[t] \in 1 .. k - 1
    BY <1>2, <2>3
  <2> QED
    BY <1>1, <2>2, <2>4
<1>8. RunsAreCounted(W)'
  BY <1>1, <1>3, <1>4, <1>7, OneRunMore
<1>9. ThrewOnce(W)'
  <2>1. \A u \in W : u \in Thread /\ u # t
    BY <1>2, <1>7 DEF EndTypeOK
  <2>2. \A k \in 1 .. Len(destructors) : k \in Index
    BY <1>2, EndAssumption DEF EndTypeOK, Index
  <2> QED
    BY <1>1, <1>3, <1>4, <1>6, <2>1, <2>2 DEF ThrewOnce
<1>10. ASSUME NEW u \in Thread PROVE PassIsAlone(u)' /\ PlaceTells(u)'
  <2>1. at'[u] # "run"
    BY <1>2, <1>3
  <2>2. PlaceTells(u)
    BY <1>2 DEF PassesAreOrderly
  <2> QED
    BY <1>1, <1>2, <1>3, <2>1, <2>2 DEF PassIsAlone, PlaceTells
<1>11. CompleteRanAll'
  <2>1. CompleteRanAll /\ DOMAIN FirstDestructors \subseteq Index
    BY <1>2, EndAssumption DEF PassesAreOrderly, Index
  <2> QED
    BY <1>1, <1>6, <2>1 DEF CompleteRanAll
<1> QED
  BY <1>1, <1>2, <1>4, <1>5, <1>8, <1>9, <1>10, <1>11 DEF EndIInv, PassesAreOrderly, EndsAfterAllRan

\* A destructor throws in a handler: the process ends, with one run more.
LEMMA ThrowAborts ==
  ASSUME EndIInv, NEW t \in Thread, RunThrows(t), way[t] # "exit"
  PROVE  EndIInv'
<1>1. /\ InPass(t) /\ destructors[next[t]] = "throws" /\ Ran(t) /\ process' = "aborted"
      /\ UNCHANGED <<destructors, destructors_called, destructors_mutex, way, at, next, torn,
                     early, complete>>
  BY DEF RunThrows
<1>2. /\ EndTypeOK /\ IsFiniteSet(early) /\ PassesAreOrderly /\ process = "up"
      /\ at[t] = "run" /\ t \in early /\ destructors_mutex = t
      /\ next[t] \in Nat /\ next[t] \in Index /\ next[t] \in 1 .. Len(destructors)
      /\ \A j \in 1 .. next[t] - 1 : destructors[j] = "plain" /\ runs[j] > 0
      /\ \A u \in Thread : u # t => at[u] # "run"
  BY <1>1, Inside
<1>3. /\ runs' = [runs EXCEPT ![next[t]] = runs[next[t]] + 1] /\ runs \in [Index -> Nat]
      /\ early \subseteq Thread
  BY <1>1, <1>2 DEF Ran, EndTypeOK
<1>4. PICK W \in SUBSET early : ThrewOnce(W) /\ RunsAreCounted(W)
  BY <1>2 DEF PassesAreOrderly
<1>5. EndTypeOK'
  <2>1. runs' \in [Index -> Nat]
    BY <1>2, <1>3
  <2> QED
    BY <1>1, <1>2, <2>1 DEF EndTypeOK
<1>6. Threw'
  <2>1. runs'[next[t]] > 0
    BY <1>2, <1>3
  <2>2. next[t] <= Len(destructors)
    BY <1>2
  <2> QED
    BY <1>1, <1>2, <2>1, <2>2 DEF Threw, Index
<1>7. RunsAgainOnlyTogether'
  <2>1. SUFFICES ASSUME NEW i \in Index PROVE runs'[i] <= Cardinality(early) + 1
    BY <1>1, <1>6 DEF RunsAgainOnlyTogether
  <2>2. i \in Nat
    BY EndAssumption DEF Index
  <2>3. Behind(W, i) \in SUBSET early
    BY DEF Behind
  <2>4. /\ Cardinality(Behind(W, i)) \in Nat /\ Cardinality(early) \in Nat
        /\ Cardinality(Behind(W, i)) <= Cardinality(early)
    BY <1>2, <2>3, Larger
  <2>5. runs[i] \in Nat /\ runs[i] <= Cardinality(Behind(W, i)) + BehindAgain(W, i)
    BY <1>3, <1>4 DEF RunsAreCounted
  <2>6. BehindAgain(W, i) \in {0, 1}
    BY DEF BehindAgain
  <2>7. BehindAgain(W, i) = 1 => i < next[t]
    BY <1>2, <1>3 DEF BehindAgain
  <2>8. CASE i # next[t]
    <3>1. runs'[i] = runs[i]
      BY <1>3, <2>8
    <3> QED
      BY <2>4, <2>5, <2>6, <3>1
  <2>9. CASE i = next[t]
    <3>1. runs'[i] = runs[i] + 1
      BY <1>3, <2>9
    <3>2. BehindAgain(W, i) = 0
      BY <2>2, <2>6, <2>7, <2>9
    <3> QED
      BY <2>4, <2>5, <3>1, <3>2
  <2> QED
    BY <2>8, <2>9
<1> QED
  BY <1>1, <1>2, <1>5, <1>6, <1>7 DEF EndIInv, EndsAfterAllRan

\* A destructor throws in ~InitDeinit: the thread goes on to terminate, once.
LEMMA ThrowTerminates ==
  ASSUME EndIInv, NEW t \in Thread, RunThrows(t), way[t] = "exit"
  PROVE  EndIInv'
<1>1. /\ InPass(t) /\ destructors[next[t]] = "throws" /\ Ran(t)
      /\ way' = [way EXCEPT ![t] = "terminate"] /\ at' = [at EXCEPT ![t] = "look"]
      /\ destructors_mutex' \in {t, NoThread}
      /\ UNCHANGED <<process, destructors, destructors_called, next, torn, early, complete>>
  BY DEF RunThrows
<1>2. /\ EndTypeOK /\ IsFiniteSet(early) /\ PassesAreOrderly /\ process = "up"
      /\ at[t] = "run" /\ t \in early /\ destructors_mutex = t
      /\ next[t] \in Nat /\ next[t] \in Index /\ next[t] \in 1 .. Len(destructors)
      /\ \A j \in 1 .. next[t] - 1 : destructors[j] = "plain" /\ runs[j] > 0
      /\ \A u \in Thread : u # t => at[u] # "run"
  BY <1>1, Inside
<1>3. /\ runs' = [runs EXCEPT ![next[t]] = runs[next[t]] + 1] /\ runs \in [Index -> Nat]
      /\ early \subseteq Thread
      /\ at'[t] = "look" /\ way'[t] = "terminate"
      /\ \A u \in Thread : u # t => at'[u] = at[u] /\ way'[u] = way[u]
  BY <1>1, <1>2 DEF Ran, EndTypeOK
<1>4. PICK W \in SUBSET early : ThrewOnce(W) /\ RunsAreCounted(W)
  BY <1>2 DEF PassesAreOrderly
<1>5. EndTypeOK'
  <2>1. runs' \in [Index -> Nat]
    BY <1>2, <1>3
  <2>2. /\ way' \in [Thread -> Way \cup {"none"}]
        /\ at' \in [Thread -> {"out", "look", "lock", "run", "stuck", "after", "torn"}]
        /\ destructors_mutex' \in Thread \cup {NoThread}
    BY <1>1, <1>2 DEF EndTypeOK, Way
  <2> QED
    BY <1>1, <1>2, <2>1, <2>2 DEF EndTypeOK
<1>6. t \notin W /\ W \cup {t} \in SUBSET early
  BY <1>2, <1>4 DEF ThrewOnce
<1>7. RunsAreCounted(W \cup {t})'
  BY <1>1, <1>3, <1>4, <1>6, OneRunMore
<1>8. ThrewOnce(W \cup {t})'
  <2>1. \A u \in W \cup {t} : way'[u] = "terminate" /\ at'[u] \in {"look", "lock", "run", "after"}
    BY <1>3, <1>4 DEF ThrewOnce
  <2>2. runs'[next[t]] > 0
    BY <1>2, <1>3
  <2>3. \A u \in W \cup {t} : at'[u] # "run"
    BY <1>2, <1>3
  <2>4. \E k \in 1 .. Len(destructors) :
          /\ destructors[k] = "throws" /\ runs'[k] > 0
          /\ \A j \in 1 .. k - 1 : destructors[j] = "plain"
          /\ \A u \in W \cup {t} : at'[u] = "run" => next'[u] <= k
    BY <1>1, <1>2, <2>2, <2>3
  <2> QED
    BY <1>1, <2>1, <2>4 DEF ThrewOnce
<1>9. ASSUME NEW u \in Thread PROVE PassIsAlone(u)' /\ PlaceTells(u)'
  <2>1. at'[u] # "run" /\ PlaceTells(u)
    BY <1>2, <1>3 DEF PassesAreOrderly
  <2> QED
    BY <1>1, <1>3, <2>1 DEF PassIsAlone, PlaceTells
<1>10. CompleteRanAll'
  <2>1. CompleteRanAll /\ DOMAIN FirstDestructors \subseteq Index
    BY <1>2, EndAssumption DEF PassesAreOrderly, Index
  <2>2. \A i \in Index : runs[i] > 0 => runs'[i] > 0
    BY <1>3
  <2> QED
    BY <1>1, <2>1, <2>2 DEF CompleteRanAll
<1>11. PassesAreOrderly'
  <2>1. \E V \in SUBSET early' : ThrewOnce(V)' /\ RunsAreCounted(V)'
    BY <1>1, <1>6, <1>7, <1>8
  <2> QED
    BY <1>9, <1>10, <2>1, <1>1, <1>6, <1>7, <1>8 DEF PassesAreOrderly
<1> QED
  BY <1>1, <1>2, <1>5, <1>11 DEF EndIInv, EndsAfterAllRan

-----------------------------------------------------------------------------
(* The steps that end the process                                          *)

\* Behind a complete pass every destructor there was at the start has run.
LEMMA OverStep ==
  ASSUME EndIInv, process = "up", NEW how \in {"exited", "aborted"}, Over(how), complete
  PROVE  EndIInv'
<1>1. /\ process' = how
      /\ UNCHANGED <<destructors, destructors_called, destructors_mutex, way, at, next, torn, runs,
                     early, complete>>
  BY DEF Over, registry
<1>2. EndTypeOK'
  BY <1>1 DEF EndIInv, EndTypeOK
<1>3. EndsAfterAllRan'
  BY <1>1 DEF EndIInv, PassesAreOrderly, CompleteRanAll, EndsAfterAllRan
<1> QED
  BY <1>1, <1>2, <1>3, EndLeaves

\* A thread calls quick_exit while another one is in it: the process ends.
LEMMA QuickExitAgainStep ==
  ASSUME EndIInv, NEW t \in Thread, QuickExitAgain(t)
  PROVE  EndIInv'
<1>1. /\ process = "up" /\ at[t] = "out" /\ process' = "exited"
      /\ way' = [way EXCEPT ![t] = "quick_exit"]
      /\ UNCHANGED <<destructors, destructors_called, destructors_mutex, at, next, torn, runs,
                     early, complete>>
  BY DEF QuickExitAgain, Running, registry
<1>2. EndTypeOK' /\ way'[t] = "quick_exit"
  BY <1>1 DEF EndIInv, EndTypeOK, Way
<1>3. EndsAfterAllRan'
  BY <1>1, <1>2 DEF EndsAfterAllRan
<1> QED
  BY <1>1, <1>2, <1>3, EndLeaves

\* Every step of an ending preserves the invariant.
LEMMA EndingStepKeeps ==
  ASSUME EndIInv, NEW t \in Thread, EndingStep(t)
  PROVE  EndIInv'
<1>1. CASE Exit(t) \/ QuickExit(t) \/ Terminate(t)
  BY <1>1, BeginStep DEF Exit, QuickExit, Terminate, Way
<1>2. CASE QuickExitAgain(t)
  BY <1>2, QuickExitAgainStep
<1>3. CASE \E kind \in Kind : AddDestructor(t, kind)
  BY <1>3, AddStep
<1>4. CASE RunThrows(t)
  BY <1>4, ThrowTerminates, ThrowAborts
<1>5. CASE Exited(t)
  <2>1. process = "up" /\ at[t] = "torn" /\ Over("exited")
    BY <1>5 DEF Exited
  <2>2. complete
    BY <2>1 DEF EndIInv, PassesAreOrderly, PlaceTells
  <2> QED
    BY <2>1, <2>2, OverStep
<1>6. CASE HandlerReturns(t)
  <2>1. process = "up" /\ at[t] = "after" /\ \E how \in {"exited", "aborted"} : Over(how)
    BY <1>6 DEF HandlerReturns
  <2>2. complete
    BY <2>1 DEF EndIInv, PassesAreOrderly, PlaceTells
  <2> QED
    BY <2>1, <2>2, OverStep
<1>7. CASE Crash(t)
  <2>1. process = "up" /\ torn /\ Over("aborted")
    BY <1>7 DEF Crash
  <2>2. complete
    BY <2>1 DEF EndIInv, PassesAreOrderly, CompleteRanAll
  <2> QED
    BY <2>1, <2>2, OverStep
<1>8. CASE Look(t) \/ Lock(t) \/ Pass(t) \/ TearDown(t)
  BY <1>8, LookStep, LockStep, PassStep, TearDownStep
<1>9. CASE RunPlain(t) \/ RunAdds(t)
  BY <1>9, RunPlainStep, RunAddsStep
<1> QED
  BY <1>1, <1>2, <1>3, <1>4, <1>5, <1>6, <1>7, <1>8, <1>9 DEF EndingStep, End

-----------------------------------------------------------------------------
(* The theorem                                                             *)

\* The steps of a call leave the end of the process alone.
LEMMA EndsOrStays ==
  ASSUME [Next]_vars
  PROVE  (\E t \in Thread : EndingStep(t)) \/ UNCHANGED endVars
<1>1. CASE \E c \in Caller : CallerStep(c)
  BY <1>1 DEF CallerStep, BeginCall, LookDone, WakeUp, SpuriousWakeUp, Deadline, Join, Up
<1>2. CASE \E i \in Call : ThreadStep(i)
  BY <1>2 DEF ThreadStep, Invoke, WriteResult, LockMtx, LockDead, SetDone, Notify, Step, Up
<1>3. CASE \E i \in Call : EndInside(i)
  BY <1>3, ThreadAssumption DEF EndInside, EndingStep
<1>4. CASE EndStep
  BY <1>4, ThreadAssumption DEF EndStep, EndingStep
<1>5. CASE UNCHANGED vars
  BY <1>5 DEF vars
<1> QED
  BY <1>1, <1>2, <1>3, <1>4, <1>5 DEF Next

\* A step that is not about the end preserves it.
LEMMA EndUnchanged ==
  ASSUME EndIInv, UNCHANGED endVars
  PROVE  EndIInv'
<1>1. UNCHANGED <<process, destructors, destructors_called, destructors_mutex, way, at, next, torn,
                  runs, early, complete>>
  BY DEF endVars, registry
<1>2. EndTypeOK' /\ EndsAfterAllRan' /\ (RunsAgainOnlyTogether => RunsAgainOnlyTogether')
  BY <1>1 DEF EndIInv, EndTypeOK, EndsAfterAllRan, RunsAgainOnlyTogether, Threw
<1>3. PassesAreOrderly => PassesAreOrderly'
  BY <1>1 DEF PassesAreOrderly, PassIsAlone, PlaceTells, CompleteRanAll, ThrewOnce, RunsAreCounted,
              Behind, BehindAgain
<1> QED
  BY <1>1, <1>2, <1>3 DEF EndIInv

\* However many threads end the process, in whichever ways and whatever the
\* destructors do: call_destructors runs each destructor of the start before the
\* process is over, and runs one again only in endings that had all looked at
\* destructors_called before the first pass was complete, or after a throw.
THEOREM EveryDestructorRuns == Spec => []DestructorsRun
<1>1. Init => EndIInv
  BY EndStart
<1>2. EndIInv /\ [Next]_vars => EndIInv'
  BY EndsOrStays, EndingStepKeeps, EndUnchanged
<1>3. EndIInv => DestructorsRun
  BY CountedIsBounded DEF EndIInv, DestructorsRun
<1> QED
  BY <1>1, <1>2, <1>3, PTL DEF Spec
=============================================================================
