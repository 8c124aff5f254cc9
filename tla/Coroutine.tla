------------------------------ MODULE Coroutine ------------------------------
(***************************************************************************)
(* SupDef::Coro, the handle of a coroutine that can be looped over, and    *)
(* Util::finite_generator, the coroutine that is looped over here.  The    *)
(* frame is what the compiler makes of the coroutine and its promise; an   *)
(* object owns at most one and may be moved.                               *)
(*                                                                         *)
(* The caller is one thread.  It loops with a range-for, leaves a loop     *)
(* early, and resumes by hand outside of loops and inside of their bodies; *)
(* it does not use an object from which it moved.                          *)
(***************************************************************************)
EXTENDS Integers, FiniteSets

CONSTANTS
  Object,     \* places for objects of type Coro
  Frame,      \* coroutine frames
  NoFrame,    \* the handle of an object that was moved from, or never made
  MaxTo       \* bound on the argument of finite_generator

VARIABLES
  coro,       \* coro[o]: handle, done and iter_end of the object at o
  frame,      \* frame[f]: where the coroutine stands, and its promise
  loop,       \* loop[o]: where the loop over o stands
  seen,       \* seen[f]: how often the body of a loop saw each value, up to twice
  by_hand,    \* by_hand[f]: the values taken with resume and get_value
  left_over   \* frames that came to an object with another iter_end

coroVars == <<coro, frame, loop, seen, by_hand, left_over>>

Value == 0 .. MaxTo
Unmade == [at |-> "unmade", last |-> 0, value |-> 0]
Empty == [handle |-> NoFrame, done |-> FALSE, iter_end |-> FALSE]

CoroInit ==
  /\ coro = [o \in Object |-> Empty]
  /\ frame = [f \in Frame |-> Unmade]
  /\ loop = [o \in Object |-> "none"]
  /\ seen = [f \in Frame |-> [v \in Value |-> 0]]
  /\ by_hand = [f \in Frame |-> {}]
  /\ left_over = {}

Holds(o) == coro[o].handle # NoFrame
FrameOf(o) == frame[coro[o].handle]

\* From one suspension of the generator to the next: co_yield, or at the last
\* value co_return.
Produced(f) ==
  LET v == IF f.at = "start" THEN 0 ELSE f.value + 1
  IN  CASE f.at = "final" -> [f EXCEPT !.at = "undefined"]
        [] f.at # "final" -> [f EXCEPT !.value = v,
                                       !.at = IF v = f.last THEN "final" ELSE "yielded"]

\* is_done(), and resume(), which says whether there was anything to resume.
IsDone(o) == coro[o].done /\ FrameOf(o).at = "final"
Resumed(o) == IF IsDone(o) THEN FrameOf(o) ELSE Produced(FrameOf(o))
Resume(o) ==
  /\ frame' = [frame EXCEPT ![coro[o].handle] = Resumed(o)]
  /\ coro' = [coro EXCEPT ![o].done = Resumed(o).at = "final"]

----------------------------------------------------------------------------
(* The objects.                                                            *)

\* finite_generator(to) is called: it stands at its beginning.
Make(o) ==
  /\ ~Holds(o) /\ loop[o] = "none"
  /\ \E f \in Frame, to \in Value :
       /\ frame[f] = Unmade
       /\ frame' = [frame EXCEPT ![f] = [Unmade EXCEPT !.at = "start", !.last = to]]
       /\ coro' = [coro EXCEPT ![o] = [Empty EXCEPT !.handle = f]]
  /\ UNCHANGED <<loop, seen, by_hand, left_over>>

MoveConstructCoro(o, other) ==
  /\ ~Holds(o) /\ loop[o] = "none"
  /\ Holds(other) /\ loop[other] \in {"none", "over"}
  /\ coro' = [coro EXCEPT ![o] = [Empty EXCEPT !.handle = coro[other].handle,
                                               !.done = coro[other].done],
                          ![other].handle = NoFrame]
  /\ left_over' = left_over \cup IF coro[other].iter_end THEN {coro[other].handle} ELSE {}
  /\ loop' = [loop EXCEPT ![other] = "none"]
  /\ UNCHANGED <<frame, seen, by_hand>>

\* The frame that was held is given up; iter_end stays.
MoveAssignCoro(o, other) ==
  /\ o # other
  /\ loop[o] \in {"none", "over"} /\ Holds(other) /\ loop[other] \in {"none", "over"}
  /\ coro' = [coro EXCEPT ![o] = [@ EXCEPT !.handle = coro[other].handle,
                                           !.done = coro[other].done],
                          ![other].handle = NoFrame]
  /\ left_over' = left_over \cup IF coro[o].iter_end # coro[other].iter_end
                                 THEN {coro[other].handle} ELSE {}
  /\ loop' = [loop EXCEPT ![o] = "none", ![other] = "none"]
  /\ UNCHANGED <<frame, seen, by_hand>>

\* The object is gone, and another may be made in its place.
DestroyCoro(o) ==
  /\ loop[o] \in {"none", "over"}
  /\ frame' = IF Holds(o) THEN [frame EXCEPT ![coro[o].handle].at = "destroyed"] ELSE frame
  /\ coro' = [coro EXCEPT ![o] = Empty]
  /\ loop' = [loop EXCEPT ![o] = "none"]
  /\ seen' = IF Holds(o) THEN [seen EXCEPT ![coro[o].handle] = [v \in Value |-> 0]] ELSE seen
  /\ by_hand' = IF Holds(o) THEN [by_hand EXCEPT ![coro[o].handle] = {}] ELSE by_hand
  /\ left_over' = left_over \ {coro[o].handle}

ResumeByHand(o) ==
  /\ Holds(o) /\ loop[o] \in {"none", "over", "body"}
  /\ Resume(o)
  /\ by_hand' = [by_hand EXCEPT ![coro[o].handle] =
                   IF IsDone(o) THEN @ ELSE @ \cup {Resumed(o).value}]
  /\ UNCHANGED <<loop, seen, left_over>>

----------------------------------------------------------------------------
(* A range-for over an object: begin, then operator== with the end, the    *)
(* body and operator++ in turn.                                            *)

Begin(o) ==
  /\ Holds(o) /\ loop[o] \in {"none", "over"}
  /\ Resume(o)
  /\ loop' = [loop EXCEPT ![o] = "compare"]
  /\ UNCHANGED <<seen, by_hand, left_over>>

\* A faulty variant: the new value is returned.
IsIterEndNow(o) == coro[o].iter_end \/ IsDone(o)

\* What is_iter_end() returns is iter_end from before the call, which sets it.
IsIterEnd(o) == coro[o].iter_end

Compare(o) ==
  /\ loop[o] = "compare"
  /\ coro' = [coro EXCEPT ![o].iter_end = @ \/ IsDone(o)]
  /\ loop' = [loop EXCEPT ![o] = IF IsIterEnd(o) THEN "over" ELSE "body"]
  /\ seen' = IF IsIterEnd(o) THEN seen
             ELSE [seen EXCEPT ![coro[o].handle][FrameOf(o).value] = IF @ < 2 THEN @ + 1 ELSE @]
  /\ UNCHANGED <<frame, by_hand, left_over>>

Advance(o) ==
  /\ loop[o] = "body"
  /\ Resume(o)
  /\ loop' = [loop EXCEPT ![o] = "compare"]
  /\ UNCHANGED <<seen, by_hand, left_over>>

Break(o) ==
  /\ loop[o] = "body"
  /\ loop' = [loop EXCEPT ![o] = "none"]
  /\ UNCHANGED <<coro, frame, seen, by_hand, left_over>>

CoroNext ==
  \E o \in Object :
    \/ Make(o) \/ DestroyCoro(o) \/ ResumeByHand(o)
    \/ \E other \in Object : MoveConstructCoro(o, other) \/ MoveAssignCoro(o, other)
    \/ Begin(o) \/ Compare(o) \/ Advance(o) \/ Break(o)

CoroSpec == CoroInit /\ [][CoroNext]_coroVars

----------------------------------------------------------------------------
\* A frame that is held is held once and alive, never resumed at its end, and
\* its object knows whether it is there.
FramesAreHeld ==
  /\ \A o, p \in Object : Holds(o) /\ coro[o].handle = coro[p].handle => o = p
  /\ \A o \in Object : Holds(o) =>
       /\ FrameOf(o).at \in {"start", "yielded", "final"}
       /\ coro[o].done <=> FrameOf(o).at = "final"

Bring(f) == IF frame[f].at \in {"unmade", "start"} THEN {} ELSE 0 .. frame[f].value

\* No body sees a value twice, or one the generator did not bring; what it brought
\* was seen by a body or taken by hand, but for the value at which a loop stands
\* that has not compared yet.
ValuesAreSeenOnce ==
  \A f \in {coro[o].handle : o \in Object} \ (left_over \cup {NoFrame}) :
    /\ \A v \in Value : seen[f][v] <= 1 /\ (seen[f][v] = 1 => v \in Bring(f))
    /\ \A v \in Bring(f) :
         \/ seen[f][v] = 1 \/ v \in by_hand[f]
         \/ v = frame[f].value /\ \E o \in Object : coro[o].handle = f /\ loop[o] = "compare"

\* A loop that was not left ends behind the value that the coroutine returned,
\* which a body has seen.
LoopsEndBehindTheLast ==
  \A o \in Object : loop[o] = "over" /\ coro[o].handle \notin left_over =>
    FrameOf(o).at = "final" /\ seen[coro[o].handle][FrameOf(o).last] = 1

\* Whatever loops, hands and moves do to a coroutine, every value of it is used
\* once and in a loop that runs to its end also the last - unless an object was
\* moved behind the end of its loop, or took a coroutine over there.
CoroutinesAreWhole == FramesAreHeld /\ ValuesAreSeenOnce /\ LoopsEndBehindTheLast
=============================================================================
