---------------------------- MODULE MCTimedTask ----------------------------
(***************************************************************************)
(* An instance of TimedTask, with ProcessEnd, for TLC.                     *)
(***************************************************************************)
EXTENDS TimedTask, TLC

CONSTANTS c1, m1

CallsOfCallers == c1 :> 2
AllThreads == {<<c1, 1>>, <<c1, 2>>, m1}
OneDestructor == <<"plain">>
=============================================================================
