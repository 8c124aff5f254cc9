--------------------------- MODULE MCSignalManager ---------------------------
(***************************************************************************)
(* Instances of SignalManager for TLC: two signals, so that the handler of *)
(* one can interrupt the other's, and two clients.                         *)
(***************************************************************************)
EXTENDS SignalManager

CONSTANTS usr1, usr2, a, b
=============================================================================
