---------------------------- MODULE MCEventManager ----------------------------
(* Two controllers on one channel besides tick.                              *)
EXTENDS EventManager

CONSTANTS c1, c2, game
=============================================================================
