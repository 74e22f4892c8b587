-------------------------- MODULE MCBroadcastQueue --------------------------
(* Model values for checking BroadcastQueue with TLC: one consumer of each *)
(* kind.                                                                   *)
EXTENDS BroadcastQueue

CONSTANTS logger, portal
MCTrusting == {logger}
MCClamping == {portal}
=============================================================================
