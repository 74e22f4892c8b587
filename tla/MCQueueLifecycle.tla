-------------------------- MODULE MCQueueLifecycle --------------------------
(* Model values for checking QueueLifecycle with TLC: one reader of a kind *)
(* is enough, since readers do not touch each other.                      *)
EXTENDS QueueLifecycle

CONSTANTS logger, portal, bridge
MCBound == {logger}
MCLazy == {portal}
MCOnce == {bridge}
=============================================================================
