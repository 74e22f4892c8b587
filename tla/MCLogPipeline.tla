--------------------------- MODULE MCLogPipeline ---------------------------
(* Bounds for checking LogPipeline with TLC are all in the configurations. *)
EXTENDS LogPipeline
=============================================================================
