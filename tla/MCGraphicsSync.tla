--------------------------- MODULE MCGraphicsSync ---------------------------
(* Bounds for checking GraphicsSync with TLC are in the configurations.    *)
EXTENDS GraphicsSync
=============================================================================
