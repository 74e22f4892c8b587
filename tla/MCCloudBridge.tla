--------------------------- MODULE MCCloudBridge ---------------------------
(* Bounds for checking CloudBridge with TLC are in the configuration.      *)
EXTENDS CloudBridge
=============================================================================
