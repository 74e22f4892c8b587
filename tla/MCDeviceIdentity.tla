-------------------------- MODULE MCDeviceIdentity --------------------------
(* Bounds for checking DeviceIdentity with TLC are in the configurations.  *)
(* The request threads are alike, and no property follows one of them.     *)
EXTENDS DeviceIdentity, TLC

ThreadSymmetry == Permutations(Threads)
=============================================================================
