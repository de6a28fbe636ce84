---------------------------- MODULE MCSmartLock ----------------------------
(* A small instance of SmartLock for TLC. *)
EXTENDS SmartLock
=============================================================================
