-------------------------- MODULE MCServiceChecker --------------------------
(* Instances of the service adapter for TLC. *)
EXTENDS ServiceChecker
=============================================================================
