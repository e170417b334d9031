------------------------------ MODULE MCWorker ------------------------------
(* Instances of the worker process for TLC. *)
EXTENDS WorkerProperties
=============================================================================
