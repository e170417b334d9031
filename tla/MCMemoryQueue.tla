--------------------------- MODULE MCMemoryQueue ---------------------------
(* Instances of the memory queue for TLC. *)
EXTENDS MemoryQueue
=============================================================================
