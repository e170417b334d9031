--------------------------- MODULE MCEdgeGateway ---------------------------
(* Instances of the gateway for TLC. *)
EXTENDS EdgeGateway

\* One endpoint that is cached for a second and one that never is.
Lifetimes == [k \in Keys |-> IF k = "pool" THEN 1 ELSE 0]
=============================================================================
