---------------------------- MODULE MCSingleJobs ----------------------------
(* Instances of the jobs beside the refresh cycle for TLC. *)
EXTENDS SingleJobs, TLC

ProxySymmetry == Permutations(Proxies)
=============================================================================
