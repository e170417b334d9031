--------------------------- MODULE MCRefreshCycle ---------------------------
(* Instances of the refresh cycle for TLC; the constants are in MC*.cfg. *)
EXTENDS RefreshCycleProperties, TLC

ProxySymmetry == Permutations(Proxies)
=============================================================================
