----------------------------- MODULE MCRequests -----------------------------
(* Instances of the requests for TLC. *)
EXTENDS Requests

\* Every client, protocol and target; credentials matter to SOCKS5 only.
AllJobs == {j \in Job : /\ j.client = "direct" => j.protocol = "http" /\ ~j.refused
                        /\ j.auth => j.protocol = "socks5"
                        /\ j.refused => j.host = "public" /\ j.protocol = "http"}
=============================================================================
