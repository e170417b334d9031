--------------------------- MODULE PoolLifecycle ---------------------------
(***************************************************************************)
(* What the rolling pool promises about the life of one endpoint,          *)
(* whatever cycles, queues and sweeps do: the states the status column     *)
(* takes (db/src/types.ts), which moves between them exist, and the one    *)
(* fact every move depends on -- whether the endpoint has ever passed a    *)
(* connectivity check.  A step moves any set of endpoints the same way,    *)
(* because the code does so in one statement.                              *)
(***************************************************************************)
CONSTANT Proxies

VARIABLES
    life,    \* life[p]: the status of p, "absent" before discovery
    proven   \* the endpoints that have passed a connectivity check

State == {"absent", "new", "pending", "active", "quarantined", "dead"}

Init ==
    /\ life = [p \in Proxies |-> "absent"]
    /\ proven = {}

In(states) == {p \in Proxies : life[p] \in states}

\* Every endpoint of S moves to the state `there`; nothing is learned.
MoveTo(S, there) ==
    /\ life' = [p \in Proxies |-> IF p \in S THEN there ELSE life[p]]
    /\ UNCHANGED proven

\* A source lists the endpoint: it enters, or re-enters, the backlog.
Discover == \E S \in SUBSET In({"absent", "dead"}) : MoveTo(S, "new")

\* A cycle claims it for validation.
Claim == \E S \in SUBSET In({"new", "quarantined", "active"}) : MoveTo(S, "pending")

\* A claimed endpoint is judged.  Only one that has passed, now or before,
\* may serve; only one that never has may be given up.
Judge ==
    \E S \in SUBSET In({"pending"}) :
    \E passed \in SUBSET S, verdict \in [S -> State \ {"absent", "pending"}] :
        /\ proven' = proven \cup passed
        /\ \A p \in S :
              /\ verdict[p] = "active" => p \in proven'
              /\ verdict[p] = "new" => p \notin passed
              /\ verdict[p] = "dead" => p \notin proven'
        /\ life' = [p \in Proxies |-> IF p \in S THEN verdict[p] ELSE life[p]]

\* The service lets in an endpoint whose connectivity score was too low.
Lift == \E S \in SUBSET (In({"pending", "quarantined"}) \cap proven) : MoveTo(S, "active")

Expire == \E S \in SUBSET In({"active"}) : MoveTo(S, "dead")

Demote == \E S \in SUBSET In({"active"}) : MoveTo(S, "quarantined")

Release == \E S \in SUBSET In({"pending"}) : MoveTo(S, "new")

\* Retention removes endpoints that are dead and never worked.
Forget == \E S \in SUBSET (In({"dead"}) \ proven) : MoveTo(S, "absent")

Next ==
    \/ Discover \/ Claim \/ Judge \/ Lift
    \/ Expire \/ Demote \/ Release \/ Forget

Spec == Init /\ [][Next]_<<life, proven>>
=============================================================================
