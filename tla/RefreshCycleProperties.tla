----------------------- MODULE RefreshCycleProperties -----------------------
(***************************************************************************)
(* What the refresh cycle promises.  Which of these hold, and for which    *)
(* ways of running cycles, is said in README.md and checked by the         *)
(* configurations MC*.cfg.                                                 *)
(***************************************************************************)
EXTENDS RefreshCycle

(* Once a cycle has been recorded as completed and until the next one      *)
(* begins, nothing is left claimed, the pool is within POOL_MAX_ACTIVE and *)
(* no member stands at the failure threshold, whatever earlier cycles died *)
(* of (PoolManager.finalize).                                              *)
SettledPool ==
    \A c \in Cycles :
        pc[c] \in {"idle", "wrapUp"} /\ record[c] = "completed" =>
            /\ WithStatus("pending") = {}
            /\ Cardinality(Members) <= MaxActive
            /\ \A p \in Members : rows[p].failures < MaxConsecutiveFailures

(* Every pool member has passed a check at some time and its present run   *)
(* of failures is shorter than the threshold at every instant, not only    *)
(* after the sweep: planValidation and planService never let one in, so    *)
(* the quarantineFailures sweep of finalize has nothing to find.           *)
MembersVouched ==
    \A p \in Members :
        /\ rows[p].passedAge # Never
        /\ rows[p].failures < MaxConsecutiveFailures
        /\ rows[p].validation = "passed" <=> rows[p].failures = 0

(* As long as nothing has failed, a proxy whose latest check passed, with   *)
(* a score worth pooling and within the TTL, is not sent back to the        *)
(* backlog of unvalidated rows: "healthy entries keep their state"          *)
(* (worker/src/pool/manager.ts:4).                                          *)
HealthyKeptOutOfBacklog ==
    faults = 0 =>
        \A p \in WithStatus("new") :
            ~ /\ rows[p].validation = "passed"
              /\ rows[p].score >= MinPoolScore
              /\ ~OlderThan(rows[p].passedAge, PoolTtl)

-----------------------------------------------------------------------------
(* Statement by statement, the cycle moves endpoints only the way           *)
(* PoolLifecycle allows: nothing serves that never passed, nothing is      *)
(* given up that once did except by expiry, nothing leaves "dead" but by   *)
(* being listed again, and no endpoint is judged that was not claimed.     *)
Lifecycle == INSTANCE PoolLifecycle WITH
    life   <- [p \in Proxies |-> rows[p].status],
    proven <- {p \in Proxies : rows[p].passedAge # Never}

ImplementsLifecycle == Lifecycle!Spec

(* enforcePoolCapacity counts and demotes in two statements: it never      *)
(* demotes below the capacity it enforces, nor a better member than one it *)
(* keeps.                                                                  *)
DemotesOnlyOverflow ==
    [][\A c \in Cycles : pc[c] = "demote" /\ pc'[c] = "releaseOwn" =>
          LET kept == {p \in Members : rows'[p].status = "active"}
          IN  /\ Cardinality(kept) = MaxActive
              /\ \A p \in Members \ kept, q \in kept : rows[p].score <= rows[q].score]_vars

(* Rows claimed by a cycle that is still validating them stay claimed      *)
(* until that cycle writes them: pending rows of a different cycle "can    *)
(* only be left over from an abandoned run" (db/src/repositories/          *)
(* proxies.ts:265).                                                        *)
LiveClaimsKept ==
    [][\A c \in Cycles, p \in Proxies :
          /\ pc[c] = "validate" /\ pc'[c] = "validate"
          /\ rows[p].status = "pending" /\ rows[p].owner = c
          => rows'[p].status = "pending"]_vars

-----------------------------------------------------------------------------
\* A cycle waits for ever for the jobs of its stage.
Hangs(c) == <>[](pc[c] = "validate") \/ <>[](pc[c] = "probe")

\* A source lists another endpoint than p anew, one the table does not hold
\* or one that was given up.
OtherListed(p) ==
    \E q \in Proxies \ {p} : rows[q].status \in {"absent", "dead"} /\ rows'[q].status = "new"

(* Every discovered proxy is eventually judged: a row in the backlog ends  *)
(* up in the pool, in quarantine or dead, however many cycles die on the   *)
(* way, however often its own checks fail and whoever is ahead of it in    *)
(* the slice of selectValidationQueue (db/src/repositories/proxies.ts:213, *)
(* worker/src/pipeline/cycle.ts:237).  Two things may keep it waiting: a   *)
(* stage that hangs, and endpoints that fail, die and are listed again for *)
(* ever, which take its place each time.                                   *)
BacklogDrains ==
    \A p \in Proxies :
        \/ rows[p].status = "new" ~> rows[p].status \in {"active", "quarantined", "dead"}
        \/ \E c \in Cycles : Hangs(c)
        \/ []<><<OtherListed(p)>>_vars

(* A claim never outlives the faults: a pending row gets an outcome or     *)
(* goes back to the backlog even if the cycle that claimed it crashed,     *)
(* unless the stage of a cycle hangs.                                      *)
ClaimsResolved ==
    \A p \in Proxies :
        \/ rows[p].status = "pending" ~> rows[p].status # "pending"
        \/ \E c \in Cycles : Hangs(c)
=============================================================================
