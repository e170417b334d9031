------------------------------ MODULE PoolRules ------------------------------
(***************************************************************************)
(* The rules that move one proxy through the rolling pool: the row that    *)
(* db/src/repositories/proxies.ts stores for it, the status transitions    *)
(* worker/src/pool/manager.ts plans, and the SQL statements that apply     *)
(* them.  Everything here is a pure operator on one row or on a set of     *)
(* rows; who applies which rule, and when, is the business of the modules  *)
(* that extend this one.                                                   *)
(*                                                                         *)
(* Data the rules never branch on (host, credentials, latency, counters    *)
(* that only feed the score, notes) is left out.  A timestamp is kept as   *)
(* its age in ticks, saturated one tick past the only bound the code       *)
(* compares it with; consecutive_failures saturates at the largest value   *)
(* the code compares it with.                                              *)
(***************************************************************************)
EXTENDS Integers, FiniteSets

CONSTANTS
    Cycles,                 \* the invocations of runCycle that may exist side by side
    NoCycle,                \* owner of a row whose last cycle is over (or unknown)
    Scores,                 \* the values a score may take
    MinPoolScore,           \* POOL_MIN_SCORE
    MinServiceScore,        \* CR_MIN_SCORE
    MaxConsecutiveFailures, \* POOL_MAX_CONSECUTIVE_FAILURES
    PoolTtl,                \* POOL_TTL_MINUTES, in ticks
    RecheckAfter,           \* POOL_RECHECK_AFTER_MINUTES, in ticks
    ServiceRecheckAfter,    \* CR_RECHECK_AFTER_MINUTES, in ticks
    Verdicts                \* the verdicts the service adapter may return

ASSUME RulesAssumption ==
    /\ NoCycle \notin Cycles
    /\ Scores \subseteq Nat /\ 0 \in Scores
    /\ MinPoolScore \in Nat /\ MinServiceScore \in Nat
    /\ MaxConsecutiveFailures \in Nat \ {0}
    /\ PoolTtl \in Nat /\ RecheckAfter \in Nat /\ ServiceRecheckAfter \in Nat
    /\ Verdicts \subseteq {"passed", "failed", "blocked", "skipped"}

-----------------------------------------------------------------------------
(* The row. *)

Never == -1                              \* a timestamp column that is NULL
AgeUpTo(bound) == {Never} \cup 0 .. (bound + 1)

\* "absent": the table holds no row for this endpoint.
Status == {"absent", "new", "pending", "active", "quarantined", "dead"}
ValidationStatus == {"unchecked", "passed", "failed"}
ServiceStatus == {"untested", "passed", "failed", "blocked", "skipped"}

FailureCap == 3 * MaxConsecutiveFailures

Row == [ status     : Status,
         validation : ValidationStatus,
         service    : ServiceStatus,
         score      : Scores,
         failures   : 0 .. FailureCap,              \* consecutive_failures
         checkedAge : AgeUpTo(RecheckAfter),        \* last_checked_at
         passedAge  : AgeUpTo(PoolTtl),             \* last_passed_at
         serviceAge : AgeUpTo(ServiceRecheckAfter), \* service_checked_at
         owner      : Cycles \cup {NoCycle} ]       \* last_cycle_id

NoRow == [ status |-> "absent", validation |-> "unchecked", service |-> "untested",
           score |-> 0, failures |-> 0, checkedAge |-> Never, passedAge |-> Never,
           serviceAge |-> Never, owner |-> NoCycle ]

OlderThan(age, bound) == age = Never \/ age > bound

Aged(age, bound) == IF age \in {Never, bound + 1} THEN age ELSE age + 1

AgedRow(row) ==
    [row EXCEPT !.checkedAge = Aged(@, RecheckAfter),
                !.passedAge  = Aged(@, PoolTtl),
                !.serviceAge = Aged(@, ServiceRecheckAfter)]

\* ORDER BY ... LIMIT n over the rows in S, with ties left open.
FirstN(S, n, Before(_, _)) ==
    { T \in SUBSET S :
        /\ Cardinality(T) = IF Cardinality(S) <= n THEN Cardinality(S) ELSE n
        /\ \A t \in T, s \in S \ T : ~Before(s, t) }

-----------------------------------------------------------------------------
(* Discovery and claims. *)

\* Mutation: a known row is reset like a new one, unless it is claimed.
UpsertedReset(row, cycle) ==
    IF row.status = "absent"
    THEN [NoRow EXCEPT !.status = "new", !.owner = cycle]
    ELSE [row EXCEPT !.owner = cycle, !.status = IF @ = "pending" THEN @ ELSE "new"]

Upserted(row, cycle) ==
    IF row.status = "absent"
    THEN [NoRow EXCEPT !.status = "new", !.owner = cycle]
    ELSE [row EXCEPT !.owner = cycle, !.status = IF @ = "dead" THEN "new" ELSE @]

DueForRecheck(row) == row.status = "active" /\ OlderThan(row.checkedAge, RecheckAfter)

Claimed(row, cycle) ==
    IF row.status \in {"new", "quarantined", "active"}
    THEN [row EXCEPT !.status = "pending", !.owner = cycle]
    ELSE row

ReleasedOwn(row, cycle) ==
    IF row.status = "pending" /\ row.owner = cycle
    THEN [row EXCEPT !.status = "new"] ELSE row

\* Mutation: last_cycle_id is compared with = instead of !=.
ReleasedForeignOwn(row, cycle) == ReleasedOwn(row, cycle)

ReleasedForeign(row, cycle) ==
    IF row.status = "pending" /\ row.owner # cycle
    THEN [row EXCEPT !.status = "new"] ELSE row

-----------------------------------------------------------------------------
(* Connectivity: `seen` is the copy of the row the check was planned from, *)
(* `row` the one the UPDATE finds.                                         *)

\* Mutation: the failure is not counted.
FailuresAfterUncounted(seen, reachable) == IF reachable THEN 0 ELSE seen.failures

FailuresAfter(seen, reachable) ==
    IF reachable THEN 0
    ELSE IF seen.failures = FailureCap THEN FailureCap ELSE seen.failures + 1

\* Mutation: whether the proxy ever passed is not asked.
HopelessAnyway(seen, failures) == failures >= FailureCap

Hopeless(seen, failures) == seen.passedAge = Never /\ failures >= FailureCap

StatusAfterCheck(seen, reachable, score) ==
    LET failures == FailuresAfter(seen, reachable)
    IN  CASE reachable /\ score >= MinPoolScore -> "active"
          [] reachable /\ score < MinPoolScore -> "quarantined"
          [] ~reachable /\ failures >= MaxConsecutiveFailures ->
                IF Hopeless(seen, failures) THEN "dead" ELSE "quarantined"
          [] ~reachable /\ failures < MaxConsecutiveFailures ->
                IF seen.status \in {"active", "quarantined"} THEN seen.status ELSE "new"

\* scoreProxyDetailed: a failed check scores 0, a passed one anything.
CheckScores(reachable) == IF reachable THEN Scores ELSE {0}

AfterCheck(row, seen, reachable, score) ==
    [row EXCEPT !.status     = StatusAfterCheck(seen, reachable, score),
                !.validation = IF reachable THEN "passed" ELSE "failed",
                !.failures   = FailuresAfter(seen, reachable),
                !.checkedAge = 0,
                !.passedAge  = IF reachable THEN 0 ELSE @,
                !.score      = score,
                !.service    = seen.service]

-----------------------------------------------------------------------------
(* The service verdict. *)

\* Mutation: the result of the connectivity check is not asked.
WorthProbingUnchecked(row) ==
    row.score >= MinServiceScore /\ row.service # "passed"

WorthProbing(row) ==
    /\ row.validation = "passed"
    /\ row.score >= MinServiceScore
    /\ row.service # "passed"

ServiceStale(row) ==
    /\ row.status = "active"
    /\ row.score >= MinServiceScore
    /\ OlderThan(row.serviceAge, ServiceRecheckAfter)

\* combineScores: without a verdict the connectivity score stands alone, and
\* that is 0 after a failed check.
VerdictScores(seen, verdict) ==
    IF verdict = "skipped" /\ seen.validation = "failed" THEN {0} ELSE Scores

AfterVerdict(row, seen, verdict, score) ==
    [row EXCEPT !.service    = verdict,
                !.serviceAge = 0,
                !.score      = score,
                !.status     = IF verdict = "passed" THEN "active" ELSE seen.status]

-----------------------------------------------------------------------------
(* The sweeps that end a cycle. *)

Expired(row) == row.status = "active" /\ OlderThan(row.passedAge, PoolTtl)

\* Mutation: a status the schema's CHECK does not know.
AfterExpiryUnknownStatus(row) ==
    IF Expired(row) THEN [row EXCEPT !.status = "expired", !.validation = "failed"] ELSE row

AfterExpiry(row) ==
    IF Expired(row) THEN [row EXCEPT !.status = "dead", !.validation = "failed"] ELSE row

AtThreshold(row) == row.status = "active" /\ row.failures >= MaxConsecutiveFailures

AfterQuarantine(row) ==
    IF AtThreshold(row) THEN [row EXCEPT !.status = "quarantined"] ELSE row

Prunable(row) == row.status = "dead" /\ row.passedAge = Never
=============================================================================
