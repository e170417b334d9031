--------------------------- MODULE ServiceChecker ---------------------------
(***************************************************************************)
(* The service adapter, services/crunchyroll/src/checker.ts: one object    *)
(* for the whole process, whose check() is called by the service stage of  *)
(* a cycle, one proxy at a time, and by every job that drains beside it.   *)
(* A check runs to its next await without interruption: the fetch of       *)
(* robots.txt, the sleep that keeps requests apart, and the request.       *)
(*                                                                         *)
(* Time is counted in ticks.  A timestamp is kept as the ticks until it is *)
(* reached, or since it was, up to the bound it is compared with.  A check *)
(* that is refused before its first await changes nothing but statistics   *)
(* and is no step.  `enabled`, the policy of the probe URL and             *)
(* respectRobots are configuration, taken to be on and permitting.         *)
(***************************************************************************)
EXTENDS Integers, FiniteSets

CONSTANTS
    Probers,        \* the calls of check() that may be open at the same time
    MaxChecks,      \* maxChecksPerCycle
    Burst,          \* capacity of the token bucket
    TicksPerToken,  \* its refill: one token in that many ticks
    MinSpacing,     \* minRequestSpacingMs
    CrawlDelays,    \* what a Crawl-delay may ask for; 0 for none
    RobotsTtl,      \* robotsCacheTtlMs
    Threshold,      \* failureThreshold of the circuit breaker
    OpenTicks,      \* its resetMs
    Backoffs,       \* what an answer may ask for; 0 for none
    MaxBackoff      \* the five minutes it is cut to

ASSUME CheckerAssumption ==
    /\ IsFiniteSet(Probers) /\ Probers # {}
    /\ {MaxChecks, Burst, MinSpacing, RobotsTtl, OpenTicks, MaxBackoff} \subseteq Nat
    /\ CrawlDelays \subseteq Nat /\ Backoffs \subseteq Nat
    /\ TicksPerToken \in Nat \ {0} /\ Threshold \in Nat \ {0}

VARIABLES
    tokens,     \* this.bucket, in ticks of refill
    spent,      \* this.checksThisCycle
    failures,   \* breaker.failures
    openFor,    \* ticks until breaker.openUntil
    cooldown,   \* ticks until this.cooldownUntil
    sinceLast,  \* ticks since this.lastRequestAt
    spacing,    \* this.spacingMs
    robots,     \* this.robots
    probe,      \* probe[p]: how far the check of p has come
    company     \* not in the code: the probers that met another one on the way

limits == <<tokens, spent>>
breaker == <<failures, openFor>>
policy == <<robots, spacing>>
vars == <<limits, breaker, cooldown, sinceLast, policy, probe, company>>

Larger(m, n) == IF m >= n THEN m ELSE n
Smaller(m, n) == IF m <= n THEN m ELSE n

Spacings == {MinSpacing} \cup {Larger(MinSpacing, d) : d \in CrawlDelays}

\* Age RobotsTtl stands for everything older, and for a policy never read.
Policy == [age : 0 .. RobotsTtl, allowed : BOOLEAN]

Idle == [stage |-> "idle", wait |-> 0]
Stage == {"idle", "robots", "sleeping", "sent"}

TypeOK ==
    /\ tokens \in 0 .. Burst * TicksPerToken
    /\ spent \in Nat
    /\ failures \in 0 .. Threshold - 1
    /\ openFor \in 0 .. OpenTicks
    /\ cooldown \in 0 .. MaxBackoff
    /\ sinceLast \in Nat
    /\ spacing \in Spacings
    /\ robots \in Policy
    /\ probe \in [Probers -> [stage : Stage, wait : Nat]]
    /\ company \subseteq Probers

Init ==
    /\ tokens = Burst * TicksPerToken
    /\ spent = 0
    /\ failures = 0 /\ openFor = 0 /\ cooldown = 0
    /\ spacing = MinSpacing
    /\ sinceLast = MinSpacing
    /\ robots = [age |-> RobotsTtl, allowed |-> TRUE]
    /\ probe = [p \in Probers |-> Idle]
    /\ company = {}

-----------------------------------------------------------------------------
(* check() *)

UnderWay == {p \in Probers : probe[p].stage # "idle"}

\* Mutation: an open breaker is not asked.
AdmittedThroughBreaker ==
    /\ cooldown = 0
    /\ spent < MaxChecks
    /\ tokens >= TicksPerToken

\* Mutation: the budget admits one more.
AdmittedOnceMore ==
    /\ cooldown = 0
    /\ openFor = 0
    /\ spent <= MaxChecks
    /\ tokens >= TicksPerToken

Admitted ==
    /\ cooldown = 0
    /\ openFor = 0
    /\ spent < MaxChecks
    /\ tokens >= TicksPerToken

At(p, stage, wait) == probe' = [probe EXCEPT ![p] = [stage |-> stage, wait |-> wait]]

Request(p) ==
    /\ At(p, "sent", 0)
    /\ sinceLast' = 0
    /\ spent' = spent + 1

\* Mutation: the sleep before the request is left out.
ProceedAtOnce(p, allowed, gap) ==
    IF allowed THEN Request(p)
               ELSE At(p, "idle", 0) /\ UNCHANGED <<sinceLast, spent>>

\* What follows the await of ensureRobots.
Proceed(p, allowed, gap) ==
    \/ /\ ~allowed
       /\ At(p, "idle", 0)
       /\ UNCHANGED <<sinceLast, spent>>
    \/ /\ allowed /\ sinceLast >= gap
       /\ Request(p)
    \/ /\ allowed /\ sinceLast < gap
       /\ At(p, "sleeping", gap - sinceLast)
       /\ UNCHANGED <<sinceLast, spent>>

Check(p) ==
    /\ probe[p] = Idle
    /\ Admitted
    /\ tokens' = tokens - TicksPerToken
    /\ company' = IF UnderWay = {} THEN company \ {p} ELSE company \cup UnderWay \cup {p}
    /\ IF robots.age < RobotsTtl
       THEN Proceed(p, robots.allowed, spacing)
       ELSE At(p, "robots", 0) /\ UNCHANGED <<sinceLast, spent>>
    /\ UNCHANGED <<breaker, cooldown, policy>>

\* A policy that cannot be fetched does not allow, a missing one and a server
\* error do; one that does not allow leaves the spacing alone.
RobotsRead(p) ==
    /\ probe[p].stage = "robots"
    /\ \E allowed \in BOOLEAN, delay \in CrawlDelays :
          /\ robots' = [age |-> 0, allowed |-> allowed]
          /\ spacing' = IF allowed THEN Larger(MinSpacing, delay) ELSE spacing
          /\ Proceed(p, allowed, spacing')
    /\ UNCHANGED <<tokens, breaker, cooldown, company>>

\* Mutation: on waking up the gap to the latest request is measured again.
WakeWhenSpaced(p) ==
    /\ probe[p].stage = "sleeping" /\ probe[p].wait = 0
    /\ sinceLast >= spacing
    /\ Request(p)
    /\ UNCHANGED <<tokens, breaker, cooldown, policy, company>>

Wake(p) ==
    /\ probe[p].stage = "sleeping" /\ probe[p].wait = 0
    /\ Request(p)
    /\ UNCHANGED <<tokens, breaker, cooldown, policy, company>>

-----------------------------------------------------------------------------
(* The answer, and ServiceCircuitBreaker.record. *)

RecordSuccess ==
    /\ failures' = Larger(0, failures - 2)
    /\ openFor' = IF 2 * failures' < Threshold THEN 0 ELSE openFor

\* Mutation: the counter goes on after the breaker has opened.
RecordFailureGoesOn ==
    /\ failures' = failures + 1
    /\ openFor' = IF failures' >= Threshold THEN OpenTicks ELSE openFor

RecordFailure ==
    IF failures + 1 < Threshold
    THEN failures' = failures + 1 /\ UNCHANGED openFor
    ELSE failures' = 0 /\ openFor' = OpenTicks

\* Any verdict may come with any backoff: a status of 429 without the header
\* asks for a minute, one with "Retry-After: 0" for nothing.  A requester that
\* throws is a failure without a backoff.
Answer(p) ==
    /\ probe[p].stage = "sent"
    /\ At(p, "idle", 0)
    /\ RecordSuccess \/ RecordFailure
    /\ \E backoff \in Backoffs :
          cooldown' = IF backoff > 0 THEN Smaller(backoff, MaxBackoff) ELSE cooldown
    /\ UNCHANGED <<limits, sinceLast, policy, company>>

-----------------------------------------------------------------------------
BeginCycle ==
    /\ spent' = 0
    /\ UNCHANGED <<tokens, breaker, cooldown, sinceLast, policy, probe, company>>

Down(n) == Larger(0, n - 1)

Tick ==
    /\ tokens' = Smaller(tokens + 1, Burst * TicksPerToken)
    /\ openFor' = Down(openFor)
    /\ cooldown' = Down(cooldown)
    /\ sinceLast' = IF \E gap \in Spacings : sinceLast < gap THEN sinceLast + 1 ELSE sinceLast
    /\ robots' = [robots EXCEPT !.age = Smaller(@ + 1, RobotsTtl)]
    /\ probe' = [p \in Probers |-> [probe[p] EXCEPT !.wait = Down(@)]]
    /\ UNCHANGED <<spent, failures, spacing, company>>

Progress(p) == RobotsRead(p) \/ Wake(p) \/ Answer(p)

Next ==
    \/ \E p \in Probers : Check(p) \/ Progress(p)
    \/ BeginCycle
    \/ Tick

Spec == Init /\ [][Next]_vars

\* Time passes, sleeps end, and the direct request for robots.txt has a timeout.
\* A probe goes through a tunnel, whose wait for TLS has none (see Requests): an
\* answer need never come.
FairSpec ==
    /\ Spec
    /\ WF_vars(Tick)
    /\ \A p \in Probers : WF_vars(RobotsRead(p) \/ Wake(p))

-----------------------------------------------------------------------------
Sends(p) == probe[p].stage # "sent" /\ probe'[p].stage = "sent"

(* The contract at the head of checker.ts -- robots-approved, spaced, within *)
(* the cycle's budget, paused by a cooldown and by an open breaker -- is met *)
(* by every request of a check that no other check ran beside, although the  *)
(* first three are looked at before two awaits and the fourth in between.    *)
AloneIsPolite ==
    [][\A p \in Probers : Sends(p) /\ p \notin company' =>
          /\ cooldown = 0 /\ openFor = 0
          /\ spent < MaxChecks
          /\ robots'.allowed
          /\ sinceLast >= spacing']_vars

(* "maxChecksPerCycle is a hard budget" (docs/ARCHITECTURE.md:223), checked  *)
(* before an await and counted after it: checks that run side by side exceed *)
(* it, by one each and no more, also when a cycle begins while they wait.    *)
BoundedOvershoot == spent < MaxChecks + Cardinality(Probers)

(* "Repeated failures open a circuit breaker for 120 s"                      *)
(* (docs/ARCHITECTURE.md:223): only the answer to a request that was sent    *)
(* beside others closes it before its time.                                  *)
BreakerHolds ==
    [][openFor > 1 /\ openFor' = 0 =>
          \E p \in company : probe[p].stage = "sent" /\ probe'[p].stage = "idle"]_vars

(* Every check comes to an end unless its proxy never answers, whatever the  *)
(* checks beside it do to the spacing and the cooldown, and also when one of *)
(* them hangs: none sleeps for ever.                                         *)
ChecksEnd ==
    \A p \in Probers :
        \/ probe[p].stage # "idle" ~> probe[p].stage = "idle"
        \/ <>[](probe[p].stage = "sent")
=============================================================================
