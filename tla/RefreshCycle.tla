---------------------------- MODULE RefreshCycle ----------------------------
(***************************************************************************)
(* The refresh cycle of worker/src/pipeline/cycle.ts, statement by         *)
(* statement as the database sees it: every action is the code between two *)
(* awaits that touch the proxies or the refresh_cycles table.              *)
(*                                                                         *)
(* Each element of Cycles is one place runCycle can be invoked from.  With *)
(* one element this is the worker as the scheduler drives it: busy admits  *)
(* one cycle at a time.  A second element is the runCycle call of          *)
(* handleExternalJob, which does not go through the scheduler.             *)
(*                                                                         *)
(* A cycle id is fresh for every cycle, so all a row can tell from its     *)
(* last_cycle_id is whether that cycle is one of those running now:        *)
(* when a cycle ends its rows' owner becomes NoCycle.                      *)
(***************************************************************************)
EXTENDS PoolRules

CONSTANTS
    Proxies,          \* endpoints the sources may list
    NewLimit,         \* POOL_MAX_NEW_PER_CYCLE
    QuarantineLimit,  \* POOL_MAX_QUARANTINE_RECHECK_PER_CYCLE
    RecheckLimit,     \* POOL_MAX_RECHECK_PER_CYCLE
    MaxPerCycle,      \* VALIDATION_MAX_PER_CYCLE
    ServiceBudget,    \* CR_MAX_CHECKS_PER_CYCLE, 0 when the service stage is off
    MaxActive,        \* POOL_MAX_ACTIVE
    JobsMayBeLost,    \* TRUE: a job may leave the queue without an outcome
    MaxFaults         \* bound: database errors and crashes in one behaviour

ASSUME CycleAssumption ==
    /\ IsFiniteSet(Proxies)
    /\ NewLimit \in Nat /\ QuarantineLimit \in Nat /\ RecheckLimit \in Nat
    /\ MaxPerCycle \in Nat /\ ServiceBudget \in Nat /\ MaxActive \in Nat
    /\ MaxFaults \in Nat
    /\ JobsMayBeLost \in BOOLEAN

VARIABLES
    rows,      \* the proxies table
    pc,        \* pc[c]: the statement cycle c is at
    picked,    \* picked[c]: rowsById, the ids selected for validation
    seen,      \* seen[c]: the copies of rows the current stage works from
    overflow,  \* overflow[c]: members past the cap when they were counted
    record,    \* record[c]: the refresh_cycles row of c's latest cycle
    orphans,   \* some 'running' refresh_cycles row belongs to no live cycle
    faults     \* database errors and crashes so far

vars == <<rows, pc, picked, seen, overflow, record, orphans, faults>>

Stage == { "idle", "upsert", "select", "claim", "validate", "shortlist", "probe",
           "expire", "quarantine", "count", "demote", "releaseOwn", "releaseForeign",
           "complete", "wrapUp", "failRecord", "failRelease" }

InTry == Stage \ {"idle", "failRecord", "failRelease"}

TypeOK ==
    /\ rows \in [Proxies -> Row]
    /\ pc \in [Cycles -> Stage]
    /\ picked \in [Cycles -> SUBSET Proxies]
    /\ DOMAIN seen = Cycles
    /\ \A c \in Cycles : /\ DOMAIN seen[c] \subseteq Proxies
                         /\ \A p \in DOMAIN seen[c] : seen[c][p] \in Row
    /\ overflow \in [Cycles -> Nat]
    /\ record \in [Cycles -> {"none", "running", "completed", "failed"}]
    /\ orphans \in BOOLEAN
    /\ faults \in 0 .. MaxFaults

NoCopies == [p \in {} |-> NoRow]

Init ==
    /\ rows = [p \in Proxies |-> NoRow]
    /\ pc = [c \in Cycles |-> "idle"]
    /\ picked = [c \in Cycles |-> {}]
    /\ seen = [c \in Cycles |-> NoCopies]
    /\ overflow = [c \in Cycles |-> 0]
    /\ record = [c \in Cycles |-> "none"]
    /\ orphans = FALSE
    /\ faults = 0

-----------------------------------------------------------------------------
WithStatus(s) == {p \in Proxies : rows[p].status = s}
Copies(S) == [p \in S |-> rows[p]]
Members == WithStatus("active")

At(c, here) == pc[c] = here
Goto(c, there) == pc' = [pc EXCEPT ![c] = there]

\* One UPDATE (or one batch) that maps every row p to f(p).
Write(f(_)) == rows' = [p \in Proxies |-> f(p)]

bookkeeping == <<record, orphans, faults>>

-----------------------------------------------------------------------------
(* Start: the refresh_cycles row, then meta.scheduler.current_cycle_id.    *)

StartCycle(c) ==
    /\ At(c, "idle")
    /\ Goto(c, "upsert")
    /\ record' = [record EXCEPT ![c] = "running"]
    /\ UNCHANGED <<rows, picked, seen, overflow, orphans, faults>>

\* The second write fails: it stands outside the try, so runCycle throws and
\* nothing ever closes the row the first one inserted.
StartThrows(c) ==
    /\ At(c, "idle")
    /\ faults < MaxFaults
    /\ faults' = faults + 1
    /\ orphans' = TRUE
    /\ UNCHANGED <<rows, pc, picked, seen, overflow, record>>

-----------------------------------------------------------------------------
(* Discovery and the validation stage. *)

UpsertCandidates(c) ==
    /\ At(c, "upsert")
    /\ Goto(c, "select")
    /\ \E found \in SUBSET Proxies :
          Write(LAMBDA p : IF p \in found THEN Upserted(rows[p], c) ELSE rows[p])
    /\ UNCHANGED <<picked, seen, overflow, bookkeeping>>

LongerUnchecked(p, q) ==
    /\ rows[q].checkedAge # Never
    /\ rows[p].checkedAge = Never \/ rows[p].checkedAge > rows[q].checkedAge

\* The three SELECTs of selectValidationQueue: which rows are the oldest `new`
\* ones (ORDER BY id) is left open.
NewBatches == FirstN(WithStatus("new"), NewLimit, LAMBDA p, q : FALSE)
OldBatches == FirstN(WithStatus("quarantined"), QuarantineLimit, LongerUnchecked)
DueBatches == FirstN({p \in Proxies : DueForRecheck(rows[p])}, RecheckLimit, LongerUnchecked)

\* The slice of their concatenation: new rows before quarantined ones before
\* members due for a recheck.
Slice(new, old, due) ==
    FirstN(new \cup old \cup due, MaxPerCycle,
           LAMBDA p, q : \/ p \in new /\ q \notin new
                         \/ p \in old /\ q \in due
                         \/ {p, q} \subseteq old /\ LongerUnchecked(p, q)
                         \/ {p, q} \subseteq due /\ LongerUnchecked(p, q))

ValidationBatches ==
    UNION { Slice(new, old, due) : new \in NewBatches, old \in OldBatches, due \in DueBatches }

SelectValidationQueue(c) ==
    /\ At(c, "select")
    /\ \E batch \in ValidationBatches :
          /\ picked' = [picked EXCEPT ![c] = batch]
          /\ seen' = [seen EXCEPT ![c] = Copies(batch)]
          /\ Goto(c, IF batch = {} THEN "shortlist" ELSE "claim")
    /\ UNCHANGED <<rows, overflow, bookkeeping>>

ClaimRows(c, ids) ==
    Write(LAMBDA p : IF p \in ids THEN Claimed(rows[p], c) ELSE rows[p])

MarkPending(c) ==
    /\ At(c, "claim")
    /\ Goto(c, "validate")
    /\ ClaimRows(c, picked[c])
    /\ UNCHANGED <<picked, seen, overflow, bookkeeping>>

\* Which of the jobs handed to the queue come back with an outcome.
Answered(ids) == IF JobsMayBeLost THEN SUBSET ids ELSE {ids}

\* planValidation over the copies taken by SelectValidationQueue, and what
\* persistValidationOutcomes writes of it.
WriteChecks(c, ids) ==
    \E reachable \in [ids -> BOOLEAN], score \in [ids -> Scores] :
        /\ \A p \in ids : score[p] \in CheckScores(reachable[p])
        /\ Write(LAMBDA p :
              IF p \in ids /\ rows[p].status # "absent"
              THEN AfterCheck(rows[p], seen[c][p], reachable[p], score[p])
              ELSE rows[p])

\* The drain of the VALIDATE jobs and what comes of it.
PersistValidation(c) ==
    /\ At(c, "validate")
    /\ Goto(c, "shortlist")
    /\ \E answered \in Answered(picked[c]) : WriteChecks(c, answered)
    /\ UNCHANGED <<picked, seen, overflow, bookkeeping>>

-----------------------------------------------------------------------------
(* The service stage. *)

HigherScore(p, q) == rows[p].score > rows[q].score

\* Rows of this cycle's batch that passed, then pool members whose verdict is
\* stale, together within the budget.
FreshCandidates(c) ==
    FirstN({p \in picked[c] : rows[p].status # "absent" /\ WorthProbing(rows[p])},
           ServiceBudget, HigherScore)

StaleCandidates(room) ==
    FirstN({p \in Proxies : ServiceStale(rows[p])}, room, HigherScore)

ServiceCandidates(c) ==
    UNION { { fresh \cup stale : stale \in StaleCandidates(ServiceBudget - Cardinality(fresh)) } :
            fresh \in FreshCandidates(c) }

Shortlist(c) ==
    /\ At(c, "shortlist")
    /\ \/ /\ ServiceBudget = 0
          /\ Goto(c, "expire")
          /\ seen' = [seen EXCEPT ![c] = NoCopies]
       \/ /\ ServiceBudget > 0
          /\ \E chosen \in ServiceCandidates(c) :
                /\ seen' = [seen EXCEPT ![c] = Copies(chosen)]
                /\ Goto(c, IF chosen = {} THEN "expire" ELSE "probe")
    /\ UNCHANGED <<rows, picked, overflow, bookkeeping>>

WriteVerdicts(c, ids) ==
    \E verdict \in [ids -> Verdicts], score \in [ids -> Scores] :
        /\ \A p \in ids : score[p] \in VerdictScores(seen[c][p], verdict[p])
        /\ Write(LAMBDA p :
              IF p \in ids /\ rows[p].status # "absent"
              THEN AfterVerdict(rows[p], seen[c][p], verdict[p], score[p])
              ELSE rows[p])

PersistService(c) ==
    /\ At(c, "probe")
    /\ Goto(c, "expire")
    /\ \E answered \in Answered(DOMAIN seen[c]) : WriteVerdicts(c, answered)
    /\ seen' = [seen EXCEPT ![c] = NoCopies]
    /\ UNCHANGED <<picked, overflow, bookkeeping>>

-----------------------------------------------------------------------------
(* finalize: the sweeps, in the order PoolManager runs them. *)

ExpireStale(c) ==
    /\ At(c, "expire")
    /\ Goto(c, "quarantine")
    /\ Write(LAMBDA p : AfterExpiry(rows[p]))
    /\ UNCHANGED <<picked, seen, overflow, bookkeeping>>

QuarantineFailures(c) ==
    /\ At(c, "quarantine")
    /\ Goto(c, "count")
    /\ Write(LAMBDA p : AfterQuarantine(rows[p]))
    /\ UNCHANGED <<picked, seen, overflow, bookkeeping>>

\* enforcePoolCapacity counts in one statement and demotes in a second one.
CountMembers(c) ==
    /\ At(c, "count")
    /\ LET active == Cardinality(Members)
       IN  IF active <= MaxActive
           THEN /\ Goto(c, "releaseOwn")
                /\ UNCHANGED overflow
           ELSE /\ Goto(c, "demote")
                /\ overflow' = [overflow EXCEPT ![c] = active - MaxActive]
    /\ UNCHANGED <<rows, picked, seen, bookkeeping>>

\* Mutation: the best members are demoted first.
LowerScoreReversed(p, q) == rows[p].score > rows[q].score

LowerScore(p, q) == rows[p].score < rows[q].score

DemoteOverflow(c) ==
    /\ At(c, "demote")
    /\ Goto(c, "releaseOwn")
    /\ \E demoted \in FirstN(Members, overflow[c], LowerScore) :
          Write(LAMBDA p : IF p \in demoted
                           THEN [rows[p] EXCEPT !.status = "quarantined"] ELSE rows[p])
    /\ overflow' = [overflow EXCEPT ![c] = 0]
    /\ UNCHANGED <<picked, seen, bookkeeping>>

ReleaseOrphanedPending(c) ==
    /\ At(c, "releaseOwn")
    /\ Goto(c, "releaseForeign")
    /\ Write(LAMBDA p : ReleasedOwn(rows[p], c))
    /\ UNCHANGED <<picked, seen, overflow, bookkeeping>>

ReleaseForeignPending(c) ==
    /\ At(c, "releaseForeign")
    /\ Goto(c, "complete")
    /\ Write(LAMBDA p : ReleasedForeign(rows[p], c))
    /\ UNCHANGED <<picked, seen, overflow, bookkeeping>>

\* stats and the statistics snapshot, then cycles.complete.
Complete(c) ==
    /\ At(c, "complete")
    /\ Goto(c, "wrapUp")
    /\ record' = [record EXCEPT ![c] = "completed"]
    /\ UNCHANGED <<rows, picked, seen, overflow, orphans, faults>>

-----------------------------------------------------------------------------
(* The end of a cycle: every way out of runCycle passes here.              *)

Forgotten(row, c) == IF row.owner = c THEN [row EXCEPT !.owner = NoCycle] ELSE row

Leave(c, f(_)) ==
    /\ Goto(c, "idle")
    /\ Write(LAMBDA p : Forgotten(f(p), c))
    /\ picked' = [picked EXCEPT ![c] = {}]
    /\ seen' = [seen EXCEPT ![c] = NoCopies]
    /\ overflow' = [overflow EXCEPT ![c] = 0]

\* Once a day, among the metadata writes of a completed cycle: which of the
\* prunable rows are past their retention is left open.
PruneHistory(c) ==
    /\ At(c, "wrapUp")
    /\ \E pruned \in (SUBSET {p \in Proxies : Prunable(rows[p])}) \ {{}} :
          Write(LAMBDA p : IF p \in pruned THEN NoRow ELSE rows[p])
    /\ UNCHANGED <<pc, picked, seen, overflow, bookkeeping>>

WrapUp(c) ==
    /\ At(c, "wrapUp")
    /\ Leave(c, LAMBDA p : rows[p])
    /\ UNCHANGED bookkeeping

\* Any statement inside the try may throw.
Throw(c) ==
    /\ pc[c] \in InTry
    /\ faults < MaxFaults
    /\ faults' = faults + 1
    /\ Goto(c, "failRecord")
    /\ UNCHANGED <<rows, picked, seen, overflow, record, orphans>>

\* markPending and the two persist methods write chunk by chunk: the one that
\* throws may leave any part of its rows written.  A crash between two chunks
\* is this step followed by Crash.
WriteThrows(c) ==
    /\ faults < MaxFaults
    /\ faults' = faults + 1
    /\ Goto(c, "failRecord")
    /\ \/ At(c, "claim") /\ \E done \in SUBSET picked[c] : ClaimRows(c, done)
       \/ At(c, "validate") /\ \E done \in SUBSET picked[c] : WriteChecks(c, done)
       \/ At(c, "probe") /\ \E done \in SUBSET DOMAIN seen[c] : WriteVerdicts(c, done)
    /\ UNCHANGED <<picked, seen, overflow, record, orphans>>

\* The handler's own writes end in .catch(() => undefined).
FailCycle(c) ==
    /\ At(c, "failRecord")
    /\ Goto(c, "failRelease")
    /\ \/ /\ record' = [record EXCEPT ![c] = "failed"]
          /\ UNCHANGED <<orphans, faults>>
       \/ /\ faults < MaxFaults
          /\ faults' = faults + 1
          /\ orphans' = (orphans \/ record[c] = "running")
          /\ UNCHANGED record
    /\ UNCHANGED <<rows, picked, seen, overflow>>

ReleaseAfterFailure(c) ==
    /\ At(c, "failRelease")
    /\ \/ /\ Leave(c, LAMBDA p : ReleasedOwn(rows[p], c))
          /\ UNCHANGED faults
       \/ /\ faults < MaxFaults
          /\ faults' = faults + 1
          /\ Leave(c, LAMBDA p : rows[p])
    /\ UNCHANGED <<record, orphans>>

-----------------------------------------------------------------------------
(* The environment. *)

\* The process dies and is started again: the tables survive, nothing else.
Crash ==
    /\ faults < MaxFaults
    /\ faults' = faults + 1
    /\ \E c \in Cycles : pc[c] # "idle"
    /\ orphans' = (orphans \/ \E c \in Cycles : pc[c] # "idle" /\ record[c] = "running")
    /\ rows' = [p \in Proxies |-> [rows[p] EXCEPT !.owner = NoCycle]]
    /\ pc' = [c \in Cycles |-> "idle"]
    /\ picked' = [c \in Cycles |-> {}]
    /\ seen' = [c \in Cycles |-> NoCopies]
    /\ overflow' = [c \in Cycles |-> 0]
    /\ UNCHANGED record

\* Time passes between any two statements; copies held in memory are frozen.
Tick ==
    /\ Write(LAMBDA p : AgedRow(rows[p]))
    /\ UNCHANGED <<pc, picked, seen, overflow, bookkeeping>>

-----------------------------------------------------------------------------
\* What cycle c does when the database answers.
Step(c) ==
    \/ StartCycle(c) \/ UpsertCandidates(c)
    \/ SelectValidationQueue(c) \/ MarkPending(c) \/ PersistValidation(c)
    \/ Shortlist(c) \/ PersistService(c)
    \/ ExpireStale(c) \/ QuarantineFailures(c) \/ CountMembers(c) \/ DemoteOverflow(c)
    \/ ReleaseOrphanedPending(c) \/ ReleaseForeignPending(c)
    \/ Complete(c) \/ PruneHistory(c) \/ WrapUp(c)
    \/ FailCycle(c) \/ ReleaseAfterFailure(c)

Next ==
    \/ \E c \in Cycles : Step(c) \/ StartThrows(c) \/ Throw(c) \/ WriteThrows(c)
    \/ Crash
    \/ Tick

Spec == Init /\ [][Next]_vars

\* The scheduler re-arms its timer after every cycle and the database answers,
\* so a cycle that can take its next step does.  Nothing makes a stage come to
\* its end: it waits for the requests of its jobs, and a request may wait for
\* TLS for ever (module Requests).
GoesOn(c) ==
    \/ StartCycle(c) \/ UpsertCandidates(c)
    \/ SelectValidationQueue(c) \/ MarkPending(c) \/ Shortlist(c)
    \/ ExpireStale(c) \/ QuarantineFailures(c) \/ CountMembers(c) \/ DemoteOverflow(c)
    \/ ReleaseOrphanedPending(c) \/ ReleaseForeignPending(c)
    \/ Complete(c) \/ PruneHistory(c) \/ WrapUp(c)
    \/ FailCycle(c) \/ ReleaseAfterFailure(c)

FairSpec == Spec /\ \A c \in Cycles : WF_vars(GoesOn(c))
=============================================================================
