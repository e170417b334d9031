----------------------------- MODULE SingleJobs -----------------------------
(***************************************************************************)
(* The jobs that POST /internal/jobs hands to handleExternalJob            *)
(* (worker/src/pipeline/cycle.ts:487-531): each judges one proxy, outside  *)
(* any cycle and without a claim, and writes the same columns of the       *)
(* proxies table as the cycle that may be under way.  This module sets     *)
(* them beside the refresh cycle.                                          *)
(*                                                                         *)
(* A job reads its row once and plans everything it writes from that copy, *)
(* the verdict of the service too.                                         *)
(***************************************************************************)
EXTENDS RefreshCycleProperties

CONSTANTS
    Handlers,  \* the manual drains that may be open; each runs one job at a time
    JobTypes   \* the types of job submitted

ASSUME JobsAssumption == JobTypes \subseteq {"VALIDATE", "RECHECK", "SERVICE_CHECK"}

VARIABLES
    task,     \* task[h]: the job handler h is at
    touched   \* history: the rows jobs have written since the latest sweeps began

jobVars == <<vars, task, touched>>

Task == [at : {"check", "probe"}, type : JobTypes, proxy : Proxies, copy : Row]

NoTask == [at |-> "idle"]

\* What a job holds is a copy of a row and where it is with it; what jobs write
\* are rows of the schema.
JobsTypeOK ==
    /\ TypeOK
    /\ task \in [Handlers -> {NoTask} \cup Task]
    /\ touched \subseteq Proxies

JobsInit ==
    /\ Init
    /\ task = [h \in Handlers |-> NoTask]
    /\ touched = {}

\* What planValidation and planService read of a row: in what order rows are
\* taken, and how long ago a check or a pass was, does not matter to them.
Planned(row) ==
    [row EXCEPT !.score = 0, !.checkedAge = Never, !.serviceAge = Never, !.owner = NoCycle,
                !.passedAge = IF @ = Never THEN Never ELSE 0]

cycleVars == <<pc, picked, seen, overflow, bookkeeping>>

JobAt(h, here) == task[h].at = here
JobEnds(h) == task' = [task EXCEPT ![h] = NoTask]

-----------------------------------------------------------------------------
(* getByIds: a proxy the table does not hold makes the job fail at once. *)
JobBegins(h) ==
    /\ JobAt(h, "idle")
    /\ \E type \in JobTypes, p \in Proxies :
          /\ rows[p].status # "absent"
          /\ task' = [task EXCEPT ![h] =
                [at |-> "check", type |-> type, proxy |-> p, copy |-> Planned(rows[p])]]
    /\ UNCHANGED <<vars, touched>>

\* Which jobs go on to the service, with serviceCheck.enabled.
AsksService(type, reachable) ==
    /\ ServiceBudget > 0
    /\ type = "SERVICE_CHECK" \/ (type = "RECHECK" /\ reachable)

WriteRow(p, row) ==
    /\ rows' = [rows EXCEPT ![p] = row]
    /\ touched' = touched \cup {p}
    /\ UNCHANGED cycleVars

\* checker.validate, planValidation and persistValidationOutcomes.
JobCheck(h) ==
    LET job == task[h]
    IN  /\ JobAt(h, "check")
        /\ \E reachable \in BOOLEAN : \E score \in CheckScores(reachable) :
              /\ WriteRow(job.proxy, AfterCheck(rows[job.proxy], job.copy, reachable, score))
              /\ IF AsksService(job.type, reachable)
                 THEN task' = [task EXCEPT ![h].at = "probe"]
                 ELSE JobEnds(h)

\* serviceChecker.check, planService over the row as it was read before the
\* check, and persistServiceOutcomes.
JobVerdict(h) ==
    LET job == task[h]
    IN  /\ JobAt(h, "probe")
        /\ \E verdict \in Verdicts : \E score \in VerdictScores(job.copy, verdict) :
              WriteRow(job.proxy, AfterVerdict(rows[job.proxy], job.copy, verdict, score))
        /\ JobEnds(h)

\* A statement of the job fails; the queue may deliver it again.
JobThrows(h) ==
    /\ ~JobAt(h, "idle")
    /\ JobEnds(h)
    /\ UNCHANGED <<vars, touched>>

-----------------------------------------------------------------------------
(* The cycle beside them. *)

SweepsBegin == \E c \in Cycles : pc[c] # "expire" /\ pc'[c] = "expire"

\* The statements of a job whose row has been pruned change nothing any more.
JobsFollow ==
    task' = [h \in Handlers |->
        IF task[h] # NoTask /\ rows'[task[h].proxy].status = "absent" THEN NoTask ELSE task[h]]

CycleMoves ==
    /\ \E c \in Cycles : Step(c) \/ StartThrows(c) \/ Throw(c) \/ WriteThrows(c)
    /\ JobsFollow
    /\ touched' = IF SweepsBegin THEN {} ELSE touched

TimePassesBy == Tick /\ UNCHANGED <<task, touched>>

\* The process dies in a cycle.  Between two cycles only its jobs are lost,
\* which is what JobThrows does to them.
ProcessDies ==
    /\ Crash
    /\ task' = [h \in Handlers |-> NoTask]
    /\ UNCHANGED touched

JobStep(h) == JobBegins(h) \/ JobCheck(h) \/ JobVerdict(h) \/ JobThrows(h)

JobsNext ==
    \/ CycleMoves \/ TimePassesBy \/ ProcessDies
    \/ \E h \in Handlers : JobStep(h)

JobsSpec == JobsInit /\ [][JobsNext]_jobVars

-----------------------------------------------------------------------------
\* From the record of a completed cycle to the beginning of the next one.
BetweenCycles(c) == pc[c] \in {"idle", "wrapUp"} /\ record[c] = "completed"

(* What finalize establishes survives the jobs that write rows between its *)
(* statements and after them (worker/src/pool/manager.ts:240-262): once a  *)
(* cycle is recorded as completed, a claim is left only on a row that a    *)
(* job has written since the sweeps began, and every other member has      *)
(* passed a check and stands below the failure threshold.                  *)
SettledButForJobs ==
    \A c \in Cycles : BetweenCycles(c) =>
        /\ WithStatus("pending") \subseteq touched
        /\ \A p \in Members \ touched :
              rows[p].passedAge # Never /\ rows[p].failures < MaxConsecutiveFailures

(* The pool exceeds POOL_MAX_ACTIVE by no more than two members for each   *)
(* row a job has written since the sweeps began: that row, and the member  *)
(* it saved by being demoted between the count and the end of the sweep    *)
(* (db/src/repositories/proxies.ts:426-442).                               *)
CapacityButForJobs ==
    \A c \in Cycles : BetweenCycles(c) =>
        Cardinality(Members) <= MaxActive + 2 * Cardinality(touched)
=============================================================================
