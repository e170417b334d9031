------------------------------- MODULE Worker -------------------------------
(***************************************************************************)
(* The worker process: the scheduler (worker/src/pipeline/scheduler.ts),   *)
(* the triggers, job submission and shutdown (worker/src/runtime.ts), and  *)
(* the one queue that cycles and manual drains share.                      *)
(*                                                                         *)
(* A cycle is reduced to what the process sees of it: it may throw before  *)
(* its try, it sends and drains the jobs of two stages, and it may fail in *)
(* between.  What it does to the proxies table is the module RefreshCycle. *)
(***************************************************************************)
EXTENDS Integers, Sequences, FiniteSets

CONSTANTS
    Callers,         \* who may call runCycle; see CallerKind
    Drains,          \* the manual drains that may be open at the same time
    Capacity,        \* QUEUE_MEMORY_CAPACITY
    MaxAttempts,     \* of MemoryQueue
    Concurrency,     \* VALIDATION_CONCURRENCY
    DrainBudget,     \* maxJobs of a manual drain
    MaxBatch,        \* bound: jobs of one stage
    MaxSubmissions,  \* bound: accepted POST /internal/jobs
    MayStop          \* TRUE: the process may be told to stop

\* "timer": RefreshScheduler's timer; "manual": POST /internal/cycle/run;
\* "direct": run-cycle --serve; "nested": a DISCOVER job inside a drain, of
\* which the model runs one at a time.
CallerKind == {"timer", "manual", "direct", "nested"}

ASSUME WorkerAssumption ==
    /\ Callers \subseteq CallerKind
    /\ Callers \cap Drains = {}
    /\ Capacity \in Nat /\ MaxAttempts \in Nat \ {0}
    /\ Concurrency \in Nat \ {0} /\ DrainBudget \in Nat \ {0}
    /\ MaxBatch \in Nat /\ MaxSubmissions \in Nat
    /\ MayStop \in BOOLEAN

VARIABLES
    queue, drain,  \* of JobQueue
    timer,         \* the timer of the scheduler is armed
    busy,          \* RefreshScheduler.busy
    phase,         \* phase[c]: where the cycle called by c is
    host,          \* the drain whose handler runs the nested cycle
    awaited,       \* the manual trigger came with wait=1
    reply,         \* the latest answer to a manual trigger
    submissions,   \* accepted jobs so far
    shutdown,      \* how far runtime.stop has come
    graceOver      \* scheduler.stop gave up waiting

Nobody == "nobody"
Operator == "operator"

\* A job is for the cycle of the caller that sent it or for the operator.
Job == [for : Callers \cup {Operator}, kind : {"check", "cycle"}]

INSTANCE JobQueue WITH Jobs <- Job, Consumers <- Callers \cup Drains

queueOnly == <<queue, drain>>
control == <<timer, busy, host, awaited, reply, submissions, shutdown, graceOver>>
vars == <<queue, drain, phase, control>>

Phase == {"idle", "start", "validate", "validating", "serve", "serving", "finish", "settling"}

TypeOK ==
    /\ QueueTypeOK
    /\ timer \in BOOLEAN /\ busy \in BOOLEAN /\ awaited \in BOOLEAN /\ graceOver \in BOOLEAN
    /\ phase \in [Callers -> Phase]
    /\ host \in Drains \cup {Nobody}
    /\ reply \in {"none", "started", "conflict"}
    /\ submissions \in 0 .. MaxSubmissions
    /\ shutdown \in {"up", "waiting", "queueClosed", "httpClosed", "down"}

Init ==
    /\ QueueInit
    /\ timer = ("timer" \in Callers)
    /\ busy = FALSE
    /\ phase = [c \in Callers |-> IF c = "direct" THEN "start" ELSE "idle"]
    /\ host = Nobody
    /\ awaited = FALSE
    /\ reply = "none"
    /\ submissions = 0
    /\ shutdown = "up"
    /\ graceOver = FALSE

Stopping == shutdown # "up"
Serving == shutdown \in {"up", "waiting", "queueClosed"}
Alive == shutdown # "down"

InCycle(c) == phase[c] \notin {"idle", "settling"}
Goto(c, there) == phase' = [phase EXCEPT ![c] = there]

-----------------------------------------------------------------------------
(* The scheduler: runOnce, and its two callers.                            *)

\* Mutation: busy is not asked.
AdmittedAlways == TRUE

Admitted == ~busy

TimerFires ==
    /\ timer
    /\ timer' = FALSE
    /\ IF Admitted THEN busy' = TRUE /\ Goto("timer", "start")
                   ELSE UNCHANGED busy /\ Goto("timer", "settling")
    /\ UNCHANGED <<queueOnly, host, awaited, reply, submissions, shutdown, graceOver>>

\* Mutation: the timer is armed again only if no other cycle is running.
RearmUnlessBusy ==
    /\ "timer" \in Callers /\ phase["timer"] = "settling"
    /\ Goto("timer", "idle")
    /\ timer' = (~Stopping /\ ~busy)
    /\ UNCHANGED <<queueOnly, busy, host, awaited, reply, submissions, shutdown, graceOver>>

\* .finally of the timer's run: scheduleNext, unless the worker is stopping.
Rearm ==
    /\ "timer" \in Callers /\ phase["timer"] = "settling"
    /\ Goto("timer", "idle")
    /\ timer' = ~Stopping
    /\ UNCHANGED <<queueOnly, busy, host, awaited, reply, submissions, shutdown, graceOver>>

\* POST /internal/cycle/run.  Without wait the answer comes at once.
ManualTrigger ==
    /\ "manual" \in Callers /\ Serving
    /\ \E wait \in BOOLEAN :
          IF Admitted
          THEN /\ busy' = TRUE
               /\ Goto("manual", "start")
               /\ awaited' = wait
               /\ reply' = IF wait THEN reply ELSE "started"
          ELSE /\ reply' = "conflict"
               /\ UNCHANGED <<busy, phase, awaited>>
    /\ UNCHANGED <<queueOnly, timer, host, submissions, shutdown, graceOver>>

-----------------------------------------------------------------------------
(* runCycle.  `threw` says whether its promise is rejected.                *)

\* runOnce clears busy in its finally; other callers do not touch it.
BusyAfter(c, threw) == busy /\ c \notin {"timer", "manual"}

\* What the caller does when the promise settles.
Return(c, threw) ==
    /\ Goto(c, IF c = "timer" THEN "settling" ELSE "idle")
    /\ busy' = BusyAfter(c, threw)
    /\ reply' = IF c = "manual" /\ awaited THEN IF threw THEN "conflict" ELSE "started"
                ELSE reply
    /\ awaited' = (awaited /\ c # "manual")
    /\ IF c = "nested"
       THEN /\ host' = Nobody
            /\ Settle(host, 1, IF threw THEN "failed" ELSE "ok")
       ELSE UNCHANGED <<host, queueOnly>>
    /\ UNCHANGED <<timer, submissions, shutdown, graceOver>>

\* The statements before the try, and the throw out of them.
BeginCycle(c) ==
    /\ phase[c] = "start"
    /\ \/ Goto(c, "validate") /\ UNCHANGED <<queueOnly, control>>
       \/ Return(c, TRUE)

StageBudget(n) == 2 * n

\* A stage sends its jobs and opens its drain; without rows it does neither.
OpenStage(c, here, there, next, limit) ==
    /\ phase[c] = here
    /\ \E n \in 0 .. MaxBatch :
          LET jobs == [i \in 1 .. n |-> [for |-> c, kind |-> "check"]]
          IN  IF n = 0
              THEN Goto(c, next) /\ UNCHANGED queueOnly
              ELSE Goto(c, there) /\ TakeBatch(c, Appended(jobs), limit, StageBudget(n))
    /\ UNCHANGED control

ValidateStage(c) == OpenStage(c, "validate", "validating", "serve", Concurrency)
ServiceStage(c) == OpenStage(c, "serve", "serving", "finish", 1)

\* The cycle's handler returns for every job: it checks its own, and ignores
\* a job it does not know.
CycleHandler(c) ==
    /\ \E i \in DOMAIN drain[c].batch : Settle(c, i, "ok")
    /\ UNCHANGED <<phase, control>>

\* Mutation: a stage waits until the queue is empty, not until its drain ends.
CloseStageWhenEmpty(c) ==
    /\ phase[c] \in {"validating", "serving"}
    /\ drain[c] = Idle /\ queue = <<>>
    /\ Goto(c, IF phase[c] = "validating" THEN "serve" ELSE "finish")
    /\ UNCHANGED <<queueOnly, control>>

CloseStage(c) ==
    /\ phase[c] \in {"validating", "serving"}
    /\ drain[c] = Idle
    /\ Goto(c, IF phase[c] = "validating" THEN "serve" ELSE "finish")
    /\ UNCHANGED <<queueOnly, control>>

\* The sweeps and the record; or the catch, when a statement failed.
EndCycle(c) ==
    /\ phase[c] = "finish"
    /\ Return(c, FALSE)

FailCycle(c) ==
    /\ phase[c] \in {"validate", "validating", "serve", "serving"}
    /\ drain[c] = Idle
    /\ Goto(c, "finish")
    /\ UNCHANGED <<queueOnly, control>>

-----------------------------------------------------------------------------
(* submitJob and the manual drain. *)

SubmitJob ==
    /\ Serving /\ submissions < MaxSubmissions
    /\ submissions' = submissions + 1
    /\ \E kind \in {"check"} \cup (IF "nested" \in Callers THEN {"cycle"} ELSE {}) :
          LET waiting == Appended(<<[for |-> Operator, kind |-> kind]>>)
          IN  IF Room = 0 \/ busy
              THEN queue' = waiting /\ UNCHANGED drain
              ELSE \E d \in Drains : /\ drain[d] = Idle
                                     /\ TakeBatch(d, waiting, 1, DrainBudget)
    /\ UNCHANGED <<timer, busy, phase, host, awaited, reply, shutdown, graceOver>>

\* handleExternalJob for one proxy: done, or the proxy is unknown, or the
\* database fails.
ExternalCheck(d) ==
    /\ drain[d] # Idle /\ drain[d].batch[1].job.kind = "check"
    /\ \E outcome \in {"ok", "failed"} : Settle(d, 1, outcome)
    /\ UNCHANGED <<phase, control>>

\* handleExternalJob for DISCOVER, POOL_UPDATE and STATS_UPDATE.
ExternalCycle(d) ==
    /\ drain[d] # Idle /\ drain[d].batch[1].job.kind = "cycle"
    /\ drain[d].result[1] = "working"
    /\ phase["nested"] = "idle"
    /\ Goto("nested", "start")
    /\ host' = d
    /\ UNCHANGED <<queueOnly, timer, busy, awaited, reply, submissions, shutdown, graceOver>>

Book(c) ==
    /\ BookBatch(c, FALSE)
    /\ UNCHANGED <<phase, control>>

-----------------------------------------------------------------------------
(* runtime.stop *)

Sigterm ==
    /\ MayStop /\ shutdown = "up"
    /\ shutdown' = "waiting"
    /\ timer' = FALSE
    /\ UNCHANGED <<queueOnly, phase, busy, host, awaited, reply, submissions, graceOver>>

Waited == graceOver' = busy

\* scheduler.stop returns when no run is busy, or after its grace period.
CloseQueue ==
    /\ shutdown = "waiting"
    /\ Waited
    /\ shutdown' = "queueClosed"
    /\ Close
    /\ UNCHANGED <<phase, timer, busy, host, awaited, reply, submissions>>

CloseHttp ==
    /\ shutdown = "queueClosed"
    /\ shutdown' = "httpClosed"
    /\ UNCHANGED <<queueOnly, phase, timer, busy, host, awaited, reply, submissions, graceOver>>

CloseDatabase ==
    /\ shutdown = "httpClosed"
    /\ shutdown' = "down"
    /\ UNCHANGED <<queueOnly, phase, timer, busy, host, awaited, reply, submissions, graceOver>>

-----------------------------------------------------------------------------
\* What a cycle does when no statement of it fails.
CycleStep(c) ==
    \/ BeginCycle(c) \/ ValidateStage(c) \/ ServiceStage(c)
    \/ CycleHandler(c) \/ Book(c) \/ CloseStage(c) \/ EndCycle(c)

DrainStep(d) == ExternalCheck(d) \/ ExternalCycle(d) \/ Book(d)

Stop == CloseQueue \/ CloseHttp \/ CloseDatabase

Next ==
    /\ Alive
    /\ \/ TimerFires \/ Rearm \/ ManualTrigger \/ SubmitJob
       \/ \E c \in Callers : CycleStep(c) \/ FailCycle(c)
       \/ \E d \in Drains : DrainStep(d)
       \/ Sigterm \/ Stop

Spec == Init /\ [][Next]_vars

\* What is left of a step when its handlers are taken away.
CycleGoesOn(c) ==
    \/ BeginCycle(c) \/ ValidateStage(c) \/ ServiceStage(c)
    \/ Book(c) \/ CloseStage(c) \/ EndCycle(c)

DrainGoesOn(d) == ExternalCycle(d) \/ Book(d)

\* Timers fire, statements of the database return and stop goes on.  Nobody
\* has to trigger, submit or stop anything, and no handler has to return: it
\* waits for a request, and a request may wait for TLS for ever (Requests).
FairSpec ==
    /\ Spec
    /\ WF_vars(Alive /\ TimerFires) /\ WF_vars(Alive /\ Rearm) /\ WF_vars(Stop)
    /\ \A c \in Callers : WF_vars(Alive /\ CycleGoesOn(c))
    /\ \A d \in Drains : WF_vars(Alive /\ DrainGoesOn(d))
=============================================================================
