-------------------------- MODULE WorkerProperties --------------------------
(* What the worker process promises; see README.md for the runs. *)
EXTENDS Worker

(* Single flight: of the cycles the scheduler admits -- by timer or by     *)
(* POST /internal/cycle/run -- at most one is under way, and busy says     *)
(* whether one is, also when runCycle throws                               *)
(* (worker/src/pipeline/scheduler.ts:111-142).                             *)
Scheduled == Callers \cap {"timer", "manual"}

OneScheduledCycle ==
    /\ \A c, d \in Scheduled : InCycle(c) /\ InCycle(d) => c = d
    /\ busy <=> \E c \in Scheduled : InCycle(c)

(* "It survives a failing cycle by simply trying again on the next tick"   *)
(* (worker/src/pipeline/scheduler.ts:3): until the worker stops the timer  *)
(* is armed or its run is going on, after a cycle that failed, threw or    *)
(* was skipped as well.                                                    *)
LoopAlive == "timer" \in Callers /\ ~Stopping => timer \/ phase["timer"] # "idle"

\* A handler of c's drain that never returns: its request never ends.
HandlerHangs(c) ==
    \E i \in 1 .. Concurrency :
        <>[](i \in DOMAIN drain[c].batch /\ drain[c].result[i] = "working")

(* The pool keeps being refreshed: until the worker stops, the scheduler   *)
(* starts a cycle again and again, and each cycle comes to its end -- no   *)
(* drain it opened goes on for ever, whoever else puts jobs on the queue   *)
(* or takes them off it -- unless one of its own handlers never returns;   *)
(* one that hangs in a drain of somebody else holds up nothing             *)
(* (scheduler.ts:93-142, cycle.ts:255-363, memory-queue.ts:60-114).        *)
CyclesStart ==
    \/ []<>(Stopping \/ \E c \in Scheduled : phase[c] = "start")
    \/ \E c \in Scheduled : HandlerHangs(c)

CyclesEnd ==
    \A c \in Callers : (InCycle(c) ~> ~InCycle(c) \/ ~Alive) \/ HandlerHangs(c)

RefreshGoesOn == CyclesStart /\ CyclesEnd

(* "Waits (bounded) for an in-flight cycle to settle"                      *)
(* (worker/src/pipeline/scheduler.ts:173): shutdown goes past its wait     *)
(* with a scheduled cycle under way only when the grace period is over.    *)
NotCutOff ==
    [][shutdown = "waiting" /\ shutdown' = "queueClosed" /\ ~graceOver' =>
          \A c \in Scheduled : ~InCycle(c)]_vars

(* "Lets an in-flight cycle finish (25 s grace), closes the queue and the  *)
(* HTTP server, then exits" (docs/DEPLOYMENT.md:99-100): the database is   *)
(* closed under a cycle only when the grace period was not enough.  True   *)
(* where only the timer starts cycles: runOnce does not look at stopping.  *)
GracefulStop == ~Alive /\ ~graceOver => \A c \in Callers : ~InCycle(c)
=============================================================================
