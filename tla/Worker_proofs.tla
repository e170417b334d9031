---------------------------- MODULE Worker_proofs ----------------------------
(***************************************************************************)
(* Theorems about the worker, for any callers, drains, queue and limits:   *)
(* the scheduler and shutdown, which do not depend on what is in the       *)
(* queue, and then the types, the queue's with them.                       *)
(***************************************************************************)
EXTENDS WorkerProperties, FiniteSetTheorems, SequenceTheorems, TLAPS

USE WorkerAssumption

-----------------------------------------------------------------------------
(* Single flight and the loop.  By themselves they are not inductive: a    *)
(* timer that fired during its own run would lose a cycle, so the          *)
(* invariant also says that an armed timer has no run, and that only the   *)
(* timer's run has anything left to do after its cycle.                    *)

ControlTypeOK ==
    /\ timer \in BOOLEAN /\ busy \in BOOLEAN
    /\ phase \in [Callers -> Phase]
    /\ shutdown \in {"up", "waiting", "queueClosed", "httpClosed", "down"}

TimerAtRest ==
    /\ timer => "timer" \in Callers /\ phase["timer"] = "idle"
    /\ \A c \in Callers : phase[c] = "settling" => c = "timer"

ControlInv == ControlTypeOK /\ OneScheduledCycle /\ TimerAtRest /\ LoopAlive

LEMMA ControlInit == Init => ControlInv
<1> SUFFICES ASSUME Init PROVE ControlInv
  OBVIOUS
<1>1. ControlTypeOK
  <2>1. timer \in BOOLEAN
    <3>1. CASE "timer" \in Callers
      BY <3>1, Zenon DEF Init
    <3>2. CASE ~("timer" \in Callers)
      BY <3>2 DEF Init
    <3> QED BY <3>1, <3>2
  <2> QED BY <2>1 DEF Init, ControlTypeOK, Phase
<1>2. \A c \in Scheduled : ~InCycle(c)
  BY DEF Init, Scheduled, InCycle
<1>3. OneScheduledCycle
  BY <1>2 DEF Init, OneScheduledCycle
<1>4. TimerAtRest /\ LoopAlive
  BY DEF Init, TimerAtRest, LoopAlive, Stopping
<1> QED BY <1>1, <1>3, <1>4 DEF ControlInv

\* The phases of a cycle that follow one another without its end.
LEMMA MovingOn ==
    ASSUME ControlInv, NEW c \in Callers, InCycle(c),
           NEW there \in Phase \ {"idle", "settling"}, Goto(c, there),
           UNCHANGED control
    PROVE  ControlInv'
<1> USE DEF ControlInv
<1>1. ControlTypeOK'
  BY DEF ControlTypeOK, Goto, control
<1>2. phase'[c] = there /\ \A d \in Callers \ {c} : phase'[d] = phase[d]
  BY DEF ControlTypeOK, Goto
<1>3. \A d \in Callers : InCycle(d)' <=> InCycle(d)
  BY <1>2 DEF InCycle
<1>4. OneScheduledCycle'
  BY <1>3 DEF OneScheduledCycle, Scheduled, control
<1>5. TimerAtRest'
  BY <1>2 DEF TimerAtRest, InCycle, control
<1>6. LoopAlive'
  BY <1>2 DEF LoopAlive, Stopping, control
<1> QED BY <1>1, <1>4, <1>5, <1>6

\* The end of a cycle, by return or by throw.
LEMMA Returning ==
    ASSUME ControlInv, NEW c \in Callers, InCycle(c), NEW threw \in BOOLEAN, Return(c, threw)
    PROVE  ControlInv'
<1> USE DEF ControlInv
<1>1. /\ phase' = [phase EXCEPT ![c] = IF c = "timer" THEN "settling" ELSE "idle"]
      /\ busy' = (busy /\ c \notin {"timer", "manual"})
      /\ timer' = timer /\ shutdown' = shutdown
  BY DEF Return, Goto, BusyAfter
<1>2. ControlTypeOK'
  BY <1>1 DEF ControlTypeOK, Phase
<1>3. /\ ~InCycle(c)'
      /\ \A d \in Callers \ {c} : phase'[d] = phase[d] /\ (InCycle(d)' <=> InCycle(d))
  BY <1>1 DEF ControlTypeOK, InCycle
<1>4. OneScheduledCycle'
  <2>1. CASE c \in Scheduled
    <3>1. \A d \in Scheduled : ~InCycle(d)'
      BY <1>3, <2>1 DEF OneScheduledCycle, Scheduled
    <3> QED BY <1>1, <2>1, <3>1 DEF OneScheduledCycle, Scheduled
  <2>2. CASE c \notin Scheduled
    <3>1. \A d \in Scheduled : InCycle(d)' <=> InCycle(d)
      BY <1>3, <2>2 DEF Scheduled
    <3> QED BY <1>1, <2>2, <3>1 DEF OneScheduledCycle, Scheduled
  <2> QED BY <2>1, <2>2
<1>5. TimerAtRest'
  BY <1>1, <1>3 DEF TimerAtRest, InCycle, ControlTypeOK
<1>6. LoopAlive'
  BY <1>1, <1>3 DEF LoopAlive, Stopping, InCycle, ControlTypeOK
<1> QED BY <1>2, <1>4, <1>5, <1>6

\* Nothing the scheduler looks at moves.
LEMMA Elsewhere ==
    ASSUME ControlInv, UNCHANGED <<timer, busy, phase>>,
           shutdown' \in {"waiting", "queueClosed", "httpClosed", "down"} \/ UNCHANGED shutdown
    PROVE  ControlInv'
BY DEF ControlInv, ControlTypeOK, OneScheduledCycle, Scheduled, InCycle, TimerAtRest, LoopAlive,
       Stopping

LEMMA TimerFiresKeeps == ControlInv /\ TimerFires => ControlInv'
<1> SUFFICES ASSUME ControlInv, TimerFires PROVE ControlInv'
  OBVIOUS
<1> USE DEF ControlInv
<1>1. /\ "timer" \in Callers /\ phase["timer"] = "idle" /\ timer' = FALSE
      /\ shutdown' = shutdown
  BY DEF TimerFires, TimerAtRest
<1>2. CASE Admitted
  <2>1. busy' = TRUE /\ phase' = [phase EXCEPT !["timer"] = "start"] /\ ~busy
    BY <1>2 DEF TimerFires, Goto, Admitted
  <2>2. \A d \in Scheduled : InCycle(d)' <=> d = "timer"
    BY <1>1, <2>1 DEF OneScheduledCycle, Scheduled, InCycle, ControlTypeOK
  <2>3. OneScheduledCycle'
    BY <1>1, <2>1, <2>2 DEF OneScheduledCycle, Scheduled
  <2> QED BY <1>1, <2>1, <2>3
          DEF ControlTypeOK, Phase, TimerAtRest, LoopAlive, Stopping
<1>3. CASE ~Admitted
  <2>1. busy' = busy /\ phase' = [phase EXCEPT !["timer"] = "settling"]
    BY <1>3 DEF TimerFires, Goto
  <2>2. \A d \in Scheduled : InCycle(d)' <=> InCycle(d)
    BY <1>1, <2>1 DEF Scheduled, InCycle, ControlTypeOK
  <2>3. OneScheduledCycle'
    BY <2>1, <2>2 DEF OneScheduledCycle, Scheduled
  <2> QED BY <1>1, <2>1, <2>3
          DEF ControlTypeOK, Phase, TimerAtRest, LoopAlive, Stopping
<1> QED BY <1>2, <1>3

LEMMA RearmKeeps == ControlInv /\ Rearm => ControlInv'
<1> SUFFICES ASSUME ControlInv, Rearm PROVE ControlInv'
  OBVIOUS
<1> USE DEF ControlInv
<1>1. /\ "timer" \in Callers /\ phase["timer"] = "settling"
      /\ phase' = [phase EXCEPT !["timer"] = "idle"]
      /\ timer' = ~Stopping /\ busy' = busy /\ shutdown' = shutdown
  BY DEF Rearm, Goto
<1>2. \A d \in Scheduled : InCycle(d)' <=> InCycle(d)
  BY <1>1 DEF Scheduled, InCycle, ControlTypeOK
<1>3. OneScheduledCycle'
  BY <1>1, <1>2 DEF OneScheduledCycle, Scheduled
<1> QED BY <1>1, <1>3 DEF ControlTypeOK, Phase, TimerAtRest, LoopAlive, Stopping

LEMMA ManualTriggerKeeps == ControlInv /\ ManualTrigger => ControlInv'
<1> SUFFICES ASSUME ControlInv, ManualTrigger PROVE ControlInv'
  OBVIOUS
<1> USE DEF ControlInv
<1>1. "manual" \in Callers /\ timer' = timer /\ shutdown' = shutdown
  BY DEF ManualTrigger
<1>2. CASE ~busy
  <2>1. busy' = TRUE /\ phase' = [phase EXCEPT !["manual"] = "start"]
    BY <1>2 DEF ManualTrigger, Goto, Admitted
  <2>2. \A d \in Scheduled : InCycle(d)' <=> d = "manual"
    BY <1>1, <1>2, <2>1 DEF OneScheduledCycle, Scheduled, InCycle, ControlTypeOK
  <2>3. OneScheduledCycle'
    BY <1>1, <2>1, <2>2 DEF OneScheduledCycle, Scheduled
  <2> QED BY <1>1, <2>1, <2>3
          DEF ControlTypeOK, Phase, TimerAtRest, LoopAlive, Stopping
<1>3. CASE busy
  BY <1>1, <1>3, Elsewhere DEF ManualTrigger, Admitted
<1> QED BY <1>2, <1>3 DEF ControlTypeOK

LEMMA CycleKeeps ==
    ASSUME ControlInv, NEW c \in Callers, CycleStep(c) \/ FailCycle(c)
    PROVE  ControlInv'
<1>1. CASE BeginCycle(c)
  <2>1. InCycle(c)
    BY <1>1 DEF BeginCycle, InCycle
  <2>2. CASE Goto(c, "validate") /\ UNCHANGED control
    BY <2>1, <2>2, MovingOn DEF Phase
  <2>3. CASE Return(c, TRUE)
    BY <2>1, <2>3, Returning
  <2> QED BY <1>1, <2>2, <2>3 DEF BeginCycle
<1>2. CASE ValidateStage(c)
  <2>1. /\ InCycle(c) /\ UNCHANGED control
        /\ Goto(c, "serve") \/ Goto(c, "validating")
    BY <1>2 DEF ValidateStage, OpenStage, InCycle
  <2> QED BY <2>1, MovingOn DEF Phase
<1>3. CASE ServiceStage(c)
  <2>1. /\ InCycle(c) /\ UNCHANGED control
        /\ Goto(c, "finish") \/ Goto(c, "serving")
    BY <1>3 DEF ServiceStage, OpenStage, InCycle
  <2> QED BY <2>1, MovingOn DEF Phase
<1>4. CASE CycleHandler(c) \/ Book(c)
  BY <1>4, Elsewhere DEF CycleHandler, Book, control
<1>5. CASE CloseStage(c)
  <2>1. /\ InCycle(c) /\ UNCHANGED control
        /\ Goto(c, "serve") \/ Goto(c, "finish")
    BY <1>5 DEF CloseStage, InCycle
  <2> QED BY <2>1, MovingOn DEF Phase
<1>6. CASE EndCycle(c)
  BY <1>6, Returning DEF EndCycle, InCycle
<1>7. CASE FailCycle(c)
  BY <1>7, MovingOn DEF FailCycle, InCycle, Phase
<1> QED BY <1>1, <1>2, <1>3, <1>4, <1>5, <1>6, <1>7 DEF CycleStep

\* A nested cycle is not one the scheduler knows.
LEMMA DrainKeeps ==
    ASSUME ControlInv, NEW d \in Drains, DrainStep(d)
    PROVE  ControlInv'
<1>1. CASE ExternalCheck(d) \/ Book(d)
  BY <1>1, Elsewhere DEF ExternalCheck, Book, control
<1>2. CASE ExternalCycle(d)
  <2> USE DEF ControlInv
  <2>1. /\ phase' = [phase EXCEPT !["nested"] = "start"]
        /\ timer' = timer /\ busy' = busy /\ shutdown' = shutdown
    BY <1>2 DEF ExternalCycle, Goto
  <2>2. \A c \in Scheduled : phase'[c] = phase[c]
    BY <2>1 DEF Scheduled, ControlTypeOK
  <2>3. OneScheduledCycle'
    BY <2>1, <2>2 DEF OneScheduledCycle, Scheduled, InCycle
  <2> QED BY <2>1, <2>3 DEF ControlTypeOK, Phase, TimerAtRest, LoopAlive, Stopping
<1> QED BY <1>1, <1>2 DEF DrainStep

LEMMA StopKeeps == ControlInv /\ (Sigterm \/ Stop) => ControlInv'
<1> SUFFICES ASSUME ControlInv, Sigterm \/ Stop PROVE ControlInv'
  OBVIOUS
<1>1. CASE Sigterm
  BY <1>1 DEF Sigterm, ControlInv, ControlTypeOK, OneScheduledCycle, Scheduled, InCycle,
              TimerAtRest, LoopAlive, Stopping
<1>2. CASE Stop
  BY <1>2, Elsewhere DEF Stop, CloseQueue, CloseHttp, CloseDatabase
<1> QED BY <1>1, <1>2

LEMMA ControlStep == ControlInv /\ [Next]_vars => ControlInv'
<1> SUFFICES ASSUME ControlInv, [Next]_vars PROVE ControlInv'
  OBVIOUS
<1>1. CASE TimerFires \/ Rearm \/ ManualTrigger
  BY <1>1, TimerFiresKeeps, RearmKeeps, ManualTriggerKeeps
<1>2. CASE SubmitJob
  BY <1>2, Elsewhere DEF SubmitJob
<1>3. CASE \E c \in Callers : CycleStep(c) \/ FailCycle(c)
  BY <1>3, CycleKeeps
<1>4. CASE \E d \in Drains : DrainStep(d)
  BY <1>4, DrainKeeps
<1>5. CASE Sigterm \/ Stop
  BY <1>5, StopKeeps
<1>6. CASE UNCHANGED vars
  BY <1>6, Elsewhere DEF vars, control
<1> QED BY <1>1, <1>2, <1>3, <1>4, <1>5, <1>6 DEF Next

LEMMA ControlHolds == Spec => []ControlInv
BY ControlInit, ControlStep, PTL DEF Spec

\* Of the cycles that the timer and the manual triggers start at most one is
\* under way, and busy is TRUE exactly then (scheduler.ts:111-142).
THEOREM SingleFlight == Spec => []OneScheduledCycle
<1>1. ControlInv => OneScheduledCycle
  BY DEF ControlInv
<1> QED BY <1>1, ControlHolds, PTL

\* The timer is armed or its run is under way, until the worker stops
\* (scheduler.ts:99-107).
THEOREM LoopNeverDies == Spec => []LoopAlive
<1>1. ControlInv => LoopAlive
  BY DEF ControlInv
<1> QED BY <1>1, ControlHolds, PTL

-----------------------------------------------------------------------------
(* Shutdown. *)

\* Only CloseQueue ends the wait of scheduler.stop.
LEMMA EndOfWait ==
    ASSUME [Next]_vars, shutdown = "waiting", shutdown' = "queueClosed"
    PROVE  CloseQueue
<1>1. ASSUME NEW c \in Callers, CycleStep(c) \/ FailCycle(c)
      PROVE  shutdown' = shutdown
  <2>1. CASE BeginCycle(c)
    <3>1. CASE UNCHANGED control
      BY <3>1 DEF control
    <3>2. CASE Return(c, TRUE)
      BY <3>2 DEF Return
    <3> QED BY <2>1, <3>1, <3>2 DEF BeginCycle
  <2>2. CASE EndCycle(c)
    BY <2>2 DEF EndCycle, Return
  <2>3. CASE \/ ValidateStage(c) \/ ServiceStage(c) \/ CycleHandler(c) \/ Book(c)
             \/ CloseStage(c) \/ FailCycle(c)
    <3>1. UNCHANGED control
      BY <2>3 DEF ValidateStage, ServiceStage, OpenStage, CycleHandler, Book, CloseStage, FailCycle
    <3> QED BY <3>1 DEF control
  <2> QED BY <1>1, <2>1, <2>2, <2>3 DEF CycleStep
<1>2. ASSUME NEW d \in Drains, DrainStep(d)
      PROVE  shutdown' = shutdown
  BY <1>2 DEF DrainStep, ExternalCheck, ExternalCycle, Book, control
<1>3. CASE TimerFires \/ Rearm \/ ManualTrigger \/ SubmitJob
  BY <1>3 DEF TimerFires, Rearm, ManualTrigger, SubmitJob
<1>4. CASE Sigterm \/ CloseHttp \/ CloseDatabase
  BY <1>4 DEF Sigterm, CloseHttp, CloseDatabase
<1>5. CASE UNCHANGED vars
  BY <1>5 DEF vars, control
<1> QED BY <1>1, <1>2, <1>3, <1>4, <1>5 DEF Next, Stop

\* Shutdown goes past its wait with a scheduled cycle under way only when the
\* grace period is over (scheduler.ts:173-194).
THEOREM WaitIsHonoured == Spec => NotCutOff
<1>1. ControlInv /\ [Next]_vars =>
        [shutdown = "waiting" /\ shutdown' = "queueClosed" /\ ~graceOver' =>
            \A c \in Scheduled : ~InCycle(c)]_vars
  <2> SUFFICES ASSUME ControlInv, [Next]_vars,
                      shutdown = "waiting", shutdown' = "queueClosed", ~graceOver'
               PROVE  \A c \in Scheduled : ~InCycle(c)
    OBVIOUS
  <2>1. graceOver' = busy
    BY EndOfWait DEF CloseQueue, Waited
  <2> QED BY <2>1 DEF ControlInv, OneScheduledCycle
<1> QED BY <1>1, ControlHolds, PTL DEF Spec, NotCutOff

-----------------------------------------------------------------------------
(* Where nothing but the timer starts cycles the database is never closed  *)
(* under one.  With other triggers that is false: runOnce does not ask     *)
(* whether the worker is stopping, and the HTTP server is closed only      *)
(* after the wait.                                                         *)

TimerOnly == Callers \subseteq {"timer"}

\* A stopped timer stays stopped, so nothing becomes busy after the wait.
StopInv ==
    /\ Stopping => ~timer
    /\ shutdown \in {"queueClosed", "httpClosed", "down"} /\ ~graceOver => ~busy

LEMMA StopInit == Init => StopInv
BY DEF Init, StopInv, Stopping

LEMMA QuietStop ==
    ASSUME StopInv, UNCHANGED <<timer, shutdown, graceOver>>, busy' => busy
    PROVE  StopInv'
BY DEF StopInv, Stopping

LEMMA StopStep ==
    ASSUME TimerOnly
    PROVE  ControlInv /\ StopInv /\ [Next]_vars => StopInv'
<1> SUFFICES ASSUME ControlInv, StopInv, [Next]_vars PROVE StopInv'
  OBVIOUS
<1>1. CASE TimerFires \/ Rearm
  <2>1. CASE TimerFires
    BY <2>1 DEF TimerFires, StopInv, Stopping
  <2>2. CASE Rearm
    <3>1. timer' = ~Stopping /\ UNCHANGED <<busy, shutdown, graceOver>>
      BY <2>2 DEF Rearm
    <3>2. Stopping' => ~timer'
      BY <3>1 DEF Stopping
    <3> QED BY <3>1, <3>2 DEF StopInv
  <2> QED BY <1>1, <2>1, <2>2
<1>2. CASE ManualTrigger
  BY <1>2 DEF ManualTrigger, TimerOnly
<1>3. ASSUME NEW c \in Callers, CycleStep(c) \/ FailCycle(c)
      PROVE  StopInv'
  <2>1. CASE BeginCycle(c) \/ EndCycle(c)
    <3>1. CASE UNCHANGED control
      BY <3>1, QuietStop DEF control
    <3>2. ASSUME NEW threw \in BOOLEAN, Return(c, threw)
          PROVE  StopInv'
      <4>1. UNCHANGED <<timer, shutdown, graceOver>>
        BY <3>2 DEF Return
      <4>2. busy' = (busy /\ c \notin {"timer", "manual"})
        BY <3>2 DEF Return, BusyAfter
      <4> QED BY <4>1, <4>2, QuietStop
    <3> QED BY <2>1, <3>1, <3>2 DEF BeginCycle, EndCycle
  <2>2. CASE \/ ValidateStage(c) \/ ServiceStage(c) \/ CycleHandler(c) \/ Book(c)
             \/ CloseStage(c) \/ FailCycle(c)
    <3>1. UNCHANGED control
      BY <2>2 DEF ValidateStage, ServiceStage, OpenStage, CycleHandler, Book, CloseStage, FailCycle
    <3> QED BY <3>1, QuietStop DEF control
  <2> QED BY <1>3, <2>1, <2>2 DEF CycleStep
<1>4. ASSUME NEW d \in Drains, DrainStep(d)
      PROVE  StopInv'
  <2>1. UNCHANGED <<timer, busy, shutdown, graceOver>>
    BY <1>4 DEF DrainStep, ExternalCheck, ExternalCycle, Book, control
  <2> QED BY <2>1, QuietStop
<1>5. CASE SubmitJob
  BY <1>5, QuietStop DEF SubmitJob
<1>6. CASE Sigterm
  BY <1>6 DEF Sigterm, StopInv, Stopping
<1>7. CASE Stop
  BY <1>7 DEF Stop, CloseQueue, CloseHttp, CloseDatabase, Waited, StopInv, Stopping
<1>8. CASE UNCHANGED vars
  BY <1>8, QuietStop DEF vars, control
<1> QED BY <1>1, <1>2, <1>3, <1>4, <1>5, <1>6, <1>7, <1>8 DEF Next

\* Where only the timer starts cycles, the database is closed under a cycle
\* only when the grace period was not enough (scheduler.ts:173-194,
\* runtime.ts:350-356).
THEOREM StopIsGraceful ==
    ASSUME TimerOnly
    PROVE  Spec => []GracefulStop
<1>1. ControlInv /\ StopInv => GracefulStop
  <2> SUFFICES ASSUME ControlInv, StopInv, ~Alive, ~graceOver
               PROVE  \A c \in Callers : ~InCycle(c)
    BY DEF GracefulStop
  <2>1. ~busy
    BY DEF StopInv, Alive
  <2> QED BY <2>1 DEF ControlInv, OneScheduledCycle, Scheduled, TimerOnly
<1>2. Spec => []StopInv
  BY StopInit, StopStep, ControlHolds, PTL DEF Spec
<1> QED BY <1>1, <1>2, ControlHolds, PTL
-----------------------------------------------------------------------------
(* Types.  The queue of the worker is the one MemoryQueue_proofs is about, *)
(* with jobs of its own and its callers and drains as consumers; what that *)
(* module proves of the queue's operations holds here.                     *)

Ends == Callers \cup Drains

Q == INSTANCE MemoryQueue_proofs WITH
        Jobs <- Job, Consumers <- Ends, Limits <- {}, Budgets <- {},
        dropped <- 0, fate <- [j \in Job |-> "sent"], closed <- FALSE

LEMMA JobsAreFew == Q!IsFiniteSet(Job)
<1>1. IsFiniteSet(Callers)
  <2>1. IsFiniteSet({"timer", "manual", "direct", "nested"})
    <3>1. IsFiniteSet({"timer"} \cup {"manual"} \cup {"direct"} \cup {"nested"})
      BY FS_Singleton, FS_Union
    <3>2. {"timer"} \cup {"manual"} \cup {"direct"} \cup {"nested"} =
             {"timer", "manual", "direct", "nested"}
      OBVIOUS
    <3> QED BY <3>1, <3>2
  <2> QED BY <2>1, FS_Subset, WorkerAssumption DEF CallerKind
<1>2. PICK F : F = Callers \cup {Operator} /\ IsFiniteSet(F)
  BY <1>1, FS_Singleton, FS_Union
<1>3. IsFiniteSet({"check", "cycle"})
  <2>1. IsFiniteSet({"check"} \cup {"cycle"})
    BY FS_Singleton, FS_Union
  <2>2. {"check"} \cup {"cycle"} = {"check", "cycle"}
    OBVIOUS
  <2> QED BY <2>1, <2>2
<1>4. IsFiniteSet(F \X {"check", "cycle"})
  BY <1>2, <1>3, FS_Product
<1> DEFINE job == [p \in F \X {"check", "cycle"} |-> [for |-> p[1], kind |-> p[2]]]
<1>5. job \in Surjection(F \X {"check", "cycle"}, Job)
  <2>1. job \in [F \X {"check", "cycle"} -> Job]
    BY <1>2 DEF Job
  <2>2. ASSUME NEW j \in Job PROVE \E p \in F \X {"check", "cycle"} : job[p] = j
    <3>1. /\ j.for \in F /\ j.kind \in {"check", "cycle"}
          /\ j = [for |-> j.for, kind |-> j.kind]
      BY <1>2 DEF Job
    <3>2. <<j.for, j.kind>> \in F \X {"check", "cycle"} /\ job[<<j.for, j.kind>>] = j
      BY <3>1
    <3> QED BY <3>2
  <2> QED BY <2>1, <2>2 DEF Surjection
<1>6. IsFiniteSet(Job)
  BY <1>4, <1>5, FS_Surjection
<1> QED BY <1>6 DEF IsFiniteSet, Q!IsFiniteSet

\* The assumptions of MemoryQueue, for the queue of the worker.
LEMMA QueueFits ==
    /\ Capacity \in Nat /\ MaxAttempts \in Nat \ {0}
    /\ Q!IsFiniteSet(Job) /\ {} \subseteq Nat \ {0} /\ {} \subseteq Nat
BY JobsAreFew, WorkerAssumption

LEMMA SameSize == \A S : Q!Cardinality(S) = Cardinality(S)
BY DEF Q!Cardinality, Cardinality

LEMMA QueueStart == QueueInit => Q!QueueInv
<1>1. Q!QueueInit => Q!QueueInv
  BY QueueFits, Q!QueueInitType
<1>2. QueueInit <=> Q!QueueInit
  BY DEF QueueInit, Q!QueueInit, Idle, Q!Idle, Ends
<1> QED BY <1>1, <1>2

LEMMA QueueTyped == Q!QueueInv => QueueTypeOK
<1>1. Q!QueueInv => Q!QueueTypeOK
  BY QueueFits, Q!QueueInvImplies
<1>2. QueueTypeOK <=> Q!QueueTypeOK
  BY DEF QueueTypeOK, Q!QueueTypeOK, Entry, Q!Entry, Ends
<1> QED BY <1>1, <1>2

LEMMA Appending ==
    ASSUME Q!QueueInv, NEW jobs \in Seq(Job)
    PROVE  Appended(jobs) \in Seq(Q!Entry) /\ Len(Appended(jobs)) <= Capacity
<1>1. Q!Appended(jobs) \in Seq(Q!Entry) /\ Len(Q!Appended(jobs)) <= Capacity
  BY QueueFits, Q!AppendedType
<1>2. Q!Appended(jobs) = Appended(jobs)
  BY DEF Q!Appended, Appended, Q!Smaller, Smaller, Q!Room, Room
<1> QED BY <1>1, <1>2

LEMMA Adding ==
    ASSUME Q!QueueInv, NEW jobs \in Seq(Job), queue' = Appended(jobs), UNCHANGED drain
    PROVE  Q!QueueInv'
BY Appending DEF Q!QueueInv

LEMMA Taking ==
    ASSUME Q!QueueInv, NEW c \in Ends, NEW jobs \in Seq(Job), NEW limit \in Nat,
           NEW budget \in Nat, TakeBatch(c, Appended(jobs), limit, budget)
    PROVE  Q!QueueInv'
<1>1. PICK waiting \in Seq(Q!Entry) : waiting = Appended(jobs) /\ Len(waiting) <= Capacity
  BY Appending
<1>2. TakeBatch(c, waiting, limit, budget)
  BY <1>1
<1>3. Q!TakeBatch(c, waiting, limit, budget)
  BY <1>2 DEF TakeBatch, Q!TakeBatch, Smaller, Q!Smaller, Idle, Q!Idle
<1> QED BY <1>1, <1>3, QueueFits, Q!TakeBatchType

LEMMA Settling ==
    ASSUME Q!QueueInv, NEW c \in Ends, NEW i, NEW outcome \in {"ok", "failed"},
           Settle(c, i, outcome)
    PROVE  Q!QueueInv'
<1>1. Q!Settle(c, i, outcome)
  BY DEF Settle, Q!Settle
<1> QED BY <1>1, QueueFits, Q!SettleType

LEMMA Booking ==
    ASSUME Q!QueueInv, NEW c \in Ends, BookBatch(c, FALSE)
    PROVE  Q!QueueInv'
<1>1. Q!Retryable(c) = Retryable(c)
  BY DEF Q!Retryable, Retryable, Q!With, With
<1>2. \A k : Q!Nth(Retryable(c), k) = Nth(Retryable(c), k)
  BY SameSize DEF Q!Nth, Nth
<1>3. Q!RetriesOf(c) = RetriesOf(c)
  BY <1>1, <1>2, SameSize DEF Q!RetriesOf, RetriesOf
<1>4. Q!Requeued(c) = Requeued(c)
  BY <1>3 DEF Q!Requeued, Requeued, Q!Smaller, Smaller, Q!Room, Room
<1>5. Q!BatchSettled(c) <=> BatchSettled(c)
  BY DEF Q!BatchSettled, BatchSettled, Q!Idle, Idle
<1>6. PICK waiting : waiting = Requeued(c)
  OBVIOUS
<1>7. PICK limit, budget : limit = drain[c].limit /\ budget = drain[c].budget
  OBVIOUS
<1>8. BatchSettled(c) /\ TakeBatch(c, waiting, limit, budget)
  BY <1>6, <1>7 DEF BookBatch
<1>9. Q!TakeBatch(c, waiting, limit, budget)
  BY <1>8 DEF TakeBatch, Q!TakeBatch, Smaller, Q!Smaller, Idle, Q!Idle
<1>10. Q!BookBatch(c, FALSE)
  BY <1>4, <1>5, <1>6, <1>7, <1>8, <1>9 DEF Q!BookBatch
<1> QED BY <1>10, QueueFits, Q!BookBatchType

LEMMA Closing == Q!QueueInv /\ Close => Q!QueueInv'
<1>1. Close => Q!Close
  BY DEF Close, Q!Close
<1>2. Q!QueueInv /\ Q!Close => Q!QueueInv'
  BY QueueFits, Q!CloseType
<1> QED BY <1>1, <1>2

LEMMA QueueStill == Q!QueueInv /\ UNCHANGED queueOnly => Q!QueueInv'
BY DEF Q!QueueInv, queueOnly

\* The drain that hosts the nested cycle is one of the manual drains as long as
\* that cycle runs: when it returns, it settles the first job of a batch.
HostInv ==
    /\ host \in Drains \cup {Nobody}
    /\ "nested" \in Callers /\ InCycle("nested") => host \in Drains

PlainTypeOK ==
    /\ awaited \in BOOLEAN /\ graceOver \in BOOLEAN
    /\ reply \in {"none", "started", "conflict"}
    /\ submissions \in 0 .. MaxSubmissions

WorkerInv == Q!QueueInv /\ HostInv /\ PlainTypeOK

LEMMA WorkerInit == Init => WorkerInv
<1> SUFFICES ASSUME Init PROVE WorkerInv
  OBVIOUS
<1>1. Q!QueueInv
  BY QueueStart DEF Init
<1>2. HostInv
  BY DEF Init, HostInv, InCycle
<1>3. PlainTypeOK
  <2>1. awaited = FALSE /\ graceOver = FALSE /\ reply = "none" /\ submissions = 0
    BY Zenon DEF Init
  <2>2. submissions \in 0 .. MaxSubmissions
    BY <2>1
  <2>3. awaited \in BOOLEAN /\ graceOver \in BOOLEAN /\ reply \in {"none", "started", "conflict"}
    BY <2>1, Zenon
  <2> QED BY <2>2, <2>3 DEF PlainTypeOK
<1> QED BY <1>1, <1>2, <1>3 DEF WorkerInv

\* Another caller's cycle is not the nested one.
LEMMA HostStays ==
    ASSUME ControlTypeOK, HostInv, UNCHANGED host, NEW c \in CallerKind, NEW there,
           Goto(c, there), c # "nested" \/ InCycle(c)
    PROVE  HostInv'
<1>1. \A d \in Callers \ {c} : phase'[d] = phase[d]
  BY DEF Goto, ControlTypeOK
<1>2. "nested" \in Callers /\ InCycle("nested")' => InCycle("nested")
  BY <1>1 DEF InCycle
<1> QED BY <1>2 DEF HostInv

LEMMA HostUnmoved == HostInv /\ UNCHANGED <<host, phase>> => HostInv'
BY DEF HostInv, InCycle

LEMMA ReturnKeeps ==
    ASSUME ControlTypeOK, WorkerInv, NEW c \in Callers, InCycle(c), NEW threw \in BOOLEAN,
           Return(c, threw)
    PROVE  WorkerInv'
<1>1. /\ Q!QueueInv /\ HostInv /\ PlainTypeOK
      /\ Goto(c, IF c = "timer" THEN "settling" ELSE "idle")
      /\ reply' = IF c = "manual" /\ awaited THEN IF threw THEN "conflict" ELSE "started"
                  ELSE reply
      /\ awaited' = (awaited /\ c # "manual")
      /\ UNCHANGED <<submissions, graceOver>>
  BY DEF WorkerInv, Return
<1>2. PlainTypeOK'
  <2>1. awaited' \in BOOLEAN
    BY <1>1, Zenon
  <2>2. reply' \in {"none", "started", "conflict"}
    BY <1>1 DEF PlainTypeOK
  <2> QED BY <1>1, <2>1, <2>2 DEF PlainTypeOK
<1>3. CASE c = "nested"
  <2>1. /\ host \in Drains /\ host' = Nobody
        /\ Settle(host, 1, IF threw THEN "failed" ELSE "ok")
    BY <1>1, <1>3 DEF Return, HostInv
  <2>2. Q!QueueInv'
    <3>1. host \in Ends
      BY <2>1 DEF Ends
    <3>2. PICK outcome \in {"ok", "failed"} : Settle(host, 1, outcome)
      BY <2>1
    <3> QED BY <1>1, <3>1, <3>2, Settling
  <2>3. ~InCycle("nested")'
    BY <1>1, <1>3 DEF Goto, InCycle, ControlTypeOK
  <2> QED BY <1>2, <2>1, <2>2, <2>3 DEF HostInv, WorkerInv
<1>4. CASE c # "nested"
  <2>1. UNCHANGED host /\ UNCHANGED queueOnly
    BY <1>4 DEF Return
  <2>2. c \in CallerKind
    BY WorkerAssumption
  <2>3. HostInv'
    BY <1>1, <1>4, <2>1, <2>2, HostStays
  <2> QED BY <1>1, <1>2, <2>1, <2>3, QueueStill DEF WorkerInv
<1> QED BY <1>3, <1>4

\* A stage of a cycle is opened.
LEMMA OpenStageKeeps ==
    ASSUME ControlTypeOK, WorkerInv, NEW c \in Callers, NEW here \in Phase \ {"idle", "settling"},
           NEW there \in Phase, NEW next \in Phase, NEW limit \in Nat,
           OpenStage(c, here, there, next, limit)
    PROVE  WorkerInv'
<1>1. Q!QueueInv /\ HostInv /\ PlainTypeOK /\ InCycle(c) /\ UNCHANGED control
  BY DEF WorkerInv, OpenStage, InCycle
<1>2. PICK n \in 0 .. MaxBatch :
         LET jobs == [i \in 1 .. n |-> [for |-> c, kind |-> "check"]]
         IN  IF n = 0
             THEN Goto(c, next) /\ UNCHANGED queueOnly
             ELSE Goto(c, there) /\ TakeBatch(c, Appended(jobs), limit, StageBudget(n))
  BY Zenon DEF OpenStage
<1>3. HostInv'
  <2>1. UNCHANGED host /\ c \in CallerKind
    BY <1>1, WorkerAssumption DEF control
  <2>2. Goto(c, next) \/ Goto(c, there)
    BY <1>2
  <2> QED BY <1>1, <2>1, <2>2, HostStays
<1>4. PlainTypeOK'
  BY <1>1 DEF PlainTypeOK, control
<1>5. Q!QueueInv'
  <2>1. CASE n = 0
    BY <1>1, <1>2, <2>1, QueueStill
  <2>2. CASE n # 0
    <3>1. PICK jobs : jobs = [i \in 1 .. n |-> [for |-> c, kind |-> "check"]]
      OBVIOUS
    <3>2. TakeBatch(c, Appended(jobs), limit, StageBudget(n))
      BY <1>2, <2>2, <3>1
    <3>3. n \in Nat /\ StageBudget(n) \in Nat
      BY WorkerAssumption DEF StageBudget
    <3>4. jobs \in Seq(Job)
      <4>1. jobs \in [1 .. n -> Job]
        BY <3>1 DEF Job
      <4> QED BY <3>3, <4>1, SeqDef, Zenon
    <3> QED BY <1>1, <3>2, <3>3, <3>4, Taking DEF Ends
  <2> QED BY <2>1, <2>2
<1> QED BY <1>3, <1>4, <1>5 DEF WorkerInv

LEMMA BookKeepsTypes ==
    ASSUME WorkerInv, NEW c \in Ends, Book(c)
    PROVE  WorkerInv'
<1>1. Q!QueueInv'
  BY Booking DEF WorkerInv, Book
<1> QED BY <1>1, HostUnmoved DEF WorkerInv, Book, control, PlainTypeOK

LEMMA CycleKeepsTypes ==
    ASSUME ControlTypeOK, WorkerInv, NEW c \in Callers, CycleStep(c) \/ FailCycle(c)
    PROVE  WorkerInv'
<1>0. Q!QueueInv /\ HostInv /\ PlainTypeOK /\ c \in CallerKind /\ c \in Ends
  BY WorkerAssumption DEF WorkerInv, Ends
<1>1. CASE BeginCycle(c)
  <2>1. InCycle(c)
    BY <1>1 DEF BeginCycle, InCycle
  <2>2. CASE Goto(c, "validate") /\ UNCHANGED <<queueOnly, control>>
    <3>1. UNCHANGED host
      BY <2>2 DEF control
    <3>2. HostInv'
      BY <1>0, <2>1, <2>2, <3>1, HostStays
    <3> QED BY <1>0, <2>2, <3>2, QueueStill DEF WorkerInv, control, PlainTypeOK
  <2> QED BY <1>1, <2>1, <2>2, ReturnKeeps DEF BeginCycle
<1>2. CASE ValidateStage(c)
  BY <1>2, OpenStageKeeps, WorkerAssumption DEF ValidateStage, Phase
<1>3. CASE ServiceStage(c)
  BY <1>3, OpenStageKeeps DEF ServiceStage, Phase
<1>4. CASE CycleHandler(c)
  <2>1. PICK i \in DOMAIN drain[c].batch : Settle(c, i, "ok")
    BY <1>4 DEF CycleHandler
  <2>2. Q!QueueInv'
    BY <1>0, <2>1, Settling
  <2> QED BY <1>0, <1>4, <2>2, HostUnmoved DEF WorkerInv, CycleHandler, control, PlainTypeOK
<1>5. CASE Book(c)
  BY <1>0, <1>5, BookKeepsTypes
<1>6. CASE CloseStage(c) \/ FailCycle(c)
  <2>1. /\ InCycle(c) /\ UNCHANGED <<queueOnly, control>>
        /\ Goto(c, "serve") \/ Goto(c, "finish")
    BY <1>6 DEF CloseStage, FailCycle, InCycle
  <2>2. UNCHANGED host
    BY <2>1 DEF control
  <2>3. HostInv'
    BY <1>0, <2>1, <2>2, HostStays
  <2> QED BY <1>0, <2>1, <2>3, QueueStill DEF WorkerInv, control, PlainTypeOK
<1>7. CASE EndCycle(c)
  BY <1>7, ReturnKeeps DEF EndCycle, InCycle
<1> QED BY <1>1, <1>2, <1>3, <1>4, <1>5, <1>6, <1>7 DEF CycleStep

LEMMA SubmitKeepsTypes == WorkerInv /\ SubmitJob => WorkerInv'
<1> SUFFICES ASSUME WorkerInv, SubmitJob PROVE WorkerInv'
  OBVIOUS
<1>0. Q!QueueInv /\ HostInv /\ PlainTypeOK
  BY DEF WorkerInv
<1>1. /\ submissions < MaxSubmissions /\ submissions' = submissions + 1
      /\ UNCHANGED <<timer, busy, phase, host, awaited, reply, shutdown, graceOver>>
  BY DEF SubmitJob
<1>2. PICK kind \in {"check"} \cup (IF "nested" \in Callers THEN {"cycle"} ELSE {}) :
         LET waiting == Appended(<<[for |-> Operator, kind |-> kind]>>)
         IN  IF Room = 0 \/ busy
             THEN queue' = waiting /\ UNCHANGED drain
             ELSE \E d \in Drains : /\ drain[d] = Idle
                                    /\ TakeBatch(d, waiting, 1, DrainBudget)
  BY Zenon DEF SubmitJob
<1>3. PICK jobs : jobs = <<[for |-> Operator, kind |-> kind]>>
  OBVIOUS
<1>4. jobs \in Seq(Job)
  BY <1>3 DEF Job
<1>5. \/ queue' = Appended(jobs) /\ UNCHANGED drain
      \/ \E d \in Drains : TakeBatch(d, Appended(jobs), 1, DrainBudget)
  BY <1>2, <1>3
<1>6. Q!QueueInv'
  <2>1. CASE queue' = Appended(jobs) /\ UNCHANGED drain
    BY <1>0, <1>4, <2>1, Adding
  <2>2. ASSUME NEW d \in Drains, TakeBatch(d, Appended(jobs), 1, DrainBudget)
        PROVE  Q!QueueInv'
    <3>1. d \in Ends /\ 1 \in Nat /\ DrainBudget \in Nat
      BY WorkerAssumption DEF Ends
    <3> QED BY <1>0, <1>4, <2>2, <3>1, Taking
  <2> QED BY <1>5, <2>1, <2>2
<1>7. PlainTypeOK'
  BY <1>0, <1>1, WorkerAssumption DEF PlainTypeOK
<1>8. HostInv'
  BY <1>0, <1>1, HostUnmoved
<1> QED BY <1>6, <1>7, <1>8 DEF WorkerInv

LEMMA DrainKeepsTypes ==
    ASSUME ControlTypeOK, WorkerInv, NEW d \in Drains, DrainStep(d)
    PROVE  WorkerInv'
<1>0. Q!QueueInv /\ HostInv /\ PlainTypeOK /\ d \in Ends
  BY DEF WorkerInv, Ends
<1>1. CASE ExternalCheck(d)
  <2>1. PICK outcome \in {"ok", "failed"} : Settle(d, 1, outcome)
    BY <1>1 DEF ExternalCheck
  <2>2. Q!QueueInv'
    BY <1>0, <2>1, Settling
  <2> QED BY <1>0, <1>1, <2>2, HostUnmoved DEF WorkerInv, ExternalCheck, control, PlainTypeOK
<1>2. CASE ExternalCycle(d)
  <2>1. host' = d /\ UNCHANGED <<queueOnly, awaited, reply, submissions, graceOver>>
    BY <1>2 DEF ExternalCycle
  <2>2. HostInv'
    BY <2>1 DEF HostInv
  <2> QED BY <1>0, <2>1, <2>2, QueueStill DEF WorkerInv, PlainTypeOK
<1>3. CASE Book(d)
  BY <1>0, <1>3, BookKeepsTypes
<1> QED BY <1>1, <1>2, <1>3 DEF DrainStep

\* The timer and the manual trigger move cycles that are not nested.
LEMMA TriggersKeepTypes ==
    ASSUME ControlTypeOK, WorkerInv, TimerFires \/ Rearm \/ ManualTrigger
    PROVE  WorkerInv'
<1>0. Q!QueueInv /\ HostInv /\ PlainTypeOK
  BY DEF WorkerInv
<1>1. UNCHANGED queueOnly /\ UNCHANGED <<host, submissions, graceOver>>
  BY DEF TimerFires, Rearm, ManualTrigger
<1>2. \/ UNCHANGED phase
      \/ \E c \in {"timer", "manual"}, there \in {"start", "settling", "idle"} : Goto(c, there)
  BY DEF TimerFires, Rearm, ManualTrigger
<1>3. HostInv'
  <2>1. CASE UNCHANGED phase
    BY <1>0, <1>1, <2>1, HostUnmoved
  <2>2. ASSUME NEW c \in {"timer", "manual"}, NEW there \in {"start", "settling", "idle"},
               Goto(c, there)
        PROVE  HostInv'
    <3>1. c \in CallerKind /\ c # "nested"
      BY DEF CallerKind
    <3> QED BY <1>0, <1>1, <2>2, <3>1, HostStays
  <2> QED BY <1>2, <2>1, <2>2
<1>4. PlainTypeOK'
  <2>1. CASE TimerFires \/ Rearm
    BY <1>0, <2>1 DEF TimerFires, Rearm, PlainTypeOK
  <2>2. CASE ManualTrigger
    <3>1. PICK wait \in BOOLEAN :
             \/ awaited' = wait /\ reply' = IF wait THEN reply ELSE "started"
             \/ reply' = "conflict" /\ awaited' = awaited
      BY <2>2 DEF ManualTrigger
    <3>2. awaited' \in BOOLEAN /\ reply' \in {"none", "started", "conflict"}
      BY <1>0, <3>1 DEF PlainTypeOK
    <3> QED BY <1>0, <1>1, <3>2 DEF PlainTypeOK
  <2> QED BY <2>1, <2>2
<1>5. Q!QueueInv'
  BY <1>0, <1>1, QueueStill
<1> QED BY <1>3, <1>4, <1>5 DEF WorkerInv

LEMMA StopKeepsTypes ==
    ASSUME ControlTypeOK, WorkerInv, Sigterm \/ Stop
    PROVE  WorkerInv'
<1>0. Q!QueueInv /\ HostInv /\ PlainTypeOK
  BY DEF WorkerInv
<1>1. UNCHANGED <<host, phase, awaited, reply, submissions>>
  BY DEF Sigterm, Stop, CloseQueue, CloseHttp, CloseDatabase
<1>2. Q!QueueInv'
  <2>1. UNCHANGED queueOnly \/ Close
    BY DEF Sigterm, Stop, CloseQueue, CloseHttp, CloseDatabase
  <2> QED BY <1>0, <2>1, QueueStill, Closing
<1>3. graceOver' \in BOOLEAN
  BY <1>0 DEF Sigterm, Stop, CloseQueue, CloseHttp, CloseDatabase, Waited, ControlTypeOK,
              PlainTypeOK
<1> QED BY <1>0, <1>1, <1>2, <1>3, HostUnmoved DEF WorkerInv, PlainTypeOK

LEMMA WorkerStep == ControlInv /\ WorkerInv /\ [Next]_vars => WorkerInv'
<1> SUFFICES ASSUME ControlTypeOK, WorkerInv, [Next]_vars PROVE WorkerInv'
  BY DEF ControlInv
<1>1. CASE UNCHANGED vars
  <2>1. UNCHANGED queueOnly /\ UNCHANGED <<phase, host, awaited, reply, submissions, graceOver>>
    BY <1>1 DEF vars, queueOnly, control
  <2> QED BY <2>1, QueueStill, HostUnmoved DEF WorkerInv, PlainTypeOK
<1>2. CASE \E c \in Callers : CycleStep(c) \/ FailCycle(c)
  BY <1>2, CycleKeepsTypes
<1>3. CASE \E d \in Drains : DrainStep(d)
  BY <1>3, DrainKeepsTypes
<1> QED BY <1>1, <1>2, <1>3, TriggersKeepTypes, SubmitKeepsTypes, StopKeepsTypes DEF Next

\* Types, with the bound on the queue that cycles, drains and retries share, and
\* a batch never larger than the limit it was opened with.
THEOREM TypeCorrect == Spec => []TypeOK
<1>1. ControlInv /\ WorkerInv => TypeOK
  BY QueueTyped DEF ControlInv, ControlTypeOK, WorkerInv, HostInv, PlainTypeOK, TypeOK
<1>2. Spec => []WorkerInv
  BY WorkerInit, WorkerStep, ControlHolds, PTL DEF Spec
<1> QED BY <1>1, <1>2, ControlHolds, PTL
=============================================================================
