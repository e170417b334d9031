---------------------------- MODULE MemoryQueue ----------------------------
(***************************************************************************)
(* The queue as a component of its own: any producer, any consumer, any    *)
(* handler.  Every job is a different one (newJobId).  `fate` is not in    *)
(* the code: it records what became of each job so that the one thing the  *)
(* code keeps of the jobs it lost, the counter `dropped`, can be compared  *)
(* with it.                                                                *)
(***************************************************************************)
EXTENDS JobQueue

CONSTANTS
    Limits,    \* values of options.concurrency
    Budgets    \* values of options.maxJobs

ASSUME MemoryAssumption ==
    /\ IsFiniteSet(Jobs)
    /\ Limits \subseteq Nat \ {0} /\ Budgets \subseteq Nat

VARIABLES dropped, fate, closed

vars == <<queueVars, dropped, fate, closed>>

TypeOK ==
    /\ QueueTypeOK
    /\ dropped \in Nat
    /\ fate \in [Jobs -> {"unsent", "sent", "processed", "lost", "cleared"}]
    /\ closed \in BOOLEAN

Init ==
    /\ QueueInit
    /\ dropped = 0
    /\ fate = [j \in Jobs |-> "unsent"]
    /\ closed = FALSE

Waiting(q) == {q[i].job : i \in DOMAIN q}

Unsent == {j \in Jobs : fate[j] = "unsent"}

\* sendMany of any of the jobs, in any order.
Send ==
    \E n \in 1 .. Cardinality(Unsent) :
    \E jobs \in {s \in [1 .. n -> Unsent] : \A i, k \in 1 .. n : i # k => s[i] # s[k]} :
        LET fits == Smaller(n, Room)
        IN  /\ SendMany(jobs)
            /\ dropped' = dropped + (n - fits)
            /\ fate' = [j \in Jobs |->
                  IF \E i \in 1 .. fits : jobs[i] = j THEN "sent"
                  ELSE IF \E i \in 1 .. n : jobs[i] = j THEN "lost"
                  ELSE fate[j]]
            /\ UNCHANGED closed

Open(c) ==
    /\ queue # <<>>
    /\ \E limit \in Limits, budget \in Budgets : Consume(c, limit, budget)
    /\ UNCHANGED <<dropped, fate, closed>>

Handle(c) ==
    /\ \E i \in DOMAIN drain[c].batch, outcome \in {"ok", "failed"} : Settle(c, i, outcome)
    /\ UNCHANGED <<dropped, fate, closed>>

\* Mutation: a retry that finds the queue full is not counted.
UncountedRetry(c) == Cardinality(With(c, "failed") \ Retryable(c))

\* Failed jobs the queue does not take back: out of attempts, or no room.
Refused(c) ==
    Cardinality(With(c, "failed") \ Retryable(c))
        + Len(RetriesOf(c)) - Smaller(Len(RetriesOf(c)), Room)

Book(c) ==
    /\ \E aborted \in BOOLEAN : BookBatch(c, aborted)
    /\ dropped' = dropped + Refused(c)
    /\ fate' = [j \in Jobs |->
          LET i == CHOOSE i \in DOMAIN drain[c].batch : drain[c].batch[i].job = j
              here == \E k \in DOMAIN drain[c].batch : drain[c].batch[k].job = j
          IN  IF ~here THEN fate[j]
              ELSE IF drain[c].result[i] = "ok" THEN "processed"
              ELSE IF \E k \in DOMAIN Requeued(c) : Requeued(c)[k].job = j THEN "sent"
              ELSE "lost"]
    /\ UNCHANGED closed

\* close() throws away what waits and counts none of it.
Shut ==
    /\ ~closed
    /\ Close
    /\ closed' = TRUE
    /\ fate' = [j \in Jobs |-> IF j \in Waiting(queue) THEN "cleared" ELSE fate[j]]
    /\ UNCHANGED dropped

Next ==
    \/ Send
    \/ \E c \in Consumers : Open(c) \/ Handle(c) \/ Book(c)
    \/ Shut

Spec == Init /\ [][Next]_vars

\* Somebody keeps draining (every cycle does), and a handler settles: its
\* requests have timeouts.
FairSpec ==
    /\ Spec
    /\ WF_vars(\E c \in Consumers : Open(c))
    /\ \A c \in Consumers : WF_vars(Handle(c)) /\ WF_vars(Book(c))

-----------------------------------------------------------------------------
Places(j) ==
    {<<"queue", i>> : i \in {i \in DOMAIN queue : queue[i].job = j}}
    \cup UNION { {<<c, i>> : i \in {i \in DOMAIN drain[c].batch : drain[c].batch[i].job = j}} :
                 c \in Consumers }

(* "Nothing is ever lost silently without being counted"                   *)
(* (tests/queue.test.ts:3-4): a job that was sent and has no outcome is in *)
(* exactly one place -- never two handlers at once -- and the counter      *)
(* knows every other one that was not processed, close() apart.            *)
NothingLostSilently ==
    /\ \A j \in Jobs : Cardinality(Places(j)) = IF fate[j] = "sent" THEN 1 ELSE 0
    /\ dropped = Cardinality({j \in Jobs : fate[j] = "lost"})

(* "Requeue at the tail so a hot failing job cannot starve the rest"       *)
(* (docs/ARCHITECTURE.md:200): a job that waits is overtaken by nobody.    *)
Position(q, j) == CHOOSE i \in DOMAIN q : q[i].job = j

NoOvertaking ==
    [][\A j \in Waiting(queue) \cap Waiting(queue') :
          \A k \in Waiting(queue') \ {j} :
             Position(queue', k) < Position(queue', j) =>
                k \in Waiting(queue) /\ Position(queue, k) < Position(queue, j)]_vars

(* Retries are bounded: as long as somebody drains, every job sent is      *)
(* processed or given up, however many handlers throw.                     *)
JobsResolved == \A j \in Jobs : fate[j] = "sent" ~> fate[j] # "sent"
=============================================================================
