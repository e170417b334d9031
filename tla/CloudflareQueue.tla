-------------------------- MODULE CloudflareQueue --------------------------
(***************************************************************************)
(* The driver of worker/src/queue/cloudflare-queue.ts over the HTTP        *)
(* pull-consumer interface of Cloudflare Queues.  The service is outside   *)
(* of src/: it keeps what was produced, leases what is pulled for a time,  *)
(* and obeys an acknowledgement only while the lease runs.  Every request  *)
(* may fail, before or after the service has acted on it.                  *)
(*                                                                         *)
(* A call of consume comes from the pipeline, always with drainOnly and    *)
(* maxJobs and never with a signal.  Messages carry no order that the      *)
(* driver relies on, so batches are sets, and the concurrency of a batch   *)
(* is left open: its handlers settle in any order.  A body that is not a   *)
(* job is acknowledged like one that was handled.                          *)
(***************************************************************************)
EXTENDS Integers, FiniteSets

CONSTANTS
    Jobs,
    Consumers,   \* the stages and manual drains that may be under way at once
    BatchSize,   \* QUEUE_BATCH_SIZE
    ChunkSize,   \* MAX_JOBS_PER_REQUEST
    MaxRetries,  \* QUEUE_MAX_RETRIES
    Budgets,     \* values of options.maxJobs
    MaxTries     \* bound: failed deliveries that are counted

ASSUME CloudflareAssumption ==
    /\ IsFiniteSet(Jobs)
    /\ {BatchSize, ChunkSize} \subseteq Nat \ {0}
    /\ {MaxRetries, MaxTries} \subseteq Nat /\ Budgets \subseteq Nat

VARIABLES
    outbound,  \* this.outbound
    closed,    \* this.closed
    drain,     \* drain[c]: the call of consume, or of sendMany before it
    lease,     \* lease[c]: the leases of its messages that have not run out
    remote,    \* remote[j]: where the service has the job
    tries,     \* not in the code: failed deliveries of each job, up to MaxTries
    done       \* not in the code: jobs handled or given up

service == <<lease, remote>>
history == <<tries, done>>
vars == <<outbound, closed, drain, service, history>>

Stage == {"idle", "produce", "pull", "work"}
Outcome == {"working", "ok", "retry", "givenUp"}

\* sending: what sendMany has not posted yet; held: the messages of the latest
\* pull and what became of them; budget: maxJobs.
Idle == [stage |-> "idle", sending |-> {}, held |-> [j \in {} |-> "working"],
         budget |-> 0, handled |-> 0]

Held == UNION {[batch -> Outcome] : batch \in SUBSET Jobs}
Drain == [stage : Stage, sending : SUBSET Jobs, held : Held, budget : Nat, handled : Nat]

TypeOK ==
    /\ outbound \subseteq Jobs
    /\ closed \in BOOLEAN
    /\ drain \in [Consumers -> Drain]
    /\ \A c \in Consumers :
          /\ drain[c].stage = "idle" => drain[c] = Idle
          /\ drain[c].stage = "produce" <=> drain[c].sending # {}
          /\ drain[c].stage = "work" <=> DOMAIN drain[c].held # {}
    /\ lease \in [Consumers -> SUBSET Jobs]
    /\ remote \in [Jobs -> {"absent", "visible", "leased", "gone"}]
    /\ tries \in [Jobs -> 0 .. MaxTries]
    /\ done \subseteq Jobs

Init ==
    /\ outbound = {}
    /\ closed = FALSE
    /\ drain = [c \in Consumers |-> Idle]
    /\ lease = [c \in Consumers |-> {}]
    /\ remote \in [Jobs -> {"absent", "visible"}]  \* the service outlives the process
    /\ tries = [j \in Jobs |-> 0]
    /\ done = {}

-----------------------------------------------------------------------------
(* Producing *)

Smaller(m, n) == IF m <= n THEN m ELSE n
Larger(m, n) == IF m >= n THEN m ELSE n

\* Jobs nobody has sent yet.
Fresh ==
    {j \in Jobs : /\ remote[j] = "absent"
                  /\ j \notin outbound
                  /\ \A c \in Consumers : j \notin drain[c].sending}

\* It does not look at `closed`.
Send ==
    /\ \E j \in Fresh : outbound' = outbound \cup {j}
    /\ UNCHANGED <<closed, drain, service, history>>

Pulling(d) == [d EXCEPT !.stage = "pull", !.held = Idle.held]

\* Mutation: the list of messages outlives its round.
RoundKeepsBatch(d) ==
    IF closed \/ d.handled >= d.budget THEN Idle ELSE [d EXCEPT !.stage = "pull"]

\* The head of consume's loop; close and the budget end it.
Round(d) == IF closed \/ d.handled >= d.budget THEN Idle ELSE Pulling(d)

Becomes(c, d) == drain' = [drain EXCEPT ![c] = d]

\* consume, or sendMany of fresh jobs with a consume after it.
Open(c, jobs, maxJobs) ==
    LET d == [Idle EXCEPT !.sending = jobs, !.budget = maxJobs]
    IN  /\ drain[c] = Idle
        /\ Becomes(c, IF jobs = {} THEN Round(d) ELSE [d EXCEPT !.stage = "produce"])
        /\ UNCHANGED <<closed, service, history>>

OpenDrain(c) ==
    /\ \E maxJobs \in Budgets : Open(c, outbound, maxJobs)
    /\ outbound' = {}

OpenStage(c) ==
    /\ \E jobs \in SUBSET Fresh \ {{}} : Open(c, jobs, 2 * Cardinality(jobs))
    /\ UNCHANGED outbound

\* One POST: the chunk arrives or does not.  After the last one sendMany throws
\* away what has been sent to the outbound buffer in the meantime.
PostChunk(c) ==
    /\ drain[c].stage = "produce"
    /\ \E chunk \in SUBSET drain[c].sending :
          LET d == [drain[c] EXCEPT !.sending = @ \ chunk]
          IN  /\ Cardinality(chunk) = Smaller(ChunkSize, Cardinality(drain[c].sending))
              /\ \/ remote' = [j \in Jobs |-> IF j \in chunk THEN "visible" ELSE remote[j]]
                 \/ UNCHANGED remote
              /\ IF d.sending = {}
                 THEN outbound' = {} /\ Becomes(c, Round(d))
                 ELSE UNCHANGED outbound /\ Becomes(c, d)
    /\ UNCHANGED <<closed, lease, history>>

-----------------------------------------------------------------------------
(* Pulling *)

Hint(c) == Larger(1, Smaller(BatchSize, drain[c].budget - drain[c].handled))

\* Mutation: what is taken is not counted.
TakenUncounted(d, batch) ==
    [d EXCEPT !.stage = "work", !.held = [j \in batch |-> "working"]]

Taken(d, batch) ==
    [d EXCEPT !.stage = "work",
              !.held = [j \in batch |-> "working"],
              !.handled = @ + Cardinality(batch)]

Pull(c) ==
    /\ drain[c].stage = "pull"
    /\ \E batch \in SUBSET {j \in Jobs : remote[j] = "visible"} :
          /\ Cardinality(batch) <= Hint(c)
          /\ remote' = [j \in Jobs |-> IF j \in batch THEN "leased" ELSE remote[j]]
          /\ \/ /\ batch # {}
                /\ lease' = [lease EXCEPT ![c] = batch]
                /\ Becomes(c, Taken(drain[c], batch))
             \* no messages, or an answer that is lost: the drain ends
             \/ Becomes(c, Idle) /\ UNCHANGED lease
    /\ UNCHANGED <<outbound, closed, history>>

-----------------------------------------------------------------------------
(* Handling and acknowledging *)

\* The attempt is read from the body, which nobody writes back: it is always 2.
Exhausted == 2 > MaxRetries

Handle(c) ==
    /\ \E j \in DOMAIN drain[c].held, outcome \in {"ok", "retry", "givenUp"} :
          /\ drain[c].held[j] = "working"
          /\ outcome = "retry" => ~Exhausted
          /\ outcome = "givenUp" => Exhausted
          /\ drain' = [drain EXCEPT ![c].held[j] = outcome]
          /\ tries' = IF outcome = "ok" THEN tries
                      ELSE [tries EXCEPT ![j] = Smaller(@ + 1, MaxTries)]
          /\ done' = IF outcome = "retry" THEN done ELSE done \cup {j}
    /\ UNCHANGED <<outbound, closed, service>>

\* Mutation: what is to be retried is acknowledged as well.
AckedAll(d) == DOMAIN d.held

Acked(d) == {j \in DOMAIN d.held : d.held[j] \in {"ok", "givenUp"}}

\* A request that fails changes nothing; a short batch ends the drain.
Acknowledge(c) ==
    /\ drain[c].stage = "work"
    /\ \A j \in DOMAIN drain[c].held : drain[c].held[j] # "working"
    /\ \/ remote' = [j \in Jobs |->
             IF j \notin lease[c] THEN remote[j]
             ELSE IF j \in Acked(drain[c]) THEN "gone" ELSE "visible"]
       \/ UNCHANGED remote
    /\ lease' = [lease EXCEPT ![c] = {}]
    /\ Becomes(c, IF Cardinality(DOMAIN drain[c].held) < BatchSize THEN Idle
                  ELSE Round(drain[c]))
    /\ UNCHANGED <<outbound, closed, history>>

-----------------------------------------------------------------------------
\* The visibility timeout: the job is there for everyone again.
LeaseExpires ==
    /\ \E j \in Jobs :
          /\ remote[j] = "leased"
          /\ remote' = [remote EXCEPT ![j] = "visible"]
          /\ lease' = [c \in Consumers |-> lease[c] \ {j}]
    /\ UNCHANGED <<outbound, closed, drain, history>>

Close ==
    /\ ~closed
    /\ closed' = TRUE
    /\ outbound' = {}
    /\ UNCHANGED <<drain, service, history>>

Progress(c) == PostChunk(c) \/ Pull(c) \/ Handle(c) \/ Acknowledge(c)

Next ==
    \/ Send
    \/ \E c \in Consumers : OpenDrain(c) \/ OpenStage(c) \/ Progress(c)
    \/ LeaseExpires
    \/ Close

Spec == Init /\ [][Next]_vars

\* Requests and handlers have timeouts.
FairSpec == Spec /\ \A c \in Consumers : WF_vars(Progress(c))

-----------------------------------------------------------------------------
(* At least once: the service forgets a job only when some consumer has      *)
(* handled it or given it up -- whatever requests are lost, leases run out   *)
(* and consumers hold the same job at the same time.                         *)
GoneMeansDone == \A j \in Jobs : remote[j] = "gone" => j \in done

(* "Work is bounded" (tests/queue.test.ts:3): a drain never takes more       *)
(* messages than its budget.                                                 *)
WithinBudget == \A c \in Consumers : drain[c].handled <= drain[c].budget

(* A drain comes to its end although the jobs that fail come back to it at   *)
(* once and other drains feed the same queue.                                *)
DrainsEnd == \A c \in Consumers : drain[c] # Idle ~> drain[c] = Idle

(* "Bumped by the consumer on each delivery attempt; used for bounded        *)
(* retries" (worker/src/queue/types.ts:27): a job is not delivered again     *)
(* after its attempts are used up.                                           *)
RetriesBounded == \A j \in Jobs : tries[j] <= MaxRetries
=============================================================================
