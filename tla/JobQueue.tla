------------------------------ MODULE JobQueue ------------------------------
(***************************************************************************)
(* The in-process queue of worker/src/queue/memory-queue.ts as the code    *)
(* that uses it sees it: a bounded FIFO that several calls of consume may  *)
(* drain at the same time.  JavaScript runs a consumer without             *)
(* interruption from one await to the next, so a call of consume is one    *)
(* step that takes a batch, one step per handler that settles, and one     *)
(* step that books the batch, puts the failed jobs back and takes the next *)
(* batch.                                                                  *)
(***************************************************************************)
EXTENDS Integers, Sequences, FiniteSets

CONSTANTS
    Jobs,        \* what a queue entry carries
    Consumers,   \* the calls of consume that may be open at the same time
    Capacity,    \* QUEUE_MEMORY_CAPACITY
    MaxAttempts  \* deliveries of one job

ASSUME QueueAssumption ==
    /\ Capacity \in Nat
    /\ MaxAttempts \in Nat \ {0}

VARIABLES
    queue,  \* this.queue
    drain   \* drain[c]: the open call of consume, or Idle

queueVars == <<queue, drain>>

Entry == [job : Jobs, attempt : 1 .. MaxAttempts]

Idle == [batch |-> <<>>, result |-> <<>>, limit |-> 0, budget |-> 0]

Smaller(m, n) == IF m <= n THEN m ELSE n

QueueTypeOK ==
    /\ queue \in Seq(Entry)
    /\ Len(queue) <= Capacity
    /\ DOMAIN drain = Consumers
    /\ \A c \in Consumers :
          /\ drain[c].batch \in Seq(Entry)
          /\ drain[c].result \in [DOMAIN drain[c].batch -> {"working", "ok", "failed"}]
          /\ Len(drain[c].batch) <= drain[c].limit
          /\ drain[c].budget \in Nat

QueueInit ==
    /\ queue = <<>>
    /\ drain = [c \in Consumers |-> Idle]

-----------------------------------------------------------------------------
(* send, sendMany: what does not fit is refused. *)

\* Mutation: a full queue takes one more.
RoomForOneMore == Capacity + 1 - Len(queue)

Room == Capacity - Len(queue)

Appended(jobs) ==
    queue \o [i \in 1 .. Smaller(Len(jobs), Room) |-> [job |-> jobs[i], attempt |-> 1]]

SendMany(jobs) ==
    /\ queue' = Appended(jobs)
    /\ UNCHANGED drain

-----------------------------------------------------------------------------
(* consume *)

\* The head of the loop: it ends when the queue is empty or the budget spent.
TakeBatch(c, waiting, limit, budget) ==
    LET n == Smaller(Len(waiting), Smaller(limit, budget))
    IN  /\ queue' = SubSeq(waiting, n + 1, Len(waiting))
        /\ drain' = [drain EXCEPT ![c] =
              IF n = 0 THEN Idle
              ELSE [ batch  |-> SubSeq(waiting, 1, n),
                     result |-> [i \in 1 .. n |-> "working"],
                     limit  |-> limit,
                     budget |-> budget - n ]]

Consume(c, limit, budget) ==
    /\ drain[c] = Idle
    /\ TakeBatch(c, queue, limit, budget)

\* One handler of the batch returns or throws.
Settle(c, i, outcome) ==
    /\ i \in DOMAIN drain[c].batch
    /\ drain[c].result[i] = "working"
    /\ drain' = [drain EXCEPT ![c].result[i] = outcome]
    /\ UNCHANGED queue

BatchSettled(c) ==
    /\ drain[c] # Idle
    /\ \A i \in DOMAIN drain[c].batch : drain[c].result[i] # "working"

With(c, outcome) == {i \in DOMAIN drain[c].batch : drain[c].result[i] = outcome}

\* Mutation: the last attempt is retried as well.
RetryableOnceMore(c) == {i \in With(c, "failed") : drain[c].batch[i].attempt <= MaxAttempts}

Retryable(c) == {i \in With(c, "failed") : drain[c].batch[i].attempt < MaxAttempts}

\* The k-th of the positions in S.
Nth(S, k) == CHOOSE i \in S : Cardinality({j \in S : j < i}) = k - 1

\* Mutation: the failed job is put back with the attempt it was taken with.
RetriesOfUnbumped(c) ==
    [k \in 1 .. Cardinality(Retryable(c)) |-> drain[c].batch[Nth(Retryable(c), k)]]

\* The retryable entries of the batch, in its order, with their next attempt.
RetriesOf(c) ==
    [k \in 1 .. Cardinality(Retryable(c)) |->
        [drain[c].batch[Nth(Retryable(c), k)] EXCEPT !.attempt = @ + 1]]

\* Mutation: retries go to the head of the queue.
RequeuedAtHead(c) == SubSeq(RetriesOf(c), 1, Smaller(Len(RetriesOf(c)), Room)) \o queue

\* At the tail, as far as there is room.
Requeued(c) == queue \o SubSeq(RetriesOf(c), 1, Smaller(Len(RetriesOf(c)), Room))

\* Everything between the last handler and the next await.
BookBatch(c, aborted) ==
    /\ BatchSettled(c)
    /\ TakeBatch(c, Requeued(c), drain[c].limit, IF aborted THEN 0 ELSE drain[c].budget)

Close ==
    /\ queue' = <<>>
    /\ UNCHANGED drain
=============================================================================
