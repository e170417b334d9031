# ProxyPulse in TLA+

Specifications of ProxyPulse: a worker that discovers public proxies,
checks them, keeps the good ones in a bounded rolling pool stored in SQLite/Turso,
and serves that pool over an API behind an edge gateway. All paths below are relative to `src/`.

## The system

| component | state it keeps | operations | what makes it correct |
|---|---|---|---|
| **Rolling pool** (`db/src/repositories/proxies.ts`, `worker/src/pool/manager.ts`, `shared/src/scoring.ts`) | the `proxies` table: one row per endpoint with status, verdicts, score, failure count and timestamps | upsert, claim, write outcomes, expire, quarantine, demote, release, prune | only endpoints that passed serve; proven ones are not given up; nothing stays claimed; the pool is bounded |
| **Refresh cycle** (`worker/src/pipeline/cycle.ts`, `db/src/repositories/cycles.ts`) | the `refresh_cycles` row, in-memory copies of rows | `runCycle`: discover, validate, probe the service, sweep, record | an interrupted cycle is recovered; a stale copy never overwrites a change; a failure costs no healthy member |
| **Queue jobs** (`handleExternalJob`) | a copy of one row | validate / re-check / service-check one proxy, or run a whole cycle | they do not undo what a cycle decides |
| **Memory queue** (`worker/src/queue/memory-queue.ts`) | the FIFO, the dropped counter | send, consume with retries, close | every job is handled, queued or counted |
| **Cloudflare queue** (`worker/src/queue/cloudflare-queue.ts`) | outbound buffer, leases | produce, pull, ack, retry | a job is retried at most `maxRetries` times |
| **Scheduler and runtime** (`worker/src/pipeline/scheduler.ts`, `worker/src/runtime.ts`, `worker/src/index.ts`) | busy, timer, stopping | tick, manual trigger, submitJob and its drain, stop | one cycle at a time; the loop never dies; the database outlives the cycle |
| **Service adapter** (`services/crunchyroll/src/`) | budget, cooldown, breaker, robots cache | one probe | budgets hold; a skip is not a verdict |
| **Validation checker** (`worker/src/validation/`) | none | one connectivity check with retries | bounded attempts; only an answer with a whole head through a whole handshake counts |
| **Discovery** (`worker/src/discovery/`, `shared/src/robots.ts`, `shared/src/proxy.ts`) | the gate's verdict and latest turn per origin | fetch sources side by side with retries, parse, merge | turns are spaced, refusals final; one failing source does not stop the rest or change what they give |
| **Network clients** (`worker/src/net/`) | one connection, the resolver's cache | proxied and direct requests | only allowed addresses are dialled; requests end where a timer runs, and close their socket |
| **Edge gateway** (`api/src/`) | edge cache, KV counters | cached reads, rate limit, call of the origin | answers are young or marked stale; nobody is refused for another window; every call is answered |
| **Worker HTTP API and views** (`worker/src/http/`, `worker/src/views.ts`) | none | reads, triggers | reads show eligible members only |
| **Pure helpers** (`shared/src/`) | none | parsing, IP and URL policy, scoring, token bucket | agreement with a reference definition |
| **Configuration, logging, migrations** | none | parse, format, apply once | -- |

Interaction: the scheduler (timer, or an HTTP trigger) calls `runCycle`; the cycle
writes the table, sends jobs to the queue and drains them itself; each job runs a
check whose outcome is kept in memory until the drain ends, when the pool manager
plans new statuses *from the copies of the rows it was given before the drain* and
the repository writes them. `POST /internal/jobs` puts a job on the same queue and, if
no cycle is running, drains it through `handleExternalJob`. The gateway reads the
table through the worker and caches what it reads.

Hard parts: every `await` between reading a row and writing it; a database error or a
process death between any two statements; a second cycle beside the scheduled one;
jobs that never come back; the order of the sweeps; time passing under all of this.
In the network clients it is the peer, which may send, split, stop or close at any point of a handshake or a
body. `PROJECT.json` lists each of them at its line under `hazards`.

## Modules

| module | role |
|---|---|
| `PoolRules` | pure operators: the row and every rule that changes it |
| `RefreshCycle` | the state machine: `runCycle` statement by statement |
| `PoolLifecycle` | abstract: which moves between statuses exist |
| `RefreshCycleProperties` | what the cycle promises; the refinement of `PoolLifecycle` |
| `SingleJobs` | the jobs for one proxy beside a `RefreshCycle` |
| `JobQueue` | the in-process queue: send, consume, close |
| `MemoryQueue` | the queue on its own: any producer, any number of drains, any handler |
| `Worker` | scheduler, triggers, job submission and shutdown around one `JobQueue` |
| `WorkerProperties` | what the process promises |
| `ServiceChecker` | the service adapter: limits, spacing, breaker and robots policy under probes that overlap |
| `CloudflareQueue` | the other queue driver over a service that leases and redelivers |
| `EdgeGateway` | the public gateway: rate limit, edge cache, call of the origin |
| `Requests` | one outgoing request with its retries or redirects: resolve, dial, handshake, response |
| `RobotsRules`, `Harvest` | pure operators: what a robots.txt says of a path; from texts of sources to candidates |
| `Discovery` | the sources of a cycle side by side, with retries, behind the robots gate |
| `MCRefreshCycle`, `MCSingleJobs`, `MCMemoryQueue`, `MCWorker`, `MCServiceChecker`, `MCCloudflareQueue`, `MCEdgeGateway`, `MCRequests`, `MCDiscovery` | the instances TLC runs (`MC*.cfg`) |
| `RefreshCycle_proofs`, `MemoryQueue_proofs`, `Worker_proofs`, `ServiceChecker_proofs`, `CloudflareQueue_proofs`, `EdgeGateway_proofs`, `Requests_proofs`, `Discovery_proofs` | theorems about the module they are named for, with the lemmas they rest on; `RefreshCycle_proofs` has those about `SingleJobs` too |

`SingleJobs` EXTENDS `RefreshCycleProperties`: the same table, another writer. `MemoryQueue` EXTENDS `JobQueue`; `Worker` instantiates it with its own jobs and
consumers. `Worker` and `RefreshCycle` are two views of a cycle: the first keeps when it
starts, waits and ends and drops what it writes, the second the other way round.
`ServiceChecker` and `CloudflareQueue` stand alone: their callers (the stages of a cycle and
manual drains) are the probers and consumers that may be active at the same time.
`EdgeGateway` runs in another process; the worker is the origin that it calls.
`Discovery` EXTENDS `Harvest` and `RobotsRules`; what it delivers is the set of endpoints
`RefreshCycle` upserts. `Requests` is what a validation job of a cycle, a probe of
`ServiceChecker` and a fetch of `Discovery` do on the network; those modules keep of it that it
may end with some verdict at any time; that it need not is what the exceptions of `ChecksEnd` are about.

### Correspondence: the pool and the cycle

*Row.* A record with the columns the rules branch on. A timestamp column is the
age of the timestamp in ticks, saturated one past the only bound it is compared with
(so `age > bound` is the SQL `column < now - bound`), and `Never` for NULL.
`consecutive_failures` saturates at `3 * MaxConsecutiveFailures`, the largest value it is
compared with. The score is an element of `Scores`: 0 after a failed check
(`scoreProxyDetailed` returns 0), anything after a passed one. `last_cycle_id` is only ever
compared with the id of a running cycle, so it is the lane that runs it, or `NoCycle`.
Host, credentials, latency, `validation_results`, `service_results`, `meta` and the
statistics are left out: no decision of the cycle depends on them.

*Steps.* One action per statement that touches the table or the cycle record, in
program order; `pc[c]` names the next one. Reads and writes separated by an `await`
are separate actions, so anything may come between them: `seen[c]` holds the copies a
plan is made from. `upsertCandidates` accepts any set of endpoints, which covers failing
sources, policy rejections and a broken-off chunked upsert (the upsert of fewer endpoints
followed by `Throw`). `selectValidationQueue` and its slice are the sets `FirstN` allows,
ties and the order of row ids left open. The drain is one step whose result is a set of
answered jobs: all of them, or any subset when `JobsMayBeLost` (queue full, retries
exhausted, abort signal). `markPending` and the two persist methods write in chunks of
200 rows: `WriteThrows` breaks them off after any part.

*Failure.* `Throw` is any statement of the `try` failing; `FailCycle` and
`ReleaseAfterFailure` are the `catch`, whose own writes may fail silently;
`StartThrows` is the statement between `cycles.start` and the `try`. `Crash` loses every
in-memory variable and keeps the tables. `MaxFaults` bounds the sum of all of these.

*Lanes.* `Cycles = {main}` is the worker as the scheduler drives it: `busy` admits one
cycle. A second element is the `runCycle` call of `handleExternalJob`
(`worker/src/pipeline/cycle.ts:485`), which does not ask the scheduler. Lanes have ids of
their own; a DISCOVER job that names the id of a cycle that is running would make both
lanes one owner, which only makes more rows releasable.

### Correspondence: the jobs for one proxy

`handleExternalJob` (worker/src/pipeline/cycle.ts:487-531) has three awaits that matter: it reads its
row (`JobBegins`), it writes what the check says (`JobCheck`), and for a SERVICE_CHECK, or a RECHECK
of a proxy that answered, it writes what the service says (`JobVerdict`). Both are planned from
the one copy read at the start, so `task[h]` keeps of it what `planValidation` and `planService` read
(`Planned`). Between two of these steps the cycle may do anything. A job has no `catch`: what
throws ends it (`JobThrows`), and the queue may begin it again. An UPDATE of a pruned row changes
nothing (`JobsFollow`). `touched` is history: the rows jobs have written since `finalize` last began.
The lanes, the queue's capacity and the drain that calls the handler are left out: any handler may
start any job at any time.

### Correspondence: the queue

JavaScript runs a consumer without interruption from one `await` to the next. A call of
`consume` is therefore a first step that takes a batch (`Consume`), one step per handler
that returns or throws (`Settle`), and one step from the end of `Promise.allSettled` to the
next batch (`BookBatch`: outcomes are counted, retries go to the tail while there is room,
the next batch is taken or the call ends). `drain[c]` is the open call of consumer `c`. A
job carries its attempt, as in the code; the payload is the job itself. In `MemoryQueue`
the variable `fate` is not in the code; it says what became of each job so that the
counter `dropped` can be compared with it. `close()` does not stop an open drain.

### Correspondence: the process

`timer`, `busy` and `shutdown` are the scheduler's fields and the progress of
`runtime.stop`; `phase[c]` is where the cycle called by `c` is. The callers are the timer,
`POST /internal/cycle/run`, `run-cycle --serve` (which goes to the pipeline directly) and a
DISCOVER job inside a manual drain. `sendMany` and the first batch of `consume` are one
step: only microtasks of already settled promises lie between them, so no other task runs.
A throw before the `try` rejects the caller's promise; every other failure is reported by a
cycle that returns (`FailCycle`). `Book` never sees an abort: no caller passes a signal.
The model keeps one nested cycle at a time, and `Drains`, `MaxBatch` and
`MaxSubmissions` bound how much goes on at once.

### Correspondence: the service adapter

One object serves the whole process. `check()` runs to its next await without
interruption, so it is the steps `Check` (the limits, then `tryTake`), `RobotsRead` (the policy
has been fetched), `Wake` (the sleep is over) and `Answer`; `probe[p]` says which of them comes
next for the call of `p`. A call that is refused at once changes statistics only and
is no step. Time is in ticks; a timestamp is the ticks left until it or passed since it, up to
the largest value it is compared with. The bucket holds ticks of refill, one token being
`TicksPerToken` of them. A response is any verdict the breaker counts one way or the other
with any backoff: a requester that throws asks for none, a 429 without a header for a minute.
`company` is not in the code: the probers whose current or latest call met another one.

### Correspondence: the Cloudflare driver

`drain[c]` is the open call of consumer `c` with the local variables of `consume`: what
`sendMany` has not posted, the messages of the latest pull with what became of each, the
budget and `handled`. `remote[j]` is where the service has job `j`, `lease[c]` the leases
of `c` that have not run out. Each request is one step whose effect on the service happens or
does not; a pull whose answer is lost leases messages nobody holds. `Handle` settles one
message at a time in any order. `tries` and `done` are history.

### Correspondence: the gateway

A call of `fetch` is the record `call[r]`. It stops at the awaits whose effects others can
see: after the `get` of its counter (`Arrive`), after the `put` and the lookup in the cache
(`Refuse` and the `Admit...` actions), while the origin is asked (`asking`: the pool is not read
yet, `answering`: it is), and while the body is stored after the answer went out
(`storing`, the `ctx.waitUntil`). A lookup only reads and belongs to the step before it. An entry
has two ages: `age` since `writeCache` signed it, and `lag`, what the body was old by then; the
first is what the code compares with the lifetime, the second what it cannot see. The
counter of a window that is over is another key of the store and nobody reads it again, so the
model keeps the current one and `past` marks a call that counts in the previous one. Counters
saturate at `MaxRequests + 1`. The store may fail (the call is let through, its `put` done or
not) or answer with an older value; the cache may drop an entry or lose a `put`; a gateway
without a store is one whose store always fails. `attempts`, `admitted` and `disturbed` are history.
`Answered` covers the awaits of the gateway; a call whose answer is out and whose `put` is
pending counts as under way until that is over.

### Correspondence: a request

`stage` is the await the code stands at; an event (data, end, error, timer) is one step up to
the next await. `left` is the timer of that await, `budget` what is left of the deadline: the
code computes `max(1, deadline - now)` for every new wait, which is `Rearmed`. Only a wait for a
declared length spans several pieces, so its timer is kept. One wait has no timer: TLS with the
target, through a tunnel (`Tunnelled`). `tls.connect` is given a `timeout` and a socket that exists, and
applies the one only to sockets it makes itself; the timer of the socket was cleared when it was
connected (worker/src/net/proxy-client.ts:172, :283-295). `Timed` is every wait but this one. In the direct client redirects share
one deadline, and `nth` counts them; through a proxy every attempt has a new one and `nth` counts
attempts. `Begun`, `DialTime` and `NeedsTls` are the differences of the two clients,
`verdict` what `ProxyValidator.validate` or the direct caller makes of the result.

*Bytes.* A handshake answer is whole or cut short (`StreamBuffer.wait` returns with fewer
bytes than asked for once the stream has ended: `CutReply`). What a whole answer may lead to is
`Replies`; which of them the bytes select is left open, and so is which words an invalid status
line contains (`NoHead`). A body is counted in units, a head or line in pieces up to its limit.
`early` says that bytes came behind the last handshake answer; the code puts them in front of
what TLS decrypts. Addresses are of three classes, which is what the policy distinguishes once
`ALLOW_PRIVATE_ENDPOINTS` is given; a name resolves to any set of them, anew whenever
the cached entry has lapsed. `dialled`, `short` and `late` are history.

*Sockets.* `open` has the attempts whose socket is open. `Fail`, `Finish` and `Hangs` follow
which path destroys it and which leaves it to the peer (`HangUp`).

### Correspondence: discovery

`mapWithConcurrency` starts the sources in order, `Concurrency` at a time (`NextFor`);
`attemptWithRetry` is `Fails` and the phase `backoff`. An attempt runs to its first await, so
`Attempt` contains the whole of the gate for a verdict that is cached: look it up, refuse, or
reserve the next turn and sleep. The gate's clock is `turn`, relative to now: at most `MaxDelay`
behind, where the code's older timestamps no longer matter, and at most a delay for each runner
ahead. `Final` is the
regular expression of worker/src/discovery/service.ts:62-63 that tells a refusal from other
failures. A robots.txt is one of `Served`, may be unreadable at any moment, and does not change
during a cycle. The parser's lines are classified by what `parseProxyList` does with them; a
candidate is its endpoint and protocol. `Init` allows whatever verdicts an earlier cycle left.
`quiet` and `told` are history.

## Properties and runs

| run | module | instance | shows |
|---|---|---|---|
| `Cycle` | `MCRefreshCycle` | one lane, 2 endpoints, every stage, verdicts passed and blocked, jobs may be lost, 1 fault | `TypeOK`; `SettledPool`: after a completed cycle nothing is claimed, the pool is within its bound, no member is at the threshold, whatever earlier cycles died of; `MembersVouched`; `DemotesOnlyOverflow`: the two-statement capacity sweep leaves exactly `MaxActive`, the best ones; `ImplementsLifecycle` |
| `Liveness` | `MCRefreshCycle` | one lane, 2 endpoints, a slice of 1, threshold 2, 2 faults, fairness | `BacklogDrains`: who waits in the backlog leaves it, unless a drain waits for ever or other endpoints fail, die and are listed anew for ever; `ClaimsResolved`, unless a drain waits for ever; `HealthyKeptOutOfBacklog` as long as nothing has failed |
| `Jobs` | `MCSingleJobs` | one lane with the service stage, 1 endpoint, 1 job at a time, 1 fault | `SettledButForJobs`: what `finalize` establishes stands for every row no job has written since its sweeps began |
| `Queue` | `MCMemoryQueue` | 3 jobs, 2 drains, capacity 2, 2 attempts, closed at any time, fairness | `TypeOK`; `NothingLostSilently`: a job is in one place, every loss but those of `close()` is counted; `NoOvertaking`; `JobsResolved` |
| `Worker` | `MCWorker` | timer, manual trigger, DISCOVER job, one drain, one submission, shutdown, fairness | `TypeOK`, `OneScheduledCycle`, `LoopAlive`; `RefreshGoesOn`: every cycle ends and, unless the process stops, the scheduler starts another one, unless a handler of its own drain never returns |
| `Probes` | `MCServiceChecker` | 2 probers, budget 2, spacing 1 or 3, breaker after 3 failures, fairness | `TypeOK`; `BoundedOvershoot`: less than one request per prober beyond the budget; `AloneIsPolite`: a probe beside which no other ran keeps every limit at the moment it sends; `BreakerHolds`: only a probe that overlapped closes an open breaker; `ChecksEnd`, if the request is answered |
| `Cloudflare` | `MCCloudflareQueue` | 2 jobs, 2 drains, batches of 2, posts of 1, budgets 1 and 3, requests lost, leases running out, fairness | `TypeOK`; `GoneMeansDone`: the service forgets only what was handled or given up; `DrainsEnd` |
| `Edge` | `MCEdgeGateway` | 2 calls of 1 client, 2 endpoints, limit 1, windows of 2 s, timeout 1 s, fairness | `TypeOK`; `BoundedStaleness`: an answer not marked stale is no older than lifetime plus timeout; `NoFalseRefusal`, also across a window boundary; `LimitExact` where requests are counted in sequence; `Answered`, by an origin that stays silent too |
| `Requests` | `MCRequests` | every protocol, target and client; 2 attempts, 1 redirect, deadline 2, body of 1 unit at most, 1 piece per line, fairness | `TypeOK`; `OnlyApprovedDialled`, through rebinding names, cache and redirects; `ReachableMeansAnswered`: no handshake or head cut short and nothing too large makes a proxy reachable; `AnsweredSocketsClosed`, with the two exceptions it names; `SilenceBounded`: past its deadline a request waits through one tick without an event at most, except for TLS through a tunnel; `ChecksEnd`, unless a tunnel stays silent or the peer sends trailers for ever |
| `Discovery` | `MCDiscovery` | 4 sources (2 of one origin, one alone, one file), 2 at a time, 2 attempts, delay 2, cap 4, fairness | `TypeOK`; `RobotsObeyed`: a refused source is never fetched again, one alone at its origin never against its rules; `TurnsSpaced`: fetches of one origin are a crawl delay apart; `HarvestDelivered`: discovery ends, with the merge a definition by ranks asks for |

These runs are expected to fail, each on a sentence of the repository the code does not keep:

| run | property | the sentence | what happens |
|---|---|---|---|
| `OverlapClaims` | `LiveClaimsKept` | db/src/repositories/proxies.ts:264-267; docs/ARCHITECTURE.md:42-43 | the sweep of a DISCOVER job's cycle releases the scheduled cycle's claims |
| `CloudflareRetries` | `RetriesBounded` | worker/src/queue/types.ts:27: `attempt` is bumped on each delivery, for bounded retries; tests/queue.test.ts:3 | it is read from the body and never written back: every delivery is the second attempt |


With two lanes `SettledPool` and `DemotesOnlyOverflow` fail as well, and so does
`MembersVouched` once the service stage is on; they are consequences of the first row.

### Disagreements

Read while translating; the model does what the code does in each case, and no run of its
own is spent on it.

- `recoverAbandoned` is called by tests only: a cycle that
  dies after `markPending` leaves its claims to the end of the next one
  (db/src/repositories/cycles.ts:99, worker/src/pool/manager.ts:258). "Abandoned rows from a previous crash are
  recovered first (running cycles marked `failed`, their `pending` proxies released back to the backlog)"
  (docs/ARCHITECTURE.md:46; also :242 and docs/DEPLOYMENT.md:101).
- TLS with the target is waited for without a timer (worker/src/net/proxy-client.ts:283-295, see above), and no
  caller passes a signal: a proxy that opens the tunnel and stays silent holds its request for ever, and
  with it the drain and the cycle that wait for it. "hard timeouts on connect, handshake and response" (:9),
  "per-request deadlines (connect + total)" (docs/ARCHITECTURE.md:241). Hence the exceptions in
  `SilenceBounded`, `ChecksEnd`, `ClaimsResolved`, `BacklogDrains` and `RefreshGoesOn`.
- The verdict of a SERVICE_CHECK or RECHECK job is planned over the row as it was before the job's own
  check (worker/src/pipeline/cycle.ts:515). That check makes a proxy a member, and a failing verdict of the
  same job writes the old status back; "it never evicts one" (worker/src/pool/manager.ts:232).
- A job's failing check between the count and the demotion of `enforcePoolCapacity`
  (db/src/repositories/proxies.ts:427, :433) lets the sweep demote a member of a pool within its bound;
  "demoting the lowest scored members past the cap" (:425). With jobs `DemotesOnlyOverflow` is false.
- Whether a cycle is running is asked once when a manual drain is opened (worker/src/runtime.ts:280), so
  the drain takes jobs of a cycle that starts later; "never while a cycle owns the queue, otherwise we would
  fight over the same jobs" (:276-277). To the cycle they are lost jobs, which `Cycle` has.
- A body that is cut short is taken for a whole one: a wait of the stream is over when the stream has
  ended, and the branch that throws 'connection closed mid-body' asks for one that has not
  (worker/src/net/http-response.ts:57, :92).
- The error path releases claimed rows to `new`, healthy members included
  (worker/src/pipeline/cycle.ts:451); "healthy entries keep their state"
  (worker/src/pool/manager.ts:3-4). `HealthyKeptOutOfBacklog` is therefore checked without faults.
- If `meta.set` throws (worker/src/pipeline/cycle.ts:187) a `running` record stays behind in a
  living process; db/src/repositories/cycles.ts:98 says it means the process died.
- `skipped` is written over `passed` (worker/src/pool/manager.ts:227);
  services/crunchyroll/src/scorer.ts:61 says the previous standing is kept.
- A row of this cycle's batch is probed whatever the age of its verdict
  (worker/src/pipeline/cycle.ts:300); a blocked one only after `CR_RECHECK_AFTER_MINUTES`
  according to docs/ARCHITECTURE.md:228-230.
- `close()` empties the queue and counts nothing (worker/src/queue/memory-queue.ts:118); "nothing is
  ever lost silently without being counted" (tests/queue.test.ts:3-4).
- `runOnce` does not look at `stopping` (worker/src/pipeline/scheduler.ts:111): a trigger that
  arrives after the wait is over has its cycle cut off; docs/DEPLOYMENT.md:99-100 says cycles finish.
- `POST /internal/cycle/run?wait=1` answers 409 also when its own cycle threw
  (worker/src/runtime.ts:313); docs/API.md:302 keeps 409 for a cycle that is running.
- `run-cycle --serve` calls the pipeline without the guard (worker/src/runtime.ts:377,
  worker/src/bin/run-cycle.ts:49); docs/ARCHITECTURE.md:42-43 says cycles never overlap.
- `maxChecksPerCycle` is checked before an await and counted after it
  (services/crunchyroll/src/checker.ts:249, :264), so probes that overlap exceed it; "a hard budget"
  (docs/ARCHITECTURE.md:223). `BoundedOvershoot` says by how much.
- Cooldown, breaker and spacing are not looked at again after the awaits, and a shorter backoff
  replaces a longer one (services/crunchyroll/src/checker.ts:313); "pause all probing" (:312).
- A success that was on its way when the breaker opened closes it
  (services/crunchyroll/src/scorer.ts:113); "opens for 120 s" (docs/ARCHITECTURE.md:223).
- A robots.txt answered with 5xx allows everything (shared/src/robots.ts:129); it "fails closed"
  when it cannot be read (docs/ARCHITECTURE.md:219).
- `sendMany` of the Cloudflare driver throws away what `send` has buffered since
  (worker/src/queue/cloudflare-queue.ts:117), and `send` ignores `closed` (:78); nothing is lost
  without being counted (tests/queue.test.ts:3-4).
- The window of the rate limit belongs to a key *and* an address (api/src/index.ts:226-227), so one
  key has a window per address; "fixed window per API key" (docs/API.md:284).
- Without KV nothing is counted (api/src/rate-limit.ts:53); "per-isolate, which is a soft
  limit by design" (docs/API.md:286), "the per-isolate fallback" (docs/DEPLOYMENT.md:138).
- An entry is stored with its lifetime as `max-age` (api/src/cache.ts:94), so a cache that honours
  the header has dropped it by the time it could be served stale (docs/API.md:281).
- A 200 that is not JSON or whose body is cut gets no stale answer (api/src/index.ts:301,
  api/src/upstream.ts:95), and a malformed body is stored over a good entry (api/src/index.ts:310);
  "serves a stale cache entry instead of failing" (api/src/index.ts:13).
- A fresh entry found after a failed call (the first lookup failed or was bypassed) is marked stale
  as well (api/src/index.ts:288); docs/API.md:35-36 says the mark means expired.
- The worker's own limiter counts by the address of the socket, which is the gateway's or the load
  balancer's (worker/src/http/server.ts:362); "a per-client rate limit (240/min)" (docs/API.md:310).

- A cycle's own drain takes a manual job of another type or proxy, ignores it and counts it as
  processed (worker/src/pipeline/cycle.ts:258); docs/ARCHITECTURE.md:208-209 says the next cycle
  picks manual jobs up.
- A wait is armed with at least a millisecond per piece, so a peer that trickles outlasts the
  deadline, and lines behind the last chunk have no limit (worker/src/net/http-response.ts:35, :78);
  "every phase has a deadline" (worker/src/net/direct-fetch.ts:4). Hence an exception in `ChecksEnd`.
- A handshake that fails by its timer or by a refusal leaves its socket to the peer
  (worker/src/net/proxy-client.ts:211; only a refused CONNECT destroys it), and so does a redirect
  too many (worker/src/net/direct-fetch.ts:107-119): the exceptions in `AnsweredSocketsClosed`.
- `errorCode` knows no `HttpProtocolError` (worker/src/net/proxy-client.ts:84-89): a malformed response
  is 'unknown' and not tried again, unless words of its status line match another code.
- Bytes behind the last handshake answer are put in front of what TLS decrypts
  (worker/src/net/proxy-client.ts:302).
- A success status outside 200..399 is accepted by `VALIDATION_SUCCESS_STATUSES` and makes a proxy
  unreachable without an error code (worker/src/validation/checker.ts:138-139).
- A verdict of the robots gate is that of the path first asked for and serves every source of the
  origin (worker/src/discovery/robots-gate.ts:69); "a disallow stops that source" (docs/ARCHITECTURE.md:49-51).
  Hence `AloneThere` in `RobotsObeyed`. Two sources that overlap both look it up;
  "one robots.txt lookup per origin per hour" (docs/ARCHITECTURE.md:252).
- Retries fetch a source several times a cycle; "at most one request per source" (README.md:16-17).
- A source refused by its URL policy is tried again, and a source that failed at once reports all
  attempts (worker/src/discovery/service.ts:60-65); a record listed under two protocols is kept with
  the later one.

### Bounds and why they are enough

*Cycle.* Two endpoints are enough for one row to be in the batch and the other to be swept or
left over; three with three scores are the least for which "the worst are demoted" differs
from "some are demoted". In `Liveness` the two compete for a slice of one, so a
row that is listed anew can take the place of another one. It uses a threshold of 2, the least with a failure that is
not yet the threshold and `3 * 2 = 6` failures to "dead"; the other runs use 1. A TTL of 0
lets a single tick expire a member. One fault is enough for the safety of the later cycles;
two let the error path fail as well. `skipped` is left out of the verdicts TLC uses: to
the statuses it is like `blocked`. Symmetry over endpoints is used for safety only.

*Jobs.* One job at a time is what a manual drain runs; that it is any job at any time lets many follow
each other between two statements of the cycle. One row is enough for `SettledButForJobs`, which is about
one row at a time. `CapacityButForJobs` needs two, more than TLC manages with the service stage; it is
proved, for any number, and no run checks it.

*Queue.* Three jobs and a capacity of 2 let a batch, a full queue and a refused job
coexist; two drains with batches of 2 interleave their bookings; budgets of 1 and 3 end a
drain before and after the queue is empty; two attempts are the least with a retry.

*Worker.* A stage of at most one job, one submission and a queue of 2 are enough for the
cycle's drain to meet an operator's job and the manual drain to meet a cycle's. All
callers of the scheduler and a nested cycle run together; `direct` behaves like a nested
one that needs no drain.

*Probes.* The service stage awaits one probe at a time and a manual drain runs one job, so two
probers are what the code has. A budget of 2 and a burst of 3 make either limit the first
to bind; a crawl delay of 3 outlasts the robots policy, so the spacing changes under a
sleeping probe. When the breaker opens the count starts again at 0, so that with two probers, of which
one at most is under way by then, its success closes the breaker whatever the threshold;
3 is the least at which a success in between takes two failures back without reaching 0 twice. Timers are bounded by what they are compared with.

*Cloudflare.* Batches of 2 and posts of 1 are the least with a partial batch and a broken-off
`sendMany`; a budget of 1 binds before the batch does, one of 3 in the second round. `MaxTries`
bounds the history `tries`: 0 where no property reads it.

*Gateway.* A limit of 1 is the least at which a second request is refused, and two calls are the
least that overlap in the counter or reorder two puts. A window of two seconds and a timeout
of one let a call be overtaken by a boundary and an answer by a second. One endpoint is
cached for a second, so an entry passes from fresh to stale; one is never cached.

*Requests.* A deadline of 2 has a state before, at and after it; two attempts and one
redirect are the least with a retry and a redirect too many; a body of one unit is within, one of
two beyond the limit, in all three framings; one piece per line is the least that re-arms a timer.
The statuses are one that carries no body, one accepted, one that redirects and one that refuses.

*Discovery.* Two runners and four sources leave two waiting; two sources share an origin, so turns
and verdicts are shared; the delay of 2 outlasts a backoff of 1 and a verdict kept for 2 lapses
between two attempts. The texts hold every kind of line once or twice, and more different proxies
than the cap of 4.

### Fairness

A request through a proxy need not end: a tunnel may be opened and TLS never answered, and nothing
times that wait out. So no specification above the network assumes that the answer of a check or a
probe comes.

`RefreshCycle!FairSpec` is weak fairness of `GoesOn(c)`: a cycle that can take its next statement
eventually takes it, except for `PersistValidation` and `PersistService`, which wait for a drain. The
scheduler re-arms its timer after every run, successful or not
(worker/src/pipeline/scheduler.ts:101-106), and the database answers or fails. The liveness
properties name the exception, `Hangs(c)`: the cycle stays at one of the two for ever. Nothing is
assumed of `Tick`, of faults (bounded by `MaxFaults`) or of which endpoints the sources list.

`MemoryQueue!FairSpec` assumes that somebody opens a drain while jobs wait (every cycle does)
and that handlers settle: `JobsResolved` is about the queue, given handlers that return. `Worker!FairSpec`
assumes that timers fire, that a cycle or a drain that can go on does, and that `stop` goes on once it
began. It does not assume that handlers return; `RefreshGoesOn` excepts the cycle with such a
handler in its own drain (`HandlerHangs`), and none other. `FailCycle`, triggers, submissions and SIGTERM
are never assumed to happen. Both runs end by design -- jobs are
used up, the process stops -- so they do not check for deadlock.

`ServiceChecker!FairSpec` assumes that time passes and that fetches of a robots.txt (direct, with a
timer) and sleeps end; not that a probe, which goes through a tunnel, is answered: `ChecksEnd` excepts a
request that is out for ever. `CloudflareQueue!FairSpec` assumes that an open drain goes on: requests to the
service are answered or fail, handlers settle (`DrainsEnd` is about the driver, given handlers that return). It does not assume that any request succeeds, that
leases run out or that anybody sends or drains. When every job is gone it stops.

`EdgeGateway!FairSpec` assumes that time passes, that the timer of a request fires
(`AbortSignal.timeout`, which covers the body), and that the store and the cache answer or fail.
It assumes nothing of the origin.

`Requests!FairSpec` assumes that timers fire, where there are any, and lookups of names end, nothing of the
peer. `Discovery!FairSpec` assumes that time passes and that every request ends: sources and
robots.txt are fetched directly, and every wait of the direct client has a timer.
Both stop when they are done.

## Proofs

Every safety and action property of the passing runs is a theorem, for any value of the
constants; some need an assumption on them, which is named below. Each is proved from an
inductive invariant: the property and what it rests on.

*The cycle.* `RefreshCycle_proofs` starts with the lemmas on the rules (each returns a row; each
verdict rule keeps members vouched). `TypeCorrect` proves `Spec => []TypeOK` for any set
of lanes, endpoints and limits. `TypeOK` alone is not inductive: the outcome of a
validation reads `seen[c][p]` for every `p` in `picked[c]`, so the invariant `TypeInv` adds that
the copies cover the batch. `OnlyVouchedServe` proves
`Spec => []MembersVouched` when there is one lane or the service stage is off -- the
assumption `Undisturbed`, without which the property is false. Its invariant `MemberInv`
strengthens `MembersVouched` with the same fact about every row and every copy a plan
may be made from, and with the fact that nothing touches a row while its probe is under way.

*The cycle, when cycles do not overlap.* The other theorems assume `SingleFlight` (one lane): what
the scheduler's `busy` establishes (`Worker_proofs!SingleFlight`) and a DISCOVER job breaks, and
without which
`SettledPool` and `DemotesOnlyOverflow` are false. Faults stay: statements throw half way, the process dies, jobs
are lost.

- `CompletedIsSettled` (`SettledPool`): `FinalizeInv` follows the sweeps of `finalize`. Its part
  `CapacityInv` says that what was counted too many before the demotion still is what the pool has
  above the bound, `PendingInv` what either release has left claimed, and both that a completed record
  keeps what they established until the next cycle starts. The last conjunct is `MembersVouched`.
- `OnlyOverflowDemoted` (`DemotesOnlyOverflow`), from the same invariant.
- `ImplementsPoolLifecycle`: `Spec => Lifecycle!Spec`, the refinement. Initial states map to initial
  states; each statement is shown to be a move of `PoolLifecycle` or a stutter, those that write many
  rows a move of many endpoints. It needs `LaneInv`: `MemberInv`, `CopiesCurrent` (what a
  plan reads from a copy still stands, as nobody but the cycle writes) and `BatchInv`, which says what status the rows of a batch have at each statement (what is judged is
  claimed, what is probed was judged or serves).
- `HealthyStay` (`HealthyKeptOutOfBacklog`) needs in addition `JobsMayBeLost = FALSE`: a claimed
  row whose job is lost goes back to the backlog, healthy or not. `HealthyInv` says that without a
  fault only a validation under way has rows claimed, so that the releases find nothing.

*The cycle with jobs beside it.* The end of `RefreshCycle_proofs` is about `SingleJobs`, for any number of
handlers and jobs. Every step of it is a step of `RefreshCycle` (`CycleOnly`), a write of one row that
leaves the rest of the cycle's state alone (`JobWrites`), or neither (`JobsStep`); so what is proved of
a step of the cycle is used again, and only the writes are new. `JobsTypeCorrect` proves `JobsTypeOK`.
`SettledWithJobs` and `CapacityWithJobs` assume `SingleFlight` and rest on `JobsInv`, in which each fact a sweep
establishes is stated for the rows outside `touched` (`Others`) and kept from the sweep on:
`SweptInv` and `ReleasedInv` row by row, `BoundedInv` by counting. A job that lets a counted member fall
out leaves one demotion too many, which hits any member; a job that lifts a row into the pool with a low
score lets the sweep hit that row and spare one that was counted. The second is why the other members may
exceed the bound by one for each row in `touched` (`SparedByJobs`), and with the touched rows themselves
the bound of `CapacityButForJobs` is two.

*The in-process queue.* `MemoryQueue_proofs` proves `TypeOK`, `NothingLostSilently` and
`NoOvertaking` for any jobs, drains, capacity and number of attempts. `QueueInv` has the types and
the bound, with a result for every entry of a batch; each operation of `JobQueue` is shown to keep
it. `JobsInv` adds `Once` (no job is twice in the queue, twice in a batch, or in both),
`Tracked` (the jobs in some place are those with no outcome) and that `dropped` is the
number of lost jobs. `NothingLostSilently` counts places and is not inductive as it stands; the hard step is `Book`,
where a batch splits into processed, put back, refused for want of room and given up, and the counter
takes the sum of the last two. That the retries keep the order of the batch rests on `NthFacts`: the
k-th element of a finite set of positions exists for each k and is another one for another k.
`WaitersKeepTheirOrder`: every step adds behind the queue and takes from its head, in that order.

*The process.* `Worker_proofs!SingleFlight` and `LoopNeverDies` prove `OneScheduledCycle` and
`LoopAlive` for any callers, drains, queue and limits from one invariant, `ControlInv`: the
types of the control variables, both properties, and `TimerAtRest` (an armed timer has no
run under way), without which a timer that fires would start a second run of its own.
`WaitIsHonoured` proves `NotCutOff` (shutdown goes past its wait only when the grace period is
over), which no run checks beside the theorem; it needs `busy` to be exact, which is the second half
of `OneScheduledCycle`. `StopIsGraceful` proves `GracefulStop` under the assumption
`TimerOnly` (only the timer starts cycles), without which it is false: see the trigger that
arrives late, above. Its invariant `StopInv` says that past the wait the timer stays unarmed
and `busy` implies that the grace period is over. `TypeCorrect` proves `TypeOK`, the
shared queue's bound with it. The module instantiates `MemoryQueue_proofs` for the queue
of the worker and takes from there that each operation keeps `QueueInv`; `HostInv` says that as long as
the nested cycle runs its host is a drain, whose job it settles when it returns.

*The adapter.* `ServiceChecker_proofs` proves `TypeOK` and its three safety properties from one invariant.
`TypeOK` and the budget alone are not inductive: `BudgetInv` counts the probes that were
admitted and not yet counted (`spent` plus their number stays below the budget plus the number of
probers, which survives `BeginCycle`), and `AloneInv` says that what a probe without company
found when it was admitted -- breaker, cooldown, budget, spacing -- still holds, because
nobody else can have changed it and time only relaxes it.

*The Cloudflare driver.* `CloudflareQueue_proofs` proves `TypeOK`, `GoneMeansDone` and `WithinBudget`
(a drain takes no more than it was allowed), which no run checks beside the theorem.
`DoneInv` adds to `GoneMeansDone` that everything a drain is about to acknowledge is done, whoever
holds the lease by then; `BudgetInv` adds that a drain that pulls has budget left, which the
head of the loop establishes. Nothing is assumed of the service beyond what its steps do.

*The gateway.* `EdgeGateway_proofs` proves its three safety properties for any number of clients, calls
and endpoints. `AgeInv` says that what waits for the origin is no older than the request, so the
timeout bounds it, and that a stored entry never had more than that; `CountInv` that a
counter never runs ahead of its client's requests, also in the hands of a call that has read it;
`SequenceInv` that as long as a client is undisturbed one call at most holds a value of its
counter and that value is current. `LimitExact` alone is not inductive: it says nothing of what
such a call is about to write.

*A request.* `Requests_proofs` proves `TypeOK` and the four safety properties of run `Requests` for any
limits, retries, redirects, statuses and policies, from one invariant `IInv` of six parts. `TypeOK` needs
`Places`: that a body is never read beyond its limit rests on where the reader is, what the answer
declared and how much was read. `Approved` adds to `OnlyApprovedDialled` that the cache holds an
allowed address; `Times` bounds, in every wait that has a timer, the timer and the silence so far together by what is left of the
deadline; `Whole` says that a handshake cut short can only be waiting for TLS in a tunnel that has ended;
`Sockets` that a redirect leaves none behind. The events of a wait are many and their effects few,
so each is first shown to have one of three outcomes (`EventOutcome`: the request waits on, is
over, or follows a redirect), and each outcome to keep `IInv`.

*Discovery.* `Discovery_proofs` proves `TypeOK`, `RobotsObeyed` and `TurnsSpaced` for any sources,
origins, files and limits. Every step of a source is first shown to do one of four things to the gate
(`Kinds`: nothing, ask at once, reserve a turn, wake), and then each of them, and time, to keep
`DiscoveryInv`. `TurnsSpaced` follows from three of its parts: `Turns` (by the time of a reserved turn
the origin will have been quiet for its delay), `Apart` (two reserved turns are a delay apart) and
`Behindhand` (the latest turn is never before the latest fetch). `Ahead` bounds how far ahead turns are
reserved by the number of sources that wait and so by `Concurrency`, which `Runners` keeps; the bound on
`turn` in `TypeOK` is not inductive without it. `Obeyed` says that whoever waits for a fetch was let through
by the verdict of some source of its origin, which is its own if it is alone there. That the delay of a
file does not depend on the path it is asked for (`ReadDelay`, `VerdictFacts`) is what
lets the sources of an origin share turns.

The theorems assume nothing but `SingleFlight`, `Undisturbed`, `TimerOnly` and `JobsMayBeLost = FALSE` where
they say so, and `RulesAssumption`, `CycleAssumption`,
`QueueAssumption`, `MemoryAssumption`, `WorkerAssumption`, `CheckerAssumption`,
`CloudflareAssumption`, `GatewayAssumption`, `RequestAssumption`, `DiscoveryAssumption` and
`DelayAssumption` (no robots.txt asks for more than `MaxDelay`), which TLC evaluates on every run.

Checked by TLC only: the eight liveness properties (`BacklogDrains`, `ClaimsResolved`, `JobsResolved`,
`RefreshGoesOn`, `ChecksEnd` of the adapter and of a request, `DrainsEnd`, `Answered`), which are out of
the prover's reach, and `HarvestDelivered`: besides liveness it says what the merge computes, a fold
over the sources, and the induction that would prove is out of reach as well.

## Not modelled, and the plan

Still to do, the most consequential first:

1. The verdicts of the jobs of a second lane beside single-proxy jobs, which needs a smaller table than TLC can
   take here.
2. An abstract specification of a bounded queue (send, deliver, retry or lose) that `MemoryQueue`
   implements, and the parts of the cycle's promises that survive overlapping lanes as theorems.

Not modelled, and why:

- The numeric weights of scoring and the tables of address ranges and status words: constants
  without control. The models take any score and any class of address.
- Configuration, logging, ids and formatting: parsing and layout; their values are the CONSTANTS.
- Migrations and the history tables, which no decision reads.
- The read side of the worker's HTTP API and its views: SELECTs that change nothing. Its triggers
  are actions of `Worker`. Authentication in either server is a pure comparison.
- TLS itself and byte-level HTTP and SOCKS: what they may return is in `Requests`.
- `validateMany`, `withTimeout`, `runNow` and the service-loop mode of the Cloudflare driver have no caller.

Hazards that are real and that no property covers, because the code's behaviour is the disagreement itself:
the record left `running` (worker/src/pipeline/cycle.ts:187), the starved re-checks behind the slice
of the queue (:237), the buffer thrown away by `sendMany`
(worker/src/queue/cloudflare-queue.ts:117), a cut body stored over a good entry
(api/src/index.ts:310) and a trigger that arrives during shutdown (worker/src/pipeline/scheduler.ts:111).
