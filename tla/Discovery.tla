----------------------------- MODULE Discovery ------------------------------
(***************************************************************************)
(* Discovery: the sources of one cycle, fetched side by side with retries, *)
(* behind the robots gate that the process keeps for all of its cycles     *)
(* (worker/src/discovery, attemptWithRetry and mapWithConcurrency of       *)
(* shared/src/concurrency.ts).                                             *)
(*                                                                         *)
(* A step is what the code does from one await to the next.  Time is in    *)
(* ticks; `turn` and `age` are relative to the present.  A timer fires on  *)
(* time: the present does not move past one that is due.                   *)
(***************************************************************************)
EXTENDS Harvest, RobotsRules

CONSTANTS
    Source,       \* in their order: [origin, path, gated, limit, hint, json]; a file is not gated
    Origins,      \* hosts that have a robots.txt
    Us,           \* our agent's name in robots.txt
    Files,        \* the texts a robots.txt may have, by their names
    Served,       \* the names an origin's robots.txt may go by, "missing" for none
    Replies,      \* texts that may be a source's answer, by source
    Concurrency,  \* DISCOVERY_CONCURRENCY
    Retries,      \* DISCOVERY_RETRIES, the first attempt included
    Cap,          \* DISCOVERY_CANDIDATE_CAP
    Backoff,      \* ticks before another attempt
    Ttl,          \* ticks a robots verdict is kept for
    MaxDelay      \* the largest crawl delay in Files

Sources == DOMAIN Source

ASSUME DiscoveryAssumption ==
    /\ Len(Source) \in Nat /\ Sources = 1 .. Len(Source)
    /\ {Concurrency, Retries, Cap} \subseteq Nat \ {0}
    /\ {Backoff, Ttl, MaxDelay} \subseteq Nat
    /\ \A i \in Sources : /\ Source[i].gated \in BOOLEAN
                          /\ Source[i].origin \in Origins \cup {"file"}
                          /\ Source[i].gated => Source[i].origin \in Origins
    /\ {"missing", "unreadable"} \cap DOMAIN Files = {}
    /\ \A o \in Origins : Served[o] \subseteq DOMAIN Files \cup {"missing"}

VARIABLES
    site,      \* the robots.txt of each origin
    cache,     \* per origin, the verdict for whoever asked and its age
    turn,      \* per origin, the time of the latest turn: ticks from now
    phase,     \* where the fetch of each source is
    attempt,   \* the number of its current attempt
    timer,     \* ticks its sleep has left
    results,   \* the text each source returned
    delivered, \* discovery is over
    quiet,     \* not in the code: ticks since the latest fetch of a gated list
    told       \* not in the code: sources that got a final refusal

vars == <<site, cache, turn, phase, attempt, timer, results, delivered, quiet, told>>

Sleeping == {"turn", "backoff"}
Settled == {"ok", "failed"}
Busy == {"robots", "turn", "list", "backoff"}

Unknown == [verdict |-> Refusal, age |-> Ttl]
Nothing == <<>>

OriginOf(i) == Source[i].origin
Fetches == DOMAIN Files \cup {"missing", "unreadable"}

\* What each source makes of what its origin has for a robots.txt.
Verdict ==
    [i \in Sources |-> [name \in Fetches |->
        IF name \in DOMAIN Files THEN Evaluate("read", Files[name], Source[i].path, Us)
        ELSE Evaluate(name, <<>>, Source[i].path, Us)]]

ASSUME DelayAssumption ==
    \A i \in Sources, name \in Fetches : Verdict[i][name].delay \in 0 .. MaxDelay

\* The sources that go through the gate for an origin.
Behind(o) == {i \in Sources : Source[i].gated /\ OriginOf(i) = o}

\* The verdicts the gate can have for it.
Verdicts(o) == {Verdict[i][site[o]] : i \in Behind(o)} \cup {Refusal}

TypeOK ==
    /\ \A o \in Origins : site[o] \in Served[o]
    /\ \A o \in Origins : cache[o].verdict \in Verdicts(o) /\ cache[o].age \in 0 .. Ttl
    /\ turn \in [Origins -> -MaxDelay .. MaxDelay * Concurrency]
    /\ phase \in [Sources -> {"waiting"} \cup Busy \cup Settled]
    /\ Cardinality({i \in Sources : phase[i] \in Busy}) <= Concurrency
    /\ attempt \in [Sources -> 1 .. Retries]
    /\ quiet \in [Origins -> 0 .. MaxDelay]
    /\ told \subseteq Sources

\* Whatever an earlier cycle has left in the gate.
Init ==
    /\ site \in [Origins -> UNION {Served[o] : o \in Origins}]
    /\ \A o \in Origins : site[o] \in Served[o]
    /\ cache \in [Origins -> {Unknown} \cup
                  {[verdict |-> v, age |-> 0] : v \in UNION {Verdicts(o) : o \in Origins}}]
    /\ \A o \in Origins : cache[o].verdict \in Verdicts(o)
    /\ turn = [o \in Origins |-> -MaxDelay]
    /\ quiet = [o \in Origins |-> MaxDelay]
    /\ phase = [i \in Sources |-> "waiting"]
    /\ attempt = [i \in Sources |-> 1]
    /\ timer = [i \in Sources |-> 0]
    /\ results = [i \in Sources |-> Nothing]
    /\ delivered = FALSE
    /\ told = {}

gate == <<site, cache, turn, quiet>>

Larger(m, n) == IF m >= n THEN m ELSE n
Smaller(m, n) == IF m <= n THEN m ELSE n

Goes(i, place, ticks) ==
    /\ phase' = [phase EXCEPT ![i] = place]
    /\ timer' = [timer EXCEPT ![i] = ticks]

-----------------------------------------------------------------------------
(* An attempt                                                              *)

\* Mutant: a refusal is a failure like any other.
FinalNever(refusal) == FALSE

\* A refusal by robots.txt or by a 4xx is final.
Final(refusal) == refusal

Fails(i, refusal) ==
    /\ IF Final(refusal) \/ attempt[i] = Retries
       THEN Goes(i, "failed", 0) /\ UNCHANGED attempt
       ELSE Goes(i, "backoff", Backoff) /\ attempt' = [attempt EXCEPT ![i] = @ + 1]
    /\ told' = IF refusal THEN told \cup {i} ELSE told
    /\ UNCHANGED <<turn, quiet, results, delivered>>

\* The list is asked for, or the file opened.
Asks(i) ==
    /\ Goes(i, "list", 0)
    /\ quiet' = IF Source[i].gated THEN [quiet EXCEPT ![OriginOf(i)] = 0] ELSE quiet
    /\ UNCHANGED <<attempt, results, delivered, told>>

\* Mutant: a turn that is waited for is not reserved.
ReservedNot(wait) == 0

Reserved(wait) == wait

\* waitForTurn: sources of one origin get turns a crawl delay apart.
WaitForTurn(i, delay) ==
    LET wait == IF delay = 0 THEN 0 ELSE Larger(0, delay + turn[OriginOf(i)])
    IN  /\ turn' = [turn EXCEPT ![OriginOf(i)] = Reserved(wait)]
        /\ IF wait = 0 THEN Asks(i)
           ELSE Goes(i, "turn", wait) /\ UNCHANGED <<quiet, attempt, results, delivered, told>>

Obey(i, verdict) == IF verdict.allowed THEN WaitForTurn(i, verdict.delay) ELSE Fails(i, TRUE)

\* Mutant: a source that sleeps leaves its runner to the next one.
NextForAwake(i) ==
    /\ phase[i] = "waiting" /\ \A j \in 1 .. i - 1 : phase[j] # "waiting"
    /\ Cardinality({j \in Sources : phase[j] \in Busy \ Sleeping}) < Concurrency

\* A runner is free, and takes the sources in their order.
NextFor(i) ==
    /\ phase[i] = "waiting" /\ \A j \in 1 .. i - 1 : phase[j] # "waiting"
    /\ Cardinality({j \in Sources : phase[j] \in Busy}) < Concurrency

Fresh(o) == cache[o].age < Ttl

\* provider.fetch up to its first request or sleep.
Attempt(i) ==
    /\ NextFor(i) \/ (phase[i] = "backoff" /\ timer[i] = 0)
    /\ LET o == OriginOf(i)
           Begins(place) == /\ Goes(i, place, 0)
                            /\ UNCHANGED <<turn, quiet, attempt, results, delivered, told>>
       IN  \/ ~Source[i].gated /\ Asks(i) /\ UNCHANGED turn
           \/ Source[i].gated /\ Fresh(o) /\ Obey(i, cache[o].verdict)
           \/ Source[i].gated /\ ~Fresh(o) /\ Begins("robots")
    /\ UNCHANGED <<site, cache>>

\* robots.txt arrives, or cannot be read.
RobotsRead(i) ==
    /\ phase[i] = "robots"
    /\ \E name \in {site[OriginOf(i)], "unreadable"} :
          /\ cache' = [cache EXCEPT ![OriginOf(i)] = [verdict |-> Verdict[i][name], age |-> 0]]
          /\ Obey(i, Verdict[i][name])
    /\ UNCHANGED site

\* The turn has come.
Wake(i) ==
    /\ phase[i] = "turn" /\ timer[i] = 0
    /\ Asks(i)
    /\ UNCHANGED <<site, cache, turn>>

\* The list arrives, or the file is read.
Returns(i) ==
    /\ phase[i] = "list"
    /\ \E text \in Replies[i] : results' = [results EXCEPT ![i] = text]
    /\ Goes(i, "ok", 0)
    /\ UNCHANGED <<site, cache, turn, attempt, delivered, quiet, told>>

\* It does not: a 4xx, or any other failure.
Breaks(i) ==
    /\ phase[i] = "list"
    /\ \E refusal \in BOOLEAN : (refusal => OriginOf(i) # "file") /\ Fails(i, refusal)
    /\ UNCHANGED <<site, cache>>

\* What a source contributes.  A failed one returned no line.
Parsed(i) ==
    IF Source[i].json THEN ParseItems(results[i], Source[i].hint, Source[i].limit)
    ELSE ParseList(results[i], Source[i].hint, Source[i].limit)

Merged == Merge([i \in Sources |-> Parsed(i)], Cap)

\* Every source has settled, and `Merged` is returned.
Deliver ==
    /\ ~delivered
    /\ \A i \in Sources : phase[i] \in Settled
    /\ delivered' = TRUE
    /\ UNCHANGED <<site, cache, turn, phase, attempt, timer, results, quiet, told>>

Tick ==
    /\ \A i \in Sources : phase[i] \in Sleeping => timer[i] > 0
    /\ ~delivered
    /\ timer' = [i \in Sources |-> Larger(0, timer[i] - 1)]
    /\ turn' = [o \in Origins |-> Larger(-MaxDelay, turn[o] - 1)]
    /\ quiet' = [o \in Origins |-> Smaller(MaxDelay, quiet[o] + 1)]
    /\ cache' = [o \in Origins |-> [cache[o] EXCEPT !.age = Smaller(Ttl, @ + 1)]]
    /\ UNCHANGED <<site, phase, attempt, results, delivered, told>>

Progress(i) == Attempt(i) \/ RobotsRead(i) \/ Wake(i) \/ Returns(i) \/ Breaks(i)

Next == (\E i \in Sources : Progress(i)) \/ Deliver \/ Tick

Spec == Init /\ [][Next]_vars

\* Time passes, and every request has a timeout.
FairSpec ==
    Spec /\ WF_vars(Tick) /\ WF_vars(Deliver) /\ \A i \in Sources : WF_vars(Progress(i))

-----------------------------------------------------------------------------
\* Two lists behind the robots gate of one origin are asked for at least a crawl
\* delay apart, retries and sources that overlap included: "Crawl-delay honoured
\* as a minimum spacing" (docs/ARCHITECTURE.md:50, robots-gate.ts:121-134).
AsksFor(i) == phase[i] # "list" /\ phase'[i] = "list" /\ Source[i].gated

TurnsSpaced ==
    [][/\ \A i, j \in Sources : AsksFor(i) /\ AsksFor(j) => i = j
       /\ \A i \in Sources :
             AsksFor(i) => quiet[OriginOf(i)] >= Verdict[i][site[OriginOf(i)]].delay]_vars

\* A source that has its origin for itself is asked for only if robots.txt allows
\* its path, and no source is after robots.txt or a 4xx has refused it: no retry,
\* no other source's answer and no lapse of the verdict lets it through
\* (docs/ARCHITECTURE.md:49-51, service.ts:62).
AloneThere(i) ==
    \A j \in Sources \ {i} : Source[j].gated => OriginOf(j) # OriginOf(i)

RobotsObeyed ==
    /\ \A i \in Sources :
          phase[i] \in {"turn", "list"} /\ Source[i].gated /\ AloneThere(i) =>
             Verdict[i][site[OriginOf(i)]].allowed
    /\ \A i \in told : phase[i] = "failed"

\* Whether the merge has kept the first Cap different proxies of the sources that
\* answered, in the order of the configuration and not the one they finished in,
\* each under the first source that lists it, and counted every other one.
Precedes(r, s) == r[1] < s[1] \/ (r[1] = s[1] /\ r[2] < s[2])

MergedRight ==
    LET listed == [i \in Sources |-> Parsed(i)]
        places == UNION {{i} \X DOMAIN listed[i].proxies : i \in Sources}
        at(r) == listed[r[1]].proxies[r[2]]
        all == {at(r) : r \in places}
        rank == [p \in all |-> CHOOSE r \in places :
                    at(r) = p /\ \A q \in places : at(q) = p => q = r \/ Precedes(r, q)]
        merged == Merge(listed, Cap)
        kept == merged.candidates
    IN  /\ Len(kept) = Smaller(Cap, Cardinality(all)) /\ ToSet(kept) \subseteq all
        /\ \A n \in DOMAIN kept : merged.from[n] = rank[kept[n]][1]
        /\ \A n \in DOMAIN kept : \A p \in all :
              Precedes(rank[p], rank[kept[n]]) => \E m \in 1 .. n - 1 : kept[m] = p
        /\ Len(kept) + merged.duplicates =
              FoldLeft(LAMBDA n, r : n + Len(r.proxies) + r.duplicates, 0, listed)

\* Discovery ends with that merge, whichever sources fail, refuse, are slow or wait
\* for their turn; a source that failed contributes nothing (service.ts:1-5, 153-185).
HarvestDelivered ==
    <>[](/\ delivered /\ MergedRight
         /\ \A i \in Sources : phase[i] = "failed" => results[i] = Nothing)
=============================================================================
