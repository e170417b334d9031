---------------------------- MODULE EdgeGateway ----------------------------
(***************************************************************************)
(* The public gateway, api/src: a fixed-window rate limit over a key-value *)
(* store, an edge cache with a lifetime per endpoint, and the call of the  *)
(* origin with its timeout and its fallback to a stale entry.              *)
(*                                                                         *)
(* A call of fetch() runs to its next await: the get of the counter, its   *)
(* put, the request to the origin, and the put into the cache, which goes  *)
(* on after the answer; a lookup in the cache only reads and is part of    *)
(* the step before it.  A request that fails the key, the path or the      *)
(* method touches nothing and is no step.  The store, the cache and the    *)
(* origin are outside of api/src: each may fail, and the cache may drop an *)
(* entry at any time.  Time is counted in ticks of a second.               *)
(***************************************************************************)
EXTENDS Integers, FiniteSets

CONSTANTS
    Clients,     \* the buckets of the rate limit: key and address
    Keys,        \* cache keys: endpoint and sorted query
    Ttl,         \* Ttl[k]: lifetime of its endpoint; 0 for one never cached
    Calls,       \* calls of fetch() that may be under way at once
    MaxRequests, \* RATE_LIMIT_MAX
    Window,      \* RATE_LIMIT_WINDOW_SECONDS
    Timeout      \* UPSTREAM_TIMEOUT_MS

ASSUME GatewayAssumption ==
    /\ Ttl \in [Keys -> Nat]
    /\ {MaxRequests, Window} \subseteq Nat \ {0} /\ Timeout \in Nat
    /\ Clients # {} /\ Keys # {}

VARIABLES
    counter,   \* counter[c]: what the store has for the current window
    second,    \* seconds since the current window began
    cache,     \* cache[k]: the entry of the key
    call,      \* call[r]: how far the call r has come
    reply,     \* not in the code: the answer given in the latest step
    attempts,  \* not in the code: requests of the client in this window
    admitted,  \* not in the code: how many of them were let through
    disturbed  \* not in the code: clients whose counting was not in sequence

history == <<attempts, admitted, disturbed>>
vars == <<counter, second, cache, call, reply, history>>

Smaller(m, n) == IF m <= n THEN m ELSE n

\* Beyond the limit the counters all mean the same.
Full == MaxRequests + 1
More(n) == Smaller(n + 1, Full)

NoEntry == [age |-> 0, lag |-> 0, good |-> FALSE, there |-> FALSE]

\* age: since it was signed; lag: how old the body was by then.
Entry == [age : Nat, lag : 0 .. Timeout, good : BOOLEAN, there : BOOLEAN]

Stage == {"idle", "counting", "asking", "answering", "storing"}

AnyClient == CHOOSE c \in Clients : TRUE
AnyKey == CHOOSE k \in Keys : TRUE

\* past: the window it counts in is over; nth: not in the code, its number in
\* that window; entry: what it has got and is about to store.
Call == [stage : Stage, client : Clients, key : Keys, seen : 0 .. Full, nth : 0 .. Full,
         past : BOOLEAN, waited : 0 .. Timeout, entry : Entry]

Idle == [stage |-> "idle", client |-> AnyClient, key |-> AnyKey, seen |-> 0, nth |-> 0,
         past |-> FALSE, waited |-> 0, entry |-> NoEntry]

Silence == [kind |-> "none", key |-> AnyKey, age |-> 0, nth |-> 0]
Reply == [kind : {"none", "fresh", "cached", "stale", "error", "denied"}, key : Keys,
          age : Nat, nth : 0 .. Full]

TypeOK ==
    /\ counter \in [Clients -> 0 .. Full]
    /\ second \in 0 .. Window - 1
    /\ cache \in [Keys -> Entry]
    /\ \A k \in Keys : cache[k].age <= Ttl[k] + 1 /\ (cache[k].there => Ttl[k] > 0)
    /\ call \in [Calls -> Call]
    /\ reply \in Reply
    /\ attempts \in [Clients -> 0 .. Full]
    /\ admitted \in [Clients -> 0 .. Full]
    /\ disturbed \subseteq Clients

Init ==
    /\ counter = [c \in Clients |-> 0]
    /\ second = 0
    /\ cache = [k \in Keys |-> NoEntry]
    /\ call = [r \in Calls |-> Idle]
    /\ reply = Silence
    /\ attempts = [c \in Clients |-> 0]
    /\ admitted = [c \in Clients |-> 0]
    /\ disturbed = {}

Becomes(r, d) == call' = [call EXCEPT ![r] = d]

Answer(r, kind, age) ==
    reply' = [kind |-> kind, key |-> call[r].key, age |-> age, nth |-> call[r].nth]

-----------------------------------------------------------------------------
(* checkRateLimit *)

Counting(c) == {r \in Calls : call[r].stage = "counting" /\ call[r].client = c /\ ~call[r].past}

\* The window is computed and its counter read; the store may still have an
\* older value.
Arrive(r) ==
    /\ call[r] = Idle
    /\ \E c \in Clients, k \in Keys : \E n \in 0 .. counter[c] :
          /\ Becomes(r, [Idle EXCEPT !.stage = "counting", !.client = c, !.key = k,
                                     !.seen = n, !.nth = More(attempts[c])])
          /\ attempts' = [attempts EXCEPT ![c] = More(@)]
          /\ disturbed' = IF Counting(c) = {} /\ n = counter[c]
                          THEN disturbed ELSE disturbed \cup {c}
    /\ reply' = Silence
    /\ UNCHANGED <<counter, second, cache, admitted>>

\* Mutation: the window is computed again for the put.
CountedAnew(r) == [counter EXCEPT ![call[r].client] = More(call[r].seen)]

\* The put; the counter of a window that is over is never read again.
Counted(r) ==
    IF call[r].past THEN counter ELSE [counter EXCEPT ![call[r].client] = More(call[r].seen)]

\* Mutation: one more is let through.
RefusedLate(r) == call[r].seen > MaxRequests

Refused(r) == call[r].seen + 1 > MaxRequests

Refuse(r) ==
    /\ call[r].stage = "counting"
    /\ Refused(r)
    /\ counter' = Counted(r)
    /\ Answer(r, "denied", 0)
    /\ Becomes(r, Idle)
    /\ UNCHANGED <<second, cache, history>>

\* A store that fails lets every request through.
Admit(r) ==
    /\ call[r].stage = "counting"
    /\ \/ /\ ~Refused(r)
          /\ counter' = Counted(r)
          /\ UNCHANGED disturbed
       \/ /\ counter' \in {counter, Counted(r)}
          /\ disturbed' = IF call[r].past THEN disturbed ELSE disturbed \cup {call[r].client}
    /\ admitted' = IF call[r].past THEN admitted
                   ELSE [admitted EXCEPT ![call[r].client] = More(@)]
    /\ UNCHANGED <<second, cache, attempts>>

-----------------------------------------------------------------------------
(* The rest of fetch() *)

\* Mutation: the age of an entry does not matter.
FreshAtAnyAge(k) == Ttl[k] > 0 /\ cache[k].there

Fresh(k) == Ttl[k] > 0 /\ cache[k].there /\ cache[k].age <= Ttl[k]

FromCache(r, kind) ==
    LET entry == cache[call[r].key]
    IN  Answer(r, IF entry.good THEN kind ELSE "error", entry.age + entry.lag)

\* The query is refused.
AdmitBadQuery(r) == Admit(r) /\ Answer(r, "error", 0) /\ Becomes(r, Idle)

AdmitHit(r) == Fresh(call[r].key) /\ Admit(r) /\ FromCache(r, "cached") /\ Becomes(r, Idle)

\* No fresh entry, a cache that fails, or bypass_cache.
AdmitMiss(r) ==
    /\ Admit(r)
    /\ Becomes(r, [Idle EXCEPT !.stage = "asking",
                               !.client = call[r].client, !.key = call[r].key])
    /\ reply' = Silence

\* The origin has read the pool; its answer is on the way.
Produce(r) ==
    /\ call[r].stage = "asking"
    /\ Becomes(r, [call[r] EXCEPT !.stage = "answering"])
    /\ reply' = Silence
    /\ UNCHANGED <<counter, second, cache, history>>

\* Mutation: what is never cached is stored as well.
StorableAlways(k) == TRUE

Storable(k) == Ttl[k] > 0

\* The body is good or malformed; either way a 200 is stored.
Receive(r) ==
    /\ call[r].stage = "answering"
    /\ \E good \in BOOLEAN :
          LET entry == [age |-> 0, lag |-> call[r].entry.lag, good |-> good, there |-> TRUE]
          IN  /\ Answer(r, IF good THEN "fresh" ELSE "error", entry.lag)
              /\ Becomes(r, IF Storable(call[r].key)
                            THEN [Idle EXCEPT !.stage = "storing", !.client = call[r].client,
                                              !.key = call[r].key, !.entry = entry]
                            ELSE Idle)
    /\ UNCHANGED <<counter, second, cache, history>>

\* An answer that is not JSON is no failure of the origin: no entry serves.
NotJson(r) ==
    /\ call[r].stage = "answering"
    /\ Answer(r, "error", 0)
    /\ Becomes(r, Idle)
    /\ UNCHANGED <<counter, second, cache, history>>

\* Any entry there is serves, whatever its age.
FallBack(r) ==
    /\ \/ cache[call[r].key].there /\ FromCache(r, "stale")
       \/ Answer(r, "error", 0)
    /\ Becomes(r, Idle)
    /\ UNCHANGED <<counter, second, cache, history>>

\* Unreachable, an error status, an answer too large.
OriginFails(r) == call[r].stage \in {"asking", "answering"} /\ FallBack(r)

\* Mutation: the timeout is over with the headers.
TimesOutUnlessAnswering(r) ==
    call[r].stage = "asking" /\ call[r].waited = Timeout /\ FallBack(r)

TimesOut(r) ==
    call[r].stage \in {"asking", "answering"} /\ call[r].waited = Timeout /\ FallBack(r)

\* The put into the cache arrives, or fails unnoticed.
Store(r) ==
    /\ call[r].stage = "storing"
    /\ \/ cache' = [cache EXCEPT ![call[r].key] = call[r].entry]
       \/ UNCHANGED cache
    /\ Becomes(r, Idle)
    /\ reply' = Silence
    /\ UNCHANGED <<counter, second, history>>

-----------------------------------------------------------------------------
Evict(k) ==
    /\ cache[k].there
    /\ cache' = [cache EXCEPT ![k] = NoEntry]
    /\ reply' = Silence
    /\ UNCHANGED <<counter, second, call, history>>

Aged(entry, k) ==
    IF entry.there THEN [entry EXCEPT !.age = Smaller(@ + 1, Ttl[k] + 1)] ELSE entry

Waiting(d) == d.stage \in {"asking", "answering"}

Later(d, rollover) ==
    [d EXCEPT !.past = d.past \/ (rollover /\ d.stage = "counting"),
              !.waited = IF Waiting(d) THEN d.waited + 1 ELSE d.waited,
              !.entry = IF d.stage = "answering" THEN [d.entry EXCEPT !.lag = @ + 1]
                        ELSE Aged(d.entry, d.key)]

\* A second passes; no timer is overdue.
Tick ==
    /\ \A r \in Calls : Waiting(call[r]) => call[r].waited < Timeout
    /\ LET rollover == second + 1 = Window
       IN  /\ second' = IF rollover THEN 0 ELSE second + 1
           /\ call' = [r \in Calls |-> Later(call[r], rollover)]
           /\ IF rollover
              THEN /\ counter' = [c \in Clients |-> 0]
                   /\ attempts' = counter' /\ admitted' = counter' /\ disturbed' = {}
              ELSE UNCHANGED <<counter, history>>
    /\ cache' = [k \in Keys |-> Aged(cache[k], k)]
    /\ reply' = Silence

Decide(r) == Refuse(r) \/ AdmitBadQuery(r) \/ AdmitHit(r) \/ AdmitMiss(r)

Next ==
    \/ \E r \in Calls : Arrive(r) \/ Decide(r) \/ Produce(r) \/ Receive(r) \/ NotJson(r)
                        \/ OriginFails(r) \/ TimesOut(r) \/ Store(r)
    \/ \E k \in Keys : Evict(k)
    \/ Tick

Spec == Init /\ [][Next]_vars

\* Time passes, timers fire, the store and the cache answer; the origin need not.
FairSpec ==
    /\ Spec /\ WF_vars(Tick)
    /\ \A r \in Calls : WF_vars(Decide(r)) /\ WF_vars(TimesOut(r)) /\ WF_vars(Store(r))

-----------------------------------------------------------------------------
(* "Cached at the edge for 30 s" (docs/API.md:72): an answer that is not     *)
(* marked stale shows the pool as it was no longer ago than the lifetime of  *)
(* its endpoint and the timeout of one request together, however slow the    *)
(* origin and the puts into the cache are and in whatever order they end.    *)
BoundedStaleness ==
    /\ reply.kind = "cached" => reply.age <= Ttl[reply.key] + Timeout
    /\ reply.kind = "fresh" => reply.age <= Timeout

(* A client is refused only for requests of its own in the same window, also *)
(* when it asks at the end of one window and is answered in the next.        *)
NoFalseRefusal == reply.kind = "denied" => reply.nth > MaxRequests

(* Unless the store failed or lagged or two requests were counted at the     *)
(* same time, no more than MaxRequests of a client get through in a window   *)
(* ("RATE_LIMIT_MAX/RATE_LIMIT_WINDOW_SECONDS", docs/API.md:285).            *)
LimitExact == \A c \in Clients \ disturbed : admitted[c] <= MaxRequests

(* Every request is answered, by a silent origin too ("turns a timeout into  *)
(* a 504 rather than hanging forever", tests/api-gateway.test.ts:422).       *)
Answered == \A r \in Calls : call[r].stage # "idle" ~> call[r].stage = "idle"
=============================================================================
