------------------------ MODULE EdgeGateway_proofs ------------------------
(***************************************************************************)
(* The age of an answer, and the two sides of the rate limit, for any      *)
(* number of clients, endpoints and overlapping calls, and any limits.     *)
(***************************************************************************)
EXTENDS EdgeGateway, TLAPS

\* What waits for the origin is as old as the request at most, and only
\* what may be cached is about to be stored.
Young(d) ==
    /\ d.entry.age <= Ttl[d.key] + 1
    /\ Waiting(d) => ~d.entry.there /\ d.entry.age = 0 /\ d.entry.lag <= d.waited
    /\ d.stage = "storing" => Ttl[d.key] > 0

AgeInv == \A r \in Calls : Young(call[r])

\* A counter never runs ahead of the requests of its client.
CountInv ==
    /\ \A c \in Clients : counter[c] <= attempts[c]
    /\ \A r \in Calls : call[r].stage = "counting" =>
          /\ More(call[r].seen) <= call[r].nth
          /\ ~call[r].past => call[r].nth <= attempts[call[r].client]

\* In sequence, nobody but the one call has touched what it read.
SequenceInv ==
    \A c \in Clients \ disturbed :
        /\ admitted[c] <= counter[c] /\ admitted[c] <= MaxRequests
        /\ \A r \in Counting(c) : call[r].seen = counter[c] /\ Counting(c) = {r}

IInv == TypeOK /\ AgeInv /\ CountInv

LEMMA Numbers ==
    /\ MaxRequests \in Nat \ {0} /\ Timeout \in Nat /\ Window \in Nat \ {0}
    /\ Full \in Nat /\ Full > MaxRequests
    /\ \A k \in Keys : Ttl[k] \in Nat
    /\ \A n \in 0 .. Full : More(n) \in 0 .. Full /\ n <= More(n)
BY GatewayAssumption DEF Full, More, Smaller

LEMMA Monotone == \A m, n \in 0 .. Full : m <= n => More(m) <= More(n)
BY Numbers DEF More, Smaller

LEMMA IdleType ==
    /\ AnyClient \in Clients /\ AnyKey \in Keys /\ NoEntry \in Entry
    /\ Idle \in Call /\ Silence \in Reply
<1>1. AnyClient \in Clients /\ AnyKey \in Keys
  BY GatewayAssumption DEF AnyClient, AnyKey
<1>2. NoEntry \in Entry
  BY Numbers DEF NoEntry, Entry
<1>3. Idle \in Call
  BY <1>1, <1>2, Numbers DEF Idle, Call, Stage
<1>4. Silence \in Reply
  BY <1>1, Numbers DEF Silence, Reply
<1> QED BY <1>1, <1>2, <1>3, <1>4

LEMMA InvInit == Init => IInv /\ SequenceInv
<1> SUFFICES ASSUME Init PROVE IInv /\ SequenceInv
  OBVIOUS
<1>1. TypeOK
  <2>1. \A k \in Keys : cache[k] = NoEntry
    BY DEF Init
  <2>2. \A r \in Calls : call[r] = Idle
    BY DEF Init
  <2> QED BY <2>1, <2>2, IdleType, Numbers DEF Init, TypeOK, NoEntry
<1>2. AgeInv
  BY Numbers, IdleType DEF Init, AgeInv, Young, Idle, NoEntry, Waiting
<1>3. CountInv
  BY DEF Init, CountInv, Idle
<1>4. SequenceInv
  BY Numbers DEF Init, SequenceInv, Idle, Counting
<1> QED BY <1>1, <1>2, <1>3, <1>4 DEF IInv

-----------------------------------------------------------------------------
(* The steps of one call *)

LEMMA Moved ==
    ASSUME TypeOK, NEW r \in Calls, NEW d \in Call, Becomes(r, d)
    PROVE  /\ call' \in [Calls -> Call]
           /\ call'[r] = d
           /\ \A s \in Calls \ {r} : call'[s] = call[s]
BY DEF TypeOK, Becomes

LEMMA AnswerType ==
    ASSUME TypeOK, NEW r \in Calls, NEW kind \in {"fresh", "cached", "stale", "error", "denied"},
           NEW age \in Nat, Answer(r, kind, age)
    PROVE  reply' \in Reply
BY DEF TypeOK, Answer, Reply, Call

LEMMA FromCacheType ==
    ASSUME TypeOK, NEW r \in Calls, NEW kind \in {"cached", "stale"}, FromCache(r, kind)
    PROVE  reply' \in Reply
<1>1. call[r].key \in Keys /\ cache[call[r].key] \in Entry
  BY DEF TypeOK, Call
<1>2. cache[call[r].key].age + cache[call[r].key].lag \in Nat
  BY <1>1, Numbers DEF Entry
<1> QED BY <1>2, AnswerType DEF FromCache

\* A call that has nothing to store.
LEMMA Restarted ==
    ASSUME TypeOK, NEW r \in Calls, NEW stage \in {"idle", "asking"}
    PROVE  LET d == [Idle EXCEPT !.stage = stage,
                                 !.client = call[r].client, !.key = call[r].key]
           IN  d \in Call /\ Young(d) /\ d.stage = stage
<1>1. call[r].client \in Clients /\ call[r].key \in Keys
  BY DEF TypeOK, Call
<1>2. stage \in Stage
  BY DEF Stage
<1> DEFINE d == [Idle EXCEPT !.stage = stage,
                             !.client = call[r].client, !.key = call[r].key]
<1>3. /\ d \in Call /\ d.stage = stage /\ d.key = call[r].key
      /\ d.entry = NoEntry /\ d.waited = 0
  BY <1>1, <1>2, IdleType DEF Idle, Call
<1>4. Ttl[d.key] \in Nat
  BY <1>1, <1>3, Numbers
<1>5. Young(d)
  BY <1>3, <1>4 DEF Young, Waiting, NoEntry
<1> QED BY <1>3, <1>5

LEMMA IdleYoung == Young(Idle) /\ Idle.stage = "idle"
BY IdleType, Numbers DEF Young, Idle, NoEntry, Waiting

\* What a step leaves of the call it belongs to.
Leaves(r) ==
    /\ reply' \in Reply
    /\ \E d \in Call : Becomes(r, d) /\ Young(d) /\ d.stage # "counting"

LEMMA DecideLeaves ==
    ASSUME TypeOK, NEW r \in Calls, Decide(r)
    PROVE  Leaves(r)
<1>1. CASE Refuse(r)
  BY <1>1, AnswerType, IdleType, IdleYoung DEF Refuse, Leaves
<1>2. CASE AdmitBadQuery(r)
  BY <1>2, AnswerType, IdleType, IdleYoung DEF AdmitBadQuery, Leaves
<1>3. CASE AdmitHit(r)
  BY <1>3, FromCacheType, IdleType, IdleYoung DEF AdmitHit, Leaves
<1>4. CASE AdmitMiss(r)
  BY <1>4, IdleType, Restarted DEF AdmitMiss, Leaves
<1> QED BY <1>1, <1>2, <1>3, <1>4 DEF Decide

LEMMA FallBackLeaves ==
    ASSUME TypeOK, NEW r \in Calls, FallBack(r)
    PROVE  Leaves(r)
BY AnswerType, FromCacheType, IdleType, IdleYoung DEF FallBack, Leaves

LEMMA ReceiveLeaves ==
    ASSUME TypeOK, AgeInv, NEW r \in Calls, Receive(r)
    PROVE  Leaves(r)
<1>1. PICK good \in BOOLEAN :
        LET entry == [age |-> 0, lag |-> call[r].entry.lag, good |-> good, there |-> TRUE]
        IN  /\ Answer(r, IF good THEN "fresh" ELSE "error", entry.lag)
            /\ Becomes(r, IF Storable(call[r].key)
                          THEN [Idle EXCEPT !.stage = "storing", !.client = call[r].client,
                                            !.key = call[r].key, !.entry = entry]
                          ELSE Idle)
  BY DEF Receive
<1> DEFINE entry == [age |-> 0, lag |-> call[r].entry.lag, good |-> good, there |-> TRUE]
           d == [Idle EXCEPT !.stage = "storing", !.client = call[r].client,
                             !.key = call[r].key, !.entry = entry]
<1>2. /\ call[r].client \in Clients /\ call[r].key \in Keys
      /\ call[r].entry.lag \in 0 .. Timeout
  BY DEF TypeOK, Call, Entry
<1>3. entry \in Entry
  BY <1>2 DEF Entry
<1>4. d \in Call /\ d.stage = "storing" /\ d.key = call[r].key /\ d.entry.age = 0
  BY <1>2, <1>3, IdleType DEF Idle, Call, Stage
<1>5. Storable(call[r].key) => Young(d)
  BY <1>2, <1>4, Numbers DEF Young, Waiting, Storable
<1>6. reply' \in Reply
  BY <1>1, <1>2, Numbers, AnswerType
<1>7. CASE Storable(call[r].key)
  BY <1>1, <1>4, <1>5, <1>6, <1>7 DEF Leaves
<1>8. CASE ~Storable(call[r].key)
  BY <1>1, <1>6, <1>8, IdleType, IdleYoung DEF Leaves
<1> QED BY <1>7, <1>8

LEMMA ProduceLeaves ==
    ASSUME TypeOK, AgeInv, NEW r \in Calls, Produce(r)
    PROVE  Leaves(r)
<1> DEFINE d == [call[r] EXCEPT !.stage = "answering"]
<1>1. call[r] \in Call /\ Young(call[r]) /\ call[r].stage = "asking"
  BY DEF TypeOK, AgeInv, Produce
<1>2. d \in Call /\ d.stage = "answering"
  BY <1>1 DEF Call, Stage
<1>3. Young(d)
  BY <1>1 DEF Young, Waiting, Call
<1> QED BY <1>2, <1>3, IdleType DEF Produce, Leaves

LEMMA CallLeaves ==
    ASSUME TypeOK, AgeInv, NEW r \in Calls,
           \/ Decide(r) \/ Produce(r) \/ Receive(r) \/ NotJson(r)
           \/ OriginFails(r) \/ TimesOut(r) \/ Store(r)
    PROVE  Leaves(r)
<1>1. CASE NotJson(r)
  BY <1>1, AnswerType, IdleType, IdleYoung DEF NotJson, Leaves
<1>2. CASE Store(r)
  BY <1>2, IdleType, IdleYoung DEF Store, Leaves
<1>3. CASE OriginFails(r) \/ TimesOut(r)
  BY <1>3, FallBackLeaves DEF OriginFails, TimesOut
<1> QED BY <1>1, <1>2, <1>3, DecideLeaves, ProduceLeaves, ReceiveLeaves

-----------------------------------------------------------------------------
(* The counters *)

LEMMA CounterStep ==
    ASSUME TypeOK, CountInv, NEW r \in Calls, call[r].stage = "counting",
           counter' \in {counter, Counted(r)}
    PROVE  /\ counter' \in [Clients -> 0 .. Full]
           /\ \A c \in Clients : counter'[c] <= attempts[c]
<1>1. /\ call[r].client \in Clients /\ call[r].seen \in 0 .. Full
      /\ call[r].nth \in 0 .. Full /\ attempts[call[r].client] \in 0 .. Full
  BY DEF TypeOK, Call
<1>2. More(call[r].seen) \in 0 .. Full
  BY <1>1, Numbers
<1>3. ~call[r].past => More(call[r].seen) <= attempts[call[r].client]
  BY <1>1, <1>2, Numbers DEF CountInv
<1> QED BY <1>1, <1>2, <1>3 DEF TypeOK, CountInv, Counted

\* What becomes of the counters when a call is let through or refused.
LEMMA AdmitCounts ==
    ASSUME TypeOK, NEW r \in Calls, Admit(r)
    PROVE  /\ call[r].stage = "counting" /\ counter' \in {counter, Counted(r)}
           /\ UNCHANGED <<second, cache, attempts>>
           /\ admitted' \in [Clients -> 0 .. Full] /\ disturbed' \subseteq Clients
<1>1. call[r].client \in Clients /\ \A n \in 0 .. Full : More(n) \in 0 .. Full
  BY Numbers DEF TypeOK, Call
<1>2. admitted' \in [Clients -> 0 .. Full]
  BY <1>1 DEF Admit, TypeOK
<1>3. disturbed' \subseteq Clients
  BY <1>1 DEF Admit, TypeOK
<1> QED BY <1>2, <1>3 DEF Admit

LEMMA DecideCounts ==
    ASSUME TypeOK, NEW r \in Calls, Decide(r)
    PROVE  /\ call[r].stage = "counting" /\ counter' \in {counter, Counted(r)}
           /\ UNCHANGED <<second, cache, attempts>>
           /\ admitted' \in [Clients -> 0 .. Full] /\ disturbed' \subseteq Clients
<1>1. CASE Refuse(r)
  BY <1>1 DEF Refuse, history, TypeOK
<1>2. CASE Admit(r)
  BY <1>2, AdmitCounts
<1> QED BY <1>1, <1>2 DEF Decide, AdmitBadQuery, AdmitHit, AdmitMiss

\* The steps of a call that have nothing to do with the limit.
Elsewhere(r) ==
    Produce(r) \/ Receive(r) \/ NotJson(r) \/ OriginFails(r) \/ TimesOut(r) \/ Store(r)

LEMMA ElsewhereCounts ==
    ASSUME NEW r \in Calls, Elsewhere(r)
    PROVE  /\ UNCHANGED <<counter, second, history>>
           /\ \/ UNCHANGED cache
              \/ Store(r) /\ cache' = [cache EXCEPT ![call[r].key] = call[r].entry]
           /\ call[r].stage # "counting"
BY DEF Elsewhere, Produce, Receive, NotJson, OriginFails, TimesOut, FallBack, Store

LEMMA CallKeepsInv ==
    ASSUME IInv, NEW r \in Calls, Decide(r) \/ Elsewhere(r)
    PROVE  IInv'
<1> USE DEF IInv
<1>1. Leaves(r)
  BY CallLeaves DEF Elsewhere
<1>2. PICK d \in Call : Becomes(r, d) /\ Young(d) /\ d.stage # "counting"
  BY <1>1 DEF Leaves
<1>3. /\ call' \in [Calls -> Call] /\ call'[r] = d
      /\ \A s \in Calls \ {r} : call'[s] = call[s]
  BY <1>2, Moved
<1>4. AgeInv'
  BY <1>2, <1>3 DEF AgeInv, Young, Waiting
<1>5. /\ counter' \in [Clients -> 0 .. Full] /\ UNCHANGED <<second, attempts>>
      /\ \A c \in Clients : counter'[c] <= attempts[c]
      /\ admitted' \in [Clients -> 0 .. Full] /\ disturbed' \subseteq Clients
  <2>1. CASE Decide(r)
    BY <2>1, DecideCounts, CounterStep
  <2>2. CASE Elsewhere(r)
    BY <2>2, ElsewhereCounts DEF history, TypeOK, CountInv
  <2> QED BY <2>1, <2>2
<1>6. CountInv'
  BY <1>2, <1>3, <1>5 DEF CountInv, More, Smaller, Full
<1>7. /\ cache' \in [Keys -> Entry]
      /\ \A k \in Keys : cache'[k].age <= Ttl[k] + 1 /\ (cache'[k].there => Ttl[k] > 0)
  <2>1. CASE UNCHANGED cache
    BY <2>1 DEF TypeOK
  <2>2. CASE Store(r) /\ cache' = [cache EXCEPT ![call[r].key] = call[r].entry]
    <3>1. /\ call[r].key \in Keys /\ call[r].entry \in Entry
          /\ call[r].entry.age <= Ttl[call[r].key] + 1 /\ Ttl[call[r].key] > 0
      BY <2>2 DEF TypeOK, Call, AgeInv, Young, Store
    <3> QED BY <2>2, <3>1 DEF TypeOK
  <2> QED BY <2>1, <2>2, DecideCounts, ElsewhereCounts
<1>8. TypeOK'
  BY <1>1, <1>3, <1>5, <1>7 DEF TypeOK, Leaves
<1> QED BY <1>4, <1>6, <1>8

-----------------------------------------------------------------------------
(* The other steps *)

\* The call that a request of client c begins.
Begun(c, k, n) ==
    [Idle EXCEPT !.stage = "counting", !.client = c, !.key = k,
                 !.seen = n, !.nth = More(attempts[c])]

LEMMA BegunType ==
    ASSUME TypeOK, NEW c \in Clients, NEW k \in Keys, NEW n \in 0 .. counter[c]
    PROVE  LET d == Begun(c, k, n)
           IN  /\ d \in Call /\ Young(d) /\ n \in 0 .. Full
               /\ d.stage = "counting" /\ d.client = c /\ ~d.past
               /\ d.seen = n /\ d.nth = More(attempts[c]) /\ d.nth \in 0 .. Full
<1>1. n \in 0 .. Full /\ More(attempts[c]) \in 0 .. Full
  BY Numbers DEF TypeOK
<1>2. Begun(c, k, n) \in Call
  BY <1>1, IdleType DEF Begun, Call, Idle, Stage
<1>3. Young(Begun(c, k, n))
  BY Numbers DEF Begun, Young, Waiting, Idle, NoEntry
<1> QED BY <1>1, <1>2, <1>3 DEF Begun, Idle

LEMMA ArriveKeepsInv ==
    ASSUME IInv, NEW r \in Calls, Arrive(r)
    PROVE  IInv'
<1> USE DEF IInv
<1>1. PICK c \in Clients, k \in Keys : \E n \in 0 .. counter[c] :
        /\ Becomes(r, Begun(c, k, n))
        /\ attempts' = [attempts EXCEPT ![c] = More(@)]
        /\ disturbed' = IF Counting(c) = {} /\ n = counter[c]
                        THEN disturbed ELSE disturbed \cup {c}
  BY DEF Arrive, Begun
<1>2. PICK n \in 0 .. counter[c] :
        /\ Becomes(r, Begun(c, k, n))
        /\ attempts' = [attempts EXCEPT ![c] = More(@)]
        /\ disturbed' = IF Counting(c) = {} /\ n = counter[c]
                        THEN disturbed ELSE disturbed \cup {c}
  BY <1>1
<1> DEFINE d == Begun(c, k, n)
<1>3. /\ d \in Call /\ Young(d) /\ n \in 0 .. Full
      /\ d.stage = "counting" /\ d.client = c /\ ~d.past
      /\ d.seen = n /\ d.nth = More(attempts[c]) /\ d.nth \in 0 .. Full
  BY BegunType
<1>4. /\ call' \in [Calls -> Call] /\ call'[r] = d
      /\ \A s \in Calls \ {r} : call'[s] = call[s]
  BY <1>2, <1>3, Moved
<1> HIDE DEF d
<1>5. AgeInv'
  BY <1>3, <1>4 DEF AgeInv, Young, Waiting
<1>6. /\ attempts' \in [Clients -> 0 .. Full] /\ attempts'[c] = More(attempts[c])
      /\ \A b \in Clients : attempts[b] \in 0 .. Full /\ attempts[b] <= attempts'[b]
  BY <1>2, Numbers DEF TypeOK
<1>7. UNCHANGED <<counter, second, cache, admitted>> /\ reply' \in Reply
  BY IdleType DEF Arrive
<1>8. TypeOK'
  BY <1>2, <1>4, <1>6, <1>7 DEF TypeOK
<1>9. \A b \in Clients : counter'[b] <= attempts'[b]
  BY <1>6, <1>7 DEF TypeOK, CountInv
<1>10. More(d.seen) <= d.nth /\ d.nth <= attempts'[d.client]
  <2>1. n <= attempts[c] /\ attempts[c] \in 0 .. Full
    BY <1>3, Numbers DEF TypeOK, CountInv
  <2> QED BY <2>1, <1>3, <1>6, Monotone
<1>11. ASSUME NEW s \in Calls \ {r}, call'[s].stage = "counting"
       PROVE  /\ More(call'[s].seen) <= call'[s].nth
              /\ ~call'[s].past => call'[s].nth <= attempts'[call'[s].client]
  <2>1. call'[s] = call[s] /\ call[s].client \in Clients /\ call[s].nth \in 0 .. Full
    BY <1>4 DEF TypeOK, Call
  <2> QED BY <2>1, <1>6, <1>11 DEF CountInv, More, Smaller, Full
<1>12. CountInv'
  BY <1>4, <1>9, <1>10, <1>11 DEF CountInv, More, Smaller, Full
<1> QED BY <1>5, <1>8, <1>12

LEMMA EvictKeepsInv ==
    ASSUME IInv, NEW k \in Keys, Evict(k)
    PROVE  IInv'
<1> USE DEF IInv, Evict
<1>1. TypeOK'
  BY IdleType, Numbers DEF TypeOK, history, NoEntry
<1>2. AgeInv'
  BY DEF AgeInv, Young, Waiting
<1>3. CountInv'
  BY DEF CountInv, history, More, Smaller, Full
<1> QED BY <1>1, <1>2, <1>3

LEMMA AgedType ==
    ASSUME NEW k \in Keys, NEW entry \in Entry, entry.age <= Ttl[k] + 1
    PROVE  /\ Aged(entry, k) \in Entry /\ Aged(entry, k).age <= Ttl[k] + 1
           /\ Aged(entry, k).there = entry.there
           /\ ~entry.there => Aged(entry, k) = entry
BY Numbers DEF Aged, Entry, Smaller

LEMMA LaterType ==
    ASSUME NEW d \in Call, Young(d), Waiting(d) => d.waited < Timeout, NEW rollover \in BOOLEAN
    PROVE  LET e == Later(d, rollover)
           IN  /\ e \in Call /\ Young(e)
               /\ e.stage = d.stage /\ e.client = d.client /\ e.seen = d.seen /\ e.nth = d.nth
               /\ d.stage = "counting" => e.past = (d.past \/ rollover)
<1> DEFINE e == Later(d, rollover)
           aged == IF d.stage = "answering" THEN [d.entry EXCEPT !.lag = @ + 1]
                   ELSE Aged(d.entry, d.key)
           waited == IF Waiting(d) THEN d.waited + 1 ELSE d.waited
           past == d.past \/ (rollover /\ d.stage = "counting")
<1>1. d.key \in Keys /\ d.entry \in Entry /\ d.waited \in 0 .. Timeout /\ d.past \in BOOLEAN
  BY DEF Call
<1>2. e = [d EXCEPT !.past = past, !.waited = waited, !.entry = aged]
  BY DEF Later
<1>3. /\ waited \in 0 .. Timeout
      /\ Waiting(d) => waited = d.waited + 1
  BY <1>1, Numbers
<1>4. CASE d.stage = "answering"
  <2>1. /\ d.entry.lag \in 0 .. Timeout /\ d.entry.lag + 1 <= waited
        /\ ~d.entry.there /\ d.entry.age = 0
    BY <1>1, <1>3, <1>4 DEF Young, Waiting, Entry
  <2>2. aged \in Entry /\ aged.lag <= waited /\ ~aged.there /\ aged.age = 0
    BY <1>1, <1>3, <1>4, <2>1, Numbers DEF Entry
  <2> HIDE DEF aged, waited, past
  <2>3. e \in Call /\ e.entry = aged /\ e.waited = waited /\ e.key = d.key /\ e.stage = d.stage
    BY <1>1, <1>2, <1>3, <2>2 DEF Call, past
  <2>4. Young(e)
    BY <1>1, <1>4, <2>2, <2>3, Numbers DEF Young
  <2> QED BY <1>2, <1>4, <2>3, <2>4 DEF Call
<1>5. CASE d.stage # "answering"
  <2>1. aged = Aged(d.entry, d.key)
    BY <1>5
  <2>2. /\ aged \in Entry /\ aged.age <= Ttl[d.key] + 1
        /\ ~d.entry.there => aged = d.entry
    BY <1>1, <2>1, AgedType DEF Young
  <2> HIDE DEF aged, waited
  <2>3. past \in BOOLEAN
    BY <1>1
  <2> HIDE DEF past
  <2>4. e \in Call /\ e.entry = aged /\ e.waited = waited /\ e.key = d.key /\ e.stage = d.stage
    BY <1>1, <1>2, <1>3, <2>2, <2>3 DEF Call
  <2>5. Young(e)
    BY <1>1, <1>3, <2>2, <2>4, Numbers DEF Young, Waiting, Entry
  <2> QED BY <1>1, <1>2, <2>4, <2>5 DEF Call, past
<1> QED BY <1>4, <1>5

LEMMA TickKeepsInv ==
    ASSUME IInv, Tick
    PROVE  IInv'
<1> USE DEF IInv
<1> DEFINE rollover == second + 1 = Window
<1>1. /\ second' = IF rollover THEN 0 ELSE second + 1
      /\ call' = [r \in Calls |-> Later(call[r], rollover)]
      /\ cache' = [k \in Keys |-> Aged(cache[k], k)]
      /\ reply' = Silence
  BY DEF Tick
<1>2. ASSUME NEW r \in Calls
      PROVE  /\ call'[r] \in Call /\ Young(call'[r])
             /\ call'[r].stage = call[r].stage /\ call'[r].client = call[r].client
             /\ call'[r].seen = call[r].seen /\ call'[r].nth = call[r].nth
             /\ call[r].stage = "counting" => call'[r].past = (call[r].past \/ rollover)
  <2>1. call[r] \in Call /\ Young(call[r]) /\ (Waiting(call[r]) => call[r].waited < Timeout)
    BY DEF TypeOK, AgeInv, Tick
  <2>2. rollover \in BOOLEAN
    OBVIOUS
  <2> HIDE DEF rollover
  <2>3. call'[r] = Later(call[r], rollover)
    BY <1>1
  <2> QED BY <2>1, <2>2, <2>3, LaterType
<1>3. /\ cache' \in [Keys -> Entry]
      /\ \A k \in Keys : cache'[k].age <= Ttl[k] + 1 /\ (cache'[k].there => Ttl[k] > 0)
  BY <1>1, AgedType DEF TypeOK
<1>4. second' \in 0 .. Window - 1
  BY <1>1, Numbers DEF TypeOK
<1>5. /\ counter' \in [Clients -> 0 .. Full] /\ attempts' \in [Clients -> 0 .. Full]
      /\ admitted' \in [Clients -> 0 .. Full] /\ disturbed' \subseteq Clients
  BY Numbers DEF Tick, TypeOK, history
<1>6. call' \in [Calls -> Call]
  BY <1>1, <1>2
<1>7. TypeOK'
  BY <1>1, <1>3, <1>4, <1>5, <1>6, IdleType DEF TypeOK
<1>8. AgeInv'
  BY <1>2 DEF AgeInv, Young, Waiting
<1>9. CountInv'
  <2>1. ASSUME NEW c \in Clients PROVE counter'[c] <= attempts'[c]
    BY DEF Tick, history, CountInv, TypeOK
  <2>2. ~rollover => attempts' = attempts
    BY DEF Tick, history
  <2> HIDE DEF rollover
  <2>3. ASSUME NEW r \in Calls, call'[r].stage = "counting"
        PROVE  /\ More(call'[r].seen) <= call'[r].nth
               /\ ~call'[r].past => call'[r].nth <= attempts'[call'[r].client]
    BY <1>2, <2>2, <2>3 DEF CountInv, More, Smaller, Full
  <2> QED BY <2>1, <2>3 DEF CountInv, More, Smaller, Full
<1> QED BY <1>7, <1>8, <1>9

LEMMA InvStep == IInv /\ [Next]_vars => IInv'
<1> SUFFICES ASSUME IInv, [Next]_vars PROVE IInv'
  OBVIOUS
<1>1. ASSUME NEW r \in Calls, Arrive(r) PROVE IInv'
  BY <1>1, ArriveKeepsInv
<1>2. ASSUME NEW r \in Calls, Decide(r) \/ Elsewhere(r) PROVE IInv'
  BY <1>2, CallKeepsInv
<1>3. ASSUME NEW k \in Keys, Evict(k) PROVE IInv'
  BY <1>3, EvictKeepsInv
<1>4. CASE Tick
  BY <1>4, TickKeepsInv
<1>5. CASE UNCHANGED vars
  BY <1>5 DEF vars, history, IInv, TypeOK, AgeInv, Young, Waiting, CountInv, More, Smaller, Full
<1> QED BY <1>1, <1>2, <1>3, <1>4, <1>5 DEF Next, Elsewhere

-----------------------------------------------------------------------------
(* The age of an answer *)

LEMMA FromCacheAge ==
    ASSUME TypeOK, NEW r \in Calls, NEW kind \in {"cached", "stale"}, FromCache(r, kind)
    PROVE  /\ reply'.kind \in {kind, "error"}
           /\ reply'.key = call[r].key /\ call[r].key \in Keys
           /\ reply'.age <= cache[call[r].key].age + Timeout
<1>1. call[r].key \in Keys /\ cache[call[r].key] \in Entry
  BY DEF TypeOK, Call
<1> QED BY <1>1, Numbers DEF FromCache, Answer, Entry

LEMMA DecideAge ==
    ASSUME TypeOK, NEW r \in Calls, Decide(r)
    PROVE  BoundedStaleness'
<1>1. CASE AdmitHit(r)
  <2>1. Fresh(call[r].key) /\ FromCache(r, "cached")
    BY <1>1 DEF AdmitHit
  <2>2. /\ reply'.kind \in {"cached", "error"}
        /\ reply'.key = call[r].key /\ call[r].key \in Keys
        /\ reply'.age <= cache[call[r].key].age + Timeout
    BY <2>1, FromCacheAge
  <2>3. cache[call[r].key].age \in Nat /\ cache[call[r].key].age <= Ttl[call[r].key]
    BY <2>1, <2>2 DEF Fresh, TypeOK, Entry
  <2>4. reply'.age \in Nat
    BY <2>1, FromCacheType DEF Reply
  <2> QED BY <2>2, <2>3, <2>4, Numbers DEF BoundedStaleness
<1>2. CASE ~AdmitHit(r)
  BY <1>2 DEF Decide, Refuse, AdmitBadQuery, AdmitMiss, Answer, Silence, BoundedStaleness
<1> QED BY <1>1, <1>2

LEMMA ElsewhereAge ==
    ASSUME TypeOK, NEW r \in Calls, Elsewhere(r)
    PROVE  BoundedStaleness'
<1>1. CASE Receive(r)
  <2>1. call[r].entry.lag <= Timeout
    BY Numbers DEF TypeOK, Call, Entry
  <2> QED BY <1>1, <2>1 DEF Receive, Answer, BoundedStaleness
<1>2. CASE FallBack(r)
  BY <1>2, FromCacheAge DEF FallBack, Answer, BoundedStaleness
<1>3. CASE Produce(r) \/ NotJson(r) \/ Store(r)
  BY <1>3 DEF Produce, NotJson, Store, Answer, Silence, BoundedStaleness
<1> QED BY <1>1, <1>2, <1>3 DEF Elsewhere, OriginFails, TimesOut

LEMMA StalenessStep ==
    IInv /\ BoundedStaleness /\ [Next]_vars => BoundedStaleness'
<1> SUFFICES ASSUME IInv, BoundedStaleness, [Next]_vars PROVE BoundedStaleness'
  OBVIOUS
<1>1. ASSUME reply' = Silence PROVE BoundedStaleness'
  BY <1>1 DEF Silence, BoundedStaleness
<1>2. ASSUME NEW r \in Calls, Arrive(r) PROVE BoundedStaleness'
  BY <1>1, <1>2 DEF Arrive
<1>3. ASSUME NEW r \in Calls, Decide(r) \/ Elsewhere(r) PROVE BoundedStaleness'
  BY <1>3, DecideAge, ElsewhereAge DEF IInv
<1>4. ASSUME Tick \/ \E k \in Keys : Evict(k) PROVE BoundedStaleness'
  BY <1>1, <1>4 DEF Tick, Evict
<1>5. CASE UNCHANGED vars
  BY <1>5 DEF vars, BoundedStaleness
<1> QED BY <1>2, <1>3, <1>4, <1>5 DEF Next, Elsewhere

(* api/src/cache.ts, api/src/index.ts: no answer that is not marked stale is *)
(* older than its endpoint's lifetime and the timeout of a request together, *)
(* whatever the origin and the cache do.                                     *)
THEOREM AnswersYoung == Spec => []BoundedStaleness
<1>1. Init => BoundedStaleness
  BY DEF Init, Silence, BoundedStaleness
<1> QED BY <1>1, InvInit, InvStep, StalenessStep, PTL DEF Spec

-----------------------------------------------------------------------------
(* The limit *)

LEMMA RefusalStep ==
    IInv /\ NoFalseRefusal /\ [Next]_vars => NoFalseRefusal'
<1> SUFFICES ASSUME IInv, NoFalseRefusal, [Next]_vars PROVE NoFalseRefusal'
  OBVIOUS
<1>1. ASSUME NEW r \in Calls, Refuse(r) PROVE NoFalseRefusal'
  <2>1. /\ call[r].seen \in 0 .. Full /\ call[r].nth \in 0 .. Full
        /\ call[r].seen + 1 > MaxRequests /\ More(call[r].seen) <= call[r].nth
        /\ reply'.nth = call[r].nth
    BY <1>1 DEF IInv, TypeOK, Call, CountInv, Refuse, Refused, Answer
  <2> QED BY <2>1, Numbers DEF NoFalseRefusal, More, Smaller, Full
<1>2. ASSUME reply'.kind # "denied" PROVE NoFalseRefusal'
  BY <1>2 DEF NoFalseRefusal
<1>3. ASSUME NEW r \in Calls, AdmitHit(r) \/ FallBack(r) PROVE NoFalseRefusal'
  BY <1>2, <1>3 DEF AdmitHit, FallBack, FromCache, Answer
<1>4. ASSUME NEW r \in Calls, AdmitBadQuery(r) \/ NotJson(r) PROVE NoFalseRefusal'
  <2>1. Answer(r, "error", 0)
    BY <1>4 DEF AdmitBadQuery, NotJson
  <2> QED BY <1>2, <2>1 DEF Answer
<1>5. ASSUME NEW r \in Calls, AdmitMiss(r) \/ Arrive(r) \/ Produce(r) \/ Receive(r) \/ Store(r)
      PROVE  NoFalseRefusal'
  <2>1. CASE Receive(r)
    <3>1. PICK good \in BOOLEAN :
            Answer(r, IF good THEN "fresh" ELSE "error", call[r].entry.lag)
      BY <2>1 DEF Receive
    <3> QED BY <1>2, <3>1 DEF Answer
  <2>2. CASE ~Receive(r)
    <3>1. reply' = Silence
      BY <1>5, <2>2 DEF AdmitMiss, Arrive, Produce, Store
    <3> QED BY <1>2, <3>1 DEF Silence
  <2> QED BY <2>1, <2>2
<1>6. ASSUME Tick \/ \E k \in Keys : Evict(k) PROVE NoFalseRefusal'
  BY <1>2, <1>6 DEF Tick, Evict, Silence
<1>7. CASE UNCHANGED vars
  BY <1>7 DEF vars, NoFalseRefusal
<1> QED
  BY <1>1, <1>3, <1>4, <1>5, <1>6, <1>7 DEF Next, Decide, OriginFails, TimesOut

(* api/src/rate-limit.ts: a client is refused only for requests of its own   *)
(* in the same window, whatever is lost, late or counted at the same time.   *)
THEOREM RefusedForItsOwn == Spec => []NoFalseRefusal
<1>1. Init => NoFalseRefusal
  BY DEF Init, Silence, NoFalseRefusal
<1> QED BY <1>1, InvInit, InvStep, RefusalStep, PTL DEF Spec

\* A call that is decided is alone with the counter it read, if it counts.
LEMMA DecideSequence ==
    ASSUME IInv, SequenceInv, NEW r \in Calls, Decide(r)
    PROVE  SequenceInv'
<1> USE DEF IInv
<1>1. PICK d \in Call : Becomes(r, d) /\ d.stage # "counting"
  BY CallLeaves DEF Leaves
<1>2. /\ call'[r] = d /\ \A s \in Calls \ {r} : call'[s] = call[s]
  BY <1>1, Moved
<1> DEFINE b == call[r].client
<1>3. /\ call[r].stage = "counting" /\ b \in Clients /\ call[r].seen \in 0 .. Full
      /\ call[r].past \in BOOLEAN /\ More(call[r].seen) \in 0 .. Full
  BY Numbers, DecideCounts DEF TypeOK, Call
<1>4. Refuse(r) \/ Admit(r)
  BY DEF Decide, AdmitBadQuery, AdmitHit, AdmitMiss
<1>5. disturbed \subseteq disturbed'
  BY <1>4 DEF Refuse, Admit, history
<1> SUFFICES ASSUME NEW c \in Clients \ disturbed'
             PROVE  /\ admitted'[c] <= counter'[c] /\ admitted'[c] <= MaxRequests
                    /\ \A s \in Counting(c)' : call'[s].seen = counter'[c] /\ Counting(c)' = {s}
  BY DEF SequenceInv
<1>6. /\ admitted[c] <= counter[c] /\ admitted[c] <= MaxRequests
      /\ admitted[c] \in 0 .. Full /\ counter[c] \in 0 .. Full
      /\ \A s \in Counting(c) : call[s].seen = counter[c] /\ Counting(c) = {s}
  BY <1>5 DEF SequenceInv, TypeOK
<1>7. Counting(c)' = Counting(c) \ {r}
  BY <1>1, <1>2 DEF Counting
<1>8. CASE c # b \/ call[r].past
  <2>1. counter'[c] = counter[c] /\ admitted'[c] = admitted[c]
    BY <1>3, <1>4, <1>8 DEF Refuse, Admit, Counted, TypeOK, history
  <2>2. \A s \in Calls \ {r} : call'[s].seen = call[s].seen
    BY <1>2
  <2>3. r \notin Counting(c)
    BY <1>8 DEF Counting
  <2> QED BY <1>6, <1>7, <2>1, <2>2, <2>3 DEF Counting
<1>9. CASE c = b /\ ~call[r].past
  <2>1. r \in Counting(c)
    BY <1>3, <1>9 DEF Counting
  <2>2. call[r].seen = counter[c] /\ Counting(c)' = {}
    BY <1>6, <1>7, <2>1
  <2>3. CASE Refuse(r)
    <3>1. counter'[c] = More(counter[c]) /\ admitted' = admitted
      BY <1>9, <2>2, <2>3 DEF Refuse, Counted, TypeOK, history
    <3> QED BY <1>6, <2>2, <3>1, Numbers DEF More, Smaller, Full
  <2>4. CASE Admit(r)
    <3>1. ~Refused(r) /\ counter' = Counted(r)
      BY <1>9, <2>4 DEF Admit
    <3>2. counter'[c] = More(counter[c]) /\ counter[c] + 1 <= MaxRequests
      BY <1>6, <1>9, <2>2, <3>1, Numbers DEF Counted, Refused, TypeOK
    <3>3. admitted'[c] = More(admitted[c])
      BY <1>9, <2>4 DEF Admit, TypeOK
    <3> QED BY <1>6, <2>2, <3>2, <3>3, Numbers DEF More, Smaller, Full
  <2> QED BY <1>4, <2>3, <2>4
<1> QED BY <1>8, <1>9

LEMMA ArriveSequence ==
    ASSUME IInv, SequenceInv, NEW r \in Calls, Arrive(r)
    PROVE  SequenceInv'
<1> USE DEF IInv
<1>1. PICK b \in Clients, k \in Keys : \E n \in 0 .. counter[b] :
        /\ Becomes(r, Begun(b, k, n))
        /\ disturbed' = IF Counting(b) = {} /\ n = counter[b]
                        THEN disturbed ELSE disturbed \cup {b}
  BY DEF Arrive, Begun
<1>2. PICK n \in 0 .. counter[b] :
        /\ Becomes(r, Begun(b, k, n))
        /\ disturbed' = IF Counting(b) = {} /\ n = counter[b]
                        THEN disturbed ELSE disturbed \cup {b}
  BY <1>1
<1> DEFINE d == Begun(b, k, n)
<1>3. d \in Call /\ d.stage = "counting" /\ d.client = b /\ d.seen = n
  BY BegunType
<1>4. /\ call'[r] = d /\ \A s \in Calls \ {r} : call'[s] = call[s]
  BY <1>2, <1>3, Moved
<1> HIDE DEF d
<1>5. UNCHANGED <<counter, admitted>> /\ call[r].stage = "idle"
  BY DEF Arrive, Idle
<1> SUFFICES ASSUME NEW c \in Clients \ disturbed'
             PROVE  /\ admitted'[c] <= counter'[c] /\ admitted'[c] <= MaxRequests
                    /\ \A s \in Counting(c)' : call'[s].seen = counter'[c] /\ Counting(c)' = {s}
  BY DEF SequenceInv
<1>6. c \notin disturbed
  BY <1>2
<1>7. CASE c = b
  <2>1. Counting(c) = {} /\ n = counter[c]
    BY <1>2, <1>7
  <2>2. \A s \in Counting(c)' : s = r
    BY <1>4, <2>1 DEF Counting
  <2>3. \A s \in Counting(c)' : call'[s].seen = counter'[c] /\ Counting(c)' = {s}
    BY <1>3, <1>4, <1>5, <2>1, <2>2
  <2> QED BY <1>5, <1>6, <2>3 DEF SequenceInv
<1>8. CASE c # b
  <2>1. Counting(c)' = Counting(c) /\ \A s \in Counting(c) : call'[s] = call[s]
    BY <1>3, <1>4, <1>5, <1>8 DEF Counting
  <2> QED BY <1>5, <1>6, <2>1 DEF SequenceInv
<1> QED BY <1>7, <1>8

LEMMA ElsewhereSequence ==
    ASSUME IInv, SequenceInv, NEW r \in Calls, Elsewhere(r)
    PROVE  SequenceInv'
<1> USE DEF IInv
<1>1. PICK d \in Call : Becomes(r, d) /\ d.stage # "counting"
  BY CallLeaves DEF Leaves, Elsewhere
<1>2. /\ call'[r] = d /\ \A s \in Calls \ {r} : call'[s] = call[s]
  BY <1>1, Moved
<1>3. UNCHANGED <<counter, admitted, disturbed>> /\ call[r].stage # "counting"
  BY ElsewhereCounts DEF history
<1>4. ASSUME NEW c \in Clients
      PROVE  Counting(c)' = Counting(c) /\ \A s \in Counting(c) : call'[s] = call[s]
  BY <1>1, <1>2, <1>3 DEF Counting
<1> QED BY <1>3, <1>4 DEF SequenceInv

LEMMA TickSequence ==
    ASSUME IInv, SequenceInv, Tick
    PROVE  SequenceInv'
<1> USE DEF IInv
<1> DEFINE rollover == second + 1 = Window
<1>1. ASSUME NEW r \in Calls
      PROVE  /\ call'[r].stage = call[r].stage /\ call'[r].client = call[r].client
             /\ call'[r].seen = call[r].seen
             /\ call[r].stage = "counting" => call'[r].past = (call[r].past \/ rollover)
  <2>1. call[r] \in Call /\ Young(call[r]) /\ (Waiting(call[r]) => call[r].waited < Timeout)
    BY DEF TypeOK, AgeInv, Tick
  <2>2. rollover \in BOOLEAN /\ call'[r] = Later(call[r], rollover)
    BY DEF Tick
  <2> HIDE DEF rollover
  <2> QED BY <2>1, <2>2, LaterType
<1>2. CASE rollover
  <2>1. \A c \in Clients : counter'[c] = 0 /\ admitted'[c] = 0
    BY <1>2 DEF Tick
  <2>2. \A c \in Clients : Counting(c)' = {}
    BY <1>1, <1>2 DEF Counting
  <2> QED BY <2>1, <2>2, Numbers DEF SequenceInv
<1>3. CASE ~rollover
  <2>1. UNCHANGED <<counter, admitted, disturbed>>
    BY <1>3 DEF Tick, history
  <2>2. \A c \in Clients : Counting(c)' = Counting(c)
    BY <1>1, <1>3 DEF Counting, TypeOK, Call
  <2>3. \A c \in Clients : \A s \in Counting(c) : call'[s].seen = call[s].seen
    BY <1>1 DEF Counting
  <2> QED BY <2>1, <2>2, <2>3 DEF SequenceInv
<1> QED BY <1>2, <1>3

LEMMA SequenceStep == IInv /\ SequenceInv /\ [Next]_vars => SequenceInv'
<1> SUFFICES ASSUME IInv, SequenceInv, [Next]_vars PROVE SequenceInv'
  OBVIOUS
<1>1. ASSUME NEW r \in Calls, Arrive(r) \/ Decide(r) \/ Elsewhere(r) PROVE SequenceInv'
  BY <1>1, ArriveSequence, DecideSequence, ElsewhereSequence
<1>2. CASE Tick
  BY <1>2, TickSequence
<1>3. CASE (\E k \in Keys : Evict(k)) \/ UNCHANGED vars
  <2>1. UNCHANGED <<counter, call, admitted, disturbed>>
    BY <1>3 DEF Evict, vars, history
  <2> QED BY <2>1 DEF SequenceInv, Counting
<1> QED BY <1>1, <1>2, <1>3 DEF Next, Elsewhere

(* api/src/rate-limit.ts: of a client whose requests are counted one after   *)
(* the other by a store that neither fails nor lags, no more than MaxRequests *)
(* get through in a window.                                                  *)
THEOREM LimitKept == Spec => []LimitExact
<1>1. SequenceInv => LimitExact
  BY DEF SequenceInv, LimitExact
<1> QED BY <1>1, InvInit, InvStep, SequenceStep, PTL DEF Spec

(* Every reachable state has its type.                                       *)
THEOREM TypeCorrect == Spec => []TypeOK
BY InvInit, InvStep, PTL DEF Spec, IInv
=============================================================================
