-------------------------- MODULE MemoryQueue_proofs --------------------------
(***************************************************************************)
(* Theorems about the in-process queue, for any jobs, consumers, capacity  *)
(* and number of attempts: a job is in one place at a time, what is lost   *)
(* is counted, and nothing that waits is overtaken.                        *)
(***************************************************************************)
EXTENDS MemoryQueue, FiniteSetTheorems, SequenceTheorems, TLAPS

-----------------------------------------------------------------------------
(* A function on 1 .. n is a sequence.                                     *)
LEMMA Listed ==
    ASSUME NEW S, NEW n \in Nat, NEW s \in [1 .. n -> S]
    PROVE  s \in Seq(S)
BY SeqDef, Zenon

(* The positions of a set in their order.                                  *)

Below(S, i) == {j \in S : j < i}

LEMMA BelowGrows ==
    ASSUME NEW S \in SUBSET Int, IsFiniteSet(S), NEW i \in S, NEW j \in S, i < j
    PROVE  Cardinality(Below(S, i)) < Cardinality(Below(S, j))
<1>1. /\ Below(S, i) \cup {i} \subseteq Below(S, j) /\ i \notin Below(S, i)
      /\ Below(S, i) \subseteq S /\ Below(S, j) \subseteq S
  <2>1. i \in Int /\ j \in Int /\ ~(i < i)
    OBVIOUS
  <2>2. ASSUME NEW k \in S, k < i PROVE k < j
    <3>1. k \in Int
      OBVIOUS
    <3> QED BY <2>1, <2>2, <3>1
  <2> QED BY <2>1, <2>2 DEF Below
<1>2. /\ IsFiniteSet(Below(S, i)) /\ IsFiniteSet(Below(S, j))
      /\ Cardinality(Below(S, i)) \in Nat /\ Cardinality(Below(S, j)) \in Nat
  BY <1>1, FS_Subset, FS_CardinalityType
<1>3. Cardinality(Below(S, i) \cup {i}) = Cardinality(Below(S, i)) + 1
  BY <1>1, <1>2, FS_AddElement
<1>4. Cardinality(Below(S, i) \cup {i}) <= Cardinality(Below(S, j))
  BY <1>1, <1>2, FS_Subset
<1> QED BY <1>2, <1>3, <1>4

LEMMA NthFacts ==
    ASSUME NEW S \in SUBSET Int, IsFiniteSet(S)
    PROVE  /\ \A k \in 1 .. Cardinality(S) : Nth(S, k) \in S
           /\ \A k, l \in 1 .. Cardinality(S) : Nth(S, k) = Nth(S, l) => k = l
<1> DEFINE n == Cardinality(S)
           T == 0 .. n - 1
           rank == [i \in S |-> Cardinality(Below(S, i))]
<1>1. n \in Nat
  BY FS_CardinalityType
<1>2. IsFiniteSet(T) /\ Cardinality(T) = n
  BY <1>1, FS_Interval
<1>3. rank \in [S -> T]
  <2>1. ASSUME NEW i \in S PROVE Cardinality(Below(S, i)) \in T
    <3>1. Below(S, i) \in SUBSET S /\ Below(S, i) # S
      BY DEF Below
    <3>2. /\ Cardinality(Below(S, i)) \in Nat /\ Cardinality(Below(S, i)) <= n
          /\ Cardinality(Below(S, i)) # n
      BY <3>1, FS_Subset, FS_CardinalityType
    <3> QED BY <1>1, <3>2
  <2> QED BY <2>1
<1>4. ASSUME NEW i \in S, NEW j \in S, i # j PROVE rank[i] # rank[j]
  <2>1. Cardinality(Below(S, i)) \in T /\ Cardinality(Below(S, j)) \in T
    BY <1>3
  <2>2. CASE i < j
    BY <1>1, <2>1, <2>2, BelowGrows
  <2>3. CASE j < i
    BY <1>1, <2>1, <2>3, BelowGrows
  <2> QED BY <1>4, <2>2, <2>3
<1>5. rank \in Injection(S, T)
  BY <1>3, <1>4 DEF Injection, IsInjective
<1>6. rank \in Surjection(S, T)
  BY <1>2, <1>5, FS_Injection
<1>7. ASSUME NEW k \in 1 .. n
      PROVE  Nth(S, k) \in S /\ Cardinality(Below(S, Nth(S, k))) = k - 1
  <2>1. k - 1 \in T
    BY <1>1, <1>7
  <2>2. \E i \in S : Cardinality({j \in S : j < i}) = k - 1
    BY <1>6, <2>1 DEF Surjection, Below
  <2> QED BY <2>2 DEF Nth, Below
<1>8. ASSUME NEW k \in 1 .. n, NEW l \in 1 .. n, Nth(S, k) = Nth(S, l) PROVE k = l
  <2>1. k - 1 = l - 1
    BY <1>7, <1>8, Zenon
  <2> QED BY <1>1, <2>1
<1> QED BY <1>7, <1>8

-----------------------------------------------------------------------------
(* What is in a sequence of entries.                                       *)

\* No job occurs twice.
Distinct(s) == \A i, k \in DOMAIN s : s[i].job = s[k].job => i = k

LEMMA SeqFacts ==
    ASSUME NEW s \in Seq(Entry)
    PROVE  /\ DOMAIN s = 1 .. Len(s) /\ Len(s) \in Nat
           /\ \A i \in 1 .. Len(s) : s[i] \in Entry
BY LenProperties, ElementOfSeq

LEMMA Splitting ==
    ASSUME NEW s \in Seq(Entry), NEW n \in 0 .. Len(s), NEW head, NEW tail,
           head = SubSeq(s, 1, n), tail = SubSeq(s, n + 1, Len(s))
    PROVE  /\ head \in Seq(Entry) /\ tail \in Seq(Entry)
           /\ Len(head) = n /\ Len(tail) = Len(s) - n
           /\ \A i \in 1 .. n : head[i] = s[i]
           /\ \A i \in 1 .. Len(s) - n : tail[i] = s[n + i]
<1>1. Len(s) \in Nat /\ \A i \in 1 .. Len(s) : s[i] \in Entry
  BY SeqFacts
<1>2. /\ head \in Seq(Entry) /\ Len(head) = n
      /\ \A i \in 1 .. n : head[i] = s[i]
  <2>1. \A i \in 1 .. n : s[i] \in Entry
    BY <1>1
  <2>2. /\ SubSeq(s, 1, n) \in Seq(Entry)
        /\ Len(SubSeq(s, 1, n)) = IF 1 <= n THEN n - 1 + 1 ELSE 0
        /\ \A i \in 1 .. n - 1 + 1 : SubSeq(s, 1, n)[i] = s[1 + i - 1]
    BY <1>1, <2>1, SubSeqProperties
  <2> QED BY <1>1, <2>2
<1>3. /\ tail \in Seq(Entry) /\ Len(tail) = Len(s) - n
      /\ \A i \in 1 .. Len(s) - n : tail[i] = s[n + i]
  <2>1. \A i \in n + 1 .. Len(s) : s[i] \in Entry
    BY <1>1
  <2>2. /\ SubSeq(s, n + 1, Len(s)) \in Seq(Entry)
        /\ Len(SubSeq(s, n + 1, Len(s))) = IF n + 1 <= Len(s) THEN Len(s) - (n + 1) + 1 ELSE 0
        /\ \A i \in 1 .. Len(s) - (n + 1) + 1 : SubSeq(s, n + 1, Len(s))[i] = s[(n + 1) + i - 1]
    BY <1>1, <2>1, SubSeqProperties
  <2> QED BY <1>1, <2>2
<1> QED BY <1>2, <1>3

LEMMA SplitJobs ==
    ASSUME NEW s \in Seq(Entry), Distinct(s), NEW n \in 0 .. Len(s)
    PROVE  LET head == SubSeq(s, 1, n)
               tail == SubSeq(s, n + 1, Len(s))
           IN  /\ Distinct(head) /\ Distinct(tail)
               /\ Waiting(head) \cap Waiting(tail) = {}
               /\ Waiting(head) \cup Waiting(tail) = Waiting(s)
<1> DEFINE head == SubSeq(s, 1, n)
           tail == SubSeq(s, n + 1, Len(s))
<1>1. /\ head \in Seq(Entry) /\ tail \in Seq(Entry)
      /\ Len(head) = n /\ Len(tail) = Len(s) - n
      /\ \A i \in 1 .. n : head[i] = s[i]
      /\ \A i \in 1 .. Len(s) - n : tail[i] = s[n + i]
  BY Splitting
<1> HIDE DEF head, tail
<1>2. /\ DOMAIN head = 1 .. n /\ DOMAIN tail = 1 .. Len(s) - n /\ DOMAIN s = 1 .. Len(s)
      /\ Len(s) \in Nat
  BY <1>1, SeqFacts
<1>0. n \in Nat /\ n <= Len(s)
  BY <1>2
<1>a. ASSUME NEW i \in 1 .. n PROVE i \in 1 .. Len(s) /\ head[i] = s[i]
  <2>1. i \in 1 .. Len(s)
    BY <1>0, <1>2, <1>a
  <2> QED BY <1>1, <2>1
<1>b. ASSUME NEW i \in 1 .. Len(s) - n
      PROVE  n + i \in 1 .. Len(s) /\ tail[i] = s[n + i]
  <2>1. n + i \in 1 .. Len(s)
    <3> DEFINE l == Len(s)
    <3>1. l \in Nat /\ i \in 1 .. l - n
      BY <1>2, <1>b
    <3> HIDE DEF l
    <3>2. n + i \in 1 .. l
      BY <1>0, <3>1
    <3> QED BY <3>2 DEF l
  <2> QED BY <1>1, <2>1
<1>3. Distinct(head)
  BY <1>2, <1>a DEF Distinct
<1>4. Distinct(tail)
  <2>1. ASSUME NEW i \in 1 .. Len(s) - n, NEW k \in 1 .. Len(s) - n,
               tail[i].job = tail[k].job
        PROVE  i = k
    <3>1. s[n + i].job = s[n + k].job /\ n + i \in 1 .. Len(s) /\ n + k \in 1 .. Len(s)
      BY <1>b, <2>1
    <3>2. n + i = n + k
      BY <1>2, <3>1 DEF Distinct
    <3> QED BY <3>2
  <2> QED BY <1>2, <2>1 DEF Distinct
<1>5. ASSUME NEW i \in 1 .. n, NEW k \in 1 .. Len(s) - n PROVE head[i].job # tail[k].job
  <2>1. /\ n + k \in 1 .. Len(s) /\ tail[k] = s[n + k]
        /\ i \in 1 .. Len(s) /\ head[i] = s[i]
    BY <1>a, <1>b
  <2>2. i # n + k
    BY <1>0
  <2> QED BY <1>2, <2>1, <2>2 DEF Distinct
<1>6. Waiting(head) \cap Waiting(tail) = {}
  BY <1>2, <1>5 DEF Waiting
<1>7. ASSUME NEW j PROVE j \in Waiting(head) \cup Waiting(tail) <=> j \in Waiting(s)
  <2>1. ASSUME j \in Waiting(head) PROVE j \in Waiting(s)
    <3>1. PICK i \in 1 .. n : j = head[i].job
      BY <1>2, <2>1 DEF Waiting
    <3>2. i \in 1 .. Len(s) /\ j = s[i].job
      BY <1>a, <3>1
    <3> QED BY <1>2, <3>2 DEF Waiting
  <2>2. ASSUME j \in Waiting(tail) PROVE j \in Waiting(s)
    <3>1. PICK i \in 1 .. Len(s) - n : j = tail[i].job
      BY <1>2, <2>2 DEF Waiting
    <3>2. n + i \in 1 .. Len(s) /\ j = s[n + i].job
      BY <1>b, <3>1
    <3> QED BY <1>2, <3>2 DEF Waiting
  <2>3. ASSUME j \in Waiting(s) PROVE j \in Waiting(head) \cup Waiting(tail)
    <3>1. PICK i \in 1 .. Len(s) : j = s[i].job
      BY <1>2, <2>3 DEF Waiting
    <3>2. CASE i <= n
      <4>1. i \in 1 .. n
        BY <1>0, <1>2, <3>2
      <4> QED BY <1>2, <1>a, <3>1, <4>1 DEF Waiting
    <3>3. CASE i > n
      <4>0. i - n \in 1 .. Len(s) - n /\ n + (i - n) = i
        BY <1>0, <1>2, <3>3
      <4>1. i - n \in 1 .. Len(s) - n /\ tail[i - n] = s[i]
        BY <1>b, <4>0
      <4> QED BY <1>2, <3>1, <4>1 DEF Waiting
    <3> QED BY <1>2, <3>2, <3>3
  <2> QED BY <2>1, <2>2, <2>3
<1> QED BY <1>3, <1>4, <1>6, <1>7 DEF head, tail

LEMMA JoinJobs ==
    ASSUME NEW s \in Seq(Entry), NEW t \in Seq(Entry), Distinct(s), Distinct(t),
           Waiting(s) \cap Waiting(t) = {}
    PROVE  /\ s \o t \in Seq(Entry) /\ Len(s \o t) = Len(s) + Len(t)
           /\ Distinct(s \o t)
           /\ Waiting(s \o t) = Waiting(s) \cup Waiting(t)
<1> DEFINE u == s \o t
<1>1. /\ u \in Seq(Entry) /\ Len(u) = Len(s) + Len(t)
      /\ \A i \in 1 .. Len(s) + Len(t) : u[i] = IF i <= Len(s) THEN s[i] ELSE t[i - Len(s)]
  BY ConcatProperties
<1> HIDE DEF u
<1>2. /\ Len(s) \in Nat /\ Len(t) \in Nat
      /\ DOMAIN s = 1 .. Len(s) /\ DOMAIN t = 1 .. Len(t)
      /\ DOMAIN u = 1 .. Len(s) + Len(t)
  BY <1>1, SeqFacts
<1>3. ASSUME NEW i \in DOMAIN s, NEW k \in DOMAIN t PROVE s[i].job # t[k].job
  BY DEF Waiting
<1>4. ASSUME NEW i \in DOMAIN u
      PROVE  \/ i \in DOMAIN s /\ u[i] = s[i]
             \/ i - Len(s) \in DOMAIN t /\ u[i] = t[i - Len(s)]
  BY <1>1, <1>2
<1>5. ASSUME NEW i \in DOMAIN u, NEW k \in DOMAIN u, u[i].job = u[k].job PROVE i = k
  <2>1. CASE i \in DOMAIN s /\ u[i] = s[i]
    <3>1. k \in DOMAIN s /\ u[k] = s[k]
      BY <1>3, <1>4, <1>5, <2>1
    <3> QED BY <1>5, <2>1, <3>1 DEF Distinct
  <2>2. CASE i - Len(s) \in DOMAIN t /\ u[i] = t[i - Len(s)]
    <3>1. k - Len(s) \in DOMAIN t /\ u[k] = t[k - Len(s)]
      BY <1>3, <1>4, <1>5, <2>2
    <3>2. i - Len(s) = k - Len(s)
      BY <1>5, <2>2, <3>1 DEF Distinct
    <3> QED BY <1>2, <3>2
  <2> QED BY <1>4, <2>1, <2>2
<1>6. ASSUME NEW j PROVE j \in Waiting(u) <=> j \in Waiting(s) \cup Waiting(t)
  <2>1. ASSUME j \in Waiting(u) PROVE j \in Waiting(s) \cup Waiting(t)
    <3>1. PICK i \in DOMAIN u : j = u[i].job
      BY <2>1 DEF Waiting
    <3> QED BY <1>4, <3>1 DEF Waiting
  <2>2. ASSUME j \in Waiting(s) PROVE j \in Waiting(u)
    <3>1. PICK i \in DOMAIN s : j = s[i].job
      BY <2>2 DEF Waiting
    <3>2. i \in DOMAIN u /\ u[i] = s[i]
      BY <1>1, <1>2
    <3> QED BY <3>1, <3>2 DEF Waiting
  <2>3. ASSUME j \in Waiting(t) PROVE j \in Waiting(u)
    <3>1. PICK i \in DOMAIN t : j = t[i].job
      BY <2>3 DEF Waiting
    <3>2. Len(s) + i \in DOMAIN u /\ u[Len(s) + i] = t[i]
      BY <1>1, <1>2
    <3> QED BY <3>1, <3>2 DEF Waiting
  <2> QED BY <2>1, <2>2, <2>3
<1> QED BY <1>1, <1>5, <1>6 DEF Distinct, u

-----------------------------------------------------------------------------
(* The types of the queue: its length, and a result for each entry of a    *)
(* batch.                                                                  *)

Outcomes == {"working", "ok", "failed"}
Call == [batch : Seq(Entry), result : Seq(Outcomes), limit : Nat, budget : Nat]

QueueInv ==
    /\ queue \in Seq(Entry) /\ Len(queue) <= Capacity
    /\ drain \in [Consumers -> Call]
    /\ \A c \in Consumers : /\ Len(drain[c].result) = Len(drain[c].batch)
                            /\ Len(drain[c].batch) <= drain[c].limit

LEMMA QueueInvImplies == QueueInv => QueueTypeOK
<1> SUFFICES ASSUME QueueInv PROVE QueueTypeOK
  OBVIOUS
<1>1. ASSUME NEW c \in Consumers
      PROVE  /\ drain[c].batch \in Seq(Entry)
             /\ drain[c].result \in [DOMAIN drain[c].batch -> Outcomes]
             /\ Len(drain[c].batch) <= drain[c].limit
             /\ drain[c].budget \in Nat
  <2>1. /\ drain[c].batch \in Seq(Entry) /\ drain[c].result \in Seq(Outcomes)
        /\ drain[c].budget \in Nat
    BY DEF QueueInv, Call
  <2>2. /\ drain[c].result \in [1 .. Len(drain[c].result) -> Outcomes]
        /\ DOMAIN drain[c].batch = 1 .. Len(drain[c].batch)
    BY <2>1, LenProperties
  <2>3. Len(drain[c].result) = Len(drain[c].batch) /\ Len(drain[c].batch) <= drain[c].limit
    BY DEF QueueInv
  <2> QED BY <2>1, <2>2, <2>3
<1> QED BY <1>1 DEF QueueInv, QueueTypeOK, Outcomes

LEMMA IdleType == Idle \in Call /\ Len(Idle.result) = 0 /\ Len(Idle.batch) = 0 /\ Idle.limit = 0
BY DEF Idle, Call

LEMMA CallFacts ==
    ASSUME QueueInv, NEW c \in Consumers
    PROVE  /\ drain[c] \in Call
           /\ drain[c].batch \in Seq(Entry) /\ drain[c].result \in Seq(Outcomes)
           /\ drain[c].limit \in Nat /\ drain[c].budget \in Nat
           /\ Len(drain[c].batch) \in Nat
           /\ DOMAIN drain[c].batch = 1 .. Len(drain[c].batch)
           /\ DOMAIN drain[c].result = 1 .. Len(drain[c].batch)
           /\ Len(drain[c].result) = Len(drain[c].batch)
           /\ \A i \in DOMAIN drain[c].batch : drain[c].batch[i] \in Entry
<1>1. /\ drain[c] \in Call
      /\ drain[c].batch \in Seq(Entry) /\ drain[c].result \in Seq(Outcomes)
      /\ drain[c].limit \in Nat /\ drain[c].budget \in Nat
      /\ Len(drain[c].result) = Len(drain[c].batch)
  BY DEF QueueInv, Call
<1>2. DOMAIN drain[c].result = 1 .. Len(drain[c].result)
  BY <1>1, LenProperties
<1> QED BY <1>1, <1>2, SeqFacts

LEMMA QueueInitType == QueueInit => QueueInv
<1> SUFFICES ASSUME QueueInit PROVE QueueInv
  OBVIOUS
<1>1. queue = <<>> /\ drain = [c \in Consumers |-> Idle]
  BY DEF QueueInit
<1>2. queue \in Seq(Entry) /\ Len(queue) = 0 /\ 0 <= Capacity
  BY <1>1, QueueAssumption
<1> QED BY <1>1, <1>2, IdleType DEF QueueInv

LEMMA RoomFacts == QueueInv => Room \in Nat /\ Room = Capacity - Len(queue) /\ Len(queue) \in Nat
BY SeqFacts, QueueAssumption DEF QueueInv, Room

\* What fits of jobs that are sent, as entries.
Sent(jobs, n) == [i \in 1 .. n |-> [job |-> jobs[i], attempt |-> 1]]

LEMMA SentType ==
    ASSUME NEW jobs \in Seq(Jobs), NEW n \in 0 .. Len(jobs)
    PROVE  /\ Sent(jobs, n) \in Seq(Entry) /\ Len(Sent(jobs, n)) = n
           /\ DOMAIN Sent(jobs, n) = 1 .. n
           /\ \A i \in 1 .. n : Sent(jobs, n)[i].job = jobs[i] /\ jobs[i] \in Jobs
<1>1. Len(jobs) \in Nat /\ \A i \in 1 .. Len(jobs) : jobs[i] \in Jobs
  BY LenProperties, ElementOfSeq
<1>2. n \in Nat
  BY <1>1
<1>3. ASSUME NEW i \in 1 .. n
      PROVE  jobs[i] \in Jobs /\ [job |-> jobs[i], attempt |-> 1] \in Entry
  <2>1. jobs[i] \in Jobs
    BY <1>1, <1>2
  <2> QED BY <2>1, QueueAssumption DEF Entry
<1>4. Sent(jobs, n) \in [1 .. n -> Entry]
  BY <1>3 DEF Sent
<1>5. Sent(jobs, n) \in Seq(Entry)
  BY <1>2, <1>4, Listed
<1>6. Len(Sent(jobs, n)) = n
  BY <1>2, <1>4, <1>5, LenProperties
<1> QED BY <1>3, <1>4, <1>5, <1>6 DEF Sent

LEMMA AppendedType ==
    ASSUME QueueInv, NEW jobs \in Seq(Jobs)
    PROVE  /\ Appended(jobs) \in Seq(Entry) /\ Len(Appended(jobs)) <= Capacity
           /\ Smaller(Len(jobs), Room) \in 0 .. Len(jobs)
           /\ Appended(jobs) = queue \o Sent(jobs, Smaller(Len(jobs), Room))
<1> DEFINE n == Smaller(Len(jobs), Room)
<1>1. Len(jobs) \in Nat
  BY LenProperties
<1>2. Room \in Nat /\ Room = Capacity - Len(queue) /\ Len(queue) \in Nat
  BY RoomFacts
<1>3. n \in 0 .. Len(jobs) /\ n <= Room
  BY <1>1, <1>2 DEF Smaller
<1>4. Appended(jobs) = queue \o Sent(jobs, n)
  BY DEF Appended, Sent
<1>5. Sent(jobs, n) \in Seq(Entry) /\ Len(Sent(jobs, n)) = n
  BY <1>3, SentType
<1>6. queue \in Seq(Entry)
  BY DEF QueueInv
<1>7. Appended(jobs) \in Seq(Entry) /\ Len(Appended(jobs)) = Len(queue) + n
  BY <1>4, <1>5, <1>6, ConcatProperties
<1> HIDE DEF n
<1>8. Len(Appended(jobs)) <= Capacity
  BY <1>1, <1>2, <1>3, <1>7, QueueAssumption
<1> QED BY <1>3, <1>4, <1>7, <1>8 DEF n

LEMMA TakeBatchType ==
    ASSUME QueueInv, NEW c \in Consumers, NEW waiting \in Seq(Entry), Len(waiting) <= Capacity,
           NEW limit \in Nat, NEW budget \in Nat, TakeBatch(c, waiting, limit, budget)
    PROVE  /\ QueueInv'
           /\ \A d \in Consumers \ {c} : drain'[d] = drain[d]
           /\ \E n \in 0 .. Len(waiting) :
                 /\ queue' = SubSeq(waiting, n + 1, Len(waiting))
                 /\ drain'[c].batch = SubSeq(waiting, 1, n)
<1> DEFINE n == Smaller(Len(waiting), Smaller(limit, budget))
           head == SubSeq(waiting, 1, n)
           call == IF n = 0 THEN Idle
                   ELSE [ batch  |-> head,
                          result |-> [i \in 1 .. n |-> "working"],
                          limit  |-> limit,
                          budget |-> budget - n ]
<1>1. queue' = SubSeq(waiting, n + 1, Len(waiting)) /\ drain' = [drain EXCEPT ![c] = call]
  BY Zenon DEF TakeBatch
<1>2. Len(waiting) \in Nat
  BY SeqFacts
<1>3. n \in 0 .. Len(waiting) /\ n \in Nat /\ n <= limit /\ n <= budget
  <2>1. /\ Smaller(limit, budget) \in Nat /\ Smaller(limit, budget) <= limit
        /\ Smaller(limit, budget) <= budget
    BY DEF Smaller
  <2>2. /\ n \in {Len(waiting), Smaller(limit, budget)} /\ n <= Len(waiting)
        /\ n <= Smaller(limit, budget)
    <3> DEFINE l == Len(waiting)
               m == Smaller(limit, budget)
    <3>1. l \in Nat /\ m \in Nat
      BY <1>2, <2>1
    <3> HIDE DEF l, m
    <3>2. Smaller(l, m) \in {l, m} /\ Smaller(l, m) <= l /\ Smaller(l, m) <= m
      BY <3>1 DEF Smaller
    <3> QED BY <3>2 DEF l, m
  <2> HIDE DEF n
  <2> QED BY <1>2, <2>1, <2>2
<1>4. /\ head \in Seq(Entry) /\ Len(head) = n
      /\ queue' \in Seq(Entry) /\ Len(queue') = Len(waiting) - n
  BY <1>1, <1>3, Splitting
<1>5. Len(queue') <= Capacity
  <2> HIDE DEF n
  <2> QED BY <1>2, <1>3, <1>4, QueueAssumption
<1>6. call \in Call /\ Len(call.result) = Len(call.batch) /\ Len(call.batch) <= call.limit
  <2>1. CASE n = 0
    BY <2>1, IdleType
  <2>2. CASE n # 0
    <3> DEFINE result == [i \in 1 .. n |-> "working"]
    <3>1. result \in [1 .. n -> Outcomes]
      BY DEF Outcomes
    <3>2. result \in Seq(Outcomes)
      BY <1>3, <3>1, Listed
    <3>3. Len(result) = n
      BY <1>3, <3>1, <3>2, LenProperties
    <3>4. call = [batch |-> head, result |-> result, limit |-> limit, budget |-> budget - n]
      BY <2>2
    <3>5. budget - n \in Nat
      BY <1>3
    <3> HIDE DEF call, head, result, n
    <3> QED BY <1>3, <1>4, <3>2, <3>3, <3>4, <3>5 DEF Call
  <2> QED BY <2>1, <2>2
<1>7. call.batch = head
  <2>1. CASE n = 0
    <3>1. head = <<>>
      BY <1>4, <2>1, EmptySeq
    <3> QED BY <2>1, <3>1 DEF Idle
  <2>2. CASE n # 0
    BY <2>2
  <2> QED BY <2>1, <2>2
<1> HIDE DEF call, head, n
<1>8. drain \in [Consumers -> Call]
  BY DEF QueueInv
<1>9. drain' \in [Consumers -> Call] /\ drain'[c] = call
      /\ \A d \in Consumers \ {c} : drain'[d] = drain[d]
  BY <1>1, <1>6, <1>8
<1>10. QueueInv'
  BY <1>4, <1>5, <1>6, <1>9 DEF QueueInv
<1> QED BY <1>1, <1>3, <1>7, <1>9, <1>10 DEF head

LEMMA SettleType ==
    ASSUME QueueInv, NEW c \in Consumers, NEW i, NEW outcome \in {"ok", "failed"},
           Settle(c, i, outcome)
    PROVE  /\ QueueInv' /\ queue' = queue
           /\ \A d \in Consumers : drain'[d].batch = drain[d].batch
<1> DEFINE call == [drain[c] EXCEPT !.result[i] = outcome]
           result == [drain[c].result EXCEPT ![i] = outcome]
<1>1. /\ i \in DOMAIN drain[c].batch /\ queue' = queue
      /\ drain' = [drain EXCEPT ![c] = call]
  BY DEF Settle
<1>2. /\ drain[c] \in Call /\ drain[c].batch \in Seq(Entry)
      /\ drain[c].result \in Seq(Outcomes)
      /\ i \in 1 .. Len(drain[c].result) /\ Len(drain[c].result) = Len(drain[c].batch)
  BY <1>1, CallFacts
<1>3. result \in Seq(Outcomes) /\ Len(result) = Len(drain[c].result)
  <2>1. outcome \in Outcomes
    BY DEF Outcomes
  <2> QED BY <1>2, <2>1, ExceptSeq
<1>4. call = [drain[c] EXCEPT !.result = result]
  OBVIOUS
<1> HIDE DEF result
<1>5. /\ call \in Call /\ call.batch = drain[c].batch /\ call.result = result
      /\ call.limit = drain[c].limit
  BY <1>2, <1>3, <1>4 DEF Call
<1> HIDE DEF call
<1>6. drain \in [Consumers -> Call] /\ queue \in Seq(Entry) /\ Len(queue) <= Capacity
  BY DEF QueueInv
<1>7. /\ drain' \in [Consumers -> Call] /\ drain'[c] = call
      /\ \A d \in Consumers \ {c} : drain'[d] = drain[d]
  BY <1>1, <1>5, <1>6
<1>8. Len(drain[c].batch) <= drain[c].limit
  BY DEF QueueInv
<1>9. ASSUME NEW d \in Consumers
      PROVE  /\ Len(drain'[d].result) = Len(drain'[d].batch)
             /\ Len(drain'[d].batch) <= drain'[d].limit
             /\ drain'[d].batch = drain[d].batch
  <2>1. CASE d = c
    BY <1>2, <1>3, <1>5, <1>7, <1>8, <2>1
  <2>2. CASE d # c
    BY <1>7, <2>2 DEF QueueInv
  <2> QED BY <2>1, <2>2
<1> QED BY <1>1, <1>6, <1>7, <1>9 DEF QueueInv

\* The failed positions of a batch, and those of them that are tried again.
LEMMA FailedFacts ==
    ASSUME QueueInv, NEW c \in Consumers
    PROVE  /\ With(c, "failed") \subseteq DOMAIN drain[c].batch
           /\ Retryable(c) \subseteq With(c, "failed")
           /\ DOMAIN drain[c].batch \subseteq Int
           /\ IsFiniteSet(DOMAIN drain[c].batch)
           /\ IsFiniteSet(With(c, "failed")) /\ IsFiniteSet(Retryable(c))
           /\ Cardinality(Retryable(c)) \in Nat /\ Cardinality(With(c, "failed")) \in Nat
<1>1. /\ With(c, "failed") \subseteq DOMAIN drain[c].batch
      /\ Retryable(c) \subseteq With(c, "failed")
  BY DEF With, Retryable
<1>2. DOMAIN drain[c].batch = 1 .. Len(drain[c].batch) /\ Len(drain[c].batch) \in Nat
  BY CallFacts
<1>3. IsFiniteSet(DOMAIN drain[c].batch) /\ DOMAIN drain[c].batch \subseteq Int
  <2> DEFINE l == Len(drain[c].batch)
  <2>1. l \in Nat /\ DOMAIN drain[c].batch = 1 .. l
    BY <1>2
  <2> HIDE DEF l
  <2>2. IsFiniteSet(1 .. l) /\ 1 .. l \subseteq Int
    BY <2>1, FS_Interval
  <2> QED BY <2>1, <2>2
<1>4. IsFiniteSet(With(c, "failed")) /\ IsFiniteSet(Retryable(c))
  BY <1>1, <1>3, FS_Subset
<1> QED BY <1>1, <1>3, <1>4, FS_CardinalityType

LEMMA RetryFacts ==
    ASSUME QueueInv, NEW c \in Consumers
    PROVE  LET n == Cardinality(Retryable(c))
           IN  /\ RetriesOf(c) \in Seq(Entry) /\ Len(RetriesOf(c)) = n
               /\ \A k \in 1 .. n : /\ Nth(Retryable(c), k) \in Retryable(c)
                                    /\ RetriesOf(c)[k].job = drain[c].batch[Nth(Retryable(c), k)].job
               /\ \A k, l \in 1 .. n : Nth(Retryable(c), k) = Nth(Retryable(c), l) => k = l
<1> DEFINE S == Retryable(c)
           n == Cardinality(S)
           at(k) == drain[c].batch[Nth(S, k)]
<1>1. S \in SUBSET Int /\ IsFiniteSet(S) /\ n \in Nat /\ S \subseteq DOMAIN drain[c].batch
  BY FailedFacts
<1>2. /\ \A k \in 1 .. n : Nth(S, k) \in S
      /\ \A k, l \in 1 .. n : Nth(S, k) = Nth(S, l) => k = l
  BY <1>1, NthFacts
<1>3. ASSUME NEW k \in 1 .. n
      PROVE  /\ [at(k) EXCEPT !.attempt = @ + 1] \in Entry
             /\ [at(k) EXCEPT !.attempt = @ + 1].job = at(k).job
  <2>1. at(k) \in Entry /\ at(k).attempt < MaxAttempts
    BY <1>1, <1>2, CallFacts DEF Retryable
  <2> HIDE DEF at
  <2> QED BY <2>1, QueueAssumption DEF Entry
<1>4. RetriesOf(c) = [k \in 1 .. n |-> [at(k) EXCEPT !.attempt = @ + 1]]
  BY DEF RetriesOf
<1> HIDE DEF at, n, S
<1>5. RetriesOf(c) \in [1 .. n -> Entry]
  BY <1>3, <1>4
<1>6. RetriesOf(c) \in Seq(Entry)
  <2>1. n \in Nat
    BY <1>1
  <2> QED BY <1>5, <2>1, Listed
<1>7. Len(RetriesOf(c)) = n
  BY <1>1, <1>5, <1>6, LenProperties
<1>8. ASSUME NEW k \in 1 .. n PROVE RetriesOf(c)[k].job = at(k).job
  BY <1>3, <1>4
<1> QED BY <1>2, <1>6, <1>7, <1>8 DEF at, n, S

\* What goes back on the queue.
Back(c) == SubSeq(RetriesOf(c), 1, Smaller(Len(RetriesOf(c)), Room))

LEMMA BackFacts ==
    ASSUME QueueInv, NEW c \in Consumers
    PROVE  LET n == Cardinality(Retryable(c))
               m == Smaller(n, Room)
           IN  /\ m \in 0 .. n /\ m <= Room
               /\ Back(c) \in Seq(Entry) /\ Len(Back(c)) = m /\ DOMAIN Back(c) = 1 .. m
               /\ \A k \in 1 .. m : /\ Nth(Retryable(c), k) \in Retryable(c)
                                    /\ Back(c)[k].job = drain[c].batch[Nth(Retryable(c), k)].job
<1> DEFINE n == Cardinality(Retryable(c))
           m == Smaller(n, Room)
<1>1. /\ RetriesOf(c) \in Seq(Entry) /\ Len(RetriesOf(c)) = n
      /\ \A k \in 1 .. n : /\ Nth(Retryable(c), k) \in Retryable(c)
                           /\ RetriesOf(c)[k].job = drain[c].batch[Nth(Retryable(c), k)].job
  BY RetryFacts
<1>2. n \in Nat /\ Room \in Nat
  BY FailedFacts, RoomFacts
<1> HIDE DEF n
<1>3. m \in 0 .. n /\ m \in Nat /\ m <= Room /\ m <= n
  BY <1>2 DEF Smaller
<1>4. Back(c) = SubSeq(RetriesOf(c), 1, m)
  BY <1>1 DEF Back
<1> HIDE DEF m
<1>5. /\ Back(c) \in Seq(Entry) /\ Len(Back(c)) = m
      /\ \A k \in 1 .. m : Back(c)[k] = RetriesOf(c)[k]
  BY <1>1, <1>3, <1>4, Splitting
<1>6. DOMAIN Back(c) = 1 .. m
  BY <1>5, SeqFacts
<1>7. \A k \in 1 .. m : k \in 1 .. n
  BY <1>2, <1>3
<1> QED BY <1>1, <1>3, <1>5, <1>6, <1>7 DEF m, n

LEMMA RequeuedType ==
    ASSUME QueueInv, NEW c \in Consumers
    PROVE  /\ Requeued(c) = queue \o Back(c)
           /\ Requeued(c) \in Seq(Entry) /\ Len(Requeued(c)) <= Capacity
<1>1. Requeued(c) = queue \o Back(c)
  BY DEF Requeued, Back
<1>2. PICK m \in Nat : m <= Room /\ Back(c) \in Seq(Entry) /\ Len(Back(c)) = m
  <2>1. Cardinality(Retryable(c)) \in Nat
    BY FailedFacts
  <2> QED BY <2>1, BackFacts
<1>3. Room = Capacity - Len(queue) /\ Len(queue) \in Nat /\ queue \in Seq(Entry)
  BY RoomFacts DEF QueueInv
<1>4. Requeued(c) \in Seq(Entry) /\ Len(Requeued(c)) = Len(queue) + m
  BY <1>1, <1>2, <1>3, ConcatProperties
<1>5. Len(Requeued(c)) <= Capacity
  BY <1>2, <1>3, <1>4, QueueAssumption
<1> QED BY <1>1, <1>4, <1>5

LEMMA BookBatchType ==
    ASSUME QueueInv, NEW c \in Consumers, NEW aborted \in BOOLEAN, BookBatch(c, aborted)
    PROVE  /\ QueueInv'
           /\ \A d \in Consumers \ {c} : drain'[d] = drain[d]
           /\ \E n \in 0 .. Len(Requeued(c)) :
                 /\ queue' = SubSeq(Requeued(c), n + 1, Len(Requeued(c)))
                 /\ drain'[c].batch = SubSeq(Requeued(c), 1, n)
<1>1. PICK budget \in Nat : TakeBatch(c, Requeued(c), drain[c].limit, budget)
  <2>1. drain[c].budget \in Nat /\ 0 \in Nat
    BY CallFacts
  <2>2. CASE aborted
    BY <2>1, <2>2 DEF BookBatch
  <2>3. CASE ~aborted
    BY <2>1, <2>3 DEF BookBatch
  <2> QED BY <2>2, <2>3
<1>2. drain[c].limit \in Nat
  BY CallFacts
<1>3. Requeued(c) \in Seq(Entry) /\ Len(Requeued(c)) <= Capacity
  BY RequeuedType
<1> QED BY <1>1, <1>2, <1>3, TakeBatchType

LEMMA CloseType == QueueInv /\ Close => QueueInv'
<1> SUFFICES ASSUME QueueInv, Close PROVE QueueInv'
  OBVIOUS
<1>1. queue' = <<>> /\ drain' = drain
  BY DEF Close
<1>2. queue' \in Seq(Entry) /\ Len(queue') = 0 /\ 0 <= Capacity
  BY <1>1, QueueAssumption
<1> QED BY <1>1, <1>2 DEF QueueInv

-----------------------------------------------------------------------------
(* Where the jobs are.  A job is in one place at a time, those in some     *)
(* place are the ones that were sent and have no outcome, and the counter  *)
(* is the number of those that were lost.                                  *)

Batch(c) == drain[c].batch

Once ==
    /\ Distinct(queue)
    /\ \A c \in Consumers : Distinct(Batch(c)) /\ Waiting(queue) \cap Waiting(Batch(c)) = {}
    /\ \A c, d \in Consumers : c # d => Waiting(Batch(c)) \cap Waiting(Batch(d)) = {}

Somewhere(j) == j \in Waiting(queue) \/ \E c \in Consumers : j \in Waiting(Batch(c))

Tracked == \A j \in Jobs : fate[j] = "sent" <=> Somewhere(j)

Lost == {j \in Jobs : fate[j] = "lost"}

Fate == {"unsent", "sent", "processed", "lost", "cleared"}

JobsInv ==
    /\ QueueInv
    /\ fate \in [Jobs -> Fate]
    /\ closed \in BOOLEAN
    /\ Once
    /\ Tracked
    /\ dropped = Cardinality(Lost)

LEMMA WaitingAreJobs ==
    ASSUME NEW s \in Seq(Entry)
    PROVE  Waiting(s) \subseteq Jobs
BY SeqFacts DEF Waiting, Entry

LEMMA EmptyWaiting == Waiting(<<>>) = {} /\ Distinct(<<>>) /\ <<>> \in Seq(Entry)
BY DEF Waiting, Distinct

LEMMA FiniteJobs ==
    ASSUME NEW S \in SUBSET Jobs
    PROVE  IsFiniteSet(S) /\ Cardinality(S) \in Nat
BY MemoryAssumption, FS_Subset, FS_CardinalityType

\* As many jobs as positions they are at.
LEMMA ImageCount ==
    ASSUME NEW S, IsFiniteSet(S), NEW T, NEW f \in [S -> T],
           \A x, y \in S : f[x] = f[y] => x = y,
           \A t \in T : \E x \in S : f[x] = t
    PROVE  IsFiniteSet(T) /\ Cardinality(T) = Cardinality(S)
<1>1. f \in Bijection(S, T)
  BY DEF Bijection, Injection, Surjection, IsInjective
<1> QED BY <1>1, FS_Bijection DEF ExistsBijection

LEMMA TwoParts ==
    ASSUME NEW S, NEW T, IsFiniteSet(S), IsFiniteSet(T), S \cap T = {}
    PROVE  Cardinality(S \cup T) = Cardinality(S) + Cardinality(T)
<1>1. Cardinality(S) \in Nat /\ Cardinality(T) \in Nat /\ Cardinality(S \cap T) = 0
  BY FS_EmptySet, FS_CardinalityType
<1>2. Cardinality(S \cup T) = Cardinality(S) + Cardinality(T) - Cardinality(S \cap T)
  BY FS_Union, Zenon
<1> QED BY <1>1, <1>2

\* A step that leaves the batches alone.
LEMMA OnceNext ==
    ASSUME Once, \A d \in Consumers : Batch(d)' = Batch(d), Distinct(queue'),
           \A d \in Consumers : Waiting(queue') \cap Waiting(Batch(d)) = {}
    PROVE  Once'
<1>1. ASSUME NEW d \in Consumers
      PROVE  Distinct(Batch(d)') /\ Waiting(queue') \cap Waiting(Batch(d)') = {}
  BY DEF Once
<1>2. ASSUME NEW d \in Consumers, NEW e \in Consumers, d # e
      PROVE  Waiting(Batch(d)') \cap Waiting(Batch(e)') = {}
  BY <1>2 DEF Once
<1> QED BY <1>1, <1>2 DEF Once, Distinct, Waiting

\* A consumer takes the head of what waits.
LEMMA Taking ==
    ASSUME QueueInv, Once, NEW c \in Consumers,
           NEW all \in Seq(Entry), Distinct(all),
           \A d \in Consumers \ {c} : Waiting(all) \cap Waiting(Batch(d)) = {},
           \A d \in Consumers \ {c} : drain'[d] = drain[d],
           NEW n \in 0 .. Len(all),
           queue' = SubSeq(all, n + 1, Len(all)),
           drain'[c].batch = SubSeq(all, 1, n)
    PROVE  /\ Once'
           /\ \A j : Somewhere(j)' <=>
                \/ j \in Waiting(all)
                \/ \E d \in Consumers \ {c} : j \in Waiting(Batch(d))
<1>1. PICK head, tail : /\ head = SubSeq(all, 1, n) /\ tail = SubSeq(all, n + 1, Len(all))
  OBVIOUS
<1>2. queue' = tail /\ Batch(c)' = head /\ \A d \in Consumers \ {c} : Batch(d)' = Batch(d)
  BY <1>1 DEF Batch
<1>3. /\ Distinct(head) /\ Distinct(tail) /\ Waiting(head) \cap Waiting(tail) = {}
      /\ Waiting(head) \cup Waiting(tail) = Waiting(all)
  BY <1>1, SplitJobs
<1>4. ASSUME NEW d \in Consumers
      PROVE  Distinct(Batch(d)') /\ Waiting(queue') \cap Waiting(Batch(d)') = {}
  <2>1. CASE d = c
    BY <1>2, <1>3, <2>1
  <2>2. CASE d # c
    BY <1>2, <1>3, <2>2 DEF Once
  <2> QED BY <2>1, <2>2
<1>5. ASSUME NEW d \in Consumers, NEW e \in Consumers, d # e
      PROVE  Waiting(Batch(d)') \cap Waiting(Batch(e)') = {}
  <2>1. CASE d = c
    BY <1>2, <1>3, <1>5, <2>1
  <2>2. CASE e = c
    BY <1>2, <1>3, <1>5, <2>2
  <2>3. CASE d # c /\ e # c
    BY <1>2, <1>5, <2>3 DEF Once
  <2> QED BY <2>1, <2>2, <2>3
<1>6. Once'
  <2>1. Distinct(queue')
    BY <1>2, <1>3
  <2> QED BY <1>4, <1>5, <2>1 DEF Once, Distinct, Waiting
<1>7. ASSUME NEW j
      PROVE  Somewhere(j)' <=> \/ j \in Waiting(all)
                               \/ \E d \in Consumers \ {c} : j \in Waiting(Batch(d))
  <2>1. Somewhere(j)' <=> \/ j \in Waiting(queue')
                          \/ \E d \in Consumers : j \in Waiting(Batch(d)')
    BY DEF Somewhere, Waiting
  <2>2. (\E d \in Consumers : j \in Waiting(Batch(d)')) <=>
            \/ j \in Waiting(head)
            \/ \E d \in Consumers \ {c} : j \in Waiting(Batch(d))
    BY <1>2
  <2> QED BY <1>2, <1>3, <2>1, <2>2
<1> QED BY <1>6, <1>7

-----------------------------------------------------------------------------
(* The actions.                                                            *)

LEMMA JobsInit == Init => JobsInv
<1> SUFFICES ASSUME Init PROVE JobsInv
  OBVIOUS
<1>1. /\ queue = <<>> /\ drain = [c \in Consumers |-> Idle]
      /\ fate = [j \in Jobs |-> "unsent"] /\ closed = FALSE /\ dropped = 0
  BY DEF Init, QueueInit
<1>2. QueueInv
  BY QueueInitType DEF Init
<1>3. \A c \in Consumers : Batch(c) = <<>>
  BY <1>1 DEF Batch, Idle
<1>4. Once /\ \A j : ~Somewhere(j)
  BY <1>1, <1>3, EmptyWaiting DEF Once, Somewhere
<1>5. Tracked
  BY <1>1, <1>4 DEF Tracked
<1>6. Lost = {} /\ Cardinality({}) = 0
  BY <1>1, FS_EmptySet DEF Lost
<1> QED BY <1>1, <1>2, <1>4, <1>5, <1>6 DEF JobsInv, Fate

\* The jobs of a send, those that fit first.
LEMMA SendKeeps == JobsInv /\ Send => JobsInv'
<1> SUFFICES ASSUME JobsInv, Send PROVE JobsInv'
  OBVIOUS
<1>0. /\ QueueInv /\ Once /\ Tracked /\ fate \in [Jobs -> Fate] /\ dropped = Cardinality(Lost)
      /\ queue \in Seq(Entry)
  BY DEF JobsInv, QueueInv
<1>a. PICK n \in 1 .. Cardinality(Unsent) :
         \E jobs \in {s \in [1 .. n -> Unsent] : \A i, k \in 1 .. n : i # k => s[i] # s[k]} :
            LET fits == Smaller(n, Room)
            IN  /\ SendMany(jobs)
                /\ dropped' = dropped + (n - fits)
                /\ fate' = [j \in Jobs |->
                      IF \E i \in 1 .. fits : jobs[i] = j THEN "sent"
                      ELSE IF \E i \in 1 .. n : jobs[i] = j THEN "lost"
                      ELSE fate[j]]
                /\ UNCHANGED closed
  BY Zenon DEF Send
<1>1. PICK jobs \in {s \in [1 .. n -> Unsent] : \A i, k \in 1 .. n : i # k => s[i] # s[k]} :
         /\ SendMany(jobs)
         /\ dropped' = dropped + (n - Smaller(n, Room))
         /\ fate' = [j \in Jobs |->
               IF \E i \in 1 .. Smaller(n, Room) : jobs[i] = j THEN "sent"
               ELSE IF \E i \in 1 .. n : jobs[i] = j THEN "lost"
               ELSE fate[j]]
         /\ UNCHANGED closed
  BY <1>a, Zenon
<1> DEFINE fits == Smaller(n, Room)
           late == {jobs[i] : i \in fits + 1 .. n}
<1>2. /\ Unsent \subseteq Jobs /\ Cardinality(Unsent) \in Nat /\ n \in Nat
  <2>1. Unsent \subseteq Jobs
    BY DEF Unsent
  <2>2. Cardinality(Unsent) \in Nat
    BY <2>1, FiniteJobs
  <2> QED BY <2>1, <2>2
<1>3. /\ jobs \in [1 .. n -> Unsent] /\ jobs \in [1 .. n -> Jobs]
      /\ \A i, k \in 1 .. n : jobs[i] = jobs[k] => i = k
  BY <1>2
<1>4. jobs \in Seq(Jobs)
  <2>1. n \in Nat /\ jobs \in [1 .. n -> Jobs]
    BY <1>2, <1>3
  <2> QED BY <2>1, Listed
<1>5. Len(jobs) = n
  BY <1>2, <1>3, <1>4, LenProperties
<1>6. /\ fits \in 0 .. n /\ fits \in Nat
      /\ Appended(jobs) \in Seq(Entry) /\ Len(Appended(jobs)) <= Capacity
      /\ Appended(jobs) = queue \o Sent(jobs, fits)
  BY <1>0, <1>2, <1>4, <1>5, AppendedType, SMTT(30)
<1>7. /\ queue' = queue \o Sent(jobs, fits) /\ drain' = drain
  BY <1>1, <1>6 DEF SendMany
<1>8. /\ Sent(jobs, fits) \in Seq(Entry) /\ DOMAIN Sent(jobs, fits) = 1 .. fits
      /\ \A i \in 1 .. fits : Sent(jobs, fits)[i].job = jobs[i]
  BY <1>4, <1>5, <1>6, SentType
<1> HIDE DEF fits
<1>9. ASSUME NEW i \in 1 .. n
      PROVE  jobs[i] \in Jobs /\ fate[jobs[i]] = "unsent" /\ ~Somewhere(jobs[i])
  BY <1>0, <1>3, <1>9 DEF Unsent, Tracked
<1>10. \A i \in 1 .. fits : i \in 1 .. n
  BY <1>2, <1>6
<1>11. \A j : j \in Waiting(Sent(jobs, fits)) <=> \E i \in 1 .. fits : jobs[i] = j
  BY <1>8 DEF Waiting
<1>12. Distinct(Sent(jobs, fits))
  BY <1>3, <1>8, <1>10 DEF Distinct
<1>13. Waiting(queue) \cap Waiting(Sent(jobs, fits)) = {}
  BY <1>9, <1>10, <1>11 DEF Somewhere
<1>14. /\ Distinct(queue')
       /\ Waiting(queue') = Waiting(queue) \cup Waiting(Sent(jobs, fits))
  BY <1>0, <1>7, <1>8, <1>12, <1>13, JoinJobs DEF Once
<1>15. \A c \in Consumers : Batch(c)' = Batch(c)
  BY <1>7 DEF Batch
<1>16. Once'
  <2>1. ASSUME NEW c \in Consumers PROVE Waiting(queue') \cap Waiting(Batch(c)) = {}
    <3>1. Waiting(Sent(jobs, fits)) \cap Waiting(Batch(c)) = {}
      BY <1>9, <1>10, <1>11 DEF Somewhere
    <3> QED BY <1>0, <1>14, <3>1 DEF Once
  <2> QED BY <1>0, <1>14, <1>15, <2>1, OnceNext
<1>17. \A j : Somewhere(j)' <=> Somewhere(j) \/ \E i \in 1 .. fits : jobs[i] = j
  <2>1. ASSUME NEW j
        PROVE  Somewhere(j)' <=> \/ j \in Waiting(queue')
                                 \/ \E c \in Consumers : j \in Waiting(Batch(c))
    BY <1>15 DEF Somewhere, Waiting
  <2> QED BY <1>11, <1>14, <2>1 DEF Somewhere
<1>18. ASSUME NEW j \in Jobs
       PROVE  fate'[j] = IF \E i \in 1 .. fits : jobs[i] = j THEN "sent"
                         ELSE IF \E i \in 1 .. n : jobs[i] = j THEN "lost"
                         ELSE fate[j]
  BY <1>1, <1>18 DEF fits
<1>19. fate' \in [Jobs -> Fate]
  <2>1. fate' = [j \in Jobs |-> fate'[j]]
    BY <1>1
  <2>2. \A j \in Jobs : fate'[j] \in Fate
    BY <1>0, <1>18 DEF Fate
  <2> QED BY <2>1, <2>2
<1>20. Tracked'
  <2>1. ASSUME NEW j \in Jobs PROVE fate'[j] = "sent" <=> Somewhere(j)'
    <3>1. CASE \E i \in 1 .. fits : jobs[i] = j
      BY <1>17, <1>18, <3>1
    <3>2. CASE (~\E i \in 1 .. fits : jobs[i] = j) /\ \E i \in 1 .. n : jobs[i] = j
      BY <1>9, <1>17, <1>18, <3>2
    <3>3. CASE (~\E i \in 1 .. fits : jobs[i] = j) /\ ~\E i \in 1 .. n : jobs[i] = j
      BY <1>0, <1>17, <1>18, <3>3 DEF Tracked
    <3> QED BY <3>1, <3>2, <3>3
  <2> QED BY <2>1 DEF Tracked
<1>21. late \subseteq Jobs /\ late \cap Lost = {} /\ Lost' = Lost \cup late
  <2>1. \A i \in fits + 1 .. n : i \in 1 .. n /\ i \notin 1 .. fits
    BY <1>2, <1>6
  <2>2. late \subseteq Jobs /\ late \cap Lost = {}
    BY <1>9, <2>1 DEF Lost
  <2>3. ASSUME NEW j \in Jobs PROVE fate'[j] = "lost" <=> fate[j] = "lost" \/ j \in late
    <3>1. CASE \E i \in 1 .. fits : jobs[i] = j
      <4>1. PICK i \in 1 .. fits : jobs[i] = j
        BY <3>1
      <4>2. fate[j] = "unsent" /\ j \notin late
        BY <1>3, <1>9, <1>10, <2>1, <4>1
      <4> QED BY <1>18, <3>1, <4>2
    <3>2. CASE (~\E i \in 1 .. fits : jobs[i] = j) /\ \E i \in 1 .. n : jobs[i] = j
      <4>1. PICK i \in 1 .. n : jobs[i] = j
        BY <3>2
      <4>2. i \in fits + 1 .. n
        BY <1>2, <1>6, <3>2, <4>1
      <4> QED BY <1>18, <3>2, <4>1, <4>2
    <3>3. CASE (~\E i \in 1 .. fits : jobs[i] = j) /\ ~\E i \in 1 .. n : jobs[i] = j
      <4>1. j \notin late
        BY <2>1, <3>3
      <4> QED BY <1>18, <3>3, <4>1
    <3> QED BY <3>1, <3>2, <3>3
  <2> HIDE DEF late
  <2>4. Lost' = Lost \cup late
    BY <2>2, <2>3 DEF Lost
  <2> QED BY <2>2, <2>4
<1>22. IsFiniteSet(late) /\ Cardinality(late) = n - fits
  <2> DEFINE S == fits + 1 .. n
             f == [i \in S |-> jobs[i]]
  <2>1. IsFiniteSet(S) /\ Cardinality(S) = n - fits
    BY <1>2, <1>6, FS_Interval
  <2>2. \A i \in S : i \in 1 .. n
    BY <1>2, <1>6
  <2>3. f \in [S -> late] /\ \A t \in late : \E i \in S : f[i] = t
    OBVIOUS
  <2>4. \A i, k \in S : f[i] = f[k] => i = k
    BY <1>3, <2>2
  <2> HIDE DEF S, f, late
  <2>5. IsFiniteSet(late) /\ Cardinality(late) = Cardinality(S)
    BY <2>1, <2>3, <2>4, ImageCount
  <2> QED BY <2>1, <2>5
<1> HIDE DEF late
<1>23. dropped' = Cardinality(Lost')
  <2>1. IsFiniteSet(Lost) /\ Cardinality(Lost) \in Nat
    <3>1. Lost \subseteq Jobs
      BY DEF Lost
    <3> QED BY <3>1, FiniteJobs
  <2>2. Cardinality(Lost') = Cardinality(Lost) + (n - fits)
    BY <1>21, <1>22, <2>1, TwoParts
  <2> QED BY <1>0, <1>1, <2>2 DEF fits
<1>24. QueueInv'
  BY <1>0, <1>6, <1>7 DEF QueueInv
<1> QED BY <1>1, <1>16, <1>19, <1>20, <1>23, <1>24 DEF JobsInv

LEMMA OpenKeeps ==
    ASSUME JobsInv, NEW c \in Consumers, Open(c)
    PROVE  JobsInv'
<1>0. /\ QueueInv /\ Once /\ Tracked /\ queue \in Seq(Entry) /\ Len(queue) <= Capacity
  BY DEF JobsInv, QueueInv
<1>1. PICK limit \in Limits, budget \in Budgets : Consume(c, limit, budget)
  BY DEF Open
<1>2. /\ drain[c] = Idle /\ TakeBatch(c, queue, limit, budget)
      /\ limit \in Nat /\ budget \in Nat
  BY <1>1, MemoryAssumption DEF Consume
<1>3. /\ QueueInv' /\ \A d \in Consumers \ {c} : drain'[d] = drain[d]
      /\ \E n \in 0 .. Len(queue) :
            /\ queue' = SubSeq(queue, n + 1, Len(queue))
            /\ drain'[c].batch = SubSeq(queue, 1, n)
  BY <1>0, <1>2, TakeBatchType
<1>4. PICK n \in 0 .. Len(queue) :
         /\ queue' = SubSeq(queue, n + 1, Len(queue))
         /\ drain'[c].batch = SubSeq(queue, 1, n)
  BY <1>3
<1>5. /\ Once'
      /\ \A j : Somewhere(j)' <=>
           \/ j \in Waiting(queue)
           \/ \E d \in Consumers \ {c} : j \in Waiting(Batch(d))
  <2>1. /\ Distinct(queue)
        /\ \A d \in Consumers \ {c} : Waiting(queue) \cap Waiting(Batch(d)) = {}
    BY <1>0 DEF Once
  <2> QED BY <1>0, <1>3, <1>4, <2>1, Taking
<1>6. Waiting(Batch(c)) = {}
  BY <1>2, EmptyWaiting DEF Batch, Idle
<1>7. \A j : Somewhere(j)' <=> Somewhere(j)
  BY <1>5, <1>6 DEF Somewhere
<1>8. UNCHANGED <<dropped, fate, closed>>
  BY DEF Open
<1> QED BY <1>3, <1>5, <1>7, <1>8 DEF JobsInv, Tracked, Lost

LEMMA StillThere ==
    ASSUME Once, queue' = queue, \A d \in Consumers : drain'[d].batch = drain[d].batch
    PROVE  Once' /\ \A j : Somewhere(j)' <=> Somewhere(j)
<1>1. \A d \in Consumers : Batch(d)' = Batch(d)
  BY DEF Batch
<1>2. Once'
  BY <1>1, OnceNext DEF Once
<1>3. ASSUME NEW j PROVE Somewhere(j)' <=> Somewhere(j)
  BY <1>1 DEF Somewhere, Waiting
<1> QED BY <1>2, <1>3

LEMMA HandleKeeps ==
    ASSUME JobsInv, NEW c \in Consumers, Handle(c)
    PROVE  JobsInv'
<1>1. PICK i \in DOMAIN drain[c].batch, outcome \in {"ok", "failed"} : Settle(c, i, outcome)
  BY DEF Handle
<1>2. QueueInv' /\ Once' /\ \A j : Somewhere(j)' <=> Somewhere(j)
  BY <1>1, SettleType, StillThere DEF JobsInv
<1>3. UNCHANGED <<dropped, fate, closed>>
  BY DEF Handle
<1> QED BY <1>2, <1>3 DEF JobsInv, Tracked, Lost

LEMMA ShutKeeps == JobsInv /\ Shut => JobsInv'
<1> SUFFICES ASSUME JobsInv, Shut PROVE JobsInv'
  OBVIOUS
<1>1. /\ queue' = <<>> /\ drain' = drain /\ closed' = TRUE /\ dropped' = dropped
      /\ fate' = [j \in Jobs |-> IF j \in Waiting(queue) THEN "cleared" ELSE fate[j]]
  BY DEF Shut, Close
<1>2. /\ QueueInv /\ Once /\ Tracked /\ fate \in [Jobs -> Fate] /\ dropped = Cardinality(Lost)
  BY DEF JobsInv
<1>3. QueueInv'
  BY <1>2, CloseType DEF Shut
<1>4. \A d \in Consumers : Batch(d)' = Batch(d)
  BY <1>1 DEF Batch
<1>5. Waiting(queue') = {} /\ Distinct(queue')
  BY <1>1, EmptyWaiting
<1>6. Once'
  BY <1>2, <1>4, <1>5, OnceNext
<1>7. ASSUME NEW j
      PROVE  Somewhere(j)' <=> \E d \in Consumers : j \in Waiting(Batch(d))
  BY <1>4, <1>5 DEF Somewhere, Waiting
<1>8. Tracked'
  <2>1. ASSUME NEW j \in Jobs PROVE fate'[j] = "sent" <=> Somewhere(j)'
    <3>1. CASE j \in Waiting(queue)
      BY <1>1, <1>2, <1>7, <3>1 DEF Once
    <3>2. CASE j \notin Waiting(queue)
      BY <1>1, <1>2, <1>7, <3>2 DEF Tracked, Somewhere
    <3> QED BY <3>1, <3>2
  <2> QED BY <2>1 DEF Tracked
<1>9. Lost' = Lost
  <2>1. ASSUME NEW j \in Jobs PROVE fate'[j] = "lost" <=> fate[j] = "lost"
    BY <1>1, <1>2 DEF Tracked, Somewhere
  <2> QED BY <2>1 DEF Lost
<1>10. fate' \in [Jobs -> Fate]
  BY <1>1, <1>2 DEF Fate
<1> QED BY <1>1, <1>2, <1>3, <1>6, <1>8, <1>9, <1>10 DEF JobsInv

\* The positions of a batch whose jobs go back on the queue.
Again(c) == {Nth(Retryable(c), k) : k \in 1 .. Smaller(Cardinality(Retryable(c)), Room)}

LEMMA AgainFacts ==
    ASSUME QueueInv, NEW c \in Consumers, Distinct(Batch(c))
    PROVE  /\ Again(c) \subseteq Retryable(c) /\ IsFiniteSet(Again(c))
           /\ Cardinality(Again(c)) = Smaller(Cardinality(Retryable(c)), Room)
           /\ Distinct(Back(c))
           /\ \A j : j \in Waiting(Back(c)) <=> \E i \in Again(c) : j = Batch(c)[i].job
<1> DEFINE S == Retryable(c)
           n == Cardinality(S)
           m == Smaller(n, Room)
<1>1. /\ m \in 0 .. n /\ DOMAIN Back(c) = 1 .. m
      /\ \A k \in 1 .. m : /\ Nth(S, k) \in S
                           /\ Back(c)[k].job = Batch(c)[Nth(S, k)].job
  BY BackFacts DEF Batch
<1>2. /\ n \in Nat /\ m \in Nat /\ S \subseteq DOMAIN Batch(c) /\ IsFiniteSet(S)
  BY <1>1, FailedFacts DEF Batch
<1>3. \A k, l \in 1 .. m : Nth(S, k) = Nth(S, l) => k = l
  <2>1. \A k, l \in 1 .. n : Nth(S, k) = Nth(S, l) => k = l
    BY RetryFacts
  <2>2. \A k \in 1 .. m : k \in 1 .. n
    BY <1>1, <1>2
  <2> QED BY <2>1, <2>2
<1>4. Again(c) = {Nth(S, k) : k \in 1 .. m}
  BY DEF Again
<1> HIDE DEF S, n, m
<1>5. Again(c) \subseteq S
  BY <1>1, <1>4
<1>6. IsFiniteSet(Again(c)) /\ Cardinality(Again(c)) = m
  <2> DEFINE f == [k \in 1 .. m |-> Nth(S, k)]
  <2>1. IsFiniteSet(1 .. m) /\ Cardinality(1 .. m) = m
    BY <1>2, FS_Interval
  <2>2. f \in [1 .. m -> Again(c)] /\ \A t \in Again(c) : \E k \in 1 .. m : f[k] = t
    BY <1>4
  <2>3. \A k, l \in 1 .. m : f[k] = f[l] => k = l
    BY <1>3
  <2> HIDE DEF f
  <2>4. IsFiniteSet(Again(c)) /\ Cardinality(Again(c)) = Cardinality(1 .. m)
    BY <2>1, <2>2, <2>3, ImageCount
  <2> QED BY <2>1, <2>4
<1>7. Distinct(Back(c))
  <2>1. ASSUME NEW k \in 1 .. m, NEW l \in 1 .. m, Back(c)[k].job = Back(c)[l].job
        PROVE  k = l
    <3>1. Nth(S, k) = Nth(S, l)
      BY <1>1, <1>2, <2>1 DEF Distinct
    <3> QED BY <1>3, <3>1
  <2> QED BY <1>1, <2>1 DEF Distinct
<1>8. ASSUME NEW j PROVE j \in Waiting(Back(c)) <=> \E i \in Again(c) : j = Batch(c)[i].job
  BY <1>1, <1>4 DEF Waiting
<1> QED BY <1>5, <1>6, <1>7, <1>8 DEF m, n, S

\* The queue once the retries are at its tail.
LEMMA RequeuedJobs ==
    ASSUME QueueInv, Once, NEW c \in Consumers
    PROVE  /\ Back(c) \in Seq(Entry) /\ Requeued(c) = queue \o Back(c)
           /\ Requeued(c) \in Seq(Entry) /\ Distinct(Requeued(c))
           /\ Waiting(Back(c)) \subseteq Waiting(Batch(c))
           /\ Waiting(Requeued(c)) = Waiting(queue) \cup Waiting(Back(c))
<1>1. /\ Distinct(Batch(c)) /\ Distinct(queue) /\ Waiting(queue) \cap Waiting(Batch(c)) = {}
      /\ queue \in Seq(Entry)
  BY DEF Once, QueueInv
<1>2. /\ Again(c) \subseteq Retryable(c) /\ Distinct(Back(c))
      /\ \A j : j \in Waiting(Back(c)) <=> \E i \in Again(c) : j = Batch(c)[i].job
  BY <1>1, AgainFacts
<1>3. Retryable(c) \subseteq DOMAIN Batch(c)
  BY FailedFacts DEF Batch
<1>4. Waiting(Back(c)) \subseteq Waiting(Batch(c))
  BY <1>2, <1>3 DEF Waiting
<1>5. Back(c) \in Seq(Entry) /\ Requeued(c) = queue \o Back(c)
  BY BackFacts, RequeuedType
<1>6. Waiting(queue) \cap Waiting(Back(c)) = {}
  BY <1>1, <1>4
<1> QED BY <1>1, <1>2, <1>4, <1>5, <1>6, JoinJobs

\* What becomes of the job at a position of the batch.
LEMMA BookedFate ==
    ASSUME JobsInv, NEW c \in Consumers, Book(c), NEW i \in DOMAIN Batch(c)
    PROVE  /\ Batch(c)[i].job \in Jobs
           /\ fate'[Batch(c)[i].job] = IF i \notin With(c, "failed") THEN "processed"
                                      ELSE IF i \in Again(c) THEN "sent"
                                      ELSE "lost"
<1> DEFINE B == Batch(c)
           j == B[i].job
<1>0. QueueInv /\ Distinct(B) /\ Waiting(queue) \cap Waiting(B) = {}
  BY DEF JobsInv, Once
<1>1. j \in Jobs /\ i \in 1 .. Len(B)
  BY <1>0, CallFacts DEF Batch, Entry
<1>2. fate'[j] =
          LET p == CHOOSE p \in DOMAIN B : B[p].job = j
              here == \E k \in DOMAIN B : B[k].job = j
          IN  IF ~here THEN fate[j]
              ELSE IF drain[c].result[p] = "ok" THEN "processed"
              ELSE IF \E k \in DOMAIN Requeued(c) : Requeued(c)[k].job = j THEN "sent"
              ELSE "lost"
  BY <1>1 DEF Book, Batch
<1>3. (CHOOSE p \in DOMAIN B : B[p].job = j) = i
  <2>1. \E p \in DOMAIN B : B[p].job = j
    OBVIOUS
  <2>2. ASSUME NEW p \in DOMAIN B, B[p].job = j PROVE p = i
    BY <1>0, <2>2 DEF Distinct
  <2> QED BY <2>1, <2>2
<1>4. drain[c].result[i] \in {"ok", "failed"}
  <2>1. drain[c].result[i] # "working"
    BY DEF Book, BookBatch, BatchSettled, Batch
  <2>2. drain[c].result \in Seq(Outcomes) /\ i \in 1 .. Len(drain[c].result)
    BY <1>0, <1>1, CallFacts DEF Batch
  <2>3. drain[c].result[i] \in Outcomes
    BY <2>2, ElementOfSeq
  <2> QED BY <2>1, <2>3 DEF Outcomes
<1>5. i \in With(c, "failed") <=> drain[c].result[i] = "failed"
  BY DEF With, Batch
<1>6. (\E k \in DOMAIN Requeued(c) : Requeued(c)[k].job = j) <=> i \in Again(c)
  <2>1. (\E k \in DOMAIN Requeued(c) : Requeued(c)[k].job = j) <=> j \in Waiting(Requeued(c))
    BY DEF Waiting
  <2>2. /\ Back(c) \in Seq(Entry) /\ queue \in Seq(Entry) /\ Requeued(c) = queue \o Back(c)
    BY <1>0, BackFacts, RequeuedType DEF QueueInv
  <2>3. /\ Distinct(Back(c)) /\ Again(c) \subseteq DOMAIN B
        /\ \A q : q \in Waiting(Back(c)) <=> \E p \in Again(c) : q = B[p].job
    BY <1>0, AgainFacts DEF Retryable, With, Batch
  <2>4. Waiting(Back(c)) \subseteq Waiting(B)
    BY <2>3 DEF Waiting
  <2>5. Waiting(Requeued(c)) = Waiting(queue) \cup Waiting(Back(c))
    <3>1. Waiting(queue) \cap Waiting(Back(c)) = {} /\ Distinct(queue)
      BY <1>0, <2>4 DEF JobsInv, Once
    <3> QED BY <2>2, <2>3, <3>1, JoinJobs
  <2>6. j \notin Waiting(queue)
    BY <1>0 DEF Waiting
  <2>7. j \in Waiting(Back(c)) <=> i \in Again(c)
    BY <1>0, <2>3 DEF Distinct
  <2> QED BY <2>1, <2>5, <2>6, <2>7
<1>7. \E k \in DOMAIN B : B[k].job = j
  OBVIOUS
<1> HIDE DEF j, B
<1>8. fate'[j] = IF drain[c].result[i] = "ok" THEN "processed"
                 ELSE IF i \in Again(c) THEN "sent"
                 ELSE "lost"
  BY <1>2, <1>3, <1>6, <1>7
<1>9. fate'[j] = IF i \notin With(c, "failed") THEN "processed"
                 ELSE IF i \in Again(c) THEN "sent"
                 ELSE "lost"
  BY <1>4, <1>5, <1>8
<1> QED BY <1>1, <1>9 DEF j, B

LEMMA OtherFate ==
    ASSUME JobsInv, NEW c \in Consumers, Book(c), NEW j \in Jobs, j \notin Waiting(Batch(c))
    PROVE  fate'[j] = fate[j]
<1>1. ~\E k \in DOMAIN drain[c].batch : drain[c].batch[k].job = j
  BY DEF Waiting, Batch
<1> QED BY <1>1 DEF Book

LEMMA BookKeeps ==
    ASSUME JobsInv, NEW c \in Consumers, Book(c)
    PROVE  JobsInv'
<1> DEFINE F == With(c, "failed")
           S == Retryable(c)
           B == Batch(c)
           R == F \ Again(c)
           given == {B[i].job : i \in R}
<1>0. /\ QueueInv /\ Once /\ Tracked /\ fate \in [Jobs -> Fate] /\ dropped = Cardinality(Lost)
      /\ Distinct(B) /\ Distinct(queue) /\ Waiting(queue) \cap Waiting(B) = {}
      /\ queue \in Seq(Entry) /\ B \in Seq(Entry)
  BY CallFacts DEF JobsInv, Once, QueueInv, Batch
<1>1. PICK aborted \in BOOLEAN : BookBatch(c, aborted)
  BY DEF Book
<1>2. /\ QueueInv' /\ \A d \in Consumers \ {c} : drain'[d] = drain[d]
      /\ \E n \in 0 .. Len(Requeued(c)) :
            /\ queue' = SubSeq(Requeued(c), n + 1, Len(Requeued(c)))
            /\ drain'[c].batch = SubSeq(Requeued(c), 1, n)
  BY <1>0, <1>1, BookBatchType
<1>3. PICK n \in 0 .. Len(Requeued(c)) :
         /\ queue' = SubSeq(Requeued(c), n + 1, Len(Requeued(c)))
         /\ drain'[c].batch = SubSeq(Requeued(c), 1, n)
  BY <1>2
<1>4. /\ Again(c) \subseteq S /\ IsFiniteSet(Again(c))
      /\ Cardinality(Again(c)) = Smaller(Cardinality(S), Room)
      /\ Distinct(Back(c))
      /\ \A j : j \in Waiting(Back(c)) <=> \E i \in Again(c) : j = B[i].job
  BY <1>0, AgainFacts
<1>5. /\ F \subseteq DOMAIN B /\ S \subseteq F
      /\ IsFiniteSet(F) /\ IsFiniteSet(S) /\ Cardinality(S) \in Nat /\ Cardinality(F) \in Nat
  BY <1>0, FailedFacts DEF Batch
<1>6. Waiting(Back(c)) \subseteq Waiting(B)
  BY <1>0, RequeuedJobs
<1>7. /\ Requeued(c) \in Seq(Entry) /\ Distinct(Requeued(c))
      /\ Waiting(Requeued(c)) = Waiting(queue) \cup Waiting(Back(c))
  BY <1>0, RequeuedJobs
<1>8. \A d \in Consumers \ {c} :
         /\ Waiting(B) \cap Waiting(Batch(d)) = {}
         /\ Waiting(Requeued(c)) \cap Waiting(Batch(d)) = {}
  BY <1>0, <1>6, <1>7 DEF Once
<1>9. /\ Once'
      /\ \A j : Somewhere(j)' <=>
           \/ j \in Waiting(Requeued(c))
           \/ \E d \in Consumers \ {c} : j \in Waiting(Batch(d))
  BY <1>0, <1>2, <1>3, <1>7, <1>8, Taking
<1>10. ASSUME NEW i \in DOMAIN B
       PROVE  /\ B[i].job \in Jobs /\ B[i].job \in Waiting(B)
              /\ fate[B[i].job] = "sent"
              /\ fate'[B[i].job] = IF i \notin F THEN "processed"
                                  ELSE IF i \in Again(c) THEN "sent"
                                  ELSE "lost"
  <2>1. B[i].job \in Jobs /\ B[i].job \in Waiting(B)
    BY BookedFate DEF Waiting
  <2>2. fate[B[i].job] = "sent"
    BY <1>0, <2>1 DEF Tracked, Somewhere
  <2> QED BY <2>1, <2>2, BookedFate
<1>11. ASSUME NEW j \in Jobs, j \notin Waiting(B) PROVE fate'[j] = fate[j]
  BY <1>11, OtherFate
<1> HIDE DEF F, S, B, R
<1>12. fate' \in [Jobs -> Fate]
  <2>1. fate' = [j \in Jobs |-> fate'[j]]
    BY DEF Book
  <2>2. ASSUME NEW j \in Jobs PROVE fate'[j] \in Fate
    <3>1. CASE j \in Waiting(B)
      <4>1. PICK i \in DOMAIN B : j = B[i].job
        BY <3>1 DEF Waiting
      <4> QED BY <1>10, <4>1 DEF Fate
    <3>2. CASE j \notin Waiting(B)
      BY <1>0, <1>11, <3>2
    <3> QED BY <3>1, <3>2
  <2> QED BY <2>1, <2>2
<1>13. Tracked'
  <2>1. ASSUME NEW j \in Jobs PROVE fate'[j] = "sent" <=> Somewhere(j)'
    <3>1. CASE j \in Waiting(B)
      <4>1. PICK i \in DOMAIN B : j = B[i].job
        BY <3>1 DEF Waiting
      <4>2. fate'[j] = "sent" <=> i \in Again(c)
        BY <1>4, <1>5, <1>10, <4>1
      <4>3. j \in Waiting(Back(c)) <=> i \in Again(c)
        BY <1>0, <1>4, <1>5, <4>1 DEF Distinct
      <4>4. Somewhere(j)' <=> j \in Waiting(Back(c))
        BY <1>0, <1>7, <1>8, <1>9, <3>1 DEF B
      <4> QED BY <4>2, <4>3, <4>4
    <3>2. CASE j \notin Waiting(B)
      <4>1. Somewhere(j)' <=> Somewhere(j)
        BY <1>6, <1>7, <1>9, <3>2 DEF Somewhere, B
      <4> QED BY <1>0, <1>11, <3>2, <4>1 DEF Tracked
    <3> QED BY <3>1, <3>2
  <2> QED BY <2>1 DEF Tracked
<1>14. given \subseteq Jobs /\ given \cap Lost = {} /\ Lost' = Lost \cup given
  <2>1. given \subseteq Jobs /\ given \cap Lost = {}
    BY <1>5, <1>10 DEF Lost, R
  <2>2. ASSUME NEW j \in Jobs PROVE fate'[j] = "lost" <=> fate[j] = "lost" \/ j \in given
    <3>1. CASE j \in Waiting(B)
      <4>1. PICK i \in DOMAIN B : j = B[i].job
        BY <3>1 DEF Waiting
      <4>2. j \in given <=> i \in R
        BY <1>0, <1>5, <4>1 DEF R, Distinct
      <4> QED BY <1>10, <4>1, <4>2 DEF R
    <3>2. CASE j \notin Waiting(B)
      <4>1. j \notin given
        BY <1>5, <1>10, <3>2 DEF R
      <4> QED BY <1>11, <3>2, <4>1
    <3> QED BY <3>1, <3>2
  <2> HIDE DEF given
  <2> QED BY <2>1, <2>2 DEF Lost
<1>15. IsFiniteSet(R) /\ Cardinality(R) = Refused(c)
  <2> DEFINE fn == Cardinality(F)
             sn == Cardinality(S)
             m == Smaller(sn, Room)
  <2>1. F \cap Again(c) = Again(c) /\ F \cap S = S
    BY <1>4, <1>5
  <2>2. IsFiniteSet(R) /\ Cardinality(R) = fn - Cardinality(F \cap Again(c))
    BY <1>5, FS_Difference DEF R
  <2>3. Cardinality(F \ S) = fn - Cardinality(F \cap S)
    BY <1>5, FS_Difference
  <2>4. Len(RetriesOf(c)) = sn
    BY <1>0, RetryFacts DEF S
  <2>5. Refused(c) = Cardinality(F \ S) + sn - m
    BY <2>4 DEF Refused, F, S
  <2>6. Room \in Nat
    BY <1>0, RoomFacts
  <2>7. fn \in Nat /\ sn \in Nat /\ m \in Nat
    BY <1>5, <2>6 DEF Smaller
  <2>8. Cardinality(R) = fn - m /\ Refused(c) = (fn - sn) + sn - m
    BY <1>4, <2>1, <2>2, <2>3, <2>5
  <2> HIDE DEF fn, sn, m
  <2> QED BY <2>2, <2>7, <2>8
<1>16. IsFiniteSet(given) /\ Cardinality(given) = Cardinality(R)
  <2> DEFINE f == [i \in R |-> B[i].job]
  <2>1. f \in [R -> given] /\ \A t \in given : \E i \in R : f[i] = t
    OBVIOUS
  <2>2. \A i, k \in R : f[i] = f[k] => i = k
    BY <1>0, <1>5 DEF R, Distinct
  <2> HIDE DEF f, given
  <2> QED BY <1>15, <2>1, <2>2, ImageCount
<1> HIDE DEF given
<1>17. dropped' = Cardinality(Lost')
  <2>1. IsFiniteSet(Lost) /\ Cardinality(Lost) \in Nat
    <3>1. Lost \subseteq Jobs
      BY DEF Lost
    <3> QED BY <3>1, FiniteJobs
  <2>2. Cardinality(Lost') = Cardinality(Lost) + Cardinality(given)
    BY <1>14, <1>16, <2>1, TwoParts
  <2>3. dropped' = dropped + Refused(c)
    BY DEF Book
  <2> QED BY <1>0, <1>15, <1>16, <2>2, <2>3
<1>18. closed' \in BOOLEAN
  BY DEF Book, JobsInv
<1> QED BY <1>2, <1>9, <1>12, <1>13, <1>17, <1>18 DEF JobsInv

LEMMA JobsStep == JobsInv /\ [Next]_vars => JobsInv'
<1> SUFFICES ASSUME JobsInv, [Next]_vars PROVE JobsInv'
  OBVIOUS
<1>1. ASSUME NEW c \in Consumers, Open(c) \/ Handle(c) \/ Book(c) PROVE JobsInv'
  BY <1>1, OpenKeeps, HandleKeeps, BookKeeps
<1>2. CASE UNCHANGED vars
  <2>1. UNCHANGED <<queue, drain, dropped, fate, closed>>
    BY <1>2 DEF vars, queueVars
  <2>2. Once' /\ \A j : Somewhere(j)' <=> Somewhere(j)
    BY <2>1, StillThere DEF JobsInv
  <2> QED BY <2>1, <2>2 DEF JobsInv, QueueInv, Tracked, Lost
<1> QED BY <1>1, <1>2, SendKeeps, ShutKeeps DEF Next

LEMMA JobsAlways == Spec => []JobsInv
BY JobsInit, JobsStep, PTL DEF Spec

-----------------------------------------------------------------------------
(* The theorems.                                                           *)

\* Types, and the bound: the queue never holds more than its capacity, retries
\* included (memory-queue.ts:36-58, 94-109).
THEOREM TypeCorrect == Spec => []TypeOK
<1>1. JobsInv => TypeOK
  <2> SUFFICES ASSUME JobsInv PROVE TypeOK
    OBVIOUS
  <2>1. Lost \subseteq Jobs
    BY DEF Lost
  <2>2. dropped \in Nat
    BY <2>1, FiniteJobs DEF JobsInv
  <2> QED BY <2>2, QueueInvImplies DEF JobsInv, TypeOK, Fate
<1> QED BY <1>1, JobsAlways, PTL

\* A job that was sent and has no outcome is in exactly one place, and every job
\* that was lost is counted (NothingLostSilently, tests/queue.test.ts:3-4).
THEOREM NothingIsLostSilently == Spec => []NothingLostSilently
<1>1. JobsInv => NothingLostSilently
  <2> SUFFICES ASSUME JobsInv PROVE NothingLostSilently
    OBVIOUS
  <2>1. ASSUME NEW j \in Jobs
        PROVE  Cardinality(Places(j)) = IF fate[j] = "sent" THEN 1 ELSE 0
    <3>1. Places(j) =
             {<<"queue", i>> : i \in {i \in DOMAIN queue : queue[i].job = j}}
             \cup UNION { {<<c, i>> : i \in {i \in DOMAIN Batch(c) : Batch(c)[i].job = j}} :
                          c \in Consumers }
      BY DEF Places, Batch
    <3>2. CASE j \in Waiting(queue)
      <4>1. PICK i \in DOMAIN queue : queue[i].job = j
        BY <3>2 DEF Waiting
      <4>2. \A k \in DOMAIN queue : queue[k].job = j => k = i
        BY <4>1 DEF JobsInv, Once, Distinct
      <4>3. \A c \in Consumers : \A k \in DOMAIN Batch(c) : Batch(c)[k].job # j
        BY <3>2 DEF JobsInv, Once, Waiting
      <4>4. Places(j) = {<<"queue", i>>}
        BY <3>1, <4>1, <4>2, <4>3
      <4>5. fate[j] = "sent"
        BY <3>2 DEF JobsInv, Tracked, Somewhere
      <4> QED BY <4>4, <4>5, FS_Singleton
    <3>3. ASSUME NEW c \in Consumers, j \in Waiting(Batch(c))
          PROVE  Cardinality(Places(j)) = IF fate[j] = "sent" THEN 1 ELSE 0
      <4>1. PICK i \in DOMAIN Batch(c) : Batch(c)[i].job = j
        BY <3>3 DEF Waiting
      <4>2. \A k \in DOMAIN Batch(c) : Batch(c)[k].job = j => k = i
        BY <4>1 DEF JobsInv, Once, Distinct
      <4>3. \A k \in DOMAIN queue : queue[k].job # j
        BY <3>3 DEF JobsInv, Once, Waiting
      <4>4. \A d \in Consumers : \A k \in DOMAIN Batch(d) : Batch(d)[k].job = j => d = c
        BY <3>3 DEF JobsInv, Once, Waiting
      <4>5. Places(j) = {<<c, i>>}
        BY <3>1, <4>1, <4>2, <4>3, <4>4
      <4>6. fate[j] = "sent"
        BY <3>3 DEF JobsInv, Tracked, Somewhere
      <4> QED BY <4>5, <4>6, FS_Singleton
    <3>4. CASE ~Somewhere(j)
      <4>1. \A k \in DOMAIN queue : queue[k].job # j
        BY <3>4 DEF Somewhere, Waiting
      <4>2. \A d \in Consumers : \A k \in DOMAIN Batch(d) : Batch(d)[k].job # j
        BY <3>4 DEF Somewhere, Waiting
      <4>3. Places(j) = {}
        BY <3>1, <4>1, <4>2
      <4>4. fate[j] # "sent"
        BY <3>4 DEF JobsInv, Tracked
      <4> QED BY <4>3, <4>4, FS_EmptySet
    <3> QED BY <3>2, <3>3, <3>4 DEF Somewhere
  <2> QED BY <2>1 DEF JobsInv, NothingLostSilently, Lost
<1> QED BY <1>1, JobsAlways, PTL

-----------------------------------------------------------------------------
(* The order.  What waits in `b` waited in `a`, in the same order, or is   *)
(* behind all that waited there.                                           *)

Orderly(a, b) ==
    \A j \in Waiting(a) \cap Waiting(b) :
       \A k \in Waiting(b) \ {j} :
          Position(b, k) < Position(b, j) =>
             k \in Waiting(a) /\ Position(a, k) < Position(a, j)

LEMMA PositionFacts ==
    ASSUME NEW s \in Seq(Entry), Distinct(s), NEW j \in Waiting(s)
    PROVE  /\ Position(s, j) \in 1 .. Len(s) /\ s[Position(s, j)].job = j
           /\ \A i \in 1 .. Len(s) : s[i].job = j => i = Position(s, j)
<1>1. DOMAIN s = 1 .. Len(s)
  BY SeqFacts
<1>2. \E i \in DOMAIN s : s[i].job = j
  BY DEF Waiting
<1>3. Position(s, j) \in DOMAIN s /\ s[Position(s, j)].job = j
  BY <1>2 DEF Position
<1> QED BY <1>1, <1>3 DEF Distinct

\* Something is added behind `a` and the first n are taken away.
LEMMA Order ==
    ASSUME NEW a \in Seq(Entry), NEW e \in Seq(Entry), NEW w \in Seq(Entry), w = a \o e,
           NEW n \in Nat, NEW b \in Seq(Entry), n + Len(b) = Len(w),
           \A i \in 1 .. Len(b) : b[i] = w[n + i],
           Distinct(w)
    PROVE  Orderly(a, b)
<1> SUFFICES ASSUME NEW j \in Waiting(a), j \in Waiting(b), NEW k \in Waiting(b), k # j,
                    Position(b, k) < Position(b, j)
             PROVE  k \in Waiting(a) /\ Position(a, k) < Position(a, j)
  BY DEF Orderly
<1>1. /\ Len(a) \in Nat /\ Len(b) \in Nat /\ Len(w) \in Nat /\ Len(a) <= Len(w)
      /\ DOMAIN a = 1 .. Len(a) /\ DOMAIN b = 1 .. Len(b) /\ DOMAIN w = 1 .. Len(w)
      /\ \A i \in 1 .. Len(a) : w[i] = a[i]
  <2>1. /\ Len(w) = Len(a) + Len(e)
        /\ \A i \in 1 .. Len(a) + Len(e) : w[i] = IF i <= Len(a) THEN a[i] ELSE e[i - Len(a)]
    BY ConcatProperties
  <2>2. Len(e) \in Nat /\ Len(a) \in Nat
    BY SeqFacts
  <2> QED BY <2>1, <2>2, SeqFacts
<1>2. PICK la, lb, lw \in Nat : la = Len(a) /\ lb = Len(b) /\ lw = Len(w)
  BY <1>1
<1>3. la <= lw /\ n + lb = lw
  BY <1>1, <1>2
<1>4. Distinct(a)
  <2>1. \A i \in 1 .. la : i \in 1 .. lw /\ w[i] = a[i]
    BY <1>1, <1>2, <1>3
  <2> QED BY <1>1, <1>2, <2>1 DEF Distinct
<1>5. \A i \in 1 .. lb : n + i \in 1 .. lw /\ b[i] = w[n + i]
  BY <1>2, <1>3
<1>6. Distinct(b)
  <2>1. ASSUME NEW i \in 1 .. lb, NEW l \in 1 .. lb, b[i].job = b[l].job PROVE i = l
    <3>1. /\ n + i \in DOMAIN w /\ n + l \in DOMAIN w
          /\ w[n + i].job = w[n + l].job
      BY <1>1, <1>2, <1>5, <2>1
    <3>2. n + i = n + l
      BY <3>1 DEF Distinct
    <3> QED BY <3>2
  <2> QED BY <1>1, <1>2, <2>1 DEF Distinct
<1>7. PICK p, q, r \in Nat : p = Position(a, j) /\ q = Position(b, j) /\ r = Position(b, k)
  <2>1. Position(a, j) \in 1 .. la /\ Position(b, j) \in 1 .. lb /\ Position(b, k) \in 1 .. lb
    BY <1>2, <1>4, <1>6, PositionFacts
  <2> QED BY <2>1
<1>8. /\ p \in 1 .. la /\ a[p].job = j
      /\ q \in 1 .. lb /\ b[q].job = j
      /\ r \in 1 .. lb /\ b[r].job = k /\ r < q
  BY <1>2, <1>4, <1>6, <1>7, PositionFacts
<1>9. n + q = p
  <2>1. w[n + q].job = w[p].job /\ n + q \in 1 .. lw /\ p \in 1 .. lw
    BY <1>1, <1>2, <1>3, <1>5, <1>8
  <2> QED BY <1>1, <1>2, <2>1 DEF Distinct
<1>10. n + r \in 1 .. la /\ n + r < p
  BY <1>8, <1>9
<1>11. a[n + r].job = k
  BY <1>1, <1>2, <1>5, <1>8, <1>10
<1>12. k \in Waiting(a)
  BY <1>1, <1>2, <1>10, <1>11 DEF Waiting
<1>13. n + r = Position(a, k)
  BY <1>2, <1>4, <1>10, <1>11, <1>12, PositionFacts
<1> QED BY <1>7, <1>10, <1>12, <1>13

LEMMA TakenInOrder ==
    ASSUME NEW a \in Seq(Entry), NEW e \in Seq(Entry), NEW w \in Seq(Entry), w = a \o e,
           Distinct(w), NEW n \in 0 .. Len(w)
    PROVE  Orderly(a, SubSeq(w, n + 1, Len(w)))
<1>1. PICK b : b = SubSeq(w, n + 1, Len(w))
  OBVIOUS
<1>2. /\ b \in Seq(Entry) /\ Len(b) = Len(w) - n
      /\ \A i \in 1 .. Len(w) - n : b[i] = w[n + i]
  BY <1>1, Splitting
<1>3. n \in Nat /\ n + Len(b) = Len(w)
  BY <1>2, SeqFacts
<1>4. \A i \in 1 .. Len(b) : b[i] = w[n + i]
  BY <1>2
<1>5. Orderly(a, b)
  BY <1>2, <1>3, <1>4, Order
<1> QED BY <1>1, <1>5

LEMMA JoinedInOrder ==
    ASSUME NEW a \in Seq(Entry), NEW e \in Seq(Entry), NEW w \in Seq(Entry), w = a \o e,
           Distinct(w)
    PROVE  Orderly(a, w)
<1>1. Len(w) \in Nat /\ 0 + Len(w) = Len(w) /\ \A i \in 1 .. Len(w) : w[i] = w[0 + i]
  BY SeqFacts
<1> QED BY <1>1, Order

LEMMA NothingAdded == ASSUME NEW a \in Seq(Entry) PROVE a = a \o <<>> /\ <<>> \in Seq(Entry)
BY EmptySeq, ConcatEmptySeq

\* The jobs of a send that fit are put at the tail.
LEMMA SentBehind ==
    ASSUME QueueInv, Send
    PROVE  \E e \in Seq(Entry) : queue' = queue \o e
<1>0. PICK n \in 1 .. Cardinality(Unsent) : \E jobs \in [1 .. n -> Unsent] : SendMany(jobs)
  <2>1. PICK n \in 1 .. Cardinality(Unsent) :
           \E jobs \in {s \in [1 .. n -> Unsent] : \A i, k \in 1 .. n : i # k => s[i] # s[k]} :
              LET fits == Smaller(n, Room)
              IN  /\ SendMany(jobs)
                  /\ dropped' = dropped + (n - fits)
                  /\ fate' = [j \in Jobs |->
                        IF \E i \in 1 .. fits : jobs[i] = j THEN "sent"
                        ELSE IF \E i \in 1 .. n : jobs[i] = j THEN "lost"
                        ELSE fate[j]]
                  /\ UNCHANGED closed
    BY Zenon DEF Send
  <2> QED BY <2>1, Zenon
<1>1. PICK jobs \in [1 .. n -> Unsent] : SendMany(jobs)
  BY <1>0
<1>2. /\ Unsent \subseteq Jobs /\ n \in Nat
  <2>1. Unsent \subseteq Jobs
    BY DEF Unsent
  <2>2. Cardinality(Unsent) \in Nat
    BY <2>1, FiniteJobs
  <2> QED BY <2>1, <2>2
<1>3. jobs \in Seq(Jobs)
  <2>1. n \in Nat /\ jobs \in [1 .. n -> Jobs]
    BY <1>2
  <2> QED BY <2>1, Listed
<1>4. PICK fits \in 0 .. Len(jobs) : Appended(jobs) = queue \o Sent(jobs, fits)
  BY <1>3, AppendedType
<1>5. Sent(jobs, fits) \in Seq(Entry)
  BY <1>3, <1>4, SentType
<1> QED BY <1>1, <1>4, <1>5 DEF SendMany

LEMMA StepInOrder == JobsInv /\ [Next]_vars => Orderly(queue, queue')
<1> SUFFICES ASSUME JobsInv, [Next]_vars PROVE Orderly(queue, queue')
  OBVIOUS
<1>1. /\ QueueInv /\ Once /\ queue \in Seq(Entry) /\ Distinct(queue)
      /\ Len(queue) <= Capacity
  BY DEF JobsInv, QueueInv, Once
<1>2. CASE queue' = queue
  BY <1>1, <1>2, NothingAdded, JoinedInOrder
<1>3. CASE Send
  <2>1. PICK e \in Seq(Entry) : queue' = queue \o e
    BY <1>1, <1>3, SentBehind
  <2>2. queue' \in Seq(Entry) /\ Distinct(queue')
    <3>1. JobsInv'
      BY <1>3, SendKeeps
    <3> QED BY <3>1 DEF JobsInv, QueueInv, Once, Distinct
  <2> QED BY <1>1, <2>1, <2>2, JoinedInOrder
<1>4. ASSUME NEW c \in Consumers, Open(c) PROVE Orderly(queue, queue')
  <2>1. PICK limit \in Limits, budget \in Budgets : Consume(c, limit, budget)
    BY <1>4 DEF Open
  <2>2. TakeBatch(c, queue, limit, budget) /\ limit \in Nat /\ budget \in Nat
    BY <2>1, MemoryAssumption DEF Consume
  <2>3. PICK n \in 0 .. Len(queue) : queue' = SubSeq(queue, n + 1, Len(queue))
    BY <1>1, <2>2, TakeBatchType
  <2> QED BY <1>1, <2>3, NothingAdded, TakenInOrder
<1>5. ASSUME NEW c \in Consumers, Book(c) PROVE Orderly(queue, queue')
  <2>1. PICK aborted \in BOOLEAN : BookBatch(c, aborted)
    BY <1>5 DEF Book
  <2>2. PICK w : w = Requeued(c)
    OBVIOUS
  <2>3. PICK n \in 0 .. Len(w) : queue' = SubSeq(w, n + 1, Len(w))
    BY <1>1, <2>1, <2>2, BookBatchType
  <2>4. Back(c) \in Seq(Entry) /\ w = queue \o Back(c) /\ w \in Seq(Entry) /\ Distinct(w)
    BY <1>1, <2>2, RequeuedJobs
  <2> QED BY <1>1, <2>3, <2>4, TakenInOrder
<1>6. ASSUME NEW c \in Consumers, Handle(c) PROVE queue' = queue
  BY <1>6 DEF Handle, Settle
<1>7. CASE Shut
  <2>1. queue' = <<>>
    BY <1>7 DEF Shut, Close
  <2> QED BY <2>1, EmptyWaiting DEF Orderly
<1>8. CASE UNCHANGED vars
  BY <1>2, <1>8 DEF vars, queueVars
<1> QED BY <1>2, <1>3, <1>4, <1>5, <1>6, <1>7, <1>8 DEF Next

\* A job that waits is overtaken by nobody: not by one that is sent, and not by a
\* job whose handler failed (docs/ARCHITECTURE.md:200, memory-queue.ts:94-109).
THEOREM WaitersKeepTheirOrder == Spec => NoOvertaking
<1>1. JobsInv /\ [Next]_vars => [Orderly(queue, queue')]_vars
  BY StepInOrder
<1>2. [Orderly(queue, queue')]_vars <=>
      [\A j \in Waiting(queue) \cap Waiting(queue') :
          \A k \in Waiting(queue') \ {j} :
             Position(queue', k) < Position(queue', j) =>
                k \in Waiting(queue) /\ Position(queue, k) < Position(queue, j)]_vars
  BY DEF Orderly
<1> QED BY <1>1, <1>2, JobsAlways, PTL DEF Spec, NoOvertaking
===============================================================================
