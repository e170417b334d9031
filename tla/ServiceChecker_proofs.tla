------------------------ MODULE ServiceChecker_proofs ------------------------
(***************************************************************************)
(* The budget, the politeness of a check that runs alone, and the breaker, *)
(* for any number of probers and any limits.                               *)
(***************************************************************************)
EXTENDS ServiceChecker, FiniteSetTheorems, TLAPS

\* Checks that passed the budget and are not counted yet.
Uncounted == {p \in Probers : probe[p].stage \in {"robots", "sleeping"}}

BudgetInv ==
    /\ spent + Cardinality(Uncounted) < MaxChecks + Cardinality(Probers)
    /\ Uncounted # {} => MaxChecks > 0

\* What a check on its own found, still stands.
AloneInv ==
    \A p \in UnderWay \ company :
        /\ UnderWay = {p}
        /\ openFor = 0
        /\ p \in Uncounted => cooldown = 0 /\ spent < MaxChecks
        /\ probe[p].stage = "sleeping" => robots.allowed /\ sinceLast + probe[p].wait >= spacing

IInv == TypeOK /\ BudgetInv /\ AloneInv

LEMMA SpacingsNat == Spacings \subseteq Nat
BY CheckerAssumption DEF Spacings, Larger

LEMMA CardProbers ==
    /\ Cardinality(Probers) \in Nat \ {0}
    /\ \A S \in SUBSET Probers :
          /\ IsFiniteSet(S)
          /\ Cardinality(S) \in Nat
          /\ Cardinality(S) <= Cardinality(Probers)
          /\ S # Probers => Cardinality(S) < Cardinality(Probers)
<1>1. IsFiniteSet(Probers) /\ Probers # {}
  BY CheckerAssumption
<1>2. ASSUME NEW S \in SUBSET Probers
      PROVE  /\ IsFiniteSet(S)
             /\ Cardinality(S) \in Nat
             /\ Cardinality(S) <= Cardinality(Probers)
             /\ S # Probers => Cardinality(S) < Cardinality(Probers)
  BY <1>1, FS_Subset, FS_CardinalityType
<1>3. Cardinality(Probers) \in Nat \ {0}
  BY <1>1, FS_CardinalityType, FS_EmptySet
<1> QED BY <1>2, <1>3

LEMMA InvInit == Init => IInv
<1> SUFFICES ASSUME Init PROVE TypeOK /\ BudgetInv /\ AloneInv
  BY DEF IInv
<1>1. TypeOK
  BY CheckerAssumption DEF Init, TypeOK, Policy, Idle, Stage, Spacings
<1>2. UnderWay = {} /\ Uncounted = {}
  BY DEF Init, Idle, UnderWay, Uncounted
<1>3. BudgetInv
  BY <1>2, CardProbers, FS_EmptySet, CheckerAssumption DEF Init, BudgetInv
<1> QED BY <1>1, <1>2, <1>3 DEF AloneInv

-----------------------------------------------------------------------------
(* Types *)

LEMMA AtType ==
    ASSUME TypeOK, NEW p \in Probers, NEW stage \in Stage, NEW wait \in Nat, At(p, stage, wait)
    PROVE  /\ probe' \in [Probers -> [stage : Stage, wait : Nat]]
           /\ probe'[p] = [stage |-> stage, wait |-> wait]
           /\ \A q \in Probers \ {p} : probe'[q] = probe[q]
BY DEF TypeOK, At

LEMMA ProceedType ==
    ASSUME TypeOK, NEW p \in Probers, NEW allowed \in BOOLEAN, NEW gap \in Spacings,
           Proceed(p, allowed, gap)
    PROVE  /\ probe' \in [Probers -> [stage : Stage, wait : Nat]]
           /\ \A q \in Probers \ {p} : probe'[q] = probe[q]
           /\ sinceLast' \in Nat
           /\ \/ /\ probe'[p].stage = "idle" /\ spent' = spent /\ sinceLast' = sinceLast
              \/ /\ allowed /\ probe'[p].stage = "sent" /\ spent' = spent + 1
                 /\ sinceLast >= gap
              \/ /\ allowed /\ probe'[p].stage = "sleeping" /\ spent' = spent
                 /\ sinceLast' = sinceLast
                 /\ sinceLast + probe'[p].wait >= gap
<1>1. gap \in Nat /\ sinceLast \in Nat
  BY SpacingsNat DEF TypeOK
<1>2. CASE ~allowed /\ At(p, "idle", 0) /\ UNCHANGED <<sinceLast, spent>>
  <2>1. "idle" \in Stage /\ 0 \in Nat
    BY DEF Stage
  <2>2. /\ probe' \in [Probers -> [stage : Stage, wait : Nat]]
        /\ probe'[p].stage = "idle"
        /\ \A q \in Probers \ {p} : probe'[q] = probe[q]
    BY <1>2, <2>1 DEF At, TypeOK
  <2> QED BY <1>1, <1>2, <2>2
<1>3. CASE allowed /\ sinceLast >= gap /\ Request(p)
  <2>1. "sent" \in Stage /\ 0 \in Nat /\ At(p, "sent", 0)
    BY <1>3 DEF Stage, Request
  <2>2. /\ probe' \in [Probers -> [stage : Stage, wait : Nat]]
        /\ probe'[p].stage = "sent"
        /\ \A q \in Probers \ {p} : probe'[q] = probe[q]
    BY <2>1 DEF At, TypeOK
  <2> QED BY <1>1, <1>3, <2>2 DEF Request
<1>4. CASE allowed /\ sinceLast < gap /\ At(p, "sleeping", gap - sinceLast)
           /\ UNCHANGED <<sinceLast, spent>>
  <2>1. "sleeping" \in Stage /\ gap - sinceLast \in Nat
    BY <1>1, <1>4 DEF Stage
  <2>2. /\ probe' \in [Probers -> [stage : Stage, wait : Nat]]
        /\ probe'[p] = [stage |-> "sleeping", wait |-> gap - sinceLast]
        /\ \A q \in Probers \ {p} : probe'[q] = probe[q]
    BY <1>4, <2>1, AtType
  <2> QED BY <1>1, <1>4, <2>2
<1> QED BY <1>2, <1>3, <1>4 DEF Proceed

LEMMA TypeStep == TypeOK /\ [Next]_vars => TypeOK'
<1> SUFFICES ASSUME TypeOK, [Next]_vars PROVE TypeOK'
  OBVIOUS
<1> USE CheckerAssumption
<1>0. spacing \in Spacings /\ robots \in Policy
  BY DEF TypeOK
<1>1. ASSUME NEW p \in Probers, Check(p) PROVE TypeOK'
  <2>1. /\ tokens' \in 0 .. Burst * TicksPerToken
        /\ company' \subseteq Probers
    BY <1>1 DEF Check, Admitted, TypeOK, UnderWay
  <2>2. /\ probe' \in [Probers -> [stage : Stage, wait : Nat]]
        /\ spent' \in Nat /\ sinceLast' \in Nat
    <3>1. CASE robots.age < RobotsTtl
      <4>1. robots.allowed \in BOOLEAN
        BY DEF TypeOK, Policy
      <4>2. Proceed(p, robots.allowed, spacing)
        BY <1>1, <3>1 DEF Check
      <4> QED BY <1>0, <4>1, <4>2, ProceedType DEF TypeOK
    <3>2. CASE ~(robots.age < RobotsTtl)
      <4>1. At(p, "robots", 0) /\ UNCHANGED <<sinceLast, spent>>
        BY <1>1, <3>2 DEF Check
      <4> QED BY <4>1, AtType DEF TypeOK, Stage
    <3> QED BY <3>1, <3>2
  <2> QED BY <1>1, <2>1, <2>2 DEF Check, TypeOK, breaker, policy
<1>2. ASSUME NEW p \in Probers, RobotsRead(p) PROVE TypeOK'
  <2>1. PICK allowed \in BOOLEAN, delay \in CrawlDelays :
           /\ robots' = [age |-> 0, allowed |-> allowed]
           /\ spacing' = IF allowed THEN Larger(MinSpacing, delay) ELSE spacing
           /\ Proceed(p, allowed, spacing')
    BY <1>2 DEF RobotsRead
  <2>2. spacing' \in Spacings /\ robots' \in Policy
    <3>1. Larger(MinSpacing, delay) \in Spacings
      BY DEF Spacings
    <3>2. robots' \in Policy
      BY <2>1 DEF Policy
    <3> QED BY <1>0, <2>1, <3>1, <3>2
  <2>3. /\ probe' \in [Probers -> [stage : Stage, wait : Nat]]
        /\ spent' \in Nat /\ sinceLast' \in Nat
    BY <2>1, <2>2, ProceedType DEF TypeOK
  <2> QED BY <1>2, <2>2, <2>3 DEF RobotsRead, TypeOK, breaker
<1>3. ASSUME NEW p \in Probers, Wake(p) PROVE TypeOK'
  <2>1. probe' \in [Probers -> [stage : Stage, wait : Nat]]
    BY <1>3 DEF Wake, Request, At, TypeOK, Stage
  <2> QED BY <1>3, <2>1 DEF Wake, Request, TypeOK, breaker, policy
<1>4. ASSUME NEW p \in Probers, Answer(p) PROVE TypeOK'
  <2>1. probe' \in [Probers -> [stage : Stage, wait : Nat]]
    BY <1>4, AtType DEF Answer, Stage
  <2>2. failures' \in 0 .. Threshold - 1 /\ openFor' \in 0 .. OpenTicks
    BY <1>4 DEF Answer, RecordSuccess, RecordFailure, Larger, TypeOK
  <2>3. cooldown' \in 0 .. MaxBackoff
    <3>1. PICK backoff \in Backoffs :
             cooldown' = IF backoff > 0 THEN Smaller(backoff, MaxBackoff) ELSE cooldown
      BY <1>4 DEF Answer
    <3>2. backoff \in Nat /\ MaxBackoff \in Nat /\ cooldown \in 0 .. MaxBackoff
      BY DEF TypeOK
    <3> QED BY <3>1, <3>2 DEF Smaller
  <2> QED BY <1>4, <2>1, <2>2, <2>3 DEF Answer, TypeOK, limits, policy
<1>5. ASSUME BeginCycle PROVE TypeOK'
  BY <1>5 DEF BeginCycle, TypeOK, breaker, policy
<1>6. ASSUME Tick PROVE TypeOK'
  <2>1. Burst * TicksPerToken \in Nat
    OBVIOUS
  <2>2. /\ tokens' \in 0 .. Burst * TicksPerToken
        /\ openFor' \in 0 .. OpenTicks /\ cooldown' \in 0 .. MaxBackoff
        /\ sinceLast' \in Nat
    BY <1>6, <2>1 DEF Tick, TypeOK, Smaller, Larger, Down
  <2>3. robots' \in Policy
    BY <1>6 DEF Tick, TypeOK, Policy, Smaller
  <2>4. probe' \in [Probers -> [stage : Stage, wait : Nat]]
    BY <1>6 DEF Tick, TypeOK, Down, Larger
  <2> QED BY <1>6, <2>2, <2>3, <2>4 DEF Tick, TypeOK
<1>7. ASSUME UNCHANGED vars PROVE TypeOK'
  BY <1>7 DEF vars, limits, breaker, policy, TypeOK
<1> QED BY <1>1, <1>2, <1>3, <1>4, <1>5, <1>6, <1>7 DEF Next, Progress

-----------------------------------------------------------------------------
\* The checks of the others stay where they are.
OnlyMoves(p) == \A q \in Probers \ {p} : probe'[q] = probe[q]

\* A step of one check, seen by both invariants.
LEMMA ChecksMove ==
    ASSUME TypeOK, NEW p \in Probers, Check(p)
    PROVE  /\ OnlyMoves(p)
           /\ probe[p].stage = "idle"
           /\ \/ probe'[p].stage \in {"idle", "robots"} /\ spent' = spent
              \/ probe'[p].stage = "sent" /\ spent' = spent + 1
                 /\ robots.allowed /\ sinceLast >= spacing
              \/ /\ probe'[p].stage = "sleeping" /\ spent' = spent
                 /\ robots'.allowed /\ sinceLast' + probe'[p].wait >= spacing'
<1>1. spacing \in Spacings /\ robots.allowed \in BOOLEAN
  BY DEF TypeOK, Policy
<1>2. probe[p].stage = "idle" /\ UNCHANGED <<robots, spacing>>
  BY DEF Check, Idle, policy
<1>3. CASE robots.age < RobotsTtl
  <2>1. Proceed(p, robots.allowed, spacing)
    BY <1>3 DEF Check
  <2> QED BY <1>1, <1>2, <2>1, ProceedType DEF OnlyMoves
<1>4. CASE ~(robots.age < RobotsTtl)
  <2>1. At(p, "robots", 0) /\ UNCHANGED <<sinceLast, spent>>
    BY <1>4 DEF Check
  <2> QED BY <1>2, <2>1 DEF At, TypeOK, OnlyMoves
<1> QED BY <1>3, <1>4

LEMMA RobotsMove ==
    ASSUME TypeOK, NEW p \in Probers, RobotsRead(p)
    PROVE  /\ OnlyMoves(p)
           /\ probe[p].stage = "robots"
           /\ \/ probe'[p].stage = "idle" /\ spent' = spent
              \/ probe'[p].stage = "sent" /\ spent' = spent + 1
                 /\ robots'.allowed /\ sinceLast >= spacing'
              \/ /\ probe'[p].stage = "sleeping" /\ spent' = spent
                 /\ robots'.allowed /\ sinceLast' + probe'[p].wait >= spacing'
<1>1. PICK allowed \in BOOLEAN, delay \in CrawlDelays :
         /\ robots' = [age |-> 0, allowed |-> allowed]
         /\ spacing' = IF allowed THEN Larger(MinSpacing, delay) ELSE spacing
         /\ Proceed(p, allowed, spacing')
  BY DEF RobotsRead
<1>2. robots'.allowed = allowed
  BY <1>1
<1>3. spacing' \in Spacings
  <2>1. Larger(MinSpacing, delay) \in Spacings /\ spacing \in Spacings
    BY DEF Spacings, TypeOK
  <2> QED BY <1>1, <2>1
<1>4. probe[p].stage = "robots"
  BY DEF RobotsRead
<1> QED BY <1>1, <1>2, <1>3, <1>4, ProceedType DEF OnlyMoves

LEMMA WakeMoves ==
    ASSUME TypeOK, NEW p \in Probers, Wake(p)
    PROVE  /\ OnlyMoves(p)
           /\ probe[p].stage = "sleeping" /\ probe[p].wait = 0
           /\ probe'[p].stage = "sent" /\ spent' = spent + 1
BY DEF Wake, Request, At, TypeOK, OnlyMoves

LEMMA AnswerMoves ==
    ASSUME TypeOK, NEW p \in Probers, Answer(p)
    PROVE  /\ OnlyMoves(p)
           /\ probe[p].stage = "sent" /\ probe'[p].stage = "idle" /\ spent' = spent
BY DEF Answer, At, TypeOK, OnlyMoves, limits

LEMMA TickMoves ==
    ASSUME TypeOK, Tick
    PROVE  \A p \in Probers : probe'[p].stage = probe[p].stage
BY DEF Tick, TypeOK

-----------------------------------------------------------------------------
(* The budget *)

LEMMA BudgetStep == IInv /\ [Next]_vars => BudgetInv'
<1> SUFFICES ASSUME IInv, [Next]_vars PROVE BudgetInv'
  OBVIOUS
<1>0. /\ TypeOK /\ BudgetInv
      /\ spent \in Nat /\ MaxChecks \in Nat
      /\ Uncounted \in SUBSET Probers /\ Uncounted' \in SUBSET Probers
  BY CheckerAssumption DEF IInv, TypeOK, Uncounted
<1>c. /\ IsFiniteSet(Uncounted)
      /\ Cardinality(Probers) \in Nat \ {0}
      /\ Cardinality(Uncounted) \in Nat /\ Cardinality(Uncounted') \in Nat
      /\ Cardinality(Uncounted) <= Cardinality(Probers)
      /\ Cardinality(Uncounted') <= Cardinality(Probers)
  BY <1>0, CardProbers
<1>r. \A p \in Uncounted : Cardinality(Uncounted \ {p}) = Cardinality(Uncounted) - 1
  BY <1>c, FS_RemoveElement
<1>1. ASSUME NEW p \in Probers, Check(p) PROVE BudgetInv'
  <2>1. spent < MaxChecks
    BY <1>1 DEF Check, Admitted
  <2>2. CASE probe'[p].stage = "sent"
    <3>1. spent' = spent + 1 /\ Uncounted' = Uncounted /\ p \notin Uncounted
      BY <1>0, <1>1, <2>2, ChecksMove DEF OnlyMoves, Uncounted
    <3>2. Cardinality(Uncounted) < Cardinality(Probers)
      BY <1>0, <3>1, CardProbers
    <3> QED BY <1>0, <1>c, <2>1, <3>1, <3>2 DEF BudgetInv
  <2>3. CASE probe'[p].stage # "sent"
    <3>1. spent' = spent
      BY <1>0, <1>1, <2>3, ChecksMove
    <3> QED BY <1>0, <1>c, <2>1, <3>1 DEF BudgetInv
  <2> QED BY <2>2, <2>3
<1>2. ASSUME NEW p \in Probers, RobotsRead(p) \/ Wake(p) PROVE BudgetInv'
  <2>1. p \in Uncounted /\ OnlyMoves(p)
    BY <1>0, <1>2, RobotsMove, WakeMoves DEF Uncounted
  <2>2. CASE probe'[p].stage \in {"idle", "sent"} /\ spent' \in {spent, spent + 1}
    <3>1. Uncounted' = Uncounted \ {p}
      BY <2>1, <2>2 DEF Uncounted, OnlyMoves
    <3>2. Cardinality(Uncounted') = Cardinality(Uncounted) - 1
      BY <1>r, <2>1, <3>1
    <3> QED BY <1>0, <1>c, <2>1, <2>2, <3>2 DEF BudgetInv
  <2>3. CASE probe'[p].stage = "sleeping" /\ spent' = spent
    <3>1. Uncounted' = Uncounted
      BY <2>1, <2>3 DEF Uncounted, OnlyMoves
    <3> QED BY <1>0, <2>3, <3>1 DEF BudgetInv
  <2> QED BY <1>0, <1>2, <2>2, <2>3, RobotsMove, WakeMoves
<1>3. ASSUME NEW p \in Probers, Answer(p) PROVE BudgetInv'
  <2>1. Uncounted' = Uncounted /\ spent' = spent
    BY <1>0, <1>3, AnswerMoves DEF Uncounted, OnlyMoves
  <2> QED BY <1>0, <2>1 DEF BudgetInv
<1>4. ASSUME BeginCycle PROVE BudgetInv'
  <2>1. Uncounted' = Uncounted /\ spent' = 0
    BY <1>4 DEF BeginCycle, Uncounted
  <2>2. CASE Uncounted = {}
    BY <1>0, <1>c, <2>1, <2>2, FS_EmptySet DEF BudgetInv
  <2>3. CASE Uncounted # {}
    BY <1>0, <1>c, <2>1, <2>3 DEF BudgetInv
  <2> QED BY <2>2, <2>3
<1>5. ASSUME Tick \/ UNCHANGED vars PROVE BudgetInv'
  <2>1. Uncounted' = Uncounted /\ spent' = spent
    BY <1>0, <1>5, TickMoves DEF Uncounted, Tick, vars, limits
  <2> QED BY <1>0, <2>1 DEF BudgetInv
<1> QED BY <1>1, <1>2, <1>3, <1>4, <1>5 DEF Next, Progress

-----------------------------------------------------------------------------
(* A check on its own *)

LEMMA AloneStep == IInv /\ [Next]_vars => AloneInv'
<1> DEFINE Holds(q) == /\ UnderWay' = {q}
                       /\ openFor' = 0
                       /\ q \in Uncounted' => cooldown' = 0 /\ spent' < MaxChecks
                       /\ probe'[q].stage = "sleeping" =>
                             robots'.allowed /\ sinceLast' + probe'[q].wait >= spacing'
<1> SUFFICES ASSUME IInv, [Next]_vars, NEW q \in (UnderWay \ company)'
             PROVE  Holds(q)
  BY DEF AloneInv
<1>0. /\ TypeOK /\ AloneInv
      /\ spent \in Nat /\ MaxChecks \in Nat /\ sinceLast \in Nat
      /\ spacing \in Spacings /\ spacing \in Nat
      /\ q \in Probers /\ probe[q].wait \in Nat
  BY CheckerAssumption, SpacingsNat DEF IInv, TypeOK, UnderWay
<1>1. ASSUME NEW p \in Probers, Check(p) PROVE Holds(q)
  <2>1. /\ openFor' = 0 /\ cooldown' = 0 /\ spent < MaxChecks
        /\ company' = IF UnderWay = {} THEN company \ {p} ELSE company \cup UnderWay \cup {p}
    BY <1>1 DEF Check, Admitted, breaker
  <2>2. UnderWay' \subseteq UnderWay \cup {p}
    BY <1>0, <1>1, ChecksMove DEF UnderWay, OnlyMoves
  <2>3. q = p /\ UnderWay' = {q}
    BY <2>1, <2>2
  <2>4. q \in Uncounted' => spent' = spent
    BY <1>0, <1>1, <2>3, ChecksMove DEF Uncounted
  <2>5. probe'[q].stage = "sleeping" =>
           robots'.allowed /\ sinceLast' + probe'[q].wait >= spacing'
    BY <1>0, <1>1, <2>3, ChecksMove
  <2> QED BY <2>1, <2>3, <2>4, <2>5
<1>2. ASSUME NEW p \in Probers, RobotsRead(p) \/ Wake(p) PROVE Holds(q)
  <2>1. OnlyMoves(p) /\ p \in Uncounted /\ p \in UnderWay
    BY <1>0, <1>2, RobotsMove, WakeMoves DEF Uncounted, UnderWay
  <2>2. UNCHANGED <<company, openFor, cooldown>>
    BY <1>2 DEF RobotsRead, Wake, breaker
  <2>3. q \in UnderWay \ company
    BY <2>1, <2>2 DEF UnderWay, OnlyMoves
  <2>4. UnderWay = {q} /\ q = p /\ openFor = 0 /\ cooldown = 0 /\ spent < MaxChecks
    BY <1>0, <2>1, <2>3 DEF AloneInv
  <2>5. UnderWay' = {q}
    BY <2>1, <2>4 DEF UnderWay, OnlyMoves
  <2>6. q \in Uncounted' => spent' = spent
    BY <1>0, <1>2, <2>4, RobotsMove, WakeMoves DEF Uncounted
  <2>7. probe'[q].stage = "sleeping" =>
           robots'.allowed /\ sinceLast' + probe'[q].wait >= spacing'
    BY <1>0, <1>2, <2>4, RobotsMove, WakeMoves
  <2> QED BY <2>2, <2>4, <2>5, <2>6, <2>7
<1>3. ASSUME NEW p \in Probers, Answer(p) PROVE FALSE
  <2>1. OnlyMoves(p) /\ p \in UnderWay /\ p \notin UnderWay'
    BY <1>0, <1>3, AnswerMoves DEF UnderWay
  <2>2. q # p /\ q \in UnderWay \ company
    BY <1>3, <2>1 DEF UnderWay, OnlyMoves, Answer
  <2> QED BY <1>0, <2>1, <2>2 DEF AloneInv
<1>4. ASSUME BeginCycle PROVE Holds(q)
  <2>1. /\ UNCHANGED <<openFor, cooldown, sinceLast, robots, spacing, probe, company>>
        /\ spent' = 0
    BY <1>4 DEF BeginCycle, breaker, policy
  <2>2. q \in UnderWay \ company /\ UnderWay' = UnderWay /\ Uncounted' = Uncounted
    BY <2>1 DEF UnderWay, Uncounted
  <2> QED BY <1>0, <2>1, <2>2 DEF AloneInv
<1>5. ASSUME Tick PROVE Holds(q)
  <2>1. \A p \in Probers : probe'[p].stage = probe[p].stage
    BY <1>0, <1>5, TickMoves
  <2>2. UnderWay' = UnderWay /\ Uncounted' = Uncounted /\ q \in UnderWay \ company
    BY <1>5, <2>1 DEF UnderWay, Uncounted, Tick
  <2>3. /\ UnderWay = {q} /\ openFor = 0
        /\ q \in Uncounted => cooldown = 0 /\ spent < MaxChecks
        /\ probe[q].stage = "sleeping" => robots.allowed /\ sinceLast + probe[q].wait >= spacing
    BY <1>0, <2>2 DEF AloneInv
  <2>4. /\ openFor' = Down(openFor) /\ cooldown' = Down(cooldown)
        /\ spent' = spent /\ spacing' = spacing
        /\ probe'[q].wait = Down(probe[q].wait)
        /\ robots'.allowed = robots.allowed
    BY <1>0, <1>5 DEF Tick, TypeOK, Policy
  <2>5. sinceLast + probe[q].wait >= spacing => sinceLast' + probe'[q].wait >= spacing'
    <3>1. sinceLast' = IF \E gap \in Spacings : sinceLast < gap THEN sinceLast + 1 ELSE sinceLast
      BY <1>5 DEF Tick
    <3>2. CASE sinceLast < spacing
      BY <1>0, <2>4, <3>1, <3>2 DEF Down, Larger
    <3>3. CASE ~(sinceLast < spacing)
      BY <1>0, <2>4, <3>1, <3>3 DEF Down, Larger
    <3> QED BY <3>2, <3>3
  <2>6. Down(0) = 0
    BY DEF Down, Larger
  <2> QED BY <1>0, <2>1, <2>2, <2>3, <2>4, <2>5, <2>6
<1>6. ASSUME UNCHANGED vars PROVE Holds(q)
  <2>1. UNCHANGED <<openFor, cooldown, spent, sinceLast, robots, spacing, probe, company>>
    BY <1>6 DEF vars, limits, breaker, policy
  <2>2. q \in UnderWay \ company /\ UnderWay' = UnderWay /\ Uncounted' = Uncounted
    BY <2>1 DEF UnderWay, Uncounted
  <2> QED BY <1>0, <2>1, <2>2 DEF AloneInv
<1> QED BY <1>1, <1>2, <1>3, <1>4, <1>5, <1>6 DEF Next, Progress

LEMMA InvHolds == Spec => []IInv
<1>1. IInv /\ [Next]_vars => IInv'
  BY TypeStep, BudgetStep, AloneStep DEF IInv
<1> QED BY InvInit, <1>1, PTL DEF Spec

-----------------------------------------------------------------------------
\* Every variable of the checker stays in its type (service/crunchyroll.ts).
THEOREM TypeCorrect == Spec => []TypeOK
<1>1. IInv => TypeOK
  BY DEF IInv
<1> QED BY <1>1, InvHolds, PTL

\* The requests of a cycle exceed its budget by less than the number of checks
\* that run side by side; a single caller keeps it.
THEOREM OvershootBounded == Spec => []BoundedOvershoot
<1>1. IInv => BoundedOvershoot
  <2> SUFFICES ASSUME IInv PROVE BoundedOvershoot
    OBVIOUS
  <2>1. Uncounted \in SUBSET Probers /\ spent \in Nat /\ MaxChecks \in Nat
    BY CheckerAssumption DEF Uncounted, IInv, TypeOK
  <2>2. Cardinality(Uncounted) \in Nat /\ Cardinality(Probers) \in Nat
    BY <2>1, CardProbers
  <2> QED BY <2>1, <2>2 DEF IInv, BudgetInv, BoundedOvershoot
<1> QED BY <1>1, InvHolds, PTL

\* A check no other ran beside sends its request within the contract.
THEOREM PoliteAlone == Spec => AloneIsPolite
<1>1. ASSUME IInv, [Next]_vars, NEW p \in Probers, Sends(p), p \notin company'
      PROVE  /\ cooldown = 0 /\ openFor = 0
             /\ spent < MaxChecks
             /\ robots'.allowed
             /\ sinceLast >= spacing'
  <2>0. TypeOK /\ AloneInv /\ sinceLast \in Nat /\ spacing \in Nat
    BY <1>1, SpacingsNat DEF IInv, TypeOK
  <2>1. CASE Check(p)
    <3>1. cooldown = 0 /\ openFor = 0 /\ spent < MaxChecks /\ UNCHANGED <<robots, spacing>>
      BY <2>1 DEF Check, Admitted, policy
    <3>2. robots.allowed /\ sinceLast >= spacing
      BY <1>1, <2>0, <2>1, ChecksMove DEF Sends
    <3> QED BY <3>1, <3>2
  <2>2. CASE RobotsRead(p)
    <3>1. p \in UnderWay \ company /\ p \in Uncounted
      BY <1>1, <2>0, <2>2, RobotsMove DEF UnderWay, Uncounted, RobotsRead
    <3>2. robots'.allowed /\ sinceLast >= spacing'
      BY <1>1, <2>0, <2>2, RobotsMove DEF Sends
    <3> QED BY <2>0, <3>1, <3>2 DEF AloneInv
  <2>3. CASE Wake(p)
    <3>1. p \in UnderWay \ company /\ p \in Uncounted
      BY <1>1, <2>0, <2>3, WakeMoves DEF UnderWay, Uncounted, Wake
    <3>2. UNCHANGED <<robots, spacing>>
      BY <2>3 DEF Wake, policy
    <3>3. probe[p].stage = "sleeping" /\ probe[p].wait = 0
      BY <2>0, <2>3, WakeMoves
    <3> QED BY <2>0, <3>1, <3>2, <3>3 DEF AloneInv
  <2>4. Check(p) \/ RobotsRead(p) \/ Wake(p)
    <3>1. ASSUME NEW r \in Probers, Check(r) \/ Progress(r), r # p PROVE FALSE
      <4>1. OnlyMoves(r)
        BY <2>0, <3>1, ChecksMove, RobotsMove, WakeMoves, AnswerMoves DEF Progress
      <4> QED BY <1>1, <3>1, <4>1 DEF OnlyMoves, Sends
    <3>2. ~Answer(p)
      BY <1>1, <2>0, AnswerMoves DEF Sends
    <3>3. ~BeginCycle /\ ~Tick /\ ~UNCHANGED vars
      BY <1>1, <2>0, TickMoves DEF Sends, BeginCycle, vars
    <3> QED BY <1>1, <3>1, <3>2, <3>3 DEF Next, Progress
  <2> QED BY <2>1, <2>2, <2>3, <2>4
<1>2. IInv /\ [Next]_vars =>
         \A p \in Probers : Sends(p) /\ p \notin company' =>
            /\ cooldown = 0 /\ openFor = 0
            /\ spent < MaxChecks
            /\ robots'.allowed
            /\ sinceLast >= spacing'
  BY <1>1
<1> QED BY <1>2, InvHolds, PTL DEF Spec, AloneIsPolite

\* An open breaker is closed early only by an answer to one of several checks.
THEOREM BreakerStaysOpen == Spec => BreakerHolds
<1>1. ASSUME IInv, [Next]_vars, openFor > 1, openFor' = 0
      PROVE  \E p \in company : probe[p].stage = "sent" /\ probe'[p].stage = "idle"
  <2>0. TypeOK /\ AloneInv /\ openFor \in Nat
    BY <1>1, CheckerAssumption DEF IInv, TypeOK
  <2>1. PICK p \in Probers : Answer(p)
    <3>1. \A p \in Probers : ~Check(p) /\ ~RobotsRead(p) /\ ~Wake(p)
      BY <1>1, <2>0 DEF Check, RobotsRead, Wake, breaker
    <3>2. ~BeginCycle /\ ~Tick /\ ~UNCHANGED vars
      BY <1>1, <2>0 DEF BeginCycle, Tick, Down, Larger, vars, breaker
    <3> QED BY <1>1, <3>1, <3>2 DEF Next, Progress
  <2>2. probe[p].stage = "sent" /\ probe'[p].stage = "idle"
    BY <2>0, <2>1, AnswerMoves
  <2>3. p \in company
    BY <1>1, <2>0, <2>2 DEF AloneInv, UnderWay
  <2> QED BY <2>2, <2>3
<1>2. IInv /\ [Next]_vars =>
         (openFor > 1 /\ openFor' = 0 =>
            \E p \in company : probe[p].stage = "sent" /\ probe'[p].stage = "idle")
  BY <1>1
<1> QED BY <1>2, InvHolds, PTL DEF Spec, BreakerHolds
=============================================================================
