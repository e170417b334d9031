--------------------------- MODULE Discovery_proofs ---------------------------
(***************************************************************************)
(* Theorems about discovery, for any sources, robots.txt files, limits and *)
(* failures: robots.txt is obeyed, turns are a crawl delay apart, and no   *)
(* more sources are busy than there are runners.                           *)
(***************************************************************************)
EXTENDS Discovery, FiniteSetTheorems, TLAPS

USE DiscoveryAssumption, DelayAssumption

-----------------------------------------------------------------------------
(* Verdicts: the path decides what is allowed, the file alone the delay.   *)

DelayAt(i) == Verdict[i][site[OriginOf(i)]].delay

AnyVerdict == {Verdict[i][name] : i \in Sources, name \in Fetches} \cup {Refusal}

\* What a file that could be read says of the delay, whoever asks.
LEMMA ReadDelay ==
    ASSUME NEW file, NEW p, NEW q, NEW us
    PROVE  Evaluate("read", file, p, us).delay = Evaluate("read", file, q, us).delay
<1>1. \A path : Evaluate("read", file, path, us) =
          [allowed |-> PathAllowed(path, GroupFor(file, us)), delay |-> GroupFor(file, us).delay]
  BY Zenon DEF Evaluate
<1> QED BY <1>1

LEMMA VerdictAt ==
    ASSUME NEW i \in Sources, NEW name \in Fetches
    PROVE  Verdict[i][name] =
               IF name \in DOMAIN Files
               THEN Evaluate("read", Files[name], Source[i].path, Us)
               ELSE Evaluate(name, <<>>, Source[i].path, Us)
BY Zenon DEF Verdict

LEMMA VerdictFacts ==
    ASSUME NEW i \in Sources, NEW j \in Sources, NEW name \in Fetches
    PROVE  /\ Verdict[i][name].delay = Verdict[j][name].delay
           /\ Verdict[i]["unreadable"] = Refusal
<1>1. ASSUME name \in DOMAIN Files PROVE Verdict[i][name].delay = Verdict[j][name].delay
  <2>1. /\ Verdict[i][name] = Evaluate("read", Files[name], Source[i].path, Us)
        /\ Verdict[j][name] = Evaluate("read", Files[name], Source[j].path, Us)
    BY <1>1, VerdictAt, Zenon
  <2>2. Evaluate("read", Files[name], Source[i].path, Us).delay
            = Evaluate("read", Files[name], Source[j].path, Us).delay
    BY ReadDelay, ZenonT(60)
  <2> QED BY <2>1, <2>2
<1>2. ASSUME name \notin DOMAIN Files PROVE Verdict[i][name].delay = Verdict[j][name].delay
  <2>1. /\ Verdict[i][name] = Evaluate(name, <<>>, Source[i].path, Us)
        /\ Verdict[j][name] = Evaluate(name, <<>>, Source[j].path, Us)
    BY <1>2, VerdictAt, Zenon
  <2>2. CASE name = "missing"
    BY <2>1, <2>2 DEF Evaluate
  <2>3. CASE name = "unreadable"
    BY <2>1, <2>3 DEF Evaluate
  <2> QED BY <1>2, <2>2, <2>3 DEF Fetches
<1>3. Verdict[i]["unreadable"] = Refusal
  <2>1. "unreadable" \in Fetches /\ "unreadable" \notin DOMAIN Files
    BY DEF Fetches
  <2>2. Verdict[i]["unreadable"] = Evaluate("unreadable", <<>>, Source[i].path, Us)
    BY <2>1, VerdictAt, Zenon
  <2> QED BY <2>2 DEF Evaluate
<1> QED BY <1>1, <1>2, <1>3

-----------------------------------------------------------------------------
(* Types.  The bound on `turn` is not here: it depends on who waits.       *)

Place == {"waiting"} \cup Busy \cup Settled

TypeInv ==
    /\ \A o \in Origins : site[o] \in Served[o]
    /\ DOMAIN cache = Origins
    /\ \A o \in Origins : /\ cache[o] \in [verdict : AnyVerdict, age : 0 .. Ttl]
                          /\ cache[o].verdict \in Verdicts(o)
    /\ turn \in [Origins -> Int]
    /\ \A o \in Origins : turn[o] >= -MaxDelay
    /\ phase \in [Sources -> Place]
    /\ attempt \in [Sources -> 1 .. Retries]
    /\ timer \in [Sources -> Nat]
    /\ quiet \in [Origins -> 0 .. MaxDelay]
    /\ told \subseteq Sources
    /\ \A i \in Sources : phase[i] \in {"robots", "turn"} => Source[i].gated

LEMMA SiteType ==
    ASSUME TypeInv, NEW i \in Sources, Source[i].gated
    PROVE  /\ OriginOf(i) \in Origins /\ site[OriginOf(i)] \in Fetches
           /\ DelayAt(i) \in 0 .. MaxDelay
BY DEF TypeInv, OriginOf, Fetches, DelayAt

LEMMA TypeInit == Init => TypeInv
<1> SUFFICES ASSUME Init PROVE TypeInv
  OBVIOUS
<1>1. \A o \in Origins : Verdicts(o) \subseteq AnyVerdict
  BY DEF Init, Verdicts, Behind, AnyVerdict, Fetches
<1>2. DOMAIN cache = Origins
  BY DEF Init
<1>3. ASSUME NEW o \in Origins
      PROVE  cache[o] \in [verdict : AnyVerdict, age : 0 .. Ttl]
  <2>1. cache[o] \in {Unknown} \cup
            {[verdict |-> v, age |-> 0] : v \in UNION {Verdicts(q) : q \in Origins}}
    BY DEF Init
  <2>2. Unknown \in [verdict : AnyVerdict, age : 0 .. Ttl]
    BY DEF Unknown, AnyVerdict
  <2> QED BY <1>1, <2>1, <2>2
<1>4. turn \in [Origins -> Int] /\ \A o \in Origins : turn[o] >= -MaxDelay
  BY DEF Init
<1> QED BY <1>2, <1>3, <1>4 DEF Init, TypeInv, Place, Busy, Settled

-----------------------------------------------------------------------------
(* What a step of a source does to the gate: nothing, or it asks at once,  *)
(* or it reserves a turn, or its turn has come.                            *)

Moves(i, place, ticks) ==
    /\ phase' = [phase EXCEPT ![i] = place]
    /\ timer' = [timer EXCEPT ![i] = ticks]

Vouched(i) == \E k \in Behind(OriginOf(i)) : Verdict[k][site[OriginOf(i)]].allowed

Leaves(i) ==
    /\ phase[i] # "turn"
    /\ UNCHANGED <<turn, quiet>>
    /\ \E place \in (Busy \cup Settled) \ {"turn"}, ticks \in Nat :
          /\ Moves(i, place, ticks)
          /\ place = "robots" => Source[i].gated
          /\ place = "list" => ~Source[i].gated

AsksAtOnce(i) ==
    /\ phase[i] # "turn" /\ Source[i].gated /\ Vouched(i)
    /\ DelayAt(i) = 0 \/ DelayAt(i) + turn[OriginOf(i)] <= 0
    /\ Moves(i, "list", 0)
    /\ turn' = [turn EXCEPT ![OriginOf(i)] = 0]
    /\ quiet' = [quiet EXCEPT ![OriginOf(i)] = 0]

Reserves(i) ==
    /\ phase[i] # "turn" /\ Source[i].gated /\ Vouched(i)
    /\ DelayAt(i) > 0 /\ DelayAt(i) + turn[OriginOf(i)] > 0
    /\ Moves(i, "turn", DelayAt(i) + turn[OriginOf(i)])
    /\ turn' = [turn EXCEPT ![OriginOf(i)] = DelayAt(i) + turn[OriginOf(i)]]
    /\ quiet' = quiet

Wakes(i) ==
    /\ phase[i] = "turn" /\ timer[i] = 0 /\ Source[i].gated
    /\ Moves(i, "list", 0)
    /\ turn' = turn
    /\ quiet' = [quiet EXCEPT ![OriginOf(i)] = 0]

Kinds(i) == Leaves(i) \/ AsksAtOnce(i) \/ Reserves(i) \/ Wakes(i)

\* What is so for every one of them.
Frame(i) ==
    /\ site' = site
    /\ phase[i] \notin Settled
    /\ phase[i] = "waiting" => Cardinality({j \in Sources : phase[j] \in Busy}) < Concurrency
    /\ \/ told' = told
       \/ told' = told \cup {i} /\ phase'[i] = "failed"
    /\ attempt' \in [Sources -> 1 .. Retries]
    /\ DOMAIN cache' = Origins
    /\ \A o \in Origins : /\ cache'[o] \in [verdict : AnyVerdict, age : 0 .. Ttl]
                          /\ cache'[o].verdict \in Verdicts(o)

\* A failure, whatever it is for.
LEMMA FailsKind ==
    ASSUME TypeInv, NEW i \in Sources, NEW refusal \in BOOLEAN, phase[i] # "turn",
           Fails(i, refusal)
    PROVE  /\ Leaves(i)
           /\ attempt' \in [Sources -> 1 .. Retries]
           /\ \/ told' = told
              \/ told' = told \cup {i} /\ phase'[i] = "failed"
<1>1. CASE refusal \/ attempt[i] = Retries
  <2>1. Moves(i, "failed", 0) /\ attempt' = attempt
    BY <1>1 DEF Fails, Final, Goes, Moves
  <2>2. Leaves(i)
    BY <2>1 DEF Fails, Leaves, Settled, Busy
  <2>3. phase'[i] = "failed"
    BY <2>1 DEF Moves, TypeInv
  <2> QED BY <2>1, <2>2, <2>3 DEF TypeInv, Fails
<1>2. CASE ~refusal /\ attempt[i] # Retries
  <2>1. Moves(i, "backoff", Backoff) /\ attempt' = [attempt EXCEPT ![i] = @ + 1]
    BY <1>2 DEF Fails, Final, Goes, Moves
  <2>2. Leaves(i)
    BY <2>1 DEF Fails, Leaves, Settled, Busy
  <2>3. attempt' \in [Sources -> 1 .. Retries]
    BY <1>2, <2>1 DEF TypeInv
  <2> QED BY <1>2, <2>2, <2>3 DEF Fails
<1> QED BY <1>1, <1>2

\* A verdict that the gate may have for the origin, obeyed.
LEMMA ObeyKind ==
    ASSUME TypeInv, NEW i \in Sources, Source[i].gated, phase[i] # "turn",
           NEW v \in Verdicts(OriginOf(i)), Obey(i, v)
    PROVE  /\ Leaves(i) \/ AsksAtOnce(i) \/ Reserves(i)
           /\ attempt' \in [Sources -> 1 .. Retries]
           /\ \/ told' = told
              \/ told' = told \cup {i} /\ phase'[i] = "failed"
<1> DEFINE o == OriginOf(i)
           d == DelayAt(i)
<1>1. /\ o \in Origins /\ site[o] \in Fetches /\ d \in Nat
      /\ turn \in [Origins -> Int]
  BY SiteType DEF TypeInv
<1>2. CASE ~v.allowed
  <2>1. Fails(i, TRUE)
    BY <1>2 DEF Obey
  <2> QED BY <2>1, FailsKind
<1>3. CASE v.allowed
  <2>1. PICK k \in Behind(o) : v = Verdict[k][site[o]]
    BY <1>3 DEF Verdicts, Refusal
  <2>2. Vouched(i)
    BY <1>3, <2>1 DEF Vouched
  <2>3. v.delay = d
    BY <1>1, <2>1, VerdictFacts DEF Behind, DelayAt
  <2>4. WaitForTurn(i, d)
    BY <1>3, <2>3 DEF Obey
  <2>5. CASE d = 0 \/ d + turn[o] <= 0
    <3>1. (IF d = 0 THEN 0 ELSE Larger(0, d + turn[o])) = 0
      BY <1>1, <2>5 DEF Larger
    <3>2. Asks(i) /\ turn' = [turn EXCEPT ![o] = 0]
      BY <2>4, <3>1, Zenon DEF WaitForTurn, Reserved
    <3>3. AsksAtOnce(i)
      BY <2>2, <2>5, <3>2 DEF AsksAtOnce, Asks, Goes, Moves
    <3> QED BY <3>2, <3>3 DEF Asks, TypeInv
  <2>6. CASE d # 0 /\ d + turn[o] > 0
    <3>1. (IF d = 0 THEN 0 ELSE Larger(0, d + turn[o])) = d + turn[o]
      BY <1>1, <2>6 DEF Larger
    <3>2. /\ turn' = [turn EXCEPT ![o] = d + turn[o]]
          /\ IF d + turn[o] = 0 THEN Asks(i)
             ELSE /\ Goes(i, "turn", d + turn[o])
                  /\ UNCHANGED <<quiet, attempt, results, delivered, told>>
      BY <2>4, <3>1, Zenon DEF WaitForTurn, Reserved
    <3>3. /\ Goes(i, "turn", d + turn[o])
          /\ UNCHANGED <<quiet, attempt, results, delivered, told>>
      BY <1>1, <2>6, <3>2
    <3>4. Reserves(i)
      BY <1>1, <2>2, <2>6, <3>2, <3>3 DEF Reserves, Goes, Moves
    <3> QED BY <3>3, <3>4 DEF TypeInv
  <2> QED BY <1>1, <2>5, <2>6
<1> QED BY <1>2, <1>3

LEMMA ProgressKinds ==
    ASSUME TypeInv, NEW i \in Sources, Progress(i)
    PROVE  Kinds(i) /\ Frame(i)
<1> DEFINE o == OriginOf(i)
<1>0. /\ attempt \in [Sources -> 1 .. Retries] /\ DOMAIN cache = Origins
      /\ \A q \in Origins : /\ cache[q] \in [verdict : AnyVerdict, age : 0 .. Ttl]
                            /\ cache[q].verdict \in Verdicts(q)
  BY DEF TypeInv
<1>1. CASE Attempt(i)
  <2>1. /\ phase[i] \in {"waiting", "backoff"} /\ phase[i] # "turn" /\ phase[i] \notin Settled
        /\ phase[i] = "waiting" => Cardinality({j \in Sources : phase[j] \in Busy}) < Concurrency
        /\ site' = site /\ cache' = cache
    BY <1>1 DEF Attempt, NextFor, Settled
  <2>2. CASE ~Source[i].gated /\ Asks(i) /\ UNCHANGED turn
    <3>1. Moves(i, "list", 0) /\ UNCHANGED <<turn, quiet, attempt, told>>
      BY <2>2 DEF Asks, Goes, Moves
    <3>2. Leaves(i)
      BY <2>1, <2>2, <3>1 DEF Leaves, Busy
    <3> QED BY <1>0, <2>1, <3>1, <3>2 DEF Kinds, Frame
  <2>3. CASE Source[i].gated /\ Fresh(o) /\ Obey(i, cache[o].verdict)
    <3>1. cache[o].verdict \in Verdicts(o)
      BY <1>0, <2>3, SiteType
    <3>2. /\ Leaves(i) \/ AsksAtOnce(i) \/ Reserves(i)
          /\ attempt' \in [Sources -> 1 .. Retries]
          /\ \/ told' = told
             \/ told' = told \cup {i} /\ phase'[i] = "failed"
      BY <2>1, <2>3, <3>1, ObeyKind
    <3> QED BY <1>0, <2>1, <3>2 DEF Kinds, Frame
  <2>4. CASE /\ Source[i].gated /\ Goes(i, "robots", 0)
             /\ UNCHANGED <<turn, quiet, attempt, results, delivered, told>>
    <3>1. Moves(i, "robots", 0) /\ UNCHANGED <<turn, quiet>> /\ Source[i].gated
      BY <2>4 DEF Goes, Moves
    <3>2. Leaves(i)
      BY <2>1, <3>1 DEF Leaves, Busy
    <3> QED BY <1>0, <2>1, <2>4, <3>2 DEF Kinds, Frame
  <2> QED BY <1>1, <2>2, <2>3, <2>4 DEF Attempt
<1>2. CASE RobotsRead(i)
  <2>1. /\ phase[i] = "robots" /\ phase[i] # "turn" /\ phase[i] \notin Settled /\ site' = site
        /\ Source[i].gated
    BY <1>2 DEF RobotsRead, TypeInv, Settled
  <2>2. PICK name \in {site[o], "unreadable"} :
           /\ cache' = [cache EXCEPT ![o] = [verdict |-> Verdict[i][name], age |-> 0]]
           /\ Obey(i, Verdict[i][name])
    BY <1>2 DEF RobotsRead
  <2>3. o \in Origins /\ site[o] \in Fetches /\ i \in Behind(o)
    BY <2>1, SiteType DEF Behind
  <2>4. Verdict[i][name] \in Verdicts(o)
    <3>1. CASE name = site[o]
      BY <2>3, <3>1 DEF Verdicts
    <3>2. CASE name = "unreadable"
      BY <2>3, <3>2, VerdictFacts DEF Verdicts
    <3> QED BY <2>2, <3>1, <3>2
  <2>5. Verdict[i][name] \in AnyVerdict
    BY <2>2, <2>3 DEF AnyVerdict, Fetches
  <2>6. /\ Leaves(i) \/ AsksAtOnce(i) \/ Reserves(i)
        /\ attempt' \in [Sources -> 1 .. Retries]
        /\ \/ told' = told
           \/ told' = told \cup {i} /\ phase'[i] = "failed"
    BY <2>1, <2>2, <2>4, ObeyKind
  <2>7. /\ DOMAIN cache' = Origins
        /\ \A q \in Origins : /\ cache'[q] \in [verdict : AnyVerdict, age : 0 .. Ttl]
                              /\ cache'[q].verdict \in Verdicts(q)
    BY <1>0, <2>2, <2>3, <2>4, <2>5
  <2> QED BY <2>1, <2>6, <2>7 DEF Kinds, Frame
<1>3. CASE Wake(i)
  <2>1. Source[i].gated /\ site' = site /\ cache' = cache /\ UNCHANGED <<turn, attempt, told>>
    BY <1>3 DEF Wake, Asks, TypeInv
  <2>2. Wakes(i)
    BY <1>3, <2>1 DEF Wake, Wakes, Asks, Goes, Moves
  <2> QED BY <1>0, <1>3, <2>1, <2>2 DEF Kinds, Frame, Wake, Settled
<1>4. CASE Returns(i)
  <2>1. Moves(i, "ok", 0) /\ UNCHANGED <<site, cache, turn, attempt, quiet, told>>
    BY <1>4 DEF Returns, Goes, Moves
  <2>2. Leaves(i)
    BY <1>4, <2>1 DEF Returns, Leaves, Settled, Busy
  <2> QED BY <1>0, <1>4, <2>1, <2>2 DEF Returns, Kinds, Frame, Settled
<1>5. CASE Breaks(i)
  <2>1. PICK refusal \in BOOLEAN : Fails(i, refusal)
    BY <1>5 DEF Breaks
  <2>2. phase[i] = "list" /\ site' = site /\ cache' = cache
    BY <1>5 DEF Breaks
  <2>3. /\ Leaves(i)
        /\ attempt' \in [Sources -> 1 .. Retries]
        /\ \/ told' = told
           \/ told' = told \cup {i} /\ phase'[i] = "failed"
    BY <2>1, <2>2, FailsKind
  <2> QED BY <1>0, <2>2, <2>3 DEF Kinds, Frame, Settled
<1> QED BY <1>1, <1>2, <1>3, <1>4, <1>5 DEF Progress

-----------------------------------------------------------------------------
(* The gate.  Whoever waits has a turn reserved, the turns of an origin    *)
(* are a crawl delay apart, and by then the origin has been left alone for *)
(* as long; the latest turn is never behind the latest fetch.              *)

Waits(i) == phase[i] = "turn"

Turns ==
    \A i \in Sources : Waits(i) =>
        /\ DelayAt(i) > 0
        /\ timer[i] <= turn[OriginOf(i)]
        /\ quiet[OriginOf(i)] + timer[i] >= DelayAt(i)

Apart ==
    \A i, j \in Sources :
        i # j /\ Waits(i) /\ Waits(j) /\ OriginOf(i) = OriginOf(j) =>
            timer[i] >= timer[j] + DelayAt(i) \/ timer[j] >= timer[i] + DelayAt(i)

Behindhand == \A o \in Origins : quiet[o] >= -turn[o]

\* Who is fetched, or waits for it, has been let through.
Obeyed ==
    \A i \in Sources : phase[i] \in {"turn", "list"} /\ Source[i].gated => Vouched(i)

Runners == Cardinality({i \in Sources : phase[i] \in Busy}) <= Concurrency

ToldFailed == \A i \in told : phase[i] = "failed"

GateInv == TypeInv /\ Turns /\ Apart /\ Behindhand

\* Sources of an origin share its delay.
LEMMA SameDelay ==
    ASSUME TypeInv, NEW i \in Sources, NEW j \in Sources, Source[i].gated,
           OriginOf(i) = OriginOf(j)
    PROVE  DelayAt(i) = DelayAt(j)
BY SiteType, VerdictFacts DEF DelayAt

LEMMA GatedWait ==
    ASSUME TypeInv, NEW i \in Sources, Waits(i)
    PROVE  /\ Source[i].gated /\ OriginOf(i) \in Origins
           /\ DelayAt(i) \in 0 .. MaxDelay /\ timer[i] \in Nat
           /\ turn[OriginOf(i)] \in Int /\ quiet[OriginOf(i)] \in Nat
<1>1. Source[i].gated
  BY DEF Waits, TypeInv
<1>2. OriginOf(i) \in Origins /\ DelayAt(i) \in 0 .. MaxDelay
  BY <1>1, SiteType
<1> QED BY <1>1, <1>2 DEF TypeInv

\* Nobody waits where a turn is free at once.
LEMMA NobodyWaits ==
    ASSUME GateInv, NEW i \in Sources, NEW j \in Sources, Source[i].gated,
           OriginOf(j) = OriginOf(i),
           DelayAt(i) = 0 \/ DelayAt(i) + turn[OriginOf(i)] <= 0
    PROVE  ~Waits(j)
<1> SUFFICES ASSUME Waits(j) PROVE FALSE
  OBVIOUS
<1>1. DelayAt(i) = DelayAt(j)
  BY SameDelay DEF GateInv
<1>2. DelayAt(j) > 0 /\ timer[j] <= turn[OriginOf(j)]
  BY DEF GateInv, Turns
<1> QED BY <1>1, <1>2, GatedWait DEF GateInv

\* A step of a source leaves the others where they are.
LEMMA Others ==
    ASSUME TypeInv, NEW i \in Sources, NEW j \in Sources, j # i,
           NEW place, NEW ticks, Moves(i, place, ticks)
    PROVE  phase'[j] = phase[j] /\ timer'[j] = timer[j]
BY DEF Moves, TypeInv

LEMMA Mover ==
    ASSUME TypeInv, NEW i \in Sources, NEW place, NEW ticks, Moves(i, place, ticks)
    PROVE  phase'[i] = place /\ timer'[i] = ticks
BY DEF Moves, TypeInv

LEMMA Excepted ==
    ASSUME NEW D, NEW R, NEW f \in [D -> R], NEW x, NEW v \in R
    PROVE  [f EXCEPT ![x] = v] \in [D -> R]
OBVIOUS

LEMMA MoveType ==
    ASSUME TypeInv, NEW i \in Sources, Kinds(i)
    PROVE  /\ turn' \in [Origins -> Int]
           /\ \A o \in Origins : turn'[o] >= -MaxDelay
           /\ phase' \in [Sources -> Place]
           /\ timer' \in [Sources -> Nat]
           /\ quiet' \in [Origins -> 0 .. MaxDelay]
           /\ \A j \in Sources : phase'[j] \in {"robots", "turn"} => Source[j].gated
           /\ \E place \in Busy \cup Settled, ticks \in Nat : Moves(i, place, ticks)
<1>0. /\ turn \in [Origins -> Int] /\ \A o \in Origins : turn[o] >= -MaxDelay
      /\ phase \in [Sources -> Place] /\ timer \in [Sources -> Nat]
      /\ quiet \in [Origins -> 0 .. MaxDelay]
      /\ \A j \in Sources : phase[j] \in {"robots", "turn"} => Source[j].gated
  BY DEF TypeInv
<1>b. MaxDelay \in Nat /\ 0 \in 0 .. MaxDelay /\ 0 >= -MaxDelay
  OBVIOUS
<1>a. ASSUME NEW place \in Busy \cup Settled, NEW ticks \in Nat, Moves(i, place, ticks),
             place \in {"robots", "turn"} => Source[i].gated
      PROVE  /\ phase' \in [Sources -> Place] /\ timer' \in [Sources -> Nat]
             /\ \A j \in Sources : phase'[j] \in {"robots", "turn"} => Source[j].gated
             /\ \E p \in Busy \cup Settled, t \in Nat : Moves(i, p, t)
  BY <1>0, <1>a DEF Moves, Place
<1>1. CASE Leaves(i)
  <2>1. PICK place \in (Busy \cup Settled) \ {"turn"}, ticks \in Nat :
            Moves(i, place, ticks) /\ (place = "robots" => Source[i].gated)
    BY <1>1 DEF Leaves
  <2> QED BY <1>0, <1>1, <1>a, <2>1 DEF Leaves
<1>2. CASE AsksAtOnce(i)
  <2>1. /\ turn' = [turn EXCEPT ![OriginOf(i)] = 0]
        /\ quiet' = [quiet EXCEPT ![OriginOf(i)] = 0]
        /\ Moves(i, "list", 0) /\ "list" \in Busy
    BY <1>2 DEF AsksAtOnce, Busy
  <2>2. /\ phase' \in [Sources -> Place] /\ timer' \in [Sources -> Nat]
        /\ \A j \in Sources : phase'[j] \in {"robots", "turn"} => Source[j].gated
        /\ \E p \in Busy \cup Settled, t \in Nat : Moves(i, p, t)
    BY <1>a, <2>1
  <2>3. turn' \in [Origins -> Int] /\ \A o \in Origins : turn'[o] >= -MaxDelay
    <3>1. turn \in [Origins -> Int] /\ turn' = [turn EXCEPT ![OriginOf(i)] = 0]
      BY <1>0, <2>1
    <3>2. turn' \in [Origins -> Int]
      BY <3>1, 0 \in Int, Excepted, Zenon
    <3>3. \A o \in Origins : turn'[o] = 0 \/ turn'[o] = turn[o]
      BY <3>1
    <3> QED BY <1>0, <1>b, <3>2, <3>3
  <2>4. quiet' \in [Origins -> 0 .. MaxDelay]
    BY <1>0, <1>b, <2>1
  <2> QED BY <2>2, <2>3, <2>4
<1>3. CASE Reserves(i)
  <2>1. /\ OriginOf(i) \in Origins /\ DelayAt(i) \in Nat /\ Source[i].gated
        /\ DelayAt(i) + turn[OriginOf(i)] \in Nat
    BY <1>0, <1>3, SiteType DEF Reserves
  <2>2. /\ turn' = [turn EXCEPT ![OriginOf(i)] = DelayAt(i) + turn[OriginOf(i)]]
        /\ quiet' = quiet
        /\ Moves(i, "turn", DelayAt(i) + turn[OriginOf(i)]) /\ "turn" \in Busy
    BY <1>3 DEF Reserves, Busy
  <2> DEFINE t == DelayAt(i) + turn[OriginOf(i)]
  <2>3. /\ t \in Nat /\ turn' = [turn EXCEPT ![OriginOf(i)] = t]
        /\ Moves(i, "turn", t) /\ "turn" \in Busy \cup Settled
    BY <2>1, <2>2
  <2> HIDE DEF t
  <2>4. /\ phase' \in [Sources -> Place] /\ timer' \in [Sources -> Nat]
        /\ \A j \in Sources : phase'[j] \in {"robots", "turn"} => Source[j].gated
        /\ \E p \in Busy \cup Settled, n \in Nat : Moves(i, p, n)
    BY <1>a, <2>1, <2>3
  <2>5. /\ turn \in [Origins -> Int] /\ t \in Int /\ t >= -MaxDelay
        /\ \A o \in Origins : turn[o] >= -MaxDelay
    BY <1>0, <2>3
  <2>6. turn' \in [Origins -> Int]
    BY <2>3, <2>5, Excepted, Zenon
  <2>7. \A o \in Origins : turn'[o] = t \/ turn'[o] = turn[o]
    BY <2>3, <2>5
  <2> QED BY <1>0, <2>2, <2>4, <2>5, <2>6, <2>7
<1>4. CASE Wakes(i)
  <2>1. /\ turn' = turn
        /\ quiet' = [quiet EXCEPT ![OriginOf(i)] = 0]
        /\ Moves(i, "list", 0) /\ "list" \in Busy
    BY <1>4 DEF Wakes, Busy
  <2>2. /\ phase' \in [Sources -> Place] /\ timer' \in [Sources -> Nat]
        /\ \A j \in Sources : phase'[j] \in {"robots", "turn"} => Source[j].gated
        /\ \E p \in Busy \cup Settled, t \in Nat : Moves(i, p, t)
    BY <1>a, <2>1
  <2>3. turn' \in [Origins -> Int] /\ \A o \in Origins : turn'[o] >= -MaxDelay
    BY <1>0, <1>b, <2>1
  <2>4. quiet' \in [Origins -> 0 .. MaxDelay]
    BY <1>0, <1>b, <2>1
  <2> QED BY <2>2, <2>3, <2>4
<1> QED BY <1>1, <1>2, <1>3, <1>4 DEF Kinds

LEMMA SameSite ==
    ASSUME site' = site, NEW i \in Sources
    PROVE  /\ DelayAt(i)' = DelayAt(i)
           /\ Vouched(i)' = Vouched(i)
           /\ \A o : Verdicts(o)' = Verdicts(o)
BY DEF DelayAt, Vouched, Verdicts

LEMMA ProgressType ==
    ASSUME TypeInv, NEW i \in Sources, Kinds(i), Frame(i)
    PROVE  TypeInv'
<1>1. site' = site /\ \A o : Verdicts(o)' = Verdicts(o)
  BY SameSite DEF Frame
<1>2. told' \subseteq Sources
  BY DEF Frame, TypeInv
<1>3. \A o \in Origins : site'[o] \in Served[o]
  BY <1>1 DEF TypeInv
<1>4. /\ DOMAIN cache' = Origins
      /\ \A o \in Origins : /\ cache'[o] \in [verdict : AnyVerdict, age : 0 .. Ttl]
                            /\ cache'[o].verdict \in Verdicts(o)'
  BY <1>1 DEF Frame
<1>5. /\ turn' \in [Origins -> Int] /\ \A o \in Origins : turn'[o] >= -MaxDelay
      /\ phase' \in [Sources -> Place] /\ timer' \in [Sources -> Nat]
      /\ quiet' \in [Origins -> 0 .. MaxDelay]
      /\ \A j \in Sources : phase'[j] \in {"robots", "turn"} => Source[j].gated
  BY MoveType
<1>6. attempt' \in [Sources -> 1 .. Retries]
  BY DEF Frame
<1> QED BY <1>2, <1>3, <1>4, <1>5, <1>6 DEF TypeInv

LEMMA TickType == TypeInv /\ Tick => TypeInv'
<1> SUFFICES ASSUME TypeInv, Tick PROVE TypeInv'
  OBVIOUS
<1>1. \A o : Verdicts(o)' = Verdicts(o)
  BY DEF Tick, Verdicts
<1>2. /\ DOMAIN cache' = Origins
      /\ \A o \in Origins : /\ cache'[o] \in [verdict : AnyVerdict, age : 0 .. Ttl]
                            /\ cache'[o].verdict = cache[o].verdict
  <2>1. DOMAIN cache' = Origins
    BY DEF Tick
  <2>2. ASSUME NEW o \in Origins
        PROVE  /\ cache'[o] \in [verdict : AnyVerdict, age : 0 .. Ttl]
               /\ cache'[o].verdict = cache[o].verdict
    <3>1. cache[o] \in [verdict : AnyVerdict, age : 0 .. Ttl]
      BY DEF TypeInv
    <3>2. cache'[o] = [cache[o] EXCEPT !.age = Smaller(Ttl, @ + 1)]
      BY DEF Tick
    <3>3. Smaller(Ttl, cache[o].age + 1) \in 0 .. Ttl
      BY <3>1 DEF Smaller
    <3> QED BY <3>1, <3>2, <3>3
  <2> QED BY <2>1, <2>2
<1>3. turn' \in [Origins -> Int] /\ \A o \in Origins : turn'[o] >= -MaxDelay
  <2>1. ASSUME NEW o \in Origins
        PROVE  /\ Larger(-MaxDelay, turn[o] - 1) \in Int
               /\ Larger(-MaxDelay, turn[o] - 1) >= -MaxDelay
    <3>1. turn[o] \in Int
      BY DEF TypeInv
    <3> QED BY <3>1 DEF Larger
  <2>2. turn' = [o \in Origins |-> Larger(-MaxDelay, turn[o] - 1)]
    BY DEF Tick
  <2> QED BY <2>1, <2>2
<1>4. timer' \in [Sources -> Nat] /\ quiet' \in [Origins -> 0 .. MaxDelay]
  <2>1. ASSUME NEW j \in Sources PROVE Larger(0, timer[j] - 1) \in Nat
    <3>1. timer[j] \in Nat
      BY DEF TypeInv
    <3> QED BY <3>1 DEF Larger
  <2>2. ASSUME NEW o \in Origins PROVE Smaller(MaxDelay, quiet[o] + 1) \in 0 .. MaxDelay
    <3>1. quiet[o] \in 0 .. MaxDelay
      BY DEF TypeInv
    <3> QED BY <3>1 DEF Smaller
  <2>3. /\ timer' = [j \in Sources |-> Larger(0, timer[j] - 1)]
        /\ quiet' = [o \in Origins |-> Smaller(MaxDelay, quiet[o] + 1)]
    BY DEF Tick
  <2> QED BY <2>1, <2>2, <2>3
<1> QED BY <1>1, <1>2, <1>3, <1>4 DEF Tick, TypeInv, AnyVerdict

-----------------------------------------------------------------------------
(* The gate is kept by each kind of step.                                  *)

LEMMA TurnTick ==
    ASSUME NEW t \in Int, NEW x \in Nat, x <= t, NEW m \in Nat
    PROVE  x - 1 <= Larger(-m, t - 1)
BY DEF Larger

LEMMA QuietTick ==
    ASSUME NEW m \in Nat, NEW q \in 0 .. m, NEW x \in Nat, NEW d \in Nat,
           x # 0, d <= m, q + x >= d
    PROVE  Smaller(m, q + 1) + (x - 1) >= d
BY DEF Smaller

\* What the gate says of two sources, made a fact about them.
LEMMA GateFacts ==
    ASSUME GateInv, NEW j \in Sources, Waits(j)
    PROVE  /\ DelayAt(j) > 0
           /\ timer[j] <= turn[OriginOf(j)]
           /\ quiet[OriginOf(j)] + timer[j] >= DelayAt(j)
           /\ DelayAt(j) \in Nat /\ timer[j] \in Nat
           /\ turn[OriginOf(j)] \in Int /\ quiet[OriginOf(j)] \in Nat
           /\ OriginOf(j) \in Origins
BY GatedWait DEF GateInv, Turns

LEMMA ApartFacts ==
    ASSUME GateInv, NEW j \in Sources, NEW k \in Sources, j # k, Waits(j), Waits(k),
           OriginOf(j) = OriginOf(k)
    PROVE  timer[j] >= timer[k] + DelayAt(j) \/ timer[k] >= timer[j] + DelayAt(j)
BY DEF GateInv, Apart

LEMMA LeavesGate ==
    ASSUME GateInv, NEW i \in Sources, Leaves(i), Frame(i)
    PROVE  Turns' /\ Apart' /\ Behindhand'
<1>1. PICK place \in (Busy \cup Settled) \ {"turn"}, ticks \in Nat : Moves(i, place, ticks)
  BY DEF Leaves
<1>2. ASSUME NEW j \in Sources, Waits(j)'
      PROVE  Waits(j) /\ timer'[j] = timer[j]
  <2>1. j # i
    BY <1>1, <1>2, Mover DEF GateInv, Waits
  <2> QED BY <1>1, <1>2, <2>1, Others DEF GateInv, Waits
<1>3. turn' = turn /\ quiet' = quiet /\ site' = site
  BY DEF Leaves, Frame
<1>4. ASSUME NEW j \in Sources PROVE DelayAt(j)' = DelayAt(j)
  BY <1>3, SameSite
<1>5. Turns'
  BY <1>2, <1>3, <1>4 DEF GateInv, Turns
<1>6. Apart'
  BY <1>2, <1>4 DEF GateInv, Apart
<1>7. Behindhand'
  BY <1>3 DEF GateInv, Behindhand
<1> QED BY <1>5, <1>6, <1>7

LEMMA AsksGate ==
    ASSUME GateInv, NEW i \in Sources, AsksAtOnce(i), Frame(i)
    PROVE  Turns' /\ Apart' /\ Behindhand'
<1>1. Moves(i, "list", 0) /\ Source[i].gated /\ OriginOf(i) \in Origins /\ site' = site
  BY SiteType DEF AsksAtOnce, GateInv, Frame
<1>2. ASSUME NEW j \in Sources, Waits(j)'
      PROVE  Waits(j) /\ timer'[j] = timer[j] /\ OriginOf(j) # OriginOf(i)
  <2>1. j # i
    BY <1>1, <1>2, Mover DEF GateInv, Waits
  <2>2. Waits(j) /\ timer'[j] = timer[j]
    BY <1>1, <1>2, <2>1, Others DEF GateInv, Waits
  <2>3. OriginOf(j) # OriginOf(i)
    BY <1>1, <2>2, NobodyWaits DEF AsksAtOnce
  <2> QED BY <2>2, <2>3
<1>3. \A o \in Origins :
          /\ turn'[o] = IF o = OriginOf(i) THEN 0 ELSE turn[o]
          /\ quiet'[o] = IF o = OriginOf(i) THEN 0 ELSE quiet[o]
  BY DEF AsksAtOnce, GateInv, TypeInv
<1>4. ASSUME NEW j \in Sources PROVE DelayAt(j)' = DelayAt(j)
  BY <1>1, SameSite
<1>5. Turns'
  <2>1. ASSUME NEW j \in Sources, Waits(j)'
        PROVE  /\ Waits(j) /\ timer'[j] = timer[j]
               /\ turn'[OriginOf(j)] = turn[OriginOf(j)]
               /\ quiet'[OriginOf(j)] = quiet[OriginOf(j)]
    BY <1>2, <1>3, <2>1, GateFacts
  <2> QED BY <1>4, <2>1 DEF GateInv, Turns
<1>6. Apart'
  BY <1>2, <1>4 DEF GateInv, Apart
<1>7. Behindhand'
  BY <1>3 DEF GateInv, Behindhand
<1> QED BY <1>5, <1>6, <1>7

LEMMA ReservesGate ==
    ASSUME GateInv, NEW i \in Sources, Reserves(i), Frame(i)
    PROVE  Turns' /\ Apart' /\ Behindhand'
<1> DEFINE o == OriginOf(i)
           d == DelayAt(i)
<1>1. /\ Moves(i, "turn", d + turn[o]) /\ Source[i].gated /\ site' = site
      /\ ~Waits(i) /\ quiet' = quiet
  BY DEF Reserves, Frame, Waits
<1>2. /\ o \in Origins /\ d \in Nat /\ turn[o] \in Int /\ quiet[o] \in Nat
      /\ d > 0 /\ d + turn[o] > 0 /\ quiet[o] >= -turn[o]
  BY <1>1, SiteType DEF GateInv, TypeInv, Behindhand, Reserves
<1>3. timer'[i] = d + turn[o]
  BY <1>1, Mover DEF GateInv
<1>4. ASSUME NEW j \in Sources, j # i, Waits(j)'
      PROVE  Waits(j) /\ timer'[j] = timer[j]
  BY <1>1, <1>4, Others DEF GateInv, Waits
<1>5. \A q \in Origins : turn'[q] = IF q = o THEN d + turn[o] ELSE turn[q]
  BY DEF Reserves, GateInv, TypeInv
<1>6. ASSUME NEW j \in Sources PROVE DelayAt(j)' = DelayAt(j)
  BY <1>1, SameSite
<1>7. ASSUME NEW j \in Sources, j # i, Waits(j)', OriginOf(j) = o
      PROVE  timer'[i] >= timer'[j] + d
  <2>1. /\ timer'[j] = timer[j] /\ timer[j] \in Nat /\ timer[j] <= turn[o]
    BY <1>4, <1>7, GateFacts
  <2> QED BY <1>2, <1>3, <2>1
<1>8. Turns'
  <2>1. /\ DelayAt(i)' > 0 /\ timer'[i] <= turn'[o] /\ quiet'[o] + timer'[i] >= DelayAt(i)'
    BY <1>1, <1>2, <1>3, <1>5, <1>6
  <2>2. ASSUME NEW j \in Sources, j # i, Waits(j)'
        PROVE  /\ DelayAt(j)' > 0 /\ timer'[j] <= turn'[OriginOf(j)]
               /\ quiet'[OriginOf(j)] + timer'[j] >= DelayAt(j)'
    <3>1. /\ Waits(j) /\ timer'[j] = timer[j] /\ DelayAt(j)' = DelayAt(j)
      BY <1>4, <1>6, <2>2
    <3>a. OriginOf(j) \in Origins /\ turn[OriginOf(j)] \in Int
      BY <3>1, GateFacts
    <3>b. turn'[OriginOf(j)] = IF OriginOf(j) = o THEN d + turn[o] ELSE turn[OriginOf(j)]
      BY <1>5, <3>a, Zenon
    <3>2. turn'[OriginOf(j)] >= turn[OriginOf(j)]
      <4>1. CASE OriginOf(j) = o
        <5> HIDE DEF o, d
        <5> QED BY <1>2, <3>b, <4>1
      <4>2. CASE OriginOf(j) # o
        <5> HIDE DEF o, d
        <5> QED BY <3>a, <3>b, <4>2
      <4> QED BY <4>1, <4>2
    <3>3. turn'[OriginOf(j)] \in Int
      <4> HIDE DEF o, d
      <4> QED BY <1>2, <3>a, <3>b
    <3> QED BY <1>1, <3>1, <3>2, <3>3, GateFacts
  <2> QED BY <2>1, <2>2 DEF Turns, OriginOf
<1>9. Apart'
  <2>1. ASSUME NEW j \in Sources, NEW k \in Sources, j # k, Waits(j)', Waits(k)',
               OriginOf(j) = OriginOf(k)
        PROVE  \/ timer'[j] >= timer'[k] + DelayAt(j)'
               \/ timer'[k] >= timer'[j] + DelayAt(j)'
    <3>1. CASE j = i
      BY <1>6, <1>7, <2>1, <3>1
    <3>2. CASE k = i
      <4>1. timer'[k] >= timer'[j] + d
        BY <1>7, <2>1, <3>2
      <4>2. DelayAt(j)' = d
        BY <1>1, <1>6, <2>1, <3>2, SameDelay DEF GateInv
      <4> QED BY <4>1, <4>2
    <3>3. CASE j # i /\ k # i
      BY <1>4, <1>6, <2>1, <3>3, ApartFacts
    <3> QED BY <3>1, <3>2, <3>3, SMTT(60)
  <2> QED BY <2>1 DEF Apart, OriginOf
<1>10. Behindhand'
  <2>1. ASSUME NEW q \in Origins PROVE quiet'[q] >= -turn'[q]
    <3>1. turn[q] \in Int /\ quiet[q] \in Nat /\ quiet[q] >= -turn[q]
      BY DEF GateInv, TypeInv, Behindhand
    <3>2. CASE q = o
      BY <1>1, <1>2, <1>5, <3>1, <3>2
    <3>3. CASE q # o
      BY <1>1, <1>5, <3>1, <3>3
    <3> QED BY <3>2, <3>3
  <2> QED BY <2>1 DEF Behindhand
<1> QED BY <1>8, <1>9, <1>10

LEMMA WakesGate ==
    ASSUME GateInv, NEW i \in Sources, Wakes(i), Frame(i)
    PROVE  Turns' /\ Apart' /\ Behindhand'
<1> DEFINE o == OriginOf(i)
           d == DelayAt(i)
<1>1. /\ Moves(i, "list", 0) /\ Source[i].gated /\ site' = site /\ Waits(i) /\ timer[i] = 0
      /\ turn' = turn
  BY DEF Wakes, Frame, Waits
<1>2. o \in Origins /\ d \in Nat /\ d > 0 /\ turn[o] \in Int /\ turn[o] >= 0
  BY <1>1, GateFacts
<1>3. ASSUME NEW j \in Sources, Waits(j)'
      PROVE  j # i /\ Waits(j) /\ timer'[j] = timer[j]
  <2>1. j # i
    BY <1>1, <1>3, Mover DEF GateInv, Waits
  <2> QED BY <1>1, <1>3, <2>1, Others DEF GateInv, Waits
<1>4. \A q \in Origins : quiet'[q] = IF q = o THEN 0 ELSE quiet[q]
  BY DEF Wakes, GateInv, TypeInv
<1>5. ASSUME NEW j \in Sources PROVE DelayAt(j)' = DelayAt(j)
  BY <1>1, SameSite
<1>6. Turns'
  <2>1. ASSUME NEW j \in Sources, Waits(j)'
        PROVE  /\ DelayAt(j)' > 0 /\ timer'[j] <= turn'[OriginOf(j)]
               /\ quiet'[OriginOf(j)] + timer'[j] >= DelayAt(j)'
    <3>1. /\ j # i /\ Waits(j) /\ timer'[j] = timer[j] /\ DelayAt(j)' = DelayAt(j)
      BY <1>3, <1>5, <2>1
    <3>2. CASE OriginOf(j) # o
      BY <1>1, <1>4, <3>1, <3>2, GateFacts
    <3>3. CASE OriginOf(j) = o
      <4>1. DelayAt(j) = d
        BY <1>1, <3>3, SameDelay DEF GateInv
      <4>2. timer[j] >= d
        <5>1. timer[j] >= timer[i] + DelayAt(j) \/ timer[i] >= timer[j] + DelayAt(j)
          BY <1>1, <3>1, <3>3, ApartFacts
        <5>2. timer[j] \in Nat /\ timer[i] = 0
          BY <1>1, <3>1, GateFacts
        <5> HIDE DEF o, d
        <5> QED BY <1>2, <4>1, <5>1, <5>2
      <4>3. quiet'[OriginOf(j)] = 0
        BY <1>2, <1>4, <3>3
      <4> QED BY <1>1, <3>1, <4>1, <4>2, <4>3, GateFacts
    <3> QED BY <3>2, <3>3
  <2> QED BY <2>1 DEF Turns, OriginOf
<1>7. Apart'
  BY <1>3, <1>5 DEF GateInv, Apart
<1>8. Behindhand'
  <2>1. ASSUME NEW q \in Origins PROVE quiet'[q] >= -turn'[q]
    <3>1. turn[q] \in Int /\ quiet[q] \in Nat /\ quiet[q] >= -turn[q]
      BY DEF GateInv, TypeInv, Behindhand
    <3> QED BY <1>1, <1>2, <1>4, <3>1
  <2> QED BY <2>1 DEF Behindhand
<1> QED BY <1>6, <1>7, <1>8

LEMMA TickGate == GateInv /\ Tick => Turns' /\ Apart' /\ Behindhand'
<1> SUFFICES ASSUME GateInv, Tick PROVE Turns' /\ Apart' /\ Behindhand'
  OBVIOUS
<1>1. site' = site /\ phase' = phase
  BY DEF Tick
<1>2. ASSUME NEW j \in Sources, Waits(j)'
      PROVE  Waits(j) /\ timer[j] > 0 /\ timer'[j] = timer[j] - 1
  <2>1. phase[j] = "turn" /\ timer[j] \in Nat
    BY <1>1, <1>2 DEF Waits, GateInv, TypeInv
  <2>2. timer[j] > 0 /\ timer'[j] = Larger(0, timer[j] - 1)
    BY <2>1 DEF Tick, Sleeping
  <2> QED BY <2>1, <2>2 DEF Waits, Larger
<1>3. ASSUME NEW q \in Origins
      PROVE  /\ turn[q] \in Int /\ quiet[q] \in 0 .. MaxDelay /\ quiet[q] >= -turn[q]
             /\ turn'[q] = Larger(-MaxDelay, turn[q] - 1)
             /\ quiet'[q] = Smaller(MaxDelay, quiet[q] + 1)
  BY DEF Tick, GateInv, TypeInv, Behindhand
<1>4. ASSUME NEW j \in Sources PROVE DelayAt(j)' = DelayAt(j)
  BY <1>1, SameSite
<1>5. Turns'
  <2>1. ASSUME NEW j \in Sources, Waits(j)'
        PROVE  /\ DelayAt(j)' > 0 /\ timer'[j] <= turn'[OriginOf(j)]
               /\ quiet'[OriginOf(j)] + timer'[j] >= DelayAt(j)'
    <3>1. /\ Waits(j) /\ timer[j] > 0 /\ timer'[j] = timer[j] - 1 /\ DelayAt(j)' = DelayAt(j)
      BY <1>2, <1>4, <2>1
    <3>2. DelayAt(j) <= MaxDelay /\ OriginOf(j) \in Origins
      BY <3>1, GatedWait DEF GateInv
    <3>3. /\ DelayAt(j) > 0 /\ DelayAt(j) \in Nat /\ timer[j] \in Nat
          /\ timer[j] <= turn[OriginOf(j)]
          /\ quiet[OriginOf(j)] + timer[j] >= DelayAt(j)
      BY <3>1, GateFacts
    <3>4. /\ turn[OriginOf(j)] \in Int /\ quiet[OriginOf(j)] \in 0 .. MaxDelay
          /\ turn'[OriginOf(j)] = Larger(-MaxDelay, turn[OriginOf(j)] - 1)
          /\ quiet'[OriginOf(j)] = Smaller(MaxDelay, quiet[OriginOf(j)] + 1)
      BY <1>3, <3>2
    <3>5. MaxDelay \in Nat
      OBVIOUS
    <3>6. timer'[j] <= turn'[OriginOf(j)]
      <4>1. timer[j] - 1 <= Larger(-MaxDelay, turn[OriginOf(j)] - 1)
        BY <3>3, <3>4, <3>5, TurnTick, Zenon
      <4> QED BY <3>1, <3>4, <4>1, Zenon
    <3>7. quiet'[OriginOf(j)] + timer'[j] >= DelayAt(j)'
      <4>1. timer[j] # 0
        BY <3>1, <3>3
      <4>2. Smaller(MaxDelay, quiet[OriginOf(j)] + 1) + (timer[j] - 1) >= DelayAt(j)
        BY <3>2, <3>3, <3>4, <3>5, <4>1, QuietTick, Zenon
      <4> QED BY <3>1, <3>4, <4>2, Zenon
    <3> QED BY <3>1, <3>3, <3>6, <3>7
  <2> QED BY <2>1 DEF Turns, OriginOf
<1>6. Apart'
  <2>1. ASSUME NEW j \in Sources, NEW k \in Sources, j # k, Waits(j)', Waits(k)',
               OriginOf(j) = OriginOf(k)
        PROVE  \/ timer'[j] >= timer'[k] + DelayAt(j)'
               \/ timer'[k] >= timer'[j] + DelayAt(j)'
    <3>1. /\ Waits(j) /\ Waits(k) /\ timer'[j] = timer[j] - 1 /\ timer'[k] = timer[k] - 1
          /\ DelayAt(j)' = DelayAt(j)
      BY <1>2, <1>4, <2>1
    <3>2. timer[j] \in Nat /\ timer[k] \in Nat /\ DelayAt(j) \in Nat
      BY <3>1, GateFacts
    <3>3. timer[j] >= timer[k] + DelayAt(j) \/ timer[k] >= timer[j] + DelayAt(j)
      BY <2>1, <3>1, ApartFacts
    <3> QED BY <3>1, <3>2, <3>3, SMTT(60)
  <2> QED BY <2>1 DEF Apart, OriginOf
<1>7. Behindhand'
  <2>1. ASSUME NEW q \in Origins PROVE quiet'[q] >= -turn'[q]
    BY <1>3, SMTT(30) DEF Larger, Smaller
  <2> QED BY <2>1 DEF Behindhand
<1> QED BY <1>5, <1>6, <1>7

-----------------------------------------------------------------------------
(* How far ahead turns are reserved: each source that waits adds a crawl   *)
(* delay, behind its own turn only those after it.                         *)

Waiters(o) == {j \in Sources : Waits(j) /\ OriginOf(j) = o}
Later(i) == {j \in Waiters(OriginOf(i)) : timer[j] > timer[i]}

Ahead ==
    /\ \A o \in Origins : turn[o] <= MaxDelay * Cardinality(Waiters(o))
    /\ \A i \in Sources : Waits(i) =>
          turn[OriginOf(i)] <= timer[i] + MaxDelay * Cardinality(Later(i))

LEMMA FewSources ==
    ASSUME NEW S \in SUBSET Sources
    PROVE  IsFiniteSet(S) /\ Cardinality(S) \in Nat
<1>1. IsFiniteSet(Sources)
  BY FS_Interval
<1> QED BY <1>1, FS_Subset, FS_CardinalityType

LEMMA OneMore ==
    ASSUME NEW S \in SUBSET Sources, NEW i \in Sources, i \notin S
    PROVE  Cardinality(S \cup {i}) = Cardinality(S) + 1
BY FewSources, FS_AddElement

LEMMA Times ==
    ASSUME NEW n \in Nat
    PROVE  /\ MaxDelay * n \in Nat
           /\ MaxDelay * (n + 1) = MaxDelay * n + MaxDelay
<1>1. MaxDelay \in Nat
  OBVIOUS
<1> QED BY <1>1

LEMMA FurtherStill ==
    ASSUME NEW latest \in Int, NEW delay \in 0 .. MaxDelay, NEW ticks \in Nat, NEW n \in Nat,
           latest <= ticks + MaxDelay * n
    PROVE  delay + latest <= ticks + MaxDelay * (n + 1)
<1> DEFINE m == MaxDelay * n
<1>1. m \in Nat /\ MaxDelay * (n + 1) = m + MaxDelay /\ latest <= ticks + m
  BY Times
<1>2. MaxDelay \in Nat
  OBVIOUS
<1> HIDE DEF m
<1> QED BY <1>1, <1>2

LEMMA Further ==
    ASSUME NEW latest \in Int, NEW delay \in 0 .. MaxDelay, NEW n \in Nat,
           latest <= MaxDelay * n
    PROVE  delay + latest <= MaxDelay * (n + 1)
<1> DEFINE m == MaxDelay * n
<1>1. m \in Nat /\ MaxDelay * (n + 1) = m + MaxDelay /\ latest <= m
  BY Times
<1>2. MaxDelay \in Nat
  OBVIOUS
<1> HIDE DEF m
<1> QED BY <1>1, <1>2

LEMMA Waiting ==
    ASSUME NEW o
    PROVE  Waiters(o) \in SUBSET Sources /\ MaxDelay * Cardinality(Waiters(o)) \in Nat
<1>1. Waiters(o) \in SUBSET Sources
  BY DEF Waiters
<1> QED BY <1>1, FewSources, Times

LEMMA After ==
    ASSUME NEW i
    PROVE  Later(i) \in SUBSET Sources /\ MaxDelay * Cardinality(Later(i)) \in Nat
<1>1. Later(i) \in SUBSET Sources
  BY DEF Later, Waiters
<1> QED BY <1>1, FewSources, Times

\* A step in which nobody starts or stops to wait changes neither set.
LEMMA SameCrowd ==
    ASSUME \A j \in Sources : Waits(j)' = Waits(j),
           \A j \in Sources : Waits(j) => timer'[j] = timer[j]
    PROVE  /\ \A o : Waiters(o)' = Waiters(o)
           /\ \A i \in Sources : Waits(i) => Later(i)' = Later(i)
<1>1. ASSUME NEW o PROVE Waiters(o)' = Waiters(o)
  BY DEF Waiters, OriginOf
<1>2. ASSUME NEW i \in Sources, Waits(i) PROVE Later(i)' = Later(i)
  <2>1. ASSUME NEW j PROVE j \in Later(i)' <=> j \in Later(i)
    BY <1>1, <1>2 DEF Later, Waiters, OriginOf
  <2> QED BY <2>1
<1> QED BY <1>1, <1>2

LEMMA StillWaits ==
    ASSUME TypeInv, NEW i \in Sources, NEW place, NEW ticks, place # "turn", ~Waits(i),
           Moves(i, place, ticks)
    PROVE  /\ \A j \in Sources : Waits(j)' = Waits(j)
           /\ \A j \in Sources : Waits(j) => timer'[j] = timer[j]
<1>1. ASSUME NEW j \in Sources
      PROVE  Waits(j)' = Waits(j) /\ (Waits(j) => timer'[j] = timer[j])
  <2>1. CASE j = i
    BY <2>1, Mover DEF Waits
  <2>2. CASE j # i
    BY <2>2, Others DEF Waits
  <2> QED BY <2>1, <2>2
<1> QED BY <1>1

LEMMA LeavesAhead ==
    ASSUME GateInv, Ahead, NEW i \in Sources, Leaves(i)
    PROVE  Ahead'
<1>1. PICK place \in (Busy \cup Settled) \ {"turn"}, ticks \in Nat : Moves(i, place, ticks)
  BY DEF Leaves
<1>2. turn' = turn /\ ~Waits(i)
  BY DEF Leaves, Waits
<1>3. /\ \A j \in Sources : Waits(j)' = Waits(j)
      /\ \A j \in Sources : Waits(j) => timer'[j] = timer[j]
  BY <1>1, <1>2, StillWaits DEF GateInv
<1>4. /\ \A o : Waiters(o)' = Waiters(o)
      /\ \A j \in Sources : Waits(j) => Later(j)' = Later(j)
  BY <1>3, SameCrowd
<1> QED BY <1>2, <1>3, <1>4 DEF Ahead, OriginOf

LEMMA AsksAhead ==
    ASSUME GateInv, Ahead, NEW i \in Sources, AsksAtOnce(i)
    PROVE  Ahead'
<1>1. Moves(i, "list", 0) /\ Source[i].gated /\ ~Waits(i) /\ OriginOf(i) \in Origins
  BY SiteType DEF AsksAtOnce, Waits, GateInv
<1>2. \A o \in Origins : turn'[o] = IF o = OriginOf(i) THEN 0 ELSE turn[o]
  BY DEF AsksAtOnce, GateInv, TypeInv
<1>3. /\ \A j \in Sources : Waits(j)' = Waits(j)
      /\ \A j \in Sources : Waits(j) => timer'[j] = timer[j]
  BY <1>1, StillWaits DEF GateInv
<1>4. /\ \A o : Waiters(o)' = Waiters(o)
      /\ \A j \in Sources : Waits(j) => Later(j)' = Later(j)
  BY <1>3, SameCrowd
<1>5. ASSUME NEW o \in Origins PROVE turn'[o] <= MaxDelay * Cardinality(Waiters(o)')
  BY <1>2, <1>4, Waiting DEF Ahead
<1>6. ASSUME NEW j \in Sources, Waits(j)'
      PROVE  turn'[OriginOf(j)] <= timer'[j] + MaxDelay * Cardinality(Later(j)')
  <2>1. Waits(j) /\ OriginOf(j) # OriginOf(i) /\ OriginOf(j) \in Origins
    BY <1>1, <1>3, <1>6, NobodyWaits, GateFacts DEF AsksAtOnce
  <2> QED BY <1>2, <1>3, <1>4, <2>1 DEF Ahead
<1> QED BY <1>5, <1>6 DEF Ahead, OriginOf

LEMMA ReservesAhead ==
    ASSUME GateInv, Ahead, NEW i \in Sources, Reserves(i)
    PROVE  Ahead'
<1> DEFINE o == OriginOf(i)
           d == DelayAt(i)
<1>1. /\ Moves(i, "turn", d + turn[o]) /\ Source[i].gated /\ ~Waits(i)
      /\ o \in Origins /\ d \in 0 .. MaxDelay /\ d \in Nat /\ turn[o] \in Int
      /\ d > 0 /\ d + turn[o] > 0
  BY SiteType DEF Reserves, Waits, GateInv, TypeInv
<1>2. Waits(i)' /\ timer'[i] = d + turn[o]
  BY <1>1, Mover DEF GateInv, Waits
<1>3. ASSUME NEW j \in Sources, j # i
      PROVE  Waits(j)' = Waits(j) /\ timer'[j] = timer[j]
  BY <1>1, <1>3, Others DEF GateInv, Waits
<1>4. \A q \in Origins : turn'[q] = IF q = o THEN d + turn[o] ELSE turn[q]
  BY DEF Reserves, GateInv, TypeInv
<1>5. ASSUME NEW q, q # o PROVE Waiters(q)' = Waiters(q)
  <2>1. ASSUME NEW j \in Sources PROVE j \in Waiters(q)' <=> j \in Waiters(q)
    BY <1>3, <1>5 DEF Waiters, OriginOf
  <2> QED BY <2>1 DEF Waiters
<1>6. Waiters(o)' = Waiters(o) \cup {i} /\ i \notin Waiters(o)
  <2>1. ASSUME NEW j \in Sources PROVE j \in Waiters(o)' <=> j \in Waiters(o) \cup {i}
    BY <1>2, <1>3 DEF Waiters, OriginOf
  <2> QED BY <1>1, <2>1 DEF Waiters
<1>7. ASSUME NEW j \in Sources, Waits(j), OriginOf(j) = o
      PROVE  Later(j)' = Later(j) \cup {i} /\ i \notin Later(j)
  <2>1. j # i /\ timer'[j] = timer[j] /\ timer'[i] > timer[j] /\ OriginOf(j)' = o
    <3>1. j # i /\ timer'[j] = timer[j]
      BY <1>1, <1>3, <1>7
    <3>2. timer[j] \in Nat /\ timer[j] <= turn[o]
      BY <1>7, GateFacts
    <3> QED BY <1>1, <1>2, <1>7, <3>1, <3>2 DEF OriginOf
  <2>2. ASSUME NEW k \in Sources PROVE k \in Later(j)' <=> k \in Later(j) \cup {i}
    <3>1. CASE k = i
      BY <1>6, <2>1, <3>1 DEF Later
    <3>2. CASE k # i
      BY <1>3, <1>6, <1>7, <2>1, <3>2 DEF Later
    <3> QED BY <3>1, <3>2
  <2>3. Later(j)' \subseteq Sources /\ Later(j) \subseteq Sources
    BY DEF Later, Waiters
  <2> QED BY <1>6, <1>7, <2>2, <2>3 DEF Later
<1>8. ASSUME NEW j \in Sources, Waits(j), OriginOf(j) # o
      PROVE  Later(j)' = Later(j)
  <2>1. /\ Waiters(OriginOf(j))' = Waiters(OriginOf(j)) /\ j # i
        /\ timer'[j] = timer[j] /\ OriginOf(j)' = OriginOf(j)
    BY <1>1, <1>3, <1>5, <1>8 DEF OriginOf
  <2>2. ASSUME NEW k \in Waiters(OriginOf(j)) PROVE timer'[k] = timer[k]
    BY <1>1, <1>3, <2>2 DEF Waiters
  <2> QED BY <2>1, <2>2 DEF Later
<1>9. ASSUME NEW q \in Origins PROVE turn'[q] <= MaxDelay * Cardinality(Waiters(q)')
  <2>1. CASE q = o
    <3>1. Cardinality(Waiters(o)') = Cardinality(Waiters(o)) + 1
      BY <1>6, Waiting, OneMore
    <3>2. turn[o] <= MaxDelay * Cardinality(Waiters(o)) /\ Cardinality(Waiters(o)) \in Nat
      BY <1>1, Waiting, FewSources DEF Ahead
    <3>3. d + turn[o] <= MaxDelay * (Cardinality(Waiters(o)) + 1)
      BY <1>1, <3>2, Further, Zenon
    <3> QED BY <1>1, <1>4, <2>1, <3>1, <3>3
  <2>2. CASE q # o
    BY <1>4, <1>5, <2>2 DEF Ahead
  <2> QED BY <2>1, <2>2
<1>10. ASSUME NEW j \in Sources, Waits(j)'
       PROVE  turn'[OriginOf(j)] <= timer'[j] + MaxDelay * Cardinality(Later(j)')
  <2>1. CASE j = i
    <3>1. MaxDelay * Cardinality(Later(i)') \in Nat
      <4>1. Later(i)' \in SUBSET Sources
        BY DEF Later, Waiters
      <4> QED BY <4>1, FewSources, Times
    <3> QED BY <1>1, <1>2, <1>4, <2>1, <3>1
  <2>2. CASE j # i /\ OriginOf(j) = o
    <3>1. Waits(j) /\ timer'[j] = timer[j] /\ timer[j] \in Nat
      BY <1>3, <1>10, <2>2, GateFacts
    <3>2. Cardinality(Later(j)') = Cardinality(Later(j)) + 1 /\ Cardinality(Later(j)) \in Nat
      BY <1>7, <2>2, <3>1, After, OneMore, FewSources
    <3>3. turn[o] <= timer[j] + MaxDelay * Cardinality(Later(j))
      BY <2>2, <3>1 DEF Ahead
    <3>4. d + turn[o] <= timer[j] + MaxDelay * (Cardinality(Later(j)) + 1)
      BY <1>1, <3>1, <3>2, <3>3, FurtherStill, Zenon
    <3>5. turn'[OriginOf(j)] = d + turn[o]
      BY <1>1, <1>4, <2>2
    <3> QED BY <3>1, <3>2, <3>4, <3>5
  <2>3. CASE OriginOf(j) # o
    <3>1. Waits(j) /\ timer'[j] = timer[j] /\ OriginOf(j) \in Origins
      BY <1>3, <1>10, <2>3, GateFacts
    <3> QED BY <1>4, <1>8, <2>3, <3>1 DEF Ahead
  <2> QED BY <2>1, <2>2, <2>3
<1> QED BY <1>9, <1>10 DEF Ahead, OriginOf

LEMMA WakesAhead ==
    ASSUME GateInv, Ahead, NEW i \in Sources, Wakes(i)
    PROVE  Ahead'
<1> DEFINE o == OriginOf(i)
<1>1. /\ Moves(i, "list", 0) /\ Source[i].gated /\ Waits(i) /\ timer[i] = 0 /\ turn' = turn
  BY DEF Wakes, Waits
<1>2. o \in Origins /\ turn[o] \in Int
  BY <1>1, GateFacts
<1>3. ~Waits(i)'
  BY <1>1, Mover DEF GateInv, Waits
<1>4. ASSUME NEW j \in Sources, j # i
      PROVE  Waits(j)' = Waits(j) /\ timer'[j] = timer[j]
  BY <1>1, <1>4, Others DEF GateInv, Waits
<1>5. ASSUME NEW q, q # o PROVE Waiters(q)' = Waiters(q)
  <2>1. ASSUME NEW j \in Sources PROVE j \in Waiters(q)' <=> j \in Waiters(q)
    BY <1>4, <1>5 DEF Waiters, OriginOf
  <2> QED BY <2>1 DEF Waiters
<1>6. ASSUME NEW j \in Sources, Waits(j), j # i, OriginOf(j) = o PROVE timer[j] > 0
  <2>1. DelayAt(j) = DelayAt(i)
    BY <1>1, <1>6, SameDelay DEF GateInv
  <2>2. timer[j] \in Nat /\ DelayAt(i) > 0 /\ DelayAt(i) \in Nat
    BY <1>1, <1>6, GateFacts
  <2>3. timer[i] >= timer[j] + DelayAt(i) \/ timer[j] >= timer[i] + DelayAt(i)
    BY <1>1, <1>6, ApartFacts
  <2> QED BY <1>1, <2>2, <2>3
<1>7. Waiters(o)' = Later(i)
  <2>1. ASSUME NEW j \in Sources PROVE j \in Waiters(o)' <=> j \in Later(i)
    <3>1. CASE j = i
      BY <1>1, <1>3, <3>1 DEF Waiters, Later
    <3>2. CASE j # i
      BY <1>1, <1>4, <1>6, <3>2 DEF Waiters, Later, OriginOf
    <3> QED BY <3>1, <3>2
  <2>2. Waiters(o)' \subseteq Sources /\ Later(i) \subseteq Sources
    BY DEF Waiters, Later
  <2> QED BY <2>1, <2>2
<1>8. ASSUME NEW j \in Sources, Waits(j), j # i PROVE Later(j)' = Later(j)
  <2>1. timer'[j] = timer[j] /\ timer[j] \in Nat
    BY <1>4, <1>8, GateFacts
  <2>2. ASSUME NEW k \in Sources PROVE k \in Later(j)' <=> k \in Later(j)
    <3>1. CASE k = i
      BY <1>1, <1>3, <2>1, <3>1 DEF Waiters, Later, OriginOf
    <3>2. CASE k # i
      BY <1>4, <2>1, <3>2 DEF Waiters, Later, OriginOf
    <3> QED BY <3>1, <3>2
  <2>3. Later(j)' \subseteq Sources /\ Later(j) \subseteq Sources
    BY DEF Waiters, Later
  <2> QED BY <2>2, <2>3
<1>9. ASSUME NEW q \in Origins PROVE turn'[q] <= MaxDelay * Cardinality(Waiters(q)')
  <2>1. CASE q = o
    <3>1. turn[o] <= 0 + MaxDelay * Cardinality(Later(i))
      BY <1>1 DEF Ahead
    <3>2. MaxDelay * Cardinality(Later(i)) \in Nat
      BY After
    <3>3. turn[o] <= MaxDelay * Cardinality(Later(i))
      BY <3>1, <3>2
    <3> QED BY <1>1, <1>7, <2>1, <3>3
  <2>2. CASE q # o
    BY <1>1, <1>5, <2>2 DEF Ahead
  <2> QED BY <2>1, <2>2
<1>10. ASSUME NEW j \in Sources, Waits(j)'
       PROVE  turn'[OriginOf(j)] <= timer'[j] + MaxDelay * Cardinality(Later(j)')
  <2>1. j # i /\ Waits(j) /\ timer'[j] = timer[j]
    BY <1>3, <1>4, <1>10
  <2> QED BY <1>1, <1>8, <2>1 DEF Ahead
<1> QED BY <1>9, <1>10 DEF Ahead, OriginOf

LEMMA TickAhead ==
    ASSUME GateInv, Ahead, Tick
    PROVE  Ahead'
<1>1. ASSUME NEW j \in Sources
      PROVE  Waits(j)' = Waits(j)
  BY DEF Tick, Waits
<1>2. ASSUME NEW j \in Sources, Waits(j)
      PROVE  timer[j] \in Nat /\ timer[j] > 0 /\ timer'[j] = timer[j] - 1
  <2>1. phase[j] = "turn" /\ timer[j] \in Nat
    BY <1>2 DEF Waits, GateInv, TypeInv
  <2>2. timer[j] > 0 /\ timer'[j] = Larger(0, timer[j] - 1)
    BY <2>1 DEF Tick, Sleeping
  <2> QED BY <2>1, <2>2 DEF Larger
<1>3. ASSUME NEW q \in Origins
      PROVE  turn[q] \in Int /\ turn'[q] = Larger(-MaxDelay, turn[q] - 1)
  BY DEF Tick, GateInv, TypeInv
<1>4. ASSUME NEW q PROVE Waiters(q)' = Waiters(q)
  BY <1>1 DEF Waiters, OriginOf
<1>5. ASSUME NEW j \in Sources, Waits(j) PROVE Later(j)' = Later(j)
  <2>1. ASSUME NEW k \in Waiters(OriginOf(j)) PROVE timer'[k] > timer'[j] <=> timer[k] > timer[j]
    BY <1>2, <1>5, <2>1 DEF Waiters
  <2>2. Waiters(OriginOf(j))' = Waiters(OriginOf(j))
    BY <1>4 DEF OriginOf
  <2> QED BY <2>1, <2>2 DEF Later, OriginOf
<1>6. MaxDelay \in Nat
  OBVIOUS
<1>7. ASSUME NEW q \in Origins PROVE turn'[q] <= MaxDelay * Cardinality(Waiters(q)')
  <2> DEFINE m == MaxDelay * Cardinality(Waiters(q))
  <2>1. m \in Nat /\ turn[q] <= m
    BY Waiting DEF Ahead
  <2> HIDE DEF m
  <2>2. turn'[q] <= m
    BY <1>3, <1>6, <2>1 DEF Larger
  <2> QED BY <1>4, <2>2 DEF m
<1>8. ASSUME NEW j \in Sources, Waits(j)'
      PROVE  turn'[OriginOf(j)] <= timer'[j] + MaxDelay * Cardinality(Later(j)')
  <2> DEFINE m == MaxDelay * Cardinality(Later(j))
  <2>1. Waits(j) /\ OriginOf(j) \in Origins
    BY <1>1, <1>8, GateFacts
  <2>2. m \in Nat /\ turn[OriginOf(j)] <= timer[j] + m
    BY <2>1, After DEF Ahead
  <2>3. /\ timer[j] \in Nat /\ timer[j] > 0 /\ timer'[j] = timer[j] - 1
        /\ turn[OriginOf(j)] \in Int
        /\ turn'[OriginOf(j)] = Larger(-MaxDelay, turn[OriginOf(j)] - 1)
    BY <1>2, <1>3, <2>1
  <2> HIDE DEF m
  <2>4. turn'[OriginOf(j)] <= timer'[j] + m
    BY <1>6, <2>2, <2>3 DEF Larger
  <2> QED BY <1>5, <2>1, <2>4 DEF m
<1> QED BY <1>7, <1>8 DEF Ahead, OriginOf

-----------------------------------------------------------------------------
(* Runners, and who has been let through or turned away.                   *)

Running == {j \in Sources : phase[j] \in Busy}

LEMMA RunnersStep ==
    ASSUME TypeInv, Runners, NEW i \in Sources, Kinds(i), Frame(i)
    PROVE  Runners'
<1>1. PICK place \in Busy \cup Settled, ticks \in Nat : Moves(i, place, ticks)
  BY MoveType
<1>2. Running' \subseteq Running \cup {i}
  <2>1. ASSUME NEW j \in Sources, j # i PROVE phase'[j] = phase[j]
    BY <1>1, <2>1, Others
  <2> QED BY <2>1 DEF Running, Busy
<1>3. /\ Running \in SUBSET Sources /\ Running' \in SUBSET Sources
      /\ IsFiniteSet(Running) /\ IsFiniteSet(Running \cup {i}) /\ Cardinality(Running) \in Nat
      /\ Cardinality(Running') \in Nat
  BY FewSources DEF Running
<1>4. Concurrency \in Nat
  OBVIOUS
<1>5. CASE i \in Running
  <2>1. Running' \subseteq Running
    BY <1>2, <1>5
  <2>2. Cardinality(Running') <= Cardinality(Running)
    BY <1>3, <2>1, FS_Subset
  <2>3. Cardinality(Running) <= Concurrency
    BY DEF Runners, Running
  <2>4. Cardinality(Running') <= Concurrency
    BY <1>3, <1>4, <2>2, <2>3
  <2> QED BY <2>4 DEF Runners, Running
<1>6. CASE i \notin Running
  <2>1. phase[i] = "waiting"
    BY <1>6 DEF Running, Frame, TypeInv, Place
  <2>2. Cardinality(Running) < Concurrency
    BY <2>1 DEF Frame, Running
  <2>3. Cardinality(Running') <= Cardinality(Running \cup {i})
    BY <1>2, <1>3, FS_Subset
  <2>4. Cardinality(Running \cup {i}) = Cardinality(Running) + 1
    BY <1>3, <1>6, OneMore
  <2>5. Cardinality(Running') <= Concurrency
    BY <1>3, <1>4, <2>2, <2>3, <2>4
  <2> QED BY <2>5 DEF Runners, Running
<1> QED BY <1>5, <1>6

LEMMA ObeyedStep ==
    ASSUME TypeInv, Obeyed, ToldFailed, NEW i \in Sources, Kinds(i), Frame(i)
    PROVE  Obeyed' /\ ToldFailed'
<1>1. PICK place \in Busy \cup Settled, ticks \in Nat : Moves(i, place, ticks)
  BY MoveType
<1>2. site' = site
  BY DEF Frame
<1>3. ASSUME NEW j \in Sources, j # i PROVE phase'[j] = phase[j]
  BY <1>1, <1>3, Others
<1>4. ASSUME phase'[i] \in {"turn", "list"}, Source[i].gated PROVE Vouched(i)
  <2>1. CASE Leaves(i)
    <3>1. PICK p \in (Busy \cup Settled) \ {"turn"}, t \in Nat :
              Moves(i, p, t) /\ (p = "list" => ~Source[i].gated)
      BY <2>1 DEF Leaves
    <3> QED BY <1>4, <3>1, Mover
  <2>2. CASE AsksAtOnce(i)
    BY <2>2 DEF AsksAtOnce
  <2>3. CASE Reserves(i)
    BY <2>3 DEF Reserves
  <2>4. CASE Wakes(i)
    BY <2>4 DEF Wakes, Obeyed
  <2> QED BY <2>1, <2>2, <2>3, <2>4 DEF Kinds
<1>5. Obeyed'
  <2>1. ASSUME NEW j \in Sources, phase'[j] \in {"turn", "list"}, Source[j].gated
        PROVE  Vouched(j)'
    <3>1. Vouched(j)
      BY <1>3, <1>4, <2>1 DEF Obeyed
    <3> QED BY <1>2, <3>1, SameSite
  <2> QED BY <2>1 DEF Obeyed
<1>6. ToldFailed'
  <2>1. ASSUME NEW j \in told' PROVE phase'[j] = "failed"
    <3>1. CASE j \in told
      <4>1. phase[j] = "failed" /\ j \in Sources
        BY <3>1 DEF ToldFailed, TypeInv
      <4>2. j # i
        BY <4>1 DEF Frame, Settled
      <4> QED BY <1>3, <4>1, <4>2
    <3>2. CASE j \notin told
      BY <2>1, <3>2 DEF Frame
    <3> QED BY <3>1, <3>2
  <2> QED BY <2>1 DEF ToldFailed
<1> QED BY <1>5, <1>6

-----------------------------------------------------------------------------
(* The inductive invariant.                                                *)

DiscoveryInv == GateInv /\ Ahead /\ Obeyed /\ ToldFailed /\ Runners

LEMMA DiscoveryInit == Init => DiscoveryInv
<1> SUFFICES ASSUME Init PROVE DiscoveryInv
  OBVIOUS
<1>1. TypeInv
  BY TypeInit
<1>2. \A j \in Sources : phase[j] = "waiting"
  BY DEF Init
<1>3. /\ \A o \in Origins : turn[o] = -MaxDelay /\ quiet[o] = MaxDelay
      /\ MaxDelay \in Nat /\ told = {}
  BY DEF Init
<1>4. Turns /\ Apart /\ Obeyed /\ ToldFailed
  BY <1>2, <1>3 DEF Turns, Apart, Waits, Obeyed, ToldFailed
<1>5. Behindhand
  BY <1>3 DEF Behindhand
<1>6. Ahead
  <2>1. ASSUME NEW o \in Origins PROVE turn[o] <= MaxDelay * Cardinality(Waiters(o))
    <3>1. MaxDelay * Cardinality(Waiters(o)) \in Nat
      BY Waiting
    <3>2. turn[o] = -MaxDelay /\ MaxDelay \in Nat
      BY <1>3
    <3> QED BY <3>1, <3>2
  <2> QED BY <1>2, <2>1 DEF Ahead, Waits
<1>7. Runners
  <2>1. {j \in Sources : phase[j] \in Busy} = {}
    BY <1>2 DEF Busy
  <2>2. Concurrency \in Nat /\ Cardinality({}) = 0
    BY FS_EmptySet
  <2>3. 0 <= Concurrency
    BY <2>2
  <2> QED BY <2>1, <2>2, <2>3 DEF Runners
<1> QED BY <1>1, <1>4, <1>5, <1>6, <1>7 DEF DiscoveryInv, GateInv

LEMMA DiscoveryNext == DiscoveryInv /\ [Next]_vars => DiscoveryInv'
<1> SUFFICES ASSUME DiscoveryInv, [Next]_vars PROVE DiscoveryInv'
  OBVIOUS
<1> USE DEF DiscoveryInv
<1>0. TypeInv
  BY DEF GateInv
<1>1. ASSUME NEW i \in Sources, Progress(i) PROVE DiscoveryInv'
  <2>1. Kinds(i) /\ Frame(i)
    BY <1>0, <1>1, ProgressKinds
  <2>2. TypeInv'
    BY <1>0, <2>1, ProgressType
  <2>3. Turns' /\ Apart' /\ Behindhand' /\ Ahead'
    <3>1. CASE Leaves(i)
      BY <2>1, <3>1, LeavesGate, LeavesAhead
    <3>2. CASE AsksAtOnce(i)
      BY <2>1, <3>2, AsksGate, AsksAhead
    <3>3. CASE Reserves(i)
      BY <2>1, <3>3, ReservesGate, ReservesAhead
    <3>4. CASE Wakes(i)
      BY <2>1, <3>4, WakesGate, WakesAhead
    <3> QED BY <2>1, <3>1, <3>2, <3>3, <3>4 DEF Kinds
  <2>4. Obeyed' /\ ToldFailed' /\ Runners'
    BY <1>0, <2>1, ObeyedStep, RunnersStep
  <2> QED BY <2>2, <2>3, <2>4 DEF GateInv
<1>2. CASE Tick
  <2>1. TypeInv' /\ Turns' /\ Apart' /\ Behindhand' /\ Ahead'
    BY <1>0, <1>2, TickType, TickGate, TickAhead
  <2>2. phase' = phase /\ site' = site /\ told' = told
    BY <1>2 DEF Tick
  <2>3. Obeyed' /\ ToldFailed' /\ Runners'
    BY <2>2 DEF Obeyed, Vouched, ToldFailed, Runners
  <2> QED BY <2>1, <2>3 DEF GateInv
<1>3. CASE Deliver \/ UNCHANGED vars
  <2>1. UNCHANGED <<site, cache, turn, phase, attempt, timer, quiet, told>>
    BY <1>3 DEF Deliver, vars
  <2>2. TypeInv'
    BY <1>0, <2>1 DEF TypeInv, Verdicts, AnyVerdict
  <2>3. Turns' /\ Apart' /\ Behindhand'
    BY <2>1 DEF GateInv, Turns, Apart, Behindhand, Waits, DelayAt
  <2>4. Ahead'
    BY <2>1 DEF Ahead, Waiters, Later, Waits
  <2>5. Obeyed' /\ ToldFailed' /\ Runners'
    BY <2>1 DEF Obeyed, Vouched, ToldFailed, Runners
  <2> QED BY <2>2, <2>3, <2>4, <2>5 DEF GateInv
<1> QED BY <1>1, <1>2, <1>3 DEF Next

LEMMA DiscoveryAlways == Spec => []DiscoveryInv
BY DiscoveryInit, DiscoveryNext, PTL DEF Spec

-----------------------------------------------------------------------------
(* The theorems.                                                           *)

\* Types, with the two bounds that matter: no more sources are busy than
\* DISCOVERY_CONCURRENCY, and no turn is further ahead than a crawl delay for
\* each of them (mapWithConcurrency, waitForTurn).
THEOREM TypeCorrect == Spec => []TypeOK
<1>1. DiscoveryInv => TypeOK
  <2> SUFFICES ASSUME DiscoveryInv PROVE TypeOK
    OBVIOUS
  <2>1. TypeInv /\ Runners /\ Ahead
    BY DEF DiscoveryInv, GateInv
  <2>2. ASSUME NEW o \in Origins PROVE turn[o] \in -MaxDelay .. MaxDelay * Concurrency
    <3> DEFINE c == Cardinality(Waiters(o))
    <3>1. Waiters(o) \subseteq Running /\ Running \in SUBSET Sources
      BY DEF Waiters, Waits, Running, Busy
    <3>2. Cardinality(Waiters(o)) <= Cardinality(Running)
      BY <3>1, FewSources, FS_Subset
    <3>3. /\ c \in Nat /\ Cardinality(Running) \in Nat /\ Concurrency \in Nat
          /\ MaxDelay \in Nat /\ Cardinality(Running) <= Concurrency
      BY <2>1, <3>1, FewSources, Waiting DEF Runners, Running
    <3>4. turn[o] \in Int /\ turn[o] >= -MaxDelay /\ turn[o] <= MaxDelay * c
      BY <2>1 DEF TypeInv, Ahead
    <3>5. c <= Concurrency
      BY <3>2, <3>3
    <3> HIDE DEF c
    <3>6. MaxDelay * c <= MaxDelay * Concurrency
      <4>1. PICK e \in Nat : Concurrency = c + e
        BY <3>3, <3>5
      <4>2. MaxDelay * (c + e) = MaxDelay * c + MaxDelay * e /\ MaxDelay * e \in Nat
        BY <3>3, <4>1
      <4>3. MaxDelay * c \in Nat
        BY <3>3
      <4> QED BY <4>1, <4>2, <4>3
    <3>7. MaxDelay * c \in Int /\ MaxDelay * Concurrency \in Int
      BY <3>3
    <3> QED BY <3>3, <3>4, <3>6, <3>7
  <2>3. turn \in [Origins -> -MaxDelay .. MaxDelay * Concurrency]
    BY <2>1, <2>2 DEF TypeInv
  <2>4. \A o \in Origins : cache[o].verdict \in Verdicts(o) /\ cache[o].age \in 0 .. Ttl
    BY <2>1 DEF TypeInv
  <2>5. /\ phase \in [Sources -> {"waiting"} \cup Busy \cup Settled]
        /\ attempt \in [Sources -> 1 .. Retries]
        /\ quiet \in [Origins -> 0 .. MaxDelay] /\ told \subseteq Sources
        /\ \A o \in Origins : site[o] \in Served[o]
    BY <2>1 DEF TypeInv, Place
  <2> QED BY <2>1, <2>3, <2>4, <2>5 DEF TypeOK, Runners
<1> QED BY <1>1, DiscoveryAlways, PTL

\* robots.txt and a 4xx are obeyed (RobotsObeyed, robots-gate.ts and service.ts:62).
THEOREM RobotsAreObeyed == Spec => []RobotsObeyed
<1>1. DiscoveryInv => RobotsObeyed
  <2> SUFFICES ASSUME DiscoveryInv PROVE RobotsObeyed
    OBVIOUS
  <2>1. ASSUME NEW i \in Sources, phase[i] \in {"turn", "list"}, Source[i].gated,
               AloneThere(i)
        PROVE  Verdict[i][site[OriginOf(i)]].allowed
    <3>1. PICK k \in Behind(OriginOf(i)) : Verdict[k][site[OriginOf(i)]].allowed
      BY <2>1 DEF DiscoveryInv, Obeyed, Vouched
    <3>2. k = i
      BY <2>1, <3>1 DEF Behind, AloneThere
    <3> QED BY <3>1, <3>2
  <2> QED BY <2>1 DEF RobotsObeyed, DiscoveryInv, ToldFailed
<1> QED BY <1>1, DiscoveryAlways, PTL

\* Two lists of one origin are asked for a crawl delay apart, whoever asks and
\* however their attempts overlap (TurnsSpaced, robots-gate.ts:121-134).
THEOREM TurnsAreSpaced == Spec => TurnsSpaced
<1> DEFINE Spaced ==
        /\ \A i, j \in Sources : AsksFor(i) /\ AsksFor(j) => i = j
        /\ \A i \in Sources :
              AsksFor(i) => quiet[OriginOf(i)] >= Verdict[i][site[OriginOf(i)]].delay
<1>1. DiscoveryInv /\ [Next]_vars => [Spaced]_vars
  <2> SUFFICES ASSUME DiscoveryInv, Next PROVE Spaced
    BY DEF vars
  <2>1. TypeInv /\ GateInv
    BY DEF DiscoveryInv, GateInv
  <2>2. CASE Tick \/ Deliver
    BY <2>2 DEF Tick, Deliver, AsksFor
  <2>3. ASSUME NEW i \in Sources, Progress(i) PROVE Spaced
    <3>1. Kinds(i) /\ Frame(i)
      BY <2>1, <2>3, ProgressKinds
    <3>2. ASSUME NEW j \in Sources, AsksFor(j) PROVE j = i
      <4>1. PICK place \in Busy \cup Settled, ticks \in Nat : Moves(i, place, ticks)
        BY <2>1, <3>1, MoveType
      <4> QED BY <2>1, <3>2, <4>1, Others DEF AsksFor
    <3>3. ASSUME AsksFor(i) PROVE quiet[OriginOf(i)] >= DelayAt(i)
      <4>1. /\ OriginOf(i) \in Origins /\ DelayAt(i) \in Nat /\ Source[i].gated
            /\ turn[OriginOf(i)] \in Int /\ quiet[OriginOf(i)] \in Nat
            /\ quiet[OriginOf(i)] >= -turn[OriginOf(i)]
        BY <2>1, <3>3, SiteType DEF AsksFor, TypeInv, GateInv, Behindhand
      <4>2. CASE Leaves(i)
        <5>1. PICK p \in (Busy \cup Settled) \ {"turn"}, t \in Nat :
                  Moves(i, p, t) /\ (p = "list" => ~Source[i].gated)
          BY <4>2 DEF Leaves
        <5> QED BY <2>1, <3>3, <5>1, Mover DEF AsksFor
      <4>3. CASE AsksAtOnce(i)
        BY <4>1, <4>3 DEF AsksAtOnce
      <4>4. CASE Reserves(i)
        <5>1. phase'[i] = "turn"
          BY <2>1, <4>4, Mover DEF Reserves
        <5> QED BY <3>3, <5>1 DEF AsksFor
      <4>5. CASE Wakes(i)
        <5>1. Waits(i) /\ timer[i] = 0
          BY <4>5 DEF Wakes, Waits
        <5>2. quiet[OriginOf(i)] + timer[i] >= DelayAt(i)
          BY <2>1, <5>1, GateFacts
        <5> QED BY <4>1, <5>1, <5>2
      <4> QED BY <3>1, <4>2, <4>3, <4>4, <4>5 DEF Kinds
    <3> QED BY <3>2, <3>3 DEF DelayAt
  <2> QED BY <2>2, <2>3 DEF Next
<1> QED BY <1>1, DiscoveryAlways, PTL DEF Spec, TurnsSpaced
===============================================================================
