----------------------- MODULE CloudflareQueue_proofs -----------------------
(***************************************************************************)
(* The Cloudflare driver forgets nothing and stays within its budget, for  *)
(* any jobs, consumers and limits, whatever requests are lost.             *)
(***************************************************************************)
EXTENDS CloudflareQueue, FiniteSetTheorems, TLAPS

USE CloudflareAssumption

\* A drain that pulls has budget left.
BudgetInv ==
    \A c \in Consumers :
        /\ drain[c].handled <= drain[c].budget
        /\ drain[c].stage = "pull" => drain[c].handled < drain[c].budget

\* What a drain is about to acknowledge is done, whoever holds the lease now.
DoneInv ==
    /\ GoneMeansDone
    /\ \A c \in Consumers : Acked(drain[c]) \subseteq done

IInv == TypeOK /\ BudgetInv /\ DoneInv

LEMMA IdleIsDrain == Idle \in Drain
<1>1. [j \in {} |-> "working"] \in [{} -> Outcome]
  OBVIOUS
<1>2. {} \in SUBSET Jobs
  OBVIOUS
<1>3. [j \in {} |-> "working"] \in Held
  BY <1>1, <1>2 DEF Held
<1> QED BY <1>3 DEF Idle, Drain, Stage

LEMMA IdleShape ==
    /\ Idle.stage = "idle" /\ Idle.sending = {} /\ DOMAIN Idle.held = {}
    /\ Idle.budget = 0 /\ Idle.handled = 0
BY DEF Idle

\* A drain after the head of the loop.
LEMMA RoundShape ==
    ASSUME NEW d \in Drain, d.sending = {}, d.handled <= d.budget
    PROVE  /\ Round(d) \in Drain
           /\ Round(d) = Idle \/ Round(d).stage = "pull"
           /\ Round(d).sending = {} /\ DOMAIN Round(d).held = {}
           /\ Round(d).handled <= Round(d).budget
           /\ Round(d).stage = "pull" => Round(d).handled < Round(d).budget
<1>1. CASE Round(d) = Idle
  BY <1>1, IdleIsDrain, IdleShape
<1>2. CASE Round(d) # Idle
  <2>1. Round(d) = Pulling(d) /\ d.handled < d.budget
    BY <1>2 DEF Round, Drain
  <2>2. Idle.held \in Held
    BY IdleIsDrain DEF Drain
  <2>3. /\ Pulling(d) \in Drain
        /\ Pulling(d).stage = "pull" /\ Pulling(d).sending = d.sending
        /\ Pulling(d).held = Idle.held
        /\ Pulling(d).budget = d.budget /\ Pulling(d).handled = d.handled
    BY <2>2 DEF Pulling, Drain, Stage
  <2> QED BY <2>1, <2>3, IdleShape
<1> QED BY <1>1, <1>2

LEMMA InvInit == Init => IInv
<1> SUFFICES ASSUME Init PROVE IInv
  OBVIOUS
<1>1. TypeOK
  <2>1. drain \in [Consumers -> Drain]
    BY IdleIsDrain DEF Init
  <2>2. \A c \in Consumers : drain[c] = Idle
    BY DEF Init
  <2>3. tries \in [Jobs -> 0 .. MaxTries]
    BY DEF Init
  <2>4. lease \in [Consumers -> SUBSET Jobs] /\ done \subseteq Jobs /\ outbound \subseteq Jobs
        /\ closed \in BOOLEAN
    BY DEF Init
  <2>5. remote \in [Jobs -> {"absent", "visible", "leased", "gone"}]
    BY DEF Init
  <2> QED BY <2>1, <2>2, <2>3, <2>4, <2>5, IdleShape DEF TypeOK
<1>2. BudgetInv
  BY IdleShape DEF Init, BudgetInv
<1>3. DoneInv
  <2>1. GoneMeansDone
    BY DEF Init, GoneMeansDone
  <2>2. \A c \in Consumers : Acked(drain[c]) = {}
    BY IdleShape DEF Init, Acked
  <2> QED BY <2>1, <2>2 DEF DoneInv
<1> QED BY <1>1, <1>2, <1>3 DEF IInv

-----------------------------------------------------------------------------
(* What a step does to the drains: one of them changes, to a drain again.  *)

\* The shape a drain keeps between steps.
Sound(d) ==
    /\ d \in Drain
    /\ d.stage = "idle" => d = Idle
    /\ d.stage = "produce" <=> d.sending # {}
    /\ d.stage = "work" <=> DOMAIN d.held # {}
    /\ d.handled <= d.budget
    /\ d.stage = "pull" => d.handled < d.budget

LEMMA SoundInv ==
    IInv <=> /\ drain \in [Consumers -> Drain]
             /\ \A c \in Consumers : Sound(drain[c]) /\ Acked(drain[c]) \subseteq done
             /\ GoneMeansDone
             /\ outbound \subseteq Jobs /\ closed \in BOOLEAN
             /\ lease \in [Consumers -> SUBSET Jobs]
             /\ remote \in [Jobs -> {"absent", "visible", "leased", "gone"}]
             /\ tries \in [Jobs -> 0 .. MaxTries]
             /\ done \subseteq Jobs
BY DEF IInv, TypeOK, BudgetInv, DoneInv, Sound

LEMMA RoundSound ==
    ASSUME NEW d \in Drain, d.sending = {}, d.handled <= d.budget
    PROVE  Sound(Round(d)) /\ Acked(Round(d)) = {}
BY RoundShape, IdleShape DEF Sound, Acked

\* One drain changes, and the jobs it may acknowledge are done.
LEMMA DrainStep ==
    ASSUME IInv, NEW c \in Consumers, NEW d, Sound(d), Becomes(c, d),
           done \subseteq done', Acked(d) \subseteq done'
    PROVE  /\ drain' \in [Consumers -> Drain]
           /\ \A e \in Consumers : Sound(drain'[e]) /\ Acked(drain'[e]) \subseteq done'
<1>1. drain \in [Consumers -> Drain] /\ d \in Drain
  BY SoundInv DEF Sound
<1>2. drain' = [drain EXCEPT ![c] = d]
  BY DEF Becomes
<1>3. \A e \in Consumers : drain'[e] = IF e = c THEN d ELSE drain[e]
  BY <1>1, <1>2
<1>4. \A e \in Consumers : Sound(drain[e]) /\ Acked(drain[e]) \subseteq done
  BY SoundInv
<1> QED BY <1>1, <1>2, <1>3, <1>4

LEMMA CardJobs ==
    \A S \in SUBSET Jobs : IsFiniteSet(S) /\ Cardinality(S) \in Nat
BY FS_Subset, FS_CardinalityType

-----------------------------------------------------------------------------
(* One lemma per action *)

LEMMA SendKeeps == IInv /\ Send => IInv'
<1> SUFFICES ASSUME IInv, Send PROVE IInv'
  OBVIOUS
<1>1. outbound' \subseteq Jobs
  BY SoundInv DEF Send, Fresh
<1>2. UNCHANGED <<closed, drain, lease, remote, tries, done>>
  BY DEF Send, service, history
<1> QED BY <1>1, <1>2 DEF IInv, TypeOK, BudgetInv, DoneInv, GoneMeansDone, Acked

LEMMA OpenKeeps ==
    ASSUME IInv, NEW c \in Consumers, NEW jobs \in SUBSET Jobs, NEW maxJobs \in Nat,
           Open(c, jobs, maxJobs), outbound' \subseteq Jobs
    PROVE  IInv'
<1> DEFINE d == [Idle EXCEPT !.sending = jobs, !.budget = maxJobs]
           e == IF jobs = {} THEN Round(d) ELSE [d EXCEPT !.stage = "produce"]
<1>1. /\ d \in Drain /\ d.stage = "idle" /\ d.sending = jobs
      /\ DOMAIN d.held = {} /\ d.budget = maxJobs /\ d.handled = 0
  BY IdleIsDrain, IdleShape DEF Drain
<1>2. Becomes(c, e) /\ UNCHANGED <<closed, lease, remote, tries, done>>
  BY DEF Open, service, history
<1>3. Sound(e) /\ Acked(e) = {}
  <2>1. CASE jobs = {}
    <3>1. e = Round(d)
      BY <2>1
    <3> HIDE DEF d, e
    <3>2. Sound(Round(d)) /\ Acked(Round(d)) = {}
      BY <1>1, <2>1, RoundSound
    <3> QED BY <3>1, <3>2
  <2>2. CASE jobs # {}
    <3> HIDE DEF d
    <3>1. /\ e \in Drain /\ e.stage = "produce" /\ e.sending = jobs
          /\ DOMAIN e.held = {} /\ e.budget = maxJobs /\ e.handled = 0
      BY <1>1, <2>2 DEF Drain, Stage
    <3> QED BY <2>2, <3>1 DEF Sound, Acked
  <2> QED BY <2>1, <2>2
<1> HIDE DEF e
<1>4. /\ drain' \in [Consumers -> Drain]
      /\ \A k \in Consumers : Sound(drain'[k]) /\ Acked(drain'[k]) \subseteq done'
  BY <1>2, <1>3, DrainStep
<1> QED BY <1>2, <1>4, SoundInv DEF IInv, TypeOK, BudgetInv, DoneInv, GoneMeansDone, Sound

LEMMA PostKeeps == ASSUME IInv, NEW c \in Consumers, PostChunk(c) PROVE IInv'
<1>1. PICK chunk \in SUBSET drain[c].sending :
          LET d == [drain[c] EXCEPT !.sending = @ \ chunk]
          IN  /\ \/ remote' = [j \in Jobs |-> IF j \in chunk THEN "visible" ELSE remote[j]]
                 \/ UNCHANGED remote
              /\ IF d.sending = {}
                 THEN outbound' = {} /\ Becomes(c, Round(d))
                 ELSE UNCHANGED outbound /\ Becomes(c, d)
  BY DEF PostChunk
<1> DEFINE d == [drain[c] EXCEPT !.sending = @ \ chunk]
           e == IF d.sending = {} THEN Round(d) ELSE d
<1>2. drain[c] \in Drain /\ Sound(drain[c]) /\ drain[c].stage = "produce"
  BY SoundInv DEF PostChunk, Sound
<1>3. /\ d \in Drain /\ d.stage = "produce" /\ d.sending = drain[c].sending \ chunk
      /\ d.held = drain[c].held /\ d.budget = drain[c].budget /\ d.handled = drain[c].handled
  BY <1>2 DEF Drain
<1>4. Becomes(c, e) /\ outbound' \subseteq Jobs
  BY <1>1, SoundInv
<1>5. UNCHANGED <<closed, lease, tries, done>>
  BY DEF PostChunk, history
<1> HIDE DEF d
<1>6. Sound(e) /\ Acked(e) = {}
  <2>1. CASE d.sending = {}
    BY <1>2, <1>3, <2>1, RoundSound DEF Sound
  <2>2. CASE d.sending # {}
    BY <1>2, <1>3, <2>2 DEF Sound, Acked
  <2> QED BY <2>1, <2>2
<1> HIDE DEF e
<1>7. /\ drain' \in [Consumers -> Drain]
      /\ \A k \in Consumers : Sound(drain'[k]) /\ Acked(drain'[k]) \subseteq done'
  BY <1>4, <1>5, <1>6, DrainStep
<1>8. /\ remote' \in [Jobs -> {"absent", "visible", "leased", "gone"}]
      /\ \A j \in Jobs : remote'[j] = "gone" => remote[j] = "gone"
  BY <1>1, SoundInv
<1> QED BY <1>4, <1>5, <1>7, <1>8, SoundInv
       DEF IInv, TypeOK, BudgetInv, DoneInv, GoneMeansDone, Sound

LEMMA PullKeeps == ASSUME IInv, NEW c \in Consumers, Pull(c) PROVE IInv'
<1>1. PICK batch \in SUBSET {j \in Jobs : remote[j] = "visible"} :
          /\ Cardinality(batch) <= Hint(c)
          /\ remote' = [j \in Jobs |-> IF j \in batch THEN "leased" ELSE remote[j]]
          /\ \/ /\ batch # {}
                /\ lease' = [lease EXCEPT ![c] = batch]
                /\ Becomes(c, Taken(drain[c], batch))
             \/ Becomes(c, Idle) /\ UNCHANGED lease
  BY DEF Pull
<1> DEFINE d == Taken(drain[c], batch)
<1>2. drain[c] \in Drain /\ Sound(drain[c]) /\ drain[c].stage = "pull"
  BY SoundInv DEF Pull, Sound
<1>3. batch \in SUBSET Jobs /\ Cardinality(batch) \in Nat
  BY CardJobs
<1>4. batch # {} => Sound(d) /\ Acked(d) = {}
  <2>1. [j \in batch |-> "working"] \in Held
    BY <1>3 DEF Held, Outcome
  <2>2. /\ d \in Drain /\ d.stage = "work" /\ d.sending = drain[c].sending
        /\ d.held = [j \in batch |-> "working"] /\ d.budget = drain[c].budget
        /\ d.handled = drain[c].handled + Cardinality(batch)
    <3>1. d = [drain[c] EXCEPT !.stage = "work",
                               !.held = [j \in batch |-> "working"],
                               !.handled = drain[c].handled + Cardinality(batch)]
      BY <1>2 DEF Taken, Drain
    <3>2. drain[c].handled + Cardinality(batch) \in Nat
      BY <1>2, <1>3 DEF Drain
    <3> DEFINE h == [j \in batch |-> "working"]
               n == drain[c].handled + Cardinality(batch)
    <3> HIDE DEF d, h, n
    <3> QED BY <1>2, <2>1, <3>1, <3>2 DEF Drain, Stage, h, n
  <2>3. d.handled <= d.budget
    BY <1>1, <1>2, <1>3, <2>2 DEF Sound, Drain, Hint, Larger, Smaller
  <2>4. Acked(d) = {}
    BY <2>2 DEF Acked
  <2> HIDE DEF d
  <2> QED BY <1>2, <2>2, <2>3, <2>4 DEF Sound
<1>5. Sound(Idle) /\ Acked(Idle) = {}
  BY IdleIsDrain, IdleShape DEF Sound, Acked
<1>6. UNCHANGED <<outbound, closed, tries, done>>
  BY DEF Pull, history
<1> HIDE DEF d
<1>7. /\ drain' \in [Consumers -> Drain]
      /\ \A k \in Consumers : Sound(drain'[k]) /\ Acked(drain'[k]) \subseteq done'
  <2>1. CASE batch # {} /\ Becomes(c, d)
    BY <1>4, <1>6, <2>1, DrainStep
  <2>2. CASE Becomes(c, Idle)
    BY <1>5, <1>6, <2>2, DrainStep
  <2> QED BY <1>1, <2>1, <2>2 DEF d
<1>8. lease' \in [Consumers -> SUBSET Jobs]
  BY <1>1, <1>3, SoundInv
<1>9. /\ remote' \in [Jobs -> {"absent", "visible", "leased", "gone"}]
      /\ \A j \in Jobs : remote'[j] = "gone" => remote[j] = "gone"
  BY <1>1, SoundInv
<1> QED BY <1>6, <1>7, <1>8, <1>9, SoundInv
       DEF IInv, TypeOK, BudgetInv, DoneInv, GoneMeansDone, Sound

LEMMA HandleKeeps == ASSUME IInv, NEW c \in Consumers, Handle(c) PROVE IInv'
<1>1. PICK j \in DOMAIN drain[c].held, outcome \in {"ok", "retry", "givenUp"} :
          /\ drain[c].held[j] = "working"
          /\ drain' = [drain EXCEPT ![c].held[j] = outcome]
          /\ tries' = IF outcome = "ok" THEN tries
                      ELSE [tries EXCEPT ![j] = Smaller(@ + 1, MaxTries)]
          /\ done' = IF outcome = "retry" THEN done ELSE done \cup {j}
  BY DEF Handle
<1>2. UNCHANGED <<outbound, closed, lease, remote>>
  BY DEF Handle, service
<1>3. drain[c] \in Drain /\ Sound(drain[c]) /\ Acked(drain[c]) \subseteq done
  BY SoundInv DEF Sound
<1> DEFINE h == [drain[c].held EXCEPT ![j] = outcome]
           d == [drain[c] EXCEPT !.held = h]
<1>4. drain[c].held \in Held
  BY <1>3 DEF Drain
<1>5. PICK batch \in SUBSET Jobs : drain[c].held \in [batch -> Outcome]
  BY <1>4 DEF Held
<1>6. h \in [batch -> Outcome] /\ j \in Jobs
  BY <1>5 DEF Outcome
<1>7. h \in Held /\ DOMAIN h = DOMAIN drain[c].held
  BY <1>5, <1>6 DEF Held
<1>8. /\ d \in Drain /\ d.stage = drain[c].stage /\ d.sending = drain[c].sending
      /\ d.held = h /\ d.budget = drain[c].budget /\ d.handled = drain[c].handled
  <2> HIDE DEF h
  <2> QED BY <1>3, <1>7 DEF Drain
<1>9. Becomes(c, d)
  BY <1>1, SoundInv DEF Becomes
<1>10. Sound(d)
  <2>1. d.stage # "idle"
    BY <1>3, <1>1, IdleShape, <1>8 DEF Sound
  <2> HIDE DEF d, h
  <2> QED BY <1>3, <1>7, <1>8, <2>1 DEF Sound
<1>11. Acked(d) \subseteq done'
  <2>1. \A k \in DOMAIN h : h[k] = IF k = j THEN outcome ELSE drain[c].held[k]
    BY <1>5
  <2>2. \A k \in DOMAIN h : k # j /\ h[k] \in {"ok", "givenUp"} => k \in done
    BY <1>3, <1>7, <2>1 DEF Acked
  <2>3. h[j] \in {"ok", "givenUp"} => j \in done'
    BY <1>1, <1>7, <2>1
  <2> HIDE DEF d, h
  <2> QED BY <1>1, <1>8, <2>2, <2>3 DEF Acked
<1> HIDE DEF d, h
<1>12. done \subseteq done' /\ done' \subseteq Jobs
  BY <1>1, <1>6, SoundInv
<1>13. /\ drain' \in [Consumers -> Drain]
       /\ \A k \in Consumers : Sound(drain'[k]) /\ Acked(drain'[k]) \subseteq done'
  BY <1>9, <1>10, <1>11, <1>12, DrainStep
<1>14. tries' \in [Jobs -> 0 .. MaxTries]
  BY <1>1, <1>6, SoundInv DEF Smaller
<1> QED BY <1>2, <1>12, <1>13, <1>14, SoundInv
       DEF IInv, TypeOK, BudgetInv, DoneInv, GoneMeansDone, Sound

LEMMA AcknowledgeKeeps == ASSUME IInv, NEW c \in Consumers, Acknowledge(c) PROVE IInv'
<1> DEFINE d == IF Cardinality(DOMAIN drain[c].held) < BatchSize THEN Idle
                ELSE Round(drain[c])
<1>1. /\ drain[c] \in Drain /\ Sound(drain[c]) /\ drain[c].stage = "work"
      /\ Acked(drain[c]) \subseteq done
  BY SoundInv DEF Acknowledge, Sound
<1>2. Becomes(c, d) /\ UNCHANGED <<outbound, closed, tries, done>>
  BY DEF Acknowledge, history
<1>3. Sound(Idle) /\ Acked(Idle) = {}
  BY IdleIsDrain, IdleShape DEF Sound, Acked
<1>4. Sound(Round(drain[c])) /\ Acked(Round(drain[c])) = {}
  BY <1>1, RoundSound DEF Sound
<1>5. Sound(d) /\ Acked(d) = {}
  BY <1>3, <1>4
<1> HIDE DEF d
<1>6. /\ drain' \in [Consumers -> Drain]
      /\ \A k \in Consumers : Sound(drain'[k]) /\ Acked(drain'[k]) \subseteq done'
  BY <1>2, <1>5, DrainStep
<1>7. lease' \in [Consumers -> SUBSET Jobs]
  BY SoundInv DEF Acknowledge
<1>8. /\ remote' \in [Jobs -> {"absent", "visible", "leased", "gone"}]
      /\ \A j \in Jobs : remote'[j] = "gone" => remote[j] = "gone" \/ j \in Acked(drain[c])
  <2>1. CASE UNCHANGED remote
    BY <2>1, SoundInv
  <2>2. CASE remote' = [j \in Jobs |->
                          IF j \notin lease[c] THEN remote[j]
                          ELSE IF j \in Acked(drain[c]) THEN "gone" ELSE "visible"]
    BY <2>2, SoundInv
  <2> QED BY <2>1, <2>2 DEF Acknowledge
<1> QED BY <1>1, <1>2, <1>6, <1>7, <1>8, SoundInv
       DEF IInv, TypeOK, BudgetInv, DoneInv, GoneMeansDone, Sound

LEMMA ServiceKeeps == IInv /\ (LeaseExpires \/ Close) => IInv'
<1> SUFFICES ASSUME IInv, LeaseExpires \/ Close PROVE IInv'
  OBVIOUS
<1>1. CASE LeaseExpires
  <2>1. /\ remote' \in [Jobs -> {"absent", "visible", "leased", "gone"}]
        /\ \A j \in Jobs : remote'[j] = "gone" => remote[j] = "gone"
        /\ lease' \in [Consumers -> SUBSET Jobs]
    BY <1>1, SoundInv DEF LeaseExpires
  <2>2. UNCHANGED <<outbound, closed, drain, tries, done>>
    BY <1>1 DEF LeaseExpires, history
  <2> QED BY <2>1, <2>2 DEF IInv, TypeOK, BudgetInv, DoneInv, GoneMeansDone, Acked
<1>2. CASE Close
  BY <1>2 DEF Close, service, history, IInv, TypeOK, BudgetInv, DoneInv, GoneMeansDone, Acked
<1> QED BY <1>1, <1>2

LEMMA InvStep == IInv /\ [Next]_vars => IInv'
<1> SUFFICES ASSUME IInv, [Next]_vars PROVE IInv'
  OBVIOUS
<1>1. CASE UNCHANGED vars
  BY <1>1 DEF vars, service, history, IInv, TypeOK, BudgetInv, DoneInv, GoneMeansDone, Acked
<1>2. CASE Send
  BY <1>2, SendKeeps
<1>3. ASSUME NEW c \in Consumers, OpenDrain(c) PROVE IInv'
  <2>1. PICK maxJobs \in Budgets : Open(c, outbound, maxJobs)
    BY <1>3 DEF OpenDrain
  <2>2. maxJobs \in Nat /\ outbound \in SUBSET Jobs /\ outbound' \subseteq Jobs
    BY <1>3, SoundInv DEF OpenDrain
  <2> QED BY <2>1, <2>2, OpenKeeps
<1>4. ASSUME NEW c \in Consumers, OpenStage(c) PROVE IInv'
  <2>1. PICK jobs \in SUBSET Fresh \ {{}} : Open(c, jobs, 2 * Cardinality(jobs))
    BY <1>4 DEF OpenStage
  <2>2. jobs \in SUBSET Jobs
    BY DEF Fresh
  <2>3. 2 * Cardinality(jobs) \in Nat /\ outbound' \subseteq Jobs
    BY <1>4, <2>2, CardJobs, SoundInv DEF OpenStage
  <2> QED BY <2>1, <2>2, <2>3, OpenKeeps
<1>5. ASSUME NEW c \in Consumers, Progress(c) PROVE IInv'
  BY <1>5, PostKeeps, PullKeeps, HandleKeeps, AcknowledgeKeeps DEF Progress
<1>6. CASE LeaseExpires \/ Close
  BY <1>6, ServiceKeeps
<1> QED BY <1>1, <1>2, <1>3, <1>4, <1>5, <1>6 DEF Next

LEMMA InvAlways == Spec => []IInv
BY InvInit, InvStep, PTL DEF Spec

(* Whatever fails, the service forgets a job only after a consumer has      *)
(* handled it or given it up.                                               *)
THEOREM NothingForgotten == Spec => []GoneMeansDone
<1>1. IInv => GoneMeansDone
  BY DEF IInv, DoneInv
<1> QED BY <1>1, InvAlways, PTL

(* A drain never takes more messages than maxJobs: every pull asks for no   *)
(* more than what is left of it.                                            *)
THEOREM BudgetKept == Spec => []WithinBudget
<1>1. IInv => WithinBudget
  BY DEF IInv, BudgetInv, WithinBudget
<1> QED BY <1>1, InvAlways, PTL

(* The fields of a drain agree with its stage, for any number of drains.    *)
THEOREM TypesKept == Spec => []TypeOK
<1>1. IInv => TypeOK
  BY DEF IInv
<1> QED BY <1>1, InvAlways, PTL
=============================================================================
