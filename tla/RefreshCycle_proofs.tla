------------------------- MODULE RefreshCycle_proofs -------------------------
(***************************************************************************)
(* Theorems about the refresh cycle, for any number of endpoints, cycles   *)
(* side by side, limits and faults: the rules on one row, types, who       *)
(* serves, and then what holds as long as cycles do not overlap, alone and *)
(* with jobs beside them.                                                  *)
(***************************************************************************)
EXTENDS SingleJobs, FiniteSetTheorems, TLAPS

USE RulesAssumption, CycleAssumption

-----------------------------------------------------------------------------
(* Every rule maps a row to a row. *)

LEMMA NoRowType == NoRow \in Row
BY DEF NoRow, Row, Status, ValidationStatus, ServiceStatus, FailureCap, AgeUpTo, Never

LEMMA AgedRowType ==
    ASSUME NEW row \in Row
    PROVE  AgedRow(row) \in Row
<1>1. ASSUME NEW bound \in Nat, NEW age \in AgeUpTo(bound)
      PROVE  Aged(age, bound) \in AgeUpTo(bound)
  BY <1>1 DEF Aged, AgeUpTo, Never
<1>2. /\ row.checkedAge \in AgeUpTo(RecheckAfter)
      /\ row.passedAge \in AgeUpTo(PoolTtl)
      /\ row.serviceAge \in AgeUpTo(ServiceRecheckAfter)
  BY DEF Row
<1>3. /\ Aged(row.checkedAge, RecheckAfter) \in AgeUpTo(RecheckAfter)
      /\ Aged(row.passedAge, PoolTtl) \in AgeUpTo(PoolTtl)
      /\ Aged(row.serviceAge, ServiceRecheckAfter) \in AgeUpTo(ServiceRecheckAfter)
  BY <1>1, <1>2
<1> QED BY <1>3 DEF AgedRow, Row

LEMMA UpsertedType ==
    ASSUME NEW row \in Row, NEW c \in Cycles
    PROVE  Upserted(row, c) \in Row
BY NoRowType DEF Upserted, Row, Status

LEMMA ClaimsType ==
    ASSUME NEW row \in Row, NEW c \in Cycles
    PROVE  /\ Claimed(row, c) \in Row
           /\ ReleasedOwn(row, c) \in Row
           /\ ReleasedForeign(row, c) \in Row
BY DEF Claimed, ReleasedOwn, ReleasedForeign, Row, Status

LEMMA FailuresAfterType ==
    ASSUME NEW read \in Row, NEW reachable \in BOOLEAN
    PROVE  FailuresAfter(read, reachable) \in 0 .. FailureCap
<1>1. read.failures \in 0 .. FailureCap /\ FailureCap \in Nat
  BY DEF Row, FailureCap
<1> QED BY <1>1 DEF FailuresAfter

LEMMA StatusAfterCheckType ==
    ASSUME NEW read \in Row, NEW reachable \in BOOLEAN, NEW score \in Scores
    PROVE  StatusAfterCheck(read, reachable, score) \in
               {"new", "active", "quarantined", "dead"}
<1>1. FailuresAfter(read, reachable) \in Nat
  BY FailuresAfterType DEF FailureCap
<1>2. score \in Nat
  OBVIOUS
<1> QED BY <1>1, <1>2 DEF StatusAfterCheck

LEMMA AfterCheckType ==
    ASSUME NEW row \in Row, NEW read \in Row,
           NEW reachable \in BOOLEAN, NEW score \in CheckScores(reachable)
    PROVE  AfterCheck(row, read, reachable, score) \in Row
<1>1. score \in Scores
  BY DEF CheckScores
<1>2. StatusAfterCheck(read, reachable, score) \in Status
  BY <1>1, StatusAfterCheckType DEF Status
<1>3. FailuresAfter(read, reachable) \in 0 .. FailureCap
  BY FailuresAfterType
<1>4. 0 \in AgeUpTo(RecheckAfter) /\ 0 \in AgeUpTo(PoolTtl)
  BY DEF AgeUpTo
<1>5. read.service \in ServiceStatus /\ row.passedAge \in AgeUpTo(PoolTtl)
  BY DEF Row
<1> QED BY <1>1, <1>2, <1>3, <1>4, <1>5 DEF AfterCheck, Row, ValidationStatus

LEMMA AfterVerdictType ==
    ASSUME NEW row \in Row, NEW read \in Row, NEW verdict \in Verdicts, NEW score \in Scores
    PROVE  AfterVerdict(row, read, verdict, score) \in Row
<1>1. verdict \in ServiceStatus
  BY DEF ServiceStatus
<1>2. 0 \in AgeUpTo(ServiceRecheckAfter)
  BY DEF AgeUpTo
<1>3. read.status \in Status /\ "active" \in Status
  BY DEF Row, Status
<1> QED BY <1>1, <1>2, <1>3 DEF AfterVerdict, Row

LEMMA SweepsType ==
    ASSUME NEW row \in Row
    PROVE  AfterExpiry(row) \in Row /\ AfterQuarantine(row) \in Row
BY DEF AfterExpiry, AfterQuarantine, Row, Status, ValidationStatus

-----------------------------------------------------------------------------
(* Type correctness.  Which fields of a copy are read depends on the copy  *)
(* being there, so the invariant also says whose copies a cycle holds      *)
(* while it validates.                                                     *)

CopiesCoverPicked ==
    \A c \in Cycles : pc[c] \in {"claim", "validate"} => DOMAIN seen[c] = picked[c]

TypeInv == TypeOK /\ CopiesCoverPicked

LEMMA OneMoreFault ==
    ASSUME TypeOK, faults < MaxFaults, faults' = faults + 1
    PROVE  faults' \in 0 .. MaxFaults
BY DEF TypeOK

LEMMA TypeInit == Init => TypeInv
<1> SUFFICES ASSUME Init PROVE TypeOK /\ CopiesCoverPicked
  BY DEF TypeInv
<1>1. rows \in [Proxies -> Row]
  BY NoRowType DEF Init
<1>2. \A c \in Cycles : seen[c] = NoCopies /\ DOMAIN NoCopies = {}
  BY DEF Init, NoCopies
<1>3. DOMAIN seen = Cycles /\ orphans \in BOOLEAN
  BY DEF Init
<1>4. faults \in 0 .. MaxFaults
  BY DEF Init
<1> QED BY <1>1, <1>2, <1>3, <1>4 DEF Init, TypeOK, CopiesCoverPicked, Stage

\* What a cycle writes row by row stays a table of rows.
LEMMA WriteChecksType ==
    ASSUME TypeOK, NEW c \in Cycles, NEW ids \in SUBSET DOMAIN seen[c], WriteChecks(c, ids)
    PROVE  rows' \in [Proxies -> Row]
<1>1. PICK reachable \in [ids -> BOOLEAN], score \in [ids -> Scores] :
          /\ \A p \in ids : score[p] \in CheckScores(reachable[p])
          /\ rows' = [p \in Proxies |->
                IF p \in ids /\ rows[p].status # "absent"
                THEN AfterCheck(rows[p], seen[c][p], reachable[p], score[p])
                ELSE rows[p]]
  BY DEF WriteChecks, Write
<1>2. \A p \in ids : AfterCheck(rows[p], seen[c][p], reachable[p], score[p]) \in Row
  BY <1>1, AfterCheckType DEF TypeOK
<1> QED BY <1>1, <1>2 DEF TypeOK

LEMMA WriteVerdictsType ==
    ASSUME TypeOK, NEW c \in Cycles, NEW ids \in SUBSET DOMAIN seen[c], WriteVerdicts(c, ids)
    PROVE  rows' \in [Proxies -> Row]
<1>1. PICK verdict \in [ids -> Verdicts], score \in [ids -> Scores] :
          rows' = [p \in Proxies |->
                IF p \in ids /\ rows[p].status # "absent"
                THEN AfterVerdict(rows[p], seen[c][p], verdict[p], score[p])
                ELSE rows[p]]
  BY DEF WriteVerdicts, Write
<1>2. \A p \in ids : AfterVerdict(rows[p], seen[c][p], verdict[p], score[p]) \in Row
  BY AfterVerdictType DEF TypeOK
<1> QED BY <1>1, <1>2 DEF TypeOK

\* Leaving a cycle: the rows are rewritten by f and then forget their owner.
LEMMA ForgottenType ==
    ASSUME NEW row \in Row, NEW c \in Cycles
    PROVE  Forgotten(row, c) \in Row
BY DEF Forgotten, Row

\* What Leave does besides rewriting the rows.
LeaveFrame(c) ==
    /\ Goto(c, "idle")
    /\ picked' = [picked EXCEPT ![c] = {}]
    /\ seen' = [seen EXCEPT ![c] = NoCopies]
    /\ overflow' = [overflow EXCEPT ![c] = 0]

LEMMA TypeStep == TypeInv /\ [Next]_vars => TypeInv'
<1> SUFFICES ASSUME TypeInv, [Next]_vars PROVE TypeInv'
  OBVIOUS
<1> USE DEF TypeInv
<1>1. ASSUME NEW c \in Cycles, StartCycle(c) PROVE TypeInv'
  BY <1>1 DEF StartCycle, At, Goto, TypeOK, CopiesCoverPicked, Stage
<1>2. ASSUME NEW c \in Cycles, UpsertCandidates(c) PROVE TypeInv'
  <2>1. rows' \in [Proxies -> Row]
    <3>1. \A p \in Proxies : Upserted(rows[p], c) \in Row
      BY UpsertedType DEF TypeOK
    <3> QED BY <1>2, <3>1 DEF UpsertCandidates, Write, TypeOK
  <2> QED BY <1>2, <2>1 DEF UpsertCandidates, bookkeeping, At, Goto, TypeOK, CopiesCoverPicked, Stage
<1>3. ASSUME NEW c \in Cycles, SelectValidationQueue(c) PROVE TypeInv'
  <2>1. PICK batch \in ValidationBatches :
            /\ picked' = [picked EXCEPT ![c] = batch]
            /\ seen' = [seen EXCEPT ![c] = Copies(batch)]
            /\ Goto(c, IF batch = {} THEN "shortlist" ELSE "claim")
    BY <1>3 DEF SelectValidationQueue
  <2>2. batch \subseteq Proxies
    <3>1. PICK new \in SUBSET Proxies, old \in SUBSET Proxies, due \in SUBSET Proxies :
              batch \in Slice(new, old, due)
      <4>1. PICK new \in NewBatches, old \in OldBatches, due \in DueBatches :
                batch \in Slice(new, old, due)
        BY DEF ValidationBatches
      <4>2. new \subseteq Proxies /\ old \subseteq Proxies /\ due \subseteq Proxies
        BY DEF NewBatches, OldBatches, DueBatches, FirstN, WithStatus
      <4> QED BY <4>1, <4>2
    <3> QED BY <3>1 DEF Slice, FirstN
  <2>3. Copies(batch) \in [batch -> Row]
    BY <2>2 DEF Copies, TypeOK
  <2> QED BY <1>3, <2>1, <2>2, <2>3
          DEF SelectValidationQueue, bookkeeping, At, Goto, TypeOK, CopiesCoverPicked, Stage
<1>4. ASSUME NEW c \in Cycles, MarkPending(c) PROVE TypeInv'
  <2>1. rows' \in [Proxies -> Row]
    <3>1. \A p \in Proxies : Claimed(rows[p], c) \in Row
      BY ClaimsType DEF TypeOK
    <3> QED BY <1>4, <3>1 DEF MarkPending, ClaimRows, Write, TypeOK
  <2> QED BY <1>4, <2>1 DEF MarkPending, bookkeeping, At, Goto, TypeOK, CopiesCoverPicked, Stage
<1>5. ASSUME NEW c \in Cycles, PersistValidation(c) PROVE TypeInv'
  <2>1. PICK answered \in SUBSET picked[c] : WriteChecks(c, answered)
    BY <1>5 DEF PersistValidation, Answered
  <2>2. rows' \in [Proxies -> Row]
    BY <1>5, <2>1, WriteChecksType DEF PersistValidation, At, CopiesCoverPicked
  <2> QED BY <1>5, <2>2 DEF PersistValidation, bookkeeping, At, Goto, TypeOK, CopiesCoverPicked, Stage
<1>6. ASSUME NEW c \in Cycles, Shortlist(c) PROVE TypeInv'
  <2>1. /\ seen'[c] \in UNION {[S -> Row] : S \in SUBSET Proxies}
        /\ \A d \in Cycles \ {c} : seen'[d] = seen[d]
        /\ DOMAIN seen' = Cycles
    <3>1. CASE seen' = [seen EXCEPT ![c] = NoCopies]
      <4>1. NoCopies \in [{} -> Row]
        BY DEF NoCopies
      <4> QED BY <3>1, <4>1 DEF TypeOK
    <3>2. CASE \E chosen \in ServiceCandidates(c) : seen' = [seen EXCEPT ![c] = Copies(chosen)]
      <4>1. PICK chosen \in ServiceCandidates(c) : seen' = [seen EXCEPT ![c] = Copies(chosen)]
        BY <3>2
      <4>2. chosen \subseteq Proxies
        <5>1. PICK fresh \in FreshCandidates(c) :
                  \E stale \in StaleCandidates(ServiceBudget - Cardinality(fresh)) :
                      chosen = fresh \cup stale
          BY DEF ServiceCandidates
        <5>2. fresh \subseteq Proxies
          BY DEF FreshCandidates, FirstN, TypeOK
        <5> QED BY <5>1, <5>2 DEF StaleCandidates, FirstN
      <4>3. Copies(chosen) \in [chosen -> Row]
        BY <4>2 DEF Copies, TypeOK
      <4> QED BY <4>1, <4>2, <4>3 DEF TypeOK
    <3> QED BY <1>6, <3>1, <3>2 DEF Shortlist
  <2>2. pc' \in [Cycles -> Stage] /\ pc'[c] \in {"expire", "probe"}
        /\ \A d \in Cycles \ {c} : pc'[d] = pc[d]
    BY <1>6 DEF Shortlist, Goto, TypeOK, Stage
  <2>3. UNCHANGED <<rows, picked, overflow, record, orphans, faults>>
    BY <1>6 DEF Shortlist, bookkeeping
  <2> QED BY <2>1, <2>2, <2>3 DEF TypeOK, CopiesCoverPicked
<1>7. ASSUME NEW c \in Cycles, PersistService(c) PROVE TypeInv'
  <2>1. PICK answered \in SUBSET DOMAIN seen[c] : WriteVerdicts(c, answered)
    BY <1>7 DEF PersistService, Answered
  <2>2. rows' \in [Proxies -> Row]
    BY <2>1, WriteVerdictsType
  <2> QED BY <1>7, <2>2 DEF PersistService, NoCopies, bookkeeping, At, Goto, TypeOK, CopiesCoverPicked, Stage
<1>8. ASSUME NEW c \in Cycles, ExpireStale(c) \/ QuarantineFailures(c) PROVE TypeInv'
  <2>1. \A p \in Proxies : AfterExpiry(rows[p]) \in Row /\ AfterQuarantine(rows[p]) \in Row
    BY SweepsType DEF TypeOK
  <2> QED BY <1>8, <2>1 DEF ExpireStale, QuarantineFailures, Write, bookkeeping, At, Goto,
                            TypeOK, CopiesCoverPicked, Stage
<1>9. ASSUME NEW c \in Cycles, CountMembers(c) PROVE TypeInv'
  <2>1. IsFiniteSet(Members)
    BY FS_Subset DEF Members, WithStatus
  <2>2. Cardinality(Members) \in Nat
    BY <2>1, FS_CardinalityType
  <2>3. overflow' \in [Cycles -> Nat]
    BY <1>9, <2>2 DEF CountMembers, TypeOK
  <2> QED BY <1>9, <2>3 DEF CountMembers, bookkeeping, At, Goto, TypeOK, CopiesCoverPicked, Stage
<1>10. ASSUME NEW c \in Cycles, DemoteOverflow(c) PROVE TypeInv'
  <2>1. rows' \in [Proxies -> Row]
    BY <1>10 DEF DemoteOverflow, Write, TypeOK, Row, Status
  <2> QED BY <1>10, <2>1 DEF DemoteOverflow, bookkeeping, At, Goto, TypeOK, CopiesCoverPicked, Stage
<1>11. ASSUME NEW c \in Cycles, ReleaseOrphanedPending(c) \/ ReleaseForeignPending(c) PROVE TypeInv'
  <2>1. \A p \in Proxies : ReleasedOwn(rows[p], c) \in Row /\ ReleasedForeign(rows[p], c) \in Row
    BY ClaimsType DEF TypeOK
  <2> QED BY <1>11, <2>1 DEF ReleaseOrphanedPending, ReleaseForeignPending, Write, bookkeeping,
                             At, Goto, TypeOK, CopiesCoverPicked, Stage
<1>12. ASSUME NEW c \in Cycles, Complete(c) PROVE TypeInv'
  BY <1>12 DEF Complete, At, Goto, TypeOK, CopiesCoverPicked, Stage
<1>13. ASSUME NEW c \in Cycles, PruneHistory(c) PROVE TypeInv'
  <2>1. rows' \in [Proxies -> Row]
    BY <1>13, NoRowType DEF PruneHistory, Write, TypeOK
  <2> QED BY <1>13, <2>1 DEF PruneHistory, bookkeeping, TypeOK, CopiesCoverPicked
<1>14. ASSUME NEW c \in Cycles, WrapUp(c) PROVE TypeInv'
  <2>1. rows' \in [Proxies -> Row]
    BY <1>14, ForgottenType DEF WrapUp, Leave, Write, TypeOK
  <2> QED BY <1>14, <2>1 DEF WrapUp, Leave, NoCopies, bookkeeping, At, Goto, TypeOK,
                             CopiesCoverPicked, Stage
<1>15. ASSUME NEW c \in Cycles, FailCycle(c) PROVE TypeInv'
  <2>1. /\ faults' \in 0 .. MaxFaults
        /\ orphans' \in BOOLEAN
        /\ record' \in [Cycles -> {"none", "running", "completed", "failed"}]
    <3>1. CASE record' = [record EXCEPT ![c] = "failed"] /\ UNCHANGED <<orphans, faults>>
      BY <3>1 DEF TypeOK
    <3>2. CASE /\ faults < MaxFaults /\ faults' = faults + 1
               /\ orphans' = (orphans \/ record[c] = "running")
               /\ UNCHANGED record
      <4>1. orphans' \in BOOLEAN
        BY ONLY <3>2
      <4> QED BY <3>2, <4>1, OneMoreFault DEF TypeOK
    <3> QED BY <1>15, <3>1, <3>2 DEF FailCycle
  <2> QED BY <1>15, <2>1 DEF FailCycle, At, Goto, TypeOK, CopiesCoverPicked, Stage
<1>16. ASSUME NEW c \in Cycles, ReleaseAfterFailure(c) PROVE TypeInv'
  <2>1. \A p \in Proxies : ReleasedOwn(rows[p], c) \in Row
    BY ClaimsType DEF TypeOK
  <2>2. rows' \in [Proxies -> Row]
    BY <1>16, <2>1, ForgottenType DEF ReleaseAfterFailure, Leave, Write, TypeOK
  <2>3. faults' \in 0 .. MaxFaults
    BY <1>16, OneMoreFault DEF ReleaseAfterFailure, TypeOK
  <2>4. UNCHANGED <<record, orphans>> /\ LeaveFrame(c)
    BY <1>16 DEF ReleaseAfterFailure, Leave, LeaveFrame
  <2> QED BY <2>2, <2>3, <2>4 DEF LeaveFrame, NoCopies, Goto, TypeOK, CopiesCoverPicked, Stage
<1>17. ASSUME NEW c \in Cycles, StartThrows(c) \/ Throw(c) PROVE TypeInv'
  <2>1. faults' \in 0 .. MaxFaults
    BY <1>17, OneMoreFault DEF StartThrows, Throw
  <2> QED BY <1>17, <2>1 DEF StartThrows, Throw, At, Goto, TypeOK, CopiesCoverPicked, Stage
<1>18. ASSUME NEW c \in Cycles, WriteThrows(c) PROVE TypeInv'
  <2>1. rows' \in [Proxies -> Row]
    <3>1. CASE \E done \in SUBSET picked[c] : ClaimRows(c, done)
      <4>1. \A p \in Proxies : Claimed(rows[p], c) \in Row
        BY ClaimsType DEF TypeOK
      <4> QED BY <3>1, <4>1 DEF ClaimRows, Write, TypeOK
    <3>2. CASE At(c, "validate") /\ \E done \in SUBSET picked[c] : WriteChecks(c, done)
      BY <3>2, WriteChecksType DEF At, CopiesCoverPicked
    <3>3. CASE \E done \in SUBSET DOMAIN seen[c] : WriteVerdicts(c, done)
      BY <3>3, WriteVerdictsType
    <3> QED BY <1>18, <3>1, <3>2, <3>3 DEF WriteThrows
  <2> QED BY <1>18, <2>1 DEF WriteThrows, Goto, TypeOK, CopiesCoverPicked, Stage
<1>19. CASE Crash
  <2>0. \A row \in Row : [row EXCEPT !.owner = NoCycle] \in Row
    BY DEF Row
  <2>1. rows' \in [Proxies -> Row]
    BY <1>19, <2>0 DEF Crash, TypeOK
  <2> QED BY <1>19, <2>1 DEF Crash, NoCopies, TypeOK, CopiesCoverPicked, Stage
<1>20. CASE Tick
  <2>1. rows' \in [Proxies -> Row]
    BY <1>20, AgedRowType DEF Tick, Write, TypeOK
  <2> QED BY <1>20, <2>1 DEF Tick, bookkeeping, TypeOK, CopiesCoverPicked
<1>21. CASE UNCHANGED vars
  BY <1>21 DEF vars, TypeOK, CopiesCoverPicked
<1> QED
  BY <1>1, <1>2, <1>3, <1>4, <1>5, <1>6, <1>7, <1>8, <1>9, <1>10, <1>11, <1>12, <1>13,
     <1>14, <1>15, <1>16, <1>17, <1>18, <1>19, <1>20, <1>21 DEF Next, Step

(* Every reachable state is well typed: the status column only holds what  *)
(* the schema allows, counters and ages stay in range, and whatever a      *)
(* cycle keeps in memory is a copy of some row.                            *)
THEOREM TypeCorrect == Spec => []TypeOK
<1>1. Spec => []TypeInv
  BY TypeInit, TypeStep, PTL DEF Spec
<1>2. TypeInv => TypeOK
  BY DEF TypeInv
<1> QED BY <1>1, <1>2, PTL

-----------------------------------------------------------------------------
(* Membership: only proxies that passed serve, as long as cycles do not    *)
(* overlap or the service stage is off.  (With both, a verdict planned     *)
(* from an old copy may let a failing proxy in; see README.md.)            *)

SingleFlight == \A c, d \in Cycles : c = d

Undisturbed == SingleFlight \/ ServiceBudget = 0

-----------------------------------------------------------------------------
(* The inductive invariant.  MembersVouched alone is not inductive: the    *)
(* status a cycle writes is decided by the copy it took before its checks  *)
(* and by the verdict on rows it read again after them.                    *)

Vouched(row) ==
    /\ row.passedAge # Never
    /\ row.failures < MaxConsecutiveFailures
    /\ row.validation = "passed" <=> row.failures = 0

RowInv(row) ==
    /\ row.status = "active" => Vouched(row)
    /\ row.validation = "passed" => row.passedAge # Never /\ row.failures = 0
    /\ row.status = "absent" => row.passedAge = Never

RowsInv == \A p \in Proxies : RowInv(rows[p])

\* A copy was once a row, and a proxy that has passed has passed for good.
CopiesInv ==
    \A c \in Cycles : pc[c] \in {"claim", "validate"} =>
        \A p \in DOMAIN seen[c] :
            /\ RowInv(seen[c][p])
            /\ seen[c][p].passedAge # Never => rows[p].passedAge # Never

\* What is probed is a member or has just passed, and the copy says so still.
ProbesInv ==
    \A c \in Cycles : pc[c] = "probe" =>
        /\ ServiceBudget # 0
        /\ \A p \in DOMAIN seen[c] :
              /\ seen[c][p].status = rows[p].status
              /\ rows[p].status = "active" \/ rows[p].validation = "passed"

MemberInv == TypeInv /\ RowsInv /\ CopiesInv /\ ProbesInv

-----------------------------------------------------------------------------
(* What each rule does to one row. *)

\* `after` keeps the row's invariant and does not forget that it passed.
Keeps(before, after) ==
    /\ RowInv(after)
    /\ before.passedAge # Never => after.passedAge # Never

LEMMA NoRowInv == RowInv(NoRow)
BY DEF RowInv, NoRow

LEMMA ClaimsKeep ==
    ASSUME NEW row \in Row, RowInv(row), NEW c \in Cycles
    PROVE  /\ Keeps(row, Upserted(row, c))
           /\ Keeps(row, Claimed(row, c))
           /\ Keeps(row, ReleasedOwn(row, c))
           /\ Keeps(row, ReleasedForeign(row, c))
           /\ Keeps(row, Forgotten(row, c))
<1>1. Keeps(row, Upserted(row, c))
  BY DEF Keeps, RowInv, Vouched, Upserted, NoRow, Row
<1>2. Keeps(row, Claimed(row, c))
  BY DEF Keeps, RowInv, Vouched, Claimed, Row
<1>3. Keeps(row, ReleasedOwn(row, c)) /\ Keeps(row, ReleasedForeign(row, c))
  BY DEF Keeps, RowInv, Vouched, ReleasedOwn, ReleasedForeign, Row
<1>4. Keeps(row, Forgotten(row, c))
  BY DEF Keeps, RowInv, Vouched, Forgotten, Row
<1> QED BY <1>1, <1>2, <1>3, <1>4

LEMMA SweepsKeep ==
    ASSUME NEW row \in Row, RowInv(row)
    PROVE  Keeps(row, AfterExpiry(row)) /\ Keeps(row, AfterQuarantine(row))
<1>1. Keeps(row, AfterExpiry(row))
  BY DEF Keeps, RowInv, Vouched, AfterExpiry, Row
<1>2. Keeps(row, AfterQuarantine(row))
  BY DEF Keeps, RowInv, Vouched, AfterQuarantine, Row
<1> QED BY <1>1, <1>2

LEMMA AgingKeeps ==
    ASSUME NEW row \in Row, RowInv(row)
    PROVE  Keeps(row, AgedRow(row))
<1>1. row.passedAge = Never <=> Aged(row.passedAge, PoolTtl) = Never
  BY DEF Row, AgeUpTo, Aged, Never
<1> QED BY <1>1 DEF Keeps, RowInv, Vouched, AgedRow, Row

\* A failed check keeps a member in only if the copy was one, and then below
\* the threshold.
LEMMA CheckKeeps ==
    ASSUME NEW row \in Row, row.status # "absent", NEW seen_p \in Row, RowInv(seen_p),
           seen_p.passedAge # Never => row.passedAge # Never,
           NEW reachable \in BOOLEAN, NEW score \in CheckScores(reachable)
    PROVE  Keeps(row, AfterCheck(row, seen_p, reachable, score))
<1> DEFINE after == AfterCheck(row, seen_p, reachable, score)
           failures == FailuresAfter(seen_p, reachable)
<1>1. score \in Nat
  BY DEF CheckScores
<1>2. failures \in Nat /\ (failures = 0 <=> reachable)
  <2>1. seen_p.failures \in 0 .. FailureCap /\ FailureCap \in Nat \ {0}
    BY DEF Row, FailureCap
  <2> QED BY <2>1 DEF FailuresAfter
<1>3. /\ after.status = StatusAfterCheck(seen_p, reachable, score)
      /\ after.validation = IF reachable THEN "passed" ELSE "failed"
      /\ after.failures = failures
      /\ after.passedAge = IF reachable THEN 0 ELSE row.passedAge
  BY DEF AfterCheck, Row
<1>4. after.status = "active" =>
          \/ reachable
          \/ failures < MaxConsecutiveFailures /\ seen_p.status = "active"
  BY <1>1, <1>2, <1>3 DEF StatusAfterCheck
<1>5. after.status # "absent"
  BY <1>3, <1>1, StatusAfterCheckType DEF CheckScores
<1>6. seen_p.status = "active" => row.passedAge # Never
  BY DEF RowInv, Vouched
<1>7. after.passedAge = Never => ~reachable /\ row.passedAge = Never
  BY <1>3 DEF Never
<1>8. after.status = "active" => Vouched(after)
  BY <1>2, <1>3, <1>4, <1>6, <1>7 DEF Vouched
<1>9. after.validation = "passed" => after.passedAge # Never /\ after.failures = 0
  BY <1>2, <1>3, <1>7
<1>10. RowInv(after)
  BY <1>5, <1>8, <1>9 DEF RowInv
<1> QED BY <1>7, <1>10 DEF Keeps

\* A verdict lets a proxy in only on a row that has just passed.
LEMMA VerdictKeeps ==
    ASSUME NEW row \in Row, RowInv(row), row.status # "absent", NEW seen_p \in Row,
           seen_p.status = row.status,
           row.status = "active" \/ row.validation = "passed",
           NEW verdict \in Verdicts, NEW score \in Scores
    PROVE  Keeps(row, AfterVerdict(row, seen_p, verdict, score))
<1> DEFINE after == AfterVerdict(row, seen_p, verdict, score)
<1>1. /\ after.status = IF verdict = "passed" THEN "active" ELSE row.status
      /\ after.validation = row.validation
      /\ after.failures = row.failures
      /\ after.passedAge = row.passedAge
  BY DEF AfterVerdict, Row
<1>2. Vouched(row)
  <2>1. row.validation = "passed" => row.passedAge # Never /\ row.failures = 0
    BY DEF RowInv
  <2> QED BY <2>1 DEF RowInv, Vouched
<1>3. Vouched(after)
  BY <1>1, <1>2 DEF Vouched
<1>4. RowInv(after)
  BY <1>1, <1>2, <1>3 DEF RowInv, Vouched
<1> QED BY <1>1, <1>4 DEF Keeps
-----------------------------------------------------------------------------
(* What each step does to the table. *)

Evolves == \A p \in Proxies : Keeps(rows[p], rows'[p])

LEMMA SameRowsEvolve ==
    ASSUME RowsInv, rows' = rows
    PROVE  Evolves
BY DEF RowsInv, Evolves, Keeps

LEMMA WriteChecksEvolves ==
    ASSUME MemberInv, NEW c \in Cycles, pc[c] = "validate",
           NEW ids \in SUBSET picked[c], WriteChecks(c, ids)
    PROVE  Evolves
<1>1. PICK reachable \in [ids -> BOOLEAN], score \in [ids -> Scores] :
          /\ \A p \in ids : score[p] \in CheckScores(reachable[p])
          /\ rows' = [p \in Proxies |->
                IF p \in ids /\ rows[p].status # "absent"
                THEN AfterCheck(rows[p], seen[c][p], reachable[p], score[p])
                ELSE rows[p]]
  BY DEF WriteChecks, Write
<1>2. ASSUME NEW p \in ids, rows[p].status # "absent"
      PROVE  Keeps(rows[p], AfterCheck(rows[p], seen[c][p], reachable[p], score[p]))
  <2>1. p \in DOMAIN seen[c] /\ p \in Proxies
    BY DEF MemberInv, TypeInv, TypeOK, CopiesCoverPicked
  <2>2. rows[p] \in Row /\ seen[c][p] \in Row
    BY <2>1 DEF MemberInv, TypeInv, TypeOK
  <2>3. RowInv(seen[c][p]) /\ (seen[c][p].passedAge # Never => rows[p].passedAge # Never)
    BY <2>1 DEF MemberInv, CopiesInv
  <2>4. reachable[p] \in BOOLEAN /\ score[p] \in CheckScores(reachable[p])
    BY <1>1
  <2> QED BY <1>2, <2>2, <2>3, <2>4, CheckKeeps
<1>3. \A p \in Proxies : Keeps(rows[p], rows[p])
  BY DEF MemberInv, RowsInv, Keeps
<1> QED BY <1>1, <1>2, <1>3 DEF Evolves

LEMMA WriteVerdictsEvolves ==
    ASSUME MemberInv, NEW c \in Cycles, pc[c] = "probe",
           NEW ids \in SUBSET DOMAIN seen[c], WriteVerdicts(c, ids)
    PROVE  Evolves
<1>1. PICK verdict \in [ids -> Verdicts], score \in [ids -> Scores] :
          rows' = [p \in Proxies |->
                IF p \in ids /\ rows[p].status # "absent"
                THEN AfterVerdict(rows[p], seen[c][p], verdict[p], score[p])
                ELSE rows[p]]
  BY DEF WriteVerdicts, Write
<1>2. ASSUME NEW p \in ids, rows[p].status # "absent"
      PROVE  Keeps(rows[p], AfterVerdict(rows[p], seen[c][p], verdict[p], score[p]))
  <2>1. p \in DOMAIN seen[c] /\ p \in Proxies
    BY DEF MemberInv, TypeInv, TypeOK
  <2>2. rows[p] \in Row /\ seen[c][p] \in Row /\ RowInv(rows[p])
    BY <2>1 DEF MemberInv, TypeInv, TypeOK, RowsInv
  <2>3. seen[c][p].status = rows[p].status
        /\ (rows[p].status = "active" \/ rows[p].validation = "passed")
    BY <2>1 DEF MemberInv, ProbesInv
  <2>4. verdict[p] \in Verdicts /\ score[p] \in Scores
    BY <1>1
  <2> QED BY <1>2, <2>2, <2>3, <2>4, VerdictKeeps
<1>3. \A p \in Proxies : Keeps(rows[p], rows[p])
  BY DEF MemberInv, RowsInv, Keeps
<1> QED BY <1>1, <1>2, <1>3 DEF Evolves

LEMMA ClaimRowsEvolves ==
    ASSUME MemberInv, NEW c \in Cycles, NEW ids, ClaimRows(c, ids)
    PROVE  Evolves
<1>1. \A p \in Proxies : Keeps(rows[p], Claimed(rows[p], c)) /\ Keeps(rows[p], rows[p])
  BY ClaimsKeep DEF MemberInv, TypeInv, TypeOK, RowsInv, Keeps
<1> QED BY <1>1 DEF ClaimRows, Write, Evolves

\* Two rules applied to a row one after the other.
LEMMA KeepsTwice ==
    ASSUME NEW a, NEW b, NEW d, Keeps(a, b), Keeps(b, d)
    PROVE  Keeps(a, d)
BY DEF Keeps

LEMMA RowsEvolve ==
    ASSUME MemberInv, [Next]_vars
    PROVE  Evolves
<1>0. \A p \in Proxies : rows[p] \in Row /\ RowInv(rows[p]) /\ Keeps(rows[p], rows[p])
  BY DEF MemberInv, TypeInv, TypeOK, RowsInv, Keeps
<1>1. ASSUME NEW c \in Cycles, UpsertCandidates(c) PROVE Evolves
  <2>1. \A p \in Proxies : Keeps(rows[p], Upserted(rows[p], c))
    BY <1>0, ClaimsKeep
  <2> QED BY <1>0, <1>1, <2>1 DEF UpsertCandidates, Write, Evolves
<1>2. ASSUME NEW c \in Cycles, MarkPending(c) PROVE Evolves
  BY <1>2, ClaimRowsEvolves DEF MarkPending
<1>3. ASSUME NEW c \in Cycles, PersistValidation(c) PROVE Evolves
  <2>1. PICK answered \in SUBSET picked[c] : WriteChecks(c, answered)
    BY <1>3 DEF PersistValidation, Answered
  <2> QED BY <1>3, <2>1, WriteChecksEvolves DEF PersistValidation, At
<1>4. ASSUME NEW c \in Cycles, PersistService(c) PROVE Evolves
  <2>1. PICK answered \in SUBSET DOMAIN seen[c] : WriteVerdicts(c, answered)
    BY <1>4 DEF PersistService, Answered
  <2> QED BY <1>4, <2>1, WriteVerdictsEvolves DEF PersistService, At
<1>5. ASSUME NEW c \in Cycles, ExpireStale(c) \/ QuarantineFailures(c) PROVE Evolves
  <2>1. \A p \in Proxies : /\ Keeps(rows[p], AfterExpiry(rows[p]))
                           /\ Keeps(rows[p], AfterQuarantine(rows[p]))
    BY <1>0, SweepsKeep
  <2> QED BY <1>5, <2>1 DEF ExpireStale, QuarantineFailures, Write, Evolves
<1>6. ASSUME NEW c \in Cycles, DemoteOverflow(c) PROVE Evolves
  <2>1. \A p \in Proxies : Keeps(rows[p], [rows[p] EXCEPT !.status = "quarantined"])
    BY <1>0 DEF Keeps, RowInv, Row
  <2> QED BY <1>0, <1>6, <2>1 DEF DemoteOverflow, Write, Evolves
<1>7. ASSUME NEW c \in Cycles, ReleaseOrphanedPending(c) \/ ReleaseForeignPending(c)
      PROVE  Evolves
  <2>1. \A p \in Proxies : /\ Keeps(rows[p], ReleasedOwn(rows[p], c))
                           /\ Keeps(rows[p], ReleasedForeign(rows[p], c))
    BY <1>0, ClaimsKeep
  <2> QED BY <1>7, <2>1 DEF ReleaseOrphanedPending, ReleaseForeignPending, Write, Evolves
<1>8. ASSUME NEW c \in Cycles, PruneHistory(c) PROVE Evolves
  <2>1. \A p \in Proxies : Prunable(rows[p]) => Keeps(rows[p], NoRow)
    BY NoRowInv DEF Prunable, Keeps
  <2> QED BY <1>0, <1>8, <2>1 DEF PruneHistory, Write, Evolves
<1>9. ASSUME NEW c \in Cycles, WrapUp(c) PROVE Evolves
  <2>1. \A p \in Proxies : Keeps(rows[p], Forgotten(rows[p], c))
    BY <1>0, ClaimsKeep
  <2> QED BY <1>9, <2>1 DEF WrapUp, Leave, Write, Evolves
<1>10. ASSUME NEW c \in Cycles, ReleaseAfterFailure(c) PROVE Evolves
  <2>1. \A p \in Proxies : Keeps(rows[p], Forgotten(rows[p], c))
    BY <1>0, ClaimsKeep
  <2>2. ASSUME NEW p \in Proxies
        PROVE  Keeps(rows[p], Forgotten(ReleasedOwn(rows[p], c), c))
    <3>1. Keeps(rows[p], ReleasedOwn(rows[p], c)) /\ ReleasedOwn(rows[p], c) \in Row
      BY <1>0, ClaimsKeep, ClaimsType
    <3>2. Keeps(ReleasedOwn(rows[p], c), Forgotten(ReleasedOwn(rows[p], c), c))
      BY <3>1, ClaimsKeep DEF Keeps
    <3> QED BY <3>1, <3>2, KeepsTwice
  <2> QED BY <1>10, <2>1, <2>2 DEF ReleaseAfterFailure, Leave, Write, Evolves
<1>11. ASSUME NEW c \in Cycles, WriteThrows(c) PROVE Evolves
  BY <1>11, ClaimRowsEvolves, WriteChecksEvolves, WriteVerdictsEvolves DEF WriteThrows, At
<1>12. CASE Crash
  <2>1. \A p \in Proxies : Keeps(rows[p], [rows[p] EXCEPT !.owner = NoCycle])
    BY <1>0 DEF Keeps, RowInv, Vouched, Row
  <2> QED BY <1>12, <2>1 DEF Crash, Evolves
<1>13. CASE Tick
  <2>1. \A p \in Proxies : Keeps(rows[p], AgedRow(rows[p]))
    BY <1>0, AgingKeeps
  <2> QED BY <1>13, <2>1 DEF Tick, Write, Evolves
<1>14. ASSUME NEW c \in Cycles,
              \/ StartCycle(c) \/ SelectValidationQueue(c) \/ Shortlist(c) \/ CountMembers(c)
              \/ Complete(c) \/ FailCycle(c) \/ StartThrows(c) \/ Throw(c)
       PROVE  Evolves
  <2>1. rows' = rows
    BY <1>14 DEF StartCycle, SelectValidationQueue, Shortlist, CountMembers, Complete,
                 FailCycle, StartThrows, Throw
  <2> QED BY <2>1, SameRowsEvolve DEF MemberInv
<1>15. CASE UNCHANGED vars
  BY <1>15, SameRowsEvolve DEF vars, MemberInv
<1> QED
  BY <1>1, <1>2, <1>3, <1>4, <1>5, <1>6, <1>7, <1>8, <1>9, <1>10, <1>11, <1>12, <1>13,
     <1>14, <1>15 DEF Next, Step
-----------------------------------------------------------------------------
(* What each step does to the copies. *)

LEMMA MemberInit == Init => MemberInv
<1> SUFFICES ASSUME Init PROVE RowsInv /\ CopiesInv /\ ProbesInv
  BY TypeInit DEF MemberInv
<1>1. RowsInv
  BY NoRowInv DEF Init, RowsInv
<1> QED BY <1>1 DEF Init, CopiesInv, ProbesInv

\* Cycles that keep their place keep what is known of their copies.
LEMMA CopiesStep ==
    ASSUME MemberInv, [Next]_vars, Evolves, NEW c \in Cycles,
           pc'[c] \in {"claim", "validate"}
    PROVE  \A p \in DOMAIN seen'[c] :
               /\ RowInv(seen'[c][p])
               /\ seen'[c][p].passedAge # Never => rows'[p].passedAge # Never
<1>0. pc \in [Cycles -> Stage] /\ DOMAIN seen = Cycles /\ DOMAIN seen[c] \subseteq Proxies
  BY DEF MemberInv, TypeInv, TypeOK
<1>1. CASE pc[c] \in {"claim", "validate"} /\ seen'[c] = seen[c]
  <2>1. \A p \in DOMAIN seen[c] :
            /\ RowInv(seen[c][p])
            /\ seen[c][p].passedAge # Never => rows[p].passedAge # Never
    BY <1>1 DEF MemberInv, CopiesInv
  <2> QED BY <1>0, <1>1, <2>1 DEF Evolves, Keeps
<1>2. CASE SelectValidationQueue(c)
  <2>1. PICK S : seen' = [seen EXCEPT ![c] = Copies(S)]
    BY <1>2 DEF SelectValidationQueue
  <2>2. seen'[c] = Copies(S) /\ DOMAIN seen'[c] \subseteq Proxies
    BY <1>0, <2>1, TypeStep DEF MemberInv, TypeInv, TypeOK
  <2>3. rows' = rows
    BY <1>2 DEF SelectValidationQueue
  <2> QED BY <2>2, <2>3 DEF MemberInv, RowsInv, Copies
<1>3. CASE /\ ~SelectValidationQueue(c)
           /\ ~(pc[c] \in {"claim", "validate"} /\ seen'[c] = seen[c])
  <2>1. ASSUME NEW d \in Cycles, d # c, Step(d) \/ StartThrows(d) \/ Throw(d) \/ WriteThrows(d)
        PROVE  pc'[c] = pc[c] /\ seen'[c] = seen[c]
    BY <1>0, <2>1 DEF Step, StartCycle, UpsertCandidates, SelectValidationQueue, MarkPending,
       PersistValidation, Shortlist, PersistService, ExpireStale, QuarantineFailures,
       CountMembers, DemoteOverflow, ReleaseOrphanedPending, ReleaseForeignPending, Complete,
       PruneHistory, WrapUp, Leave, FailCycle, ReleaseAfterFailure, StartThrows, Throw,
       WriteThrows, Goto
  <2>2. ASSUME Step(c) \/ StartThrows(c) \/ Throw(c) \/ WriteThrows(c), ~SelectValidationQueue(c)
        PROVE  \/ pc'[c] \notin {"claim", "validate"}
               \/ pc[c] = "claim" /\ seen'[c] = seen[c]
    BY <1>0, <2>2 DEF Step, StartCycle, UpsertCandidates, MarkPending,
       PersistValidation, Shortlist, PersistService, ExpireStale, QuarantineFailures,
       CountMembers, DemoteOverflow, ReleaseOrphanedPending, ReleaseForeignPending, Complete,
       PruneHistory, WrapUp, Leave, FailCycle, ReleaseAfterFailure, StartThrows, Throw,
       WriteThrows, Goto, At
  <2>3. CASE Crash
    BY <2>3 DEF Crash
  <2>4. CASE Tick \/ UNCHANGED vars
    BY <1>3, <2>4 DEF Tick, vars
  <2> QED BY <1>3, <2>1, <2>2, <2>3, <2>4 DEF Next
<1> QED BY <1>1, <1>2, <1>3

\* While a cycle probes nobody else writes.
LEMMA ProbesStep ==
    ASSUME Undisturbed, MemberInv, [Next]_vars, NEW c \in Cycles, pc'[c] = "probe"
    PROVE  /\ ServiceBudget # 0
           /\ \A p \in DOMAIN seen'[c] :
                 /\ seen'[c][p].status = rows'[p].status
                 /\ rows'[p].status = "active" \/ rows'[p].validation = "passed"
<1>0. /\ pc \in [Cycles -> Stage] /\ DOMAIN seen = Cycles /\ DOMAIN seen[c] \subseteq Proxies
      /\ rows \in [Proxies -> Row]
  BY DEF MemberInv, TypeInv, TypeOK
<1>1. CASE Shortlist(c)
  <2>1. /\ ServiceBudget # 0
        /\ rows' = rows
        /\ \E chosen \in ServiceCandidates(c) : seen' = [seen EXCEPT ![c] = Copies(chosen)]
    BY <1>0, <1>1 DEF Shortlist, Goto
  <2>2. PICK chosen \in ServiceCandidates(c) : seen' = [seen EXCEPT ![c] = Copies(chosen)]
    BY <2>1
  <2>3. \A p \in chosen : rows[p].status = "active" \/ rows[p].validation = "passed"
    <3>1. PICK fresh \in FreshCandidates(c) :
              \E stale \in StaleCandidates(ServiceBudget - Cardinality(fresh)) :
                  chosen = fresh \cup stale
      BY DEF ServiceCandidates
    <3>2. \A p \in fresh : rows[p].validation = "passed"
      BY DEF FreshCandidates, FirstN, WorthProbing
    <3>3. PICK stale \in StaleCandidates(ServiceBudget - Cardinality(fresh)) :
              chosen = fresh \cup stale
      BY <3>1
    <3>4. \A p \in stale : rows[p].status = "active"
      BY DEF StaleCandidates, FirstN, ServiceStale
    <3> QED BY <3>2, <3>3, <3>4
  <2> QED BY <1>0, <2>1, <2>2, <2>3 DEF Copies
<1>2. CASE ~Shortlist(c) /\ ServiceBudget # 0
  <2>1. \A d \in Cycles : d = c
    BY <1>2 DEF Undisturbed, SingleFlight
  <2>2. ~(Step(c) \/ StartThrows(c) \/ Throw(c) \/ WriteThrows(c)) \/ PruneHistory(c)
    BY <1>0, <1>2 DEF Step, StartCycle, UpsertCandidates, SelectValidationQueue, MarkPending,
       PersistValidation, PersistService, ExpireStale, QuarantineFailures,
       CountMembers, DemoteOverflow, ReleaseOrphanedPending, ReleaseForeignPending, Complete,
       WrapUp, Leave, FailCycle, ReleaseAfterFailure, StartThrows, Throw,
       WriteThrows, Goto, At
  <2>3. ~PruneHistory(c)
    BY <1>0 DEF PruneHistory, At
  <2>4. ~Crash
    BY DEF Crash
  <2>5. Tick \/ UNCHANGED vars
    BY <2>1, <2>2, <2>3, <2>4 DEF Next
  <2>6. /\ pc' = pc /\ seen' = seen
        /\ \A p \in Proxies : /\ rows'[p].status = rows[p].status
                              /\ rows'[p].validation = rows[p].validation
    <3>1. CASE Tick
      <4>1. \A p \in Proxies : rows'[p] = AgedRow(rows[p])
        BY <3>1 DEF Tick, Write
      <4>2. \A row \in Row : /\ AgedRow(row).status = row.status
                             /\ AgedRow(row).validation = row.validation
        BY DEF AgedRow, Row
      <4> QED BY <1>0, <3>1, <4>1, <4>2 DEF Tick
    <3>2. CASE UNCHANGED vars
      BY <3>2 DEF vars
    <3> QED BY <2>5, <3>1, <3>2
  <2> QED BY <1>0, <1>2, <2>6 DEF MemberInv, ProbesInv
<1>3. CASE ~Shortlist(c) /\ ServiceBudget = 0
  <2>1. pc[c] # "probe"
    BY <1>3 DEF MemberInv, ProbesInv
  <2>2. ASSUME NEW d \in Cycles, Step(d) \/ StartThrows(d) \/ Throw(d) \/ WriteThrows(d)
        PROVE  pc'[c] # "probe"
    <3>1. PICK there \in Stage : Goto(d, there) \/ pc' = pc
      BY <1>0, <2>2 DEF Stage, Step, StartCycle, UpsertCandidates, SelectValidationQueue,
         MarkPending, PersistValidation, Shortlist, PersistService, ExpireStale,
         QuarantineFailures, CountMembers, DemoteOverflow, ReleaseOrphanedPending,
         ReleaseForeignPending, Complete, PruneHistory, WrapUp, Leave, FailCycle,
         ReleaseAfterFailure, StartThrows, Throw, WriteThrows
    <3>2. CASE d # c
      BY <1>0, <2>1, <3>1, <3>2 DEF Goto
    <3>3. CASE d = c
      BY <1>0, <1>3, <2>1, <2>2, <3>3 DEF Step, StartCycle, UpsertCandidates,
         SelectValidationQueue, MarkPending, PersistValidation, PersistService, ExpireStale,
         QuarantineFailures, CountMembers, DemoteOverflow, ReleaseOrphanedPending,
         ReleaseForeignPending, Complete, PruneHistory, WrapUp, Leave, FailCycle,
         ReleaseAfterFailure, StartThrows, Throw, WriteThrows, Goto
    <3> QED BY <3>2, <3>3
  <2>3. ~Crash /\ ~(Tick \/ UNCHANGED vars)
    BY <2>1 DEF Crash, Tick, vars
  <2> QED BY <2>2, <2>3 DEF Next
<1> QED BY <1>1, <1>2, <1>3

LEMMA MemberStep ==
    ASSUME Undisturbed
    PROVE  MemberInv /\ [Next]_vars => MemberInv'
<1> SUFFICES ASSUME MemberInv, [Next]_vars PROVE MemberInv'
  OBVIOUS
<1>1. Evolves
  BY RowsEvolve
<1>2. TypeInv'
  BY TypeStep DEF MemberInv
<1>3. RowsInv'
  BY <1>1 DEF Evolves, Keeps, RowsInv
<1>4. CopiesInv'
  BY <1>1, CopiesStep DEF CopiesInv
<1>5. ProbesInv'
  BY ProbesStep DEF ProbesInv
<1> QED BY <1>2, <1>3, <1>4, <1>5 DEF MemberInv

(* A pool member has passed a check and stands below the failure           *)
(* threshold, in every state of every run in which cycles do not overlap,  *)
(* or in which they do but the service stage is off.                       *)
THEOREM OnlyVouchedServe ==
    ASSUME Undisturbed
    PROVE  Spec => []MembersVouched
<1>1. Spec => []MemberInv
  BY MemberInit, MemberStep, PTL DEF Spec
<1>2. MemberInv => MembersVouched
  BY DEF MemberInv, RowsInv, RowInv, Vouched, MembersVouched, Members, WithStatus
<1> QED BY <1>1, <1>2, PTL

-----------------------------------------------------------------------------
(* From here on, what the cycle promises as long as cycles do not overlap, *)
(* for any endpoints, limits and faults and no jobs beside them: a         *)
(* completed cycle leaves the pool settled, and every statement moves      *)
(* endpoints the way PoolLifecycle allows.  (With overlapping cycles these *)
(* are false; see README.md.)                                              *)

LEMMA LaneUndisturbed == SingleFlight => Undisturbed
BY DEF Undisturbed

\* Where cycles do not overlap, a step is one of the only cycle there is.
LEMMA LaneStep ==
    ASSUME SingleFlight, [Next]_vars, NEW c \in Cycles
    PROVE  \/ Step(c) \/ StartThrows(c) \/ Throw(c) \/ WriteThrows(c)
           \/ Crash \/ Tick \/ UNCHANGED vars
BY DEF SingleFlight, Next

\* What time and a step of nobody leave alone.
Timeless(row, later) ==
    /\ later.status = row.status
    /\ later.validation = row.validation
    /\ later.failures = row.failures
    /\ later.service = row.service
    /\ later.score = row.score
    /\ later.owner = row.owner
    /\ later.passedAge = Never <=> row.passedAge = Never

LEMMA TimePasses ==
    ASSUME TypeOK, Tick \/ UNCHANGED vars
    PROVE  /\ pc' = pc /\ picked' = picked /\ seen' = seen /\ overflow' = overflow
           /\ record' = record /\ faults' = faults
           /\ \A p \in Proxies : Timeless(rows[p], rows'[p])
<1>1. CASE Tick
  <2>1. \A p \in Proxies : rows'[p] = AgedRow(rows[p]) /\ rows[p] \in Row
    BY <1>1 DEF Tick, Write, TypeOK
  <2>2. ASSUME NEW row \in Row PROVE Timeless(row, AgedRow(row))
    <3>1. row.passedAge = Never <=> Aged(row.passedAge, PoolTtl) = Never
      BY DEF Row, AgeUpTo, Aged, Never
    <3> QED BY <3>1 DEF Timeless, AgedRow, Row
  <2> QED BY <1>1, <2>1, <2>2 DEF Tick, bookkeeping
<1>2. CASE UNCHANGED vars
  BY <1>2 DEF vars, Timeless
<1> QED BY <1>1, <1>2

\* How a cycle gets to the statements between which it keeps copies.
LEMMA Arriving ==
    ASSUME SingleFlight, TypeOK, [Next]_vars, NEW c \in Cycles,
           pc'[c] \in {"claim", "validate", "shortlist", "probe"}
    PROVE  \/ SelectValidationQueue(c) \/ MarkPending(c) \/ PersistValidation(c)
           \/ Shortlist(c) \/ Tick \/ UNCHANGED vars
<1>1. pc \in [Cycles -> Stage]
  BY DEF TypeOK
<1>2. ASSUME Step(c) \/ StartThrows(c) \/ Throw(c) \/ WriteThrows(c)
      PROVE  \/ SelectValidationQueue(c) \/ MarkPending(c) \/ PersistValidation(c) \/ Shortlist(c)
  BY <1>1, <1>2 DEF Step, StartCycle, UpsertCandidates, PersistService, ExpireStale,
     QuarantineFailures, CountMembers, DemoteOverflow, ReleaseOrphanedPending,
     ReleaseForeignPending, Complete, PruneHistory, WrapUp, Leave, FailCycle,
     ReleaseAfterFailure, StartThrows, Throw, WriteThrows, Goto, At
<1>3. ~Crash
  BY DEF Crash
<1> QED BY <1>2, <1>3, LaneStep

-----------------------------------------------------------------------------
(* Copies.  What planValidation and planService read from a copy still     *)
(* stands in the table when they write, as long as nobody but the cycle    *)
(* writes; the proofs below rest on it.                                    *)

CopiesCurrent ==
    \A c \in Cycles : \A p \in DOMAIN seen[c] :
        /\ pc[c] \in {"claim", "validate"} =>
              /\ rows[p].failures = seen[c][p].failures
              /\ rows[p].service = seen[c][p].service
              /\ rows[p].passedAge = Never <=> seen[c][p].passedAge = Never
              /\ rows[p].status \in {seen[c][p].status, "pending"}
        /\ pc[c] = "probe" =>
              /\ rows[p].status = seen[c][p].status
              /\ rows[p].validation = seen[c][p].validation
              /\ rows[p].failures = seen[c][p].failures

LEMMA CurrentInit == Init => CopiesCurrent
BY DEF Init, CopiesCurrent

LEMMA CurrentStep ==
    ASSUME SingleFlight
    PROVE  TypeInv /\ CopiesCurrent /\ [Next]_vars => CopiesCurrent'
<1> SUFFICES ASSUME TypeInv, CopiesCurrent, [Next]_vars, NEW c \in Cycles,
                    pc'[c] \in {"claim", "validate", "probe"}
             PROVE  \A p \in DOMAIN seen'[c] :
                       /\ pc'[c] \in {"claim", "validate"} =>
                             /\ rows'[p].failures = seen'[c][p].failures
                             /\ rows'[p].service = seen'[c][p].service
                             /\ rows'[p].passedAge = Never <=> seen'[c][p].passedAge = Never
                             /\ rows'[p].status \in {seen'[c][p].status, "pending"}
                       /\ pc'[c] = "probe" =>
                             /\ rows'[p].status = seen'[c][p].status
                             /\ rows'[p].validation = seen'[c][p].validation
                             /\ rows'[p].failures = seen'[c][p].failures
  BY DEF CopiesCurrent
<1>0. /\ TypeOK /\ pc \in [Cycles -> Stage] /\ DOMAIN seen = Cycles
      /\ DOMAIN seen[c] \subseteq Proxies /\ rows \in [Proxies -> Row]
  BY DEF TypeInv, TypeOK
<1>1. CASE SelectValidationQueue(c) \/ Shortlist(c)
  <2>1. rows' = rows /\ \E S : seen' = [seen EXCEPT ![c] = Copies(S)]
    <3>1. NoCopies = Copies({})
      BY DEF NoCopies, Copies
    <3> QED BY <1>1, <3>1 DEF SelectValidationQueue, Shortlist
  <2>2. PICK S : seen' = [seen EXCEPT ![c] = Copies(S)]
    BY <2>1
  <2>3. \A p \in DOMAIN seen'[c] : seen'[c][p] = rows[p]
    BY <1>0, <2>2 DEF Copies
  <2> QED BY <2>1, <2>3
<1>2. CASE MarkPending(c)
  <2>1. seen' = seen /\ pc[c] = "claim" /\ pc'[c] = "validate"
    BY <1>0, <1>2 DEF MarkPending, At, Goto
  <2>2. \A p \in Proxies : rows'[p] = rows[p] \/ rows'[p] = Claimed(rows[p], c)
    BY <1>2 DEF MarkPending, ClaimRows, Write
  <2>3. ASSUME NEW p \in Proxies
        PROVE  /\ rows'[p].failures = rows[p].failures
               /\ rows'[p].service = rows[p].service
               /\ rows'[p].passedAge = rows[p].passedAge
               /\ rows'[p].status \in {rows[p].status, "pending"}
    <3>1. CASE rows'[p] = rows[p]
      BY <3>1
    <3>2. CASE rows'[p] = Claimed(rows[p], c)
      <4>1. rows[p] \in Row
        BY <1>0
      <4> QED BY <3>2, <4>1 DEF Claimed, Row
    <3> QED BY <2>2, <3>1, <3>2
  <2> QED BY <1>0, <2>1, <2>3 DEF CopiesCurrent
<1>3. CASE PersistValidation(c)
  BY <1>0, <1>3 DEF PersistValidation, Goto
<1>4. CASE Tick \/ UNCHANGED vars
  <2>1. pc' = pc /\ seen' = seen /\ \A p \in Proxies : Timeless(rows[p], rows'[p])
    BY <1>0, <1>4, TimePasses
  <2> QED BY <1>0, <2>1 DEF CopiesCurrent, Timeless
<1> QED BY <1>0, <1>1, <1>2, <1>3, <1>4, Arriving

-----------------------------------------------------------------------------
(* A completed cycle leaves the pool settled.  SettledPool alone is not    *)
(* inductive: it rests on what each sweep of finalize has established and  *)
(* the later ones keep, and on the record being `running` until then.      *)

RecordInv ==
    \A c \in Cycles :
        record[c] # "running" => pc[c] \in {"idle", "wrapUp", "failRecord", "failRelease"}

CapacityInv ==
    \A c \in Cycles :
        /\ pc[c] = "demote" => Cardinality(Members) = MaxActive + overflow[c]
        /\ pc[c] \in {"releaseOwn", "releaseForeign", "complete"} \/ record[c] = "completed" =>
              Cardinality(Members) <= MaxActive

PendingInv ==
    \A c \in Cycles :
        /\ pc[c] = "releaseForeign" => \A p \in WithStatus("pending") : rows[p].owner # c
        /\ pc[c] = "complete" \/ record[c] = "completed" => WithStatus("pending") = {}

FinalizeInv == RecordInv /\ CapacityInv /\ PendingInv

LEMMA FinalizeInit == Init => FinalizeInv
BY DEF Init, FinalizeInv, RecordInv, CapacityInv, PendingInv

LEMMA MembersFinite == IsFiniteSet(Members) /\ Cardinality(Members) \in Nat
<1>1. IsFiniteSet(Members)
  BY FS_Subset DEF Members, WithStatus
<1> QED BY <1>1, FS_CardinalityType

\* enforcePoolCapacity: what the second statement demotes is what the first
\* one counted too many.
LEMMA Demotion ==
    ASSUME TypeOK, CapacityInv, NEW c \in Cycles, pc[c] = "demote",
           NEW demoted \in FirstN(Members, overflow[c], LowerScore)
    PROVE  /\ demoted \subseteq Members
           /\ Cardinality(Members \ demoted) = MaxActive
           /\ \A p \in demoted, q \in Members \ demoted : ~LowerScore(q, p)
<1>1. /\ demoted \subseteq Members
      /\ Cardinality(demoted) = IF Cardinality(Members) <= overflow[c] THEN Cardinality(Members)
                                ELSE overflow[c]
      /\ \A p \in demoted, q \in Members \ demoted : ~LowerScore(q, p)
  BY DEF FirstN
<1>2. overflow[c] \in Nat /\ Cardinality(Members) = MaxActive + overflow[c]
  BY DEF TypeOK, CapacityInv
<1>3. Cardinality(demoted) = overflow[c]
  BY <1>1, <1>2
<1>4. Members \cap demoted = demoted
  BY <1>1
<1>5. Cardinality(Members \ demoted) = Cardinality(Members) - Cardinality(demoted)
  BY <1>4, MembersFinite, FS_Difference
<1> QED BY <1>1, <1>2, <1>3, <1>5

\* What is left to do after the sweeps: members stay, nothing is claimed.
Quiet ==
    /\ Members' = Members
    /\ WithStatus("pending")' \subseteq WithStatus("pending")
    /\ \A p \in WithStatus("pending")' : rows'[p].owner \in {rows[p].owner, NoCycle}

LEMMA QuietSteps ==
    ASSUME TypeOK, NEW c \in Cycles,
           \/ UNCHANGED rows
           \/ ReleaseOrphanedPending(c) \/ ReleaseForeignPending(c) \/ PruneHistory(c)
           \/ WrapUp(c) \/ ReleaseAfterFailure(c) \/ Crash \/ Tick
    PROVE  Quiet
<1>0. \A p \in Proxies : rows[p] \in Row
  BY DEF TypeOK
<1> DEFINE Settles(p) ==
             /\ \/ rows'[p].status = rows[p].status
                \/ rows[p].status \in {"pending", "dead"} /\ rows'[p].status \in {"new", "absent"}
             /\ rows'[p].status = "pending" => rows'[p].owner \in {rows[p].owner, NoCycle}
<1>1. ASSUME NEW p \in Proxies
      PROVE  Settles(p)
  <2>1. CASE UNCHANGED rows
    BY <2>1
  <2>2. CASE ReleaseOrphanedPending(c)
    <3>1. rows'[p] = ReleasedOwn(rows[p], c)
      BY <2>2 DEF ReleaseOrphanedPending, Write
    <3> QED BY <1>0, <3>1 DEF ReleasedOwn, Row
  <2>3. CASE ReleaseForeignPending(c)
    <3>1. rows'[p] = ReleasedForeign(rows[p], c)
      BY <2>3 DEF ReleaseForeignPending, Write
    <3> QED BY <1>0, <3>1 DEF ReleasedForeign, Row
  <2>4. CASE PruneHistory(c)
    <3>1. rows'[p] = rows[p] \/ (rows[p].status = "dead" /\ rows'[p] = NoRow)
      BY <2>4 DEF PruneHistory, Write, Prunable
    <3> QED BY <3>1 DEF NoRow
  <2>5. CASE WrapUp(c)
    <3>1. rows'[p] = Forgotten(rows[p], c)
      BY <2>5 DEF WrapUp, Leave, Write
    <3> QED BY <1>0, <3>1 DEF Forgotten, Row
  <2>6. CASE ReleaseAfterFailure(c)
    <3>1. \/ rows'[p] = Forgotten(rows[p], c)
          \/ rows'[p] = Forgotten(ReleasedOwn(rows[p], c), c)
      BY <2>6 DEF ReleaseAfterFailure, Leave, Write
    <3> QED BY <1>0, <3>1 DEF Forgotten, ReleasedOwn, Row
  <2>7. CASE Crash
    BY <1>0, <2>7 DEF Crash, Row
  <2>8. CASE Tick
    BY <2>8, TimePasses DEF Timeless
  <2> QED BY <2>1, <2>2, <2>3, <2>4, <2>5, <2>6, <2>7, <2>8
<1> QED BY <1>1 DEF Quiet, Members, WithStatus

\* The statements that may still move members, and those that may not.
Sweeping(c) ==
    \/ UpsertCandidates(c) \/ MarkPending(c) \/ PersistValidation(c) \/ PersistService(c)
    \/ ExpireStale(c) \/ QuarantineFailures(c) \/ DemoteOverflow(c) \/ WriteThrows(c)

LEMMA SweepingOrQuiet ==
    ASSUME SingleFlight, TypeOK, [Next]_vars, NEW c \in Cycles
    PROVE  Sweeping(c) \/ Quiet
<1>1. ASSUME \/ StartCycle(c) \/ SelectValidationQueue(c) \/ Shortlist(c) \/ CountMembers(c)
             \/ Complete(c) \/ FailCycle(c) \/ StartThrows(c) \/ Throw(c) \/ UNCHANGED vars
      PROVE  Quiet
  <2>1. UNCHANGED rows
    BY <1>1 DEF StartCycle, SelectValidationQueue, Shortlist, CountMembers, Complete, FailCycle,
                StartThrows, Throw, vars
  <2> QED BY <2>1, QuietSteps
<1> QED BY <1>1, QuietSteps, LaneStep DEF Step, Sweeping

LEMMA RecordStep ==
    ASSUME SingleFlight, TypeOK, RecordInv, [Next]_vars
    PROVE  RecordInv'
<1> SUFFICES ASSUME NEW c \in Cycles
             PROVE  record'[c] # "running" =>
                        pc'[c] \in {"idle", "wrapUp", "failRecord", "failRelease"}
  BY DEF RecordInv
<1>0. /\ pc \in [Cycles -> Stage] /\ record \in [Cycles -> {"none", "running", "completed", "failed"}]
      /\ record[c] # "running" => pc[c] \in {"idle", "wrapUp", "failRecord", "failRelease"}
  BY DEF TypeOK, RecordInv
<1>1. CASE Step(c) \/ StartThrows(c) \/ Throw(c) \/ WriteThrows(c)
  BY <1>0, <1>1 DEF Step, StartCycle, UpsertCandidates, SelectValidationQueue, MarkPending,
     PersistValidation, Shortlist, PersistService, ExpireStale, QuarantineFailures,
     CountMembers, DemoteOverflow, ReleaseOrphanedPending, ReleaseForeignPending, Complete,
     PruneHistory, WrapUp, Leave, FailCycle, ReleaseAfterFailure, StartThrows, Throw,
     WriteThrows, Goto, At, bookkeeping
<1>2. CASE Crash
  BY <1>2 DEF Crash
<1>3. CASE Tick \/ UNCHANGED vars
  BY <1>0, <1>3, TimePasses
<1> QED BY <1>1, <1>2, <1>3, LaneStep

\* The places from which the pool is within its bound, and how they are reached.
LEMMA Finalizing ==
    ASSUME SingleFlight, TypeOK, RecordInv, [Next]_vars, NEW c \in Cycles
    PROVE  /\ pc'[c] = "demote" =>
                 \/ CountMembers(c)
                 \/ pc[c] = "demote" /\ Quiet /\ UNCHANGED <<pc, overflow>>
           /\ pc'[c] = "releaseOwn" =>
                 \/ CountMembers(c) \/ DemoteOverflow(c)
                 \/ pc[c] = "releaseOwn" /\ Quiet
           /\ pc'[c] = "releaseForeign" =>
                 \/ ReleaseOrphanedPending(c)
                 \/ pc[c] = "releaseForeign" /\ Quiet
           /\ pc'[c] = "complete" =>
                 \/ ReleaseForeignPending(c)
                 \/ pc[c] = "complete" /\ Quiet
           /\ record'[c] = "completed" =>
                 Quiet /\ (pc[c] = "complete" \/ record[c] = "completed")
<1>0. pc \in [Cycles -> Stage] /\ record \in [Cycles -> {"none", "running", "completed", "failed"}]
  BY DEF TypeOK
<1>1. CASE Tick \/ UNCHANGED vars
  <2>1. pc' = pc /\ record' = record /\ overflow' = overflow
    BY <1>1, TimePasses
  <2>2. Quiet
    BY <1>1, QuietSteps DEF vars
  <2> QED BY <2>1, <2>2
<1>2. CASE Crash
  BY <1>2, QuietSteps DEF Crash
<1>3. CASE StartThrows(c)
  <2>1. pc' = pc /\ record' = record /\ overflow' = overflow /\ Quiet
    BY <1>3, QuietSteps DEF StartThrows
  <2> QED BY <2>1
<1>4. CASE Throw(c) \/ FailCycle(c) \/ ReleaseAfterFailure(c) \/ WrapUp(c) \/ PruneHistory(c)
  <2>1. Quiet
    BY <1>4, QuietSteps DEF Throw, FailCycle
  <2>2. /\ pc'[c] \in {"idle", "wrapUp", "failRecord", "failRelease"}
        /\ record'[c] = "completed" => record[c] = "completed"
    BY <1>0, <1>4 DEF Throw, FailCycle, ReleaseAfterFailure, WrapUp, PruneHistory, Leave, Goto, At,
                      bookkeeping
  <2> QED BY <2>1, <2>2
<1>5. CASE \/ UpsertCandidates(c) \/ SelectValidationQueue(c) \/ MarkPending(c)
           \/ PersistValidation(c) \/ Shortlist(c) \/ PersistService(c) \/ ExpireStale(c)
           \/ QuarantineFailures(c) \/ StartCycle(c) \/ WriteThrows(c)
  <2>1. /\ pc'[c] \notin {"demote", "releaseOwn", "releaseForeign", "complete"}
        /\ record'[c] = "running"
    BY <1>0, <1>5 DEF UpsertCandidates, SelectValidationQueue, MarkPending, PersistValidation,
       Shortlist, PersistService, ExpireStale, QuarantineFailures, StartCycle, WriteThrows, Goto,
       At, bookkeeping, RecordInv
  <2> QED BY <2>1
<1>6. CASE CountMembers(c) \/ DemoteOverflow(c)
  <2>1. pc[c] \in {"count", "demote"} /\ record'[c] = "running"
    BY <1>0, <1>6 DEF CountMembers, DemoteOverflow, At, bookkeeping, RecordInv
  <2>2. pc'[c] \in {"demote", "releaseOwn"} /\ (pc'[c] = "demote" => CountMembers(c))
    BY <1>0, <1>6 DEF CountMembers, DemoteOverflow, Goto
  <2> QED BY <1>6, <2>1, <2>2
<1>7. CASE ReleaseOrphanedPending(c)
  BY <1>0, <1>7 DEF ReleaseOrphanedPending, Goto, At, bookkeeping, RecordInv
<1>8. CASE ReleaseForeignPending(c)
  BY <1>0, <1>8 DEF ReleaseForeignPending, Goto, At, bookkeeping, RecordInv
<1>9. CASE Complete(c)
  <2>1. Quiet
    BY <1>9, QuietSteps DEF Complete
  <2> QED BY <1>0, <1>9, <2>1 DEF Complete, Goto, At
<1> QED BY <1>1, <1>2, <1>3, <1>4, <1>5, <1>6, <1>7, <1>8, <1>9, LaneStep DEF Step

LEMMA CapacityStep ==
    ASSUME SingleFlight, TypeOK, FinalizeInv, [Next]_vars
    PROVE  CapacityInv'
<1> SUFFICES ASSUME NEW c \in Cycles
             PROVE  /\ pc'[c] = "demote" => Cardinality(Members') = MaxActive + overflow'[c]
                    /\ \/ pc'[c] \in {"releaseOwn", "releaseForeign", "complete"}
                       \/ record'[c] = "completed"
                       => Cardinality(Members') <= MaxActive
  BY DEF CapacityInv
<1>0. /\ pc \in [Cycles -> Stage] /\ overflow \in [Cycles -> Nat]
      /\ RecordInv /\ CapacityInv /\ Cardinality(Members) \in Nat
  BY MembersFinite DEF TypeOK, FinalizeInv
<1>1. CASE CountMembers(c)
  <2>1. Members' = Members /\ UNCHANGED record /\ pc[c] = "count"
    BY <1>1 DEF CountMembers, Members, WithStatus, bookkeeping, At
  <2>2. \/ pc'[c] = "releaseOwn" /\ Cardinality(Members) <= MaxActive
        \/ pc'[c] = "demote" /\ Cardinality(Members) = MaxActive + overflow'[c]
    BY <1>0, <1>1 DEF CountMembers, Goto
  <2>3. record[c] = "running"
    BY <1>0, <2>1 DEF RecordInv
  <2> QED BY <2>1, <2>2, <2>3
<1>2. CASE DemoteOverflow(c)
  <2>1. PICK demoted \in FirstN(Members, overflow[c], LowerScore) :
            rows' = [p \in Proxies |-> IF p \in demoted
                                       THEN [rows[p] EXCEPT !.status = "quarantined"] ELSE rows[p]]
    BY <1>2 DEF DemoteOverflow, Write
  <2>2. Cardinality(Members \ demoted) = MaxActive
    BY <1>0, <1>2, Demotion DEF DemoteOverflow, At
  <2>3. Members' = Members \ demoted
    BY <2>1 DEF TypeOK, Row, Members, WithStatus
  <2>4. pc'[c] = "releaseOwn" 
    BY <1>0, <1>2 DEF DemoteOverflow, Goto
  <2> QED BY <2>2, <2>3, <2>4
<1>3. CASE ReleaseOrphanedPending(c) \/ ReleaseForeignPending(c)
  <2>1. Members' = Members
    BY <1>3, QuietSteps DEF Quiet
  <2>2. /\ pc[c] \in {"releaseOwn", "releaseForeign"}
        /\ pc'[c] \in {"releaseForeign", "complete"}
    BY <1>0, <1>3 DEF ReleaseOrphanedPending, ReleaseForeignPending, At, Goto
  <2> QED BY <1>0, <2>1, <2>2 DEF CapacityInv
<1>4. CASE ~(CountMembers(c) \/ DemoteOverflow(c) \/ ReleaseOrphanedPending(c)
             \/ ReleaseForeignPending(c))
  BY <1>0, <1>4, Finalizing DEF CapacityInv, Quiet
<1> QED BY <1>1, <1>2, <1>3, <1>4

LEMMA PendingStep ==
    ASSUME SingleFlight, TypeOK, FinalizeInv, [Next]_vars
    PROVE  PendingInv'
<1> SUFFICES ASSUME NEW c \in Cycles
             PROVE  /\ pc'[c] = "releaseForeign" =>
                          \A p \in WithStatus("pending")' : rows'[p].owner # c
                    /\ pc'[c] = "complete" \/ record'[c] = "completed" =>
                          WithStatus("pending")' = {}
  BY DEF PendingInv
<1>0. pc \in [Cycles -> Stage] /\ rows \in [Proxies -> Row] /\ RecordInv /\ PendingInv
  BY DEF TypeOK, FinalizeInv
<1>1. CASE ReleaseOrphanedPending(c)
  <2>1. \A p \in Proxies : rows'[p] = ReleasedOwn(rows[p], c)
    BY <1>1 DEF ReleaseOrphanedPending, Write
  <2>2. \A p \in Proxies : rows'[p].status = "pending" => rows'[p].owner # c
    BY <1>0, <2>1 DEF ReleasedOwn, Row
  <2>3. pc'[c] = "releaseForeign" /\ record'[c] = "running"
    BY <1>0, <1>1 DEF ReleaseOrphanedPending, At, Goto, RecordInv, bookkeeping
  <2> QED BY <2>2, <2>3 DEF WithStatus
<1>2. CASE ReleaseForeignPending(c)
  <2>1. \A p \in Proxies : rows'[p] = ReleasedForeign(rows[p], c)
    BY <1>2 DEF ReleaseForeignPending, Write
  <2>2. \A p \in WithStatus("pending") : rows[p].owner # c
    BY <1>0, <1>2 DEF ReleaseForeignPending, At, PendingInv
  <2>3. \A p \in Proxies : rows'[p].status # "pending"
    BY <1>0, <2>1, <2>2 DEF ReleasedForeign, Row, WithStatus
  <2> QED BY <1>0, <1>2, <2>3 DEF WithStatus, ReleaseForeignPending, Goto
<1>3. CASE ~(ReleaseOrphanedPending(c) \/ ReleaseForeignPending(c))
  <2>1. NoCycle # c
    OBVIOUS
  <2> QED BY <1>0, <1>3, <2>1, Finalizing DEF PendingInv, Quiet
<1> QED BY <1>1, <1>2, <1>3

LEMMA FinalizeStep ==
    ASSUME SingleFlight
    PROVE  TypeOK /\ FinalizeInv /\ [Next]_vars => FinalizeInv'
<1> SUFFICES ASSUME TypeOK, FinalizeInv, [Next]_vars PROVE FinalizeInv'
  OBVIOUS
<1>1. RecordInv'
  BY RecordStep DEF FinalizeInv
<1>2. CapacityInv' /\ PendingInv'
  BY CapacityStep, PendingStep
<1> QED BY <1>1, <1>2 DEF FinalizeInv

LEMMA FinalizeHolds ==
    ASSUME SingleFlight
    PROVE  Spec => []FinalizeInv
BY FinalizeInit, FinalizeStep, TypeCorrect, PTL DEF Spec

(* Where cycles do not overlap, a cycle that was recorded as completed     *)
(* leaves nothing claimed, the pool within POOL_MAX_ACTIVE and no member   *)
(* at the failure threshold, until the next cycle begins, and whatever     *)
(* earlier cycles died of (PoolManager.finalize).                          *)
THEOREM CompletedIsSettled ==
    ASSUME SingleFlight
    PROVE  Spec => []SettledPool
<1>1. FinalizeInv /\ MembersVouched => SettledPool
  BY DEF FinalizeInv, CapacityInv, PendingInv, MembersVouched, SettledPool
<1>2. Spec => []MembersVouched
  BY OnlyVouchedServe, LaneUndisturbed
<1> QED BY <1>1, <1>2, FinalizeHolds, PTL

(* Where cycles do not overlap, the capacity sweep leaves exactly          *)
(* POOL_MAX_ACTIVE members and demotes none that is better than one it     *)
(* keeps, although it counts and demotes in two statements                 *)
(* (db/src/repositories/proxies.ts, enforcePoolCapacity).                  *)
THEOREM OnlyOverflowDemoted ==
    ASSUME SingleFlight
    PROVE  Spec => DemotesOnlyOverflow
<1>1. TypeOK /\ FinalizeInv /\ [Next]_vars =>
        [\A c \in Cycles : pc[c] = "demote" /\ pc'[c] = "releaseOwn" =>
            LET kept == {p \in Members : rows'[p].status = "active"}
            IN  /\ Cardinality(kept) = MaxActive
                /\ \A p \in Members \ kept, q \in kept : rows[p].score <= rows[q].score]_vars
  <2> SUFFICES ASSUME TypeOK, FinalizeInv, [Next]_vars, NEW c \in Cycles,
                      pc[c] = "demote", pc'[c] = "releaseOwn"
               PROVE  LET kept == {p \in Members : rows'[p].status = "active"}
                      IN  /\ Cardinality(kept) = MaxActive
                          /\ \A p \in Members \ kept, q \in kept : rows[p].score <= rows[q].score
    OBVIOUS
  <2> DEFINE kept == {p \in Members : rows'[p].status = "active"}
  <2>1. DemoteOverflow(c)
    BY Finalizing DEF FinalizeInv, CountMembers, At
  <2>2. PICK demoted \in FirstN(Members, overflow[c], LowerScore) :
            rows' = [p \in Proxies |-> IF p \in demoted
                                       THEN [rows[p] EXCEPT !.status = "quarantined"] ELSE rows[p]]
    BY <2>1 DEF DemoteOverflow, Write
  <2>3. /\ demoted \subseteq Members
        /\ Cardinality(Members \ demoted) = MaxActive
        /\ \A p \in demoted, q \in Members \ demoted : ~LowerScore(q, p)
    BY <2>2, Demotion DEF FinalizeInv
  <2>4. kept = Members \ demoted
    BY <2>2 DEF TypeOK, Row, Members, WithStatus
  <2>5. \A p \in Members : rows[p].score \in Nat
    BY DEF TypeOK, Row, Members, WithStatus
  <2>6. \A p \in Members \ kept, q \in kept : rows[p].score <= rows[q].score
    <3>1. \A p \in demoted, q \in Members \ demoted : ~(rows[q].score < rows[p].score)
      BY <2>3 DEF LowerScore
    <3>2. Members \ kept = demoted
      BY <2>3, <2>4
    <3>3. ASSUME NEW p \in Members \ kept, NEW q \in kept
          PROVE  rows[p].score <= rows[q].score
      <4>1. p \in demoted /\ q \in Members \ demoted
        BY <2>4, <3>2
      <4>2. ~(rows[q].score < rows[p].score)
        BY <3>1, <4>1
      <4>3. rows[p].score \in Nat /\ rows[q].score \in Nat
        BY <2>3, <2>5, <4>1
      <4> QED BY <4>2, <4>3
    <3> QED BY <3>3
  <2> QED BY <2>3, <2>4, <2>6
<1> QED BY <1>1, TypeCorrect, FinalizeHolds, PTL DEF Spec, DemotesOnlyOverflow

-----------------------------------------------------------------------------
(* The refinement of PoolLifecycle.  Which move of an endpoint a statement *)
(* makes depends on the statements before it: what is judged was claimed,  *)
(* what is probed was judged or serves, and both have kept their status.   *)

BatchInv ==
    \A c \in Cycles :
        /\ pc[c] = "claim" =>
              \A p \in picked[c] : rows[p].status \in {"new", "quarantined", "active"}
        /\ pc[c] = "validate" => \A p \in picked[c] : rows[p].status = "pending"
        /\ pc[c] = "shortlist" =>
              \A p \in picked[c] :
                  rows[p].validation = "passed" =>
                      rows[p].status \in {"pending", "active", "quarantined"}
        /\ pc[c] = "probe" =>
              \A p \in DOMAIN seen[c] : rows[p].status \in {"pending", "active", "quarantined"}

LaneInv == MemberInv /\ CopiesCurrent /\ BatchInv

\* What comes of a check, by its result.
LEMMA CheckOutcome ==
    ASSUME NEW row \in Row, NEW seen_p \in Row, RowInv(seen_p),
           seen_p.passedAge = Never <=> row.passedAge = Never,
           NEW reachable \in BOOLEAN, NEW score \in CheckScores(reachable),
           NEW after, after = AfterCheck(row, seen_p, reachable, score)
    PROVE  /\ after.status \in {"new", "active", "quarantined", "dead"}
           /\ after.validation = IF reachable THEN "passed" ELSE "failed"
           /\ (after.passedAge # Never) <=> (reachable \/ row.passedAge # Never)
           /\ after.status = "active" => (reachable \/ row.passedAge # Never)
           /\ after.status = "new" => ~reachable
           /\ after.status = "dead" => (~reachable /\ row.passedAge = Never)
<1> DEFINE failures == FailuresAfter(seen_p, reachable)
<1>1. /\ after.status = StatusAfterCheck(seen_p, reachable, score)
      /\ after.validation = IF reachable THEN "passed" ELSE "failed"
      /\ after.passedAge = IF reachable THEN 0 ELSE row.passedAge
  BY DEF AfterCheck, Row
<1>2. score \in Nat /\ failures \in Nat
  BY FailuresAfterType DEF CheckScores, FailureCap
<1>3. CASE reachable
  <2>1. after.status \in {"active", "quarantined"}
    BY <1>1, <1>2, <1>3 DEF StatusAfterCheck
  <2>2. after.passedAge = 0 /\ after.validation = "passed"
    BY <1>1, <1>3
  <2>3. after.passedAge # Never
    BY <2>2 DEF Never
  <2> QED BY <1>3, <2>1, <2>2, <2>3
<1>4. CASE ~reachable
  <2>1. /\ after.status \in {"new", "active", "quarantined", "dead"}
        /\ after.status = "active" => seen_p.status = "active"
        /\ after.status = "dead" => seen_p.passedAge = Never
    BY <1>1, <1>2, <1>4 DEF StatusAfterCheck, Hopeless
  <2>2. after.passedAge = row.passedAge /\ after.validation = "failed"
    BY <1>1, <1>4
  <2>3. seen_p.status = "active" => seen_p.passedAge # Never
    BY DEF RowInv, Vouched
  <2> QED BY <1>4, <2>1, <2>2, <2>3
<1> QED BY <1>3, <1>4

\* The checks of claimed rows, as one statement.
Outcomes(c, ids) ==
    /\ \A p \in Proxies \ ids : rows'[p] = rows[p]
    /\ \A p \in ids :
          /\ rows'[p].status \in {"new", "active", "quarantined", "dead"}
          /\ rows'[p].status = "active" => rows'[p].passedAge # Never
          /\ rows'[p].status = "new" => rows'[p].validation # "passed"
          /\ rows'[p].status = "dead" => rows'[p].passedAge = Never
          /\ rows'[p].validation = "passed" => rows'[p].status \in {"active", "quarantined"}
          /\ rows'[p].passedAge # Never <=>
                (rows'[p].validation = "passed" \/ rows[p].passedAge # Never)

LEMMA ChecksJudge ==
    ASSUME LaneInv, NEW c \in Cycles, pc[c] = "validate",
           NEW ids \in SUBSET picked[c], WriteChecks(c, ids)
    PROVE  Outcomes(c, ids)
<1>0. TypeOK /\ DOMAIN seen[c] = picked[c] /\ picked[c] \subseteq Proxies
  BY DEF LaneInv, MemberInv, TypeInv, TypeOK, CopiesCoverPicked
<1>1. PICK reachable \in [ids -> BOOLEAN], score \in [ids -> Scores] :
          /\ \A p \in ids : score[p] \in CheckScores(reachable[p])
          /\ rows' = [p \in Proxies |->
                IF p \in ids /\ rows[p].status # "absent"
                THEN AfterCheck(rows[p], seen[c][p], reachable[p], score[p])
                ELSE rows[p]]
  BY DEF WriteChecks, Write
<1>2. \A p \in ids : rows[p].status = "pending"
  BY DEF LaneInv, BatchInv
<1>3. ASSUME NEW p \in ids
      PROVE  /\ rows'[p].status \in {"new", "active", "quarantined", "dead"}
             /\ rows'[p].validation = IF reachable[p] THEN "passed" ELSE "failed"
             /\ rows'[p].passedAge # Never <=> (reachable[p] \/ rows[p].passedAge # Never)
             /\ rows'[p].status = "active" => reachable[p] \/ rows[p].passedAge # Never
             /\ rows'[p].status = "new" => ~reachable[p]
             /\ rows'[p].status = "dead" => ~reachable[p] /\ rows[p].passedAge = Never
  <2>1. rows[p] \in Row /\ seen[c][p] \in Row /\ RowInv(seen[c][p])
    BY <1>0 DEF LaneInv, MemberInv, CopiesInv, TypeOK
  <2>2. seen[c][p].passedAge = Never <=> rows[p].passedAge = Never
    BY <1>0 DEF LaneInv, CopiesCurrent
  <2>3. reachable[p] \in BOOLEAN /\ score[p] \in CheckScores(reachable[p])
    BY <1>1
  <2>4. rows'[p] = AfterCheck(rows[p], seen[c][p], reachable[p], score[p])
    BY <1>0, <1>1, <1>2
  <2> QED BY <2>1, <2>2, <2>3, <2>4, CheckOutcome
<1>4. \A p \in Proxies \ ids : rows'[p] = rows[p]
  BY <1>1
<1>5. ASSUME NEW p \in ids
      PROVE  /\ rows'[p].status = "active" => rows'[p].passedAge # Never
             /\ rows'[p].status = "new" => rows'[p].validation # "passed"
             /\ rows'[p].status = "dead" => rows'[p].passedAge = Never
             /\ rows'[p].validation = "passed" => rows'[p].status \in {"active", "quarantined"}
             /\ rows'[p].passedAge # Never <=>
                   (rows'[p].validation = "passed" \/ rows[p].passedAge # Never)
  BY <1>3
<1> QED BY <1>3, <1>4, <1>5 DEF Outcomes

\* The verdicts on probed rows, as one statement.
Lifted(c, ids) ==
    /\ \A p \in Proxies : rows'[p].passedAge = rows[p].passedAge
    /\ \A p \in Proxies \ ids : rows'[p] = rows[p]
    /\ \A p \in ids : rows'[p].status \in {rows[p].status, "active"}
    /\ \A p \in ids : /\ rows[p].passedAge # Never
                      /\ rows[p].status \in {"pending", "active", "quarantined"}

LEMMA VerdictsLift ==
    ASSUME LaneInv, NEW c \in Cycles, pc[c] = "probe",
           NEW ids \in SUBSET DOMAIN seen[c], WriteVerdicts(c, ids)
    PROVE  Lifted(c, ids)
<1>0. /\ TypeOK /\ DOMAIN seen[c] \subseteq Proxies /\ RowsInv
      /\ \A p \in DOMAIN seen[c] :
            /\ seen[c][p].status = rows[p].status
            /\ rows[p].status = "active" \/ rows[p].validation = "passed"
            /\ rows[p].status \in {"pending", "active", "quarantined"}
  BY DEF LaneInv, MemberInv, TypeInv, TypeOK, ProbesInv, BatchInv
<1>1. PICK verdict \in [ids -> Verdicts], score \in [ids -> Scores] :
          rows' = [p \in Proxies |->
                IF p \in ids /\ rows[p].status # "absent"
                THEN AfterVerdict(rows[p], seen[c][p], verdict[p], score[p])
                ELSE rows[p]]
  BY DEF WriteVerdicts, Write
<1>2. ASSUME NEW p \in Proxies
      PROVE  /\ rows'[p].passedAge = rows[p].passedAge
             /\ p \in ids => rows'[p].status \in {rows[p].status, "active"}
             /\ p \notin ids => rows'[p] = rows[p]
  <2>0. rows[p] \in Row
    BY <1>0 DEF TypeOK
  <2>1. CASE p \in ids
    <3>1. rows'[p] = AfterVerdict(rows[p], seen[c][p], verdict[p], score[p])
      BY <1>0, <1>1, <2>1
    <3>2. /\ rows'[p].passedAge = rows[p].passedAge
          /\ rows'[p].status = IF verdict[p] = "passed" THEN "active" ELSE seen[c][p].status
      BY <2>0, <3>1 DEF AfterVerdict, Row
    <3>3. seen[c][p].status = rows[p].status
      BY <1>0, <2>1
    <3> QED BY <2>1, <3>2, <3>3
  <2>2. CASE p \notin ids
    BY <1>1, <2>2
  <2> QED BY <2>1, <2>2
<1>3. ASSUME NEW p \in ids
      PROVE  rows[p].passedAge # Never /\ rows[p].status \in {"pending", "active", "quarantined"}
  BY <1>0 DEF RowsInv, RowInv, Vouched
<1> QED BY <1>0, <1>2, <1>3 DEF Lifted

\* What is selected for validation, and what for the service probe.
LEMMA BatchStatuses ==
    ASSUME NEW batch \in ValidationBatches, NEW p \in batch
    PROVE  rows[p].status \in {"new", "quarantined", "active"}
<1>1. PICK new \in NewBatches, old \in OldBatches, due \in DueBatches :
          batch \in Slice(new, old, due)
  BY DEF ValidationBatches
<1>2. batch \subseteq new \cup old \cup due
  BY <1>1 DEF Slice, FirstN
<1>3. new \subseteq WithStatus("new") /\ old \subseteq WithStatus("quarantined")
  BY DEF NewBatches, OldBatches, FirstN
<1>4. due \subseteq {q \in Proxies : DueForRecheck(rows[q])}
  BY DEF DueBatches, FirstN
<1> QED BY <1>2, <1>3, <1>4 DEF WithStatus, DueForRecheck

LEMMA ProbedRows ==
    ASSUME NEW c \in Cycles, NEW chosen \in ServiceCandidates(c), NEW p \in chosen
    PROVE  \/ p \in picked[c] /\ rows[p].validation = "passed"
           \/ p \in Proxies /\ rows[p].status = "active"
<1>1. PICK fresh \in FreshCandidates(c) :
          \E stale \in StaleCandidates(ServiceBudget - Cardinality(fresh)) :
              chosen = fresh \cup stale
  BY DEF ServiceCandidates
<1>2. PICK stale \in StaleCandidates(ServiceBudget - Cardinality(fresh)) :
          chosen = fresh \cup stale
  BY <1>1
<1>3. \A q \in fresh : q \in picked[c] /\ WorthProbing(rows[q])
  BY <1>1 DEF FreshCandidates, FirstN
<1>4. \A q \in stale : q \in Proxies /\ ServiceStale(rows[q])
  BY <1>2 DEF StaleCandidates, FirstN
<1> QED BY <1>2, <1>3, <1>4 DEF WorthProbing, ServiceStale

LEMMA BatchInit == Init => BatchInv
BY DEF Init, BatchInv

LEMMA BatchStep ==
    ASSUME SingleFlight
    PROVE  LaneInv /\ [Next]_vars => BatchInv'
<1> DEFINE Batch(c) ==
        /\ pc'[c] = "claim" =>
              \A p \in picked'[c] : rows'[p].status \in {"new", "quarantined", "active"}
        /\ pc'[c] = "validate" => \A p \in picked'[c] : rows'[p].status = "pending"
        /\ pc'[c] = "shortlist" =>
              \A p \in picked'[c] :
                  rows'[p].validation = "passed" =>
                      rows'[p].status \in {"pending", "active", "quarantined"}
        /\ pc'[c] = "probe" =>
              \A p \in DOMAIN seen'[c] : rows'[p].status \in {"pending", "active", "quarantined"}
<1> SUFFICES ASSUME LaneInv, [Next]_vars, NEW c \in Cycles,
                    pc'[c] \in {"claim", "validate", "shortlist", "probe"}
             PROVE  Batch(c)
  BY DEF BatchInv
<1>0. /\ TypeOK /\ pc \in [Cycles -> Stage] /\ picked \in [Cycles -> SUBSET Proxies]
      /\ DOMAIN seen = Cycles /\ rows \in [Proxies -> Row] /\ DOMAIN seen[c] \subseteq Proxies
  BY DEF LaneInv, MemberInv, TypeInv, TypeOK
<1>1. CASE SelectValidationQueue(c)
  <2>1. PICK batch \in ValidationBatches :
            /\ picked' = [picked EXCEPT ![c] = batch]
            /\ Goto(c, IF batch = {} THEN "shortlist" ELSE "claim")
    BY <1>1 DEF SelectValidationQueue
  <2>2. rows' = rows
    BY <1>1 DEF SelectValidationQueue
  <2>3. picked'[c] = batch /\ pc'[c] = IF batch = {} THEN "shortlist" ELSE "claim"
    BY <1>0, <2>1 DEF Goto
  <2>4. \A p \in batch : rows[p].status \in {"new", "quarantined", "active"}
    BY BatchStatuses
  <2> QED BY <2>2, <2>3, <2>4
<1>2. CASE MarkPending(c)
  <2>1. /\ pc[c] = "claim" /\ pc'[c] = "validate" /\ picked' = picked
        /\ rows' = [p \in Proxies |-> IF p \in picked[c] THEN Claimed(rows[p], c) ELSE rows[p]]
    BY <1>0, <1>2 DEF MarkPending, At, Goto, ClaimRows, Write
  <2>2. ASSUME NEW p \in picked[c] PROVE rows'[p].status = "pending"
    <3>1. rows[p] \in Row /\ rows[p].status \in {"new", "quarantined", "active"}
      BY <1>0, <2>1 DEF LaneInv, BatchInv
    <3>2. rows'[p] = Claimed(rows[p], c)
      BY <1>0, <2>1
    <3> QED BY <3>1, <3>2 DEF Claimed, Row
  <2> QED BY <2>1, <2>2
<1>3. CASE PersistValidation(c)
  <2>1. /\ pc[c] = "validate" /\ pc'[c] = "shortlist" /\ picked' = picked
        /\ \E answered \in SUBSET picked[c] : WriteChecks(c, answered)
    BY <1>0, <1>3 DEF PersistValidation, At, Goto, Answered
  <2>2. PICK answered \in SUBSET picked[c] : WriteChecks(c, answered)
    BY <2>1
  <2>3. Outcomes(c, answered)
    BY <2>1, <2>2, ChecksJudge
  <2>4. \A p \in picked[c] : rows[p].status = "pending" /\ p \in Proxies
    BY <1>0, <2>1 DEF LaneInv, BatchInv
  <2>5. ASSUME NEW p \in picked[c], rows'[p].validation = "passed"
        PROVE  rows'[p].status \in {"pending", "active", "quarantined"}
    <3>1. CASE p \in answered
      BY <2>3, <2>5, <3>1 DEF Outcomes
    <3>2. CASE p \notin answered
      BY <2>3, <2>4, <3>2 DEF Outcomes
    <3> QED BY <3>1, <3>2
  <2> QED BY <2>1, <2>5
<1>4. CASE Shortlist(c)
  <2>1. /\ pc[c] = "shortlist" /\ pc'[c] \in {"expire", "probe"} /\ rows' = rows
        /\ pc'[c] = "probe" => \E chosen \in ServiceCandidates(c) :
                                    seen' = [seen EXCEPT ![c] = Copies(chosen)]
    BY <1>0, <1>4 DEF Shortlist, At, Goto
  <2>2. ASSUME pc'[c] = "probe", NEW p \in DOMAIN seen'[c]
        PROVE  rows'[p].status \in {"pending", "active", "quarantined"}
    <3>1. PICK chosen \in ServiceCandidates(c) : seen' = [seen EXCEPT ![c] = Copies(chosen)]
      BY <2>1, <2>2
    <3>2. p \in chosen
      BY <1>0, <2>2, <3>1 DEF Copies
    <3>3. \A q \in picked[c] : rows[q].validation = "passed" =>
              rows[q].status \in {"pending", "active", "quarantined"}
      BY <2>1 DEF LaneInv, BatchInv
    <3> QED BY <2>1, <3>2, <3>3, ProbedRows
  <2> QED BY <2>1, <2>2
<1>5. CASE Tick \/ UNCHANGED vars
  <2>1. pc' = pc /\ picked' = picked /\ seen' = seen
        /\ \A p \in Proxies : Timeless(rows[p], rows'[p])
    BY <1>0, <1>5, TimePasses
  <2>2. \A p \in Proxies : rows'[p].status = rows[p].status
                           /\ rows'[p].validation = rows[p].validation
    BY <2>1 DEF Timeless
  <2> QED BY <1>0, <2>1, <2>2 DEF LaneInv, BatchInv
<1> QED BY <1>0, <1>1, <1>2, <1>3, <1>4, <1>5, Arriving

LEMMA LaneInit == Init => LaneInv
BY MemberInit, CurrentInit, BatchInit DEF LaneInv

LEMMA LaneInvStep ==
    ASSUME SingleFlight
    PROVE  LaneInv /\ [Next]_vars => LaneInv'
BY LaneUndisturbed, MemberStep, CurrentStep, BatchStep DEF LaneInv, MemberInv

\* A statement that moves the rows of S to one status and teaches nothing.
LEMMA MovesTo ==
    ASSUME NEW S \in SUBSET Proxies, NEW there,
           \A p \in S : rows'[p].status = there,
           \A p \in Proxies \ S : rows'[p].status = rows[p].status,
           \A p \in Proxies : rows'[p].passedAge = Never <=> rows[p].passedAge = Never
    PROVE  Lifecycle!MoveTo(S, there)
BY DEF Lifecycle!MoveTo

\* A statement that moves nothing.
LEMMA MovesNone ==
    ASSUME \A p \in Proxies : /\ rows'[p].status = rows[p].status
                              /\ rows'[p].passedAge = Never <=> rows[p].passedAge = Never
    PROVE  UNCHANGED <<[p \in Proxies |-> rows[p].status],
                       {p \in Proxies : rows[p].passedAge # Never}>>
OBVIOUS

\* Each statement that writes rows is a move of the lifecycle.

LEMMA DiscoverStep ==
    ASSUME LaneInv, NEW c \in Cycles, UpsertCandidates(c)
    PROVE  Lifecycle!Discover
<1>0. \A p \in Proxies : rows[p] \in Row /\ (rows[p].status = "absent" => rows[p].passedAge = Never)
  BY DEF LaneInv, MemberInv, TypeInv, TypeOK, RowsInv, RowInv
<1>1. PICK found \in SUBSET Proxies :
          rows' = [p \in Proxies |-> IF p \in found THEN Upserted(rows[p], c) ELSE rows[p]]
  BY DEF UpsertCandidates, Write
<1> DEFINE S == {p \in found : rows[p].status \in {"absent", "dead"}}
<1>2. ASSUME NEW p \in Proxies
      PROVE  /\ p \in S => rows'[p].status = "new"
             /\ p \notin S => rows'[p].status = rows[p].status
             /\ rows'[p].passedAge = Never <=> rows[p].passedAge = Never
  <2>1. CASE p \in found
    <3>1. rows'[p] = Upserted(rows[p], c)
      BY <1>1, <2>1
    <3>2. CASE rows[p].status = "absent"
      BY <1>0, <2>1, <3>1, <3>2 DEF Upserted, NoRow
    <3>3. CASE rows[p].status # "absent"
      BY <1>0, <2>1, <3>1, <3>3 DEF Upserted, Row
    <3> QED BY <3>2, <3>3
  <2>2. CASE p \notin found
    BY <1>1, <2>2
  <2> QED BY <2>1, <2>2
<1>3. S \in SUBSET Proxies
  OBVIOUS
<1>4. Lifecycle!MoveTo(S, "new")
  BY <1>2, <1>3, MovesTo
<1>5. S \in SUBSET Lifecycle!In({"absent", "dead"})
  BY DEF Lifecycle!In
<1> QED BY <1>4, <1>5 DEF Lifecycle!Discover

LEMMA ClaimStep ==
    ASSUME LaneInv, NEW c \in Cycles, NEW ids \in SUBSET Proxies, ClaimRows(c, ids)
    PROVE  Lifecycle!Claim
<1>0. \A p \in Proxies : rows[p] \in Row
  BY DEF LaneInv, MemberInv, TypeInv, TypeOK
<1> DEFINE S == {p \in ids : rows[p].status \in {"new", "quarantined", "active"}}
<1>1. rows' = [p \in Proxies |-> IF p \in ids THEN Claimed(rows[p], c) ELSE rows[p]]
  BY DEF ClaimRows, Write
<1>2. ASSUME NEW p \in Proxies
      PROVE  /\ p \in S => rows'[p].status = "pending"
             /\ p \notin S => rows'[p].status = rows[p].status
             /\ rows'[p].passedAge = Never <=> rows[p].passedAge = Never
  <2>1. CASE p \in S
    BY <1>0, <1>1, <2>1 DEF Claimed, Row
  <2>2. CASE p \notin S
    BY <1>1, <2>2 DEF Claimed
  <2> QED BY <2>1, <2>2
<1>3. Lifecycle!MoveTo(S, "pending")
  BY <1>2, MovesTo
<1>4. S \in SUBSET Lifecycle!In({"new", "quarantined", "active"})
  BY DEF Lifecycle!In
<1> QED BY <1>3, <1>4 DEF Lifecycle!Claim

LEMMA Judges ==
    ASSUME NEW S \in SUBSET Lifecycle!In({"pending"}), NEW P \in SUBSET S,
           NEW v \in [S -> Lifecycle!State \ {"absent", "pending"}],
           \A p \in Proxies : (rows'[p].passedAge # Never)
                             <=> (rows[p].passedAge # Never \/ p \in P),
           \A p \in S : /\ v[p] = rows'[p].status
                        /\ v[p] = "active" => rows'[p].passedAge # Never
                        /\ v[p] = "new" => p \notin P
                        /\ v[p] = "dead" => rows'[p].passedAge = Never,
           \A p \in Proxies \ S : rows'[p].status = rows[p].status
    PROVE  Lifecycle!Judge
<1>1. S \subseteq Proxies
  BY DEF Lifecycle!In
<1>2. {p \in Proxies : rows'[p].passedAge # Never}
      = {p \in Proxies : rows[p].passedAge # Never} \cup P
  BY <1>1
<1>3. \A p \in S :
         /\ v[p] = "active" => p \in {q \in Proxies : rows'[q].passedAge # Never}
         /\ v[p] = "new" => p \notin P
         /\ v[p] = "dead" => p \notin {q \in Proxies : rows'[q].passedAge # Never}
  BY <1>1
<1>4. [p \in Proxies |-> rows'[p].status]
      = [p \in Proxies |-> IF p \in S THEN v[p] ELSE [q \in Proxies |-> rows[q].status][p]]
  OBVIOUS
<1>5. \E passed \in SUBSET S, verdict \in [S -> Lifecycle!State \ {"absent", "pending"}] :
        /\ {p \in Proxies : rows'[p].passedAge # Never}
           = {p \in Proxies : rows[p].passedAge # Never} \cup passed
        /\ \A p \in S :
              /\ verdict[p] = "active" => p \in {q \in Proxies : rows'[q].passedAge # Never}
              /\ verdict[p] = "new" => p \notin passed
              /\ verdict[p] = "dead" => p \notin {q \in Proxies : rows'[q].passedAge # Never}
        /\ [p \in Proxies |-> rows'[p].status]
           = [p \in Proxies |->
                IF p \in S THEN verdict[p] ELSE [q \in Proxies |-> rows[q].status][p]]
  BY <1>2, <1>3, <1>4, Zenon
<1> QED BY <1>5, Zenon DEF Lifecycle!Judge

LEMMA JudgeStep ==
    ASSUME LaneInv, NEW c \in Cycles, pc[c] = "validate",
           NEW ids \in SUBSET picked[c], WriteChecks(c, ids)
    PROVE  Lifecycle!Judge
<1>0. ids \subseteq Proxies /\ \A p \in ids : rows[p].status = "pending"
  BY DEF LaneInv, MemberInv, TypeInv, TypeOK, BatchInv
<1>1. Outcomes(c, ids)
  BY ChecksJudge
<1>2. ids \in SUBSET Lifecycle!In({"pending"})
  BY <1>0 DEF Lifecycle!In
<1>3. PICK P \in SUBSET ids : P = {p \in ids : rows'[p].validation = "passed"}
  OBVIOUS
<1>4. PICK v : v = [p \in ids |-> rows'[p].status]
  OBVIOUS
<1>5. v \in [ids -> Lifecycle!State \ {"absent", "pending"}]
  BY <1>1, <1>4 DEF Outcomes, Lifecycle!State
<1>6. \A p \in Proxies : (rows'[p].passedAge # Never)
                         <=> (rows[p].passedAge # Never \/ p \in P)
  BY <1>0, <1>1, <1>3 DEF Outcomes
<1>7. /\ \A p \in ids : /\ v[p] = rows'[p].status
                        /\ v[p] = "active" => rows'[p].passedAge # Never
                        /\ v[p] = "new" => p \notin P
                        /\ v[p] = "dead" => rows'[p].passedAge = Never
      /\ \A p \in Proxies \ ids : rows'[p].status = rows[p].status
  BY <1>1, <1>3, <1>4 DEF Outcomes
<1> QED BY <1>2, <1>5, <1>6, <1>7, Judges

LEMMA LiftStep ==
    ASSUME LaneInv, NEW c \in Cycles, pc[c] = "probe",
           NEW ids \in SUBSET DOMAIN seen[c], WriteVerdicts(c, ids)
    PROVE  Lifecycle!Lift
<1>0. ids \subseteq Proxies
  BY DEF LaneInv, MemberInv, TypeInv, TypeOK
<1>1. Lifted(c, ids)
  BY VerdictsLift
<1> DEFINE S == {p \in ids : rows[p].status # "active" /\ rows'[p].status = "active"}
<1>2. /\ \A p \in S : rows'[p].status = "active"
      /\ \A p \in Proxies \ S : rows'[p].status = rows[p].status
      /\ \A p \in Proxies : rows'[p].passedAge = Never <=> rows[p].passedAge = Never
  BY <1>1 DEF Lifted
<1>3. Lifecycle!MoveTo(S, "active")
  BY <1>0, <1>2, MovesTo
<1>4. \A p \in S : /\ rows[p].passedAge # Never
                   /\ rows[p].status \in {"pending", "quarantined"}
  BY <1>1 DEF Lifted
<1>5. S \in SUBSET (Lifecycle!In({"pending", "quarantined"})
                    \cap {p \in Proxies : rows[p].passedAge # Never})
  BY <1>0, <1>4 DEF Lifecycle!In
<1> QED BY <1>3, <1>5 DEF Lifecycle!Lift

LEMMA SweepSteps ==
    ASSUME LaneInv, NEW c \in Cycles
    PROVE  /\ ExpireStale(c) => Lifecycle!Expire
           /\ QuarantineFailures(c) \/ DemoteOverflow(c) => Lifecycle!Demote
<1>0. \A p \in Proxies : rows[p] \in Row
  BY DEF LaneInv, MemberInv, TypeInv, TypeOK
<1>1. ASSUME ExpireStale(c) PROVE Lifecycle!Expire
  <2> DEFINE S == {p \in Proxies : Expired(rows[p])}
  <2>1. ASSUME NEW p \in Proxies
        PROVE  /\ p \in S => rows'[p].status = "dead"
               /\ p \notin S => rows'[p].status = rows[p].status
               /\ rows'[p].passedAge = Never <=> rows[p].passedAge = Never
    BY <1>0, <1>1 DEF ExpireStale, Write, AfterExpiry, Row
  <2>2. Lifecycle!MoveTo(S, "dead")
    BY <2>1, MovesTo
  <2>3. S \in SUBSET Lifecycle!In({"active"})
    BY DEF Lifecycle!In, Expired
  <2> QED BY <2>2, <2>3 DEF Lifecycle!Expire
<1>2. ASSUME NEW S \in SUBSET Members,
             rows' = [p \in Proxies |-> IF p \in S THEN [rows[p] EXCEPT !.status = "quarantined"]
                                                   ELSE rows[p]]
      PROVE  Lifecycle!Demote
  <2>1. S \in SUBSET Proxies /\ S \in SUBSET Lifecycle!In({"active"})
    BY DEF Members, WithStatus, Lifecycle!In
  <2>2. ASSUME NEW p \in Proxies
        PROVE  /\ p \in S => rows'[p].status = "quarantined"
               /\ p \notin S => rows'[p].status = rows[p].status
               /\ rows'[p].passedAge = Never <=> rows[p].passedAge = Never
    BY <1>0, <1>2 DEF Row
  <2>3. Lifecycle!MoveTo(S, "quarantined")
    BY <2>1, <2>2, MovesTo
  <2> QED BY <2>1, <2>3 DEF Lifecycle!Demote
<1>3. ASSUME QuarantineFailures(c) PROVE Lifecycle!Demote
  <2> DEFINE S == {p \in Proxies : AtThreshold(rows[p])}
  <2>1. S \in SUBSET Members
    BY DEF AtThreshold, Members, WithStatus
  <2>2. rows' = [p \in Proxies |-> IF p \in S THEN [rows[p] EXCEPT !.status = "quarantined"]
                                              ELSE rows[p]]
    BY <1>3 DEF QuarantineFailures, Write, AfterQuarantine
  <2> QED BY <1>2, <2>1, <2>2
<1>4. ASSUME DemoteOverflow(c) PROVE Lifecycle!Demote
  <2>1. PICK demoted \in FirstN(Members, overflow[c], LowerScore) :
            rows' = [p \in Proxies |-> IF p \in demoted
                                       THEN [rows[p] EXCEPT !.status = "quarantined"] ELSE rows[p]]
    BY <1>4 DEF DemoteOverflow, Write
  <2>2. demoted \in SUBSET Members
    BY <2>1 DEF FirstN
  <2> QED BY <1>2, <2>1, <2>2
<1> QED BY <1>1, <1>3, <1>4

LEMMA ReleaseSteps ==
    ASSUME LaneInv, NEW c \in Cycles
    PROVE  /\ ReleaseOrphanedPending(c) \/ ReleaseForeignPending(c) => Lifecycle!Release
           /\ ReleaseAfterFailure(c) =>
                 Lifecycle!Release \/ UNCHANGED <<[p \in Proxies |-> rows[p].status],
                                                  {p \in Proxies : rows[p].passedAge # Never}>>
           /\ PruneHistory(c) => Lifecycle!Forget
<1>0. \A p \in Proxies : rows[p] \in Row
  BY DEF LaneInv, MemberInv, TypeInv, TypeOK
<1>1. ASSUME NEW S \in SUBSET Proxies,
             \A p \in S : rows[p].status = "pending" /\ rows'[p].status = "new",
             \A p \in Proxies \ S : rows'[p].status = rows[p].status,
             \A p \in Proxies : rows'[p].passedAge = rows[p].passedAge
      PROVE  Lifecycle!Release
  <2>1. Lifecycle!MoveTo(S, "new")
    BY <1>1, MovesTo
  <2>2. S \in SUBSET Lifecycle!In({"pending"})
    BY <1>1 DEF Lifecycle!In
  <2> QED BY <2>1, <2>2 DEF Lifecycle!Release
<1> DEFINE Own == {p \in Proxies : rows[p].status = "pending" /\ rows[p].owner = c}
           Foreign == {p \in Proxies : rows[p].status = "pending" /\ rows[p].owner # c}
<1>2. ASSUME ReleaseOrphanedPending(c) PROVE Lifecycle!Release
  <2>1. \A p \in Proxies : /\ p \in Own => rows'[p].status = "new"
                           /\ p \notin Own => rows'[p].status = rows[p].status
                           /\ rows'[p].passedAge = rows[p].passedAge
    BY <1>0, <1>2 DEF ReleaseOrphanedPending, Write, ReleasedOwn, Row
  <2> QED BY <1>1, <2>1
<1>3. ASSUME ReleaseForeignPending(c) PROVE Lifecycle!Release
  <2>1. \A p \in Proxies : /\ p \in Foreign => rows'[p].status = "new"
                           /\ p \notin Foreign => rows'[p].status = rows[p].status
                           /\ rows'[p].passedAge = rows[p].passedAge
    BY <1>0, <1>3 DEF ReleaseForeignPending, Write, ReleasedForeign, Row
  <2> QED BY <1>1, <2>1
<1>4. ASSUME Leave(c, LAMBDA p : ReleasedOwn(rows[p], c)) PROVE Lifecycle!Release
  <2>1. \A p \in Proxies : rows'[p] = Forgotten(ReleasedOwn(rows[p], c), c)
    BY <1>4 DEF Leave, Write
  <2>2. ASSUME NEW p \in Proxies
        PROVE  /\ p \in Own => rows'[p].status = "new"
               /\ p \notin Own => rows'[p].status = rows[p].status
               /\ rows'[p].passedAge = rows[p].passedAge
    BY <1>0, <2>1 DEF Forgotten, ReleasedOwn, Row
  <2> QED BY <1>1, <2>2
<1>5. ASSUME Leave(c, LAMBDA p : rows[p])
      PROVE  UNCHANGED <<[p \in Proxies |-> rows[p].status],
                         {p \in Proxies : rows[p].passedAge # Never}>>
  <2>1. \A p \in Proxies : rows'[p] = Forgotten(rows[p], c)
    BY <1>5 DEF Leave, Write
  <2>2. \A p \in Proxies : rows'[p].status = rows[p].status /\ rows'[p].passedAge = rows[p].passedAge
    BY <1>0, <2>1 DEF Forgotten, Row
  <2> QED BY <2>2, MovesNone
<1>6. ASSUME PruneHistory(c) PROVE Lifecycle!Forget
  <2>1. PICK pruned \in SUBSET {p \in Proxies : Prunable(rows[p])} :
            rows' = [p \in Proxies |-> IF p \in pruned THEN NoRow ELSE rows[p]]
    BY <1>6 DEF PruneHistory, Write
  <2>2. \A p \in Proxies : /\ p \in pruned => rows'[p].status = "absent"
                           /\ p \notin pruned => rows'[p].status = rows[p].status
                           /\ rows'[p].passedAge = Never <=> rows[p].passedAge = Never
    BY <2>1 DEF NoRow, Prunable
  <2>3. pruned \in SUBSET Proxies
    BY <2>1
  <2>4. Lifecycle!MoveTo(pruned, "absent")
    BY <2>2, <2>3, MovesTo
  <2>5. pruned \in SUBSET (Lifecycle!In({"dead"}) \ {p \in Proxies : rows[p].passedAge # Never})
    BY <2>1 DEF Lifecycle!In, Prunable
  <2> QED BY <2>4, <2>5 DEF Lifecycle!Forget
<1> QED BY <1>2, <1>3, <1>4, <1>5, <1>6 DEF ReleaseAfterFailure

LEMMA PartialWrites ==
    ASSUME LaneInv, NEW c \in Cycles, WriteThrows(c)
    PROVE  Lifecycle!Claim \/ Lifecycle!Judge \/ Lifecycle!Lift
<1>1. ASSUME At(c, "claim"), NEW ids \in SUBSET picked[c], ClaimRows(c, ids)
      PROVE  Lifecycle!Claim
  <2>1. ids \in SUBSET Proxies
    BY DEF LaneInv, MemberInv, TypeInv, TypeOK
  <2> QED BY <1>1, <2>1, ClaimStep
<1>2. ASSUME At(c, "validate"), NEW ids \in SUBSET picked[c], WriteChecks(c, ids)
      PROVE  Lifecycle!Judge
  BY <1>2, JudgeStep DEF At
<1>3. ASSUME At(c, "probe"), NEW ids \in SUBSET DOMAIN seen[c], WriteVerdicts(c, ids)
      PROVE  Lifecycle!Lift
  BY <1>3, LiftStep DEF At
<1> QED BY <1>1, <1>2, <1>3 DEF WriteThrows

LEMMA LifecycleInit == Init => Lifecycle!Init
BY DEF Init, Lifecycle!Init, NoRow

LEMMA LifecycleStep ==
    ASSUME SingleFlight, LaneInv, [Next]_vars
    PROVE  \/ Lifecycle!Next
           \/ UNCHANGED <<[p \in Proxies |-> rows[p].status],
                          {p \in Proxies : rows[p].passedAge # Never}>>
<1> DEFINE Stutter == UNCHANGED <<[p \in Proxies |-> rows[p].status],
                                  {p \in Proxies : rows[p].passedAge # Never}>>
<1>0. TypeOK /\ \A p \in Proxies : rows[p] \in Row
  BY DEF LaneInv, MemberInv, TypeInv, TypeOK
<1>1. ASSUME rows' = rows PROVE Stutter
  BY <1>1
<1>2. CASE Tick \/ UNCHANGED vars
  <2>1. \A p \in Proxies : Timeless(rows[p], rows'[p])
    BY <1>0, <1>2, TimePasses
  <2> QED BY <2>1, MovesNone DEF Timeless
<1>3. CASE Crash
  <2>1. \A p \in Proxies : rows'[p] = [rows[p] EXCEPT !.owner = NoCycle]
    BY <1>3 DEF Crash
  <2>2. \A p \in Proxies : /\ rows'[p].status = rows[p].status
                           /\ rows'[p].passedAge = rows[p].passedAge
    BY <1>0, <2>1 DEF Row
  <2> QED BY <2>2, MovesNone
<1>4. ASSUME NEW c \in Cycles, Step(c) PROVE Lifecycle!Next \/ Stutter
  <2>1. CASE \/ StartCycle(c) \/ SelectValidationQueue(c) \/ Shortlist(c)
             \/ CountMembers(c) \/ Complete(c) \/ FailCycle(c)
    BY <1>1, <2>1 DEF StartCycle, SelectValidationQueue, Shortlist, CountMembers, Complete,
       FailCycle
  <2>2. CASE UpsertCandidates(c)
    BY <2>2, DiscoverStep DEF Lifecycle!Next
  <2>3. CASE MarkPending(c)
    <3>1. ClaimRows(c, picked[c]) /\ picked[c] \in SUBSET Proxies
      BY <1>0, <2>3 DEF MarkPending, TypeOK
    <3> QED BY <3>1, ClaimStep DEF Lifecycle!Next
  <2>4. CASE PersistValidation(c)
    <3>1. PICK answered \in SUBSET picked[c] : WriteChecks(c, answered)
      BY <2>4 DEF PersistValidation, Answered
    <3> QED BY <2>4, <3>1, JudgeStep DEF PersistValidation, At, Lifecycle!Next
  <2>5. CASE PersistService(c)
    <3>1. PICK answered \in SUBSET DOMAIN seen[c] : WriteVerdicts(c, answered)
      BY <2>5 DEF PersistService, Answered
    <3> QED BY <2>5, <3>1, LiftStep DEF PersistService, At, Lifecycle!Next
  <2>6. CASE ExpireStale(c) \/ QuarantineFailures(c) \/ DemoteOverflow(c)
    BY <2>6, SweepSteps DEF Lifecycle!Next
  <2>7. CASE \/ ReleaseOrphanedPending(c) \/ ReleaseForeignPending(c)
             \/ ReleaseAfterFailure(c) \/ PruneHistory(c)
    BY <2>7, ReleaseSteps DEF Lifecycle!Next
  <2>8. CASE WrapUp(c)
    <3>1. \A p \in Proxies : rows'[p] = Forgotten(rows[p], c)
      BY <2>8 DEF WrapUp, Leave, Write
    <3>2. \A p \in Proxies : /\ rows'[p].status = rows[p].status
                             /\ rows'[p].passedAge = rows[p].passedAge
      BY <1>0, <3>1 DEF Forgotten, Row
    <3> QED BY <3>2, MovesNone
  <2> QED BY <1>4, <2>1, <2>2, <2>3, <2>4, <2>5, <2>6, <2>7, <2>8 DEF Step
<1>5. ASSUME NEW c \in Cycles, StartThrows(c) \/ Throw(c) \/ WriteThrows(c)
      PROVE  Lifecycle!Next \/ Stutter
  <2>1. CASE StartThrows(c) \/ Throw(c)
    BY <1>1, <2>1 DEF StartThrows, Throw
  <2>2. CASE WriteThrows(c)
    BY <2>2, PartialWrites DEF Lifecycle!Next
  <2> QED BY <1>5, <2>1, <2>2
<1> QED BY <1>2, <1>3, <1>4, <1>5 DEF Next

(* Where cycles do not overlap, the refresh cycle implements the life of   *)
(* an endpoint that PoolLifecycle promises: statement by statement,        *)
(* nothing serves that never passed, nothing is given up that once did     *)
(* except by expiry, and nothing is judged that was not claimed -- also    *)
(* when statements throw half way, the process dies or jobs are lost.      *)
THEOREM ImplementsPoolLifecycle ==
    ASSUME SingleFlight
    PROVE  Spec => ImplementsLifecycle
<1>1. LaneInv /\ [Next]_vars =>
          [Lifecycle!Next]_<<[p \in Proxies |-> rows[p].status],
                             {p \in Proxies : rows[p].passedAge # Never}>>
  BY LifecycleStep
<1>2. Spec => []LaneInv
  BY LaneInit, LaneInvStep, PTL DEF Spec
<1> QED BY LifecycleInit, <1>1, <1>2, PTL DEF Spec, ImplementsLifecycle, Lifecycle!Spec

-----------------------------------------------------------------------------
(* Healthy proxies.  A release sends every claimed row to the backlog      *)
(* whatever its last check said; what protects the healthy ones is that    *)
(* without a failure or a lost job nothing is claimed any more when the    *)
(* releases run.                                                           *)

Settled(row) ==
    /\ row.status # "pending"
    /\ row.status \in {"absent", "new", "dead"} => row.validation # "passed"

HealthyInv ==
    faults = 0 =>
        /\ \A c \in Cycles : pc[c] \notin {"failRecord", "failRelease"}
        /\ \A p \in Proxies :
              \/ Settled(rows[p])
              \/ /\ rows[p].status = "pending"
                 /\ \E c \in Cycles : pc[c] = "validate" /\ p \in picked[c]

LEMMA HealthyInit == Init => HealthyInv
BY DEF Init, HealthyInv, Settled, NoRow

\* The statements that leave settled rows settled.
LEMMA SettledStays ==
    ASSUME LaneInv, NEW c \in Cycles, \A p \in Proxies : Settled(rows[p]),
           \/ StartCycle(c) \/ UpsertCandidates(c) \/ SelectValidationQueue(c)
           \/ Shortlist(c) \/ PersistService(c) \/ ExpireStale(c) \/ QuarantineFailures(c)
           \/ CountMembers(c) \/ DemoteOverflow(c) \/ ReleaseOrphanedPending(c)
           \/ ReleaseForeignPending(c) \/ Complete(c) \/ PruneHistory(c) \/ WrapUp(c)
    PROVE  \A p \in Proxies : Settled(rows'[p])
<1>0. \A p \in Proxies : rows[p] \in Row
  BY DEF LaneInv, MemberInv, TypeInv, TypeOK
<1>1. CASE \/ StartCycle(c) \/ SelectValidationQueue(c) \/ Shortlist(c)
           \/ CountMembers(c) \/ Complete(c)
  BY <1>1 DEF StartCycle, SelectValidationQueue, Shortlist, CountMembers, Complete
<1>2. CASE UpsertCandidates(c)
  <2>1. \A row \in Row : Settled(row) => Settled(Upserted(row, c))
    BY DEF Settled, Upserted, NoRow, Row
  <2>2. \A p \in Proxies : rows'[p] = rows[p] \/ rows'[p] = Upserted(rows[p], c)
    BY <1>2 DEF UpsertCandidates, Write
  <2> QED BY <1>0, <2>1, <2>2
<1>3. CASE PersistService(c)
  <2>1. PICK answered \in SUBSET DOMAIN seen[c] : WriteVerdicts(c, answered)
    BY <1>3 DEF PersistService, Answered
  <2>2. Lifted(c, answered)
    BY <1>3, <2>1, VerdictsLift DEF PersistService, At
  <2>3. ASSUME NEW p \in Proxies, p \in answered PROVE Settled(rows'[p])
    <3>1. rows[p].status \in {"active", "quarantined"}
      BY <2>2, <2>3 DEF Lifted, Settled
    <3>2. rows'[p].status \in {"active", "quarantined"}
      BY <2>2, <2>3, <3>1 DEF Lifted
    <3> QED BY <3>2 DEF Settled
  <2>4. \A p \in Proxies \ answered : rows'[p] = rows[p]
    BY <2>2 DEF Lifted
  <2> QED BY <2>3, <2>4
<1>4. CASE ExpireStale(c) \/ QuarantineFailures(c)
  <2>1. \A row \in Row : Settled(row) => Settled(AfterExpiry(row)) /\ Settled(AfterQuarantine(row))
    BY DEF Settled, AfterExpiry, AfterQuarantine, Row
  <2>2. \A p \in Proxies : rows'[p] = AfterExpiry(rows[p]) \/ rows'[p] = AfterQuarantine(rows[p])
    BY <1>4 DEF ExpireStale, QuarantineFailures, Write
  <2> QED BY <1>0, <2>1, <2>2
<1>5. CASE DemoteOverflow(c)
  <2>1. \A p \in Proxies : \/ rows'[p] = rows[p]
                           \/ rows'[p] = [rows[p] EXCEPT !.status = "quarantined"]
    BY <1>5 DEF DemoteOverflow, Write
  <2>2. \A p \in Proxies : rows'[p] = rows[p] \/ rows'[p].status = "quarantined"
    BY <1>0, <2>1 DEF Row
  <2> QED BY <2>2 DEF Settled
<1>6. CASE ReleaseOrphanedPending(c) \/ ReleaseForeignPending(c)
  <2>1. \A p \in Proxies : \/ rows'[p] = ReleasedOwn(rows[p], c)
                           \/ rows'[p] = ReleasedForeign(rows[p], c)
    BY <1>6 DEF ReleaseOrphanedPending, ReleaseForeignPending, Write
  <2> QED BY <2>1 DEF Settled, ReleasedOwn, ReleasedForeign
<1>7. CASE PruneHistory(c)
  <2>1. \A p \in Proxies : rows'[p] = rows[p] \/ rows'[p] = NoRow
    BY <1>7 DEF PruneHistory, Write
  <2>2. Settled(NoRow)
    BY DEF Settled, NoRow
  <2> QED BY <2>1, <2>2
<1>8. CASE WrapUp(c)
  <2>1. \A row \in Row : Settled(row) => Settled(Forgotten(row, c))
    BY DEF Settled, Forgotten, Row
  <2>2. \A p \in Proxies : rows'[p] = Forgotten(rows[p], c)
    BY <1>8 DEF WrapUp, Leave, Write
  <2> QED BY <1>0, <2>1, <2>2
<1> QED BY <1>1, <1>2, <1>3, <1>4, <1>5, <1>6, <1>7, <1>8

LEMMA HealthyStep ==
    ASSUME SingleFlight, JobsMayBeLost = FALSE
    PROVE  LaneInv /\ HealthyInv /\ [Next]_vars => HealthyInv'
<1> DEFINE Claims(p) == /\ rows'[p].status = "pending"
                        /\ \E c \in Cycles : pc'[c] = "validate" /\ p \in picked'[c]
           NoFailure == \A c \in Cycles : pc'[c] \notin {"failRecord", "failRelease"}
<1> SUFFICES ASSUME LaneInv, HealthyInv, [Next]_vars, faults' = 0
             PROVE  NoFailure /\ \A p \in Proxies : Settled(rows'[p]) \/ Claims(p)
  BY DEF HealthyInv
<1>0. /\ TypeOK /\ pc \in [Cycles -> Stage] /\ faults \in Nat
      /\ \A p \in Proxies : rows[p] \in Row
  BY DEF LaneInv, MemberInv, TypeInv, TypeOK
<1>1. CASE Tick \/ UNCHANGED vars
  <2>1. /\ pc' = pc /\ picked' = picked /\ faults' = faults
        /\ \A p \in Proxies : Timeless(rows[p], rows'[p])
    BY <1>0, <1>1, TimePasses
  <2> QED BY <2>1 DEF HealthyInv, Timeless, Settled
<1>2. ~Crash
  BY <1>0 DEF Crash
<1>3. ASSUME NEW c \in Cycles, Step(c) \/ StartThrows(c) \/ Throw(c) \/ WriteThrows(c)
      PROVE  NoFailure /\ \A p \in Proxies : Settled(rows'[p]) \/ Claims(p)
  <2>1. ~StartThrows(c) /\ ~Throw(c) /\ ~WriteThrows(c)
    BY <1>0 DEF StartThrows, Throw, WriteThrows
  <2>2. Step(c)
    BY <1>3, <2>1
  <2>3. faults = 0
    <3>1. faults' = faults + 1 => FALSE
      BY <1>0
    <3>2. CASE FailCycle(c) \/ ReleaseAfterFailure(c)
      BY <3>1, <3>2 DEF FailCycle, ReleaseAfterFailure
    <3>3. CASE ~FailCycle(c) /\ ~ReleaseAfterFailure(c)
      BY <2>2, <3>3 DEF Step, StartCycle, UpsertCandidates, SelectValidationQueue, MarkPending,
         PersistValidation, Shortlist, PersistService, ExpireStale, QuarantineFailures,
         CountMembers, DemoteOverflow, ReleaseOrphanedPending, ReleaseForeignPending, Complete,
         PruneHistory, WrapUp, bookkeeping
    <3> QED BY <3>2, <3>3
  <2>4. ~FailCycle(c) /\ ~ReleaseAfterFailure(c)
    BY <2>3 DEF HealthyInv, FailCycle, ReleaseAfterFailure, At
  <2>5. NoFailure
    <3>1. pc'[c] \notin {"failRecord", "failRelease"}
      BY <1>0, <2>2, <2>3, <2>4 DEF HealthyInv, Step, StartCycle, UpsertCandidates,
         SelectValidationQueue, MarkPending, PersistValidation, Shortlist, PersistService,
         ExpireStale, QuarantineFailures, CountMembers, DemoteOverflow, ReleaseOrphanedPending,
         ReleaseForeignPending, Complete, PruneHistory, WrapUp, Leave, Goto
    <3> QED BY <3>1 DEF SingleFlight
  <2>6. pc[c] # "validate" => \A p \in Proxies : Settled(rows[p])
    BY <2>3 DEF HealthyInv, SingleFlight
  <2>7. CASE MarkPending(c)
    <3>1. /\ pc[c] = "claim" /\ pc'[c] = "validate" /\ picked' = picked
          /\ rows' = [p \in Proxies |-> IF p \in picked[c] THEN Claimed(rows[p], c) ELSE rows[p]]
      BY <1>0, <2>7 DEF MarkPending, At, Goto, ClaimRows, Write
    <3>2. ASSUME NEW p \in Proxies, p \in picked[c] PROVE Claims(p)
      <4>1. rows[p].status \in {"new", "quarantined", "active"}
        BY <3>1, <3>2 DEF LaneInv, BatchInv
      <4>2. rows'[p].status = "pending"
        BY <1>0, <3>1, <3>2, <4>1 DEF Claimed, Row
      <4> QED BY <3>1, <3>2, <4>2
    <3>3. ASSUME NEW p \in Proxies, p \notin picked[c] PROVE Settled(rows'[p])
      BY <2>6, <3>1, <3>3
    <3> QED BY <2>5, <3>2, <3>3
  <2>8. CASE PersistValidation(c)
    <3>1. pc[c] = "validate" /\ WriteChecks(c, picked[c])
      BY <2>8 DEF PersistValidation, At, Answered
    <3>2. Outcomes(c, picked[c])
      BY <3>1, ChecksJudge
    <3>3. ASSUME NEW p \in Proxies, p \in picked[c] PROVE Settled(rows'[p])
      BY <3>2, <3>3 DEF Outcomes, Settled
    <3>4. ASSUME NEW p \in Proxies, p \notin picked[c] PROVE Settled(rows'[p])
      <4>1. Settled(rows[p])
        BY <2>3, <3>4 DEF HealthyInv, SingleFlight
      <4> QED BY <3>2, <3>4, <4>1 DEF Outcomes
    <3> QED BY <2>5, <3>3, <3>4
  <2>9. ASSUME ~MarkPending(c), ~PersistValidation(c)
        PROVE  \A p \in Proxies : Settled(rows'[p])
    <3>1. \/ StartCycle(c) \/ UpsertCandidates(c) \/ SelectValidationQueue(c)
          \/ Shortlist(c) \/ PersistService(c) \/ ExpireStale(c) \/ QuarantineFailures(c)
          \/ CountMembers(c) \/ DemoteOverflow(c) \/ ReleaseOrphanedPending(c)
          \/ ReleaseForeignPending(c) \/ Complete(c) \/ PruneHistory(c) \/ WrapUp(c)
      BY <2>2, <2>4, <2>9 DEF Step
    <3>2. pc[c] # "validate"
      BY <3>1 DEF StartCycle, UpsertCandidates, SelectValidationQueue, Shortlist,
         PersistService, ExpireStale, QuarantineFailures, CountMembers, DemoteOverflow,
         ReleaseOrphanedPending, ReleaseForeignPending, Complete, PruneHistory, WrapUp, At
    <3> QED BY <2>6, <3>1, <3>2, SettledStays
  <2> QED BY <2>5, <2>7, <2>8, <2>9
<1> QED BY <1>1, <1>2, <1>3 DEF Next

(* Where cycles do not overlap and no job is lost, and as long as nothing  *)
(* has failed, no proxy whose latest check passed is sent back to the      *)
(* backlog: "healthy entries keep their state"                             *)
(* (worker/src/pool/manager.ts:4).                                         *)
THEOREM HealthyStay ==
    ASSUME SingleFlight, JobsMayBeLost = FALSE
    PROVE  Spec => []HealthyKeptOutOfBacklog
<1>1. HealthyInv => HealthyKeptOutOfBacklog
  BY DEF HealthyInv, HealthyKeptOutOfBacklog, WithStatus, Settled
<1> QED BY LaneInit, LaneInvStep, HealthyInit, HealthyStep, <1>1, PTL DEF Spec

-----------------------------------------------------------------------------
(* Jobs beside the cycle.  Every step of SingleJobs is a step of the cycle *)
(* alone, or a job writes one row, or only what jobs hold in memory        *)
(* changes.                                                                *)

LEMMA PlannedType ==
    ASSUME NEW row \in Row
    PROVE  Planned(row) \in Row
<1>1. 0 \in Scores /\ NoCycle \in Cycles \cup {NoCycle}
  OBVIOUS
<1>2. 0 \in AgeUpTo(PoolTtl) /\ Never \in AgeUpTo(PoolTtl) /\ Never \in AgeUpTo(RecheckAfter)
      /\ Never \in AgeUpTo(ServiceRecheckAfter)
  BY DEF AgeUpTo
<1> QED BY <1>1, <1>2 DEF Planned, Row

JobsTypeInv ==
    /\ TypeInv
    /\ task \in [Handlers -> {NoTask} \cup Task]
    /\ touched \subseteq Proxies

LEMMA JobsTypeInit == JobsInit => JobsTypeInv
BY TypeInit DEF JobsInit, JobsTypeInv

\* A job at a statement holds a proxy and the copy of a row.
LEMMA AtWork ==
    ASSUME JobsTypeInv, NEW h \in Handlers, JobAt(h, "check") \/ JobAt(h, "probe")
    PROVE  task[h] \in Task
BY DEF JobsTypeInv, JobAt, NoTask

\* A write of a job: one row, and nothing else of the cycle's state.
JobWrites(p) ==
    /\ p \in Proxies
    /\ \E row \in Row : rows' = [rows EXCEPT ![p] = row]
    /\ touched' = touched \cup {p}
    /\ UNCHANGED cycleVars

LEMMA CheckWrites ==
    ASSUME JobsTypeInv, NEW h \in Handlers, JobCheck(h)
    PROVE  /\ JobWrites(task[h].proxy)
           /\ task' \in [Handlers -> {NoTask} \cup Task]
<1>1. task[h] \in Task /\ rows \in [Proxies -> Row]
  BY AtWork DEF JobCheck, JobsTypeInv, TypeInv, TypeOK
<1>2. task[h].proxy \in Proxies /\ task[h].copy \in Row
  BY <1>1 DEF Task
<1>3. PICK reachable \in BOOLEAN, score \in Scores :
          /\ score \in CheckScores(reachable)
          /\ WriteRow(task[h].proxy,
                      AfterCheck(rows[task[h].proxy], task[h].copy, reachable, score))
          /\ task' = [task EXCEPT ![h].at = "probe"] \/ task' = [task EXCEPT ![h] = NoTask]
  <2>1. \A reachable \in BOOLEAN : CheckScores(reachable) \subseteq Scores
    BY DEF CheckScores
  <2>2. \E reachable \in BOOLEAN : \E score \in CheckScores(reachable) :
            /\ WriteRow(task[h].proxy,
                        AfterCheck(rows[task[h].proxy], task[h].copy, reachable, score))
            /\ task' = [task EXCEPT ![h].at = "probe"] \/ task' = [task EXCEPT ![h] = NoTask]
    BY DEF JobCheck, JobEnds
  <2> QED BY <2>1, <2>2
<1>4. AfterCheck(rows[task[h].proxy], task[h].copy, reachable, score) \in Row
  <2>1. rows[task[h].proxy] \in Row
    BY <1>1, <1>2
  <2> QED BY <1>2, <1>3, <2>1, AfterCheckType
<1>5. JobWrites(task[h].proxy)
  BY <1>2, <1>3, <1>4 DEF JobWrites, WriteRow
<1>6. task' \in [Handlers -> {NoTask} \cup Task]
  <2>1. [task[h] EXCEPT !.at = "probe"] \in Task
    BY <1>1 DEF Task
  <2> QED BY <1>3, <2>1 DEF JobsTypeInv
<1> QED BY <1>5, <1>6

LEMMA VerdictWrites ==
    ASSUME JobsTypeInv, NEW h \in Handlers, JobVerdict(h)
    PROVE  /\ JobWrites(task[h].proxy)
           /\ task' \in [Handlers -> {NoTask} \cup Task]
<1>1. task[h] \in Task /\ rows \in [Proxies -> Row]
  BY AtWork DEF JobVerdict, JobsTypeInv, TypeInv, TypeOK
<1>2. task[h].proxy \in Proxies /\ task[h].copy \in Row
  BY <1>1 DEF Task
<1>3. PICK verdict \in Verdicts, score \in Scores :
          WriteRow(task[h].proxy,
                   AfterVerdict(rows[task[h].proxy], task[h].copy, verdict, score))
  BY DEF JobVerdict, VerdictScores
<1>4. AfterVerdict(rows[task[h].proxy], task[h].copy, verdict, score) \in Row
  <2>1. rows[task[h].proxy] \in Row
    BY <1>1, <1>2
  <2> QED BY <1>2, <1>3, <2>1, AfterVerdictType
<1>5. JobWrites(task[h].proxy)
  BY <1>2, <1>3, <1>4 DEF JobWrites, WriteRow
<1>6. task' \in [Handlers -> {NoTask} \cup Task]
  BY DEF JobVerdict, JobEnds, JobsTypeInv
<1> QED BY <1>5, <1>6

\* A step of the cycle, of time or of the process, as module RefreshCycle has it.
CycleOnly ==
    /\ [Next]_vars
    /\ touched' = IF SweepsBegin THEN {} ELSE touched

LEMMA JobsStep ==
    ASSUME JobsTypeInv, [JobsNext]_jobVars
    PROVE  /\ CycleOnly \/ \E p \in Proxies : JobWrites(p)
           /\ task' \in [Handlers -> {NoTask} \cup Task]
<1>0. /\ task \in [Handlers -> {NoTask} \cup Task] /\ rows \in [Proxies -> Row]
      /\ pc \in [Cycles -> Stage]
  BY DEF JobsTypeInv, TypeInv, TypeOK
<1>1. CASE CycleMoves
  <2>1. task' \in [Handlers -> {NoTask} \cup Task]
    BY <1>0, <1>1 DEF CycleMoves, JobsFollow
  <2>2. CycleOnly
    BY <1>1 DEF CycleMoves, CycleOnly, Next
  <2> QED BY <2>1, <2>2
<1>2. CASE TimePassesBy
  <2>1. ~SweepsBegin
    BY <1>2 DEF TimePassesBy, Tick, SweepsBegin
  <2> QED BY <1>0, <1>2, <2>1 DEF TimePassesBy, CycleOnly, Next
<1>3. CASE ProcessDies
  <2>1. ~SweepsBegin
    BY <1>3 DEF ProcessDies, Crash, SweepsBegin
  <2>2. task' \in [Handlers -> {NoTask} \cup Task]
    BY <1>3 DEF ProcessDies
  <2> QED BY <1>3, <2>1, <2>2 DEF ProcessDies, CycleOnly, Next
<1>4. ASSUME NEW h \in Handlers, JobBegins(h) \/ JobThrows(h)
      PROVE  CycleOnly /\ task' \in [Handlers -> {NoTask} \cup Task]
  <2>1. UNCHANGED <<vars, touched>> /\ ~SweepsBegin
    BY <1>4 DEF JobBegins, JobThrows, vars, SweepsBegin
  <2>2. CASE JobBegins(h)
    <3>1. PICK type \in JobTypes, p \in Proxies :
              task' = [task EXCEPT ![h] =
                  [at |-> "check", type |-> type, proxy |-> p, copy |-> Planned(rows[p])]]
      BY <2>2 DEF JobBegins
    <3>2. [at |-> "check", type |-> type, proxy |-> p, copy |-> Planned(rows[p])] \in Task
      BY <1>0, PlannedType DEF Task
    <3> QED BY <1>0, <2>1, <3>1, <3>2 DEF CycleOnly
  <2>3. CASE JobThrows(h)
    BY <1>0, <2>1, <2>3 DEF JobThrows, JobEnds, CycleOnly
  <2> QED BY <1>4, <2>2, <2>3
<1>5. ASSUME NEW h \in Handlers, JobCheck(h) \/ JobVerdict(h)
      PROVE  /\ \E p \in Proxies : JobWrites(p)
             /\ task' \in [Handlers -> {NoTask} \cup Task]
  <2>1. task[h].proxy \in Proxies
    BY <1>5, CheckWrites, VerdictWrites DEF JobWrites
  <2> QED BY <1>5, <2>1, CheckWrites, VerdictWrites
<1>6. CASE UNCHANGED jobVars
  <2>1. ~SweepsBegin
    BY <1>6 DEF jobVars, vars, SweepsBegin
  <2> QED BY <1>0, <1>6, <2>1 DEF jobVars, CycleOnly
<1> QED BY <1>1, <1>2, <1>3, <1>4, <1>5, <1>6 DEF JobsNext, JobStep

LEMMA JobsTypeStep == JobsTypeInv /\ [JobsNext]_jobVars => JobsTypeInv'
<1> SUFFICES ASSUME JobsTypeInv, [JobsNext]_jobVars PROVE JobsTypeInv'
  OBVIOUS
<1>1. CASE CycleOnly
  BY <1>1, JobsStep, TypeStep DEF JobsTypeInv, CycleOnly
<1>2. ASSUME NEW p \in Proxies, JobWrites(p) PROVE JobsTypeInv'
  <2>1. rows' \in [Proxies -> Row] /\ touched' \subseteq Proxies
    BY <1>2 DEF JobWrites, JobsTypeInv, TypeInv, TypeOK
  <2>2. TypeInv'
    BY <1>2, <2>1 DEF JobWrites, cycleVars, bookkeeping, JobsTypeInv, TypeInv, TypeOK,
                      CopiesCoverPicked
  <2> QED BY <2>1, <2>2, JobsStep DEF JobsTypeInv
<1> QED BY <1>1, <1>2, JobsStep

(* Every reachable state of the cycle and the jobs beside it is well       *)
(* typed: whatever jobs read and write are rows of the schema.             *)
THEOREM JobsTypeCorrect == JobsSpec => []JobsTypeOK
<1>1. JobsSpec => []JobsTypeInv
  BY JobsTypeInit, JobsTypeStep, PTL DEF JobsSpec
<1>2. JobsTypeInv => JobsTypeOK
  BY DEF JobsTypeInv, TypeInv, JobsTypeOK
<1> QED BY <1>1, <1>2, PTL

-----------------------------------------------------------------------------
(* What finalize establishes with jobs beside it, where cycles do not      *)
(* overlap.  A job may put its row anywhere at any time, so every sweep's  *)
(* fact is kept for the rows no job has written since the sweeps began;    *)
(* the capacity is kept for them with one more for each of the others,     *)
(* because a demotion that hits a written row spares one that was counted. *)

Swept(c) ==
    \/ pc[c] \in {"count", "demote", "releaseOwn", "releaseForeign", "complete"}
    \/ record[c] = "completed"

Bounded(c) ==
    \/ pc[c] \in {"releaseOwn", "releaseForeign", "complete"}
    \/ record[c] = "completed"

Others(S) == S \ touched

SweptInv ==
    \A c \in Cycles :
        /\ pc[c] = "quarantine" \/ Swept(c) => \A p \in Others(Members) : rows[p].passedAge # Never
        /\ Swept(c) => \A p \in Others(Members) : rows[p].failures < MaxConsecutiveFailures

BoundedInv ==
    \A c \in Cycles :
        /\ pc[c] = "demote" => Cardinality(Others(Members)) <= MaxActive + overflow[c]
        /\ Bounded(c) => Cardinality(Others(Members)) <= MaxActive + Cardinality(touched)

ReleasedInv ==
    \A c \in Cycles :
        /\ pc[c] = "releaseForeign" => \A p \in Others(WithStatus("pending")) : rows[p].owner # c
        /\ pc[c] = "complete" \/ record[c] = "completed" => Others(WithStatus("pending")) = {}

JobsInv == JobsTypeInv /\ RecordInv /\ SweptInv /\ BoundedInv /\ ReleasedInv

LEMMA JobsInvInit == JobsInit => JobsInv
<1> SUFFICES ASSUME JobsInit PROVE JobsInv
  OBVIOUS
<1>1. JobsTypeInv
  BY JobsTypeInit
<1>2. \A c \in Cycles : pc[c] = "idle" /\ record[c] = "none"
  BY DEF JobsInit, Init
<1> QED BY <1>1, <1>2 DEF JobsInv, RecordInv, SweptInv, BoundedInv, ReleasedInv, Swept, Bounded

LEMMA FiniteSets ==
    ASSUME JobsTypeInv
    PROVE  /\ IsFiniteSet(Members) /\ IsFiniteSet(Others(Members)) /\ IsFiniteSet(touched)
           /\ Cardinality(Members) \in Nat /\ Cardinality(Others(Members)) \in Nat
           /\ Cardinality(touched) \in Nat
<1>1. Others(Members) \subseteq Members
  BY DEF Others
<1>2. IsFiniteSet(Members) /\ IsFiniteSet(Others(Members))
  BY <1>1, MembersFinite, FS_Subset
<1>3. IsFiniteSet(touched)
  BY FS_Subset DEF JobsTypeInv
<1> QED BY <1>2, <1>3, FS_CardinalityType

\* Members that stay members, with the same failures and a pass if they had one.
MembersLinger ==
    \A p \in Members' :
        /\ p \in Members
        /\ rows'[p].failures = rows[p].failures
        /\ rows'[p].passedAge = Never <=> rows[p].passedAge = Never

LEMMA Lingering ==
    ASSUME TypeOK, NEW c \in Cycles,
           \/ UNCHANGED rows
           \/ QuarantineFailures(c) \/ DemoteOverflow(c)
           \/ ReleaseOrphanedPending(c) \/ ReleaseForeignPending(c) \/ PruneHistory(c)
           \/ WrapUp(c) \/ ReleaseAfterFailure(c) \/ Crash \/ Tick
    PROVE  MembersLinger
<1>0. \A p \in Proxies : rows[p] \in Row
  BY DEF TypeOK
<1> DEFINE Lingers(p) == rows'[p].status = "active" =>
             /\ rows[p].status = "active"
             /\ rows'[p].failures = rows[p].failures
             /\ rows'[p].passedAge = Never <=> rows[p].passedAge = Never
<1>1. ASSUME NEW p \in Proxies
      PROVE  Lingers(p)
  <2>1. CASE UNCHANGED rows
    BY <2>1
  <2>2. CASE QuarantineFailures(c)
    <3>1. rows'[p] = AfterQuarantine(rows[p])
      BY <2>2 DEF QuarantineFailures, Write
    <3> QED BY <1>0, <3>1 DEF AfterQuarantine, Row
  <2>3. CASE DemoteOverflow(c)
    <3>1. rows'[p] = rows[p] \/ rows'[p] = [rows[p] EXCEPT !.status = "quarantined"]
      BY <2>3 DEF DemoteOverflow, Write
    <3> QED BY <1>0, <3>1 DEF Row
  <2>4. CASE ReleaseOrphanedPending(c)
    <3>1. rows'[p] = ReleasedOwn(rows[p], c)
      BY <2>4 DEF ReleaseOrphanedPending, Write
    <3> QED BY <1>0, <3>1 DEF ReleasedOwn, Row
  <2>5. CASE ReleaseForeignPending(c)
    <3>1. rows'[p] = ReleasedForeign(rows[p], c)
      BY <2>5 DEF ReleaseForeignPending, Write
    <3> QED BY <1>0, <3>1 DEF ReleasedForeign, Row
  <2>6. CASE PruneHistory(c)
    <3>1. rows'[p] = rows[p] \/ rows'[p] = NoRow
      BY <2>6 DEF PruneHistory, Write
    <3> QED BY <3>1 DEF NoRow
  <2>7. CASE WrapUp(c)
    <3>1. rows'[p] = Forgotten(rows[p], c)
      BY <2>7 DEF WrapUp, Leave, Write
    <3> QED BY <1>0, <3>1 DEF Forgotten, Row
  <2>8. CASE ReleaseAfterFailure(c)
    <3>1. \/ rows'[p] = Forgotten(rows[p], c)
          \/ rows'[p] = Forgotten(ReleasedOwn(rows[p], c), c)
      BY <2>8 DEF ReleaseAfterFailure, Leave, Write
    <3> QED BY <1>0, <3>1 DEF Forgotten, ReleasedOwn, Row
  <2>9. CASE Crash
    BY <1>0, <2>9 DEF Crash, Row
  <2>10. CASE Tick
    BY <2>10, TimePasses DEF Timeless
  <2> QED BY <2>1, <2>2, <2>3, <2>4, <2>5, <2>6, <2>7, <2>8, <2>9, <2>10
<1> QED BY <1>1 DEF MembersLinger, Members, WithStatus

\* How the places after the first two sweeps are reached.
LEMMA Sweeps ==
    ASSUME SingleFlight, TypeOK, RecordInv, [Next]_vars, NEW c \in Cycles
    PROVE  /\ pc'[c] = "quarantine" =>
                 \/ ExpireStale(c)
                 \/ pc[c] = "quarantine" /\ MembersLinger
           /\ Swept(c)' =>
                 \/ QuarantineFailures(c) /\ pc[c] = "quarantine"
                 \/ Swept(c) /\ MembersLinger
<1>0. /\ pc \in [Cycles -> Stage] /\ record \in [Cycles -> {"none", "running", "completed", "failed"}]
      /\ record[c] # "running" => pc[c] \in {"idle", "wrapUp", "failRecord", "failRelease"}
  BY DEF TypeOK, RecordInv
<1>1. CASE Tick \/ UNCHANGED vars
  <2>1. pc' = pc /\ record' = record
    BY <1>1, TimePasses
  <2>2. MembersLinger
    BY <1>1, Lingering DEF vars
  <2> QED BY <2>1, <2>2 DEF Swept
<1>2. CASE Crash
  <2>1. pc'[c] = "idle" /\ record' = record /\ MembersLinger
    BY <1>2, Lingering DEF Crash
  <2> QED BY <2>1 DEF Swept
<1>3. CASE \/ StartThrows(c) \/ Throw(c) \/ FailCycle(c) \/ ReleaseAfterFailure(c)
           \/ WrapUp(c) \/ PruneHistory(c)
  <2>1. MembersLinger
    BY <1>3, Lingering DEF StartThrows, Throw, FailCycle
  <2>2. /\ pc'[c] \in {"idle", "wrapUp", "failRecord", "failRelease"}
        /\ record'[c] = "completed" => record[c] = "completed"
    BY <1>0, <1>3 DEF StartThrows, Throw, FailCycle, ReleaseAfterFailure, WrapUp, PruneHistory,
                      Leave, Goto, At, bookkeeping
  <2> QED BY <2>1, <2>2 DEF Swept
<1>4. CASE \/ StartCycle(c) \/ UpsertCandidates(c) \/ SelectValidationQueue(c) \/ MarkPending(c)
           \/ PersistValidation(c) \/ Shortlist(c) \/ PersistService(c) \/ WriteThrows(c)
  <2>1. /\ pc'[c] \in {"upsert", "select", "claim", "validate", "shortlist", "probe", "expire",
                       "failRecord"}
        /\ record'[c] = "running"
    BY <1>0, <1>4 DEF StartCycle, UpsertCandidates, SelectValidationQueue, MarkPending,
       PersistValidation, Shortlist, PersistService, WriteThrows, Goto, At, bookkeeping
  <2> QED BY <2>1 DEF Swept
<1>5. CASE ExpireStale(c)
  <2>1. pc'[c] = "quarantine" /\ record'[c] = "running"
    BY <1>0, <1>5 DEF ExpireStale, Goto, At, bookkeeping
  <2> QED BY <1>5, <2>1 DEF Swept
<1>6. CASE QuarantineFailures(c)
  <2>1. pc[c] = "quarantine" /\ pc'[c] = "count"
    BY <1>0, <1>6 DEF QuarantineFailures, Goto, At
  <2> QED BY <1>6, <2>1 DEF Swept
<1>7. CASE \/ CountMembers(c) \/ DemoteOverflow(c) \/ ReleaseOrphanedPending(c)
           \/ ReleaseForeignPending(c) \/ Complete(c)
  <2>1. MembersLinger
    BY <1>7, Lingering DEF CountMembers, Complete
  <2>2. Swept(c) /\ pc'[c] # "quarantine"
    BY <1>0, <1>7 DEF CountMembers, DemoteOverflow, ReleaseOrphanedPending,
       ReleaseForeignPending, Complete, Goto, At, Swept
  <2> QED BY <2>1, <2>2
<1> QED BY <1>1, <1>2, <1>3, <1>4, <1>5, <1>6, <1>7, LaneStep DEF Step

\* A step of the cycle forgets who was written only where nothing is claimed
\* about it.
LEMMA TouchedStays ==
    ASSUME SingleFlight, JobsInv, CycleOnly, NEW c \in Cycles
    PROVE  \/ touched' = touched
           \/ pc'[c] = "expire" /\ record'[c] = "running"
<1>1. CASE SweepsBegin
  <2>1. pc'[c] = "expire"
    BY <1>1 DEF SweepsBegin, SingleFlight
  <2>2. RecordInv'
    BY RecordStep DEF JobsInv, JobsTypeInv, TypeInv, CycleOnly
  <2> QED BY <2>1, <2>2 DEF RecordInv
<1>2. CASE ~SweepsBegin
  BY <1>2 DEF CycleOnly
<1> QED BY <1>1, <1>2

\* The sweep of stale members leaves only such as have passed a check.
LEMMA ExpiryLeavesPassed ==
    ASSUME NEW row \in Row, AfterExpiry(row).status = "active"
    PROVE  AfterExpiry(row).passedAge # Never
<1>1. CASE Expired(row)
  <2>1. AfterExpiry(row).status = "dead"
    BY <1>1 DEF AfterExpiry, Row
  <2> QED BY <2>1
<1>2. CASE ~Expired(row)
  <2>1. AfterExpiry(row) = row
    BY <1>2 DEF AfterExpiry
  <2> QED BY <1>2, <2>1 DEF Expired, OlderThan
<1> QED BY <1>1, <1>2

LEMMA SweptStep ==
    ASSUME SingleFlight, JobsInv, CycleOnly
    PROVE  SweptInv'
<1> SUFFICES ASSUME NEW c \in Cycles
             PROVE  /\ pc'[c] = "quarantine" \/ Swept(c)' =>
                          \A p \in Members' \ touched' : rows'[p].passedAge # Never
                    /\ Swept(c)' =>
                          \A p \in Members' \ touched' :
                              rows'[p].failures < MaxConsecutiveFailures
  BY DEF SweptInv, Others
<1>0. /\ TypeOK /\ RecordInv /\ [Next]_vars /\ \A p \in Proxies : rows[p] \in Row
      /\ pc \in [Cycles -> Stage]
  BY DEF JobsInv, JobsTypeInv, TypeInv, TypeOK, CycleOnly
<1>1. CASE pc'[c] = "expire" /\ record'[c] = "running"
  BY <1>1 DEF Swept
<1>2. CASE touched' = touched
  <2>1. /\ pc[c] = "quarantine" \/ Swept(c) =>
              \A p \in Members \ touched : rows[p].passedAge # Never
        /\ Swept(c) => \A p \in Members \ touched : rows[p].failures < MaxConsecutiveFailures
    BY DEF JobsInv, SweptInv, Others
  <2>2. CASE ExpireStale(c)
    <3>1. \A p \in Proxies : rows'[p] = AfterExpiry(rows[p])
      BY <2>2 DEF ExpireStale, Write
    <3>2. ASSUME NEW p \in Proxies, rows'[p].status = "active"
          PROVE  rows'[p].passedAge # Never
      <4>1. rows'[p] = AfterExpiry(rows[p])
        BY <3>1
      <4> QED BY <1>0, <3>2, <4>1, ExpiryLeavesPassed
    <3>3. \A p \in Members' : rows'[p].passedAge # Never
      BY <3>2 DEF Members, WithStatus
    <3>4. pc'[c] = "quarantine" /\ record'[c] = "running"
      BY <1>0, <2>2 DEF ExpireStale, At, Goto, bookkeeping, RecordInv, TypeOK
    <3> QED BY <3>3, <3>4 DEF Swept
  <2>3. CASE QuarantineFailures(c) /\ pc[c] = "quarantine"
    <3>1. MembersLinger
      BY <1>0, <2>3, Lingering
    <3>2. \A p \in Proxies : rows'[p] = AfterQuarantine(rows[p])
      BY <2>3 DEF QuarantineFailures, Write
    <3>3. \A p \in Proxies :
              rows'[p].status = "active" => ~(rows'[p].failures >= MaxConsecutiveFailures)
      BY <1>0, <3>2 DEF AfterQuarantine, AtThreshold, Row
    <3>4. \A p \in Proxies : rows[p].failures \in Nat
      BY <1>0 DEF Row, FailureCap
    <3>5. \A p \in Members' : rows'[p].failures < MaxConsecutiveFailures
      BY <3>1, <3>3, <3>4 DEF Members, WithStatus, MembersLinger
    <3> QED BY <1>2, <2>1, <2>3, <3>1, <3>5 DEF MembersLinger
  <2>4. CASE (pc[c] = "quarantine" \/ Swept(c)) /\ MembersLinger /\ (Swept(c)' => Swept(c))
    BY <1>2, <2>1, <2>4 DEF MembersLinger
  <2> QED BY <1>0, <2>2, <2>3, <2>4, Sweeps
<1> QED BY <1>1, <1>2, TouchedStays

LEMMA ReleasedStep ==
    ASSUME SingleFlight, JobsInv, CycleOnly
    PROVE  ReleasedInv'
<1> SUFFICES ASSUME NEW c \in Cycles
             PROVE  /\ pc'[c] = "releaseForeign" =>
                          \A p \in WithStatus("pending")' \ touched' : rows'[p].owner # c
                    /\ pc'[c] = "complete" \/ record'[c] = "completed" =>
                          WithStatus("pending")' \subseteq touched'
  BY DEF ReleasedInv, Others
<1>0. /\ TypeOK /\ RecordInv /\ [Next]_vars /\ rows \in [Proxies -> Row]
      /\ pc \in [Cycles -> Stage]
  BY DEF JobsInv, JobsTypeInv, TypeInv, TypeOK, CycleOnly
<1>1. CASE pc'[c] = "expire" /\ record'[c] = "running"
  BY <1>1
<1>2. CASE touched' = touched
  <2>0. /\ pc[c] = "releaseForeign" =>
              \A p \in WithStatus("pending") \ touched : rows[p].owner # c
        /\ pc[c] = "complete" \/ record[c] = "completed" => WithStatus("pending") \subseteq touched
    BY DEF JobsInv, ReleasedInv, Others
  <2>1. CASE ReleaseOrphanedPending(c)
    <3>1. \A p \in Proxies : rows'[p] = ReleasedOwn(rows[p], c)
      BY <2>1 DEF ReleaseOrphanedPending, Write
    <3>2. \A p \in Proxies : rows'[p].status = "pending" => rows'[p].owner # c
      BY <1>0, <3>1 DEF ReleasedOwn, Row
    <3>3. pc'[c] = "releaseForeign" /\ record'[c] = "running"
      BY <1>0, <2>1 DEF ReleaseOrphanedPending, At, Goto, RecordInv, bookkeeping
    <3> QED BY <3>2, <3>3 DEF WithStatus
  <2>2. CASE ReleaseForeignPending(c)
    <3>1. \A p \in Proxies : rows'[p] = ReleasedForeign(rows[p], c)
      BY <2>2 DEF ReleaseForeignPending, Write
    <3>2. \A p \in WithStatus("pending") \ touched : rows[p].owner # c
      BY <2>0, <2>2 DEF ReleaseForeignPending, At
    <3>3. ASSUME NEW p \in Proxies \ touched
          PROVE  rows'[p].status # "pending"
      <4>1. rows[p] \in Row /\ rows'[p] = ReleasedForeign(rows[p], c)
        BY <1>0, <3>1
      <4>2. CASE rows[p].status = "pending"
        <5>1. rows[p].owner # c
          BY <3>2, <4>2 DEF WithStatus
        <5> QED BY <4>1, <4>2, <5>1 DEF ReleasedForeign, Row
      <4>3. CASE rows[p].status # "pending"
        BY <4>1, <4>3 DEF ReleasedForeign
      <4> QED BY <4>2, <4>3
    <3> QED BY <1>0, <1>2, <2>2, <3>3 DEF WithStatus, ReleaseForeignPending, Goto
  <2>3. CASE ~(ReleaseOrphanedPending(c) \/ ReleaseForeignPending(c))
    <3>1. NoCycle # c
      OBVIOUS
    <3> QED BY <1>0, <1>2, <2>0, <2>3, <3>1, Finalizing DEF Quiet
  <2> QED BY <2>1, <2>2, <2>3
<1> QED BY <1>1, <1>2, TouchedStays

\* What is demoted of the members, as far as no job has written it: as many as
\* the overflow says, but for one at most for every row a job has written.
LEMMA SparedByJobs ==
    ASSUME JobsInv, NEW c \in Cycles, pc[c] = "demote",
           NEW demoted \in FirstN(Members, overflow[c], LowerScore)
    PROVE  Cardinality(Others(Members) \ demoted) <= MaxActive + Cardinality(touched)
<1>0. /\ overflow[c] \in Nat
      /\ Cardinality(Others(Members)) <= MaxActive + overflow[c]
  BY DEF JobsInv, JobsTypeInv, TypeInv, TypeOK, BoundedInv
<1>1. /\ demoted \subseteq Members
      /\ Cardinality(demoted) = IF Cardinality(Members) <= overflow[c] THEN Cardinality(Members)
                                ELSE overflow[c]
  BY DEF FirstN
<1>2. /\ IsFiniteSet(Members) /\ IsFiniteSet(Others(Members)) /\ IsFiniteSet(touched)
      /\ Cardinality(Members) \in Nat /\ Cardinality(Others(Members)) \in Nat
      /\ Cardinality(touched) \in Nat
  BY FiniteSets DEF JobsInv
<1>3. IsFiniteSet(demoted) /\ IsFiniteSet(demoted \cap touched) /\ IsFiniteSet(demoted \ touched)
  BY <1>1, <1>2, FS_Subset, FS_Intersection, FS_Difference
<1>4. CASE Cardinality(Members) <= overflow[c]
  <2>1. demoted = Members
    BY <1>1, <1>2, <1>4, FS_Subset
  <2>2. Others(Members) \ demoted = {}
    BY <2>1 DEF Others
  <2>3. Cardinality(Others(Members) \ demoted) = 0
    BY <2>2, FS_EmptySet
  <2>4. MaxActive \in Nat
    BY CycleAssumption
  <2> QED BY <1>2, <2>3, <2>4
<1>5. CASE Cardinality(Members) > overflow[c]
  <2>1. Cardinality(demoted) = overflow[c]
    BY <1>0, <1>1, <1>2, <1>5
  <2>2. /\ Cardinality(demoted \cap touched) \in Nat
        /\ Cardinality(demoted \cap touched) <= Cardinality(touched)
    BY <1>2, <1>3, FS_Subset, FS_CardinalityType
  <2>3. Cardinality(demoted \ touched) = overflow[c] - Cardinality(demoted \cap touched)
    BY <1>3, <2>1, FS_Difference
  <2>4. /\ Others(Members) \ demoted = Others(Members) \ (demoted \ touched)
        /\ Others(Members) \cap (demoted \ touched) = demoted \ touched
    BY <1>1 DEF Others
  <2>5. Cardinality(Others(Members) \ demoted) =
            Cardinality(Others(Members)) - Cardinality(demoted \ touched)
    BY <1>2, <2>4, FS_Difference
  <2> QED BY <1>0, <1>2, <2>2, <2>3, <2>5
<1> QED BY <1>0, <1>2, <1>4, <1>5

LEMMA BoundedStep ==
    ASSUME SingleFlight, JobsInv, CycleOnly
    PROVE  BoundedInv'
<1> SUFFICES ASSUME NEW c \in Cycles
             PROVE  /\ pc'[c] = "demote" =>
                          Cardinality(Members' \ touched') <= MaxActive + overflow'[c]
                    /\ Bounded(c)' =>
                          Cardinality(Members' \ touched') <= MaxActive + Cardinality(touched')
  BY DEF BoundedInv, Others
<1>0. /\ TypeOK /\ RecordInv /\ [Next]_vars /\ pc \in [Cycles -> Stage]
      /\ overflow \in [Cycles -> Nat]
  BY DEF JobsInv, JobsTypeInv, TypeInv, TypeOK, CycleOnly
<1>1. CASE pc'[c] = "expire" /\ record'[c] = "running"
  BY <1>1 DEF Bounded
<1>2. CASE touched' = touched
  <2>0. /\ pc[c] = "demote" => Cardinality(Members \ touched) <= MaxActive + overflow[c]
        /\ Bounded(c) => Cardinality(Members \ touched) <= MaxActive + Cardinality(touched)
    BY DEF JobsInv, BoundedInv, Others
  <2>1. CASE CountMembers(c)
    <3>1. Members' = Members /\ record' = record /\ pc[c] = "count"
      BY <2>1 DEF CountMembers, Members, WithStatus, bookkeeping, At
    <3>2. /\ Cardinality(Members) \in Nat /\ Cardinality(Members \ touched) \in Nat
          /\ Cardinality(touched) \in Nat
          /\ Cardinality(Members \ touched) <= Cardinality(Members)
      <4>1. Members \ touched \subseteq Members
        OBVIOUS
      <4> QED BY <4>1, FiniteSets, FS_Subset DEF JobsInv, Others
    <3>3. \/ pc'[c] = "releaseOwn" /\ Cardinality(Members) <= MaxActive
          \/ pc'[c] = "demote" /\ Cardinality(Members) = MaxActive + overflow'[c]
      BY <1>0, <2>1, <3>2 DEF CountMembers, Goto
    <3>4. record[c] = "running"
      BY <1>0, <3>1 DEF RecordInv, TypeOK
    <3> QED BY <1>2, <3>1, <3>2, <3>3, <3>4 DEF Bounded
  <2>2. CASE DemoteOverflow(c)
    <3>1. PICK demoted \in FirstN(Members, overflow[c], LowerScore) :
              rows' = [p \in Proxies |-> IF p \in demoted
                                         THEN [rows[p] EXCEPT !.status = "quarantined"] ELSE rows[p]]
      BY <2>2 DEF DemoteOverflow, Write
    <3>2. Cardinality(Others(Members) \ demoted) <= MaxActive + Cardinality(touched)
      BY <2>2, SparedByJobs DEF DemoteOverflow, At
    <3>3. Members' = Members \ demoted
      BY <1>0, <3>1 DEF TypeOK, Row, Members, WithStatus
    <3>4. Members' \ touched' = Others(Members) \ demoted
      BY <1>2, <3>3 DEF Others
    <3>5. pc'[c] = "releaseOwn"
      BY <1>0, <2>2 DEF DemoteOverflow, Goto
    <3> QED BY <1>2, <3>2, <3>4, <3>5
  <2>3. CASE ReleaseOrphanedPending(c) \/ ReleaseForeignPending(c)
    <3>1. Members' = Members
      BY <1>0, <2>3, QuietSteps DEF Quiet
    <3>2. /\ pc[c] \in {"releaseOwn", "releaseForeign"}
          /\ pc'[c] \in {"releaseForeign", "complete"}
      BY <1>0, <2>3 DEF ReleaseOrphanedPending, ReleaseForeignPending, At, Goto
    <3> QED BY <1>2, <2>0, <3>1, <3>2 DEF Bounded
  <2>4. CASE ~(CountMembers(c) \/ DemoteOverflow(c) \/ ReleaseOrphanedPending(c)
               \/ ReleaseForeignPending(c))
    BY <1>0, <1>2, <2>0, <2>4, Finalizing DEF Quiet, Bounded
  <2> QED BY <2>1, <2>2, <2>3, <2>4
<1> QED BY <1>1, <1>2, TouchedStays

\* A row a job writes is not counted among the others any more, and the other
\* rows stay as they are.
LEMMA JobWritesKeep ==
    ASSUME JobsInv, JobsTypeInv', NEW p \in Proxies, JobWrites(p)
    PROVE  JobsInv'
<1>0. rows \in [Proxies -> Row]
  BY DEF JobsInv, JobsTypeInv, TypeInv, TypeOK
<1>1. /\ pc' = pc /\ record' = record /\ overflow' = overflow
      /\ touched' = touched \cup {p}
  BY DEF JobWrites, cycleVars, bookkeeping
<1>2. \A q \in Proxies \ touched' : q \notin touched /\ rows'[q] = rows[q]
  BY <1>0 DEF JobWrites
<1>3. /\ Members' \ touched' \subseteq Members \ touched
      /\ WithStatus("pending")' \ touched' \subseteq WithStatus("pending") \ touched
  BY <1>2 DEF Members, WithStatus
<1>4. RecordInv'
  BY <1>1 DEF JobsInv, RecordInv
<1>5. SweptInv'
  <2>1. \A q \in Members' \ touched' : q \in Members \ touched /\ rows'[q] = rows[q]
    BY <1>2, <1>3 DEF Members, WithStatus
  <2>2. \A c \in Cycles : Swept(c)' <=> Swept(c)
    BY <1>1 DEF Swept
  <2> QED BY <1>1, <2>1, <2>2 DEF JobsInv, SweptInv, Others
<1>6. BoundedInv'
  <2>1. \A c \in Cycles : Bounded(c)' <=> Bounded(c)
    BY <1>1 DEF Bounded
  <2>2. Cardinality(Members' \ touched') <= Cardinality(Members \ touched)
    BY <1>3, FiniteSets, FS_Subset DEF JobsInv, Others
  <2>3. Cardinality(touched) <= Cardinality(touched')
    <3>1. IsFiniteSet(touched')
      BY FS_Subset, CycleAssumption DEF JobsTypeInv
    <3> QED BY <1>1, <3>1, FS_Subset
  <2>4. /\ Cardinality(Members' \ touched') \in Nat /\ Cardinality(Members \ touched) \in Nat
        /\ Cardinality(touched) \in Nat /\ Cardinality(touched') \in Nat
        /\ MaxActive \in Nat /\ overflow \in [Cycles -> Nat]
    <3>1. IsFiniteSet(Members' \ touched') /\ IsFiniteSet(touched')
      BY <1>3, FiniteSets, FS_Subset, CycleAssumption DEF JobsInv, JobsTypeInv, Others
    <3> QED BY <3>1, FiniteSets, FS_CardinalityType, CycleAssumption
            DEF JobsInv, JobsTypeInv, TypeInv, TypeOK, Others
  <2>5. ASSUME NEW c \in Cycles, pc[c] = "demote"
        PROVE  Cardinality(Members' \ touched') <= MaxActive + overflow[c]
    <3>1. Cardinality(Members \ touched) <= MaxActive + overflow[c]
      BY <2>5 DEF JobsInv, BoundedInv, Others
    <3> QED BY <2>2, <2>4, <3>1
  <2>6. ASSUME NEW c \in Cycles, Bounded(c)
        PROVE  Cardinality(Members' \ touched') <= MaxActive + Cardinality(touched')
    <3>1. Cardinality(Members \ touched) <= MaxActive + Cardinality(touched)
      BY <2>6 DEF JobsInv, BoundedInv, Others
    <3> QED BY <2>2, <2>3, <2>4, <3>1
  <2> QED BY <1>1, <2>1, <2>5, <2>6 DEF BoundedInv, Others
<1>7. ReleasedInv'
  <2>1. \A q \in WithStatus("pending")' \ touched' :
            q \in WithStatus("pending") \ touched /\ rows'[q] = rows[q]
    BY <1>2, <1>3 DEF WithStatus
  <2> QED BY <1>1, <2>1 DEF JobsInv, ReleasedInv, Others
<1> QED BY <1>4, <1>5, <1>6, <1>7 DEF JobsInv

LEMMA JobsInvStep ==
    ASSUME SingleFlight
    PROVE  JobsInv /\ [JobsNext]_jobVars => JobsInv'
<1> SUFFICES ASSUME JobsInv, [JobsNext]_jobVars PROVE JobsInv'
  OBVIOUS
<1>1. JobsTypeInv'
  BY JobsTypeStep DEF JobsInv
<1>2. CASE CycleOnly
  <2>1. RecordInv'
    BY <1>2, RecordStep DEF JobsInv, JobsTypeInv, TypeInv, CycleOnly
  <2> QED BY <1>1, <1>2, <2>1, SweptStep, ReleasedStep, BoundedStep DEF JobsInv
<1>3. CASE \E p \in Proxies : JobWrites(p)
  BY <1>1, <1>3, JobWritesKeep
<1> QED BY <1>2, <1>3, JobsStep DEF JobsInv

(* Where cycles do not overlap: once a cycle is recorded as completed, and *)
(* until the next one begins, no claim is left but on a row that a job has *)
(* written since the sweeps began, and every other member has passed a     *)
(* check and stands below the failure threshold, whatever jobs wrote       *)
(* between the statements of finalize.                                     *)
THEOREM SettledWithJobs ==
    ASSUME SingleFlight
    PROVE  JobsSpec => []SettledButForJobs
<1>1. JobsInv => SettledButForJobs
  <2> SUFFICES ASSUME JobsInv, NEW c \in Cycles, BetweenCycles(c)
               PROVE  /\ WithStatus("pending") \subseteq touched
                      /\ \A p \in Members \ touched :
                            /\ rows[p].passedAge # Never
                            /\ rows[p].failures < MaxConsecutiveFailures
    BY DEF SettledButForJobs
  <2>1. record[c] = "completed"
    BY DEF BetweenCycles
  <2>2. WithStatus("pending") \ touched = {}
    BY <2>1 DEF JobsInv, ReleasedInv, Others
  <2> QED BY <2>1, <2>2 DEF JobsInv, SweptInv, Swept, Others
<1> QED BY JobsInvInit, JobsInvStep, <1>1, PTL DEF JobsSpec

(* Where cycles do not overlap: jobs beside the cycle take the pool past   *)
(* POOL_MAX_ACTIVE by no more than two members for every row they have     *)
(* written since the sweeps began, however many jobs there are and         *)
(* wherever they fall between the count and the demotion.                  *)
THEOREM CapacityWithJobs ==
    ASSUME SingleFlight
    PROVE  JobsSpec => []CapacityButForJobs
<1>1. JobsInv => CapacityButForJobs
  <2> SUFFICES ASSUME JobsInv, NEW c \in Cycles, BetweenCycles(c)
               PROVE  Cardinality(Members) <= MaxActive + 2 * Cardinality(touched)
    BY DEF CapacityButForJobs
  <2>1. Cardinality(Others(Members)) <= MaxActive + Cardinality(touched)
    BY DEF BetweenCycles, JobsInv, BoundedInv, Bounded
  <2>2. /\ IsFiniteSet(Members) /\ IsFiniteSet(touched)
        /\ Cardinality(Members) \in Nat /\ Cardinality(Others(Members)) \in Nat
        /\ Cardinality(touched) \in Nat /\ MaxActive \in Nat
    BY FiniteSets, CycleAssumption DEF JobsInv
  <2>3. /\ IsFiniteSet(Members \cap touched)
        /\ Cardinality(Members \cap touched) \in Nat
        /\ Cardinality(Members \cap touched) <= Cardinality(touched)
    BY <2>2, FS_Subset, FS_CardinalityType
  <2>4. Cardinality(Others(Members)) = Cardinality(Members) - Cardinality(Members \cap touched)
    BY <2>2, FS_Difference DEF Others
  <2> QED BY <2>1, <2>2, <2>3, <2>4
<1> QED BY JobsInvInit, JobsInvStep, <1>1, PTL DEF JobsSpec
=============================================================================
