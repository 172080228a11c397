--------------------------- MODULE DnsApplyProofs ---------------------------
(***************************************************************************)
(* For any zones, names, values, ip-map and foreign edits: DnsApply keeps  *)
(* its types, an apply changes a zone only while the backup on disk is     *)
(* that zone's present content, it removes only records the operator saw   *)
(* in the plan, gives no CNAME company and calls applied only what the     *)
(* verifier certifies, and a rollback empties no replaced rrset and puts   *)
(* it back as the backup has it.                                           *)
(***************************************************************************)
EXTENDS DnsApply, FiniteSetTheorems, TLAPS

-----------------------------------------------------------------------------
(* The operators of the plan                                               *)

\* What the plan decides for an rrset is an op.
LEMMA DecisionType ==
    ASSUME NEW a \in Actions, NEW p \in SUBSET (Values \X Values), NEW d \in SUBSET Values
    PROVE  Decision(a, p, d) \in Ops
BY DEF Decision, Ops

\* The values an rrset has in a zone are values.
LEMMA ValuesOfType ==
    ASSUME NEW recs, NEW k PROVE ValuesOf(recs, k) \in SUBSET Values
BY DEF ValuesOf

\* Translating addresses pairs each source value with a value of the new host.
LEMMA TranslateType ==
    ASSUME NEW k, NEW vals \in SUBSET Values
    PROVE  translateRecords(k, vals) \in SUBSET (Values \X Values)
<1>1. \A v \in vals : v \in Values /\ Translate(v) \in Values
  BY DnsPlanAssumption DEF Translate, Mapped
<1> QED BY <1>1 DEF translateRecords

\* Whatever the two zones hold, the plan has an op for every rrset.
LEMMA ClassifyType ==
    ASSUME NEW k \in Keys, NEW src, NEW dst PROVE classify(k, src, dst) \in Ops
<1> DEFINE s == ValuesOf(src, k)
           d == ValuesOf(dst, k)
           p == translateRecords(k, s)
<1>1. d \in SUBSET Values /\ p \in SUBSET (Values \X Values)
  BY ValuesOfType, TranslateType
<1>2. \A a \in Actions : Decision(a, {}, d) \in Ops /\ Decision(a, p, d) \in Ops
  BY <1>1, DecisionType
<1>3. Decision("none", {}, {}) \in Ops
  BY DecisionType DEF Actions
<1> HIDE DEF s, d, p
<1>4. \/ classify(k, src, dst) = Decision("none", {}, {})
      \/ \E a \in Actions : classify(k, src, dst) = Decision(a, {}, d)
      \/ \E a \in Actions : classify(k, src, dst) = Decision(a, p, d)
  BY DEF classify, Actions, s, d, p
<1> QED BY <1>2, <1>3, <1>4

\* The plan of a zone gives each of its rrsets an op (BuildZonePlan).
LEMMA PlanType ==
    ASSUME NEW src, NEW dst PROVE BuildZonePlan(src, dst) \in [Keys -> Ops]
BY ClassifyType DEF BuildZonePlan

\* Only an rrset with an add or a replace is written.
LEMMA ActiveIsWritable ==
    ASSUME NEW z \in Zones, plan \in [Zones -> [Keys -> Ops]], activeWrites(z) # {}
    PROVE  z \in writableZones
<1> PICK k \in Keys : Classified(z, k) = "pending"
  BY DEF activeWrites
<1>1. plan[z][k] \in Ops
  OBVIOUS
<1>2. plan[z][k].action \in {"none", "add", "replace", "manual", "skip"}
  BY <1>1 DEF Ops, Actions
<1>3. plan[z][k].action \in {"add", "replace"}
  BY <1>2 DEF Classified
<1> QED BY <1>3 DEF writableZones, Writable

-----------------------------------------------------------------------------
(* Type correctness                                                        *)

\* Re-checking an op against the live zone gives it one of the result statuses.
LEMMA ClassifiedType ==
    ASSUME NEW z \in Zones, NEW k \in Keys PROVE Classified(z, k) \in Statuses
<1>1. dnsReplacePrecondition(plan[z][k], ValuesOf(live[z], k)) \in Statuses
  BY DEF dnsReplacePrecondition, Statuses
<1> QED BY <1>1 DEF Classified, Statuses

\* Recording the outcome of a zone keeps the results well formed.
LEMMA SettledType ==
    ASSUME status \in Results, NEW z \in Zones, NEW s \in Statuses
    PROVE  Settled(z, s) \in Results
BY ClassifiedType DEF Settled, Results

\* A failed readback keeps the results well formed.
LEMMA UnverifiedType ==
    ASSUME status \in Results, NEW z \in Zones PROVE Unverified(z) \in Results
<1>1. \A k \in Keys : status[z][k] \in Statuses /\ "failed" \in Statuses
  BY DEF Results, Statuses
<1> QED BY <1>1 DEF Unverified, Results

\* Recording the outcome of a rollback keeps the results well formed.
LEMMA RollbackSettledType ==
    ASSUME status \in Results, NEW z \in Zones, NEW s \in Statuses
    PROVE  RollbackSettled(z, s) \in Results
<1>1. \A k \in Keys : RollbackResult(z, k) \in Statuses
  BY DEF RollbackResult, Statuses
<1> QED BY <1>1 DEF RollbackSettled, Results

\* A mass edit leaves a zone of records, with a serial.
LEMMA MassEditType ==
    ASSUME zone \in [Zones -> SUBSET Records], serial \in [Zones -> Nat],
           NEW z \in Zones, NEW gone, NEW new \in SUBSET Records, MassEdit(z, gone, new)
    PROVE  zone' \in [Zones -> SUBSET Records] /\ serial' \in [Zones -> Nat]
BY DEF MassEdit

\* What an apply or a rollback adds are records.
LEMMA RRsetType ==
    ASSUME NEW k \in Keys, NEW vals \in SUBSET Values PROVE RRset(k, vals) \in SUBSET Records
BY DEF RRset, Records

\* What an apply adds to a zone are records.
LEMMA AdditionsType ==
    ASSUME plan \in [Zones -> [Keys -> Ops]], NEW z \in Zones
    PROVE  Additions(z) \in SUBSET Records
<1>1. ASSUME NEW k \in Keys PROVE Desired(plan[z][k]) \in SUBSET Values
  <2>1. plan[z][k].records \in SUBSET (Values \X Values)
    BY DEF Ops
  <2> QED BY <2>1 DEF Desired
<1>2. \A k \in activeWrites(z) : RRset(k, Desired(plan[z][k])) \in SUBSET Records
  BY <1>1, RRsetType DEF activeWrites
<1> QED BY <1>2 DEF Additions

\* What a rollback puts back in a zone are records.
LEMMA RestoredType ==
    ASSUME NEW z \in Zones PROVE Restored(z) \in SUBSET Records
<1>1. \A k \in Reversed(z) : RRset(k, dnsBackupRecordsForOp(z, k)) \in SUBSET Records
  BY RRsetType, ValuesOfType DEF Reversed, dnsBackupRecordsForOp
<1> QED BY <1>1 DEF Restored

\* Every action keeps the kinds of the zones, the files and the run.
LEMMA TypePreserved == TypeOK /\ [Next]_vars => TypeOK'
<1> SUFFICES ASSUME TypeOK, [Next]_vars PROVE TypeOK'
  OBVIOUS
<1> USE DnsApplyAssumption
<1>1. NoResults \in Results
  BY DEF NoResults, Results, Statuses
<1>2. CASE UNCHANGED vars
  BY <1>2 DEF TypeOK, vars, writableZones
<1>3. ASSUME NEW z \in Zones, NEW r \in Records, Edit(z, r) PROVE TypeOK'
  <2> DEFINE new == IF r \in zone[z] THEN zone[z] \ {r} ELSE zone[z] \cup {r}
  <2>1. new \in SUBSET Records
    BY DEF TypeOK
  <2>2. zone' = [zone EXCEPT ![z] = new] /\ serial' = [serial EXCEPT ![z] = serial[z] + 1]
    BY <1>3 DEF Edit
  <2> HIDE DEF new
  <2>3. zone' \in [Zones -> SUBSET Records] /\ serial' \in [Zones -> Nat]
    BY <2>1, <2>2 DEF TypeOK
  <2> QED BY <1>3, <2>3 DEF Edit, TypeOK, netVars, fileVars, runVars, writableZones, Steps
<1>4. CASE BuildDNSPlan
  <2>1. plan' \in [Zones -> [Keys -> Ops]]
    BY <1>4, PlanType, DecisionType DEF BuildDNSPlan, NoPlan, Actions
  <2>2. edited' \in SUBSET Zones /\ current' \in BOOLEAN /\ pc = "idle" /\ runs < MaxRuns /\ runs' = runs + 1
    BY <1>4 DEF BuildDNSPlan
  <2>3. UNCHANGED <<zone, serial, source, backup, report, pc, todo, live, guard, status, edits>>
    BY <1>4 DEF BuildDNSPlan, netVars, runVars
  <2> QED BY <2>1, <2>2, <2>3 DEF TypeOK, Steps
<1>5. CASE StartApply
  BY <1>5, <1>1 DEF StartApply, TypeOK, netVars, fileVars, runVars, writableZones, Steps
<1>6. CASE StartRollback
  <2>1. rollbackZones \in SUBSET Zones
    BY DEF rollbackZones
  <2> QED BY <1>6, <1>1, <2>1 DEF StartRollback, TypeOK, netVars, fileVars, runVars, writableZones, Steps
<1>7. ASSUME NEW z \in Zones, FetchZone(z) PROVE TypeOK'
  BY <1>7 DEF FetchZone, Fetched, TypeOK, netVars, fileVars, runVars, writableZones, Steps
<1>8. ASSUME NEW z \in Zones, RollbackFetch(z) PROVE TypeOK'
  BY <1>8 DEF RollbackFetch, Fetched, TypeOK, netVars, fileVars, runVars, writableZones, Steps
<1>9. ASSUME NEW z \in Zones, FetchFails(z) PROVE TypeOK'
  BY <1>9 DEF FetchFails, TypeOK, netVars, fileVars, runVars, writableZones, Steps
<1>10. ASSUME NEW z \in Zones, NothingToWrite(z) PROVE TypeOK'
  <2>1. status' \in Results
    BY <1>10, SettledType DEF NothingToWrite, TypeOK, Statuses
  <2> QED BY <1>10, <2>1 DEF NothingToWrite, Advance, TypeOK, netVars, fileVars, runVars, writableZones, Steps
<1>11. ASSUME NEW z \in Zones, StaleSerial(z) PROVE TypeOK'
  <2>1. status' \in Results
    BY <1>11, SettledType DEF StaleSerial, TypeOK, Statuses
  <2> QED BY <1>11, <2>1 DEF StaleSerial, Advance, TypeOK, netVars, fileVars, runVars, writableZones, Steps
<1>12. ASSUME NEW z \in Zones, WriteZone(z) PROVE TypeOK'
  <2>1. status' \in Results
    BY <1>12, SettledType DEF WriteZone, TypeOK, Statuses
  <2>2. zone' \in [Zones -> SUBSET Records] /\ serial' \in [Zones -> Nat]
    BY <1>12, MassEditType, AdditionsType DEF WriteZone, TypeOK
  <2> QED BY <1>12, <2>1, <2>2 DEF WriteZone, TypeOK, netVars, fileVars, runVars, writableZones, Steps
<1>13. ASSUME NEW z \in Zones, WriteFails(z) PROVE TypeOK'
  <2>1. status' \in Results
    BY <1>13, SettledType DEF WriteFails, TypeOK, Statuses
  <2>2. zone' \in [Zones -> SUBSET Records] /\ serial' \in [Zones -> Nat]
    BY <1>13, MassEditType, AdditionsType DEF WriteFails, TypeOK, netVars
  <2> QED BY <1>13, <2>1, <2>2 DEF WriteFails, Advance, TypeOK, netVars, fileVars, runVars, writableZones, Steps
<1>14. ASSUME NEW z \in Zones, VerifyZone(z) PROVE TypeOK'
  <2>1. status' \in Results
    BY <1>14 DEF VerifyZone, TypeOK, Results, Statuses
  <2> QED BY <1>14, <2>1 DEF VerifyZone, Advance, TypeOK, netVars, fileVars, runVars, writableZones, Steps
<1>15. ASSUME NEW z \in Zones, VerifyFetchFails(z) PROVE TypeOK'
  <2>1. status' \in Results
    BY <1>15, UnverifiedType DEF VerifyFetchFails, TypeOK
  <2> QED BY <1>15, <2>1 DEF VerifyFetchFails, Advance, TypeOK, netVars, fileVars, runVars, writableZones, Steps
<1>16. ASSUME NEW z \in Zones, RollbackFetchFails(z) PROVE TypeOK'
  <2>1. status' \in Results
    BY <1>16 DEF RollbackFetchFails, TypeOK, Results, Statuses
  <2> QED BY <1>16, <2>1 DEF RollbackFetchFails, RollbackAdvance, TypeOK, netVars, fileVars, runVars, writableZones, Steps
<1>17. ASSUME NEW z \in Zones, NothingToReverse(z) PROVE TypeOK'
  <2>1. status' \in Results
    BY <1>17, RollbackSettledType DEF NothingToReverse, TypeOK, Statuses
  <2> QED BY <1>17, <2>1 DEF NothingToReverse, RollbackAdvance, TypeOK, netVars, fileVars, runVars, writableZones, Steps
<1>18. ASSUME NEW z \in Zones, ReverseRefused(z) PROVE TypeOK'
  <2>1. status' \in Results
    BY <1>18, RollbackSettledType DEF ReverseRefused, TypeOK, Statuses
  <2> QED BY <1>18, <2>1 DEF ReverseRefused, RollbackAdvance, TypeOK, netVars, fileVars, runVars, writableZones, Steps
<1>19. ASSUME NEW z \in Zones, ReverseZone(z) PROVE TypeOK'
  <2>1. status' \in Results
    BY <1>19, RollbackSettledType DEF ReverseZone, TypeOK, Statuses
  <2>2. zone' \in [Zones -> SUBSET Records] /\ serial' \in [Zones -> Nat]
    BY <1>19, MassEditType, RestoredType DEF ReverseZone, TypeOK, netVars
  <2> QED BY <1>19, <2>1, <2>2 DEF ReverseZone, RollbackAdvance, TypeOK, netVars, fileVars, runVars, writableZones, Steps
<1>20. ASSUME NEW z \in Zones, ReverseFails(z) PROVE TypeOK'
  <2>1. status' \in Results
    BY <1>20, RollbackSettledType DEF ReverseFails, TypeOK, Statuses
  <2>2. zone' \in [Zones -> SUBSET Records] /\ serial' \in [Zones -> Nat]
    BY <1>20, MassEditType, RestoredType DEF ReverseFails, TypeOK, netVars
  <2> QED BY <1>20, <2>1, <2>2 DEF ReverseFails, RollbackAdvance, TypeOK, netVars, fileVars, runVars, writableZones, Steps
<1>21. ASSUME NEW z \in Zones, VerifyReversed(z) PROVE TypeOK'
  <2>1. status' \in Results
    BY <1>21 DEF VerifyReversed, TypeOK, Results, Statuses
  <2> QED BY <1>21, <2>1 DEF VerifyReversed, RollbackAdvance, TypeOK, netVars, fileVars, runVars, writableZones, Steps
<1>22. ASSUME NEW z \in Zones, VerifyReversedFails(z) PROVE TypeOK'
  <2>1. status' \in Results
    BY <1>22, UnverifiedType DEF VerifyReversedFails, TypeOK
  <2> QED BY <1>22, <2>1 DEF VerifyReversedFails, RollbackAdvance, TypeOK, netVars, fileVars, runVars, writableZones, Steps
<1>23. CASE WriteBackup
  <2>1. backup' \in [Zones -> SUBSET Records]
    BY <1>23 DEF WriteBackup, BackupFile, TypeOK
  <2> QED BY <1>23, <2>1 DEF WriteBackup, TypeOK, netVars, fileVars, runVars, writableZones, Steps
<1>24. CASE BackupFails
  BY <1>24 DEF BackupFails, TypeOK, netVars, fileVars, runVars, writableZones, Steps
<1>25. CASE finishDNSReport
  <2>1. report' \in Reports
    BY <1>25 DEF finishDNSReport, TypeOK, Reports
  <2> QED BY <1>25, <2>1 DEF finishDNSReport, TypeOK, netVars, fileVars, runVars, writableZones, Steps
<1>26. CASE ReportFails
  BY <1>26 DEF ReportFails, TypeOK, netVars, fileVars, runVars, writableZones, Steps
<1>27. CASE Crash
  BY <1>27 DEF Crash, TypeOK, netVars, fileVars, runVars, writableZones, Steps
<1>e. (\E f \in ForeignRecs : Edit(f[1], f[2])) => \E z \in Zones, r \in Records : Edit(z, r)
  <2>1. \A f \in ForeignRecs : f[1] \in Zones /\ f[2] \in Records
    OBVIOUS
  <2> QED BY <2>1
<1> QED
  BY <1>e, <1>2, <1>3, <1>4, <1>5, <1>6, <1>7, <1>8, <1>9, <1>10, <1>11, <1>12, <1>13, <1>14, <1>15, <1>16, <1>17, <1>18, <1>19, <1>20, <1>21, <1>22, <1>23, <1>24, <1>25, <1>26, <1>27
     DEF Next, ApplyStep, RollbackStep

\* The zones, the files and the run keep their kinds, no run writes without a
\* backup on disk, and no rollback runs without a backup and a report.
THEOREM DnsTypeCorrect == Spec => []TypeOK
<1>1. Init => TypeOK
  <2> SUFFICES ASSUME Init PROVE TypeOK
    OBVIOUS
  <2>1. NoPlan \in [Zones -> [Keys -> Ops]]
    BY DecisionType DEF NoPlan, Actions
  <2>2. NoResults \in Results
    BY DEF NoResults, Results, Statuses
  <2>3. zone \in [Zones -> SUBSET Records] /\ source \in [Zones -> SUBSET Records]
    BY DnsApplyAssumption DEF Init
  <2>4. live \in [Zones -> SUBSET Records] /\ serial \in [Zones -> Nat] /\ guard \in [Zones -> Nat]
    BY DEF Init
  <2>5. edited \in SUBSET Zones /\ current \in BOOLEAN
    BY DEF Init
  <2> QED BY <2>1, <2>2, <2>3, <2>4, <2>5, DnsApplyAssumption DEF Init, TypeOK, Steps
<1> QED BY <1>1, TypePreserved, PTL DEF Spec

-----------------------------------------------------------------------------
(* Backup-or-nothing                                                       *)

\* What the run has fetched of a zone is older than the zone, or the zone.
Snapshot(z) ==
    /\ guard[z] <= serial[z]
    /\ guard[z] = serial[z] => live[z] = zone[z]

\* The strengthening: the zones fetched so far are snapshots, and after the
\* backup is written it holds them.
Held ==
    /\ pc = "fetch" => \A z \in writableZones \ todo : Snapshot(z)
    /\ pc \in {"backup", "write", "verify"} => \A z \in writableZones : Snapshot(z)
    /\ pc \in {"write", "verify"} => \A z \in writableZones : backup # Missing /\ backup[z] = live[z]

\* A foreign edit and a mass edit both make a snapshot older.
LEMMA SnapshotStable ==
    ASSUME TypeOK, NEW z \in Zones, NEW y \in Zones, NEW new, Snapshot(y),
           zone' = [zone EXCEPT ![z] = new], serial' = [serial EXCEPT ![z] = serial[z] + 1],
           live' = live, guard' = guard
    PROVE  Snapshot(y)'
<1>1. serial[z] \in Nat /\ guard[z] \in Nat /\ serial[y] \in Nat /\ guard[y] \in Nat
  BY DEF TypeOK
<1>2. CASE y = z
  BY <1>1, <1>2 DEF Snapshot, TypeOK
<1>3. CASE y # z
  BY <1>1, <1>3 DEF Snapshot, TypeOK
<1> QED BY <1>2, <1>3

\* The mass edit of one zone makes no stale snapshot of another look fresh.
LEMMA MassEditSnapshot ==
    ASSUME TypeOK, NEW z \in Zones, NEW y \in Zones, NEW gone, NEW new, Snapshot(y),
           MassEdit(z, gone, new), live' = live, guard' = guard
    PROVE  Snapshot(y)'
BY SnapshotStable DEF MassEdit

\* A step that leaves the zones and what was fetched alone keeps snapshots.
LEMMA SnapshotUnchanged ==
    ASSUME NEW y, Snapshot(y), UNCHANGED <<zone, serial, live, guard>> PROVE Snapshot(y)'
BY DEF Snapshot

\* Every action keeps what the run holds about the zones: its snapshots and its backup.
LEMMA HeldPreserved == TypeOK /\ Held /\ [Next]_vars => Held'
<1> SUFFICES ASSUME TypeOK, Held, [Next]_vars PROVE Held'
  OBVIOUS
<1>0. writableZones \subseteq Zones
  BY DEF writableZones
<1>p. plan' = plan => writableZones' = writableZones
  BY DEF writableZones
<1>1. CASE UNCHANGED vars
  BY <1>1, <1>p, SnapshotUnchanged DEF Held, vars
<1>2. ASSUME NEW f \in ForeignRecs, Edit(f[1], f[2]) PROVE Held'
  <2>1. f[1] \in Zones
    BY DnsApplyAssumption
  <2>2. \A y \in writableZones : Snapshot(y) => Snapshot(y)'
    BY <1>0, <1>2, <2>1, SnapshotStable DEF Edit, runVars
  <2> QED BY <1>2, <1>p, <2>2 DEF Edit, Held, runVars, fileVars
<1>3. ASSUME NEW z \in Zones, FetchZone(z) PROVE Held'
  <2>1. Snapshot(z)'
    BY <1>3 DEF FetchZone, Fetched, Snapshot, netVars, TypeOK
  <2>2. \A y \in writableZones \ {z} : Snapshot(y) => Snapshot(y)'
    BY <1>0, <1>3 DEF FetchZone, Fetched, Snapshot, netVars, TypeOK
  <2>3. \A y \in writableZones \ todo' : Snapshot(y)'
    BY <1>3, <2>1, <2>2 DEF FetchZone, Held
  <2> QED BY <1>3, <1>p, <2>3 DEF FetchZone, Held, fileVars
<1>4. CASE WriteBackup
  <2>1. \A y \in writableZones : Snapshot(y)'
    BY <1>4, SnapshotUnchanged DEF WriteBackup, Held, netVars
  <2>2. backup' \in [Zones -> SUBSET Records] /\ \A y \in writableZones : backup'[y] = live[y]
    BY <1>0, <1>4 DEF WriteBackup, BackupFile, TypeOK
  <2> QED BY <1>4, <1>p, <2>1, <2>2, DnsApplyAssumption DEF WriteBackup, Held
<1>5. ASSUME NEW z \in Zones, WriteZone(z) \/ WriteFails(z) PROVE Held'
  <2>1. live' = live /\ guard' = guard /\ plan' = plan /\ backup' = backup
    BY <1>5 DEF WriteZone, WriteFails, fileVars
  <2>2. \A y \in writableZones : Snapshot(y)'
    BY <1>0, <1>5, <2>1, MassEditSnapshot, SnapshotUnchanged DEF WriteZone, WriteFails, Held, netVars
  <2> QED BY <1>5, <1>p, <2>1, <2>2 DEF WriteZone, WriteFails, Advance, Held
<1>6. ASSUME NEW z \in Zones,
             \/ NothingToWrite(z) \/ StaleSerial(z) \/ VerifyZone(z) \/ VerifyFetchFails(z)
      PROVE  Held'
  <2>1. /\ pc \in {"write", "verify"} /\ pc' \in {"write", "report"}
        /\ UNCHANGED <<zone, serial, live, guard, plan, backup>>
    BY <1>6 DEF NothingToWrite, StaleSerial, VerifyZone, VerifyFetchFails, Advance, netVars, fileVars
  <2>2. \A y \in writableZones : Snapshot(y)'
    BY <2>1, SnapshotUnchanged DEF Held
  <2> QED BY <1>p, <2>1, <2>2 DEF Held
<1>7. CASE StartApply
  <2>1. \/ pc' = "fetch" /\ todo' = writableZones
        \/ pc' = "write" /\ writableZones = {}
    BY <1>7 DEF StartApply
  <2>2. plan' = plan
    BY <1>7 DEF StartApply, fileVars
  <2> QED BY <1>p, <2>1, <2>2 DEF Held
<1>8. ASSUME pc' \in {"idle", "report", "rfetch", "rwrite", "rverify"} PROVE Held'
  BY <1>8 DEF Held
<1>9. CASE BuildDNSPlan \/ StartRollback \/ BackupFails \/ finishDNSReport \/ ReportFails \/ Crash
  BY <1>8, <1>9 DEF BuildDNSPlan, StartRollback, BackupFails, finishDNSReport, ReportFails, Crash, runVars
<1>10. ASSUME NEW z \in Zones, FetchFails(z) \/ RollbackStep(z) PROVE Held'
  BY <1>8, <1>10 DEF FetchFails, RollbackStep, RollbackFetch, RollbackFetchFails, NothingToReverse,
     ReverseZone, ReverseRefused, ReverseFails, VerifyReversed, VerifyReversedFails, RollbackAdvance
<1> QED
  BY <1>1, <1>2, <1>3, <1>4, <1>5, <1>6, <1>7, <1>9, <1>10 DEF Next, ApplyStep

\* The zones change, other than by a foreign edit, only in these two actions.
LEMMA OnlyWritesChange ==
    ASSUME TypeOK, Next, pc = "write", edits' = edits, NEW y \in Zones, Changed(y)
    PROVE  activeWrites(y) # {} /\ SerialMatches(y) /\ Gone(y) \subseteq Removals(y)
<1>1. \A f \in ForeignRecs : ~Edit(f[1], f[2])
  BY DEF Edit, TypeOK
<1>2. PICK z \in Zones : WriteZone(z) \/ WriteFails(z)
  BY <1>1 DEF Next, ApplyStep, RollbackStep, Changed, netVars, BuildDNSPlan, StartApply, StartRollback,
     FetchZone, FetchFails, NothingToWrite, StaleSerial, VerifyZone, VerifyFetchFails,
     RollbackFetch, RollbackFetchFails, NothingToReverse, ReverseZone, ReverseRefused, ReverseFails,
     VerifyReversed, VerifyReversedFails, WriteBackup, BackupFails, finishDNSReport, ReportFails, Crash
<1>3. activeWrites(z) # {} /\ SerialMatches(z) /\ MassEdit(z, Removals(z), Additions(z))
  BY <1>2 DEF WriteZone, WriteFails, netVars, Changed
<1>4. y = z
  BY <1>3 DEF MassEdit, Changed, TypeOK
<1>5. zone'[y] = (zone[y] \ Removals(y)) \cup Additions(y)
  BY <1>3, <1>4 DEF MassEdit, TypeOK
<1> QED BY <1>3, <1>4, <1>5 DEF Gone

\* Whenever an apply changes a zone, the backup on disk holds exactly the
\* records of that zone, whatever happened to it since the plan and the fetch.
THEOREM BackupBeforeWrite == Spec => BackupIsPreImage
<1> DEFINE Step == \A z \in Zones : Applying /\ Changed(z) /\ edits' = edits
                       => backup # Missing /\ backup[z] = zone[z]
<1>1. Init => Held
  BY DEF Init, Held
<1>2. TypeOK /\ Held /\ [Next]_vars => [Step]_vars
  <2> SUFFICES ASSUME TypeOK, Held, Next, NEW y \in Zones, Applying, Changed(y), edits' = edits
               PROVE  backup # Missing /\ backup[y] = zone[y]
    BY DEF Step
  <2>1. activeWrites(y) # {} /\ SerialMatches(y) /\ pc = "write"
    BY OnlyWritesChange DEF Applying
  <2>2. y \in writableZones
    BY <2>1, ActiveIsWritable DEF TypeOK
  <2>3. Snapshot(y) /\ backup # Missing /\ backup[y] = live[y]
    BY <2>1, <2>2 DEF Held
  <2> QED BY <2>1, <2>3 DEF Snapshot, SerialMatches
<1>3. Spec => []TypeOK
  BY DnsTypeCorrect
<1> QED BY <1>1, <1>2, <1>3, HeldPreserved, PTL DEF Spec, BackupIsPreImage, Step

\* A replace is active only if the rrset has exactly the values of the plan:
\* as many values, and each of the plan's among them, leave no other.
LEMMA ReplaceSeesPlanValues ==
    ASSUME IsFiniteSet(Values), NEW op, NEW vals \in SUBSET Values,
           dnsReplacePrecondition(op, vals) = "pending"
    PROVE  vals = op.dest
<1>1. Cardinality(vals) = Cardinality(op.dest) /\ op.dest \subseteq vals
  BY DEF dnsReplacePrecondition
<1>2. IsFiniteSet(vals)
  BY FS_Subset
<1> QED BY <1>1, <1>2, FS_Subset

\* A record that an apply removes belongs to a replace of the plan, whose
\* rrset was fetched with the values of the plan.
LEMMA RemovalsAreReviewed ==
    ASSUME IsFiniteSet(Values), TypeOK, NEW z \in Zones, NEW r \in Removals(z)
    PROVE  plan[z][r.key].action = "replace" /\ ValuesOf(live[z], r.key) = plan[z][r.key].dest
<1>1. PICK k \in activeWrites(z) : plan[z][k].action = "replace" /\ r \in RRset(k, plan[z][k].dest)
  BY DEF Removals
<1>2. r.key = k
  BY <1>1 DEF RRset
<1>3. dnsReplacePrecondition(plan[z][k], ValuesOf(live[z], k)) = "pending"
  BY <1>1 DEF activeWrites, Classified
<1>4. ValuesOf(live[z], k) = plan[z][k].dest
  BY <1>3, ReplaceSeesPlanValues, ValuesOfType
<1> QED BY <1>1, <1>2, <1>4

\* Whatever others do to the zones, an apply removes a record only as part of
\* a replace whose rrset holds, at that moment, the values the operator saw.
THEOREM RemovalsReviewed == ASSUME IsFiniteSet(Values) PROVE Spec => OnlyReviewedRemoved
<1> DEFINE Step == \A z \in Zones : Applying /\ edits' = edits =>
                       \A r \in Gone(z) :
                           /\ plan[z][r.key].action = "replace"
                           /\ ValuesOf(zone[z], r.key) = plan[z][r.key].dest
<1>1. Init => Held
  BY DEF Init, Held
<1>2. TypeOK /\ Held /\ [Next]_vars => [Step]_vars
  <2> SUFFICES ASSUME TypeOK, Held, Next, NEW z \in Zones, Applying, edits' = edits, NEW r \in Gone(z)
               PROVE  /\ plan[z][r.key].action = "replace"
                      /\ ValuesOf(zone[z], r.key) = plan[z][r.key].dest
    BY DEF Step
  <2>1. Changed(z)
    BY DEF Gone, Changed
  <2>2. activeWrites(z) # {} /\ SerialMatches(z) /\ r \in Removals(z) /\ pc = "write"
    BY <2>1, OnlyWritesChange DEF Applying
  <2>3. z \in writableZones
    BY <2>2, ActiveIsWritable DEF TypeOK
  <2>4. live[z] = zone[z]
    BY <2>2, <2>3 DEF Held, Snapshot, SerialMatches
  <2> QED BY <2>2, <2>4, RemovalsAreReviewed
<1>3. Spec => []TypeOK
  BY DnsTypeCorrect
<1> QED BY <1>1, <1>2, <1>3, HeldPreserved, PTL DEF Spec, OnlyReviewedRemoved, Step

-----------------------------------------------------------------------------
(* What a write does to the rrsets                                         *)

\* The values of an rrset after some records went and others came.
LEMMA ValuesOfEdit ==
    ASSUME NEW recs, NEW gone, NEW new, NEW k
    PROVE  ValuesOf((recs \ gone) \cup new, k) = (ValuesOf(recs, k) \ ValuesOf(gone, k)) \cup ValuesOf(new, k)
BY DEF ValuesOf

\* A record is in an rrset if it has its key and one of its values.
LEMMA InRRset ==
    ASSUME NEW j, NEW k, NEW vals, NEW v
    PROVE  [key |-> k, val |-> v] \in RRset(j, vals) <=> j = k /\ v \in vals
<1>1. \A w : [key |-> k, val |-> v] = [key |-> j, val |-> w] <=> j = k /\ v = w
  OBVIOUS
<1> QED BY <1>1 DEF RRset

\* An apply adds to an rrset what the plan wants there, if the op is active.
LEMMA AdditionValues ==
    ASSUME plan \in [Zones -> [Keys -> Ops]], NEW z \in Zones, NEW k \in Keys
    PROVE  ValuesOf(Additions(z), k) = IF k \in activeWrites(z) THEN Desired(plan[z][k]) ELSE {}
<1>1. Desired(plan[z][k]) \in SUBSET Values
  <2>1. plan[z][k].records \in SUBSET (Values \X Values)
    BY DEF Ops
  <2> QED BY <2>1 DEF Desired
<1>2. \A v : [key |-> k, val |-> v] \in Additions(z)
               <=> k \in activeWrites(z) /\ v \in Desired(plan[z][k])
  BY InRRset DEF Additions
<1> QED BY <1>1, <1>2 DEF ValuesOf

\* It removes from an rrset the old values, if it replaces it.
LEMMA RemovalValues ==
    ASSUME plan \in [Zones -> [Keys -> Ops]], NEW z \in Zones, NEW k \in Keys
    PROVE  ValuesOf(Removals(z), k) =
               IF k \in activeWrites(z) /\ plan[z][k].action = "replace" THEN plan[z][k].dest ELSE {}
<1>1. plan[z][k].dest \in SUBSET Values
  BY DEF Ops
<1>2. \A v : [key |-> k, val |-> v] \in Removals(z)
               <=> k \in activeWrites(z) /\ plan[z][k].action = "replace" /\ v \in plan[z][k].dest
  BY InRRset DEF Removals
<1> QED BY <1>1, <1>2 DEF ValuesOf

\* A rollback removes from an rrset the values of the op that it finds.
LEMMA UndoneValues ==
    ASSUME NEW z \in Zones, NEW k \in Keys
    PROVE  ValuesOf(Undone(z), k) = IF k \in Reversed(z) THEN FoundLines(z, k) ELSE {}
<1>1. FoundLines(z, k) \in SUBSET Values
  BY ValuesOfType DEF FoundLines
<1>2. \A v : [key |-> k, val |-> v] \in Undone(z) <=> k \in Reversed(z) /\ v \in FoundLines(z, k)
  BY InRRset DEF Undone
<1> QED BY <1>1, <1>2 DEF ValuesOf

\* It puts back in an rrset what the backup has of it, if it undoes a replace.
LEMMA RestoredValues ==
    ASSUME NEW z \in Zones, NEW k \in Keys
    PROVE  ValuesOf(Restored(z), k) =
               IF k \in Reversed(z) /\ IsReplace(z, k) THEN dnsBackupRecordsForOp(z, k) ELSE {}
<1>1. dnsBackupRecordsForOp(z, k) \in SUBSET Values
  BY ValuesOfType DEF dnsBackupRecordsForOp
<1>2. \A v : [key |-> k, val |-> v] \in Restored(z)
               <=> k \in Reversed(z) /\ IsReplace(z, k) /\ v \in dnsBackupRecordsForOp(z, k)
  BY InRRset DEF Restored
<1> QED BY <1>1, <1>2 DEF ValuesOf

\* The two writes of the tool, whether or not the caller hears of them.
Applies(z) ==
    /\ pc = "write" /\ First(z) /\ SerialMatches(z) /\ activeWrites(z) # {}
    /\ MassEdit(z, Removals(z), Additions(z))

Reverses(z) ==
    /\ pc = "rwrite" /\ First(z) /\ SerialMatches(z) /\ Reversed(z) # {}
    /\ MassEdit(z, Undone(z), Restored(z))

\* A zone changes by a foreign edit, by an apply or by a rollback; the tool's
\* writes touch neither the files nor what it has fetched.
LEMMA ZoneSteps ==
    ASSUME TypeOK, [Next]_vars
    PROVE  \/ UNCHANGED <<zone, serial>>
           \/ \E z \in Zones, r \in Records : Edit(z, r)
           \/ /\ \E z \in Zones : Applies(z) \/ Reverses(z)
              /\ UNCHANGED <<plan, backup, report, live, guard, edited, current, edits>>
<1>1. CASE UNCHANGED vars
  BY <1>1 DEF vars
<1>2. ASSUME NEW f \in ForeignRecs, Edit(f[1], f[2]) PROVE \E z \in Zones, r \in Records : Edit(z, r)
  <2>1. f[1] \in Zones /\ f[2] \in Records
    BY DnsApplyAssumption
  <2> QED BY <1>2, <2>1
<1>3. ASSUME NEW z \in Zones, WriteZone(z) \/ WriteFails(z)
      PROVE  \/ UNCHANGED <<zone, serial>>
             \/ Applies(z) /\ UNCHANGED <<plan, backup, report, live, guard, edited, current, edits>>
  BY <1>3 DEF WriteZone, WriteFails, Applies, netVars, fileVars
<1>4. ASSUME NEW z \in Zones, ReverseZone(z) \/ ReverseFails(z)
      PROVE  \/ UNCHANGED <<zone, serial>>
             \/ Reverses(z) /\ UNCHANGED <<plan, backup, report, live, guard, edited, current, edits>>
  BY <1>4 DEF ReverseZone, ReverseFails, Reverses, netVars, fileVars
<1>5. ASSUME NEW z \in Zones,
             \/ FetchZone(z) \/ FetchFails(z) \/ NothingToWrite(z) \/ StaleSerial(z)
             \/ VerifyZone(z) \/ VerifyFetchFails(z) \/ RollbackFetch(z) \/ RollbackFetchFails(z)
             \/ NothingToReverse(z) \/ ReverseRefused(z) \/ VerifyReversed(z) \/ VerifyReversedFails(z)
      PROVE  UNCHANGED <<zone, serial>>
  BY <1>5 DEF FetchZone, FetchFails, NothingToWrite, StaleSerial, VerifyZone, VerifyFetchFails,
     RollbackFetch, RollbackFetchFails, NothingToReverse, ReverseRefused, VerifyReversed,
     VerifyReversedFails, netVars
<1>6. CASE BuildDNSPlan \/ StartApply \/ StartRollback \/ WriteBackup \/ BackupFails
           \/ finishDNSReport \/ ReportFails \/ Crash
  BY <1>6 DEF BuildDNSPlan, StartApply, StartRollback, WriteBackup, BackupFails, finishDNSReport,
     ReportFails, Crash, netVars
<1> QED BY <1>1, <1>2, <1>3, <1>4, <1>5, <1>6 DEF Next, ApplyStep, RollbackStep

\* What an apply leaves in the rrsets of the zones.
LEMMA AppliedValues ==
    ASSUME TypeOK, NEW z \in Zones, Applies(z), NEW y \in Zones, NEW k \in Keys
    PROVE  ValuesOf(zone'[y], k) =
               IF y = z /\ k \in activeWrites(z)
               THEN (ValuesOf(zone[y], k) \ (IF plan[z][k].action = "replace" THEN plan[z][k].dest ELSE {}))
                        \cup Desired(plan[z][k])
               ELSE ValuesOf(zone[y], k)
<1>1. CASE y # z
  <2>1. zone'[y] = zone[y]
    BY <1>1 DEF Applies, MassEdit, TypeOK
  <2> QED BY <1>1, <2>1
<1>2. CASE y = z
  <2>1. zone'[y] = (zone[y] \ Removals(z)) \cup Additions(z)
    BY <1>2 DEF Applies, MassEdit, TypeOK
  <2>2. ValuesOf(zone'[y], k) = (ValuesOf(zone[y], k) \ ValuesOf(Removals(z), k)) \cup ValuesOf(Additions(z), k)
    BY <2>1, ValuesOfEdit
  <2> QED BY <1>2, <2>2, AdditionValues, RemovalValues DEF TypeOK
<1> QED BY <1>1, <1>2

\* And what a rollback leaves.
LEMMA ReversedValues ==
    ASSUME TypeOK, NEW z \in Zones, Reverses(z), NEW y \in Zones, NEW k \in Keys
    PROVE  ValuesOf(zone'[y], k) =
               IF y = z /\ k \in Reversed(z)
               THEN (ValuesOf(zone[y], k) \ FoundLines(z, k))
                        \cup (IF IsReplace(z, k) THEN dnsBackupRecordsForOp(z, k) ELSE {})
               ELSE ValuesOf(zone[y], k)
<1>1. CASE y # z
  <2>1. zone'[y] = zone[y]
    BY <1>1 DEF Reverses, MassEdit, TypeOK
  <2> QED BY <1>1, <2>1
<1>2. CASE y = z
  <2>1. zone'[y] = (zone[y] \ Undone(z)) \cup Restored(z)
    BY <1>2 DEF Reverses, MassEdit, TypeOK
  <2>2. ValuesOf(zone'[y], k) = (ValuesOf(zone[y], k) \ ValuesOf(Undone(z), k)) \cup ValuesOf(Restored(z), k)
    BY <2>1, ValuesOfEdit
  <2> QED BY <1>2, <2>2, UndoneValues, RestoredValues
<1> QED BY <1>1, <1>2

-----------------------------------------------------------------------------
(* A replace never empties an rrset                                        *)

\* An op that may be written has something to write.
PlanWrites == \A z \in Zones, k \in Keys : Writable(plan[z][k]) => plan[z][k].records # {}

\* The plan makes an op to write only for an rrset of the source, and writes
\* at least one record for it.
LEMMA ClassifyWrites ==
    ASSUME NEW k \in Keys, NEW src, NEW dst, Writable(classify(k, src, dst))
    PROVE  /\ ~crossTypeConflict(k, src, dst) /\ HasRRset(src, k)
           /\ classify(k, src, dst).records # {}
<1> DEFINE s == ValuesOf(src, k)
           d == ValuesOf(dst, k)
           p == translateRecords(k, s)
<1>1. \A a, q : Writable(Decision(a, q, d)) <=> a \in {"add", "replace"}
  BY DEF Writable, Decision
<1>2. ~Writable(Decision("none", {}, {}))
  BY DEF Writable, Decision
<1>3. s # {} => p # {}
  BY DEF translateRecords
<1>4. \A a : Decision(a, p, d).records = p
  BY DEF Decision
<1> HIDE DEF s, d, p
<1>5. \/ classify(k, src, dst) = Decision("none", {}, {})
      \/ \E a \in {"skip", "manual"} : classify(k, src, dst) = Decision(a, {}, d)
      \/ /\ s # {} /\ ~crossTypeConflict(k, src, dst)
         /\ \E a \in {"add", "replace"} : classify(k, src, dst) = Decision(a, p, d)
  BY DEF classify, s, d, p
<1>6. /\ s # {} /\ ~crossTypeConflict(k, src, dst)
      /\ \E a \in {"add", "replace"} : classify(k, src, dst) = Decision(a, p, d)
  BY <1>1, <1>2, <1>5
<1> QED BY <1>3, <1>4, <1>6 DEF HasRRset, s

\* Where no plan was made there is nothing to write.
LEMMA NoPlanNothing ==
    ASSUME NEW z \in Zones, NEW k \in Keys PROVE ~Writable(NoPlan[z][k])
BY DEF NoPlan, Decision, Writable

\* The plan changes only when it is made anew.
LEMMA PlanSteps ==
    ASSUME [Next]_vars
    PROVE  \/ plan' = plan /\ edited \subseteq edited'
           \/ BuildDNSPlan
<1>1. CASE UNCHANGED vars
  BY <1>1 DEF vars
<1>2. ASSUME NEW f \in ForeignRecs, Edit(f[1], f[2]) PROVE plan' = plan /\ edited \subseteq edited'
  BY <1>2 DEF Edit, fileVars
<1>3. ASSUME NEW z \in Zones, ApplyStep(z) PROVE plan' = plan /\ edited' = edited
  BY <1>3 DEF ApplyStep, FetchZone, FetchFails, NothingToWrite, WriteZone, StaleSerial, WriteFails,
     VerifyZone, VerifyFetchFails, fileVars
<1>4. ASSUME NEW z \in Zones, RollbackStep(z) PROVE plan' = plan /\ edited' = edited
  BY <1>4 DEF RollbackStep, RollbackFetch, RollbackFetchFails, NothingToReverse, ReverseZone,
     ReverseRefused, ReverseFails, VerifyReversed, VerifyReversedFails, fileVars
<1>5. CASE StartApply \/ StartRollback \/ WriteBackup \/ BackupFails \/ finishDNSReport \/ ReportFails \/ Crash
  BY <1>5 DEF StartApply, StartRollback, WriteBackup, BackupFails, finishDNSReport, ReportFails, Crash, fileVars
<1> QED BY <1>1, <1>2, <1>3, <1>4, <1>5 DEF Next

\* Every plan that is made has something to write where it writes.
LEMMA PlanWritesPreserved == PlanWrites /\ [Next]_vars => PlanWrites'
<1> SUFFICES ASSUME PlanWrites, [Next]_vars PROVE PlanWrites'
  OBVIOUS
<1>1. CASE plan' = plan
  BY <1>1 DEF PlanWrites
<1>2. CASE BuildDNSPlan
  <2> SUFFICES ASSUME NEW z \in Zones, NEW k \in Keys, Writable(plan'[z][k])
               PROVE  plan'[z][k].records # {}
    BY DEF PlanWrites
  <2>1. plan'[z][k] = classify(k, source[z], zone[z]) \/ plan'[z][k] = NoPlan[z][k]
    BY <1>2 DEF BuildDNSPlan, BuildZonePlan
  <2> QED BY <2>1, ClassifyWrites, NoPlanNothing
<1> QED BY <1>1, <1>2, PlanSteps

\* Before the first plan there is nothing to write.
LEMMA PlanWritesInit == Init => PlanWrites
BY NoPlanNothing DEF Init, PlanWrites

\* An active op is one to write.
LEMMA ActiveOps ==
    ASSUME plan \in [Zones -> [Keys -> Ops]], NEW z \in Zones, NEW k \in activeWrites(z)
    PROVE  k \in Keys /\ Writable(plan[z][k])
<1>1. k \in Keys /\ Classified(z, k) = "pending"
  BY DEF activeWrites
<1>2. plan[z][k].action \in {"none", "add", "replace", "manual", "skip"}
  BY <1>1 DEF Ops, Actions
<1> QED BY <1>1, <1>2 DEF Classified, Writable

\* No write of the tool empties an rrset, except the rollback of an add.
LEMMA NeverEmpties ==
    ASSUME TypeOK, PlanWrites, [Next]_vars, pc \in {"write", "rwrite"}, edits' = edits,
           NEW y \in Zones, NEW k \in Keys, HasRRset(zone[y], k), ~HasRRset(zone'[y], k)
    PROVE  pc = "rwrite" /\ ~IsReplace(y, k)
<1>1. \A z \in Zones, r \in Records : ~Edit(z, r)
  BY DEF Edit, TypeOK
<1>2. zone' # zone
  OBVIOUS
<1>3. PICK z \in Zones : Applies(z) \/ Reverses(z)
  BY <1>1, <1>2, ZoneSteps
<1>4. CASE Applies(z)
  <2>1. y = z /\ k \in activeWrites(z)
    BY <1>4, AppliedValues, ZenonT(30) DEF HasRRset
  <2>3. plan[z][k].records # {}
    BY <2>1, ActiveOps DEF PlanWrites, TypeOK
  <2>2. Desired(plan[z][k]) # {}
    BY <2>3 DEF Desired
  <2> QED BY <1>4, <2>1, <2>2, AppliedValues DEF HasRRset
<1>5. CASE Reverses(z)
  <2>1. y = z /\ k \in Reversed(z)
    BY <1>5, ReversedValues, ZenonT(30) DEF HasRRset
  <2>2. IsReplace(z, k) => dnsBackupRecordsForOp(z, k) # {}
    BY <2>1 DEF Reversed, RollbackResult
  <2>3. ~IsReplace(z, k)
    BY <1>5, <2>1, <2>2, ReversedValues DEF HasRRset
  <2> QED BY <1>5, <2>1, <2>3 DEF Reverses
<1> QED BY <1>3, <1>4, <1>5

\* A replace and its reversal leave values in the rrset, whatever runs the
\* report and the backup of the rollback come from.
THEOREM ValuesToValues == Spec => ReplaceNeverEmpties
<1> DEFINE Step == \A z \in Zones : (Applying \/ Undoing) /\ edits' = edits =>
                       \A k \in Keys : HasRRset(zone[z], k) /\ ~HasRRset(zone'[z], k)
                           => Undoing /\ ~IsReplace(z, k)
<1>1. TypeOK /\ PlanWrites /\ [Next]_vars => [Step]_vars
  BY NeverEmpties DEF Step, Applying, Undoing
<1> QED BY <1>1, DnsTypeCorrect, PlanWritesInit, PlanWritesPreserved, PTL DEF Spec, ReplaceNeverEmpties, Step

-----------------------------------------------------------------------------
(* A CNAME stays alone                                                     *)

AtName(k, t) == [type |-> t, name |-> k.name]

\* In a zone that nobody has edited since the plan, an rrset to be written has
\* no CNAME beside it, and a CNAME to be written has nothing beside it: neither
\* in the zone nor in the plan.
CnameApart ==
    \A z \in Zones \ edited, k \in Keys : Writable(plan[z][k]) =>
        \A t \in Types \ {k.type} : "CNAME" \in {t, k.type} =>
            ~Writable(plan[z][AtName(k, t)]) /\ ~HasRRset(zone[z], AtName(k, t))

\* The plan leaves a name with a CNAME and company to the operator.
LEMMA ClassifyApart ==
    ASSUME NEW k \in Keys, NEW src, NEW dst, Writable(classify(k, src, dst)),
           NEW t \in Types \ {k.type}, "CNAME" \in {t, k.type}
    PROVE  ~Writable(classify(AtName(k, t), src, dst)) /\ ~HasRRset(dst, AtName(k, t))
<1>1. ~crossTypeConflict(k, src, dst) /\ HasRRset(src, k)
  BY ClassifyWrites
<1>2. k = [type |-> k.type, name |-> k.name] /\ AtName(k, t) \in Keys /\ k.type \in Types
  BY DEF Keys, AtName
<1>3. \A j : HasRRset(src \cup dst, j) <=> HasRRset(src, j) \/ HasRRset(dst, j)
  BY DEF HasRRset, ValuesOf
<1> DEFINE typesAt == {x \in Types : HasRRset(src \cup dst, [type |-> x, name |-> k.name])}
<1>4. ~("CNAME" \in typesAt /\ typesAt \ {k.type} # {})
  BY <1>1 DEF crossTypeConflict
<1>5. k.type \in typesAt
  BY <1>1, <1>2, <1>3
<1>6. "CNAME" \in Types
  BY DEF Types
<1>7. t \notin typesAt
  <2> HIDE DEF typesAt
  <2> QED BY <1>4, <1>5
<1>8. ~HasRRset(src, AtName(k, t)) /\ ~HasRRset(dst, AtName(k, t))
  BY <1>3, <1>7 DEF AtName
<1> QED BY <1>2, <1>8, ClassifyWrites

\* A rollback never gives a zone an rrset it did not have.
LEMMA ReverseAddsNoRRset ==
    ASSUME TypeOK, NEW z \in Zones, Reverses(z), Snapshot(z), NEW y \in Zones, NEW k \in Keys,
           HasRRset(zone'[y], k)
    PROVE  HasRRset(zone[y], k)
<1>1. SUFFICES ASSUME y = z, k \in Reversed(z) PROVE HasRRset(zone[y], k)
  BY ReversedValues DEF HasRRset
<1>2. live[z] = zone[z]
  BY DEF Reverses, SerialMatches, Snapshot
<1>3. FoundLines(z, k) # {}
  BY <1>1 DEF Reversed, RollbackResult
<1> QED BY <1>1, <1>2, <1>3 DEF FoundLines, HasRRset

\* The zone a rollback is about to write is as it was fetched, or newer.
Fresh == pc = "rwrite" => \A z \in Zones : First(z) => Snapshot(z)

\* A run handles one zone at a time.
LEMMA FirstUnique ==
    ASSUME todo \in SUBSET Zones, NEW y, NEW z, First(y), First(z) PROVE y = z
<1>1. y \in Nat /\ z \in Nat /\ y <= z /\ z <= y
  BY DnsApplyAssumption DEF First
<1> QED BY <1>1

\* A rollback comes to its write by a fetch.
LEMMA IntoReverse ==
    ASSUME TypeOK, [Next]_vars, pc' = "rwrite"
    PROVE  \/ UNCHANGED vars
           \/ \E z \in Zones, r \in Records : Edit(z, r)
           \/ \E z \in Zones : RollbackFetch(z)
<1>1. ASSUME NEW f \in ForeignRecs, Edit(f[1], f[2]) PROVE \E z \in Zones, r \in Records : Edit(z, r)
  <2>1. f[1] \in Zones /\ f[2] \in Records
    BY DnsApplyAssumption
  <2> QED BY <1>1, <2>1
<1>2. ASSUME NEW z \in Zones PROVE ~ApplyStep(z)
  BY DEF ApplyStep, FetchZone, FetchFails, NothingToWrite, WriteZone, StaleSerial, WriteFails,
     VerifyZone, VerifyFetchFails, Advance
<1>3. ASSUME NEW z \in Zones, RollbackStep(z) PROVE RollbackFetch(z)
  BY <1>3 DEF RollbackStep, RollbackFetchFails, NothingToReverse, ReverseZone, ReverseRefused,
     ReverseFails, VerifyReversed, VerifyReversedFails, RollbackAdvance
<1>4. ~(BuildDNSPlan \/ StartApply \/ StartRollback \/ WriteBackup \/ BackupFails \/ finishDNSReport
        \/ ReportFails \/ Crash)
  BY DEF BuildDNSPlan, StartApply, StartRollback, WriteBackup, BackupFails, finishDNSReport, ReportFails,
     Crash, runVars
<1> QED BY <1>1, <1>2, <1>3, <1>4 DEF Next

\* Between its fetch and its write, a rollback's view of the zone only ages.
LEMMA FreshPreserved == TypeOK /\ Fresh /\ [Next]_vars => Fresh'
<1> SUFFICES ASSUME TypeOK, Fresh, [Next]_vars, pc' = "rwrite", NEW y \in Zones, First(y)'
             PROVE  Snapshot(y)'
  BY DEF Fresh
<1>1. CASE UNCHANGED vars
  <2>1. Snapshot(y)
    BY <1>1 DEF Fresh, First, vars
  <2> QED BY <1>1, <2>1, SnapshotUnchanged DEF vars
<1>2. ASSUME NEW z \in Zones, NEW r \in Records, Edit(z, r) PROVE Snapshot(y)'
  <2>1. Snapshot(y)
    BY <1>2 DEF Edit, Fresh, First, runVars
  <2> QED BY <1>2, <2>1, SnapshotStable DEF Edit, runVars
<1>3. ASSUME NEW z \in Zones, RollbackFetch(z) PROVE Snapshot(y)'
  <2>1. First(z) /\ todo' = todo /\ First(y)
    BY <1>3 DEF RollbackFetch, First
  <2>2. y = z
    BY <2>1, FirstUnique DEF TypeOK
  <2>3. /\ live' = [live EXCEPT ![z] = zone[z]] /\ guard' = [guard EXCEPT ![z] = serial[z]]
        /\ zone' = zone /\ serial' = serial
    BY <1>3 DEF RollbackFetch, Fetched, netVars
  <2> QED BY <2>2, <2>3 DEF Snapshot, TypeOK
<1> QED BY <1>1, <1>2, <1>3, IntoReverse

\* Neither the tool's writes nor a new plan give an rrset to be written a CNAME.
LEMMA CnameApartPreserved == TypeOK /\ Fresh /\ CnameApart /\ [Next]_vars => CnameApart'
<1> SUFFICES ASSUME TypeOK, Fresh, CnameApart, [Next]_vars,
                    NEW y \in Zones \ edited', NEW k \in Keys, Writable(plan'[y][k]),
                    NEW t \in Types \ {k.type}, "CNAME" \in {t, k.type}
             PROVE  ~Writable(plan'[y][AtName(k, t)]) /\ ~HasRRset(zone'[y], AtName(k, t))
  BY DEF CnameApart, AtName
<1> DEFINE j == AtName(k, t)
<1>0. j \in Keys /\ j.type = t /\ j.name = k.name /\ k.type \in Types
  BY DEF AtName, Keys
<1>1. CASE BuildDNSPlan
  <2>1. \E avail \in SUBSET Zones : plan' = [z \in Zones |->
            IF z \in avail THEN BuildZonePlan(source[z], zone[z]) ELSE NoPlan[z]]
    BY <1>1 DEF BuildDNSPlan
  <2>2. plan'[y] = BuildZonePlan(source[y], zone[y])
    BY <2>1, NoPlanNothing
  <2>3. /\ plan'[y][k] = classify(k, source[y], zone[y])
        /\ plan'[y][j] = classify(j, source[y], zone[y])
    BY <1>0, <2>2 DEF BuildZonePlan
  <2>4. zone' = zone
    BY <1>1 DEF BuildDNSPlan, netVars
  <2> QED BY <2>3, <2>4, ClassifyApart
<1>2. CASE plan' = plan /\ edited \subseteq edited'
  <2>1. y \in Zones \ edited /\ ~Writable(plan[y][j]) /\ ~HasRRset(zone[y], j)
    BY <1>2 DEF CnameApart
  <2>2. ~HasRRset(zone'[y], j)
    <3>1. CASE zone' = zone
      BY <2>1, <3>1
    <3>2. ASSUME NEW z \in Zones, NEW r \in Records, Edit(z, r) PROVE zone'[y] = zone[y]
      BY <3>2 DEF Edit, TypeOK
    <3>3. ASSUME NEW z \in Zones, Applies(z) PROVE ~HasRRset(zone'[y], j)
      <4>1. ~(y = z /\ j \in activeWrites(z))
        BY <2>1, ActiveOps DEF TypeOK
      <4>2. ValuesOf(zone'[y], j) = ValuesOf(zone[y], j)
        BY <1>0, <3>3, <4>1, AppliedValues, ZenonT(30)
      <4> QED BY <2>1, <4>2 DEF HasRRset
    <3>4. ASSUME NEW z \in Zones, Reverses(z) PROVE ~HasRRset(zone'[y], j)
      BY <1>0, <2>1, <3>4, ReverseAddsNoRRset DEF Reverses, Fresh
    <3> QED BY <2>1, <3>1, <3>2, <3>3, <3>4, ZoneSteps
  <2> QED BY <1>2, <2>1, <2>2
<1> QED BY <1>1, <1>2, PlanSteps

\* An apply gives a name no second type where one of the two is a CNAME.
LEMMA AppliesApart ==
    ASSUME TypeOK, CnameApart, NEW z \in Zones, Applies(z), NEW y \in Zones \ edited, NEW n \in Names,
           CnameShares(zone'[y], n)
    PROVE  CnameShares(zone[y], n)
<1> DEFINE c == [type |-> "CNAME", name |-> n]
<1>1. PICK t \in Types \ {"CNAME"} : HasRRset(zone'[y], [type |-> t, name |-> n])
  BY DEF CnameShares
<1> DEFINE j == [type |-> t, name |-> n]
<1>2. c \in Keys /\ j \in Keys /\ AtName(c, t) = j /\ AtName(j, "CNAME") = c /\ "CNAME" \in Types
  BY DEF Keys, Types, AtName
<1>3. HasRRset(zone'[y], c) /\ HasRRset(zone'[y], j)
  BY <1>1 DEF CnameShares
<1>4. ASSUME NEW i \in Keys, HasRRset(zone'[y], i)
      PROVE  HasRRset(zone[y], i) \/ Writable(plan[y][i])
  BY <1>4, AppliedValues, ActiveOps DEF HasRRset, TypeOK
<1>5. Writable(plan[y][c]) => ~Writable(plan[y][j]) /\ ~HasRRset(zone[y], j)
  BY <1>2 DEF CnameApart
<1>6. Writable(plan[y][j]) => ~Writable(plan[y][c]) /\ ~HasRRset(zone[y], c)
  <2>1. "CNAME" \in Types \ {j.type} /\ "CNAME" \in {"CNAME", j.type}
    BY <1>2
  <2> QED BY <1>2, <2>1 DEF CnameApart
<1>7. HasRRset(zone[y], c) /\ HasRRset(zone[y], j)
  BY <1>2, <1>3, <1>4, <1>5, <1>6
<1> QED BY <1>7 DEF CnameShares

\* An apply to a zone that nobody else has edited since the plan gives no
\* CNAME company, whatever was applied or rolled back in between.
THEOREM CnamesStayAlone == Spec => CnameStaysAlone
<1> DEFINE Step == \A z \in Zones \ edited : Applying /\ edits' = edits =>
                       \A n \in Names : CnameShares(zone'[z], n) => CnameShares(zone[z], n)
<1>1. Init => Fresh /\ CnameApart
  BY NoPlanNothing DEF Init, Fresh, CnameApart
<1>2. TypeOK /\ CnameApart /\ [Next]_vars => [Step]_vars
  <2> SUFFICES ASSUME TypeOK, CnameApart, Next, pc = "write", edits' = edits,
                      NEW y \in Zones \ edited, NEW n \in Names, CnameShares(zone'[y], n)
               PROVE  CnameShares(zone[y], n)
    BY DEF Step, Applying
  <2>1. \A z \in Zones, r \in Records : ~Edit(z, r)
    BY DEF Edit, TypeOK
  <2>2. CASE zone' = zone
    BY <2>2
  <2>3. CASE \E z \in Zones : Applies(z)
    BY <2>3, AppliesApart
  <2>4. \A z \in Zones : ~Reverses(z)
    BY DEF Reverses
  <2> QED BY <2>1, <2>2, <2>3, <2>4, ZoneSteps
<1>3. TypeOK /\ Fresh /\ CnameApart /\ [Next]_vars => (Fresh /\ CnameApart)'
  BY FreshPreserved, CnameApartPreserved
<1> QED BY <1>1, <1>2, <1>3, DnsTypeCorrect, PTL DEF Spec, CnameStaysAlone, Step

-----------------------------------------------------------------------------
(* What is reported as applied is certified                                *)

\* Between the write of a zone and its check, the zone is what was fetched with
\* the edit, unless its serial shows another one, and the ops that await the
\* check are those of the edit.
Staged ==
    pc = "verify" => \A z \in Zones : First(z) =>
        /\ guard[z] < serial[z]
        /\ serial[z] = guard[z] + 1 => zone[z] = (live[z] \ Removals(z)) \cup Additions(z)
        /\ \A k \in Keys : status[z][k] = "pending" => k \in activeWrites(z)

\* A run comes to its check by a write.
LEMMA IntoVerify ==
    ASSUME TypeOK, [Next]_vars, pc' = "verify"
    PROVE  \/ UNCHANGED vars
           \/ \E z \in Zones, r \in Records : Edit(z, r)
           \/ \E z \in Zones : WriteZone(z)
<1>1. ASSUME NEW f \in ForeignRecs, Edit(f[1], f[2]) PROVE \E z \in Zones, r \in Records : Edit(z, r)
  <2>1. f[1] \in Zones /\ f[2] \in Records
    BY DnsApplyAssumption
  <2> QED BY <1>1, <2>1
<1>2. ASSUME NEW z \in Zones, ApplyStep(z) PROVE WriteZone(z)
  BY <1>2 DEF ApplyStep, FetchZone, FetchFails, NothingToWrite, StaleSerial, WriteFails,
     VerifyZone, VerifyFetchFails, Advance
<1>3. ASSUME NEW z \in Zones PROVE ~RollbackStep(z)
  BY DEF RollbackStep, RollbackFetch, RollbackFetchFails, NothingToReverse, ReverseZone, ReverseRefused,
     ReverseFails, VerifyReversed, VerifyReversedFails, RollbackAdvance
<1>4. ~(BuildDNSPlan \/ StartApply \/ StartRollback \/ WriteBackup \/ BackupFails \/ finishDNSReport
        \/ ReportFails \/ Crash)
  BY DEF BuildDNSPlan, StartApply, StartRollback, WriteBackup, BackupFails, finishDNSReport, ReportFails,
     Crash, runVars
<1> QED BY <1>1, <1>2, <1>3, <1>4 DEF Next

\* What an apply would write depends on the plan and on what it fetched.
LEMMA WritesStable ==
    ASSUME plan' = plan, live' = live, NEW z
    PROVE  /\ activeWrites(z)' = activeWrites(z)
           /\ Removals(z)' = Removals(z) /\ Additions(z)' = Additions(z)
BY DEF activeWrites, Removals, Additions, Classified

\* Every action keeps the zone under check as written, or its serial ahead.
LEMMA StagedPreserved == TypeOK /\ Held /\ Staged /\ [Next]_vars => Staged'
<1> SUFFICES ASSUME TypeOK, Held, Staged, [Next]_vars, pc' = "verify", NEW y \in Zones, First(y)'
             PROVE  /\ guard'[y] < serial'[y]
                    /\ serial'[y] = guard'[y] + 1 => zone'[y] = (live'[y] \ Removals(y)') \cup Additions(y)'
                    /\ \A k \in Keys : status'[y][k] = "pending" => k \in activeWrites(y)'
  BY DEF Staged
<1>0. serial[y] \in Nat /\ guard[y] \in Nat
  BY DEF TypeOK
<1>1. CASE UNCHANGED vars
  <2>1. UNCHANGED <<zone, serial, plan, live, guard, status, todo, pc>>
    BY <1>1 DEF vars
  <2>2. First(y)
    BY <2>1 DEF First
  <2> QED BY <2>1, <2>2, WritesStable DEF Staged
<1>2. ASSUME NEW z \in Zones, NEW r \in Records, Edit(z, r)
      PROVE  /\ guard'[y] < serial'[y]
             /\ serial'[y] = guard'[y] + 1 => zone'[y] = (live'[y] \ Removals(y)') \cup Additions(y)'
             /\ \A k \in Keys : status'[y][k] = "pending" => k \in activeWrites(y)'
  <2>1. UNCHANGED <<plan, live, guard, status, todo, pc>>
    BY <1>2 DEF Edit, fileVars, runVars
  <2>2. First(y)
    BY <2>1 DEF First
  <2>3. /\ serial' = [serial EXCEPT ![z] = serial[z] + 1]
        /\ y # z => zone'[y] = zone[y]
    BY <1>2 DEF Edit, TypeOK
  <2>4. /\ guard[y] < serial[y]
        /\ serial[y] = guard[y] + 1 => zone[y] = (live[y] \ Removals(y)) \cup Additions(y)
        /\ \A k \in Keys : status[y][k] = "pending" => k \in activeWrites(y)
    BY <2>1, <2>2 DEF Staged
  <2>5. CASE y = z
    <3>1. serial'[y] = serial[y] + 1
      BY <2>3, <2>5 DEF TypeOK
    <3> QED BY <1>0, <2>1, <2>4, <3>1, WritesStable
  <2>6. CASE y # z
    <3>1. serial'[y] = serial[y]
      BY <2>3, <2>6 DEF TypeOK
    <3> QED BY <2>1, <2>3, <2>4, <2>6, <3>1, WritesStable
  <2> QED BY <2>5, <2>6
<1>3. ASSUME NEW z \in Zones, WriteZone(z)
      PROVE  /\ guard'[y] < serial'[y]
             /\ serial'[y] = guard'[y] + 1 => zone'[y] = (live'[y] \ Removals(y)') \cup Additions(y)'
             /\ \A k \in Keys : status'[y][k] = "pending" => k \in activeWrites(y)'
  <2>1. /\ pc = "write" /\ First(z) /\ activeWrites(z) # {} /\ serial[z] = guard[z]
        /\ zone' = [zone EXCEPT ![z] = (zone[z] \ Removals(z)) \cup Additions(z)]
        /\ serial' = [serial EXCEPT ![z] = serial[z] + 1]
        /\ status' = Settled(z, "pending")
        /\ UNCHANGED <<plan, live, guard, todo>>
    BY <1>3 DEF WriteZone, MassEdit, SerialMatches, fileVars
  <2>2. First(y)
    BY <2>1 DEF First
  <2>3. y = z
    BY <2>1, <2>2, FirstUnique DEF TypeOK
  <2>4. z \in writableZones
    BY <2>1, ActiveIsWritable DEF TypeOK
  <2>5. live[z] = zone[z]
    BY <2>1, <2>4 DEF Held, Snapshot
  <2>6. serial'[z] = serial[z] + 1 /\ zone'[z] = (zone[z] \ Removals(z)) \cup Additions(z)
    BY <2>1 DEF TypeOK
  <2>7. \A k \in Keys : status'[z][k] = "pending" => k \in activeWrites(z)
    <3>1. status'[z] = [k \in Keys |-> IF k \in activeWrites(z) THEN "pending" ELSE Classified(z, k)]
      BY <2>1 DEF Settled, TypeOK, Results
    <3> QED BY <3>1 DEF activeWrites
  <2> QED BY <1>0, <2>1, <2>3, <2>5, <2>6, <2>7, WritesStable
<1> QED BY <1>1, <1>2, <1>3, IntoVerify

\* An op passes from awaiting its check to applied only in the check.
LEMMA CertifiedStep ==
    ASSUME IsFiniteSet(Values), TypeOK, Held, Staged, PlanWrites, Next,
           NEW y \in Zones, NEW k \in Keys, pc = "verify",
           status[y][k] = "pending", status'[y][k] = "applied", serial[y] = guard[y] + 1,
           plan[y][k].action = "replace",
           Cardinality(Desired(plan[y][k])) = Cardinality(plan[y][k].records)
    PROVE  verifyOp(plan[y][k], k, zone[y]) = "applied"
<1>1. PICK z \in Zones : VerifyZone(z)
  <2>1. status' # status
    OBVIOUS
  <2>2. \A f \in ForeignRecs : ~Edit(f[1], f[2])
    BY <2>1 DEF Edit, runVars
  <2>3. ~(BuildDNSPlan \/ StartApply \/ StartRollback \/ WriteBackup \/ BackupFails \/ finishDNSReport
          \/ ReportFails \/ Crash)
    BY <2>1 DEF BuildDNSPlan, StartApply, StartRollback, WriteBackup, BackupFails, finishDNSReport,
       ReportFails, Crash, runVars
  <2>4. \A z \in Zones : ~RollbackStep(z)
    BY DEF RollbackStep, RollbackFetch, RollbackFetchFails, NothingToReverse, ReverseZone,
       ReverseRefused, ReverseFails, VerifyReversed, VerifyReversedFails
  <2>5. \A z \in Zones : ApplyStep(z) => VerifyZone(z) \/ VerifyFetchFails(z)
    BY DEF ApplyStep, FetchZone, FetchFails, NothingToWrite, WriteZone, StaleSerial, WriteFails
  <2>6. \A z \in Zones : ~VerifyFetchFails(z)
    <3> SUFFICES ASSUME NEW z \in Zones, status' = Unverified(z) PROVE FALSE
      BY DEF VerifyFetchFails
    <3>1. status \in [Zones -> [Keys -> Statuses]]
      BY DEF TypeOK, Results
    <3>2. status'[y][k] \in {status[y][k], "failed"}
      <4>1. CASE y = z
        BY <3>1, <4>1 DEF Unverified
      <4>2. CASE y # z
        BY <3>1, <4>2 DEF Unverified
      <4> QED BY <4>1, <4>2
    <3> QED BY <3>2
  <2> QED BY <2>2, <2>3, <2>4, <2>5, <2>6 DEF Next
<1>2. First(z) /\ y = z
  <2>1. First(z)
    BY <1>1 DEF VerifyZone
  <2>2. ASSUME y # z PROVE status'[y] = status[y]
    BY <1>1, <2>2 DEF VerifyZone, TypeOK, Results
  <2> QED BY <2>1, <2>2
<1>3. k \in activeWrites(y) /\ zone[y] = (live[y] \ Removals(y)) \cup Additions(y)
  BY <1>2 DEF Staged
<1>4. ValuesOf(live[y], k) = plan[y][k].dest
  <2>1. dnsReplacePrecondition(plan[y][k], ValuesOf(live[y], k)) = "pending"
    BY <1>3 DEF activeWrites, Classified
  <2> QED BY <2>1, ReplaceSeesPlanValues, ValuesOfType
<1>5. ValuesOf(zone[y], k) = Desired(plan[y][k])
  <2>1. ValuesOf(zone[y], k) = (ValuesOf(live[y], k) \ ValuesOf(Removals(y), k)) \cup ValuesOf(Additions(y), k)
    BY <1>3, ValuesOfEdit
  <2> QED BY <1>3, <1>4, <2>1, RemovalValues, AdditionValues DEF TypeOK
<1>6. plan[y][k].records # {}
  BY DEF PlanWrites, Writable
<1>7. Desired(plan[y][k]) # {}
  BY <1>6 DEF Desired
<1>8. SameValues(plan[y][k].records, ValuesOf(zone[y], k))
  BY <1>5 DEF SameValues, Desired
<1> QED BY <1>5, <1>7, <1>8 DEF verifyOp

\* A replace that the run reports as applied is one that `dns verify` would
\* certify, unless somebody edits the zone between the write and the check or
\* the ip-map folds two addresses into one.
THEOREM ReportedIsCertified == ASSUME IsFiniteSet(Values) PROVE Spec => AppliedIsCertified
<1> DEFINE Step == \A z \in Zones, k \in Keys :
                       /\ pc = "verify" /\ status[z][k] = "pending" /\ status'[z][k] = "applied"
                       /\ serial[z] = guard[z] + 1
                       /\ plan[z][k].action = "replace"
                       /\ Cardinality(Desired(plan[z][k])) = Cardinality(plan[z][k].records)
                       => verifyOp(plan[z][k], k, zone[z]) = "applied"
<1>1. Init => Held /\ Staged /\ PlanWrites
  BY PlanWritesInit DEF Init, Held, Staged
<1>2. TypeOK /\ Held /\ Staged /\ PlanWrites /\ [Next]_vars => [Step]_vars
  BY CertifiedStep DEF Step
<1>3. TypeOK /\ Held /\ Staged /\ PlanWrites /\ [Next]_vars => (Held /\ Staged /\ PlanWrites)'
  BY HeldPreserved, StagedPreserved, PlanWritesPreserved
<1> QED BY <1>1, <1>2, <1>3, DnsTypeCorrect, PTL DEF Spec, AppliedIsCertified, Step

-----------------------------------------------------------------------------
(* A rollback restores                                                     *)

\* An op that the report of the plan, or the run that is to write it, calls
\* applied, or that awaits its check.
Tracked(z, k) ==
    /\ plan[z][k].action = "replace"
    /\ \/ current /\ report # Missing /\ report.status[z][k] = "applied"
       \/ pc \in {"write", "verify", "report"} /\ status[z][k] \in {"pending", "applied"}

\* The rrset has the plan's old values or its new ones, the backup too, and the
\* backup has the new ones only while the zone has.
Reversible(z, k) ==
    LET before == plan[z][k].dest
        after  == Desired(plan[z][k])
        now    == ValuesOf(zone[z], k)
        old    == ValuesOf(backup[z], k)
    IN  /\ now \in {before, after}
        /\ backup # Missing => old \in {before, after} /\ (old = before \/ now = after)

Trail == \A z \in Zones \ edited, k \in Keys : Tracked(z, k) => Reversible(z, k)

\* The report belongs to the plan, if it was written since.
ReportOfPlan == current /\ report # Missing => report.plan = plan

\* Until the backup is written, an unedited zone is as it was fetched, and the
\* run has no results.
FetchedIsLive ==
    /\ pc \in {"fetch", "backup"} => status = NoResults
    /\ pc = "fetch" => \A z \in writableZones \ (todo \cup edited) : live[z] = zone[z]
    /\ pc = "backup" => \A z \in writableZones \ edited : live[z] = zone[z]

\* The zone a rollback has written has, where it awaits the check, the values
\* of the backup.
PutBack ==
    pc = "rverify" /\ current => \A z \in Zones \ edited, k \in Keys :
        First(z) /\ status[z][k] = "pending" /\ IsReplace(z, k)
            => ValuesOf(zone[z], k) = ValuesOf(backup[z], k)

\* The report and the plan change together or the report is no longer current.
LEMMA ReportOfPlanPreserved == ReportOfPlan /\ [Next]_vars => ReportOfPlan'
<1> SUFFICES ASSUME ReportOfPlan, [Next]_vars PROVE ReportOfPlan'
  OBVIOUS
<1>1. CASE UNCHANGED vars
  BY <1>1 DEF vars, ReportOfPlan
<1>2. ASSUME NEW f \in ForeignRecs, Edit(f[1], f[2]) PROVE ReportOfPlan'
  BY <1>2 DEF Edit, fileVars, ReportOfPlan
<1>3. ASSUME NEW z \in Zones, ApplyStep(z) PROVE UNCHANGED <<plan, report, current>>
  BY <1>3 DEF ApplyStep, FetchZone, FetchFails, NothingToWrite, WriteZone, StaleSerial, WriteFails,
     VerifyZone, VerifyFetchFails, fileVars
<1>4. ASSUME NEW z \in Zones, RollbackStep(z) PROVE UNCHANGED <<plan, report, current>>
  BY <1>4 DEF RollbackStep, RollbackFetch, RollbackFetchFails, NothingToReverse, ReverseZone,
     ReverseRefused, ReverseFails, VerifyReversed, VerifyReversedFails, fileVars
<1>5. CASE StartApply \/ StartRollback \/ WriteBackup \/ BackupFails
  BY <1>5 DEF StartApply, StartRollback, WriteBackup, BackupFails, fileVars, ReportOfPlan
<1>6. CASE BuildDNSPlan
  BY <1>6 DEF BuildDNSPlan, ReportOfPlan
<1>7. CASE finishDNSReport
  <2>1. report'.plan = plan /\ plan' = plan
    BY <1>7 DEF finishDNSReport
  <2> QED BY <2>1 DEF ReportOfPlan
<1>8. CASE ReportFails \/ Crash
  <2>1. report' \in {report, Missing} /\ plan' = plan /\ current' = current
    BY <1>8 DEF ReportFails, Crash
  <2> QED BY <2>1 DEF ReportOfPlan
<1> QED BY <1>1, <1>2, <1>3, <1>4, <1>5, <1>6, <1>7, <1>8 DEF Next, ReportOfPlan

\* A foreign edit changes its own zone only, and marks it.
LEMMA EditElsewhere ==
    ASSUME TypeOK, NEW z \in Zones, NEW r \in Records, Edit(z, r), NEW y \in Zones \ edited'
    PROVE  /\ y \in Zones \ edited /\ zone'[y] = zone[y]
           /\ UNCHANGED <<plan, backup, report, pc, todo, live, guard, status, current>>
BY DEF Edit, TypeOK, fileVars, runVars

\* Nothing but a foreign edit changes a zone before the backup is written.
LEMMA FetchedIsLivePreserved == TypeOK /\ FetchedIsLive /\ [Next]_vars => FetchedIsLive'
<1> SUFFICES ASSUME TypeOK, FetchedIsLive, [Next]_vars PROVE FetchedIsLive'
  OBVIOUS
<1>0. writableZones \subseteq Zones
  BY DEF writableZones
<1>p. plan' = plan => writableZones' = writableZones
  BY DEF writableZones
<1>1. CASE UNCHANGED vars
  BY <1>1, <1>p DEF vars, FetchedIsLive
<1>2. ASSUME NEW z \in Zones, NEW r \in Records, Edit(z, r) PROVE FetchedIsLive'
  <2>1. UNCHANGED <<plan, pc, todo, live, status>> /\ edited \subseteq edited'
    BY <1>2 DEF Edit, fileVars, runVars
  <2>2. \A y \in writableZones \ edited' : zone'[y] = zone[y]
    BY <1>0, <1>2, EditElsewhere
  <2> QED BY <1>p, <2>1, <2>2 DEF FetchedIsLive
<1>3. ASSUME NEW z \in Zones, FetchZone(z) PROVE FetchedIsLive'
  <2>1. /\ pc = "fetch" /\ live' = [live EXCEPT ![z] = zone[z]]
        /\ todo' = todo \ {z} /\ pc' = (IF todo' = {} THEN "backup" ELSE "fetch")
        /\ UNCHANGED <<zone, plan, status, edited>>
    BY <1>3 DEF FetchZone, Fetched, netVars, fileVars
  <2>2. \A y \in writableZones \ (todo' \cup edited) : live'[y] = zone[y]
    BY <1>0, <2>1 DEF FetchedIsLive, TypeOK
  <2> QED BY <1>p, <2>1, <2>2 DEF FetchedIsLive
<1>4. CASE StartApply
  <2>1. (pc' = "fetch" /\ todo' = writableZones) \/ pc' = "write"
    BY <1>4 DEF StartApply
  <2>2. plan' = plan /\ status' = NoResults
    BY <1>4 DEF StartApply, fileVars
  <2> QED BY <1>p, <2>1, <2>2 DEF FetchedIsLive
<1>5. ASSUME pc' \notin {"fetch", "backup"} PROVE FetchedIsLive'
  BY <1>5 DEF FetchedIsLive
<1>6. CASE BuildDNSPlan \/ StartRollback \/ WriteBackup \/ BackupFails \/ finishDNSReport \/ ReportFails \/ Crash
  BY <1>5, <1>6 DEF BuildDNSPlan, StartRollback, WriteBackup, BackupFails, finishDNSReport, ReportFails,
     Crash, runVars
<1>7. ASSUME NEW z \in Zones, ApplyStep(z), ~FetchZone(z) PROVE FetchedIsLive'
  BY <1>5, <1>7 DEF ApplyStep, FetchFails, NothingToWrite, WriteZone, StaleSerial, WriteFails,
     VerifyZone, VerifyFetchFails, Advance
<1>8. ASSUME NEW z \in Zones, RollbackStep(z) PROVE FetchedIsLive'
  BY <1>5, <1>8 DEF RollbackStep, RollbackFetch, RollbackFetchFails, NothingToReverse, ReverseZone,
     ReverseRefused, ReverseFails, VerifyReversed, VerifyReversedFails, RollbackAdvance
<1>e. (\E f \in ForeignRecs : Edit(f[1], f[2])) => \E z \in Zones, r \in Records : Edit(z, r)
  <2>1. \A f \in ForeignRecs : f[1] \in Zones /\ f[2] \in Records
    BY DnsApplyAssumption
  <2> QED BY <2>1
<1> QED BY <1>e, <1>1, <1>2, <1>3, <1>4, <1>6, <1>7, <1>8 DEF Next

\* What a rollback leaves of a tracked rrset are the values of the backup.
LEMMA ReverseRestores ==
    ASSUME TypeOK, Fresh, ReportOfPlan, Trail, NEW z \in Zones \ edited, Reverses(z), NEW k \in Reversed(z),
           current, IsReplace(z, k)
    PROVE  /\ ValuesOf(zone'[z], k) = ValuesOf(backup[z], k)
           /\ Tracked(z, k) /\ Reversible(z, k) /\ backup # Missing
<1>1. k \in Keys /\ k \in Targets(z)
  BY DEF Reversed, RollbackResult
<1>2. pc = "rwrite" /\ backup # Missing /\ report # Missing
  BY DEF Reverses, TypeOK
<1>3. report.plan = plan /\ report.status[z][k] = "applied"
  BY <1>1, <1>2 DEF ReportOfPlan, Targets
<1>4. Tracked(z, k)
  BY <1>2, <1>3 DEF Tracked, IsReplace
<1>5. Reversible(z, k)
  BY <1>1, <1>4 DEF Trail
<1>6. live[z] = zone[z]
  BY DEF Reverses, SerialMatches, Fresh, Snapshot
<1> DEFINE before == plan[z][k].dest
           after  == Desired(plan[z][k])
           now    == ValuesOf(zone[z], k)
           old    == ValuesOf(backup[z], k)
<1>7. FoundLines(z, k) = after \cap now /\ dnsBackupRecordsForOp(z, k) = old
  BY <1>3, <1>6 DEF FoundLines, Written, dnsBackupRecordsForOp
<1>8. ValuesOf(zone'[z], k) = (now \ (after \cap now)) \cup old
  BY <1>1, <1>7, ReversedValues
<1>9. now \in {before, after} /\ old \in {before, after} /\ (old = before \/ now = after)
  BY <1>2, <1>5 DEF Reversible
<1> HIDE DEF before, after, now, old
<1>10. (now \ (after \cap now)) \cup old = old
  BY <1>9
<1> QED BY <1>2, <1>4, <1>5, <1>8, <1>10 DEF old

\* An op that is not active is recorded neither as applied nor as awaiting.
LEMMA SettledTracks ==
    ASSUME status \in Results, NEW z \in Zones, NEW y \in Zones, NEW k \in Keys, NEW s \in Statuses,
           status' = Settled(z, s), status'[y][k] \in {"pending", "applied"}
    PROVE  (y = z /\ k \in activeWrites(z) /\ s \in {"pending", "applied"}) \/ (y # z /\ status[y][k] = status'[y][k])
<1>1. CASE y # z
  BY <1>1 DEF Settled, Results
<1>2. CASE y = z
  <2>1. status'[y][k] = IF k \in activeWrites(z) THEN s ELSE Classified(z, k)
    BY <1>2 DEF Settled, Results
  <2>2. Classified(z, k) \in {"none", "skipped", "manual", "pending", "refused"}
    <3>1. dnsReplacePrecondition(plan[z][k], ValuesOf(live[z], k)) \in {"skipped", "pending", "refused"}
      BY DEF dnsReplacePrecondition
    <3> QED BY <3>1 DEF Classified
  <2>3. k \notin activeWrites(z) => Classified(z, k) # "pending"
    BY DEF activeWrites
  <2> QED BY <1>2, <2>1, <2>2, <2>3
<1> QED BY <1>1, <1>2

\* The steps of an apply that write nothing track nothing new.
LEMMA QuietApplyTracks ==
    ASSUME TypeOK, NEW z \in Zones, NEW y \in Zones, NEW k \in Keys,
           \/ FetchZone(z) \/ FetchFails(z) \/ NothingToWrite(z) \/ StaleSerial(z)
           \/ VerifyZone(z) \/ VerifyFetchFails(z)
    PROVE  Tracked(y, k)' => Tracked(y, k)
<1>1. UNCHANGED <<plan, report, current>>
  BY DEF FetchZone, FetchFails, NothingToWrite, StaleSerial, VerifyZone, VerifyFetchFails, fileVars
<1>t. status \in Results
  BY DEF TypeOK
<1>2. CASE FetchZone(z) \/ FetchFails(z)
  BY <1>1, <1>2 DEF FetchZone, FetchFails, Tracked
<1>3. CASE NothingToWrite(z)
  <2>1. pc = "write" /\ activeWrites(z) = {} /\ status' = Settled(z, "pending")
    BY <1>3 DEF NothingToWrite
  <2>2. status'[y][k] \in {"pending", "applied"} => status[y][k] = status'[y][k]
    BY <1>t, <2>1, SettledTracks DEF Statuses
  <2> QED BY <1>1, <2>1, <2>2 DEF Tracked
<1>4. CASE StaleSerial(z)
  <2>1. pc = "write" /\ status' = Settled(z, "refused")
    BY <1>4 DEF StaleSerial
  <2>2. status'[y][k] \in {"pending", "applied"} => status[y][k] = status'[y][k]
    BY <1>t, <2>1, SettledTracks DEF Statuses
  <2> QED BY <1>1, <2>1, <2>2 DEF Tracked
<1>5. CASE VerifyZone(z)
  <2>1. pc = "verify"
    BY <1>5 DEF VerifyZone
  <2>2. status'[y][k] \in {"pending", "applied"} => status[y][k] \in {"pending", "applied"}
    <3>1. CASE y = z
      BY <1>5, <1>t, <3>1 DEF VerifyZone, Results
    <3>2. CASE y # z
      BY <1>5, <1>t, <3>2 DEF VerifyZone, Results
    <3> QED BY <3>1, <3>2
  <2> QED BY <1>1, <2>1, <2>2 DEF Tracked
<1>6. CASE VerifyFetchFails(z)
  <2>1. pc = "verify"
    BY <1>6 DEF VerifyFetchFails
  <2>2. status'[y][k] \in {"pending", "applied"} => status[y][k] \in {"pending", "applied"}
    <3>1. CASE y = z
      BY <1>6, <1>t, <3>1 DEF VerifyFetchFails, Unverified, Results
    <3>2. CASE y # z
      BY <1>6, <1>t, <3>2 DEF VerifyFetchFails, Unverified, Results
    <3> QED BY <3>1, <3>2
  <2> QED BY <1>1, <2>1, <2>2 DEF Tracked
<1> QED BY <1>2, <1>3, <1>4, <1>5, <1>6

\* The write of an apply takes an active replace from the old values to the new
\* ones, and the backup has the old.
LEMMA WriteTrail ==
    ASSUME IsFiniteSet(Values), TypeOK, Held, Trail, NEW z \in Zones, WriteZone(z) \/ WriteFails(z),
           NEW y \in Zones \ edited, NEW k \in Keys, Tracked(y, k)'
    PROVE  Reversible(y, k)'
<1>1. /\ pc = "write" /\ First(z) /\ activeWrites(z) # {}
      /\ UNCHANGED <<plan, backup, report, current>>
      /\ \E s \in {"pending", "failed"} : status' = Settled(z, s)
      /\ (zone' = zone \/ Applies(z))
      /\ (WriteZone(z) => Applies(z)) /\ (~WriteZone(z) => status' = Settled(z, "failed"))
  BY DEF WriteZone, WriteFails, Applies, fileVars, netVars
<1>t. status \in Results /\ {"pending", "failed"} \subseteq Statuses
  BY DEF TypeOK, Statuses
<1>2. PICK s \in {"pending", "failed"} : status' = Settled(z, s)
  BY <1>1
<1>3. CASE y = z /\ k \in activeWrites(z) /\ Applies(z)
  <2>1. plan[z][k].action = "replace"
    BY <1>1, <1>3 DEF Tracked
  <2>2. ValuesOf(live[z], k) = plan[z][k].dest
    <3>1. dnsReplacePrecondition(plan[z][k], ValuesOf(live[z], k)) = "pending"
      BY <1>3, <2>1 DEF activeWrites, Classified
    <3> QED BY <3>1, ReplaceSeesPlanValues, ValuesOfType
  <2>3. z \in writableZones
    BY <1>1, ActiveIsWritable DEF TypeOK
  <2>4. live[z] = zone[z] /\ backup[z] = live[z]
    BY <1>1, <1>3, <2>3 DEF Held, Snapshot, Applies, SerialMatches
  <2>5. ValuesOf(zone'[z], k) = (ValuesOf(zone[z], k) \ plan[z][k].dest) \cup Desired(plan[z][k])
    BY <1>3, <2>1, AppliedValues
  <2>6. ValuesOf(zone'[z], k) = Desired(plan[z][k]) /\ ValuesOf(backup[z], k) = plan[z][k].dest
    BY <2>2, <2>4, <2>5
  <2> QED BY <1>1, <1>3, <2>6 DEF Reversible
<1>4. CASE ~(y = z /\ k \in activeWrites(z) /\ Applies(z))
  <2>1. ValuesOf(zone'[y], k) = ValuesOf(zone[y], k)
    BY <1>1, <1>4, AppliedValues, ZenonT(30)
  <2>2. Tracked(y, k)
    <3>1. CASE current' /\ report' # Missing /\ report'.status[y][k] = "applied"
      BY <1>1, <3>1 DEF Tracked
    <3>2. CASE pc' \in {"write", "verify", "report"} /\ status'[y][k] \in {"pending", "applied"}
      <4>1. \/ (y = z /\ k \in activeWrites(z) /\ s \in {"pending", "applied"})
            \/ (y # z /\ status[y][k] = status'[y][k])
        BY <1>t, <1>2, <3>2, SettledTracks
      <4>2. CASE y = z /\ k \in activeWrites(z)
        <5>1. status' = Settled(z, "failed")
          BY <1>1, <1>4, <4>2
        <5>2. "failed" \in Statuses
          BY <1>t
        <5>3. \/ (y = z /\ k \in activeWrites(z) /\ "failed" \in {"pending", "applied"})
              \/ (y # z /\ status[y][k] = status'[y][k])
          BY <1>t, <3>2, <5>1, <5>2, SettledTracks
        <5> QED BY <4>2, <5>3
      <4>3. CASE y # z /\ status[y][k] = status'[y][k]
        BY <1>1, <3>2, <4>3 DEF Tracked
      <4> QED BY <4>1, <4>2, <4>3
    <3> QED BY <3>1, <3>2 DEF Tracked
  <2>3. Reversible(y, k)
    BY <2>2 DEF Trail
  <2> QED BY <1>1, <2>1, <2>3 DEF Reversible
<1> QED BY <1>3, <1>4

\* Every action keeps the trail of the plan's replaces.
LEMMA TrailPreserved ==
    ASSUME IsFiniteSet(Values), TypeOK, Held, Fresh, ReportOfPlan, FetchedIsLive, Trail, [Next]_vars
    PROVE  Trail'
<1> SUFFICES ASSUME NEW y \in Zones \ edited', NEW k \in Keys, Tracked(y, k)' PROVE Reversible(y, k)'
  BY DEF Trail
<1>0. y \in Zones \ edited => (Tracked(y, k) => Reversible(y, k))
  BY DEF Trail
<1>1. CASE UNCHANGED vars
  <2>1. UNCHANGED <<zone, plan, backup, report, pc, status, edited, current>>
    BY <1>1 DEF vars
  <2> QED BY <1>0, <2>1 DEF Tracked, Reversible
<1>2. ASSUME NEW z \in Zones, NEW r \in Records, Edit(z, r) PROVE Reversible(y, k)'
  <2>1. /\ y \in Zones \ edited /\ zone'[y] = zone[y]
        /\ UNCHANGED <<plan, backup, report, pc, todo, live, guard, status, current>>
    BY <1>2, EditElsewhere
  <2> QED BY <1>0, <2>1 DEF Tracked, Reversible
<1>3. CASE BuildDNSPlan
  <2>1. ~current' /\ pc' = "idle"
    BY <1>3 DEF BuildDNSPlan, runVars
  <2> QED BY <2>1 DEF Tracked
<1>4. CASE StartApply \/ StartRollback
  <2>1. /\ status' = NoResults
        /\ UNCHANGED <<zone, plan, backup, report, edited, current>>
    BY <1>4 DEF StartApply, StartRollback, netVars, fileVars
  <2>2. status'[y][k] = "none"
    BY <2>1 DEF NoResults
  <2>3. Tracked(y, k)
    BY <2>1, <2>2 DEF Tracked
  <2> QED BY <1>0, <2>1, <2>3 DEF Reversible
<1>5. ASSUME NEW z \in Zones,
             \/ FetchZone(z) \/ FetchFails(z) \/ NothingToWrite(z) \/ StaleSerial(z)
             \/ VerifyZone(z) \/ VerifyFetchFails(z)
      PROVE  Reversible(y, k)'
  <2>1. UNCHANGED <<zone, plan, backup, edited>>
    BY <1>5 DEF FetchZone, FetchFails, NothingToWrite, StaleSerial, VerifyZone, VerifyFetchFails,
       netVars, fileVars
  <2>2. Tracked(y, k)
    BY <1>5, QuietApplyTracks
  <2> QED BY <1>0, <2>1, <2>2 DEF Reversible
<1>6. ASSUME NEW z \in Zones, WriteZone(z) \/ WriteFails(z) PROVE Reversible(y, k)'
  <2>1. edited' = edited
    BY <1>6 DEF WriteZone, WriteFails
  <2> QED BY <1>6, <2>1, WriteTrail
<1>7. ASSUME NEW z \in Zones, RollbackStep(z) PROVE Reversible(y, k)'
  <2>1. /\ pc' \in {"idle", "rfetch", "rwrite", "rverify"}
        /\ UNCHANGED <<plan, backup, report, edited, current>>
        /\ (zone' = zone \/ Reverses(z))
    BY <1>7 DEF RollbackStep, RollbackFetch, RollbackFetchFails, NothingToReverse, ReverseZone,
       ReverseRefused, ReverseFails, VerifyReversed, VerifyReversedFails, RollbackAdvance, Reverses,
       netVars, fileVars
  <2>2. /\ plan[y][k].action = "replace" /\ current /\ report # Missing
        /\ report.status[y][k] = "applied"
    BY <2>1 DEF Tracked
  <2>3. Reversible(y, k)
    BY <1>0, <2>1, <2>2 DEF Tracked
  <2>4. CASE y = z /\ k \in Reversed(z) /\ Reverses(z)
    <3>1. IsReplace(z, k)
      BY <2>2, <2>4 DEF ReportOfPlan, IsReplace
    <3>2. ValuesOf(zone'[z], k) = ValuesOf(backup[z], k) /\ backup # Missing
      BY <2>1, <2>2, <2>4, <3>1, ReverseRestores
    <3> QED BY <2>1, <2>3, <2>4, <3>2 DEF Reversible
  <2>5. CASE ~(y = z /\ k \in Reversed(z) /\ Reverses(z))
    <3>1. ValuesOf(zone'[y], k) = ValuesOf(zone[y], k)
      BY <2>1, <2>5, ReversedValues, ZenonT(30)
    <3> QED BY <2>1, <2>3, <3>1 DEF Reversible
  <2> QED BY <2>4, <2>5
<1>8. CASE WriteBackup
  <2>1. /\ pc = "backup" /\ backup' = [z \in Zones |-> BackupFile(z)] /\ pc' = "write"
        /\ UNCHANGED <<zone, plan, report, status, edited, current>>
    BY <1>8 DEF WriteBackup, netVars
  <2>2. plan[y][k].action = "replace"
    BY <2>1 DEF Tracked
  <2>3. y \in writableZones
    BY <2>2 DEF writableZones, Writable
  <2>4. backup'[y] = zone[y]
    BY <2>1, <2>3 DEF BackupFile, FetchedIsLive
  <2>5. status[y][k] = "none"
    BY <2>1 DEF FetchedIsLive, NoResults
  <2>6. Tracked(y, k)
    BY <2>1, <2>5 DEF Tracked
  <2>7. Reversible(y, k)
    BY <1>0, <2>1, <2>6
  <2> QED BY <2>1, <2>4, <2>7 DEF Reversible
<1>9. CASE BackupFails
  <2>1. /\ pc' = "idle" /\ backup' \in {backup, Missing}
        /\ UNCHANGED <<zone, plan, report, status, edited, current>>
    BY <1>9 DEF BackupFails, netVars
  <2>2. Reversible(y, k)
    BY <1>0, <2>1 DEF Tracked
  <2> QED BY <2>1, <2>2 DEF Reversible
<1>10. CASE finishDNSReport
  <2>1. /\ pc = "report" /\ pc' = "idle" /\ report' = [plan |-> plan, status |-> status]
        /\ UNCHANGED <<zone, plan, backup, status, edited>>
    BY <1>10 DEF finishDNSReport, netVars
  <2>2. plan[y][k].action = "replace" /\ status[y][k] = "applied"
    BY <2>1 DEF Tracked
  <2>3. Reversible(y, k)
    BY <1>0, <2>1, <2>2 DEF Tracked
  <2> QED BY <2>1, <2>3 DEF Reversible
<1>11. CASE ReportFails \/ Crash
  <2>1. /\ pc' = "idle" /\ backup' \in {backup, Missing} /\ report' \in {report, Missing}
        /\ UNCHANGED <<zone, plan, status, edited, current>>
    BY <1>11 DEF ReportFails, Crash, netVars
  <2>2. Reversible(y, k)
    BY <1>0, <2>1 DEF Tracked
  <2> QED BY <2>1, <2>2 DEF Reversible
<1>e. (\E f \in ForeignRecs : Edit(f[1], f[2])) => \E z \in Zones, r \in Records : Edit(z, r)
  <2>1. \A f \in ForeignRecs : f[1] \in Zones /\ f[2] \in Records
    BY DnsApplyAssumption
  <2> QED BY <2>1
<1> QED BY <1>e, <1>1, <1>2, <1>3, <1>4, <1>5, <1>6, <1>7, <1>8, <1>9, <1>10, <1>11 DEF Next, ApplyStep

\* A rollback comes to its check by a write.
LEMMA IntoReverseCheck ==
    ASSUME TypeOK, [Next]_vars, pc' = "rverify"
    PROVE  \/ UNCHANGED vars
           \/ \E z \in Zones, r \in Records : Edit(z, r)
           \/ \E z \in Zones : ReverseZone(z)
<1>1. ASSUME NEW f \in ForeignRecs, Edit(f[1], f[2]) PROVE \E z \in Zones, r \in Records : Edit(z, r)
  <2>1. f[1] \in Zones /\ f[2] \in Records
    BY DnsApplyAssumption
  <2> QED BY <1>1, <2>1
<1>2. ASSUME NEW z \in Zones PROVE ~ApplyStep(z)
  BY DEF ApplyStep, FetchZone, FetchFails, NothingToWrite, WriteZone, StaleSerial, WriteFails,
     VerifyZone, VerifyFetchFails, Advance
<1>3. ASSUME NEW z \in Zones, RollbackStep(z) PROVE ReverseZone(z)
  BY <1>3 DEF RollbackStep, RollbackFetch, RollbackFetchFails, NothingToReverse, ReverseRefused,
     ReverseFails, VerifyReversed, VerifyReversedFails, RollbackAdvance
<1>4. ~(BuildDNSPlan \/ StartApply \/ StartRollback \/ WriteBackup \/ BackupFails \/ finishDNSReport
        \/ ReportFails \/ Crash)
  BY DEF BuildDNSPlan, StartApply, StartRollback, WriteBackup, BackupFails, finishDNSReport, ReportFails,
     Crash, runVars
<1> QED BY <1>1, <1>2, <1>3, <1>4 DEF Next

\* What a rollback has written stays until its check, unless somebody edits.
LEMMA PutBackPreserved ==
    ASSUME TypeOK, Fresh, ReportOfPlan, Trail, PutBack, [Next]_vars
    PROVE  PutBack'
<1> SUFFICES ASSUME pc' = "rverify", current', NEW y \in Zones \ edited', NEW k \in Keys, First(y)',
                    status'[y][k] = "pending", IsReplace(y, k)'
             PROVE  ValuesOf(zone'[y], k) = ValuesOf(backup'[y], k)
  BY DEF PutBack
<1>1. CASE UNCHANGED vars
  <2>1. UNCHANGED <<zone, plan, backup, report, pc, todo, status, edited, current>>
    BY <1>1 DEF vars
  <2> QED BY <2>1 DEF PutBack, First, IsReplace
<1>2. ASSUME NEW z \in Zones, NEW r \in Records, Edit(z, r)
      PROVE  ValuesOf(zone'[y], k) = ValuesOf(backup'[y], k)
  <2>1. /\ y \in Zones \ edited /\ zone'[y] = zone[y]
        /\ UNCHANGED <<plan, backup, report, pc, todo, live, guard, status, current>>
    BY <1>2, EditElsewhere
  <2> QED BY <2>1 DEF PutBack, First, IsReplace
<1>3. ASSUME NEW z \in Zones, ReverseZone(z)
      PROVE  ValuesOf(zone'[y], k) = ValuesOf(backup'[y], k)
  <2>1. /\ Reverses(z) /\ First(z) /\ status' = RollbackSettled(z, "pending")
        /\ UNCHANGED <<plan, backup, report, todo, edited, current>>
    BY <1>3 DEF ReverseZone, Reverses, fileVars
  <2>2. First(y) /\ IsReplace(y, k)
    BY <2>1 DEF First, IsReplace
  <2>3. y = z
    BY <2>1, <2>2, FirstUnique DEF TypeOK
  <2>4. status'[z] = [x \in Keys |-> IF x \in Reversed(z) THEN "pending" ELSE RollbackResult(z, x)]
    BY <2>1 DEF RollbackSettled, TypeOK, Results
  <2>5. k \in Reversed(z)
    BY <2>3, <2>4 DEF Reversed
  <2> QED BY <2>1, <2>2, <2>3, <2>5, ReverseRestores
<1> QED BY <1>1, <1>2, <1>3, IntoReverseCheck

\* The reversal of an op is reported only in the check of its zone.
LEMMA RestoredStep ==
    ASSUME TypeOK, PutBack, Next, NEW y \in Zones \ edited, NEW k \in Keys, pc = "rverify",
           status[y][k] = "pending", status'[y][k] = "applied", IsReplace(y, k), current
    PROVE  ValuesOf(zone[y], k) = ValuesOf(backup[y], k)
<1>1. PICK z \in Zones : VerifyReversed(z) \/ VerifyReversedFails(z)
  <2>1. status' # status
    OBVIOUS
  <2>2. \A f \in ForeignRecs : ~Edit(f[1], f[2])
    BY <2>1 DEF Edit, runVars
  <2>3. ~(BuildDNSPlan \/ StartApply \/ StartRollback \/ WriteBackup \/ BackupFails \/ finishDNSReport
          \/ ReportFails \/ Crash)
    BY <2>1 DEF BuildDNSPlan, StartApply, StartRollback, WriteBackup, BackupFails, finishDNSReport,
       ReportFails, Crash, runVars
  <2>4. \A z \in Zones : RollbackStep(z) => VerifyReversed(z) \/ VerifyReversedFails(z)
    BY DEF RollbackStep, RollbackFetch, RollbackFetchFails, NothingToReverse, ReverseZone,
       ReverseRefused, ReverseFails
  <2>5. \A z \in Zones : ~ApplyStep(z)
    BY DEF ApplyStep, FetchZone, FetchFails, NothingToWrite, WriteZone, StaleSerial, WriteFails,
       VerifyZone, VerifyFetchFails
  <2> QED BY <2>2, <2>3, <2>4, <2>5 DEF Next
<1>2. y = z
  <2> SUFFICES ASSUME y # z PROVE status'[y] = status[y]
    OBVIOUS
  <2> QED BY <1>1 DEF VerifyReversed, VerifyReversedFails, Unverified, TypeOK, Results
<1>3. First(y)
  BY <1>1, <1>2 DEF VerifyReversed, VerifyReversedFails
<1> QED BY <1>3 DEF PutBack

\* A rollback that reports a replace as reversed has put the rrset back as the
\* backup has it, if the report was written since the plan was made and nobody
\* has edited the zone since then; and no replace and no reversal of one leaves
\* an rrset empty.
THEOREM UndoIsSound == ASSUME IsFiniteSet(Values) PROVE Spec => UndoSound
<1> DEFINE Step == \A z \in Zones \ edited, k \in Keys :
                       pc = "rverify" /\ status[z][k] = "pending" /\ status'[z][k] = "applied"
                       /\ IsReplace(z, k) /\ current
                       => ValuesOf(zone[z], k) = ValuesOf(backup[z], k)
           UndoInv == Held /\ Fresh /\ ReportOfPlan /\ FetchedIsLive /\ Trail /\ PutBack
<1>1. Init => UndoInv
  BY DEF Init, Held, Fresh, ReportOfPlan, FetchedIsLive, Trail, Tracked, PutBack
<1>2. TypeOK /\ UndoInv /\ [Next]_vars => UndoInv'
  BY HeldPreserved, FreshPreserved, ReportOfPlanPreserved, FetchedIsLivePreserved, TrailPreserved,
     PutBackPreserved
<1>3. TypeOK /\ UndoInv /\ [Next]_vars => [Step]_vars
  BY RestoredStep DEF Step
<1>4. Spec => RollbackRestores
  BY <1>1, <1>2, <1>3, DnsTypeCorrect, PTL DEF Spec, RollbackRestores, Step
<1> QED BY <1>4, ValuesToValues, PTL DEF UndoSound
=============================================================================
