------------------------------ MODULE DnsApply ------------------------------
(***************************************************************************)
(* `dns apply` and its rollback (cmd/.../dns_apply_cmd.go) against live    *)
(* zones that other people edit at the same time.                          *)
(*                                                                         *)
(* The workbench gives every run the same files: dns_import_plan.json,     *)
(* dns_backup.json and dns_apply_report.json of the session's directory,   *)
(* and its slot admits one run at a time, so the files are read in place.  *)
(* mass_edit_zone (external) is one edit guarded by the zone's serial; an  *)
(* added record that exists is a no-op.  Calls are not retried.            *)
(***************************************************************************)
EXTENDS DnsPlan

CONSTANTS
    Zones,        \* numbers: the plan lists its zones in order
    SourceZones,  \* what the source's zones may hold
    DestZones,    \* what the destination's may hold at the start
    ForeignRecs,  \* a zone and a record that somebody else adds or removes
    MaxEdits,     \* bound on foreign edits
    MaxRuns,      \* bound on plans, applies and rollbacks together
    Missing       \* a file that is absent or torn

ASSUME DnsApplyAssumption ==
    /\ Zones \subseteq Nat /\ Zones # {}
    /\ SourceZones \subseteq [Zones -> SUBSET Records]
    /\ DestZones \subseteq [Zones -> SUBSET Records]
    /\ ForeignRecs \subseteq Zones \X Records
    /\ MaxEdits \in Nat /\ MaxRuns \in Nat
    /\ Missing \notin [Zones -> SUBSET Records]
    /\ Missing \notin [plan : [Zones -> [Keys -> Ops]],
                       status : [Zones -> [Keys -> {"none", "pending", "applied", "skipped", "manual", "failed", "refused"}]]]

VARIABLES
    zone,     \* the destination's zones
    serial,   \* and the serials of their SOA records
    source,   \* the source's zones
    plan,     \* dns_import_plan.json
    backup,   \* dns_backup.json: the records of the writable zones
    report,   \* dns_apply_report.json
    pc,       \* where the run is
    todo,     \* zones the run has yet to fetch or to process
    live,     \* records and
    guard,    \* serials the run has fetched
    status,   \* the run's op results; "pending" between a write and its check
    edited,   \* zones with a foreign edit since the plan was made
    current,  \* the report was written since the plan was made
    edits, runs

netVars  == <<zone, serial>>
fileVars == <<plan, backup, report>>
runVars  == <<pc, todo, live, guard, status>>
vars     == <<zone, serial, source, plan, backup, report, pc, todo, live, guard,
              status, edited, current, edits, runs>>

Statuses == {"none", "pending", "applied", "skipped", "manual", "failed", "refused"}
Results  == [Zones -> [Keys -> Statuses]]
Reports  == [plan : [Zones -> [Keys -> Ops]], status : Results]
Steps    == {"idle", "fetch", "backup", "write", "verify", "report",
             "rfetch", "rwrite", "rverify"}

NoPlan    == [z \in Zones |-> [k \in Keys |-> Decision("none", {}, {})]]
NoResults == [z \in Zones |-> [k \in Keys |-> "none"]]

First(z) == z \in todo /\ \A y \in todo : z <= y

writableZones == {z \in Zones : \E k \in Keys : Writable(plan[z][k])}

Init ==
    /\ zone \in DestZones
    /\ source \in SourceZones
    /\ serial = [z \in Zones |-> 0]
    /\ plan = NoPlan
    /\ backup = Missing /\ report = Missing
    /\ pc = "idle" /\ todo = {}
    /\ live = [z \in Zones |-> {}] /\ guard = [z \in Zones |-> 0]
    /\ status = NoResults
    /\ edited = {} /\ current = FALSE
    /\ edits = 0 /\ runs = 0

-----------------------------------------------------------------------------
(* The zone editor of the server, used by people and by other programs.    *)

Edit(z, r) ==
    /\ edits < MaxEdits
    /\ edits' = edits + 1
    /\ zone' = [zone EXCEPT ![z] = IF r \in zone[z] THEN zone[z] \ {r} ELSE zone[z] \cup {r}]
    /\ serial' = [serial EXCEPT ![z] = serial[z] + 1]
    /\ edited' = edited \cup {z}
    /\ UNCHANGED <<source, fileVars, runVars, current, runs>>

\* The edit that a mass_edit_zone call makes.
MassEdit(z, gone, new) ==
    /\ zone' = [zone EXCEPT ![z] = (zone[z] \ gone) \cup new]
    /\ serial' = [serial EXCEPT ![z] = serial[z] + 1]

\* Mutant: the serial is not compared.
SerialAny(z) == TRUE

SerialMatches(z) == serial[z] = guard[z]

-----------------------------------------------------------------------------
(* inventory dns-plan, run by the analysis on fresh inventories            *)

\* A zone that is missing or unreadable on either side goes to manual_zones,
\* without ops.
BuildDNSPlan ==
    /\ pc = "idle" /\ runs < MaxRuns
    /\ runs' = runs + 1
    /\ \E available \in SUBSET Zones :
           plan' = [z \in Zones |->
                       IF z \in available THEN BuildZonePlan(source[z], zone[z]) ELSE NoPlan[z]]
    /\ edited' = {} /\ current' = FALSE
    /\ UNCHANGED <<netVars, source, backup, report, runVars, edits>>

-----------------------------------------------------------------------------
(* dns apply --yes-apply-writes                                            *)

\* A plan without writable ops is reported without a connection or a backup.
StartApply ==
    /\ pc = "idle" /\ runs < MaxRuns
    /\ plan # NoPlan
    /\ runs' = runs + 1
    /\ status' = NoResults
    /\ todo' = IF writableZones = {} THEN Zones ELSE writableZones
    /\ pc' = IF writableZones = {} THEN "write" ELSE "fetch"
    /\ UNCHANGED <<netVars, source, fileVars, live, guard, edited, current, edits>>

Fetched(z) ==
    /\ live' = [live EXCEPT ![z] = zone[z]]
    /\ guard' = [guard EXCEPT ![z] = serial[z]]

FetchZone(z) ==
    /\ pc = "fetch" /\ First(z)
    /\ Fetched(z)
    /\ todo' = todo \ {z}
    /\ pc' = IF todo' = {} THEN "backup" ELSE "fetch"
    /\ UNCHANGED <<netVars, source, fileVars, status, edited, current, edits, runs>>

\* A fetch, the serial's extraction or the dial fails: nothing was written.
FetchFails(z) ==
    /\ pc = "fetch" /\ First(z)
    /\ pc' = "idle" /\ todo' = {}
    /\ UNCHANGED <<netVars, source, fileVars, live, guard, status, edited, current, edits, runs>>

\* Zones without a writable op are not in the backup.
BackupFile(z) == IF z \in writableZones THEN live[z] ELSE {}

WriteBackup ==
    /\ pc = "backup"
    /\ backup' = [z \in Zones |-> BackupFile(z)]
    /\ pc' = "write" /\ todo' = Zones
    /\ UNCHANGED <<netVars, source, plan, report, live, guard, status, edited, current, edits, runs>>

\* os.WriteFile truncates first: a failure leaves the old file or a torn one.
BackupFails ==
    /\ pc = "backup"
    /\ backup' \in {backup, Missing}
    /\ pc' = "idle" /\ todo' = {}
    /\ UNCHANGED <<netVars, source, plan, report, live, guard, status, edited, current, edits, runs>>

\* Mutant: the number of records is not compared.
ReplacePreconditionUncounted(op, vals) ==
    IF vals = {} \/ op.dest = {} THEN "refused"
    ELSE IF Desired(op) \subseteq vals THEN "skipped"
    ELSE IF op.dest \subseteq vals THEN "pending"
    ELSE "refused"

dnsReplacePrecondition(op, vals) ==
    IF vals = {} \/ op.dest = {} \/ Cardinality(vals) # Cardinality(op.dest) THEN "refused"
    ELSE IF Desired(op) \subseteq vals THEN "skipped"
    ELSE IF op.dest \subseteq vals THEN "pending"
    ELSE "refused"

\* The result of an op before anything is written: "pending" if it is active.
Classified(z, k) ==
    LET op == plan[z][k] IN
    IF op.action = "none" THEN "none"
    ELSE IF op.action = "skip" THEN "skipped"
    ELSE IF op.action = "manual" THEN "manual"
    ELSE IF op.action = "add" THEN "pending"
    ELSE dnsReplacePrecondition(op, ValuesOf(live[z], k))

activeWrites(z) == {k \in Keys : Classified(z, k) = "pending"}

Removals(z) ==
    UNION {RRset(k, plan[z][k].dest) : k \in {x \in activeWrites(z) : plan[z][x].action = "replace"}}
Additions(z) == UNION {RRset(k, Desired(plan[z][k])) : k \in activeWrites(z)}

\* Active ops end as s, the others as classified.
Settled(z, s) ==
    [status EXCEPT ![z] = [k \in Keys |-> IF k \in activeWrites(z) THEN s ELSE Classified(z, k)]]

Advance(z) ==
    /\ todo' = todo \ {z}
    /\ pc' = IF todo' = {} THEN "report" ELSE "write"

NothingToWrite(z) ==
    /\ pc = "write" /\ First(z)
    /\ activeWrites(z) = {}
    /\ status' = Settled(z, "pending")
    /\ Advance(z)
    /\ UNCHANGED <<netVars, source, fileVars, live, guard, edited, current, edits, runs>>

WriteZone(z) ==
    /\ pc = "write" /\ First(z)
    /\ activeWrites(z) # {} /\ SerialMatches(z)
    /\ MassEdit(z, Removals(z), Additions(z))
    /\ status' = Settled(z, "pending")
    /\ pc' = "verify"
    /\ UNCHANGED <<source, fileVars, todo, live, guard, edited, current, edits, runs>>

StaleSerial(z) ==
    /\ pc = "write" /\ First(z)
    /\ activeWrites(z) # {} /\ ~SerialMatches(z)
    /\ status' = Settled(z, "refused")
    /\ Advance(z)
    /\ UNCHANGED <<netVars, source, fileVars, live, guard, edited, current, edits, runs>>

\* The call fails, or is carried out and its answer is lost.
WriteFails(z) ==
    /\ pc = "write" /\ First(z)
    /\ activeWrites(z) # {}
    /\ \/ UNCHANGED netVars
       \/ SerialMatches(z) /\ MassEdit(z, Removals(z), Additions(z))
    /\ status' = Settled(z, "failed")
    /\ Advance(z)
    /\ UNCHANGED <<source, fileVars, live, guard, edited, current, edits, runs>>

dnsVerifyAddOpPresent(op, vals)    == Desired(op) \subseteq vals
dnsOldValuesStillPresent(op, vals) == op.dest \cap vals # {}

Observed(op, vals) ==
    /\ dnsVerifyAddOpPresent(op, vals)
    /\ op.action = "replace" => ~dnsOldValuesStillPresent(op, vals)

VerifyZone(z) ==
    /\ pc = "verify" /\ First(z)
    /\ status' = [status EXCEPT ![z] = [k \in Keys |->
           IF status[z][k] # "pending" THEN status[z][k]
           ELSE IF Observed(plan[z][k], ValuesOf(zone[z], k)) THEN "applied" ELSE "failed"]]
    /\ Advance(z)
    /\ UNCHANGED <<netVars, source, fileVars, live, guard, edited, current, edits, runs>>

Unverified(z) ==
    [status EXCEPT ![z] = [k \in Keys |->
        IF status[z][k] = "pending" THEN "failed" ELSE status[z][k]]]

VerifyFetchFails(z) ==
    /\ pc = "verify" /\ First(z)
    /\ status' = Unverified(z)
    /\ Advance(z)
    /\ UNCHANGED <<netVars, source, fileVars, live, guard, edited, current, edits, runs>>

finishDNSReport ==
    /\ pc = "report"
    /\ report' = [plan |-> plan, status |-> status] /\ current' = TRUE
    /\ pc' = "idle"
    /\ UNCHANGED <<netVars, source, plan, backup, todo, live, guard, status, edited, edits, runs>>

ReportFails ==
    /\ pc = "report"
    /\ report' \in {report, Missing}
    /\ pc' = "idle"
    /\ UNCHANGED <<netVars, source, plan, backup, todo, live, guard, status, edited, current, edits, runs>>

-----------------------------------------------------------------------------
(* dns apply --rollback: the inverse of the ops the report calls applied.  *)
(* Without a readable report it refuses, or, told to accept the loss,      *)
(* leaves every op to the operator: in neither case is anything written.   *)

\* Nobody checks that the report and the backup come from the same run.
Targets(z)      == {k \in Keys : report.status[z][k] = "applied"}
rollbackZones   == {z \in Zones : Targets(z) # {}}
Written(z, k)   == Desired(report.plan[z][k])
IsReplace(z, k) == report.plan[z][k].action = "replace"

\* Mutant: the records of the name are restored, whatever their type.
BackupRecordsOfName(z, k) ==
    {v \in Values : \E r \in backup[z] : r.key.name = k.name /\ r.val = v}

dnsBackupRecordsForOp(z, k) == ValuesOf(backup[z], k)

StartRollback ==
    /\ pc = "idle" /\ runs < MaxRuns
    /\ backup # Missing /\ report # Missing
    /\ rollbackZones # {}
    /\ runs' = runs + 1
    /\ status' = NoResults
    /\ todo' = rollbackZones /\ pc' = "rfetch"
    /\ UNCHANGED <<netVars, source, fileVars, live, guard, edited, current, edits>>

RollbackFetch(z) ==
    /\ pc = "rfetch" /\ First(z)
    /\ Fetched(z)
    /\ pc' = "rwrite"
    /\ UNCHANGED <<netVars, source, fileVars, todo, status, edited, current, edits, runs>>

\* The rollback's own report is for the operator: no later run reads it.
RollbackAdvance(z) ==
    /\ todo' = todo \ {z}
    /\ pc' = IF todo' = {} THEN "idle" ELSE "rfetch"

RollbackFetchFails(z) ==
    /\ pc = "rfetch" /\ First(z)
    /\ status' = [status EXCEPT ![z] = [k \in Keys |-> IF k \in Targets(z) THEN "failed" ELSE "none"]]
    /\ RollbackAdvance(z)
    /\ UNCHANGED <<netVars, source, fileVars, live, guard, edited, current, edits, runs>>

\* findRecordLine for each record of the op
FoundLines(z, k) == Written(z, k) \cap ValuesOf(live[z], k)

RollbackResult(z, k) ==
    IF k \notin Targets(z) THEN "none"
    ELSE IF FoundLines(z, k) = {} THEN IF IsReplace(z, k) THEN "refused" ELSE "skipped"
    ELSE IF IsReplace(z, k) /\ dnsBackupRecordsForOp(z, k) = {} THEN "refused"
    ELSE "pending"

Reversed(z)  == {k \in Keys : RollbackResult(z, k) = "pending"}
Undone(z)    == UNION {RRset(k, FoundLines(z, k)) : k \in Reversed(z)}
Restored(z)  == UNION {RRset(k, dnsBackupRecordsForOp(z, k)) : k \in {x \in Reversed(z) : IsReplace(z, x)}}

RollbackSettled(z, s) ==
    [status EXCEPT ![z] = [k \in Keys |-> IF k \in Reversed(z) THEN s ELSE RollbackResult(z, k)]]

NothingToReverse(z) ==
    /\ pc = "rwrite" /\ First(z)
    /\ Reversed(z) = {}
    /\ status' = RollbackSettled(z, "pending")
    /\ RollbackAdvance(z)
    /\ UNCHANGED <<netVars, source, fileVars, live, guard, edited, current, edits, runs>>

ReverseZone(z) ==
    /\ pc = "rwrite" /\ First(z)
    /\ Reversed(z) # {} /\ SerialMatches(z)
    /\ MassEdit(z, Undone(z), Restored(z))
    /\ status' = RollbackSettled(z, "pending")
    /\ pc' = "rverify"
    /\ UNCHANGED <<source, fileVars, todo, live, guard, edited, current, edits, runs>>

ReverseRefused(z) ==
    /\ pc = "rwrite" /\ First(z)
    /\ Reversed(z) # {} /\ ~SerialMatches(z)
    /\ status' = RollbackSettled(z, "refused")
    /\ RollbackAdvance(z)
    /\ UNCHANGED <<netVars, source, fileVars, live, guard, edited, current, edits, runs>>

ReverseFails(z) ==
    /\ pc = "rwrite" /\ First(z)
    /\ Reversed(z) # {}
    /\ \/ UNCHANGED netVars
       \/ SerialMatches(z) /\ MassEdit(z, Undone(z), Restored(z))
    /\ status' = RollbackSettled(z, "failed")
    /\ RollbackAdvance(z)
    /\ UNCHANGED <<source, fileVars, live, guard, edited, current, edits, runs>>

VerifyReversed(z) ==
    /\ pc = "rverify" /\ First(z)
    /\ status' = [status EXCEPT ![z] = [k \in Keys |->
           IF status[z][k] # "pending" THEN status[z][k]
           ELSE IF /\ Written(z, k) \cap ValuesOf(zone[z], k) = {}
                   /\ IsReplace(z, k) => dnsBackupRecordsForOp(z, k) \subseteq ValuesOf(zone[z], k)
                THEN "applied" ELSE "failed"]]
    /\ RollbackAdvance(z)
    /\ UNCHANGED <<netVars, source, fileVars, live, guard, edited, current, edits, runs>>

VerifyReversedFails(z) ==
    /\ pc = "rverify" /\ First(z)
    /\ status' = Unverified(z)
    /\ RollbackAdvance(z)
    /\ UNCHANGED <<netVars, source, fileVars, live, guard, edited, current, edits, runs>>

-----------------------------------------------------------------------------
\* The process dies; a file it was writing may be torn.
Crash ==
    /\ pc # "idle"
    /\ backup' \in IF pc = "backup" THEN {backup, Missing} ELSE {backup}
    /\ report' \in IF pc = "report" THEN {report, Missing} ELSE {report}
    /\ pc' = "idle" /\ todo' = {}
    /\ UNCHANGED <<netVars, source, plan, live, guard, status, edited, current, edits, runs>>

ApplyStep(z) ==
    \/ FetchZone(z) \/ FetchFails(z)
    \/ NothingToWrite(z) \/ WriteZone(z) \/ StaleSerial(z) \/ WriteFails(z)
    \/ VerifyZone(z) \/ VerifyFetchFails(z)

RollbackStep(z) ==
    \/ RollbackFetch(z) \/ RollbackFetchFails(z)
    \/ NothingToReverse(z) \/ ReverseZone(z) \/ ReverseRefused(z) \/ ReverseFails(z)
    \/ VerifyReversed(z) \/ VerifyReversedFails(z)

Next ==
    \/ \E f \in ForeignRecs : Edit(f[1], f[2])
    \/ BuildDNSPlan \/ StartApply \/ StartRollback
    \/ \E z \in Zones : ApplyStep(z) \/ RollbackStep(z)
    \/ WriteBackup \/ BackupFails
    \/ finishDNSReport \/ ReportFails
    \/ Crash

Spec == Init /\ [][Next]_vars

-----------------------------------------------------------------------------
(* Properties                                                              *)

\* Types.  A run that writes has a backup on disk, and a rollback works from a
\* backup and a report.
TypeOK ==
    /\ zone \in [Zones -> SUBSET Records] /\ live \in [Zones -> SUBSET Records]
    /\ serial \in [Zones -> Nat] /\ guard \in [Zones -> Nat]
    /\ source \in [Zones -> SUBSET Records]
    /\ plan \in [Zones -> [Keys -> Ops]]
    /\ backup \in [Zones -> SUBSET Records] \cup {Missing}
    /\ report \in Reports \cup {Missing}
    /\ status \in Results
    /\ pc \in Steps
    /\ todo \in SUBSET Zones /\ edited \in SUBSET Zones /\ current \in BOOLEAN
    /\ edits \in 0 .. MaxEdits /\ runs \in 0 .. MaxRuns
    /\ pc \in {"write", "verify"} /\ writableZones # {} => backup # Missing
    /\ pc \in {"rfetch", "rwrite", "rverify"} => backup # Missing /\ report # Missing

Applying == pc = "write"
Undoing  == pc = "rwrite"
Changed(z) == zone'[z] # zone[z]
Gone(z)    == zone[z] \ zone'[z]

\* Backup-or-nothing: whenever an apply changes a zone, the backup on disk
\* holds exactly the records that the zone has at that moment, whoever edited
\* it between the fetch and the write (runDNSApplyWrites, the serial guard).
BackupIsPreImage ==
    [][\A z \in Zones : Applying /\ Changed(z) /\ edits' = edits
           => backup # Missing /\ backup[z] = zone[z]]_vars

\* An apply removes a record only as part of a replace whose rrset holds,
\* when it is replaced, exactly the values the operator saw in the plan
\* (dnsReplacePrecondition).
OnlyReviewedRemoved ==
    [][\A z \in Zones : Applying /\ edits' = edits =>
           \A r \in Gone(z) :
               /\ plan[z][r.key].action = "replace"
               /\ ValuesOf(zone[z], r.key) = plan[z][r.key].dest]_vars

\* No write of the tool empties an rrset, except the rollback of an add: a
\* replace and its reversal go from values to values, even when the report
\* and the backup come from different runs.
ReplaceNeverEmpties ==
    [][\A z \in Zones : (Applying \/ Undoing) /\ edits' = edits =>
           \A k \in Keys : HasRRset(zone[z], k) /\ ~HasRRset(zone'[z], k)
               => Undoing /\ ~IsReplace(z, k)]_vars

CnameShares(recs, n) ==
    /\ HasRRset(recs, [type |-> "CNAME", name |-> n])
    /\ \E t \in Types \ {"CNAME"} : HasRRset(recs, [type |-> t, name |-> n])

\* An apply to a zone that nobody else has edited since the plan gives no
\* CNAME company (crossTypeConflict).
CnameStaysAlone ==
    [][\A z \in Zones \ edited : Applying /\ edits' = edits =>
           \A n \in Names : CnameShares(zone'[z], n) => CnameShares(zone[z], n)]_vars

\* A replace that the run reports as applied is one that `dns verify` would
\* certify, if nobody edits the zone between the write and the check; an
\* ip-map that folds two addresses into one is the exception.
AppliedIsCertified ==
    [][\A z \in Zones, k \in Keys :
           /\ pc = "verify" /\ status[z][k] = "pending" /\ status'[z][k] = "applied"
           /\ serial[z] = guard[z] + 1
           /\ plan[z][k].action = "replace"
           /\ Cardinality(Desired(plan[z][k])) = Cardinality(plan[z][k].records)
           => verifyOp(plan[z][k], k, zone[z]) = "applied"]_vars

\* A rollback that reports a replace as reversed has put the rrset back as the
\* backup has it, if the report was written since the plan was made and the
\* zone has had no foreign edit since then: also when a later apply rewrote the
\* backup and died before its report.
RollbackRestores ==
    [][\A z \in Zones \ edited, k \in Keys :
           pc = "rverify" /\ status[z][k] = "pending" /\ status'[z][k] = "applied"
           /\ IsReplace(z, k) /\ current
           => ValuesOf(zone[z], k) = ValuesOf(backup[z], k)]_vars

\* What a rollback undoes is as the backup has it, and nothing that a replace
\* wrote is emptied (runDNSRollback).
UndoSound == RollbackRestores /\ ReplaceNeverEmpties
=============================================================================
