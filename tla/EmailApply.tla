----------------------------- MODULE EmailApply -----------------------------
(***************************************************************************)
(* `email apply` and its rollback (cmd/.../email_apply_cmd.go) on an       *)
(* account that its owner goes on editing.  As the workbench runs them:    *)
(* one run at a time, on email_apply_plan.json, email_backup.json and      *)
(* email_apply_report.json of the session's directory.  A cPanel call      *)
(* (external) is carried out or not, and either may come back as an error. *)
(***************************************************************************)
EXTENDS EmailPlan, FiniteSetsExt

CONSTANTS
    SourceStates,  \* what the source may hold
    DestStates,    \* what the destination may hold at the start
    OwnerEdits,    \* an item and the content its owner gives it
    Listings,      \* items that one list call of an inventory returns
    MaxEdits,      \* bound on those edits
    MaxRuns,       \* bound on plans, applies and rollbacks together
    MaxFaults,     \* bound on readings and calls that fail, and crashes
    Missing        \* a file that is absent or torn, an item not in a backup

AnyValue == UNION {Values(i) : i \in Items}
States == {s \in [Items -> AnyValue] : \A i \in Items : s[i] \in Values(i)}

VARIABLES
    dest,      \* the destination's mail settings
    source,    \* the source's
    plan,      \* email_apply_plan.json
    backup,    \* email_backup.json
    report,    \* email_apply_report.json: the ops and their results
    pc,        \* where the run is
    todo,      \* items the run has yet to read, to write or to roll back
    live,      \* what the run has read
    status,    \* its results so far
    degraded,  \* the rollback runs without a report
    raced,     \* items their owner has changed since the tool read them
    changed,   \* items changed since the plan by their owner, or by the
               \* rollback of an apply of an earlier plan
    unseen,    \* items that the plan's inventory of the destination had missed
    older,     \* the backup is of an apply of an earlier plan
    pre,       \* what was replaced by the apply whose backup is on disk; Unread
               \* if its owner had changed it after the tool's last look,
               \* Missing if not written
    edits, runs, faults

files   == <<plan, backup, report>>
locals  == <<pc, todo, live, status, degraded>>
ghosts  == <<raced, changed, unseen, older, pre>>
bounds  == <<edits, runs, faults>>
vars    == <<dest, source, files, locals, ghosts, bounds>>

Statuses == {"none", "write", "applied", "already", "refused", "unreadable", "failed",
             "skipped", "manual"}
OpType == [action : {"none", "skip", "manual", "create", "set"},
           value : AnyValue,
           was : AnyValue,
           targets : SUBSET In("forwarders")]
PlanType == [ops : [Items -> OpType], manualSections : SUBSET Flagged]
ReportType == [ops : [Items -> OpType], status : [Items -> Statuses]]
BackupType == [Items -> AnyValue \cup {Missing, Unread}]
Steps == {"idle", "fetch", "backup", "check", "write", "verify", "report",
          "rcheck", "rwrite", "rverify", "rreport"}

NoPlan    == [ops |-> [i \in Items |-> NoOp], manualSections |-> {}]
NoResults == [i \in Items |-> "none"]
Unset     == [i \in Items |-> Missing]
Op1(i)    == plan.ops[i]
First(i)  == i = Min(todo)

ASSUME EmailApplyAssumption ==
    /\ SourceStates \subseteq States /\ DestStates \subseteq States
    /\ OwnerEdits \subseteq Items \X AnyValue
    /\ Listings \subseteq UNION {SUBSET In("forwarders"), SUBSET In("autoresponders"), SUBSET In("filters")}
    /\ MaxEdits \in Nat /\ MaxRuns \in Nat /\ MaxFaults \in Nat
    /\ Missing \notin {Absent, Unread, ListError} \cup AnyValue
    /\ Missing \notin BackupType /\ Missing \notin ReportType
    /\ ListError \notin BackupType /\ \A S \in SUBSET Items : S # ListError

Init ==
    /\ dest \in DestStates /\ source \in SourceStates
    /\ plan = NoPlan /\ backup = Missing /\ report = Missing
    /\ pc = "idle" /\ todo = {} /\ live = Unset /\ status = NoResults /\ degraded = FALSE
    /\ raced = {} /\ changed = {} /\ unseen = {} /\ older = FALSE
    /\ pre = Unset
    /\ edits = 0 /\ runs = 0 /\ faults = 0

Fault == faults < MaxFaults /\ faults' = faults + 1

OwnerEdit(i, v) ==
    /\ edits < MaxEdits /\ edits' = edits + 1
    /\ dest[i] # v /\ v \in Values(i)
    /\ dest' = [dest EXCEPT ![i] = v]
    /\ raced' = raced \cup {i} /\ changed' = changed \cup {i}
    /\ UNCHANGED <<source, files, locals, unseen, older, pre, runs, faults>>

\* Lists that one call returns together.
Scope(i) ==
    IF Section[i] = "forwarders" THEN destForwardTargets(i, [j \in Items |-> "on"])
    ELSE IF Section[i] \in {"default_address", "routing"} THEN In(Section[i]) ELSE {i}

\* What a reading of a scope may give: the state, a body that could not be
\* fetched, or nothing.  The last two count as faults.
Readings(i) ==
    {[j \in Scope(i) |-> dest[j]]}
        \cup (IF faults < MaxFaults
              THEN {[j \in Scope(i) |-> ListError]}
                   \cup (IF i \in Contents /\ dest[i] # Absent THEN {[j \in Scope(i) |-> Unread]} ELSE {})
              ELSE {})

\* The tool looks at the given items of a reading.
Read(seen, r) ==
    /\ raced' = raced \ seen
    /\ faults' = faults + (IF \E j \in DOMAIN r : r[j] \in {Unread, ListError} THEN 1 ELSE 0)

-----------------------------------------------------------------------------
(* inventory email-plan, on inventories taken just before                  *)

\* What a failed call leaves out of an inventory: a list that is per domain
\* or per mailbox, a body, or a section with a flag.
Whole == [absent |-> {}, unread |-> {}, off |-> {}]
FailedCalls ==
    {[Whole EXCEPT !.absent = l] : l \in Listings}
        \cup {[Whole EXCEPT !.unread = {i}] : i \in Contents}
        \cup {[Whole EXCEPT !.off = {s}] : s \in Flagged}

\* A list that could not be had leaves a warning and no entries: it reads as
\* an empty one.
Inventory(side, failed) ==
    [i \in Items |->
        IF i \in failed.absent THEN Absent
        ELSE IF i \in failed.unread /\ side[i] # Absent THEN Unread
        ELSE side[i]]

BuildPlan ==
    /\ pc = "idle" /\ runs < MaxRuns
    /\ runs' = runs + 1
    /\ \E failed \in {Whole} \cup (IF faults < MaxFaults THEN FailedCalls ELSE {}), onSource \in BOOLEAN :
         /\ plan' = BuildEmailPlan(
                        Inventory(source, IF onSource THEN failed ELSE Whole),
                        Inventory(dest, IF onSource THEN Whole ELSE failed),
                        failed.off)
         /\ unseen' = IF onSource THEN {} ELSE {i \in failed.absent : dest[i] # Absent}
         /\ faults' = IF failed = Whole THEN faults ELSE faults + 1
    /\ changed' = {} /\ older' = TRUE
    /\ UNCHANGED <<dest, source, backup, report, locals, raced, pre, edits>>

-----------------------------------------------------------------------------
(* runEmailApplyWrites                                                     *)

writable == {i \in Items : Actionable(Op1(i))}

\* Without an actionable op no connection is made.  Scopes that no such op
\* needs are not read, and are not in the backup.
StartApply ==
    /\ pc = "idle" /\ runs < MaxRuns /\ plan # NoPlan
    /\ runs' = runs + 1
    /\ todo' = writable
    /\ live' = Unset /\ status' = NoResults
    /\ pc' = "fetch"
    /\ UNCHANGED <<dest, source, files, degraded, ghosts, edits, faults>>

\* The dial fails.
DialFails ==
    /\ pc = "fetch" /\ todo # {} /\ live = Unset
    /\ Fault
    /\ pc' = "idle" /\ todo' = {}
    /\ UNCHANGED <<dest, source, files, live, status, degraded, ghosts, edits, runs>>

fetchEmailLiveState(i) ==
    /\ pc = "fetch" /\ i \in todo /\ First(i)
    /\ \E r \in Readings(i) :
         /\ Read(Scope(i), r)
         /\ live' = [j \in Items |-> IF j \in DOMAIN r THEN r[j] ELSE live[j]]
    /\ todo' = todo \ Scope(i)
    /\ UNCHANGED <<dest, source, files, pc, status, degraded, changed, unseen, older, pre, edits, runs>>

\* The decision on every op, from the snapshot.
Decision(i) ==
    CASE Op1(i).action = "skip" -> "skipped"
      [] Op1(i).action = "manual" -> "manual"
      [] Op1(i).action = "none" -> "none"
      [] OTHER -> EvaluateEmailOp(i, Op1(i), live)

Evaluate ==
    /\ pc = "fetch" /\ todo = {}
    /\ status' = [i \in Items |-> Decision(i)]
    /\ todo' = {i \in Items : status'[i] = "write"}
    /\ pc' = IF todo' = {} THEN "report" ELSE "backup"
    /\ UNCHANGED <<dest, source, files, live, degraded, ghosts, bounds>>

\* A scope that could not be listed has no section in the backup.
BackedUp(i) == IF live[i] = ListError THEN Missing ELSE live[i]

WriteBackup ==
    /\ pc = "backup"
    /\ \/ /\ backup' = [i \in Items |-> BackedUp(i)]
          /\ pc' = "check" /\ older' = FALSE /\ pre' = Unset
          /\ UNCHANGED <<todo, status, faults>>
       \/ /\ Fault
          /\ backup' \in {backup, Missing}
          /\ pc' = "idle" /\ todo' = {} /\ status' = NoResults
          /\ pre' = IF backup' = backup THEN pre ELSE Unset
          /\ UNCHANGED older
    /\ live' = Unset
    /\ UNCHANGED <<dest, source, plan, report, degraded, raced, changed, unseen, edits, runs>>

\* The op is settled: on to the next one.
Settle(i, s, next, end) ==
    /\ status' = [status EXCEPT ![i] = s]
    /\ todo' = todo \ {i}
    /\ pc' = IF todo' = {} THEN end ELSE next

\* Mutant: the snapshot decides.
NoRecheck(i) ==
    /\ pc = "check" /\ i \in todo /\ First(i)
    /\ pc' = "write" /\ raced' = raced \ {i}
    /\ UNCHANGED <<dest, source, files, todo, live, status, degraded, changed, unseen, older, pre, bounds>>

\* Before a call that overwrites, the op is decided again.
Recheck(i) ==
    /\ pc = "check" /\ i \in todo /\ First(i)
    /\ \/ /\ i \in In("forwarders")
          /\ pc' = "write"
          /\ UNCHANGED <<todo, status, raced, faults>>
       \/ /\ i \notin In("forwarders")
          /\ \E r \in Readings(i) :
               /\ Read({i}, r)
               /\ LET d == EvaluateEmailOp(i, Op1(i), r) IN
                  IF d = "write" THEN pc' = "write" /\ UNCHANGED <<todo, status>>
                  ELSE Settle(i, d, "check", "report")
    /\ UNCHANGED <<dest, source, files, live, degraded, changed, unseen, older, pre, edits, runs>>

\* What a writing call leaves, when it is carried out.
Carried(i, value) == dest' = [dest EXCEPT ![i] = value]

\* add_forwarder, set_default_address, add_auto_responder, store_filter or
\* setmxcheck.  An error tells nothing of the effect.
WriteItem(i) ==
    /\ pc = "write" /\ i \in todo /\ First(i)
    /\ \E effect, ok \in BOOLEAN :
         /\ ok => effect
         /\ IF effect THEN /\ Carried(i, Op1(i).value)
                          /\ pre' = [pre EXCEPT ![i] = IF i \in raced THEN Unread ELSE dest[i]]
                     ELSE UNCHANGED <<dest, pre>>
         /\ IF ok THEN pc' = "verify" /\ UNCHANGED <<todo, status, faults>>
                  ELSE Fault /\ Settle(i, "failed", "check", "report")
    /\ UNCHANGED <<source, files, live, degraded, raced, changed, unseen, older, edits, runs>>

VerifyAfter(i) ==
    /\ pc = "verify" /\ i \in todo /\ First(i)
    /\ \E r \in Readings(i) :
         /\ Read({i}, r)
         /\ Settle(i, IF EmailOutcomePresent(i, Op1(i), r) THEN "applied" ELSE "failed",
                   "check", "report")
    /\ UNCHANGED <<dest, source, files, live, degraded, changed, unseen, older, pre, edits, runs>>

finishEmailReport ==
    /\ pc = "report"
    /\ \/ /\ report' = [ops |-> plan.ops, status |-> status]
          /\ UNCHANGED faults
       \/ /\ Fault
          /\ report' \in {report, Missing}
    /\ pc' = "idle" /\ status' = NoResults /\ live' = Unset
    /\ UNCHANGED <<dest, source, plan, backup, todo, degraded, raced, changed, unseen, older, pre, edits, runs>>

-----------------------------------------------------------------------------
(* runEmailRollback                                                        *)

\* Mutant: an op that was found in place is undone as well.
InverseOfAll ==
    IF report # Missing THEN {i \in Items : report.status[i] \in {"applied", "already"}}
    ELSE {i \in Settings : backup[i] \notin {Missing, Absent}}

\* ComputeEmailRollback; without a report, the degraded one.
RollbackOps ==
    IF report # Missing THEN {i \in Items : report.status[i] = "applied"}
    ELSE {i \in Settings : backup[i] \notin {Missing, Absent}}

\* Mutant: the plan, not the backup, says what was there.
RollbackToPlan(i) == IF i \in Settings THEN plan.ops[i].was ELSE Absent

\* What an inverse op leaves.
RollbackValue(i) == IF i \in Settings THEN backup[i] ELSE Absent

\* The report is asked for unless its loss is accepted; a backup that lacks
\* a value it should restore stops the rollback.
StartRollback ==
    /\ pc = "idle" /\ runs < MaxRuns /\ backup # Missing
    /\ \A i \in RollbackOps \cap Settings : backup[i] \notin {Missing, Absent}
    /\ runs' = runs + 1
    /\ degraded' = (report = Missing)
    /\ todo' = RollbackOps /\ status' = NoResults
    /\ pc' = IF todo' = {} THEN "rreport" ELSE "rcheck"
    /\ UNCHANGED <<dest, source, files, live, ghosts, edits, faults>>

Precheck(i, v) ==
    IF v = ListError THEN "failed"
    ELSE IF Same(i, RollbackValue(i), v) THEN "already"
    ELSE IF v = Unread THEN "unreadable"
    ELSE IF v = Absent THEN "refused"
    ELSE IF i \in In("forwarders") \/ degraded \/ Same(i, report.ops[i].value, v) THEN "write"
    ELSE "refused"

RollbackCheck(i) ==
    /\ pc = "rcheck" /\ i \in todo /\ First(i)
    /\ \E r \in Readings(i) :
         /\ Read({i}, r)
         /\ LET d == Precheck(i, r[i]) IN
            IF d = "write" THEN pc' = "rwrite" /\ UNCHANGED <<todo, status>>
            ELSE Settle(i, d, "rcheck", "rreport")
    /\ UNCHANGED <<dest, source, files, live, degraded, changed, unseen, older, pre, edits, runs>>

RollbackWrite(i) ==
    /\ pc = "rwrite" /\ i \in todo /\ First(i)
    /\ \E effect, ok \in BOOLEAN :
         /\ ok => effect
         /\ IF effect THEN Carried(i, RollbackValue(i)) ELSE UNCHANGED dest
         /\ changed' = IF effect /\ older THEN changed \cup {i} ELSE changed
         /\ IF ok THEN pc' = "rverify" /\ UNCHANGED <<todo, status, faults>>
                  ELSE Fault /\ Settle(i, "failed", "rcheck", "rreport")
    /\ UNCHANGED <<source, files, live, degraded, raced, unseen, older, pre, edits, runs>>

RollbackVerify(i) ==
    /\ pc = "rverify" /\ i \in todo /\ First(i)
    /\ \E r \in Readings(i) :
         /\ Read({i}, r)
         /\ Settle(i, IF r[i] # ListError /\ Same(i, RollbackValue(i), r[i]) THEN "applied" ELSE "failed",
                   "rcheck", "rreport")
    /\ UNCHANGED <<dest, source, files, live, degraded, changed, unseen, older, pre, edits, runs>>

\* The rollback's report is a file of its own.
RollbackReport ==
    /\ pc = "rreport"
    /\ pc' = "idle" /\ status' = NoResults /\ degraded' = FALSE
    /\ UNCHANGED <<dest, source, files, todo, live, ghosts, bounds>>

\* The process dies; a file it was writing is torn.
Crash ==
    /\ pc # "idle" /\ Fault
    /\ backup' \in (IF pc = "backup" THEN {backup, Missing} ELSE {backup})
    /\ report' \in (IF pc = "report" THEN {report, Missing} ELSE {report})
    /\ pre' = IF backup' = backup THEN pre ELSE Unset
    /\ pc' = "idle" /\ todo' = {} /\ live' = Unset /\ status' = NoResults /\ degraded' = FALSE
    /\ UNCHANGED <<dest, source, plan, raced, changed, unseen, older, edits, runs>>

Next ==
    \/ BuildPlan \/ StartApply \/ DialFails \/ Evaluate \/ WriteBackup \/ finishEmailReport
    \/ StartRollback \/ RollbackReport \/ Crash
    \/ \E e \in OwnerEdits : OwnerEdit(e[1], e[2])
    \/ \E i \in Items :
         \/ fetchEmailLiveState(i) \/ Recheck(i) \/ WriteItem(i) \/ VerifyAfter(i)
         \/ RollbackCheck(i) \/ RollbackWrite(i) \/ RollbackVerify(i)

Spec == Init /\ [][Next]_vars

-----------------------------------------------------------------------------
TypeOK ==
    /\ dest \in States /\ source \in States
    /\ plan \in PlanType
    /\ backup \in BackupType \cup {Missing}
    /\ report \in ReportType \cup {Missing}
    /\ pc \in Steps /\ todo \subseteq Items
    /\ live \in [Items -> AnyValue \cup {Missing, Unread, ListError}]
    /\ status \in [Items -> Statuses]
    /\ degraded \in BOOLEAN
    /\ raced \subseteq Items /\ changed \subseteq Items /\ unseen \subseteq Items
    /\ older \in BOOLEAN
    /\ pre \in BackupType
    /\ edits \in 0..MaxEdits /\ runs \in 0..MaxRuns /\ faults \in 0..MaxFaults

\* A content that its owner put in place after the plan was reviewed is not
\* replaced: an apply replaces nothing, or what the plan had seen there; a
\* rollback with a report replaces what the apply had put there.  Excepted is
\* an edit that falls between the tool's last reading and its call.
OnlyReviewedReplaced ==
    [][\A i \in Items :
         /\ dest'[i] # dest[i] /\ edits' = edits
         /\ i \notin raced /\ ~degraded
         => IF pc = "write" THEN dest[i] = Absent \/ Same(i, Op1(i).was, dest[i])
            ELSE Same(i, report.ops[i].value, dest[i])]_vars

\* Whatever the apply of the backup on disk has replaced so far is in that
\* backup, whichever readings failed, however late its turn came, and whichever
\* later apply gave up before it had a backup of its own.
BackupIsPreImage ==
    \A i \in Items : pre[i] \notin {Missing, Unread} =>
        /\ backup # Missing
        /\ Same(i, pre[i], RollbackValue(i))

\* A rollback that reports an item as undone, or as undone already, leaves it
\* as it was before the apply of the backup replaced it, whichever report lies
\* beside that backup.
RollbackRestores ==
    \A i \in Items :
        pc \in {"rcheck", "rwrite", "rverify", "rreport"} /\ i \notin raced
            /\ status[i] \in {"applied", "already"} /\ pre[i] \notin {Missing, Unread}
        => Same(i, pre[i], dest[i])

\* A clean verification of a plan without manual ops and of complete
\* inventories: the destination has all that the source has.
CleanMeansMigrated ==
    /\ Clean(plan, dest)
    /\ \A i \in Items : source[i] # Absent => Op1(i).action \notin {"none", "manual"}
    => \A i \in Items : source[i] # Absent => Same(i, source[i], dest[i])

\* An apply that refuses an op for what it finds; but for addresses with
\* several forwarders, where the op's own siblings change the targets.
Refuses(i) ==
    /\ status[i] = "refused" /\ pc \in {"backup", "check", "write", "verify", "report"}
    /\ i \in In("forwarders") => Scope(i) = {i}

\* Whatever an earlier run of the plan did, undid or left half-done, an apply
\* refuses only an item that was changed since the plan, by somebody else or by
\* undoing an apply of an earlier plan, or one that the plan's inventory of the
\* destination had missed.
RefusalExplained == \A i \in Items : Refuses(i) => i \in changed \cup unseen

\* `email apply` keeps what a guarded apply promises.
Promise == INSTANCE GuardedApply WITH
    Contents <- AnyValue \cup {Missing, Unread},
    Restorable <- Settings,
    None <- ListError,
    live <- dest,
    want <- [i \in Items |-> IF Actionable(Op1(i)) THEN Op1(i).value ELSE ListError],
    saved <- IF backup = Missing THEN ListError ELSE [i \in Items |-> RollbackValue(i)],
    written <- {i \in Items : pre[i] # Missing},
    undo <- IF report = Missing THEN ListError ELSE {i \in Items : report.status[i] = "applied"}

\* Nothing is written before the backup is on disk, only planned values are,
\* and a rollback undoes only what the tool itself wrote.
KeepsPromise == Promise!Spec

\* The records are sound: the backup is what was replaced, a rollback brings it
\* back, and a refusal has its cause outside the tool's own runs of the plan,
\* whichever of them stopped half-way (runEmailApplyWrites, runEmailRollback,
\* EvaluateEmailOp).
RecordsSound == TypeOK /\ BackupIsPreImage /\ RollbackRestores /\ RefusalExplained
=============================================================================
