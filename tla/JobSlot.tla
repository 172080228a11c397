------------------------------- MODULE JobSlot -------------------------------
(***************************************************************************)
(* The single-writer slot and the job journal of the local web UI          *)
(* (internal/webui: job.go, job_journal.go, accept.go, and the slot part   *)
(* of workbench_exec.go and workbench_orchestrator.go).                    *)
(*                                                                         *)
(* Every HTTP request is a goroutine.  A request that writes the artifact  *)
(* directory takes the slot (jobManager.busy, under a mutex), runs one or  *)
(* more subprocesses of the tool and frees the slot.  A workbench action   *)
(* and the orchestrator also record themselves in job.json, which survives *)
(* the process; a page view compares job.json with the slot.               *)
(*                                                                         *)
(* The program does not control two things: a write of job.json may fail,  *)
(* which is ignored, and a subprocess may outlive a UI that was killed.    *)
(* The ghost `behind` has "journal" while the last write of job.json by    *)
(* this UI failed, and "checklist" when such an orphan has changed the     *)
(* checklist since the orchestrator read it.                               *)
(***************************************************************************)
EXTENDS Naturals

CONSTANTS
    Requests,   \* the HTTP requests of a behaviour
    Offered,    \* the kinds that each of them may be
    Found,      \* the verdicts that the UI may find in the directory
    Nobody      \* no request

RequestKinds == {"run",            \* POST /run: the analysis pipeline
                 "exec_pipeline",  \* POST exec, action run_pipeline
                 "exec_read",      \* POST exec, a plan or verify action
                 "exec_write",     \* POST exec, an apply or rollback action
                 "migrate",        \* POST start-migration: the orchestrator
                 "accept",         \* POST accept
                 "view"}           \* GET of a workbench screen

ASSUME SlotAssumption ==
    /\ Offered \in [Requests -> SUBSET RequestKinds]
    /\ Found \subseteq {"absent", "ready", "blocked"}
    /\ Nobody \notin Requests

VARIABLES
    up,         \* the UI process is running
    busy,       \* jobManager.busy
    reserved,   \* jobManager.reserved: the workbench action that holds the slot
    analysis,   \* jobManager.status.State
    journal,    \* job.json
    checklist,  \* the verdict of migration_checklist.json
    kind,       \* what each request asks for
    pc,         \* where its handler is
    step,       \* the subprocess its handler is at
    failed,     \* its handler saw a subprocess fail
    seen,       \* the slot as a page view read it
    shown,      \* the job record a page view presents
    child,      \* requests whose subprocess is running
    orphan,     \* requests whose subprocess outlived the UI
    behind      \* ghost: what changed behind the handlers' back

slotVars == <<up, busy, reserved, analysis, journal, checklist, kind, pc, step, failed,
              seen, shown, child, orphan, behind>>

-----------------------------------------------------------------------------
(* Requests                                                                *)

\* Workbench actions publish their identity and keep the journal.
Journaled(q) == kind[q] \in {"exec_pipeline", "exec_read", "exec_write", "migrate"}

\* pipelineSteps has five steps, the fourth (dns-plan) tolerant, the fifth
\* writes the checklist.  The orchestrator writes content, then writes and
\* verifies email and cron.
StepCount(q)       == IF kind[q] \in {"run", "exec_pipeline", "migrate"} THEN 5 ELSE 1
Tolerant(q, i)     == kind[q] \in {"run", "exec_pipeline"} /\ i = 4
WritesChecklist(q, i) ==
    \/ kind[q] \in {"run", "exec_pipeline"} /\ i = 5
    \/ kind[q] = "accept"
WritePhase(i)      == i \in {1, 2, 4}

\* The handler is inside the critical section of the slot.
Holding(q) == pc[q] \in {"journal", "phase", "step", "child", "finish", "release"}

\* isApplyBlockedByChecklist: a missing checklist does not block.
ApplyBlocked == checklist = "blocked"

NoJournal == [state |-> "none", run |-> Nobody]

SlotInit ==
    /\ up = TRUE
    /\ busy = FALSE
    /\ reserved = Nobody
    /\ analysis = "idle"
    /\ journal = NoJournal
    /\ checklist \in Found
    /\ kind = [q \in Requests |-> "view"]
    /\ pc = [q \in Requests |-> "idle"]
    /\ step = [q \in Requests |-> 1]
    /\ failed = [q \in Requests |-> FALSE]
    /\ seen = [q \in Requests |-> FALSE]
    /\ shown = [q \in Requests |-> NoJournal]
    /\ child = {}
    /\ orphan = {}
    /\ behind = {}

FirstStop(k) ==
    CASE k \in {"exec_write", "migrate"} -> "gate"
      [] k = "view"                      -> "slot"
      [] OTHER                           -> "reserve"

Arrive(q, k) ==
    /\ up /\ pc[q] = "idle"
    /\ kind' = [kind EXCEPT ![q] = k]
    /\ pc' = [pc EXCEPT ![q] = FirstStop(k)]
    /\ UNCHANGED <<up, busy, reserved, analysis, journal, checklist, step, failed,
                   seen, shown, child, orphan, behind>>

\* The governance gate of a write action and CanStartMigration are read before
\* the slot is taken; the orchestrator also needs a checklist.
Gate(q) ==
    /\ pc[q] = "gate"
    /\ pc' = [pc EXCEPT ![q] =
                IF ApplyBlocked \/ (kind[q] = "migrate" /\ checklist = "absent")
                THEN "done" ELSE "reserve"]
    /\ UNCHANGED <<up, busy, reserved, analysis, journal, checklist, kind, step, failed,
                   seen, shown, child, orphan, behind>>

-----------------------------------------------------------------------------
(* The slot                                                                *)

\* Mutant: accept takes the slot without looking at busy.
ReserveUnchecked(q) ==
    /\ pc[q] = "reserve"
    /\ kind[q] # "accept" => ~busy
    /\ busy' = TRUE
    /\ reserved' = IF Journaled(q) THEN q ELSE reserved
    /\ analysis' = IF kind[q] = "run" THEN "running" ELSE analysis
    /\ pc' = [pc EXCEPT ![q] = IF Journaled(q) THEN "journal" ELSE "step"]
    /\ UNCHANGED <<up, journal, checklist, kind, step, failed, seen, shown, child, orphan, behind>>

\* start, tryReserve and tryReserveFor: one critical section of the mutex.
Reserve(q) ==
    /\ pc[q] = "reserve"
    /\ ~busy
    /\ busy' = TRUE
    /\ reserved' = IF Journaled(q) THEN q ELSE reserved
    /\ analysis' = IF kind[q] = "run" THEN "running" ELSE analysis
    /\ pc' = [pc EXCEPT ![q] = IF Journaled(q) THEN "journal" ELSE "step"]
    /\ UNCHANGED <<up, journal, checklist, kind, step, failed, seen, shown, child, orphan, behind>>

\* The 409: the request ends, and the response names SlotConflict.
Refuse(q) ==
    /\ pc[q] = "reserve"
    /\ busy
    /\ pc' = [pc EXCEPT ![q] = "done"]
    /\ UNCHANGED <<up, busy, reserved, analysis, journal, checklist, kind, step, failed,
                   seen, shown, child, orphan, behind>>

\* captureConflictLocked
SlotConflict ==
    IF reserved # Nobody THEN "named"
    ELSE IF analysis = "running" THEN "analysis" ELSE "anonymous"

Release(q) ==
    /\ pc[q] = "release"
    /\ busy' = FALSE
    /\ reserved' = Nobody
    /\ pc' = [pc EXCEPT ![q] = "done"]
    /\ UNCHANGED <<up, analysis, journal, checklist, kind, step, failed,
                   seen, shown, child, orphan, behind>>

-----------------------------------------------------------------------------
(* The journal                                                             *)

\* writeJobJournal is atomic (temp file and rename) and its error (disk full,
\* permissions) is ignored.
WriteJournal(j, known) ==
    \/ journal' = j /\ behind' = known \ {"journal"}
    \/ UNCHANGED journal /\ behind' = known \cup {"journal"}

\* startJobJournal, after the slot is taken and before the first subprocess.
StartJournal(q) ==
    /\ pc[q] = "journal"
    /\ WriteJournal([state |-> "running", run |-> q], behind)
    /\ pc' = [pc EXCEPT ![q] = IF kind[q] = "migrate" THEN "phase" ELSE "step"]
    /\ UNCHANGED <<up, busy, reserved, analysis, checklist, kind, step, failed,
                   seen, shown, child, orphan>>

\* Mutant: the orchestrator reads the gate once, before the slot is taken.
PhaseUngated(q) ==
    /\ pc[q] = "phase"
    /\ pc' = [pc EXCEPT ![q] = "step"]
    /\ WriteJournal([state |-> "running", run |-> q], behind)
    /\ UNCHANGED <<up, busy, reserved, analysis, checklist, kind, step, failed, seen, shown, child, orphan>>

\* runOrchestration before each write phase: the gate again, then the phase
\* label in the journal.
Phase(q) ==
    /\ pc[q] = "phase"
    /\ \/ /\ ApplyBlocked
          /\ failed' = [failed EXCEPT ![q] = TRUE]
          /\ pc' = [pc EXCEPT ![q] = "finish"]
          /\ UNCHANGED <<journal, behind>>
       \/ /\ ~ApplyBlocked
          /\ pc' = [pc EXCEPT ![q] = "step"]
          /\ WriteJournal([state |-> "running", run |-> q], behind \ {"checklist"})
          /\ UNCHANGED failed
    /\ UNCHANGED <<up, busy, reserved, analysis, checklist, kind, step, seen, shown, child, orphan>>

\* Mutant: only a clean return closes the journal and frees the slot.
FinishJournalOnSuccess(q) ==
    /\ pc[q] = "finish"
    /\ ~failed[q]
    /\ WriteJournal([state |-> "completed", run |-> q], behind)
    /\ pc' = [pc EXCEPT ![q] = "release"]
    /\ UNCHANGED <<up, busy, reserved, analysis, checklist, kind, step, failed,
                   seen, shown, child, orphan>>

\* The deferred function of handleExec and handleStartMigration closes the
\* journal, and only then releases the slot.
FinishJournal(q) ==
    /\ pc[q] = "finish"
    /\ WriteJournal([state |-> IF failed[q] THEN "failed" ELSE "completed", run |-> q], behind)
    /\ pc' = [pc EXCEPT ![q] = "release"]
    /\ UNCHANGED <<up, busy, reserved, analysis, checklist, kind, step, failed,
                   seen, shown, child, orphan>>

-----------------------------------------------------------------------------
(* Subprocesses                                                            *)

Launch(q) ==
    /\ pc[q] = "step"
    /\ child' = child \cup {q}
    /\ pc' = [pc EXCEPT ![q] = "child"]
    /\ UNCHANGED <<up, busy, reserved, analysis, journal, checklist, kind, step, failed,
                   seen, shown, orphan, behind>>

\* A subprocess that writes the checklist may leave any verdict; a failed one
\* may also have left the old one.
ChecklistAfter(q, ok) ==
    IF WritesChecklist(q, step[q])
    THEN {"ready", "blocked"} \cup (IF ok THEN {} ELSE {checklist})
    ELSE {checklist}

\* A subprocess that exits 0, or whose failure is tolerated, leads to the next
\* step; the orchestrator checks the gate before a write phase.
NextStep(q) ==
    LET i == step[q] + 1 IN
    /\ step' = [step EXCEPT ![q] = i]
    /\ pc' = [pc EXCEPT ![q] = IF kind[q] = "migrate" /\ WritePhase(i) THEN "phase" ELSE "step"]
    /\ UNCHANGED <<busy, analysis, failed>>

\* The last step, or the first failure: the analysis frees the slot with its
\* final status, a workbench action closes its journal, accept releases.
LastStep(q, ok) ==
    /\ failed' = [failed EXCEPT ![q] = ~ok]
    /\ busy' = IF kind[q] = "run" THEN FALSE ELSE busy
    /\ analysis' = IF kind[q] # "run" THEN analysis
                   ELSE IF ok THEN "completed" ELSE "failed"
    /\ pc' = [pc EXCEPT ![q] = CASE kind[q] = "run"    -> "done"
                                 [] kind[q] = "accept" -> "release"
                                 [] OTHER              -> "finish"]
    /\ UNCHANGED step

ChildExits(q, ok) ==
    /\ pc[q] = "child"
    /\ child' = child \ {q}
    /\ checklist' \in ChecklistAfter(q, ok)
    /\ IF (ok \/ Tolerant(q, step[q])) /\ step[q] < StepCount(q)
       THEN NextStep(q)
       ELSE LastStep(q, ok)
    /\ UNCHANGED <<up, reserved, journal, kind, seen, shown, orphan, behind>>

\* execute recovers a panic of the analysis goroutine between two subprocesses
\* into a failed run and frees the slot.
ExecutePanics(q) ==
    /\ pc[q] = "step" /\ kind[q] = "run"
    /\ analysis' = "failed"
    /\ busy' = FALSE
    /\ pc' = [pc EXCEPT ![q] = "done"]
    /\ UNCHANGED <<up, reserved, journal, checklist, kind, step, failed, seen, shown, child, orphan, behind>>

\* saveAcceptTo returns early (no checklist, unknown or unacceptable action,
\* unreadable acceptances): the deferred release still runs.
AcceptRefused(q) ==
    /\ pc[q] = "step" /\ kind[q] = "accept"
    /\ pc' = [pc EXCEPT ![q] = "release"]
    /\ UNCHANGED <<up, busy, reserved, analysis, journal, checklist, kind, step, failed,
                   seen, shown, child, orphan, behind>>

-----------------------------------------------------------------------------
(* Page views                                                              *)

\* handleScreen reads the slot first ...
ViewSlot(q) ==
    /\ pc[q] = "slot"
    /\ seen' = [seen EXCEPT ![q] = busy]
    /\ pc' = [pc EXCEPT ![q] = "read"]
    /\ UNCHANGED <<up, busy, reserved, analysis, journal, checklist, kind, step, failed,
                   shown, child, orphan, behind>>

\* ... and reconcileJobJournal the journal after it.
ViewJournal(q) ==
    /\ pc[q] = "read"
    /\ shown' = [shown EXCEPT ![q] =
                   IF journal.state = "running" /\ ~seen[q]
                   THEN [journal EXCEPT !.state = "interrupted"] ELSE journal]
    /\ pc' = [pc EXCEPT ![q] = "done"]
    /\ UNCHANGED <<up, busy, reserved, analysis, journal, checklist, kind, step, failed,
                   seen, child, orphan, behind>>

-----------------------------------------------------------------------------
(* Death and restart of the UI                                             *)

\* The subprocess of the handler that dies lives on (exec.CommandContext only
\* kills it from the UI's own process).
Kill ==
    /\ up
    /\ up' = FALSE
    /\ busy' = FALSE
    /\ reserved' = Nobody
    /\ analysis' = "idle"
    /\ pc' = [q \in Requests |-> IF pc[q] = "idle" THEN "idle" ELSE "done"]
    /\ orphan' = orphan \cup child
    /\ child' = {}
    /\ behind' = {}
    /\ UNCHANGED <<journal, checklist, kind, step, failed, seen, shown>>

\* Mutant: a running record is left as it is.
RestartUnrecovered ==
    /\ ~up
    /\ up' = TRUE
    /\ UNCHANGED <<busy, reserved, analysis, journal, checklist, kind, pc, step, failed,
                   seen, shown, child, orphan, behind>>

\* New: the slot is free by construction, and recoverJobJournal closes a
\* journal that is still running.
Restart ==
    /\ ~up
    /\ up' = TRUE
    /\ IF journal.state = "running"
       THEN WriteJournal([journal EXCEPT !.state = "interrupted"], behind)
       ELSE UNCHANGED <<journal, behind>>
    /\ UNCHANGED <<busy, reserved, analysis, checklist, kind, pc, step, failed,
                   seen, shown, child, orphan>>

\* A subprocess without its UI ends on its own, or at its next output.
OrphanExits(q) ==
    /\ q \in orphan
    /\ orphan' = orphan \ {q}
    /\ checklist' \in ChecklistAfter(q, FALSE)
    /\ behind' = IF checklist' = checklist THEN behind ELSE behind \cup {"checklist"}
    /\ UNCHANGED <<up, busy, reserved, analysis, journal, kind, pc, step, failed,
                   seen, shown, child>>

-----------------------------------------------------------------------------
(* The specification                                                       *)

\* What a handler does next, once its request has arrived.
Handle(q) ==
    \/ Gate(q) \/ Reserve(q) \/ Refuse(q) \/ Release(q)
    \/ StartJournal(q) \/ Phase(q) \/ FinishJournal(q)
    \/ Launch(q) \/ ExecutePanics(q) \/ AcceptRefused(q)
    \/ \E ok \in BOOLEAN : ChildExits(q, ok)
    \/ ViewSlot(q) \/ ViewJournal(q)

SlotNext ==
    \/ \E q \in Requests : \/ \E k \in Offered[q] : Arrive(q, k)
                           \/ Handle(q)
                           \/ OrphanExits(q)
    \/ Kill
    \/ Restart

SlotSpec == SlotInit /\ [][SlotNext]_slotVars

\* Goroutines are scheduled, and the 30-minute timeout ends every subprocess.
SlotFairness == \A q \in Requests : WF_slotVars(Handle(q))

SlotFairSpec == SlotSpec /\ SlotFairness

-----------------------------------------------------------------------------
(* Properties                                                              *)

Stops == {"idle", "gate", "reserve", "journal", "phase", "step", "child", "finish",
          "release", "slot", "read", "done"}

Journals == [state : {"none", "running", "completed", "failed", "interrupted"},
             run : Requests \cup {Nobody}]

\* Every variable holds values of its kind.
SlotTyped ==
    /\ up \in BOOLEAN
    /\ busy \in BOOLEAN
    /\ reserved \in Requests \cup {Nobody}
    /\ analysis \in {"idle", "running", "completed", "failed"}
    /\ journal \in Journals
    /\ checklist \in {"absent", "ready", "blocked"}
    /\ kind \in [Requests -> RequestKinds]
    /\ pc \in [Requests -> Stops]
    /\ step \in [Requests -> 1 .. 5]
    /\ failed \in [Requests -> BOOLEAN]
    /\ seen \in [Requests -> BOOLEAN]
    /\ shown \in [Requests -> Journals]
    /\ child \subseteq Requests
    /\ orphan \subseteq Requests
    /\ behind \subseteq {"journal", "checklist"}

\* Writers of the artifact directory are mutually exclusive within one UI: it
\* runs at most one subprocess of the tool, that of the handler that holds the
\* slot, whatever mix of analysis, accept, workbench actions and orchestrator is
\* requested and whatever panics or fails.  A second writer is always an orphan
\* of a UI that was killed, whose handler holds nothing.
SingleWriter ==
    /\ \A q \in child : Holding(q) /\ \A r \in child : q = r
    /\ \A q \in orphan : ~Holding(q)

\* A refusal names the request that holds the slot: a free slot has no named
\* holder, and a busy one has exactly one handler inside and its identity is
\* the one captureConflictLocked would report.
HolderIdentified ==
    IF ~busy THEN reserved = Nobody /\ analysis # "running" /\ \A q \in Requests : ~Holding(q)
    ELSE \E q \in Requests :
            /\ Holding(q)
            /\ \A r \in Requests : Holding(r) => r = q
            /\ SlotConflict = CASE Journaled(q)       -> "named"
                                [] kind[q] = "run"    -> "analysis"
                                [] kind[q] = "accept" -> "anonymous"
            /\ reserved \in {q, Nobody}

\* job.json and the slot agree unless the UI's last write of the file failed:
\* while the UI lives, a running record belongs to the action that holds the
\* slot, and a closed one to an action without a subprocess.  One write that
\* succeeds is enough to bring them together again.
JournalMatchesSlot ==
    "journal" \notin behind =>
        /\ up /\ journal.state = "running" => busy /\ reserved = journal.run
        /\ journal.state \in {"completed", "failed", "interrupted"} => journal.run \notin child

\* The orchestrator never runs a write phase under a checklist that blocks,
\* unless an orphan has rewritten the checklist since the gate was read.
OrchestratorGated ==
    \A q \in child :
        kind[q] = "migrate" /\ WritePhase(step[q]) => ~ApplyBlocked \/ "checklist" \in behind

\* A page presents a job as running only while its handler is in place, unless
\* the last write of the journal failed: a record that a dead UI left behind is
\* never taken for the action that holds the slot now, whatever happened between
\* the page's two reads.
ViewRunningIsLive ==
    [][\A q \in Requests :
         shown'[q] # shown[q] /\ shown'[q].state = "running" /\ "journal" \notin behind
           => Holding(shown'[q].run)]_slotVars

\* Every request is answered in the end, and with it the slot is freed.
EveryRequestEnds == \A q \in Requests : pc[q] # "idle" ~> pc[q] = "done"

\* The slot has one owner, whom it names, and one subprocess at a time of its UI
\* (tryReserveFor, captureConflictLocked, release).
SlotOwned == HolderIdentified /\ SingleWriter
=============================================================================
