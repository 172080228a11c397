------------------------------ MODULE Workbench ------------------------------
(***************************************************************************)
(* One migration session: its session.json, shared by the web UI and the   *)
(* `migration` CLI (internal/workbench), and the UI handlers that change   *)
(* it (internal/webui: set status, attach, confirm scope, exec and the     *)
(* orchestrator).                                                          *)
(*                                                                         *)
(* Every change of session.json is a read-modify-write under the store's   *)
(* locks; a handler makes several of them, and reads in between with Get,  *)
(* which takes no lock that lasts.  Which subprocess may run when is       *)
(* JobSlot's subject: here the slot is just its holder.                    *)
(***************************************************************************)
EXTENDS Naturals, Sequences

CONSTANTS
    Requests,     \* the requests and CLI invocations of a behaviour
    Offered,      \* what they may ask for: a set of Calls
    Areas,        \* areas with an apply and a verify action
    Scopes,       \* the content selections with an automatic area
    StartStatus,  \* the status the session is in when the behaviour starts
    Free          \* the holder of a lock nobody has

AllStatuses ==
    {"draft", "preflight_required", "inventory_ready", "checklist_ready",
     "manual_actions_required", "ready_for_apply", "apply_in_progress", "apply_done",
     "verification_required", "ready_for_cutover", "cutover_done", "blocked", "failed",
     "archived"}

\* Requests carry the fields their kind needs; the others are ignored.
Calls == [kind : {"set", "attach", "scope", "apply", "verify", "migrate"},
          to : AllStatuses, force : BOOLEAN, area : Areas, scope : Scopes]

ASSUME WorkbenchAssumption ==
    /\ Scopes \subseteq SUBSET Areas
    /\ Offered \subseteq Calls
    /\ StartStatus \in AllStatuses
    /\ Free \notin Requests

VARIABLES
    session,    \* session.json
    commits,    \* history: how many changes of session.json succeeded
    lock,       \* holder of the store's flock and mutex
    copy,       \* the session as each lock holder read it
    slot,       \* holder of the single-writer slot
    journaled,  \* job.json says running
    applied,    \* areas with an apply report
    verified,   \* the verify report of each area
    call,       \* what each request asks for
    pc,         \* where its handler is
    seen,       \* the status its last Get returned
    todo,       \* the phases an orchestrator still has to run
    ok          \* nothing has failed in its handler

vars == <<session, commits, lock, copy, slot, journaled, applied, verified,
          call, pc, seen, todo, ok>>
store == <<session, commits, lock, copy>>
world == <<slot, journaled, applied, verified>>

-----------------------------------------------------------------------------
(* The status machine                                                      *)

TerminalStatuses == {"cutover_done", "archived"}
ActiveStatuses   == AllStatuses \ (TerminalStatuses \cup {"blocked", "failed"})

AllowedTransitions ==
    {<<"draft", "preflight_required">>, <<"preflight_required", "inventory_ready">>,
     <<"inventory_ready", "checklist_ready">>,
     <<"checklist_ready", "manual_actions_required">>, <<"checklist_ready", "ready_for_apply">>,
     <<"manual_actions_required", "ready_for_apply">>,
     <<"ready_for_apply", "apply_in_progress">>, <<"apply_in_progress", "apply_done">>,
     <<"apply_done", "verification_required">>, <<"verification_required", "ready_for_cutover">>,
     <<"ready_for_cutover", "cutover_done">>, <<"cutover_done", "archived">>,
     <<"blocked", "archived">>, <<"failed", "archived">>}

CanTransition(from, to) ==
    \/ to \in {"blocked", "failed"} /\ from \in ActiveStatuses
    \/ <<from, to>> \in AllowedTransitions

-----------------------------------------------------------------------------
(* session.json                                                            *)

\* "exec" and "auto" stand for the reasons the UI gives to its own status
\* changes.  An event that is no status change has its two statuses empty in
\* the code; here it carries the status it was recorded in.
Events == [action : {"status_change", "forced_status_change", "exec", "auto",
                     "attach_artifact", "scope_confirmed"},
           from : AllStatuses, to : AllStatuses]

Sessions == [status : AllStatuses, scope : Scopes, confirmed : BOOLEAN, timeline : Seq(Events)]

\* A change of status with its event, and a change of something else.
WithStatus(s, action, to) ==
    [status    |-> to,
     scope     |-> s.scope,
     confirmed |-> s.confirmed,
     timeline  |-> Append(s.timeline, [action |-> action, from |-> s.status, to |-> to])]
WithEvent(s, action) == WithStatus(s, action, s.status)
WithScope(s, scope) ==
    [status    |-> s.status,
     scope     |-> scope,
     confirmed |-> TRUE,
     timeline  |-> WithEvent(s, "scope_confirmed").timeline]

Init ==
    /\ session \in [status : {StartStatus}, scope : Scopes, confirmed : {FALSE}, timeline : {<<>>}]
    /\ commits = 0
    /\ lock = Free
    /\ copy = [r \in Requests |-> session]
    /\ slot = Free
    /\ journaled = FALSE
    /\ applied = {}
    /\ verified \in [Areas -> {"absent", "clean"}]
    /\ call \in [Requests -> Offered]
    /\ pc = [r \in Requests |-> "idle"]
    /\ seen = [r \in Requests |-> StartStatus]
    /\ todo = [r \in Requests |-> {}]
    /\ ok = [r \in Requests |-> TRUE]

FirstStop(kind) ==
    IF kind \in {"set", "attach"} THEN kind
    ELSE IF kind = "scope" THEN "facts"
    ELSE IF kind = "migrate" THEN "plan"
    ELSE "reserve"

Arrive(r) ==
    /\ pc[r] = "idle"
    /\ pc' = [pc EXCEPT ![r] = FirstStop(call[r].kind)]
    /\ UNCHANGED <<store, world, call, seen, todo, ok>>

-----------------------------------------------------------------------------
(* The store: a read and a write under its locks                           *)

StoreOps == {"set", "attach", "scope", "record", "auto"}

\* Mutant: the session read when the store was opened is used, not the one
\* under the lock.
LockStaleCopy(r) ==
    /\ pc[r] \in StoreOps
    /\ lock = Free
    /\ lock' = r
    /\ UNCHANGED <<session, commits, copy, world, call, pc, seen, todo, ok>>

\* lockFile and s.mu, then readSession.
Lock(r) ==
    /\ pc[r] \in StoreOps
    /\ lock = Free
    /\ lock' = r
    /\ copy' = [copy EXCEPT ![r] = session]
    /\ UNCHANGED <<session, commits, world, call, pc, seen, todo, ok>>

Holds(r, op) == pc[r] = op /\ lock = r

\* The operation returns an error, and session.json is as it was.
Abort(r, next) ==
    /\ lock' = Free
    /\ pc' = [pc EXCEPT ![r] = next]
    /\ UNCHANGED <<session, commits, copy>>

\* writeSession renames the new file into place; the locks are freed on return.
Commit(r, new, next) ==
    /\ session' = new
    /\ commits' = commits + 1
    /\ lock' = Free
    /\ pc' = [pc EXCEPT ![r] = next]
    /\ UNCHANGED copy

\* One of its steps before the rename may fail.
WriteSession(r, new, next, failed) == Commit(r, new, next) \/ Abort(r, failed)

\* SetStatus for the operator (UI or CLI); a forced one carries a reason.
CommitSet(r) ==
    LET c == call[r] IN
    /\ Holds(r, "set")
    /\ IF c.force \/ CanTransition(copy[r].status, c.to)
       THEN WriteSession(r, WithStatus(copy[r], IF c.force THEN "forced_status_change"
                                                           ELSE "status_change", c.to),
                         "done", "done")
       ELSE Abort(r, "done")
    /\ UNCHANGED <<world, call, seen, todo, ok>>

\* Where a handler goes after an artifact is attached, or could not be.
AfterAttach(r) ==
    IF call[r].kind = "attach" THEN "done"
    ELSE IF call[r].kind = "migrate" /\ todo[r] # {} THEN "run"
    ELSE "get"

\* AttachArtifact copies the file and records it; a failed copy or write is an
\* error that exec remembers and the orchestrator only logs.
CommitAttach(r) ==
    /\ Holds(r, "attach")
    /\ \/ Commit(r, WithEvent(copy[r], "attach_artifact"), AfterAttach(r)) /\ UNCHANGED ok
       \/ Abort(r, AfterAttach(r)) /\ ok' = [ok EXCEPT ![r] = call[r].kind = "migrate"]
    /\ UNCHANGED <<world, call, seen, todo>>

CommitScope(r) ==
    /\ Holds(r, "scope")
    /\ WriteSession(r, WithScope(copy[r], call[r].scope), "done", "done")
    /\ UNCHANGED <<world, call, seen, todo, ok>>

\* The timeline entry of an execution: a forced SetStatus to the status that
\* an earlier Get returned.
CommitRecord(r) ==
    /\ Holds(r, "record")
    /\ WriteSession(r, WithStatus(copy[r], "exec", seen[r]),
                    IF call[r].kind = "verify" /\ ok[r] THEN "autoGet" ELSE "close", "close")
    /\ UNCHANGED <<world, call, seen, todo, ok>>

\* tryAutoTransitionReadyForCutover's SetStatus is not forced: the matrix is
\* consulted again under the lock.
CommitAuto(r) ==
    /\ Holds(r, "auto")
    /\ IF CanTransition(copy[r].status, "ready_for_cutover")
       THEN WriteSession(r, WithStatus(copy[r], "auto", "ready_for_cutover"), "close", "close")
       ELSE Abort(r, "close")
    /\ UNCHANGED <<world, call, seen, todo, ok>>

\* A CLI invocation is killed with the lock in its hands: the kernel frees it.
Crash(r) ==
    /\ call[r].kind \in {"set", "attach"}
    /\ lock = r
    /\ Abort(r, "done")
    /\ UNCHANGED <<world, call, seen, todo, ok>>

-----------------------------------------------------------------------------
(* Confirming the scope                                                    *)

\* canEditScope: frozen once an apply report exists ...
Facts(r) ==
    /\ pc[r] = "facts"
    /\ pc' = [pc EXCEPT ![r] = IF applied = {} THEN "live" ELSE "done"]
    /\ UNCHANGED <<store, world, call, seen, todo, ok>>

\* ... or while a job is live.
Live(r) ==
    /\ pc[r] = "live"
    /\ pc' = [pc EXCEPT ![r] = IF slot # Free /\ journaled THEN "done" ELSE "scope"]
    /\ UNCHANGED <<store, world, call, seen, todo, ok>>

-----------------------------------------------------------------------------
(* Exec and the orchestrator                                               *)

\* handleStartMigration: one Get, the scope must be confirmed, and the phases
\* are derived from the scope it holds.  The operator's confirmation and the
\* artifacts on disk may refuse it too.
Plan(r) ==
    /\ pc[r] = "plan"
    /\ \E startable \in BOOLEAN :
         /\ pc' = [pc EXCEPT ![r] = IF startable /\ session.confirmed THEN "reserve" ELSE "done"]
         /\ todo' = [todo EXCEPT ![r] = IF startable /\ session.confirmed THEN session.scope ELSE {}]
    /\ UNCHANGED <<store, world, call, seen, ok>>

\* A busy slot is a 409.
Reserve(r) ==
    /\ pc[r] = "reserve"
    /\ IF slot = Free
       THEN slot' = r /\ pc' = [pc EXCEPT ![r] = "journal"]
       ELSE slot' = slot /\ pc' = [pc EXCEPT ![r] = "done"]
    /\ UNCHANGED <<store, journaled, applied, verified, call, seen, todo, ok>>

StartJournal(r) ==
    /\ pc[r] = "journal"
    /\ journaled' = TRUE
    /\ pc' = [pc EXCEPT ![r] = "run"]
    /\ UNCHANGED <<store, slot, applied, verified, call, seen, todo, ok>>

\* The subprocess of an apply action; one that fails may have left a report.
RunApply(r, good) ==
    LET a == call[r].area IN
    /\ pc[r] = "run" /\ call[r].kind = "apply"
    /\ applied' \in {applied \cup {a}} \cup (IF good THEN {} ELSE {applied})
    /\ ok' = [ok EXCEPT ![r] = good]
    /\ pc' = [pc EXCEPT ![r] = IF good THEN "attach" ELSE "get"]
    /\ UNCHANGED <<store, slot, journaled, verified, call, seen, todo>>

\* The subprocess of a verify action; drift is a finding, not a failure.
RunVerify(r, good, report) ==
    LET a == call[r].area IN
    /\ pc[r] = "run" /\ call[r].kind = "verify"
    /\ verified' = IF good THEN [verified EXCEPT ![a] = report] ELSE verified
    /\ ok' = [ok EXCEPT ![r] = good]
    /\ pc' = [pc EXCEPT ![r] = IF good THEN "attach" ELSE "get"]
    /\ UNCHANGED <<store, slot, journaled, applied, call, seen, todo>>

\* One phase of the orchestrator: the write and, with --fail-on-drift, its
\* verification.  A write that fails may have written, and reported, in part.
\* The first failure is the last phase.
RunPhase(r, a, end) ==
    /\ pc[r] = "run" /\ call[r].kind = "migrate" /\ a \in todo[r]
    /\ applied' \in {applied \cup {a}} \cup (IF end = "failed" THEN {applied} ELSE {})
    /\ verified' = [verified EXCEPT ![a] = IF end = "failed" THEN @ ELSE end]
    /\ todo' = [todo EXCEPT ![r] = IF end = "clean" THEN @ \ {a} ELSE {}]
    /\ pc' = [pc EXCEPT ![r] = IF end = "clean" THEN "attach" ELSE "get"]
    /\ UNCHANGED <<store, slot, journaled, call, seen, ok>>

\* "Re-read session to avoid TOCTOU clobber"
GetStatus(r) ==
    /\ pc[r] = "get"
    /\ seen' = [seen EXCEPT ![r] = session.status]
    /\ pc' = [pc EXCEPT ![r] = "record"]
    /\ UNCHANGED <<store, world, call, todo, ok>>

AutoGet(r) ==
    /\ pc[r] = "autoGet"
    /\ pc' = [pc EXCEPT ![r] = IF session.status = "verification_required" THEN "reports" ELSE "close"]
    /\ UNCHANGED <<store, world, call, seen, todo, ok>>

\* Mutant: only the report of the action that ran is read.
AutoReportsOwn(r) ==
    /\ pc[r] = "reports"
    /\ pc' = [pc EXCEPT ![r] = IF verified[call[r].area] = "clean" THEN "auto" ELSE "close"]
    /\ UNCHANGED <<store, world, call, seen, todo, ok>>

AutoReports(r) ==
    /\ pc[r] = "reports"
    /\ pc' = [pc EXCEPT ![r] = IF \A a \in Areas : verified[a] = "clean" THEN "auto" ELSE "close"]
    /\ UNCHANGED <<store, world, call, seen, todo, ok>>

\* The deferred function: the journal first, then the slot.
Close(r) ==
    /\ pc[r] = "close"
    /\ journaled' = FALSE
    /\ pc' = [pc EXCEPT ![r] = "release"]
    /\ UNCHANGED <<store, slot, applied, verified, call, seen, todo, ok>>

Release(r) ==
    /\ pc[r] = "release"
    /\ slot' = Free
    /\ pc' = [pc EXCEPT ![r] = "done"]
    /\ UNCHANGED <<store, journaled, applied, verified, call, seen, todo, ok>>

-----------------------------------------------------------------------------
(* The specification                                                       *)

Handle(r) ==
    \/ Arrive(r) \/ Lock(r)
    \/ CommitSet(r) \/ CommitAttach(r) \/ CommitScope(r) \/ CommitRecord(r) \/ CommitAuto(r)
    \/ Facts(r) \/ Live(r)
    \/ Plan(r) \/ Reserve(r) \/ StartJournal(r)
    \/ \E good \in BOOLEAN : \/ RunApply(r, good)
                             \/ \E report \in {"clean", "dirty"} : RunVerify(r, good, report)
    \/ \E a \in Areas, end \in {"clean", "dirty", "failed"} : RunPhase(r, a, end)
    \/ GetStatus(r) \/ AutoGet(r) \/ AutoReports(r)
    \/ Close(r) \/ Release(r)

Next == \E r \in Requests : Handle(r) \/ Crash(r)

Spec == Init /\ [][Next]_vars

-----------------------------------------------------------------------------
(* Properties                                                              *)

Stops == StoreOps \cup {"idle", "facts", "live", "plan", "reserve", "journal", "run", "get",
                        "autoGet", "reports", "close", "release", "done"}

\* Every variable holds values of its kind.
TypeOK ==
    /\ session \in Sessions
    /\ commits \in Nat
    /\ lock \in Requests \cup {Free}
    /\ copy \in [Requests -> Sessions]
    /\ slot \in Requests \cup {Free}
    /\ journaled \in BOOLEAN
    /\ applied \subseteq Areas
    /\ verified \in [Areas -> {"absent", "clean", "dirty"}]
    /\ call \in [Requests -> Calls]
    /\ pc \in [Requests -> Stops]
    /\ seen \in [Requests -> AllStatuses]
    /\ todo \in [Requests -> SUBSET Areas]
    /\ ok \in [Requests -> BOOLEAN]

\* The timeline is a complete audit trail: no change is lost, whichever UI
\* requests and CLI invocations interleave or die; its events chain from the
\* first status to the present one; and no unforced event jumps the matrix.
AuditTrail ==
    LET t == session.timeline
        before(i) == IF i = 1 THEN StartStatus ELSE t[i - 1].to
    IN
    /\ Len(t) = commits
    /\ \A i \in 1 .. Len(t) :
         /\ t[i].from = before(i)
         /\ t[i].action \in {"status_change", "auto"} => CanTransition(t[i].from, t[i].to)
    /\ session.status = before(Len(t) + 1)

\* The automatic transition starts from verification_required only, although
\* the status and the reports are read before the lock is taken.
AutoFromVerification ==
    \A i \in 1 .. Len(session.timeline) :
        session.timeline[i].action = "auto" => session.timeline[i].from = "verification_required"

\* When it is about to be recorded every verify report is still clean: nobody
\* can rewrite one while the verify action holds the slot.
CutoverJustified ==
    \A r \in Requests : pc[r] = "auto" => \A a \in Areas : verified[a] = "clean"

\* The automatic transition to ready_for_cutover is justified by the status and
\* by the reports it rests on, although both are read before the lock is taken
\* (tryAutoTransitionReadyForCutover).
CutoverSound == AutoFromVerification /\ CutoverJustified
=============================================================================
