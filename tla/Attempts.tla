------------------------------ MODULE Attempts ------------------------------
(***************************************************************************)
(* Execution ownership, leases and crash recovery of the migration         *)
(* platform (apps/api/app/modules/executions/attempts.py).                 *)
(*                                                                         *)
(* Every public operation is a database transaction of one session.  It is *)
(* split where another transaction can interleave: the call, the lock of   *)
(* the execution row, the lock of the attempt row, the decision (which     *)
(* reads the database clock once), the commit, and the refresh of the      *)
(* returned object.  Row locks are held until commit or rollback.          *)
(*                                                                         *)
(* A session keeps an identity map: an attempt object the caller still     *)
(* references is NOT overwritten by a later SELECT ... FOR UPDATE, so a    *)
(* decision is taken on the cached row, not on the locked one.             *)
(***************************************************************************)
EXTENDS Integers

CONSTANTS
    Execs,         \* ids of the executions (naturals: the reconciler sorts by id)
    Workers,       \* worker identities
    Sessions,      \* database sessions through which workers call
    WorkerOf,      \* the worker each session calls for
    Reconcilers,   \* database sessions that call reconcile_expired_attempts
    Leases,        \* lease durations a caller may ask for, in clock units
    Outcomes,      \* terminal states callers pass to finish_attempt
    Crashable,     \* sessions whose connection may be lost inside a transaction
    MaxAttempts,   \* bound on the rows of one execution
    MaxClock,      \* bound: no lease is renewed from this clock reading on
    Free           \* the holder of a row nobody has locked

Numbers    == 1 .. MaxAttempts
AttemptIds == Execs \X Numbers
ExecOf(a)  == a[1]
DbSessions == Sessions \cup Reconcilers

ATTEMPT_ACTIVE_STATUSES   == {"acquired", "running"}
ATTEMPT_TERMINAL_STATUSES == {"succeeded", "failed", "partial", "cancelled", "interrupted"}
TERMINAL_STATUSES         == ATTEMPT_TERMINAL_STATUSES

\* What a worker may report about itself: interrupted is the reconciler's word.
WORKER_TERMINAL_STATES == {"succeeded", "failed", "partial", "cancelled"}
PARTIAL_PREVAILS_OVER  == {"failed", "cancelled"}

LEGAL_ATTEMPT_TRANSITIONS ==
    {<<"acquired", t>> : t \in {"running", "failed", "cancelled", "interrupted"}}
      \cup {<<"running", t>> : t \in ATTEMPT_TERMINAL_STATUSES}

ASSUME ConstantsAssumption ==
    /\ Execs \subseteq Nat /\ Execs # {}
    /\ MaxAttempts \in Nat \ {0}
    /\ MaxClock \in Nat
    /\ Leases \subseteq Nat \ {0}
    /\ Outcomes \subseteq WORKER_TERMINAL_STATES
    /\ WorkerOf \in [Sessions -> Workers]
    /\ Sessions \cap Reconcilers = {}
    /\ Crashable \subseteq DbSessions
    /\ Free \notin DbSessions

VARIABLES
    clock,       \* clock_timestamp() of the database
    execution,   \* migration_executions: status, writes_started
    attempt,     \* execution_attempts, keyed by (execution, attempt_number)
    lockE,       \* holder of each execution row lock
    lockA,       \* holder of each attempt row lock
    txn,         \* the transaction each session is in
    identity     \* the attempt objects each session's identity map holds

vars == <<clock, execution, attempt, lockE, lockA, txn, identity>>

-----------------------------------------------------------------------------
(* Rows                                                                    *)

\* finished = 0 is NULL; the clock starts at 1.  worker is irrelevant in NoRow.
Rows == [status : {"absent"} \cup ATTEMPT_ACTIVE_STATUSES \cup ATTEMPT_TERMINAL_STATUSES,
         worker : Workers \cup {Free}, expires : Nat, writes : BOOLEAN, finished : Nat]

NoRow == [status |-> "absent", worker |-> Free, expires |-> 0,
          writes |-> FALSE, finished |-> 0]

Executions == [status : {"pending", "running"} \cup TERMINAL_STATUSES, writes : BOOLEAN]

Exists(a)   == attempt[a].status # "absent"
Active(r)   == r.status \in ATTEMPT_ACTIVE_STATUSES
Terminal(r) == r.status \in ATTEMPT_TERMINAL_STATUSES
AttemptsOf(e) == {a \in AttemptIds : ExecOf(a) = e /\ Exists(a)}

\* ORDER BY execution_id, id
Before(a, b)  == a[1] < b[1] \/ (a[1] = b[1] /\ a[2] < b[2])
IsFirst(a, S) == \A b \in S \ {a} : Before(a, b)

-----------------------------------------------------------------------------
(* Transactions                                                            *)

Ops == {"none", "acquire", "start", "renew", "mark", "finish", "reconcile"}

Txns == [pc : {"idle", "lockE", "lockA", "decide", "commit", "refresh"},
         op : Ops, a : AttemptIds, moment : Nat,
         target : WORKER_TERMINAL_STATES,
         todo : SUBSET AttemptIds, done : SUBSET AttemptIds]

NoTxn == [pc |-> "idle", op |-> "none", a |-> CHOOSE a \in AttemptIds : TRUE, moment |-> 0,
          target |-> "failed", todo |-> {}, done |-> {}]

ReleaseLocks(s) ==
    /\ lockE' = [e \in Execs |-> IF lockE[e] = s THEN Free ELSE lockE[e]]
    /\ lockA' = [a \in AttemptIds |-> IF lockA[a] = s THEN Free ELSE lockA[a]]

\* session.rollback(): no row changes, every lock is released, and every
\* object of the session is expired.
Rollback(s) ==
    /\ txn' = [txn EXCEPT ![s] = NoTxn]
    /\ ReleaseLocks(s)
    /\ identity' = [identity EXCEPT ![s] = [a \in AttemptIds |-> NoRow]]
    /\ UNCHANGED <<clock, execution, attempt>>

-----------------------------------------------------------------------------
(* Initial state: create_dry_run_execution leaves every execution pending. *)

Init ==
    /\ clock = 1
    /\ execution = [e \in Execs |-> [status |-> "pending", writes |-> FALSE]]
    /\ attempt = [a \in AttemptIds |-> NoRow]
    /\ lockE = [e \in Execs |-> Free]
    /\ lockA = [a \in AttemptIds |-> Free]
    /\ txn = [s \in DbSessions |-> NoTxn]
    /\ identity = [s \in DbSessions |-> [a \in AttemptIds |-> NoRow]]

\* The wall clock of the database advances on its own: up to the bound, and
\* past it as long as a lease is running.
Tick ==
    /\ clock < MaxClock \/ \E a \in AttemptIds : Active(attempt[a]) /\ clock < attempt[a].expires
    /\ clock' = clock + 1
    /\ UNCHANGED <<execution, attempt, lockE, lockA, txn, identity>>

-----------------------------------------------------------------------------
(* The calls                                                               *)

\* acquire_attempt names an execution; the attempt number is allocated later.
CallAcquire(s, e) ==
    /\ txn[s].pc = "idle"
    /\ txn' = [txn EXCEPT ![s] = [@ EXCEPT !.pc = "lockE", !.op = "acquire", !.a = <<e, 1>>]]
    /\ UNCHANGED <<clock, execution, attempt, lockE, lockA, identity>>

\* start_attempt and renew_attempt_lease lock the attempt row only.
CallOnAttempt(s, op, a) ==
    /\ txn[s].pc = "idle"
    /\ op = "renew" => clock < MaxClock
    /\ Exists(a)
    /\ txn' = [txn EXCEPT ![s] = [@ EXCEPT !.pc = "lockA", !.op = op, !.a = a]]
    /\ UNCHANGED <<clock, execution, attempt, lockE, lockA, identity>>

\* mark_writes_started and finish_attempt read the parent execution id without
\* a lock (_execution_id_of) and lock the execution first.
CallOnBoth(s, op, a) ==
    /\ txn[s].pc = "idle"
    /\ Exists(a)
    /\ txn' = [txn EXCEPT ![s] = [@ EXCEPT !.pc = "lockE", !.op = op, !.a = a]]
    /\ UNCHANGED <<clock, execution, attempt, lockE, lockA, identity>>

\* _expired_active_attempt_ids: one clock reading and an unlocked SELECT over
\* all executions, or over one of them (reconcile_execution).
Discover(s, scope) ==
    /\ txn[s].pc = "idle"
    /\ LET found == {a \in AttemptIds : /\ ExecOf(a) \in scope
                                        /\ Active(attempt[a])
                                        /\ attempt[a].expires <= clock}
       IN  \E a \in found :
             /\ IsFirst(a, found)
             /\ txn' = [txn EXCEPT ![s] = [@ EXCEPT !.pc = "lockE", !.op = "reconcile", !.a = a,
                                                    !.moment = clock, !.todo = found]]
    /\ UNCHANGED <<clock, execution, attempt, lockE, lockA, identity>>

-----------------------------------------------------------------------------
(* Row locks                                                               *)

LockExecution(s) ==
    LET e == ExecOf(txn[s].a) IN
    /\ txn[s].pc = "lockE"
    /\ lockE[e] \in {Free, s}
    /\ lockE' = [lockE EXCEPT ![e] = s]
    /\ txn' = [txn EXCEPT ![s] = [@ EXCEPT !.pc = IF txn[s].op = "acquire" THEN "decide" ELSE "lockA"]]
    /\ UNCHANGED <<clock, execution, attempt, lockA, identity>>

\* Mutant: start_attempt also locks its execution, after the attempt.
LockAttemptFirst(s) ==
    LET a == txn[s].a IN
    /\ txn[s].pc = "lockA"
    /\ lockA[a] \in {Free, s}
    /\ lockA' = [lockA EXCEPT ![a] = s]
    /\ txn' = [txn EXCEPT ![s].pc = IF txn[s].op = "start" /\ lockE[ExecOf(a)] # s
                                   THEN "lockE" ELSE "decide"]
    /\ identity' = [identity EXCEPT ![s][a] = IF @.status = "absent" THEN attempt[a] ELSE @]
    /\ UNCHANGED <<clock, execution, attempt, lockE>>

\* SELECT ... FOR UPDATE: an object the session already holds keeps its values.
LockAttempt(s) ==
    LET a == txn[s].a IN
    /\ txn[s].pc = "lockA"
    /\ lockA[a] \in {Free, s}
    /\ lockA' = [lockA EXCEPT ![a] = s]
    /\ txn' = [txn EXCEPT ![s] = [@ EXCEPT !.pc = "decide"]]
    /\ identity' = [identity EXCEPT ![s][a] = IF @.status = "absent" THEN attempt[a] ELSE @]
    /\ UNCHANGED <<clock, execution, attempt, lockE>>

-----------------------------------------------------------------------------
(* Decisions: taken on the session's object, with one reading of the clock *)

Object(s) == identity[s][txn[s].a]

\* Mutants: a terminal row is not refused; an expired lease is not refused.
RequireNotTerminalDropped(s) == TRUE
RequireLeaseValidDropped(s)  == TRUE

RequireOwner(s)       == Object(s).worker = WorkerOf[s]
RequireNotTerminal(s) == ~Terminal(Object(s))
RequireLeaseValid(s)  == Object(s).expires > clock

\* _terminalize raises AggregateStateConflict otherwise.
Compatible(e, target) ==
    execution[e].status \in TERMINAL_STATUSES => execution[e].status = target

PartialPrevails(r, status) ==
    IF r.writes /\ status \in PARTIAL_PREVAILS_OVER THEN "partial" ELSE status

ReconcileTarget(r) == IF r.writes THEN "partial" ELSE "interrupted"

\* Mutant: a terminal execution is acquired again.
AcquireValidRetry(s) ==
    \A a \in AttemptsOf(ExecOf(txn[s].a)) : ~Active(attempt[a])

AcquireValid(s) ==
    LET e == ExecOf(txn[s].a) IN
    /\ execution[e].status \notin TERMINAL_STATUSES
    /\ \A a \in AttemptsOf(e) : ~Active(attempt[a])

StartValid(s) ==
    /\ RequireOwner(s)
    /\ RequireNotTerminal(s)
    /\ Object(s).status = "acquired"
    /\ RequireLeaseValid(s)

RenewValid(s) ==
    /\ RequireOwner(s)
    /\ RequireNotTerminal(s)
    /\ RequireLeaseValid(s)

MarkValid(s) ==
    /\ RequireOwner(s)
    /\ RequireNotTerminal(s)
    /\ Object(s).status = "running"
    /\ RequireLeaseValid(s)

FinishValid(s, status) ==
    LET target == PartialPrevails(Object(s), status) IN
    /\ RequireOwner(s)
    /\ RequireNotTerminal(s)
    /\ RequireLeaseValid(s)
    /\ <<Object(s).status, target>> \in LEGAL_ATTEMPT_TRANSITIONS
    /\ Compatible(ExecOf(txn[s].a), target)

Deciding(s, op) == txn[s].pc = "decide" /\ txn[s].op = op

\* max(attempt_number) + 1 of the execution, within the modelled table.
DecideAcquire(s) ==
    LET e == ExecOf(txn[s].a) IN
    /\ Deciding(s, "acquire")
    /\ AcquireValid(s)
    /\ \E n \in Numbers :
         /\ ~Exists(<<e, n>>)
         /\ \A m \in 1 .. (n - 1) : Exists(<<e, m>>)
         /\ txn' = [txn EXCEPT ![s] = [@ EXCEPT !.pc = "commit", !.moment = clock, !.a = <<e, n>>]]
    /\ UNCHANGED <<clock, execution, attempt, lockE, lockA, identity>>

DecideStart(s) ==
    /\ Deciding(s, "start")
    /\ StartValid(s)
    /\ txn' = [txn EXCEPT ![s] = [@ EXCEPT !.pc = "commit", !.moment = clock]]
    /\ UNCHANGED <<clock, execution, attempt, lockE, lockA, identity>>

DecideRenew(s) ==
    /\ Deciding(s, "renew")
    /\ RenewValid(s)
    /\ txn' = [txn EXCEPT ![s] = [@ EXCEPT !.pc = "commit", !.moment = clock]]
    /\ UNCHANGED <<clock, execution, attempt, lockE, lockA, identity>>

DecideMark(s) ==
    /\ Deciding(s, "mark")
    /\ MarkValid(s)
    /\ txn' = [txn EXCEPT ![s] = [@ EXCEPT !.pc = "commit", !.moment = clock]]
    /\ UNCHANGED <<clock, execution, attempt, lockE, lockA, identity>>

DecideFinish(s, status) ==
    /\ Deciding(s, "finish")
    /\ FinishValid(s, status)
    /\ txn' = [txn EXCEPT ![s] = [@ EXCEPT !.pc = "commit", !.moment = clock,
                                           !.target = PartialPrevails(Object(s), status)]]
    /\ UNCHANGED <<clock, execution, attempt, lockE, lockA, identity>>

\* Mutant: an attempt that was acquired and never started is not recovered.
StillLostStarted(s) == Object(s).status = "running" /\ Object(s).expires <= txn[s].moment

\* One candidate of reconcile_expired_attempts, re-checked under its two locks
\* against the clock reading of the discovery.
StillLost(s) == Active(Object(s)) /\ Object(s).expires <= txn[s].moment

Recheck(s) ==
    LET t == txn[s]
        rest == t.todo \ {t.a}
    IN
    /\ Deciding(s, "reconcile")
    /\ StillLost(s) => Compatible(ExecOf(t.a), ReconcileTarget(Object(s)))
    /\ \E next \in IF rest = {} THEN {t.a} ELSE {a \in rest : IsFirst(a, rest)} :
         txn' = [txn EXCEPT ![s] = [@ EXCEPT !.done = IF StillLost(s) THEN t.done \cup {t.a} ELSE t.done,
                                             !.todo = rest,
                                             !.pc = IF rest = {} THEN "commit" ELSE "lockE",
                                             !.a = next]]
    /\ UNCHANGED <<clock, execution, attempt, lockE, lockA, identity>>

\* A domain error raised after the locks: _atomic rolls the transaction back.
Reject(s) ==
    /\ txn[s].pc = "decide"
    /\ \/ txn[s].op = "acquire" /\ ~AcquireValid(s)
       \/ txn[s].op = "start" /\ ~StartValid(s)
       \/ txn[s].op = "renew" /\ ~RenewValid(s)
       \/ txn[s].op = "mark" /\ ~MarkValid(s)
       \/ txn[s].op = "finish" /\ \E o \in Outcomes : ~FinishValid(s, o)
    /\ Rollback(s)

-----------------------------------------------------------------------------
(* Commits: the UPDATE writes the columns the operation changed            *)

\* The commit expires the session's objects; the operation then refreshes the
\* one it returns.
Committed(s) ==
    /\ txn' = [txn EXCEPT ![s] = IF @.op = "reconcile" THEN NoTxn
                                 ELSE [NoTxn EXCEPT !.pc = "refresh", !.a = txn[s].a]]
    /\ ReleaseLocks(s)
    /\ identity' = [identity EXCEPT ![s] = [a \in AttemptIds |-> NoRow]]
    /\ UNCHANGED clock

Committing(s, op) == txn[s].pc = "commit" /\ txn[s].op = op

CommitAcquire(s, lease) ==
    LET t == txn[s] IN
    /\ Committing(s, "acquire")
    /\ attempt' = [attempt EXCEPT ![t.a] =
                     [status |-> "acquired", worker |-> WorkerOf[s],
                      expires |-> t.moment + lease, writes |-> FALSE, finished |-> 0]]
    /\ execution' = [execution EXCEPT ![ExecOf(t.a)].status = "running"]
    /\ Committed(s)

CommitStart(s) ==
    /\ Committing(s, "start")
    /\ attempt' = [attempt EXCEPT ![txn[s].a].status = "running"]
    /\ UNCHANGED execution
    /\ Committed(s)

CommitRenew(s, lease) ==
    LET t == txn[s] IN
    /\ Committing(s, "renew")
    /\ attempt' = [attempt EXCEPT ![t.a].expires = t.moment + lease]
    /\ UNCHANGED execution
    /\ Committed(s)

CommitMark(s) ==
    LET a == txn[s].a IN
    /\ Committing(s, "mark")
    /\ attempt' = [attempt EXCEPT ![a].writes = TRUE]
    /\ execution' = [execution EXCEPT ![ExecOf(a)].writes = TRUE]
    /\ Committed(s)

\* _terminalize, on a row and on its execution.
TerminalRow(r, target, moment) ==
    [r EXCEPT !.status = target, !.finished = moment,
              !.writes = @ \/ target = "partial"]

\* Mutant: only the attempt row is terminalized.
TerminalExecutionKept(x, target) == [x EXCEPT !.writes = @ \/ target = "partial"]

TerminalExecution(x, target) ==
    [x EXCEPT !.status = IF @ \in TERMINAL_STATUSES THEN @ ELSE target,
              !.writes = @ \/ target = "partial"]

CommitFinish(s) ==
    LET t == txn[s] IN
    /\ Committing(s, "finish")
    /\ attempt' = [attempt EXCEPT ![t.a] = TerminalRow(@, t.target, t.moment)]
    /\ execution' = [execution EXCEPT ![ExecOf(t.a)] = TerminalExecution(@, t.target)]
    /\ Committed(s)

\* All the candidates of one reconciliation are committed together.
CommitReconcile(s) ==
    LET t == txn[s]
        target(a) == ReconcileTarget(identity[s][a])
    IN
    /\ Committing(s, "reconcile")
    /\ attempt' = [a \in AttemptIds |->
                     IF a \in t.done THEN TerminalRow(attempt[a], target(a), t.moment)
                     ELSE attempt[a]]
    /\ execution' = [e \in Execs |->
                       IF \E a \in t.done : ExecOf(a) = e
                       THEN TerminalExecution(execution[e],
                                              target(CHOOSE a \in t.done : ExecOf(a) = e))
                       ELSE execution[e]]
    /\ Committed(s)

\* session.refresh(attempt): an unlocked read after the commit.
Refresh(s) ==
    LET a == txn[s].a IN
    /\ txn[s].pc = "refresh"
    /\ identity' = [identity EXCEPT ![s][a] = attempt[a]]
    /\ txn' = [txn EXCEPT ![s] = NoTxn]
    /\ UNCHANGED <<clock, execution, attempt, lockE, lockA>>

\* The caller drops the object it was returned: the identity map is weak.
DropReference(s, a) ==
    /\ txn[s].pc = "idle"
    /\ identity[s][a] # NoRow
    /\ identity' = [identity EXCEPT ![s][a] = NoRow]
    /\ UNCHANGED <<clock, execution, attempt, lockE, lockA, txn>>

\* The process or its connection dies inside a transaction: the server aborts it.
Crash(s) ==
    /\ s \in Crashable
    /\ txn[s].pc # "idle"
    /\ Rollback(s)

-----------------------------------------------------------------------------
(* The specification                                                       *)

Call(s) ==
    \/ \E e \in Execs : CallAcquire(s, e)
    \/ \E a \in AttemptIds : \/ \E op \in {"start", "renew"} : CallOnAttempt(s, op, a)
                             \/ \E op \in {"mark", "finish"} : CallOnBoth(s, op, a)

Decide(s) ==
    \/ DecideAcquire(s) \/ DecideStart(s) \/ DecideRenew(s) \/ DecideMark(s)
    \/ \E o \in Outcomes : DecideFinish(s, o)
    \/ Recheck(s)
    \/ Reject(s)

Commit(s) ==
    \/ \E lease \in Leases : CommitAcquire(s, lease) \/ CommitRenew(s, lease)
    \/ CommitStart(s) \/ CommitMark(s) \/ CommitFinish(s) \/ CommitReconcile(s)

\* What a session inside a transaction does next.
Step(s) == LockExecution(s) \/ LockAttempt(s) \/ Decide(s) \/ Commit(s) \/ Refresh(s)

Reconcile(s) == \E scope \in {Execs} \cup {{e} : e \in Execs} : Discover(s, scope)

Next ==
    \/ Tick
    \/ \E s \in Sessions : Call(s) \/ \E a \in AttemptIds : DropReference(s, a)
    \/ \E s \in Reconcilers : Reconcile(s)
    \/ \E s \in DbSessions : Step(s) \/ Crash(s)

Spec == Init /\ [][Next]_vars

\* A transaction makes progress (a dead connection is aborted by the server),
\* waiters on a row lock are served in turn, and time passes.  Nothing makes a
\* worker call, and nothing makes anybody call reconcile_expired_attempts.
Fairness ==
    /\ WF_vars(Tick)
    /\ \A s \in DbSessions : WF_vars(Decide(s) \/ Commit(s) \/ Refresh(s))
    /\ \A s \in DbSessions : SF_vars(LockExecution(s)) /\ SF_vars(LockAttempt(s))

FairSpec == Spec /\ Fairness

-----------------------------------------------------------------------------
(* Properties                                                              *)

Kinds ==
    /\ clock \in Nat
    /\ execution \in [Execs -> Executions]
    /\ attempt \in [AttemptIds -> Rows]
    /\ lockE \in [Execs -> DbSessions \cup {Free}]
    /\ lockA \in [AttemptIds -> DbSessions \cup {Free}]
    /\ txn \in [DbSessions -> Txns]
    /\ identity \in [DbSessions -> [AttemptIds -> Rows]]

Roles == \A s \in DbSessions : txn[s].op # "none" => (txn[s].op = "reconcile" <=> s \in Reconcilers)

\* Every variable holds values of its kind, and only reconcilers reconcile.
TypeOK == Kinds /\ Roles

\* acquire_attempt never retries: whatever the interleaving of workers, crashes
\* and reconcilers, an execution gets one attempt and the rest are refused.
NoImplicitRetry ==
    \A a, b \in AttemptIds : Exists(a) /\ Exists(b) /\ ExecOf(a) = ExecOf(b) => a = b

\* attempt and execution are terminalized together and agree on the outcome
\* (the one-to-one mapping of ATTEMPT_TERMINAL_TO_EXECUTION_STATUS).
OutcomesAgree ==
    /\ \A a \in AttemptIds :
         /\ Terminal(attempt[a]) => execution[ExecOf(a)].status = attempt[a].status
         /\ Active(attempt[a]) => execution[ExecOf(a)].status = "running"
    /\ \A e \in Execs : execution[e].status = "pending" <=> AttemptsOf(e) = {}

\* writes_started is the durable indicator of a half-written destination: it is
\* set on both rows or on neither, and no attempt with it is ever recorded as
\* failed, cancelled or interrupted (partial prevails).
PartialPrevailsInv ==
    /\ \A a \in AttemptIds :
         attempt[a].writes => attempt[a].status \notin {"failed", "cancelled", "interrupted"}
    /\ \A e \in Execs : execution[e].writes <=> \E a \in AttemptsOf(e) : attempt[a].writes

\* The two rows tell one story, and a write that began is never hidden by the
\* outcome, although the owner, another worker and the reconciler may each
\* decide on a stale copy (_terminalize, finish_attempt).
OutcomesSettled == OutcomesAgree /\ PartialPrevailsInv

\* The lease fences the control plane: an outcome only a worker can author was
\* decided before the lease it was decided under ran out, one only the
\* reconciler can author after it.
LeaseFencesOutcome ==
    \A a \in AttemptIds :
        LET r == attempt[a] IN
        /\ r.status \in {"succeeded", "failed", "cancelled"} => 0 < r.finished /\ r.finished < r.expires
        /\ r.status = "interrupted" => r.finished >= r.expires

\* Transactions wait in one order: a session that waits for a row holds only
\* rows before it (executions by id, each before its attempts), although a
\* reconciliation keeps the rows of several executions until its commit.  A
\* cycle of sessions waiting for each other would need a row before itself
\* (_lock_execution, _lock_attempt, _expired_active_attempt_ids).
WaitsForExecution(s) == txn[s].pc = "lockE" /\ lockE[ExecOf(txn[s].a)] # s
WaitsForAttempt(s)   == txn[s].pc = "lockA" /\ lockA[txn[s].a] # s

LockOrder ==
    \A s \in DbSessions :
        /\ WaitsForExecution(s) =>
             /\ \A e \in Execs : lockE[e] = s => e < ExecOf(txn[s].a)
             /\ \A b \in AttemptIds : lockA[b] = s => ExecOf(b) < ExecOf(txn[s].a)
        /\ WaitsForAttempt(s) =>
             /\ \A e \in Execs : lockE[e] = s => e <= ExecOf(txn[s].a)
             /\ \A b \in AttemptIds : lockA[b] = s => Before(b, txn[s].a)

\* A terminal attempt row never changes again and writes_started never goes
\* back, although every session may decide on a stale copy of the row.
TerminalImmutable ==
    [][\A a \in AttemptIds :
         /\ Terminal(attempt[a]) => attempt'[a] = attempt[a]
         /\ attempt[a].writes => attempt'[a].writes]_attempt

\* A reconciliation that is called settles what it found, whatever the workers
\* it waits for do: an attempt that was lost when the reconciler's unlocked
\* reading saw it becomes terminal, unless its owner's renewal was committed
\* before the re-check under the locks (reconcile_expired_attempts).  That
\* somebody calls it is not claimed: an attempt nobody reconciles stays as its
\* worker left it.
ReconciliationSettles ==
    \A s \in Reconcilers \ Crashable, a \in AttemptIds :
        a \in txn[s].todo
          ~> \/ Terminal(attempt[a])
             \/ txn[s].pc # "idle" /\ attempt[a].expires > txn[s].moment
=============================================================================
