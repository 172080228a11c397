-------------------------- MODULE OwnershipProofs ---------------------------
(***************************************************************************)
(* Proofs about ownership: of an execution by the worker that holds its    *)
(* lease (module Attempts), and of the artifact directory by the request   *)
(* that holds the slot of the local web UI (module JobSlot).               *)
(***************************************************************************)
EXTENDS Attempts, JobSlot, TLAPS

USE DEF DbSessions

\* Attempt ids are pairs of an execution and a number.
LEMMA Ids ==
    /\ \A e \in Execs, n \in Numbers : <<e, n>> \in AttemptIds /\ ExecOf(<<e, n>>) = e
    /\ \A a \in AttemptIds : ExecOf(a) \in Execs
    /\ 1 \in Numbers
  BY ConstantsAssumption DEF AttemptIds, ExecOf, Numbers

-----------------------------------------------------------------------------
(* Type correctness                                                        *)

\* The idle transaction is a transaction.
LEMMA NoTxnType == NoTxn \in Txns /\ NoTxn.op = "none" /\ NoTxn.pc = "idle"
<1>1. \E a : a \in AttemptIds
  BY Ids, ConstantsAssumption
<1>2. (CHOOSE a \in AttemptIds : TRUE) \in AttemptIds
  BY <1>1
<1>. QED
  BY <1>2 DEF NoTxn, Txns, Ops, WORKER_TERMINAL_STATES

\* The absent row is a row.
LEMMA NoRowType == NoRow \in Rows
  BY DEF NoRow, Rows

\* The values that rows and executions take in a terminalization are of their
\* kind.
LEMMA TerminalType ==
    ASSUME NEW r \in Rows, NEW x \in Executions, NEW t \in ATTEMPT_TERMINAL_STATUSES,
           NEW n \in Nat
    PROVE  TerminalRow(r, t, n) \in Rows /\ TerminalExecution(x, t) \in Executions
  BY DEF TerminalRow, TerminalExecution, Rows, Executions, TERMINAL_STATUSES

\* What a terminalization writes and what it keeps.
LEMMA TerminalFields ==
    ASSUME NEW r \in Rows, NEW x \in Executions, NEW t, NEW n
    PROVE  /\ TerminalRow(r, t, n).status = t
           /\ TerminalRow(r, t, n).finished = n
           /\ TerminalRow(r, t, n).worker = r.worker
           /\ TerminalRow(r, t, n).expires = r.expires
           /\ TerminalRow(r, t, n).writes <=> (r.writes \/ t = "partial")
           /\ TerminalExecution(x, t).status = IF x.status \in TERMINAL_STATUSES THEN x.status ELSE t
           /\ TerminalExecution(x, t).writes <=> (x.writes \/ t = "partial")
  BY DEF TerminalRow, TerminalExecution, Rows, Executions

\* A step that only moves the transaction of one session.
LEMMA MoveType ==
    ASSUME Kinds, NEW s \in DbSessions, NEW t \in Txns, txn' = [txn EXCEPT ![s] = t],
           UNCHANGED <<clock, execution, attempt, lockE, lockA, identity>>
    PROVE  Kinds'
  BY DEF Kinds

\* A rollback or the end of a commit leaves the control state of its kind.
LEMMA RollbackType ==
    ASSUME Kinds, NEW s \in DbSessions, Rollback(s)
    PROVE  Kinds'
  BY NoTxnType, NoRowType DEF Kinds, Rollback, ReleaseLocks

\* So does a commit that leaves rows and executions of their kinds.
LEMMA CommittedType ==
    ASSUME Kinds, NEW s \in DbSessions, Committed(s),
           attempt' \in [AttemptIds -> Rows], execution' \in [Execs -> Executions]
    PROVE  Kinds'
<1>1. txn' \in [DbSessions -> Txns]
  BY NoTxnType DEF Kinds, Committed, Txns
<1>. QED
  BY <1>1, NoRowType DEF Kinds, Committed, ReleaseLocks

\* Every step keeps the kinds.
LEMMA KindsStep ==
    ASSUME Kinds, Roles, [Next]_vars
    PROVE  Kinds'
<1>0. \A s \in DbSessions : txn[s] \in Txns /\ txn[s].a \in AttemptIds /\ txn[s].moment \in Nat
  BY DEF Kinds, Txns
<1>1. CASE Tick
  BY <1>1 DEF Tick, Kinds
<1>2. ASSUME NEW s \in Sessions, Call(s)
      PROVE  Kinds'
  <2>1. ASSUME NEW e \in Execs, CallAcquire(s, e) PROVE Kinds'
    <3>1. [txn[s] EXCEPT !.pc = "lockE", !.op = "acquire", !.a = <<e, 1>>] \in Txns
      BY <1>0, Ids DEF Txns, Ops
    <3>. QED BY <2>1, <3>1, MoveType DEF CallAcquire
  <2>2. ASSUME NEW a \in AttemptIds, NEW op \in {"start", "renew"}, CallOnAttempt(s, op, a)
        PROVE Kinds'
    <3>1. [txn[s] EXCEPT !.pc = "lockA", !.op = op, !.a = a] \in Txns
      BY <1>0 DEF Txns, Ops
    <3>. QED BY <2>2, <3>1, MoveType DEF CallOnAttempt
  <2>3. ASSUME NEW a \in AttemptIds, NEW op \in {"mark", "finish"}, CallOnBoth(s, op, a)
        PROVE Kinds'
    <3>1. [txn[s] EXCEPT !.pc = "lockE", !.op = op, !.a = a] \in Txns
      BY <1>0 DEF Txns, Ops
    <3>. QED BY <2>3, <3>1, MoveType DEF CallOnBoth
  <2>. QED BY <1>2, <2>1, <2>2, <2>3 DEF Call
<1>3. ASSUME NEW s \in Sessions, NEW a \in AttemptIds, DropReference(s, a)
      PROVE  Kinds'
  BY <1>3, NoRowType DEF DropReference, Kinds
<1>4. ASSUME NEW s \in Reconcilers, NEW scope, Discover(s, scope)
      PROVE  Kinds'
  <2>1. ASSUME NEW a \in AttemptIds, NEW found \in SUBSET AttemptIds
        PROVE  [txn[s] EXCEPT !.pc = "lockE", !.op = "reconcile", !.a = a,
                              !.moment = clock, !.todo = found] \in Txns
    BY <1>0, ZenonT(30) DEF Txns, Ops, Kinds
  <2>. QED BY <1>4, <2>1, MoveType DEF Discover
<1>5. ASSUME NEW s \in DbSessions, LockExecution(s) PROVE Kinds'
  <2>1. txn' \in [DbSessions -> Txns]
    <3>1. \A p \in {"decide", "lockA"} : [txn[s] EXCEPT !.pc = p] \in Txns
      BY <1>0 DEF Txns
    <3>. QED BY <1>5, <3>1 DEF LockExecution, Kinds
  <2>. QED BY <1>5, <2>1 DEF LockExecution, Kinds
<1>6. ASSUME NEW s \in DbSessions, LockAttempt(s) PROVE Kinds'
  <2>1. txn' \in [DbSessions -> Txns]
    <3>1. [txn[s] EXCEPT !.pc = "decide"] \in Txns
      BY <1>0 DEF Txns
    <3>. QED BY <1>6, <3>1 DEF LockAttempt, Kinds
  <2>2. identity' \in [DbSessions -> [AttemptIds -> Rows]]
    BY <1>6, <1>0 DEF LockAttempt, Kinds
  <2>. QED BY <1>6, <2>1, <2>2 DEF LockAttempt, Kinds
<1>7. ASSUME NEW s \in DbSessions, Decide(s) PROVE Kinds'
  <2>1. CASE DecideAcquire(s)
    <3>1. ASSUME NEW n \in Numbers
          PROVE  [txn[s] EXCEPT !.pc = "commit", !.moment = clock, !.a = <<ExecOf(txn[s].a), n>>]
                   \in Txns
      BY <1>0, Ids DEF Txns, Kinds
    <3>. QED BY <2>1, <3>1, MoveType DEF DecideAcquire
  <2>2. CASE DecideStart(s) \/ DecideRenew(s) \/ DecideMark(s)
    <3>1. [txn[s] EXCEPT !.pc = "commit", !.moment = clock] \in Txns
      BY <1>0 DEF Txns, Kinds
    <3>. QED BY <2>2, <3>1, MoveType DEF DecideStart, DecideRenew, DecideMark
  <2>3. ASSUME NEW o \in Outcomes, DecideFinish(s, o) PROVE Kinds'
    <3>1. PartialPrevails(Object(s), o) \in WORKER_TERMINAL_STATES
      BY ConstantsAssumption DEF PartialPrevails, WORKER_TERMINAL_STATES
    <3>2. [txn[s] EXCEPT !.pc = "commit", !.moment = clock,
                         !.target = PartialPrevails(Object(s), o)] \in Txns
      BY <1>0, <3>1 DEF Txns, Kinds
    <3>. QED BY <2>3, <3>2, MoveType DEF DecideFinish
  <2>4. CASE Recheck(s)
    <3>1. ASSUME NEW next \in AttemptIds, NEW p \in {"commit", "lockE"},
                 NEW rest \in SUBSET AttemptIds, NEW done \in SUBSET AttemptIds
          PROVE  [txn[s] EXCEPT !.done = done, !.todo = rest, !.pc = p, !.a = next] \in Txns
      BY <1>0 DEF Txns
    <3>2. txn[s].todo \in SUBSET AttemptIds /\ txn[s].done \in SUBSET AttemptIds
      BY <1>0 DEF Txns
    <3>. DEFINE rest == txn[s].todo \ {txn[s].a}
                done == IF StillLost(s) THEN txn[s].done \cup {txn[s].a} ELSE txn[s].done
                stop == IF rest = {} THEN "commit" ELSE "lockE"
    <3>3. rest \in SUBSET AttemptIds /\ done \in SUBSET AttemptIds /\ stop \in {"commit", "lockE"}
      BY <1>0, <3>2
    <3>4. PICK next \in AttemptIds :
            txn' = [txn EXCEPT ![s] = [@ EXCEPT !.done = done, !.todo = rest, !.pc = stop, !.a = next]]
      <4>1. PICK next \in IF rest = {} THEN {txn[s].a} ELSE {a \in rest : IsFirst(a, rest)} :
              txn' = [txn EXCEPT ![s] = [@ EXCEPT !.done = done, !.todo = rest, !.pc = stop, !.a = next]]
        BY <2>4 DEF Recheck
      <4>2. next \in AttemptIds
        BY <1>0, <3>3
      <4>. QED BY <4>1, <4>2
    <3>. HIDE DEF rest, done, stop
    <3>5. [txn[s] EXCEPT !.done = done, !.todo = rest, !.pc = stop, !.a = next] \in Txns
      BY <3>1, <3>3
    <3>. QED BY <1>0, <2>4, <3>4, <3>5, MoveType DEF Recheck, Txns
  <2>5. CASE Reject(s)
    BY <2>5, RollbackType DEF Reject
  <2>. QED BY <1>7, <2>1, <2>2, <2>3, <2>4, <2>5 DEF Decide
<1>8. ASSUME NEW s \in DbSessions, Commit(s) PROVE Kinds'
  <2>0. \A a \in AttemptIds : attempt[a] \in Rows /\ ExecOf(a) \in Execs
    BY Ids DEF Kinds
  <2>1. ASSUME NEW lease \in Leases, CommitAcquire(s, lease) PROVE Kinds'
    <3>1. WorkerOf[s] \in Workers /\ txn[s].moment + lease \in Nat
      BY <1>0, <2>1, ConstantsAssumption DEF CommitAcquire, Committing, Roles
    <3>2. attempt' \in [AttemptIds -> Rows]
      BY <1>0, <2>1, <3>1 DEF CommitAcquire, Kinds, Rows, ATTEMPT_ACTIVE_STATUSES
    <3>3. execution' \in [Execs -> Executions]
      BY <1>0, <2>0, <2>1 DEF CommitAcquire, Kinds, Executions
    <3>. QED BY <2>1, <3>2, <3>3, CommittedType DEF CommitAcquire
  <2>2. ASSUME NEW lease \in Leases, CommitRenew(s, lease) PROVE Kinds'
    <3>1. ASSUME NEW a \in AttemptIds PROVE [attempt[a] EXCEPT !.expires = txn[s].moment + lease] \in Rows
      BY <1>0, <2>0, ConstantsAssumption DEF Rows
    <3>2. attempt' \in [AttemptIds -> Rows]
      BY <1>0, <2>2, <3>1 DEF CommitRenew, Kinds
    <3>. QED BY <2>2, <3>2, CommittedType DEF CommitRenew, Kinds
  <2>3. CASE CommitStart(s)
    <3>1. ASSUME NEW a \in AttemptIds PROVE [attempt[a] EXCEPT !.status = "running"] \in Rows
      BY <2>0 DEF Rows, ATTEMPT_ACTIVE_STATUSES
    <3>2. attempt' \in [AttemptIds -> Rows]
      BY <1>0, <2>3, <3>1 DEF CommitStart, Kinds
    <3>. QED BY <2>3, <3>2, CommittedType DEF CommitStart, Kinds
  <2>4. CASE CommitMark(s)
    <3>1. ASSUME NEW a \in AttemptIds PROVE [attempt[a] EXCEPT !.writes = TRUE] \in Rows
      BY <2>0 DEF Rows
    <3>2. attempt' \in [AttemptIds -> Rows]
      BY <1>0, <2>4, <3>1 DEF CommitMark, Kinds
    <3>3. execution' \in [Execs -> Executions]
      BY <1>0, <2>0, <2>4 DEF CommitMark, Kinds, Executions
    <3>. QED BY <2>4, <3>2, <3>3, CommittedType DEF CommitMark
  <2>5. CASE CommitFinish(s)
    <3>1. txn[s].target \in ATTEMPT_TERMINAL_STATUSES
      BY <1>0 DEF Txns, WORKER_TERMINAL_STATES, ATTEMPT_TERMINAL_STATUSES
    <3>. QED
      BY <1>0, <2>0, <2>5, <3>1, CommittedType, TerminalType DEF CommitFinish, Kinds
  <2>6. CASE CommitReconcile(s)
    <3>1. \A r : ReconcileTarget(r) \in ATTEMPT_TERMINAL_STATUSES
      BY DEF ReconcileTarget, ATTEMPT_TERMINAL_STATUSES
    <3>2. attempt' \in [AttemptIds -> Rows]
      BY <1>0, <2>0, <2>6, <3>1, TerminalType DEF CommitReconcile, Kinds
    <3>3. execution' \in [Execs -> Executions]
      BY <1>0, <2>6, <3>1, TerminalType DEF CommitReconcile, Kinds
    <3>. QED BY <2>6, <3>2, <3>3, CommittedType DEF CommitReconcile
  <2>. QED BY <1>8, <2>1, <2>2, <2>3, <2>4, <2>5, <2>6 DEF Commit
<1>9. ASSUME NEW s \in DbSessions, Refresh(s) PROVE Kinds'
  BY <1>0, <1>9, NoTxnType DEF Refresh, Kinds
<1>10. ASSUME NEW s \in DbSessions, Crash(s) PROVE Kinds'
  BY <1>10, RollbackType DEF Crash
<1>11. CASE UNCHANGED vars
  BY <1>11 DEF vars, Kinds
<1>. QED
  BY <1>1, <1>2, <1>3, <1>4, <1>5, <1>6, <1>7, <1>8, <1>9, <1>10, <1>11
     DEF Next, Step, Reconcile

\* Only the calls choose an operation, and each names its caller.
LEMMA RolesStep ==
    ASSUME Kinds, Roles, [Next]_vars
    PROVE  Roles'
<1>0. \A s \in DbSessions : txn[s] \in Txns
  BY DEF Kinds
<1>1. ASSUME NEW s \in DbSessions, NEW t, txn' = [txn EXCEPT ![s] = t],
             t.op \in {"none", txn[s].op} \/ (t.op = "reconcile" <=> s \in Reconcilers)
      PROVE  Roles'
  BY <1>1 DEF Roles, Kinds
<1>2. CASE Tick \/ (\E s \in Sessions, a \in AttemptIds : DropReference(s, a)) \/ UNCHANGED vars
  BY <1>2 DEF Tick, DropReference, vars, Roles
<1>3. ASSUME NEW s \in Sessions, Call(s) PROVE Roles'
  <2>1. ASSUME NEW stop, NEW op \in Ops \ {"reconcile"}, NEW a,
               txn' = [txn EXCEPT ![s] = [@ EXCEPT !.pc = stop, !.op = op, !.a = a]]
        PROVE  Roles'
    <3>1. [txn[s] EXCEPT !.pc = stop, !.op = op, !.a = a].op = op
      BY <1>0 DEF Txns
    <3>. QED BY <1>1, <2>1, <3>1, ConstantsAssumption
  <2>2. ASSUME NEW e \in Execs, CallAcquire(s, e) PROVE Roles'
    BY <2>1, <2>2 DEF CallAcquire, Ops
  <2>3. ASSUME NEW a \in AttemptIds, NEW op \in {"start", "renew"}, CallOnAttempt(s, op, a)
        PROVE Roles'
    BY <2>1, <2>3 DEF CallOnAttempt, Ops
  <2>4. ASSUME NEW a \in AttemptIds, NEW op \in {"mark", "finish"}, CallOnBoth(s, op, a)
        PROVE Roles'
    BY <2>1, <2>4 DEF CallOnBoth, Ops
  <2>. QED BY <1>3, <2>2, <2>3, <2>4 DEF Call
<1>4. ASSUME NEW s \in Reconcilers, NEW scope, Discover(s, scope) PROVE Roles'
  <2>. DEFINE found == {a \in AttemptIds : /\ ExecOf(a) \in scope
                                           /\ Active(attempt[a])
                                           /\ attempt[a].expires <= clock}
  <2>1. PICK a \in found : txn' = [txn EXCEPT ![s] = [@ EXCEPT !.pc = "lockE", !.op = "reconcile",
                                                     !.a = a, !.moment = clock, !.todo = found]]
    BY <1>4 DEF Discover
  <2>. HIDE DEF found
  <2>2. [txn[s] EXCEPT !.pc = "lockE", !.op = "reconcile", !.a = a,
                       !.moment = clock, !.todo = found].op = "reconcile"
    BY <1>0 DEF Txns
  <2>. QED BY <1>1, <2>1, <2>2
<1>5. ASSUME NEW s \in DbSessions, LockExecution(s) \/ LockAttempt(s) PROVE Roles'
  <2>1. \A stop : [txn[s] EXCEPT !.pc = stop].op = txn[s].op
    BY <1>0 DEF Txns
  <2>. QED BY <1>1, <1>5, <2>1 DEF LockExecution, LockAttempt
<1>6. ASSUME NEW s \in DbSessions, Decide(s) PROVE Roles'
  <2>1. CASE DecideAcquire(s)
    <3>1. \A a : [txn[s] EXCEPT !.pc = "commit", !.moment = clock, !.a = a].op = txn[s].op
      BY <1>0 DEF Txns
    <3>. QED BY <1>1, <2>1, <3>1 DEF DecideAcquire
  <2>2. CASE DecideStart(s) \/ DecideRenew(s) \/ DecideMark(s)
    <3>1. [txn[s] EXCEPT !.pc = "commit", !.moment = clock].op = txn[s].op
      BY <1>0 DEF Txns
    <3>. QED BY <1>1, <2>2, <3>1 DEF DecideStart, DecideRenew, DecideMark
  <2>3. ASSUME NEW o \in Outcomes, DecideFinish(s, o) PROVE Roles'
    <3>1. \A t : [txn[s] EXCEPT !.pc = "commit", !.moment = clock, !.target = t].op = txn[s].op
      BY <1>0 DEF Txns
    <3>. QED BY <1>1, <2>3, <3>1 DEF DecideFinish
  <2>4. CASE Recheck(s)
    <3>. DEFINE rest == txn[s].todo \ {txn[s].a}
                done == IF StillLost(s) THEN txn[s].done \cup {txn[s].a} ELSE txn[s].done
                stop == IF rest = {} THEN "commit" ELSE "lockE"
    <3>1. PICK next \in IF rest = {} THEN {txn[s].a} ELSE {a \in rest : IsFirst(a, rest)} :
            txn' = [txn EXCEPT ![s] = [@ EXCEPT !.done = done, !.todo = rest, !.pc = stop, !.a = next]]
      BY <2>4 DEF Recheck
    <3>. HIDE DEF rest, done, stop
    <3>2. [txn[s] EXCEPT !.done = done, !.todo = rest, !.pc = stop, !.a = next].op = txn[s].op
      BY <1>0 DEF Txns
    <3>. QED BY <1>1, <3>1, <3>2
  <2>5. CASE Reject(s)
    BY <1>1, <2>5, NoTxnType DEF Reject, Rollback
  <2>. QED BY <1>6, <2>1, <2>2, <2>3, <2>4, <2>5 DEF Decide
<1>7. ASSUME NEW s \in DbSessions, Commit(s) \/ Refresh(s) \/ Crash(s) PROVE Roles'
  <2>1. \A a : [NoTxn EXCEPT !.pc = "refresh", !.a = a].op = "none"
    BY NoTxnType DEF Txns
  <2>2. \E t : txn' = [txn EXCEPT ![s] = t] /\ t.op = "none"
    BY <1>7, <2>1, NoTxnType DEF Commit, CommitAcquire, CommitRenew, CommitStart, CommitMark,
       CommitFinish, CommitReconcile, Committed, Refresh, Crash, Rollback
  <2>. QED BY <1>1, <2>2
<1>. QED
  BY <1>2, <1>3, <1>4, <1>5, <1>6, <1>7 DEF Next, Step, Reconcile

\* Every variable keeps holding values of its kind, for any number of
\* executions, workers, sessions and reconcilers.
THEOREM TypeCorrect == Spec => []TypeOK
<1>1. Init => TypeOK
  BY NoTxnType, NoRowType, ConstantsAssumption DEF Init, TypeOK, Kinds, Roles, Executions
<1>2. TypeOK /\ [Next]_vars => TypeOK'
  BY KindsStep, RolesStep DEF TypeOK
<1>. QED
  BY <1>1, <1>2, PTL DEF Spec

-----------------------------------------------------------------------------
(* The order of the locks                                                  *)

HoldsNothing(s) == (\A e \in Execs : lockE[e] # s) /\ (\A b \in AttemptIds : lockA[b] # s)

\* What a session holds lies before what it works on; a reconciliation holds
\* the execution of every attempt it holds, and its candidates are still to
\* come in their order.
Ordered(s) ==
    LET t == txn[s] IN
    /\ t.pc \in {"idle", "refresh"} => HoldsNothing(s)
    /\ t.op # "reconcile" /\ t.pc = "lockE" => HoldsNothing(s)
    /\ t.op # "reconcile" /\ t.pc = "lockA" => \A b \in AttemptIds : lockA[b] # s
    /\ \A e \in Execs : lockE[e] = s => e <= ExecOf(t.a)
    /\ t.op = "reconcile" =>
         \A b \in AttemptIds : lockA[b] = s =>
             /\ lockE[ExecOf(b)] = s
             /\ Before(b, t.a) \/ (b = t.a /\ t.pc \in {"decide", "commit"})
    /\ t.op = "reconcile" /\ t.pc = "lockA" => lockE[ExecOf(t.a)] = s
    /\ t.op = "reconcile" /\ t.pc \in {"lockE", "lockA", "decide"} =>
         \A b \in t.todo \ {t.a} : Before(t.a, b)

InOrder == \A s \in DbSessions : Ordered(s)

\* A session that neither moves nor gains nor loses a lock stays in order.
LEMMA OrderKept ==
    ASSUME NEW s \in DbSessions, Ordered(s), txn'[s] = txn[s], txn[s].a \in AttemptIds,
           \A e \in Execs : lockE'[e] = s <=> lockE[e] = s,
           \A b \in AttemptIds : lockA'[b] = s <=> lockA[b] = s
    PROVE  Ordered(s)'
<1>1. ExecOf(txn[s].a) \in Execs /\ \A b \in AttemptIds : ExecOf(b) \in Execs
  BY Ids
<1>2. HoldsNothing(s)' <=> HoldsNothing(s)
  BY DEF HoldsNothing
<1>. QED BY <1>1, <1>2 DEF Ordered

\* So a step of one session concerns that session only: the others lose no
\* lock to it.
LEMMA OrderOfOthers ==
    ASSUME Kinds, InOrder, NEW s \in DbSessions,
           \A r \in DbSessions \ {s} : txn'[r] = txn[r],
           \A e \in Execs : lockE'[e] = lockE[e] \/ {lockE[e], lockE'[e]} \subseteq {s, Free},
           \A b \in AttemptIds : lockA'[b] = lockA[b] \/ {lockA[b], lockA'[b]} \subseteq {s, Free},
           Ordered(s)'
    PROVE  InOrder'
<1>1. ASSUME NEW r \in DbSessions, r # s PROVE Ordered(r)'
  <2>1. txn'[r] = txn[r]
    BY <1>1
  <2>2. r # Free
    BY ConstantsAssumption
  <2>3. Ordered(r) /\ txn[r].a \in AttemptIds
    BY DEF InOrder, Kinds, Txns
  <2>4. (\A e \in Execs : lockE'[e] = r <=> lockE[e] = r) /\ (\A b \in AttemptIds : lockA'[b] = r <=> lockA[b] = r)
    BY <1>1, <2>2
  <2>. QED BY <1>1, <2>1, <2>3, <2>4, OrderKept
<1>. QED BY <1>1 DEF InOrder

\* A session that holds nothing and works on nothing, or begins to work on an
\* attempt, is in order.
LEMMA OrderEmpty ==
    ASSUME NEW s \in DbSessions, HoldsNothing(s)', txn'[s].pc # "lockA" \/ txn'[s].op # "reconcile",
           txn'[s].op = "reconcile" /\ txn'[s].pc \in {"lockE", "lockA", "decide"} =>
               \A b \in txn'[s].todo \ {txn'[s].a} : Before(txn'[s].a, b)
    PROVE  Ordered(s)'
  BY DEF Ordered, HoldsNothing

\* A transaction that ends releases what it held.
LEMMA ReleaseInOrder ==
    ASSUME Kinds, InOrder, NEW s \in DbSessions, NEW t, t.op = "none",
           ReleaseLocks(s), txn' = [txn EXCEPT ![s] = t]
    PROVE  InOrder'
<1>1. txn'[s] = t /\ \A r \in DbSessions \ {s} : txn'[r] = txn[r]
  BY DEF Kinds
<1>2. s # Free
  BY ConstantsAssumption
<1>3. HoldsNothing(s)'
  BY <1>2 DEF HoldsNothing, ReleaseLocks
<1>4. Ordered(s)'
  BY <1>1, <1>3, OrderEmpty
<1>5. (\A e \in Execs : lockE'[e] = lockE[e] \/ {lockE[e], lockE'[e]} \subseteq {s, Free})
      /\ (\A b \in AttemptIds : lockA'[b] = lockA[b] \/ {lockA[b], lockA'[b]} \subseteq {s, Free})
  BY DEF ReleaseLocks
<1>. QED BY <1>1, <1>4, <1>5, OrderOfOthers

\* A rollback frees the locks of its session and disturbs no other.
LEMMA RollbackInOrder ==
    ASSUME Kinds, InOrder, NEW s \in DbSessions, Rollback(s)
    PROVE  InOrder'
  BY ReleaseInOrder, NoTxnType DEF Rollback

\* The reconciler's order of the attempts is transitive.
LEMMA BeforeTransitive ==
    ASSUME NEW a \in AttemptIds, NEW b \in AttemptIds, NEW c \in AttemptIds,
           Before(a, b) \/ a = b, Before(b, c)
    PROVE  Before(a, c)
<1>0. Execs \subseteq Nat /\ Numbers \subseteq Nat
  BY ConstantsAssumption DEF Numbers
<1>1. \A x \in AttemptIds : x[1] \in Execs /\ x[2] \in Numbers
  BY DEF AttemptIds
<1>2. a[1] \in Nat /\ b[1] \in Nat /\ c[1] \in Nat /\ a[2] \in Nat /\ b[2] \in Nat /\ c[2] \in Nat
  BY <1>0, <1>1
<1>. QED BY <1>2 DEF Before

\* Every step keeps the sessions in order.
LEMMA OrderStep ==
    ASSUME Kinds, Roles, InOrder, [Next]_vars
    PROVE  InOrder'
<1>0. \A s \in DbSessions : txn[s] \in Txns /\ Ordered(s) /\ txn[s].a \in AttemptIds /\ s # Free
  BY ConstantsAssumption DEF Kinds, InOrder, Txns
<1>1. CASE Tick \/ (\E s \in Sessions, a \in AttemptIds : DropReference(s, a)) \/ UNCHANGED vars
  BY <1>0, <1>1, OrderKept DEF Tick, DropReference, vars, InOrder
<1>2. ASSUME NEW s \in DbSessions, NEW t, txn[s].pc = "idle", txn' = [txn EXCEPT ![s] = t],
             lockE' = lockE, lockA' = lockA,
             t.op = "reconcile" => t.pc = "lockE" /\ \A b \in t.todo \ {t.a} : Before(t.a, b)
      PROVE  InOrder'
  <2>1. txn'[s] = t /\ \A r \in DbSessions \ {s} : txn'[r] = txn[r]
    BY <1>2 DEF Kinds
  <2>2. HoldsNothing(s)'
    BY <1>0, <1>2 DEF Ordered, HoldsNothing
  <2>3. Ordered(s)'
    BY <1>2, <2>1, <2>2, OrderEmpty
  <2>. QED BY <1>2, <2>1, <2>3, OrderOfOthers
<1>3. ASSUME NEW s \in Sessions, Call(s) PROVE InOrder'
  <2>1. ASSUME NEW e \in Execs, CallAcquire(s, e) PROVE InOrder'
    <3>. DEFINE t == [txn[s] EXCEPT !.pc = "lockE", !.op = "acquire", !.a = <<e, 1>>]
    <3>1. t.op = "acquire"
      BY <1>0 DEF Txns
    <3>2. txn[s].pc = "idle" /\ txn' = [txn EXCEPT ![s] = t] /\ lockE' = lockE /\ lockA' = lockA
      BY <2>1 DEF CallAcquire
    <3>. HIDE DEF t
    <3>. QED BY <1>2, <3>1, <3>2
  <2>2. ASSUME NEW a \in AttemptIds, NEW op \in {"start", "renew"}, CallOnAttempt(s, op, a)
        PROVE InOrder'
    <3>. DEFINE t == [txn[s] EXCEPT !.pc = "lockA", !.op = op, !.a = a]
    <3>1. t.op = op
      BY <1>0 DEF Txns
    <3>2. txn[s].pc = "idle" /\ txn' = [txn EXCEPT ![s] = t] /\ lockE' = lockE /\ lockA' = lockA
      BY <2>2 DEF CallOnAttempt
    <3>. HIDE DEF t
    <3>. QED BY <1>2, <3>1, <3>2
  <2>3. ASSUME NEW a \in AttemptIds, NEW op \in {"mark", "finish"}, CallOnBoth(s, op, a)
        PROVE InOrder'
    <3>. DEFINE t == [txn[s] EXCEPT !.pc = "lockE", !.op = op, !.a = a]
    <3>1. t.op = op
      BY <1>0 DEF Txns
    <3>2. txn[s].pc = "idle" /\ txn' = [txn EXCEPT ![s] = t] /\ lockE' = lockE /\ lockA' = lockA
      BY <2>3 DEF CallOnBoth
    <3>. HIDE DEF t
    <3>. QED BY <1>2, <3>1, <3>2
  <2>. QED BY <1>3, <2>1, <2>2, <2>3 DEF Call
<1>4. ASSUME NEW s \in Reconcilers, NEW scope, Discover(s, scope) PROVE InOrder'
  <2>. DEFINE found == {a \in AttemptIds : /\ ExecOf(a) \in scope
                                           /\ Active(attempt[a])
                                           /\ attempt[a].expires <= clock}
  <2>1. PICK a \in found :
            /\ \A b \in found \ {a} : Before(a, b)
            /\ txn' = [txn EXCEPT ![s] = [@ EXCEPT !.pc = "lockE", !.op = "reconcile",
                                                   !.a = a, !.moment = clock, !.todo = found]]
    BY <1>4, Zenon DEF Discover, IsFirst
  <2>2. txn[s].pc = "idle" /\ lockE' = lockE /\ lockA' = lockA
    BY <1>4 DEF Discover
  <2>. HIDE DEF found
  <2>. DEFINE t == [txn[s] EXCEPT !.pc = "lockE", !.op = "reconcile", !.a = a,
                                  !.moment = clock, !.todo = found]
  <2>3. t.op = "reconcile" /\ t.pc = "lockE" /\ t.a = a /\ t.todo = found
    BY <1>0 DEF Txns
  <2>4. txn' = [txn EXCEPT ![s] = t]
    BY <2>1
  <2>. HIDE DEF t
  <2>. QED BY <1>2, <2>1, <2>2, <2>3, <2>4
<1>5. ASSUME NEW s \in DbSessions, LockExecution(s) PROVE InOrder'
  <2>. DEFINE t == [txn[s] EXCEPT !.pc = IF txn[s].op = "acquire" THEN "decide" ELSE "lockA"]
  <2>1. t.op = txn[s].op /\ t.a = txn[s].a /\ t.todo = txn[s].todo /\ t.pc \in {"decide", "lockA"}
        /\ (t.op = "reconcile" => t.pc = "lockA")
    BY <1>0 DEF Txns
  <2>2. txn'[s] = t /\ \A r \in DbSessions \ {s} : txn'[r] = txn[r]
    BY <1>5 DEF LockExecution, Kinds
  <2>3. txn[s].pc = "lockE" /\ lockA' = lockA
        /\ \A e \in Execs : lockE'[e] = IF e = ExecOf(txn[s].a) THEN s ELSE lockE[e]
    BY <1>5 DEF LockExecution, Kinds
  <2>4. lockE[ExecOf(txn[s].a)] \in {Free, s}
    BY <1>5 DEF LockExecution
  <2>. HIDE DEF t
  <2>5. Ordered(s)'
    <3>1. ExecOf(txn[s].a) \in Nat
      BY <1>0, Ids, ConstantsAssumption
    <3>2. \A e \in Execs : lockE'[e] = s => e <= ExecOf(t.a)
      BY <1>0, <2>1, <2>3, <3>1 DEF Ordered
    <3>3. t.op # "reconcile" => \A b \in AttemptIds : lockA'[b] # s
      BY <1>0, <2>1, <2>3 DEF Ordered, HoldsNothing
    <3>4. ASSUME t.op = "reconcile", NEW b \in AttemptIds, lockA'[b] = s
          PROVE  lockE'[ExecOf(b)] = s /\ Before(b, t.a)
      <4>1. lockA[b] = s /\ txn[s].op = "reconcile" /\ txn[s].pc = "lockE"
        BY <2>1, <2>3, <3>4
      <4>2. lockE[ExecOf(b)] = s /\ Before(b, txn[s].a)
        BY <1>0, <4>1 DEF Ordered
      <4>. QED BY <2>1, <2>3, <4>2, Ids
    <3>5. t.op = "reconcile" => \A b \in t.todo \ {t.a} : Before(t.a, b)
      BY <1>0, <2>1, <2>3 DEF Ordered
    <3>. QED BY <1>0, <2>1, <2>2, <2>3, <3>2, <3>3, <3>4, <3>5, Ids DEF Ordered
  <2>. QED BY <2>2, <2>3, <2>4, <2>5, OrderOfOthers
<1>6. ASSUME NEW s \in DbSessions, LockAttempt(s) PROVE InOrder'
  <2>. DEFINE t == [txn[s] EXCEPT !.pc = "decide"]
  <2>1. t.op = txn[s].op /\ t.a = txn[s].a /\ t.todo = txn[s].todo /\ t.pc = "decide"
    BY <1>0 DEF Txns
  <2>2. txn'[s] = t /\ \A r \in DbSessions \ {s} : txn'[r] = txn[r]
    BY <1>6 DEF LockAttempt, Kinds
  <2>3. txn[s].pc = "lockA" /\ lockE' = lockE
        /\ \A b \in AttemptIds : lockA'[b] = IF b = txn[s].a THEN s ELSE lockA[b]
    BY <1>6 DEF LockAttempt, Kinds
  <2>4. lockA[txn[s].a] \in {Free, s}
    BY <1>6 DEF LockAttempt
  <2>. HIDE DEF t
  <2>5. Ordered(s)'
    <3>1. \A e \in Execs : lockE'[e] = s => e <= ExecOf(t.a)
      BY <1>0, <2>1, <2>3 DEF Ordered
    <3>2. ASSUME t.op = "reconcile", NEW b \in AttemptIds, lockA'[b] = s
          PROVE  lockE'[ExecOf(b)] = s /\ (Before(b, t.a) \/ b = t.a)
      <4>1. CASE b = t.a
        <5>1. txn[s].op = "reconcile" /\ txn[s].pc = "lockA"
          BY <2>1, <2>3, <3>2
        <5>2. lockE[ExecOf(txn[s].a)] = s
          BY <1>0, <5>1 DEF Ordered
        <5>. QED BY <2>1, <2>3, <4>1, <5>2
      <4>2. CASE b # t.a
        <5>1. lockA[b] = s /\ txn[s].op = "reconcile" /\ txn[s].pc = "lockA"
          BY <2>1, <2>3, <3>2, <4>2
        <5>2. lockE[ExecOf(b)] = s /\ Before(b, txn[s].a)
          BY <1>0, <5>1 DEF Ordered
        <5>. QED BY <2>1, <2>3, <5>2
      <4>. QED BY <4>1, <4>2
    <3>3. t.op = "reconcile" => \A b \in t.todo \ {t.a} : Before(t.a, b)
      BY <1>0, <2>1, <2>3 DEF Ordered
    <3>. QED BY <2>1, <2>2, <3>1, <3>2, <3>3 DEF Ordered
  <2>. QED BY <2>2, <2>3, <2>4, <2>5, OrderOfOthers
<1>7. ASSUME NEW s \in DbSessions, Decide(s) PROVE InOrder'
  <2>1. ASSUME NEW t, txn[s].pc = "decide", txn' = [txn EXCEPT ![s] = t], lockE' = lockE, lockA' = lockA,
               txn[s].op # "reconcile", t.op = txn[s].op, t.pc = "commit", ExecOf(t.a) = ExecOf(txn[s].a)
        PROVE  InOrder'
    <3>1. txn'[s] = t /\ \A r \in DbSessions \ {s} : txn'[r] = txn[r]
      BY <2>1 DEF Kinds
    <3>2. \A e \in Execs : lockE'[e] = s => e <= ExecOf(t.a)
      BY <1>0, <2>1 DEF Ordered
    <3>3. Ordered(s)'
      BY <2>1, <3>1, <3>2 DEF Ordered
    <3>. QED BY <2>1, <3>1, <3>3, OrderOfOthers
  <2>2. CASE DecideAcquire(s)
    <3>1. PICK n \in Numbers : txn' = [txn EXCEPT ![s] = [@ EXCEPT !.pc = "commit", !.moment = clock,
                                                                  !.a = <<ExecOf(txn[s].a), n>>]]
      BY <2>2, Zenon DEF DecideAcquire
    <3>. DEFINE t == [txn[s] EXCEPT !.pc = "commit", !.moment = clock, !.a = <<ExecOf(txn[s].a), n>>]
    <3>2. t.op = txn[s].op /\ t.pc = "commit" /\ t.a = <<ExecOf(txn[s].a), n>>
      BY <1>0 DEF Txns
    <3>3. ExecOf(t.a) = ExecOf(txn[s].a)
      BY <3>2 DEF ExecOf
    <3>4. txn' = [txn EXCEPT ![s] = t] /\ lockE' = lockE /\ lockA' = lockA
      BY <2>2, <3>1 DEF DecideAcquire
    <3>5. txn[s].pc = "decide" /\ txn[s].op = "acquire"
      BY <2>2 DEF DecideAcquire, Deciding
    <3>. HIDE DEF t
    <3>. QED BY <2>1, <3>2, <3>3, <3>4, <3>5
  <2>3. CASE DecideStart(s) \/ DecideRenew(s) \/ DecideMark(s)
    <3>. DEFINE t == [txn[s] EXCEPT !.pc = "commit", !.moment = clock]
    <3>1. t.op = txn[s].op /\ t.pc = "commit" /\ t.a = txn[s].a
      BY <1>0 DEF Txns
    <3>2. txn' = [txn EXCEPT ![s] = t] /\ lockE' = lockE /\ lockA' = lockA
      BY <2>3 DEF DecideStart, DecideRenew, DecideMark
    <3>3. txn[s].pc = "decide" /\ txn[s].op # "reconcile"
      BY <2>3 DEF DecideStart, DecideRenew, DecideMark, Deciding
    <3>. HIDE DEF t
    <3>. QED BY <2>1, <3>1, <3>2, <3>3
  <2>4. ASSUME NEW o \in Outcomes, DecideFinish(s, o) PROVE InOrder'
    <3>. DEFINE t == [txn[s] EXCEPT !.pc = "commit", !.moment = clock,
                                    !.target = PartialPrevails(Object(s), o)]
    <3>1. t.op = txn[s].op /\ t.pc = "commit" /\ t.a = txn[s].a
      BY <1>0 DEF Txns
    <3>2. txn' = [txn EXCEPT ![s] = t] /\ lockE' = lockE /\ lockA' = lockA
      BY <2>4 DEF DecideFinish
    <3>3. txn[s].pc = "decide" /\ txn[s].op # "reconcile"
      BY <2>4 DEF DecideFinish, Deciding
    <3>. HIDE DEF t
    <3>. QED BY <2>1, <3>1, <3>2, <3>3
  <2>5. CASE Recheck(s)
    <3>. DEFINE rest == txn[s].todo \ {txn[s].a}
                done == IF StillLost(s) THEN txn[s].done \cup {txn[s].a} ELSE txn[s].done
                stop == IF rest = {} THEN "commit" ELSE "lockE"
    <3>1. PICK next \in IF rest = {} THEN {txn[s].a} ELSE {a \in rest : IsFirst(a, rest)} :
            txn' = [txn EXCEPT ![s] = [@ EXCEPT !.done = done, !.todo = rest, !.pc = stop, !.a = next]]
      BY <2>5, Zenon DEF Recheck
    <3>2. lockE' = lockE /\ lockA' = lockA /\ txn[s].pc = "decide" /\ txn[s].op = "reconcile"
      BY <2>5 DEF Recheck, Deciding
    <3>3. rest \subseteq AttemptIds
      BY <1>0 DEF Txns
    <3>4. (stop = "commit" /\ next = txn[s].a) \/ (stop = "lockE" /\ next \in rest /\ IsFirst(next, rest))
      <4>1. CASE rest = {}
        BY <4>1
      <4>2. CASE rest # {}
        <5>1. next \in {a \in rest : IsFirst(a, rest)}
          BY <4>2
        <5>. QED BY <4>2, <5>1
      <4>. QED BY <4>1, <4>2
    <3>5. \A b \in rest : Before(txn[s].a, b)
      BY <1>0, <3>2 DEF Ordered
    <3>. HIDE DEF done, stop
    <3>. DEFINE t == [txn[s] EXCEPT !.done = done, !.todo = rest, !.pc = stop, !.a = next]
    <3>6. t.op = "reconcile" /\ t.pc = stop /\ t.a = next /\ t.todo = rest
      BY <1>0, <3>2 DEF Txns
    <3>7. txn'[s] = t /\ \A r \in DbSessions \ {s} : txn'[r] = txn[r]
      BY <3>1 DEF Kinds
    <3>. HIDE DEF t, rest
    <3>8. next = txn[s].a \/ Before(txn[s].a, next)
      BY <3>4, <3>5
    <3>9. next \in AttemptIds
      BY <1>0, <3>3, <3>4
    <3>10. Ordered(s)'
      <4>1. \A e \in Execs : lockE'[e] = s => e <= ExecOf(next)
        <5>1. ASSUME NEW e \in Execs, lockE[e] = s PROVE e <= ExecOf(next)
          <6>0. e \in Nat /\ ExecOf(txn[s].a) \in Nat /\ ExecOf(next) \in Nat
            BY <1>0, <3>9, Ids, ConstantsAssumption
          <6>1. e <= ExecOf(txn[s].a)
            BY <1>0, <5>1 DEF Ordered
          <6>2. ExecOf(txn[s].a) <= ExecOf(next)
            BY <3>8, <6>0 DEF Before, ExecOf
          <6>. QED BY <6>0, <6>1, <6>2
        <5>. QED BY <3>2, <5>1
      <4>2. ASSUME NEW b \in AttemptIds, lockA'[b] = s
            PROVE  lockE'[ExecOf(b)] = s /\ (Before(b, next) \/ (b = next /\ stop = "commit"))
        <5>1. lockE[ExecOf(b)] = s /\ (Before(b, txn[s].a) \/ b = txn[s].a)
          BY <1>0, <3>2, <4>2 DEF Ordered
        <5>2. CASE stop = "commit" /\ next = txn[s].a
          BY <3>2, <5>1, <5>2
        <5>3. CASE stop = "lockE" /\ next \in rest
          <6>1. Before(txn[s].a, next)
            BY <3>5, <5>3
          <6>2. Before(b, next)
            BY <1>0, <3>9, <5>1, <6>1, BeforeTransitive
          <6>. QED BY <3>2, <5>1, <6>2
        <5>. QED BY <3>4, <5>2, <5>3
      <4>3. stop = "lockE" => \A b \in rest \ {next} : Before(next, b)
        BY <3>4 DEF IsFirst
      <4>4. stop \in {"lockE", "commit"}
        BY <3>4
      <4>. QED BY <3>6, <3>7, <4>1, <4>2, <4>3, <4>4 DEF Ordered
    <3>. QED BY <3>2, <3>7, <3>10, OrderOfOthers
  <2>6. CASE Reject(s)
    BY <2>6, RollbackInOrder DEF Reject
  <2>. QED BY <1>7, <2>2, <2>3, <2>4, <2>5, <2>6 DEF Decide
<1>8. ASSUME NEW s \in DbSessions, Commit(s) PROVE InOrder'
  <2>. DEFINE t == IF txn[s].op = "reconcile" THEN NoTxn ELSE [NoTxn EXCEPT !.pc = "refresh", !.a = txn[s].a]
  <2>1. ReleaseLocks(s) /\ txn' = [txn EXCEPT ![s] = t]
    BY <1>8 DEF Commit, CommitAcquire, CommitRenew, CommitStart, CommitMark, CommitFinish,
       CommitReconcile, Committed
  <2>2. t.op = "none"
    BY NoTxnType DEF Txns
  <2>. HIDE DEF t
  <2>. QED BY <2>1, <2>2, ReleaseInOrder
<1>9. ASSUME NEW s \in DbSessions, Refresh(s) PROVE InOrder'
  <2>1. txn[s].pc = "refresh" /\ txn' = [txn EXCEPT ![s] = NoTxn] /\ lockE' = lockE /\ lockA' = lockA
    BY <1>9 DEF Refresh
  <2>2. HoldsNothing(s)'
    BY <1>0, <2>1 DEF Ordered, HoldsNothing
  <2>3. txn'[s] = NoTxn /\ \A r \in DbSessions \ {s} : txn'[r] = txn[r]
    BY <2>1 DEF Kinds
  <2>4. Ordered(s)'
    BY <2>2, <2>3, OrderEmpty, NoTxnType
  <2>. QED BY <2>1, <2>3, <2>4, OrderOfOthers
<1>10. ASSUME NEW s \in DbSessions, Crash(s) PROVE InOrder'
  BY <1>10, RollbackInOrder DEF Crash
<1>. QED
  BY <1>1, <1>3, <1>4, <1>5, <1>6, <1>7, <1>8, <1>9, <1>10 DEF Next, Step, Reconcile

\* Whatever the number of executions, workers and reconcilers, a transaction
\* that waits for a row lock holds only rows before it: the lock protocol of
\* attempts.py has no cycle of waiting transactions.
THEOREM LocksAreOrdered == Spec => []LockOrder
<1>1. Init => InOrder
  <2>. SUFFICES ASSUME Init, NEW s \in DbSessions PROVE Ordered(s)
    BY DEF InOrder
  <2>1. s # Free /\ txn[s] = NoTxn /\ (\A e \in Execs : lockE[e] # s) /\ (\A b \in AttemptIds : lockA[b] # s)
    BY ConstantsAssumption DEF Init
  <2>. QED BY <2>1, NoTxnType DEF Ordered, HoldsNothing
<1>2. TypeOK /\ InOrder /\ [Next]_vars => InOrder'
  BY OrderStep DEF TypeOK
<1>3. TypeOK /\ InOrder => LockOrder
  <2>. SUFFICES ASSUME TypeOK, InOrder, NEW s \in DbSessions
                PROVE  /\ WaitsForExecution(s) =>
                            /\ \A e \in Execs : lockE[e] = s => e < ExecOf(txn[s].a)
                            /\ \A b \in AttemptIds : lockA[b] = s => ExecOf(b) < ExecOf(txn[s].a)
                       /\ WaitsForAttempt(s) =>
                            /\ \A e \in Execs : lockE[e] = s => e <= ExecOf(txn[s].a)
                            /\ \A b \in AttemptIds : lockA[b] = s => Before(b, txn[s].a)
    BY DEF LockOrder
  <2>1. Ordered(s) /\ txn[s].a \in AttemptIds
    BY DEF InOrder, TypeOK, Kinds, Txns
  <2>2. ExecOf(txn[s].a) \in Nat /\ Execs \subseteq Nat
    BY <2>1, Ids, ConstantsAssumption
  <2>3. ASSUME WaitsForExecution(s), NEW e \in Execs, lockE[e] = s PROVE e < ExecOf(txn[s].a)
    <3>1. e <= ExecOf(txn[s].a) /\ e # ExecOf(txn[s].a)
      BY <2>1, <2>3 DEF Ordered, WaitsForExecution
    <3>. QED BY <2>2, <3>1
  <2>4. ASSUME WaitsForExecution(s), NEW b \in AttemptIds, lockA[b] = s PROVE ExecOf(b) < ExecOf(txn[s].a)
    <3>1. txn[s].op = "reconcile" /\ txn[s].pc = "lockE"
      BY <2>1, <2>4 DEF Ordered, HoldsNothing, WaitsForExecution
    <3>2. lockE[ExecOf(b)] = s /\ Before(b, txn[s].a)
      BY <2>1, <2>4, <3>1 DEF Ordered
    <3>3. ExecOf(b) # ExecOf(txn[s].a)
      BY <2>4, <3>2 DEF WaitsForExecution
    <3>. QED BY <3>2, <3>3 DEF Before, ExecOf
  <2>5. ASSUME WaitsForAttempt(s), NEW b \in AttemptIds, lockA[b] = s PROVE Before(b, txn[s].a)
    <3>1. txn[s].pc = "lockA" /\ b # txn[s].a
      BY <2>5 DEF WaitsForAttempt
    <3>. QED BY <2>1, <2>5, <3>1 DEF Ordered
  <2>6. \A e \in Execs : lockE[e] = s => e <= ExecOf(txn[s].a)
    BY <2>1 DEF Ordered
  <2>. QED BY <2>3, <2>4, <2>5, <2>6
<1>. QED
  BY <1>1, <1>2, <1>3, TypeCorrect, PTL DEF Spec

-----------------------------------------------------------------------------
(* What a step does, field by field                                        *)

OthersStay(s) == \A r \in DbSessions \ {s} : txn'[r] = txn[r]

RowsStay == UNCHANGED <<clock, execution, attempt>>

\* What a call of a worker changes: its own transaction, before any lock.
LEMMA CallEffect ==
    ASSUME Kinds, NEW s \in Sessions, Call(s)
    PROVE  /\ txn[s].pc = "idle" /\ OthersStay(s) /\ RowsStay
           /\ UNCHANGED <<lockE, lockA, identity>>
           /\ txn'[s].done = txn[s].done
           /\ \/ txn'[s].pc = "lockE" /\ txn'[s].op = "acquire"
              \/ txn'[s].pc = "lockA" /\ txn'[s].op \in {"start", "renew"} /\ Exists(txn'[s].a)
              \/ txn'[s].pc = "lockE" /\ txn'[s].op \in {"mark", "finish"} /\ Exists(txn'[s].a)
<1>0. txn[s] \in Txns
  BY DEF Kinds
<1>. DEFINE T(stop, op, a) == [txn[s] EXCEPT !.pc = stop, !.op = op, !.a = a]
<1>1. \A stop, op, a : /\ T(stop, op, a).pc = stop /\ T(stop, op, a).op = op /\ T(stop, op, a).a = a
                       /\ T(stop, op, a).done = txn[s].done
  BY <1>0 DEF Txns
<1>. HIDE DEF T
<1>2. ASSUME NEW t, txn' = [txn EXCEPT ![s] = t] PROVE OthersStay(s) /\ txn'[s] = t
  BY <1>2 DEF OthersStay, Kinds
<1>3. ASSUME NEW e \in Execs, CallAcquire(s, e)
      PROVE  /\ txn[s].pc = "idle" /\ OthersStay(s) /\ RowsStay /\ UNCHANGED <<lockE, lockA, identity>>
             /\ txn'[s].done = txn[s].done /\ txn'[s].pc = "lockE" /\ txn'[s].op = "acquire"
  <2>1. txn' = [txn EXCEPT ![s] = T("lockE", "acquire", <<e, 1>>)]
    BY <1>3 DEF CallAcquire, T
  <2>2. txn'[s] = T("lockE", "acquire", <<e, 1>>) /\ OthersStay(s)
    BY <1>2, <2>1
  <2>3. txn[s].pc = "idle" /\ RowsStay /\ UNCHANGED <<lockE, lockA, identity>>
    BY <1>3 DEF CallAcquire, RowsStay
  <2>. QED BY <1>1, <2>2, <2>3 DEF Exists, RowsStay
<1>4. ASSUME NEW a \in AttemptIds, NEW op \in {"start", "renew"}, CallOnAttempt(s, op, a)
      PROVE  /\ txn[s].pc = "idle" /\ OthersStay(s) /\ RowsStay /\ UNCHANGED <<lockE, lockA, identity>>
             /\ txn'[s].done = txn[s].done /\ txn'[s].pc = "lockA" /\ txn'[s].op = op
             /\ Exists(txn'[s].a)
  <2>1. txn' = [txn EXCEPT ![s] = T("lockA", op, a)]
    BY <1>4 DEF CallOnAttempt, T
  <2>2. txn'[s] = T("lockA", op, a) /\ OthersStay(s)
    BY <1>2, <2>1
  <2>3. txn[s].pc = "idle" /\ RowsStay /\ UNCHANGED <<lockE, lockA, identity>> /\ Exists(a)
    BY <1>4 DEF CallOnAttempt, RowsStay
  <2>. QED BY <1>1, <2>2, <2>3 DEF Exists, RowsStay
<1>5. ASSUME NEW a \in AttemptIds, NEW op \in {"mark", "finish"}, CallOnBoth(s, op, a)
      PROVE  /\ txn[s].pc = "idle" /\ OthersStay(s) /\ RowsStay /\ UNCHANGED <<lockE, lockA, identity>>
             /\ txn'[s].done = txn[s].done /\ txn'[s].pc = "lockE" /\ txn'[s].op = op
             /\ Exists(txn'[s].a)
  <2>1. txn' = [txn EXCEPT ![s] = T("lockE", op, a)]
    BY <1>5 DEF CallOnBoth, T
  <2>2. txn'[s] = T("lockE", op, a) /\ OthersStay(s)
    BY <1>2, <2>1
  <2>3. txn[s].pc = "idle" /\ RowsStay /\ UNCHANGED <<lockE, lockA, identity>> /\ Exists(a)
    BY <1>5 DEF CallOnBoth, RowsStay
  <2>. QED BY <1>1, <2>2, <2>3 DEF Exists, RowsStay
<1>. QED BY <1>3, <1>4, <1>5 DEF Call

\* What Discover changes: the reconciler's transaction and its candidates,
\* read before any lock.
LEMMA DiscoverEffect ==
    ASSUME Kinds, NEW s \in Reconcilers, NEW scope, Discover(s, scope)
    PROVE  /\ txn[s].pc = "idle" /\ OthersStay(s) /\ RowsStay
           /\ UNCHANGED <<lockE, lockA, identity>>
           /\ txn'[s].pc = "lockE" /\ txn'[s].op = "reconcile" /\ txn'[s].moment = clock
           /\ txn'[s].done = txn[s].done /\ txn'[s].a \in txn'[s].todo
           /\ \A b \in txn'[s].todo : Exists(b)
<1>. DEFINE found == {a \in AttemptIds : /\ ExecOf(a) \in scope
                                         /\ Active(attempt[a])
                                         /\ attempt[a].expires <= clock}
<1>1. PICK a \in found : txn' = [txn EXCEPT ![s] = [@ EXCEPT !.pc = "lockE", !.op = "reconcile",
                                                    !.a = a, !.moment = clock, !.todo = found]]
  BY Zenon DEF Discover
<1>2. \A b \in found : Exists(b)
  BY DEF Exists, Active, ATTEMPT_ACTIVE_STATUSES
<1>. HIDE DEF found
<1>. DEFINE t == [txn[s] EXCEPT !.pc = "lockE", !.op = "reconcile", !.a = a, !.moment = clock, !.todo = found]
<1>3. /\ t.pc = "lockE" /\ t.op = "reconcile" /\ t.moment = clock /\ t.done = txn[s].done
      /\ t.a = a /\ t.todo = found
  BY DEF Kinds, Txns
<1>. HIDE DEF t
<1>4. txn'[s] = t /\ OthersStay(s)
  BY <1>1 DEF OthersStay, Kinds, t
<1>5. txn[s].pc = "idle" /\ RowsStay /\ UNCHANGED <<lockE, lockA, identity>>
  BY DEF Discover, RowsStay
<1>. QED BY <1>1, <1>2, <1>3, <1>4, <1>5

\* What taking the lock of an execution changes.
LEMMA LockExecutionEffect ==
    ASSUME Kinds, NEW s \in DbSessions, LockExecution(s)
    PROVE  /\ txn[s].pc = "lockE" /\ OthersStay(s) /\ RowsStay /\ UNCHANGED <<lockA, identity>>
           /\ txn'[s].pc = IF txn[s].op = "acquire" THEN "decide" ELSE "lockA"
           /\ txn'[s].op = txn[s].op /\ txn'[s].a = txn[s].a /\ txn'[s].moment = txn[s].moment
           /\ txn'[s].todo = txn[s].todo /\ txn'[s].done = txn[s].done
           /\ lockE[ExecOf(txn[s].a)] \in {Free, s}
           /\ \A e \in Execs : lockE'[e] = IF e = ExecOf(txn[s].a) THEN s ELSE lockE[e]
<1>. DEFINE p == IF txn[s].op = "acquire" THEN "decide" ELSE "lockA"
            t == [txn[s] EXCEPT !.pc = p]
<1>1. /\ t.pc = p /\ t.op = txn[s].op /\ t.a = txn[s].a /\ t.moment = txn[s].moment
      /\ t.todo = txn[s].todo /\ t.done = txn[s].done
  BY DEF Kinds, Txns
<1>2. txn' = [txn EXCEPT ![s] = t]
  BY DEF LockExecution
<1>. HIDE DEF t
<1>3. txn'[s] = t /\ OthersStay(s)
  BY <1>2 DEF OthersStay, Kinds
<1>4. /\ txn[s].pc = "lockE" /\ RowsStay /\ UNCHANGED <<lockA, identity>>
      /\ lockE[ExecOf(txn[s].a)] \in {Free, s}
      /\ \A e \in Execs : lockE'[e] = IF e = ExecOf(txn[s].a) THEN s ELSE lockE[e]
  BY DEF LockExecution, RowsStay, Kinds
<1>. QED BY <1>1, <1>3, <1>4

\* What taking the lock of an attempt changes: the identity map may keep the
\* object it has.
LEMMA LockAttemptEffect ==
    ASSUME Kinds, NEW s \in DbSessions, LockAttempt(s)
    PROVE  /\ txn[s].pc = "lockA" /\ OthersStay(s) /\ RowsStay /\ UNCHANGED lockE
           /\ txn'[s].pc = "decide"
           /\ txn'[s].op = txn[s].op /\ txn'[s].a = txn[s].a /\ txn'[s].moment = txn[s].moment
           /\ txn'[s].todo = txn[s].todo /\ txn'[s].done = txn[s].done
           /\ lockA[txn[s].a] \in {Free, s}
           /\ \A b \in AttemptIds : lockA'[b] = IF b = txn[s].a THEN s ELSE lockA[b]
           /\ \A r \in DbSessions, b \in AttemptIds :
                identity'[r][b] = IF r = s /\ b = txn[s].a /\ identity[s][b].status = "absent"
                                  THEN attempt[b] ELSE identity[r][b]
<1>. DEFINE t == [txn[s] EXCEPT !.pc = "decide"]
<1>1. /\ t.pc = "decide" /\ t.op = txn[s].op /\ t.a = txn[s].a /\ t.moment = txn[s].moment
      /\ t.todo = txn[s].todo /\ t.done = txn[s].done
  BY DEF Kinds, Txns
<1>2. txn' = [txn EXCEPT ![s] = t]
  BY DEF LockAttempt
<1>. HIDE DEF t
<1>3. txn'[s] = t /\ OthersStay(s)
  BY <1>2 DEF OthersStay, Kinds
<1>4. /\ txn[s].pc = "lockA" /\ RowsStay /\ UNCHANGED lockE
      /\ lockA[txn[s].a] \in {Free, s}
      /\ \A b \in AttemptIds : lockA'[b] = IF b = txn[s].a THEN s ELSE lockA[b]
  BY DEF LockAttempt, RowsStay, Kinds
<1>5. \A r \in DbSessions, b \in AttemptIds :
        identity'[r][b] = IF r = s /\ b = txn[s].a /\ identity[s][b].status = "absent"
                          THEN attempt[b] ELSE identity[r][b]
  BY DEF LockAttempt, Kinds
<1>. QED BY <1>1, <1>3, <1>4, <1>5

\* What the decision of acquire_attempt changes: it fixes the next number
\* while it holds the execution.
LEMMA DecideAcquireEffect ==
    ASSUME Kinds, NEW s \in DbSessions, DecideAcquire(s)
    PROVE  /\ Deciding(s, "acquire") /\ AcquireValid(s)
           /\ OthersStay(s) /\ RowsStay /\ UNCHANGED <<lockE, lockA, identity>>
           /\ txn'[s].pc = "commit" /\ txn'[s].op = "acquire" /\ txn'[s].moment = clock
           /\ ExecOf(txn'[s].a) = ExecOf(txn[s].a) /\ txn'[s].done = txn[s].done
<1>1. PICK n \in Numbers : txn' = [txn EXCEPT ![s] = [@ EXCEPT !.pc = "commit", !.moment = clock,
                                                              !.a = <<ExecOf(txn[s].a), n>>]]
  BY Zenon DEF DecideAcquire
<1>. DEFINE t == [txn[s] EXCEPT !.pc = "commit", !.moment = clock, !.a = <<ExecOf(txn[s].a), n>>]
<1>2. /\ t.pc = "commit" /\ t.op = txn[s].op /\ t.moment = clock /\ t.done = txn[s].done
      /\ t.a = <<ExecOf(txn[s].a), n>>
  BY DEF Kinds, Txns
<1>3. txn' = [txn EXCEPT ![s] = t]
  BY <1>1
<1>. HIDE DEF t
<1>4. txn'[s] = t /\ OthersStay(s)
  BY <1>3 DEF OthersStay, Kinds
<1>5. /\ Deciding(s, "acquire") /\ AcquireValid(s) /\ txn[s].op = "acquire"
      /\ RowsStay /\ UNCHANGED <<lockE, lockA, identity>>
  BY DEF DecideAcquire, RowsStay, Deciding
<1>6. ExecOf(t.a) = ExecOf(txn[s].a)
  BY <1>2 DEF ExecOf
<1>. QED BY <1>2, <1>4, <1>5, <1>6

\* The decisions of the owner.
LEMMA DecideOwnEffect ==
    ASSUME Kinds, NEW s \in DbSessions,
           \/ DecideStart(s) \/ DecideRenew(s) \/ DecideMark(s)
           \/ \E o \in Outcomes : DecideFinish(s, o)
    PROVE  /\ txn[s].pc = "decide" /\ txn[s].op \in {"start", "renew", "mark", "finish"}
           /\ RequireOwner(s) /\ RequireNotTerminal(s) /\ RequireLeaseValid(s)
           /\ txn[s].op = "start" => Object(s).status = "acquired"
           /\ txn[s].op = "finish" =>
                /\ <<Object(s).status, txn'[s].target>> \in LEGAL_ATTEMPT_TRANSITIONS
                /\ Object(s).writes => txn'[s].target \notin PARTIAL_PREVAILS_OVER
           /\ OthersStay(s) /\ RowsStay /\ UNCHANGED <<lockE, lockA, identity>>
           /\ txn'[s].pc = "commit" /\ txn'[s].op = txn[s].op /\ txn'[s].moment = clock
           /\ txn'[s].a = txn[s].a /\ txn'[s].done = txn[s].done
<1>1. ASSUME NEW t, txn' = [txn EXCEPT ![s] = t] PROVE OthersStay(s) /\ txn'[s] = t
  BY <1>1 DEF OthersStay, Kinds
<1>2. CASE DecideStart(s) \/ DecideRenew(s) \/ DecideMark(s)
  <2>. DEFINE t == [txn[s] EXCEPT !.pc = "commit", !.moment = clock]
  <2>1. /\ t.pc = "commit" /\ t.op = txn[s].op /\ t.moment = clock /\ t.done = txn[s].done
        /\ t.a = txn[s].a
    BY DEF Kinds, Txns
  <2>2. txn' = [txn EXCEPT ![s] = t]
    BY <1>2 DEF DecideStart, DecideRenew, DecideMark
  <2>. HIDE DEF t
  <2>3. txn'[s] = t /\ OthersStay(s)
    BY <1>1, <2>2
  <2>4. /\ txn[s].pc = "decide" /\ txn[s].op \in {"start", "renew", "mark"}
        /\ RequireOwner(s) /\ RequireNotTerminal(s) /\ RequireLeaseValid(s)
        /\ txn[s].op = "start" => Object(s).status = "acquired"
        /\ RowsStay /\ UNCHANGED <<lockE, lockA, identity>>
    BY <1>2 DEF DecideStart, DecideRenew, DecideMark, Deciding, StartValid, RenewValid, MarkValid, RowsStay
  <2>. QED BY <2>1, <2>3, <2>4
<1>3. ASSUME NEW o \in Outcomes, DecideFinish(s, o)
      PROVE  /\ txn[s].pc = "decide" /\ txn[s].op = "finish"
             /\ RequireOwner(s) /\ RequireNotTerminal(s) /\ RequireLeaseValid(s)
             /\ <<Object(s).status, txn'[s].target>> \in LEGAL_ATTEMPT_TRANSITIONS
             /\ Object(s).writes => txn'[s].target \notin PARTIAL_PREVAILS_OVER
             /\ OthersStay(s) /\ RowsStay /\ UNCHANGED <<lockE, lockA, identity>>
             /\ txn'[s].pc = "commit" /\ txn'[s].op = txn[s].op /\ txn'[s].moment = clock
             /\ txn'[s].a = txn[s].a /\ txn'[s].done = txn[s].done
  <2>. DEFINE target == PartialPrevails(Object(s), o)
              t == [txn[s] EXCEPT !.pc = "commit", !.moment = clock, !.target = target]
  <2>1. /\ t.pc = "commit" /\ t.op = txn[s].op /\ t.moment = clock /\ t.done = txn[s].done
        /\ t.a = txn[s].a /\ t.target = target
    BY DEF Kinds, Txns
  <2>2. txn' = [txn EXCEPT ![s] = t]
    BY <1>3, Zenon DEF DecideFinish
  <2>3. Object(s).writes => target \notin PARTIAL_PREVAILS_OVER
    BY DEF PartialPrevails, PARTIAL_PREVAILS_OVER
  <2>4. /\ txn[s].pc = "decide" /\ txn[s].op = "finish"
        /\ RequireOwner(s) /\ RequireNotTerminal(s) /\ RequireLeaseValid(s)
        /\ <<Object(s).status, target>> \in LEGAL_ATTEMPT_TRANSITIONS
        /\ RowsStay /\ UNCHANGED <<lockE, lockA, identity>>
    BY <1>3, Zenon DEF DecideFinish, FinishValid, Deciding, RowsStay
  <2>. HIDE DEF t, target
  <2>5. txn'[s] = t /\ OthersStay(s)
    BY <1>1, <2>2
  <2>. QED BY <2>1, <2>3, <2>4, <2>5
<1>. QED BY <1>2, <1>3

\* What the recheck of a candidate under its lock changes.
LEMMA RecheckEffect ==
    ASSUME Kinds, NEW s \in DbSessions, Recheck(s)
    PROVE  /\ txn[s].pc = "decide" /\ txn[s].op = "reconcile"
           /\ OthersStay(s) /\ RowsStay /\ UNCHANGED <<lockE, lockA, identity>>
           /\ txn'[s].op = "reconcile" /\ txn'[s].moment = txn[s].moment
           /\ \/ txn'[s].pc = "commit" /\ txn'[s].a = txn[s].a
              \/ txn'[s].pc = "lockE" /\ txn'[s].a \in txn[s].todo
           /\ txn'[s].todo \subseteq txn[s].todo
           /\ txn'[s].done = IF StillLost(s) THEN txn[s].done \cup {txn[s].a} ELSE txn[s].done
<1>. DEFINE rest == txn[s].todo \ {txn[s].a}
            done == IF StillLost(s) THEN txn[s].done \cup {txn[s].a} ELSE txn[s].done
            stop == IF rest = {} THEN "commit" ELSE "lockE"
<1>1. PICK next \in IF rest = {} THEN {txn[s].a} ELSE {a \in rest : IsFirst(a, rest)} :
        txn' = [txn EXCEPT ![s] = [@ EXCEPT !.done = done, !.todo = rest, !.pc = stop, !.a = next]]
  BY Zenon DEF Recheck
<1>2. (stop = "commit" /\ next = txn[s].a) \/ (stop = "lockE" /\ next \in rest)
  <2>1. CASE rest = {}
    BY <2>1
  <2>2. CASE rest # {}
    <3>1. next \in {a \in rest : IsFirst(a, rest)}
      BY <2>2
    <3>. QED BY <2>2, <3>1
  <2>. QED BY <2>1, <2>2
<1>3. rest \subseteq txn[s].todo /\ \A a \in rest : a \in txn[s].todo
  OBVIOUS
<1>. HIDE DEF rest, done, stop
<1>. DEFINE t == [txn[s] EXCEPT !.done = done, !.todo = rest, !.pc = stop, !.a = next]
<1>4. t.done = done /\ t.todo = rest /\ t.pc = stop /\ t.a = next /\ t.op = txn[s].op /\ t.moment = txn[s].moment
  BY DEF Kinds, Txns
<1>5. txn' = [txn EXCEPT ![s] = t]
  BY <1>1
<1>. HIDE DEF t
<1>6. txn'[s] = t /\ OthersStay(s)
  BY <1>5 DEF OthersStay, Kinds
<1>7. /\ txn[s].pc = "decide" /\ txn[s].op = "reconcile"
      /\ RowsStay /\ UNCHANGED <<lockE, lockA, identity>>
  BY DEF Recheck, Deciding, RowsStay
<1>8. done = IF StillLost(s) THEN txn[s].done \cup {txn[s].a} ELSE txn[s].done
  BY DEF done
<1>9. (stop = "commit" /\ next = txn[s].a) \/ (stop = "lockE" /\ next \in txn[s].todo)
  BY <1>2, <1>3
<1>. HIDE DEF rest, done, stop
<1>. QED BY <1>3, <1>4, <1>6, <1>7, <1>8, <1>9

\* A transaction that ends, by a commit or a rollback, forgets its objects and
\* its locks.
Ends(s) ==
    /\ OthersStay(s)
    /\ \A e \in Execs : lockE'[e] = IF lockE[e] = s THEN Free ELSE lockE[e]
    /\ \A b \in AttemptIds : lockA'[b] = IF lockA[b] = s THEN Free ELSE lockA[b]
    /\ \A r \in DbSessions, b \in AttemptIds : identity'[r][b] = IF r = s THEN NoRow ELSE identity[r][b]
    /\ txn'[s].op = "none" /\ txn'[s].done = {}
    /\ clock' = clock

\* What a rollback changes: the session forgets its objects and frees its
\* locks.
LEMMA RollbackEffect ==
    ASSUME Kinds, NEW s \in DbSessions, Rollback(s)
    PROVE  Ends(s) /\ RowsStay /\ txn'[s].pc = "idle"
<1>1. NoTxn.op = "none" /\ NoTxn.done = {} /\ NoTxn.pc = "idle"
  BY DEF NoTxn
<1>2. txn'[s] = NoTxn /\ OthersStay(s)
  BY DEF Rollback, OthersStay, Kinds
<1>3. \A r \in DbSessions, b \in AttemptIds : identity'[r][b] = IF r = s THEN NoRow ELSE identity[r][b]
  BY DEF Rollback, Kinds
<1>. QED BY <1>1, <1>2, <1>3 DEF Rollback, RowsStay, Ends, ReleaseLocks

\* What the end of a commit changes beside the rows.
LEMMA CommittedEffect ==
    ASSUME Kinds, NEW s \in DbSessions, Committed(s)
    PROVE  Ends(s) /\ IF txn[s].op = "reconcile" THEN txn'[s].pc = "idle"
                      ELSE txn'[s].pc = "refresh" /\ txn'[s].a = txn[s].a
<1>. DEFINE t == [NoTxn EXCEPT !.pc = "refresh", !.a = txn[s].a]
<1>1. NoTxn.op = "none" /\ NoTxn.done = {} /\ NoTxn.pc = "idle"
  BY DEF NoTxn
<1>2. t.op = "none" /\ t.done = {} /\ t.pc = "refresh" /\ t.a = txn[s].a
  BY DEF NoTxn
<1>3. txn' = [txn EXCEPT ![s] = IF txn[s].op = "reconcile" THEN NoTxn ELSE t]
  BY DEF Committed
<1>. HIDE DEF t
<1>4. txn'[s] = (IF txn[s].op = "reconcile" THEN NoTxn ELSE t) /\ OthersStay(s)
  BY <1>3 DEF OthersStay, Kinds
<1>5. \A r \in DbSessions, b \in AttemptIds : identity'[r][b] = IF r = s THEN NoRow ELSE identity[r][b]
  BY DEF Committed, Kinds
<1>. QED BY <1>1, <1>2, <1>4, <1>5 DEF Committed, Ends, ReleaseLocks

\* What the refresh after a commit changes: the object of its own attempt.
LEMMA RefreshEffect ==
    ASSUME Kinds, NEW s \in DbSessions, Refresh(s)
    PROVE  /\ txn[s].pc = "refresh" /\ OthersStay(s) /\ RowsStay /\ UNCHANGED <<lockE, lockA>>
           /\ txn'[s].pc = "idle" /\ txn'[s].op = "none" /\ txn'[s].done = {}
           /\ \A r \in DbSessions, b \in AttemptIds :
                identity'[r][b] = IF r = s /\ b = txn[s].a THEN attempt[b] ELSE identity[r][b]
<1>1. NoTxn.op = "none" /\ NoTxn.done = {} /\ NoTxn.pc = "idle"
  BY DEF NoTxn
<1>2. txn'[s] = NoTxn /\ OthersStay(s)
  BY DEF Refresh, OthersStay, Kinds
<1>3. \A r \in DbSessions, b \in AttemptIds :
        identity'[r][b] = IF r = s /\ b = txn[s].a THEN attempt[b] ELSE identity[r][b]
  BY DEF Refresh, Kinds
<1>. QED BY <1>1, <1>2, <1>3 DEF Refresh, RowsStay

-----------------------------------------------------------------------------
(* One attempt per execution                                               *)

OwnOps == {"start", "renew", "mark", "finish"}

\* What a transaction holds at each point, and that what it works on is there;
\* an acquisition about to commit holds an execution without attempts.
Placed(s) ==
    LET t == txn[s] IN
    /\ t.pc \in {"idle", "refresh"} <=> t.op = "none"
    /\ t.op # "reconcile" => t.done = {}
    /\ t.op \in OwnOps \/ t.pc = "refresh" => Exists(t.a)
    /\ t.op = "acquire" => t.pc \in {"lockE", "decide", "commit"}
    /\ t.op = "acquire" /\ t.pc # "lockE" => lockE[ExecOf(t.a)] = s
    /\ t.op = "acquire" /\ t.pc = "commit" => AttemptsOf(ExecOf(t.a)) = {}
    /\ t.op \in {"mark", "finish"} /\ t.pc # "lockE" => lockE[ExecOf(t.a)] = s
    /\ t.op \in OwnOps /\ t.pc \in {"decide", "commit"} => lockA[t.a] = s
    /\ t.op = "reconcile" => Exists(t.a) /\ \A b \in t.todo : Exists(b)
    /\ t.op = "reconcile" /\ t.pc \in {"lockA", "decide"} => lockE[ExecOf(t.a)] = s
    /\ t.op = "reconcile" /\ t.pc = "decide" => lockA[t.a] = s
    /\ \A b \in t.done : Exists(b) /\ lockA[b] = s /\ lockE[ExecOf(b)] = s

\* A terminal attempt closed its execution.
Closed == \A a \in AttemptIds : Terminal(attempt[a]) => execution[ExecOf(a)].status \in TERMINAL_STATUSES

OneAttempt == (\A s \in DbSessions : Placed(s)) /\ Closed /\ NoImplicitRetry

\* Attempts appear, and only in an execution that the session holds.
Grows(s) ==
    /\ \A a \in AttemptIds : Exists(a) => Exists(a)'
    /\ \A a \in AttemptIds : Exists(a)' /\ ~Exists(a) => lockE[ExecOf(a)] = s

\* The other sessions stay placed: they lose no lock, and no attempt appears in
\* an execution that they hold.
LEMMA PlacedOthers ==
    ASSUME Kinds, NEW s \in DbSessions, NEW r \in DbSessions \ {s}, Placed(r), OthersStay(s), Grows(s),
           \A e \in Execs : lockE'[e] = lockE[e] \/ {lockE[e], lockE'[e]} \subseteq {s, Free},
           \A b \in AttemptIds : lockA'[b] = lockA[b] \/ {lockA[b], lockA'[b]} \subseteq {s, Free}
    PROVE  Placed(r)'
<1>1. txn'[r] = txn[r] /\ txn[r] \in Txns /\ txn[r].a \in AttemptIds
      /\ txn[r].todo \subseteq AttemptIds /\ txn[r].done \subseteq AttemptIds
  BY DEF OthersStay, Kinds, Txns
<1>2. r # Free
  BY ConstantsAssumption
<1>3. \A e \in Execs : lockE[e] = r => lockE'[e] = r
  BY <1>2
<1>4. \A b \in AttemptIds : lockA[b] = r => lockA'[b] = r
  BY <1>2
<1>5. \A b \in AttemptIds : ExecOf(b) \in Execs
  BY Ids
<1>6. \A e \in Execs : lockE[e] = r /\ AttemptsOf(e) = {} => AttemptsOf(e)' = {}
  BY DEF Grows, AttemptsOf
<1>7. \A a \in AttemptIds : Exists(a) => Exists(a)'
  BY DEF Grows
<1>. QED BY <1>1, <1>3, <1>4, <1>5, <1>6, <1>7 DEF Placed

\* The rows of a step that leaves them alone.
LEMMA RowsStayInv ==
    ASSUME RowsStay, Closed, NoImplicitRetry, NEW s
    PROVE  Closed' /\ NoImplicitRetry' /\ Grows(s)
  BY DEF RowsStay, Closed, NoImplicitRetry, Grows, Exists

\* What a commit writes: existing rows stay, and what it makes terminal closes
\* its execution; only an acquisition adds a row.
LEMMA CommitRows ==
    ASSUME Kinds, NEW s \in DbSessions, Commit(s), Placed(s), Closed, NoImplicitRetry
    PROVE  Closed' /\ NoImplicitRetry' /\ Grows(s) /\ (txn[s].op # "reconcile" => attempt'[txn[s].a].status # "absent")
<1>0. /\ txn[s].a \in AttemptIds /\ txn[s].target \in ATTEMPT_TERMINAL_STATUSES
      /\ ExecOf(txn[s].a) \in Execs /\ \A a \in AttemptIds : ExecOf(a) \in Execs
  BY Ids DEF Kinds, Txns, WORKER_TERMINAL_STATES, ATTEMPT_TERMINAL_STATUSES
<1>1. \A a \in AttemptIds : attempt[a] \in Rows
  BY DEF Kinds
<1>2. \A e \in Execs : execution[e] \in Executions
  BY DEF Kinds
<1>3. ASSUME NEW lease \in Leases, CommitAcquire(s, lease)
      PROVE  Closed' /\ NoImplicitRetry' /\ Grows(s) /\ attempt'[txn[s].a].status # "absent"
  <2>1. /\ txn[s].op = "acquire" /\ txn[s].pc = "commit"
        /\ \A a \in AttemptIds : a # txn[s].a => attempt'[a] = attempt[a]
        /\ attempt'[txn[s].a].status = "acquired"
        /\ \A e \in Execs : e # ExecOf(txn[s].a) => execution'[e] = execution[e]
    BY <1>0, <1>3 DEF CommitAcquire, Committing, Kinds
  <2>2. lockE[ExecOf(txn[s].a)] = s /\ AttemptsOf(ExecOf(txn[s].a)) = {}
    BY <2>1 DEF Placed
  <2>3. \A a \in AttemptIds : ExecOf(a) = ExecOf(txn[s].a) => ~Exists(a)
    BY <2>2 DEF AttemptsOf
  <2>4. \A a \in AttemptIds : Exists(a)' <=> (Exists(a) \/ a = txn[s].a)
    BY <1>0, <2>1 DEF Exists
  <2>5. Closed'
    <3>1. ASSUME NEW a \in AttemptIds, Terminal(attempt'[a])
          PROVE  execution'[ExecOf(a)].status \in TERMINAL_STATUSES
      <4>1. a # txn[s].a
        BY <2>1, <3>1 DEF Terminal, ATTEMPT_TERMINAL_STATUSES
      <4>2. attempt'[a] = attempt[a] /\ Exists(a)
        BY <2>1, <3>1, <4>1 DEF Exists, Terminal, ATTEMPT_TERMINAL_STATUSES
      <4>3. ExecOf(a) # ExecOf(txn[s].a)
        BY <2>3, <4>2
      <4>. QED BY <1>0, <2>1, <3>1, <4>2, <4>3 DEF Closed
    <3>. QED BY <3>1 DEF Closed
  <2>6. NoImplicitRetry'
    BY <2>3, <2>4 DEF NoImplicitRetry
  <2>7. Grows(s)
    BY <2>2, <2>4 DEF Grows
  <2>. QED BY <2>1, <2>5, <2>6, <2>7
<1>4. ASSUME \A a \in AttemptIds : Exists(a)' <=> Exists(a) PROVE NoImplicitRetry' /\ Grows(s)
  BY <1>4 DEF NoImplicitRetry, Grows
<1>5. ASSUME NEW lease \in Leases, CommitRenew(s, lease)
      PROVE  Closed' /\ (\A a \in AttemptIds : Exists(a)' <=> Exists(a)) /\ attempt'[txn[s].a].status # "absent"
  <2>1. /\ txn[s].op = "renew" /\ execution' = execution
        /\ \A a \in AttemptIds : attempt'[a].status = attempt[a].status
    BY <1>0, <1>1, <1>5 DEF CommitRenew, Committing, Kinds, Rows
  <2>. QED BY <1>0, <2>1 DEF Closed, Exists, Terminal, Placed, OwnOps
<1>6. ASSUME CommitStart(s)
      PROVE  Closed' /\ (\A a \in AttemptIds : Exists(a)' <=> Exists(a)) /\ attempt'[txn[s].a].status # "absent"
  <2>1. /\ txn[s].op = "start" /\ execution' = execution
        /\ \A a \in AttemptIds : attempt'[a].status = IF a = txn[s].a THEN "running" ELSE attempt[a].status
    BY <1>0, <1>1, <1>6 DEF CommitStart, Committing, Kinds, Rows
  <2>2. Exists(txn[s].a)
    BY <2>1 DEF Placed, OwnOps
  <2>. QED BY <1>0, <2>1, <2>2 DEF Closed, Exists, Terminal, ATTEMPT_TERMINAL_STATUSES
<1>7. ASSUME CommitMark(s)
      PROVE  Closed' /\ (\A a \in AttemptIds : Exists(a)' <=> Exists(a)) /\ attempt'[txn[s].a].status # "absent"
  <2>1. /\ txn[s].op = "mark"
        /\ \A a \in AttemptIds : attempt'[a].status = attempt[a].status
        /\ \A e \in Execs : execution'[e].status = execution[e].status
    BY <1>0, <1>1, <1>2, <1>7 DEF CommitMark, Committing, Kinds, Rows, Executions
  <2>. QED BY <1>0, <2>1 DEF Closed, Exists, Terminal, Placed, OwnOps
<1>8. ASSUME CommitFinish(s)
      PROVE  Closed' /\ (\A a \in AttemptIds : Exists(a)' <=> Exists(a)) /\ attempt'[txn[s].a].status # "absent"
  <2>1. /\ txn[s].op = "finish"
        /\ \A a \in AttemptIds : attempt'[a].status = IF a = txn[s].a THEN txn[s].target ELSE attempt[a].status
    BY <1>0, <1>1, <1>8 DEF CommitFinish, Committing, Kinds, Rows, TerminalRow
  <2>2. \A e \in Execs : execution'[e].status =
           IF e = ExecOf(txn[s].a) /\ execution[e].status \notin TERMINAL_STATUSES
           THEN txn[s].target ELSE execution[e].status
    BY <1>0, <1>2, <1>8 DEF CommitFinish, Kinds, Executions, TerminalExecution
  <2>3. Exists(txn[s].a)
    BY <2>1 DEF Placed, OwnOps
  <2>4. \A a \in AttemptIds : Exists(a)' <=> Exists(a)
    BY <1>0, <2>1, <2>3 DEF Exists, ATTEMPT_TERMINAL_STATUSES
  <2>5. Closed'
    BY <1>0, <2>1, <2>2 DEF Closed, Terminal, TERMINAL_STATUSES
  <2>. QED BY <1>0, <2>1, <2>4, <2>5 DEF ATTEMPT_TERMINAL_STATUSES
<1>9. ASSUME CommitReconcile(s)
      PROVE  Closed' /\ (\A a \in AttemptIds : Exists(a)' <=> Exists(a)) /\ txn[s].op = "reconcile"
  <2>0. \A r : ReconcileTarget(r) \in ATTEMPT_TERMINAL_STATUSES
    BY DEF ReconcileTarget, ATTEMPT_TERMINAL_STATUSES
  <2>1. \A a \in AttemptIds : attempt'[a] = IF a \in txn[s].done
               THEN TerminalRow(attempt[a], ReconcileTarget(identity[s][a]), txn[s].moment) ELSE attempt[a]
    BY <1>9 DEF CommitReconcile
  <2>2. \A a \in AttemptIds : a \in txn[s].done => attempt'[a].status \in ATTEMPT_TERMINAL_STATUSES
    <3>1. \A a \in AttemptIds : \A t, n : TerminalRow(attempt[a], t, n).status = t
      BY <1>0, <1>1, <1>2, TerminalFields
    <3>. QED BY <2>0, <2>1, <3>1
  <2>3. \A e \in Execs : (\E a \in txn[s].done : ExecOf(a) = e) => execution'[e].status \in TERMINAL_STATUSES
    <3>1. ASSUME NEW e \in Execs, \E a \in txn[s].done : ExecOf(a) = e
          PROVE  execution'[e].status \in TERMINAL_STATUSES
      <4>1. \E i : execution'[e] = TerminalExecution(execution[e], ReconcileTarget(i))
        BY <1>9, <3>1 DEF CommitReconcile
      <4>. QED BY <1>2, <2>0, <4>1 DEF TerminalExecution, Executions, TERMINAL_STATUSES
    <3>. QED BY <3>1
  <2>4. \A e \in Execs : ~(\E a \in txn[s].done : ExecOf(a) = e) => execution'[e] = execution[e]
    BY <1>9 DEF CommitReconcile
  <2>5. \A b \in txn[s].done : Exists(b)
    BY DEF Placed
  <2>6. \A a \in AttemptIds : Exists(a)' <=> Exists(a)
    BY <2>1, <2>2, <2>5 DEF Exists, ATTEMPT_TERMINAL_STATUSES
  <2>7. Closed'
    BY <1>0, <2>1, <2>3, <2>4 DEF Closed
  <2>. QED BY <1>9, <2>6, <2>7 DEF CommitReconcile, Committing
<1>. QED BY <1>3, <1>4, <1>5, <1>6, <1>7, <1>8, <1>9 DEF Commit

\* OneAttempt is inductive.
LEMMA OneAttemptStep ==
    ASSUME Kinds, Roles, OneAttempt, [Next]_vars
    PROVE  OneAttempt'
<1>0. \A s \in DbSessions : Placed(s) /\ txn[s].a \in AttemptIds /\ ExecOf(txn[s].a) \in Execs /\ s # Free
  BY Ids, ConstantsAssumption DEF OneAttempt, Kinds, Txns
<1>1. CASE Tick \/ (\E s \in Sessions, a \in AttemptIds : DropReference(s, a)) \/ UNCHANGED vars
  <2>1. UNCHANGED <<execution, attempt, lockE, lockA, txn>>
    BY <1>1 DEF Tick, DropReference, vars
  <2>. QED BY <2>1 DEF OneAttempt, Placed, Closed, NoImplicitRetry, Exists, AttemptsOf
<1>2. ASSUME NEW s \in DbSessions, OthersStay(s), Grows(s), Closed', NoImplicitRetry', Placed(s)',
             \A e \in Execs : lockE'[e] = lockE[e] \/ {lockE[e], lockE'[e]} \subseteq {s, Free},
             \A b \in AttemptIds : lockA'[b] = lockA[b] \/ {lockA[b], lockA'[b]} \subseteq {s, Free}
      PROVE  OneAttempt'
  BY <1>0, <1>2, PlacedOthers DEF OneAttempt
<1>3. ASSUME RowsStay PROVE Closed' /\ NoImplicitRetry' /\ (\A s : Grows(s)) /\ (\A a : Exists(a)' <=> attempt[a].status # "absent")
                            /\ \A e : AttemptsOf(e)' = AttemptsOf(e)
  BY <1>3, RowsStayInv DEF OneAttempt, Exists, RowsStay, AttemptsOf
<1>4. ASSUME NEW s \in Sessions, Call(s) PROVE OneAttempt'
  <2>1. Placed(s)'
    BY <1>0, <1>4, CallEffect DEF Placed, OwnOps, Exists, RowsStay
  <2>. QED BY <1>2, <1>3, <1>4, <2>1, CallEffect
<1>5. ASSUME NEW s \in Reconcilers, NEW scope, Discover(s, scope) PROVE OneAttempt'
  <2>1. Placed(s)'
    BY <1>0, <1>5, DiscoverEffect DEF Placed, OwnOps, Exists, RowsStay
  <2>. QED BY <1>2, <1>3, <1>5, <2>1, DiscoverEffect
<1>6. ASSUME NEW s \in DbSessions, LockExecution(s) PROVE OneAttempt'
  <2>0. \A b \in txn[s].done : ExecOf(b) \in Execs
    BY Ids DEF Kinds, Txns
  <2>1. Placed(s)'
    BY <1>0, <1>6, <2>0, LockExecutionEffect DEF Placed, OwnOps, Exists, RowsStay
  <2>2. \A e \in Execs : lockE'[e] = lockE[e] \/ {lockE[e], lockE'[e]} \subseteq {s, Free}
    BY <1>0, <1>6, LockExecutionEffect
  <2>. QED BY <1>2, <1>3, <1>6, <2>1, <2>2, LockExecutionEffect
<1>7. ASSUME NEW s \in DbSessions, LockAttempt(s) PROVE OneAttempt'
  <2>0. \A b \in txn[s].done : b \in AttemptIds
    BY DEF Kinds, Txns
  <2>1. Placed(s)'
    BY <1>0, <1>7, <2>0, LockAttemptEffect DEF Placed, OwnOps, Exists, RowsStay
  <2>2. \A b \in AttemptIds : lockA'[b] = lockA[b] \/ {lockA[b], lockA'[b]} \subseteq {s, Free}
    BY <1>0, <1>7, LockAttemptEffect
  <2>. QED BY <1>2, <1>3, <1>7, <2>1, <2>2, LockAttemptEffect
<1>8. ASSUME NEW s \in DbSessions, Rollback(s) PROVE OneAttempt'
  <2>1. Placed(s)'
    BY <1>8, RollbackEffect DEF Placed, Ends, OwnOps
  <2>. QED BY <1>2, <1>3, <1>8, <2>1, RollbackEffect DEF Ends
<1>9. ASSUME NEW s \in DbSessions, DecideAcquire(s) PROVE OneAttempt'
  <2>1. AttemptsOf(ExecOf(txn[s].a)) = {}
    <3>1. ASSUME NEW a \in AttemptIds, ExecOf(a) = ExecOf(txn[s].a), Exists(a) PROVE FALSE
      <4>1. execution[ExecOf(a)].status \notin TERMINAL_STATUSES /\ ~Active(attempt[a])
        BY <1>9, <3>1, DecideAcquireEffect DEF AcquireValid, AttemptsOf
      <4>2. Terminal(attempt[a])
        BY <3>1, <4>1 DEF Exists, Active, Terminal, Kinds, Rows
      <4>. QED BY <4>1, <4>2 DEF OneAttempt, Closed
    <3>. QED BY <3>1 DEF AttemptsOf
  <2>2. Placed(s)'
    BY <1>0, <1>3, <1>9, <2>1, DecideAcquireEffect DEF Placed, OwnOps, Deciding
  <2>. QED BY <1>2, <1>3, <1>9, <2>2, DecideAcquireEffect
<1>10. ASSUME NEW s \in DbSessions,
              \/ DecideStart(s) \/ DecideRenew(s) \/ DecideMark(s)
              \/ \E o \in Outcomes : DecideFinish(s, o)
       PROVE  OneAttempt'
  <2>1. Placed(s)'
    <3>1. /\ txn[s].pc = "decide" /\ txn[s].op \in OwnOps /\ UNCHANGED <<attempt, lockE, lockA>>
          /\ txn'[s].pc = "commit" /\ txn'[s].op = txn[s].op
          /\ txn'[s].a = txn[s].a /\ txn'[s].done = txn[s].done
      BY <1>10, DecideOwnEffect DEF RowsStay, OwnOps
    <3>. QED BY <1>0, <3>1 DEF Placed, OwnOps, Exists
  <2>. QED BY <1>2, <1>3, <1>10, <2>1, DecideOwnEffect
<1>11. ASSUME NEW s \in DbSessions, Recheck(s) PROVE OneAttempt'
  <2>1. Placed(s)'
    <3>1. /\ txn[s].pc = "decide" /\ txn[s].op = "reconcile" /\ UNCHANGED <<attempt, lockE, lockA>>
          /\ txn'[s].op = "reconcile" /\ txn'[s].pc \in {"commit", "lockE"}
          /\ txn'[s].a = txn[s].a \/ txn'[s].a \in txn[s].todo
          /\ txn'[s].todo \subseteq txn[s].todo
          /\ txn'[s].done \subseteq txn[s].done \cup {txn[s].a}
      BY <1>11, RecheckEffect DEF RowsStay
    <3>. QED BY <1>0, <3>1 DEF Placed, OwnOps, Exists
  <2>. QED BY <1>2, <1>3, <1>11, <2>1, RecheckEffect
<1>12. ASSUME NEW s \in DbSessions, Commit(s) PROVE OneAttempt'
  <2>1. Committed(s) /\ txn[s].op # "none"
    BY <1>12 DEF Commit, CommitAcquire, CommitRenew, CommitStart, CommitMark, CommitFinish,
                 CommitReconcile, Committing
  <2>2. Closed' /\ NoImplicitRetry' /\ Grows(s) /\ (txn[s].op # "reconcile" => attempt'[txn[s].a].status # "absent")
    BY <1>0, <1>12, CommitRows DEF OneAttempt
  <2>3. Placed(s)'
    BY <2>1, <2>2, CommittedEffect DEF Placed, Ends, OwnOps, Exists
  <2>. QED BY <1>2, <2>1, <2>2, <2>3, CommittedEffect DEF Ends
<1>13. ASSUME NEW s \in DbSessions, Refresh(s) PROVE OneAttempt'
  <2>1. Placed(s)'
    BY <1>13, RefreshEffect DEF Placed, OwnOps
  <2>. QED BY <1>2, <1>3, <1>13, <2>1, RefreshEffect
<1>. QED
  BY <1>1, <1>4, <1>5, <1>6, <1>7, <1>8, <1>9, <1>10, <1>11, <1>12, <1>13
     DEF Next, Step, Reconcile, Decide, Reject, Crash

\* Whatever the number of workers, sessions, crashes and reconcilers, and even
\* when several sessions call for one worker and decide on stale objects, an
\* execution is attempted once: acquire_attempt refuses every later attempt.
THEOREM NeverRetried == Spec => []NoImplicitRetry
<1>1. Init => OneAttempt
  <2>. SUFFICES ASSUME Init PROVE OneAttempt
    OBVIOUS
  <2>1. \A a \in AttemptIds : ~Exists(a) /\ ~Terminal(attempt[a])
    BY DEF Init, NoRow, Exists, Terminal, ATTEMPT_TERMINAL_STATUSES
  <2>2. \A s \in DbSessions : txn[s].pc = "idle" /\ txn[s].op = "none" /\ txn[s].done = {}
    BY DEF Init, NoTxn
  <2>. QED BY <2>1, <2>2 DEF OneAttempt, Placed, Closed, NoImplicitRetry, OwnOps
<1>2. TypeOK /\ OneAttempt /\ [Next]_vars => OneAttempt'
  BY OneAttemptStep DEF TypeOK
<1>3. OneAttempt => NoImplicitRetry
  BY DEF OneAttempt
<1>. QED
  BY <1>1, <1>2, <1>3, TypeCorrect, PTL DEF Spec

-----------------------------------------------------------------------------
(* One story per execution                                                 *)

\* Each worker calls through one session, as the platform's worker does.
OneSessionPerWorker == \A s, r \in Sessions : WorkerOf[s] = WorkerOf[r] => s = r

\* An object of a session is the row, or an older version of a row that was
\* terminalized after the lease of that version ran out; a session that does
\* not hold the row's lock has objects of its own worker only.
Seen(s, a) ==
    LET i == identity[s][a] IN
    i.status # "absent" =>
      /\ Exists(a)
      /\ i.worker = attempt[a].worker
      /\ i = attempt[a] \/ (Terminal(attempt[a]) /\ i.expires <= clock)
      /\ lockA[a] = s \/ (s \in Sessions /\ attempt[a].worker = WorkerOf[s])
      /\ s \in Reconcilers => i = attempt[a]

\* A decision still holds of the rows when it is committed.
Decided(s) ==
    LET t == txn[s]
        r == attempt[t.a] IN
    /\ t.pc = "decide" /\ t.op # "acquire" => identity[s][t.a].status # "absent"
    /\ t.pc = "refresh" => s \in Sessions /\ r.worker = WorkerOf[s]
    /\ t.op \in OwnOps /\ t.pc = "commit" =>
         /\ r.worker = WorkerOf[s] /\ Active(r)
         /\ 0 < t.moment /\ t.moment < r.expires
    /\ t.op = "start" /\ t.pc = "commit" => r.status = "acquired"
    /\ t.op = "finish" /\ t.pc = "commit" =>
         /\ <<r.status, t.target>> \in LEGAL_ATTEMPT_TRANSITIONS
         /\ r.writes => t.target \notin PARTIAL_PREVAILS_OVER
    /\ t.op = "reconcile" => t.moment <= clock
    /\ \A b \in t.done : /\ identity[s][b] = attempt[b]
                         /\ Active(attempt[b]) /\ attempt[b].expires <= t.moment

\* A row that was never inserted is blank.
Blank == \A a \in AttemptIds : ~Exists(a) => ~attempt[a].writes

Story ==
    /\ clock > 0
    /\ \A s \in DbSessions : Decided(s)
    /\ \A s \in DbSessions, a \in AttemptIds : Seen(s, a)
    /\ Blank
    /\ OutcomesSettled
    /\ LeaseFencesOutcome

\* What a session may write into a row that exists: it holds the row's lock,
\* the row is active, and either the session is the owner's or the row is
\* terminalized after its lease.
WritesRow(s, a) ==
    /\ lockA[a] = s /\ Active(attempt[a])
    /\ attempt'[a].worker = attempt[a].worker
    /\ attempt[a].writes => attempt'[a].writes
    /\ attempt'[a].status # "absent"
    /\ \/ s \in Sessions /\ attempt[a].worker = WorkerOf[s]
       \/ /\ Terminal(attempt'[a]) /\ attempt'[a].expires = attempt[a].expires
          /\ attempt[a].expires <= clock

Writes(s) ==
    \A a \in AttemptIds :
        attempt'[a] = attempt[a] \/ (~Exists(a) /\ attempt'[a].status # "absent") \/ WritesRow(s, a)

\* The other sessions' objects and decisions survive what a session writes.
LEMMA StoryOfOthers ==
    ASSUME OneSessionPerWorker, Kinds, OneAttempt, NEW s \in DbSessions, NEW r \in DbSessions \ {s},
           OthersStay(s), Writes(s), clock' = clock,
           \A b \in AttemptIds : lockA'[b] = lockA[b] \/ {lockA[b], lockA'[b]} \subseteq {s, Free},
           \A b \in AttemptIds : identity'[r][b] = identity[r][b],
           Decided(r), \A a \in AttemptIds : Seen(r, a)
    PROVE  Decided(r)' /\ \A a \in AttemptIds : Seen(r, a)'
<1>1. txn'[r] = txn[r] /\ txn[r].a \in AttemptIds /\ txn[r].done \subseteq AttemptIds /\ Placed(r)
  BY DEF OthersStay, Kinds, Txns, OneAttempt
<1>2. r # Free /\ Sessions \cap Reconcilers = {}
  BY ConstantsAssumption
<1>3. \A b \in AttemptIds : lockA[b] = r => lockA'[b] = r /\ (Exists(b) => attempt'[b] = attempt[b])
  BY <1>2 DEF Writes, WritesRow
<1>4. \A b \in AttemptIds : Exists(b) => attempt'[b].worker = attempt[b].worker
  BY DEF Writes, WritesRow
<1>5. ASSUME NEW a \in AttemptIds PROVE Seen(r, a)'
  <2>. SUFFICES ASSUME identity[r][a].status # "absent"
                PROVE  /\ Exists(a)'
                       /\ identity[r][a].worker = attempt'[a].worker
                       /\ identity[r][a] = attempt'[a] \/ (Terminal(attempt'[a]) /\ identity[r][a].expires <= clock)
                       /\ lockA'[a] = r \/ (r \in Sessions /\ attempt'[a].worker = WorkerOf[r])
                       /\ r \in Reconcilers => identity[r][a] = attempt'[a]
    BY DEF Seen
  <2>1. Seen(r, a) /\ Exists(a)
    BY DEF Seen
  <2>2. CASE attempt'[a] = attempt[a]
    BY <1>3, <2>1, <2>2 DEF Seen, Exists
  <2>3. CASE attempt'[a] # attempt[a]
    <3>1. WritesRow(s, a)
      BY <2>1, <2>3 DEF Writes
    <3>2. r \in Sessions /\ r \notin Reconcilers /\ attempt[a].worker = WorkerOf[r]
      BY <1>2, <2>1, <3>1 DEF Seen, WritesRow
    <3>3. ~(s \in Sessions /\ attempt[a].worker = WorkerOf[s])
      BY <3>2 DEF OneSessionPerWorker
    <3>4. identity[r][a] = attempt[a]
      BY <2>1, <3>1 DEF Seen, WritesRow, Active, Terminal, ATTEMPT_ACTIVE_STATUSES, ATTEMPT_TERMINAL_STATUSES
    <3>. QED BY <2>1, <3>1, <3>2, <3>3, <3>4 DEF WritesRow, Exists
  <2>. QED BY <2>2, <2>3
<1>6. Decided(r)'
  <2>1. txn[r].op \in OwnOps /\ txn[r].pc = "commit" => attempt'[txn[r].a] = attempt[txn[r].a]
    BY <1>1, <1>3 DEF Placed
  <2>2. \A b \in txn[r].done : attempt'[b] = attempt[b]
    BY <1>1, <1>3 DEF Placed
  <2>3. txn[r].pc = "refresh" => attempt'[txn[r].a].worker = attempt[txn[r].a].worker
    BY <1>1, <1>4 DEF Placed
  <2>4. identity'[r][txn[r].a] = identity[r][txn[r].a] /\ \A b \in txn[r].done : identity'[r][b] = identity[r][b]
    BY <1>1
  <2>. QED BY <1>1, <2>1, <2>2, <2>3, <2>4 DEF Decided, OwnOps
<1>. QED BY <1>5, <1>6

\* The rows of the attempts of D are written together with their executions.
LEMMA RowsAgree ==
    ASSUME Kinds, Kinds', OneAttempt, OutcomesSettled, NEW D \in SUBSET AttemptIds,
           \A a \in D : Exists(a) \/ AttemptsOf(ExecOf(a)) = {},
           \A a, b \in D : ExecOf(a) = ExecOf(b) => a = b,
           \A b \in AttemptIds \ D : attempt'[b] = attempt[b],
           \A e \in Execs : (\A a \in D : ExecOf(a) # e) => execution'[e] = execution[e],
           \A a \in D : /\ Active(attempt'[a]) \/ Terminal(attempt'[a])
                        /\ Terminal(attempt'[a]) => execution'[ExecOf(a)].status = attempt'[a].status
                        /\ Active(attempt'[a]) => execution'[ExecOf(a)].status = "running"
                        /\ execution'[ExecOf(a)].writes <=> attempt'[a].writes
                        /\ attempt'[a].writes => attempt'[a].status \notin {"failed", "cancelled", "interrupted"}
    PROVE  OutcomesSettled'
<1>1. \A a \in AttemptIds : ExecOf(a) \in Execs
  BY Ids
<1>2. \A a \in D, b \in AttemptIds \ D : ExecOf(a) = ExecOf(b) => ~Exists(b) /\ ~Exists(b)'
  BY DEF OneAttempt, NoImplicitRetry, AttemptsOf, Exists
<1>3. \A a \in D : Exists(a)' /\ execution'[ExecOf(a)].status # "pending"
  BY DEF Exists, Active, Terminal, ATTEMPT_ACTIVE_STATUSES, ATTEMPT_TERMINAL_STATUSES
<1>4. \A a \in AttemptIds : ~Exists(a)' => ~Active(attempt'[a]) /\ ~Terminal(attempt'[a])
  BY DEF Exists, Active, Terminal, ATTEMPT_ACTIVE_STATUSES, ATTEMPT_TERMINAL_STATUSES
<1>5. \A b \in AttemptIds \ D : Exists(b)' => \A a \in D : ExecOf(a) # ExecOf(b)
  BY <1>2
<1>6. ASSUME NEW b \in AttemptIds
      PROVE  /\ Terminal(attempt'[b]) => execution'[ExecOf(b)].status = attempt'[b].status
             /\ Active(attempt'[b]) => execution'[ExecOf(b)].status = "running"
  <2>1. CASE b \notin D /\ Exists(b)'
    <3>1. execution'[ExecOf(b)] = execution[ExecOf(b)] /\ attempt'[b] = attempt[b]
      BY <1>1, <1>5, <2>1
    <3>. QED BY <3>1 DEF OutcomesSettled, OutcomesAgree
  <2>. QED BY <1>4, <2>1
<1>7. ASSUME NEW e \in Execs
      PROVE  /\ execution'[e].status = "pending" <=> AttemptsOf(e)' = {}
             /\ execution'[e].writes <=> \E a \in AttemptsOf(e)' : attempt'[a].writes
  <2>1. CASE \E a \in D : ExecOf(a) = e
    <3>1. PICK a \in D : ExecOf(a) = e
      BY <2>1
    <3>2. AttemptsOf(e)' = {a}
      <4>1. a \in AttemptsOf(e)'
        BY <1>3, <3>1 DEF AttemptsOf
      <4>2. \A b \in AttemptsOf(e)' : b \in AttemptIds /\ ExecOf(b) = e /\ Exists(b)'
        BY DEF AttemptsOf
      <4>3. \A b \in AttemptsOf(e)' : b = a
        BY <1>2, <3>1, <4>2
      <4>. QED BY <4>1, <4>3
    <3>. QED BY <1>3, <3>1, <3>2
  <2>2. CASE \A a \in D : ExecOf(a) # e
    <3>1. execution'[e] = execution[e]
      BY <2>2
    <3>2. AttemptsOf(e)' = AttemptsOf(e) /\ \A a \in AttemptsOf(e) : attempt'[a] = attempt[a]
      BY <2>2 DEF AttemptsOf, Exists
    <3>. QED BY <3>1, <3>2 DEF OutcomesSettled, OutcomesAgree, PartialPrevailsInv
  <2>. QED BY <2>1, <2>2
<1>8. ASSUME NEW b \in AttemptIds, attempt'[b].writes
      PROVE  attempt'[b].status \notin {"failed", "cancelled", "interrupted"}
  <2>1. CASE b \notin D
    BY <1>8, <2>1 DEF OutcomesSettled, PartialPrevailsInv
  <2>. QED BY <1>8, <2>1
<1>. QED BY <1>6, <1>7, <1>8 DEF OutcomesSettled, OutcomesAgree, PartialPrevailsInv

\* An active attempt is the only one of its execution, which is running and
\* has the same indicator of writes.
LEMMA ActiveExecution ==
    ASSUME Kinds, OneAttempt, OutcomesSettled, NEW a \in AttemptIds, Active(attempt[a])
    PROVE  /\ execution[ExecOf(a)].status = "running"
           /\ execution[ExecOf(a)].writes <=> attempt[a].writes
           /\ Exists(a)
<1>1. Exists(a) /\ ExecOf(a) \in Execs
  BY Ids DEF Exists, Active, ATTEMPT_ACTIVE_STATUSES
<1>2. AttemptsOf(ExecOf(a)) = {a}
  <2>1. a \in AttemptsOf(ExecOf(a))
    BY <1>1 DEF AttemptsOf
  <2>2. \A b \in AttemptsOf(ExecOf(a)) : b = a
    BY <1>1 DEF OneAttempt, NoImplicitRetry, AttemptsOf
  <2>. QED BY <2>1, <2>2
<1>. QED BY <1>1, <1>2 DEF OutcomesSettled, OutcomesAgree, PartialPrevailsInv

\* What a commit writes keeps the two rows in agreement and the outcome behind
\* its fence.
LEMMA CommitStory ==
    ASSUME Kinds, Roles, Kinds', OneAttempt, Story, NEW s \in DbSessions, Commit(s)
    PROVE  /\ OutcomesSettled' /\ LeaseFencesOutcome' /\ Writes(s)
           /\ txn[s].op # "reconcile" => s \in Sessions /\ attempt'[txn[s].a].worker = WorkerOf[s]
<1>. DEFINE a == txn[s].a
            e == ExecOf(a)
<1>0. /\ a \in AttemptIds /\ e \in Execs /\ Placed(s) /\ Decided(s)
      /\ \A b \in AttemptIds : attempt[b] \in Rows /\ ExecOf(b) \in Execs /\ attempt'[b] \in Rows
      /\ \A f \in Execs : execution[f] \in Executions /\ execution'[f] \in Executions
      /\ OutcomesSettled /\ LeaseFencesOutcome
      /\ txn[s].moment \in Nat /\ txn[s].done \subseteq AttemptIds /\ txn[s].target \in WORKER_TERMINAL_STATES
  BY Ids DEF Kinds, Txns, OneAttempt, Story
<1>1. txn[s].pc = "commit" /\ txn[s].op # "none"
  BY DEF Commit, Committing, CommitAcquire, CommitRenew, CommitStart, CommitMark, CommitFinish, CommitReconcile
<1>2. txn[s].op # "reconcile" => s \in Sessions
  BY <1>1 DEF Roles
<1>3. \A r \in Rows : Terminal(r) <=> r.status \in ATTEMPT_TERMINAL_STATUSES
  BY DEF Terminal
<1>4. txn[s].op \in OwnOps =>
        /\ Active(attempt[a]) /\ lockA[a] = s /\ attempt[a].worker = WorkerOf[s]
        /\ 0 < txn[s].moment /\ txn[s].moment < attempt[a].expires
        /\ execution[e].status = "running" /\ (execution[e].writes <=> attempt[a].writes)
  BY <1>0, <1>1, ActiveExecution DEF Placed, Decided
<1>. HIDE DEF a, e
<1>5. ASSUME NEW lease \in Leases, CommitAcquire(s, lease)
      PROVE  OutcomesSettled' /\ LeaseFencesOutcome' /\ Writes(s) /\ attempt'[a].worker = WorkerOf[s]
  <2>1. /\ txn[s].op = "acquire"
        /\ attempt'[a].status = "acquired" /\ ~attempt'[a].writes
        /\ attempt'[a].worker = WorkerOf[s]
        /\ \A b \in AttemptIds : b # a => attempt'[b] = attempt[b]
    BY <1>0, <1>5 DEF CommitAcquire, Committing, Kinds, a
  <2>2. /\ execution'[e].status = "running" /\ (execution'[e].writes <=> execution[e].writes)
        /\ \A f \in Execs : f # e => execution'[f] = execution[f]
    BY <1>0, <1>5 DEF CommitAcquire, Kinds, Executions, a, e
  <2>3. AttemptsOf(e) = {}
    BY <1>0, <1>1, <2>1 DEF Placed, a, e
  <2>4. ~Exists(a)
    BY <1>0, <2>3 DEF AttemptsOf, e
  <2>5. ~execution[e].writes
    BY <1>0, <2>3 DEF OutcomesSettled, PartialPrevailsInv
  <2>6. OutcomesSettled'
    <3>1. Active(attempt'[a]) /\ ~Terminal(attempt'[a])
      BY <2>1 DEF Active, Terminal, ATTEMPT_ACTIVE_STATUSES, ATTEMPT_TERMINAL_STATUSES
    <3>. QED BY <1>0, <2>1, <2>2, <2>3, <2>5, <3>1, RowsAgree, {a} \in SUBSET AttemptIds DEF e
  <2>7. LeaseFencesOutcome'
    BY <1>0, <2>1 DEF LeaseFencesOutcome
  <2>8. Writes(s)
    BY <2>1, <2>4 DEF Writes
  <2>. QED BY <2>1, <2>6, <2>7, <2>8
<1>6. ASSUME txn[s].op \in OwnOps, \A b \in AttemptIds : b # a => attempt'[b] = attempt[b],
             \A f \in Execs : f # e => execution'[f] = execution[f],
             attempt'[a].worker = attempt[a].worker,
             Active(attempt'[a]) \/ Terminal(attempt'[a]),
             attempt[a].writes => attempt'[a].writes,
             Terminal(attempt'[a]) => execution'[e].status = attempt'[a].status,
             Active(attempt'[a]) => execution'[e].status = "running",
             execution'[e].writes <=> attempt'[a].writes,
             attempt'[a].writes => attempt'[a].status \notin {"failed", "cancelled", "interrupted"}
      PROVE  OutcomesSettled' /\ Writes(s) /\ attempt'[a].worker = WorkerOf[s]
  <2>1. Exists(a) /\ attempt'[a].status # "absent"
    BY <1>4, <1>6 DEF Exists, Active, Terminal, ATTEMPT_ACTIVE_STATUSES, ATTEMPT_TERMINAL_STATUSES
  <2>2. OutcomesSettled'
    BY <1>0, <1>6, <2>1, RowsAgree, {a} \in SUBSET AttemptIds DEF e
  <2>3. s \in Sessions
    BY <1>2, <1>6 DEF OwnOps
  <2>4. WritesRow(s, a)
    BY <1>4, <1>6, <2>1, <2>3 DEF WritesRow
  <2>5. Writes(s)
    BY <1>6, <2>4 DEF Writes
  <2>. QED BY <1>4, <1>6, <2>2, <2>5
<1>7. ASSUME NEW lease \in Leases, CommitRenew(s, lease)
      PROVE  OutcomesSettled' /\ LeaseFencesOutcome' /\ Writes(s) /\ attempt'[a].worker = WorkerOf[s]
  <2>1. /\ txn[s].op \in OwnOps /\ execution' = execution
        /\ attempt'[a].status = attempt[a].status /\ (attempt'[a].writes <=> attempt[a].writes)
        /\ attempt'[a].worker = attempt[a].worker
        /\ \A b \in AttemptIds : b # a => attempt'[b] = attempt[b]
    BY <1>0, <1>7 DEF CommitRenew, Committing, Kinds, Rows, OwnOps, a
  <2>2. Active(attempt'[a]) /\ ~Terminal(attempt'[a])
    BY <1>4, <2>1 DEF Active, Terminal, ATTEMPT_ACTIVE_STATUSES, ATTEMPT_TERMINAL_STATUSES
  <2>3. attempt'[a].writes => attempt'[a].status \notin {"failed", "cancelled", "interrupted"}
    BY <2>2 DEF Active, ATTEMPT_ACTIVE_STATUSES
  <2>4. OutcomesSettled' /\ Writes(s) /\ attempt'[a].worker = WorkerOf[s]
    BY <1>4, <1>6, <2>1, <2>2, <2>3
  <2>5. LeaseFencesOutcome'
    BY <1>0, <2>1, <2>2 DEF LeaseFencesOutcome, Terminal, ATTEMPT_TERMINAL_STATUSES
  <2>. QED BY <2>4, <2>5
<1>8. ASSUME CommitStart(s)
      PROVE  OutcomesSettled' /\ LeaseFencesOutcome' /\ Writes(s) /\ attempt'[a].worker = WorkerOf[s]
  <2>1. /\ txn[s].op \in OwnOps /\ execution' = execution
        /\ attempt'[a].status = "running" /\ (attempt'[a].writes <=> attempt[a].writes)
        /\ attempt'[a].worker = attempt[a].worker
        /\ \A b \in AttemptIds : b # a => attempt'[b] = attempt[b]
    BY <1>0, <1>8 DEF CommitStart, Committing, Kinds, Rows, OwnOps, a
  <2>2. Active(attempt'[a]) /\ ~Terminal(attempt'[a])
    BY <2>1 DEF Active, Terminal, ATTEMPT_ACTIVE_STATUSES, ATTEMPT_TERMINAL_STATUSES
  <2>3. OutcomesSettled' /\ Writes(s) /\ attempt'[a].worker = WorkerOf[s]
    BY <1>4, <1>6, <2>1, <2>2
  <2>4. LeaseFencesOutcome'
    BY <1>0, <2>1 DEF LeaseFencesOutcome
  <2>. QED BY <2>3, <2>4
<1>9. ASSUME CommitMark(s)
      PROVE  OutcomesSettled' /\ LeaseFencesOutcome' /\ Writes(s) /\ attempt'[a].worker = WorkerOf[s]
  <2>1. /\ txn[s].op \in OwnOps
        /\ attempt'[a].status = attempt[a].status /\ attempt'[a].writes
        /\ attempt'[a].worker = attempt[a].worker
        /\ \A b \in AttemptIds : b # a => attempt'[b] = attempt[b]
    BY <1>0, <1>9 DEF CommitMark, Committing, Kinds, Rows, OwnOps, a
  <2>2. /\ execution'[e].status = execution[e].status /\ execution'[e].writes
        /\ \A f \in Execs : f # e => execution'[f] = execution[f]
    BY <1>0, <1>9 DEF CommitMark, Kinds, Executions, a, e
  <2>3. Active(attempt'[a]) /\ ~Terminal(attempt'[a])
    BY <1>4, <2>1 DEF Active, Terminal, ATTEMPT_ACTIVE_STATUSES, ATTEMPT_TERMINAL_STATUSES
  <2>4. attempt'[a].status \notin {"failed", "cancelled", "interrupted"}
    BY <2>3 DEF Active, ATTEMPT_ACTIVE_STATUSES
  <2>5. OutcomesSettled' /\ Writes(s) /\ attempt'[a].worker = WorkerOf[s]
    BY <1>4, <1>6, <2>1, <2>2, <2>3, <2>4
  <2>6. LeaseFencesOutcome'
    BY <1>0, <2>1, <2>3 DEF LeaseFencesOutcome, Terminal, ATTEMPT_TERMINAL_STATUSES
  <2>. QED BY <2>5, <2>6
<1>10. ASSUME CommitFinish(s)
       PROVE  OutcomesSettled' /\ LeaseFencesOutcome' /\ Writes(s) /\ attempt'[a].worker = WorkerOf[s]
  <2>1. /\ txn[s].op = "finish"
        /\ attempt'[a] = TerminalRow(attempt[a], txn[s].target, txn[s].moment)
        /\ \A b \in AttemptIds : b # a => attempt'[b] = attempt[b]
        /\ execution'[e] = TerminalExecution(execution[e], txn[s].target)
        /\ \A f \in Execs : f # e => execution'[f] = execution[f]
    BY <1>0, <1>10 DEF CommitFinish, Committing, Kinds, a, e
  <2>2. txn[s].op \in OwnOps
    BY <2>1 DEF OwnOps
  <2>3. /\ attempt'[a].status = txn[s].target /\ attempt'[a].finished = txn[s].moment
        /\ attempt'[a].worker = attempt[a].worker /\ attempt'[a].expires = attempt[a].expires
        /\ attempt'[a].writes <=> (attempt[a].writes \/ txn[s].target = "partial")
        /\ execution'[e].writes <=> (execution[e].writes \/ txn[s].target = "partial")
        /\ execution'[e].status = IF execution[e].status \in TERMINAL_STATUSES
                                  THEN execution[e].status ELSE txn[s].target
    BY <1>0, <2>1, TerminalFields
  <2>4. execution'[e].status = txn[s].target
    BY <1>4, <2>2, <2>3 DEF TERMINAL_STATUSES, ATTEMPT_TERMINAL_STATUSES
  <2>5. Terminal(attempt'[a]) /\ ~Active(attempt'[a]) /\ txn[s].target # "interrupted"
    BY <1>0, <2>3 DEF Active, Terminal, ATTEMPT_ACTIVE_STATUSES, ATTEMPT_TERMINAL_STATUSES, WORKER_TERMINAL_STATES
  <2>6. attempt[a].writes => txn[s].target \notin {"failed", "cancelled"}
    BY <1>0, <1>1, <2>1 DEF Decided, PARTIAL_PREVAILS_OVER, a
  <2>7. OutcomesSettled' /\ Writes(s) /\ attempt'[a].worker = WorkerOf[s]
    BY <1>4, <1>6, <2>1, <2>2, <2>3, <2>4, <2>5, <2>6
  <2>8. LeaseFencesOutcome'
    BY <1>0, <1>4, <2>1, <2>2, <2>3, <2>5 DEF LeaseFencesOutcome
  <2>. QED BY <2>7, <2>8
<1>11. ASSUME CommitReconcile(s)
       PROVE  OutcomesSettled' /\ LeaseFencesOutcome' /\ Writes(s) /\ txn[s].op = "reconcile"
  <2>. DEFINE D == txn[s].done
              target(b) == ReconcileTarget(attempt[b])
  <2>1. /\ txn[s].op = "reconcile" /\ D \subseteq AttemptIds /\ txn[s].moment <= clock
        /\ \A b \in D : /\ Exists(b) /\ lockA[b] = s /\ identity[s][b] = attempt[b]
                        /\ Active(attempt[b]) /\ attempt[b].expires <= txn[s].moment
    BY <1>0, <1>11 DEF CommitReconcile, Committing, Placed, Decided
  <2>2. \A b \in D : attempt'[b] = TerminalRow(attempt[b], target(b), txn[s].moment)
    BY <1>11, <2>1 DEF CommitReconcile
  <2>3. \A b \in AttemptIds \ D : attempt'[b] = attempt[b]
    BY <1>11 DEF CommitReconcile
  <2>4. \A b, c \in D : ExecOf(b) = ExecOf(c) => b = c
    BY <2>1 DEF OneAttempt, NoImplicitRetry
  <2>5. \A f \in Execs : (\A b \in D : ExecOf(b) # f) => execution'[f] = execution[f]
    BY <1>11 DEF CommitReconcile
  <2>6. ASSUME NEW b \in D
        PROVE  execution'[ExecOf(b)] = TerminalExecution(execution[ExecOf(b)], target(b))
    <3>1. ExecOf(b) \in Execs
      BY <1>0, <2>1
    <3>2. (CHOOSE c \in D : ExecOf(c) = ExecOf(b)) = b
      BY <2>4
    <3>3. execution'[ExecOf(b)] =
            TerminalExecution(execution[ExecOf(b)],
                              ReconcileTarget(identity[s][CHOOSE c \in D : ExecOf(c) = ExecOf(b)]))
      BY <1>11, <3>1 DEF CommitReconcile
    <3>. QED BY <2>1, <3>2, <3>3
  <2>7. \A b \in D : target(b) = IF attempt[b].writes THEN "partial" ELSE "interrupted"
    BY DEF ReconcileTarget
  <2>. HIDE DEF D, target
  <2>8. ASSUME NEW b \in D
        PROVE  /\ Terminal(attempt'[b]) /\ ~Active(attempt'[b])
               /\ execution'[ExecOf(b)].status = attempt'[b].status
               /\ execution'[ExecOf(b)].writes <=> attempt'[b].writes
               /\ attempt'[b].writes => attempt'[b].status \notin {"failed", "cancelled", "interrupted"}
               /\ attempt[b].writes => attempt'[b].writes
               /\ attempt'[b].worker = attempt[b].worker /\ attempt'[b].expires = attempt[b].expires
               /\ attempt'[b].finished = txn[s].moment
               /\ attempt'[b].status \in {"partial", "interrupted"}
    <3>1. /\ b \in AttemptIds /\ ExecOf(b) \in Execs /\ attempt[b] \in Rows
          /\ execution[ExecOf(b)] \in Executions
      BY <1>0, <2>1
    <3>2. execution[ExecOf(b)].status = "running" /\ (execution[ExecOf(b)].writes <=> attempt[b].writes)
      BY <1>0, <2>1, <3>1, ActiveExecution
    <3>3. /\ attempt'[b].status = target(b) /\ attempt'[b].finished = txn[s].moment
          /\ attempt'[b].worker = attempt[b].worker /\ attempt'[b].expires = attempt[b].expires
          /\ attempt'[b].writes <=> (attempt[b].writes \/ target(b) = "partial")
          /\ execution'[ExecOf(b)].writes <=> (execution[ExecOf(b)].writes \/ target(b) = "partial")
          /\ execution'[ExecOf(b)].status = IF execution[ExecOf(b)].status \in TERMINAL_STATUSES
                                            THEN execution[ExecOf(b)].status ELSE target(b)
      BY <2>2, <2>6, <3>1, TerminalFields
    <3>4. execution'[ExecOf(b)].status = target(b)
      BY <3>2, <3>3 DEF TERMINAL_STATUSES, ATTEMPT_TERMINAL_STATUSES
    <3>5. Terminal(attempt'[b]) /\ ~Active(attempt'[b])
      BY <2>7, <3>3 DEF Active, Terminal, ATTEMPT_ACTIVE_STATUSES, ATTEMPT_TERMINAL_STATUSES
    <3>. QED BY <2>7, <3>2, <3>3, <3>4, <3>5
  <2>9. OutcomesSettled'
    BY <1>0, <2>1, <2>3, <2>4, <2>5, <2>8, RowsAgree
  <2>10. LeaseFencesOutcome'
    <3>1. ASSUME NEW b \in D
          PROVE  /\ attempt'[b].status \notin {"succeeded", "failed", "cancelled"}
                 /\ attempt'[b].finished >= attempt'[b].expires
      <4>1. attempt[b].expires \in Nat /\ txn[s].moment \in Nat
        BY <1>0, <2>1 DEF Rows
      <4>. QED BY <2>1, <2>8, <4>1
    <3>. QED BY <1>0, <2>3, <3>1 DEF LeaseFencesOutcome
  <2>11. Writes(s)
    <3>1. ASSUME NEW b \in D PROVE WritesRow(s, b)
      <4>1. attempt[b].expires \in Nat /\ txn[s].moment \in Nat /\ clock \in Nat
        BY <1>0, <2>1 DEF Rows, Kinds
      <4>2. attempt[b].expires <= clock
        BY <2>1, <4>1
      <4>. QED BY <2>1, <2>8, <4>2 DEF WritesRow
    <3>. QED BY <2>3, <3>1 DEF Writes
  <2>. QED BY <2>1, <2>9, <2>10, <2>11
<1>. QED BY <1>0, <1>2, <1>5, <1>7, <1>8, <1>9, <1>10, <1>11 DEF Commit, a

\* Story is inductive with one session per worker.
LEMMA StoryStep ==
    ASSUME OneSessionPerWorker, Kinds, Roles, OneAttempt, Story, [Next]_vars
    PROVE  Story'
<1>0. /\ \A s \in DbSessions : /\ Decided(s) /\ Placed(s) /\ s # Free
                               /\ txn[s].a \in AttemptIds /\ txn[s].done \subseteq AttemptIds
                               /\ \A a \in AttemptIds : Seen(s, a)
      /\ clock \in Nat /\ clock > 0
      /\ \A a \in AttemptIds : attempt[a] \in Rows /\ attempt[a].expires \in Nat
      /\ Sessions \cap Reconcilers = {}
  BY ConstantsAssumption DEF Story, OneAttempt, Kinds, Txns, Rows
<1>1. CASE Tick
  <2>1. UNCHANGED <<execution, attempt, lockE, lockA, txn, identity>> /\ clock' = clock + 1
    BY <1>1 DEF Tick
  <2>2. \A s \in DbSessions, a \in AttemptIds : identity[s][a].expires \in Nat
    BY DEF Kinds, Rows
  <2>3. \A s \in DbSessions : txn[s].moment \in Nat
    BY DEF Kinds, Txns
  <2>4. \A s \in DbSessions : Decided(s)'
    BY <1>0, <2>1, <2>3 DEF Decided
  <2>5. \A s \in DbSessions, a \in AttemptIds : Seen(s, a)'
    BY <1>0, <2>1, <2>2 DEF Seen, Exists
  <2>6. OutcomesSettled' /\ LeaseFencesOutcome' /\ Blank'
    BY <2>1 DEF Story, OutcomesSettled, OutcomesAgree, PartialPrevailsInv, LeaseFencesOutcome, Blank, AttemptsOf, Exists
  <2>. QED BY <1>0, <2>1, <2>4, <2>5, <2>6 DEF Story
<1>2. CASE UNCHANGED vars
  BY <1>2 DEF vars, Story, Decided, Seen, Exists, OutcomesSettled, OutcomesAgree, PartialPrevailsInv,
              LeaseFencesOutcome, Blank, AttemptsOf
<1>3. ASSUME NEW s \in DbSessions, OthersStay(s), Writes(s), clock' = clock, OutcomesSettled', LeaseFencesOutcome',
             \A b \in AttemptIds : lockA'[b] = lockA[b] \/ {lockA[b], lockA'[b]} \subseteq {s, Free},
             \A r \in DbSessions \ {s}, b \in AttemptIds : identity'[r][b] = identity[r][b],
             Decided(s)', \A a \in AttemptIds : Seen(s, a)'
      PROVE  Story'
  <2>1. \A r \in DbSessions \ {s} : Decided(r)' /\ \A a \in AttemptIds : Seen(r, a)'
    BY <1>0, <1>3, StoryOfOthers
  <2>2. Blank'
    BY <1>3 DEF Story, Blank, Writes, WritesRow, Exists
  <2>. QED BY <1>0, <1>3, <2>1, <2>2 DEF Story
<1>4. ASSUME NEW s \in DbSessions, RowsStay PROVE Writes(s) /\ OutcomesSettled' /\ LeaseFencesOutcome'
  BY <1>4 DEF RowsStay, Writes, Story, OutcomesSettled, OutcomesAgree, PartialPrevailsInv,
              LeaseFencesOutcome, AttemptsOf, Exists
\* The step of a session that keeps its objects and its attempt locks.
<1>5. ASSUME NEW s \in DbSessions, OthersStay(s), RowsStay, UNCHANGED <<lockA, identity>>, Decided(s)'
      PROVE  Story'
  <2>1. \A a \in AttemptIds : Seen(s, a)'
    BY <1>0, <1>5 DEF Seen, RowsStay, Exists
  <2>. QED BY <1>3, <1>4, <1>5, <2>1 DEF RowsStay
<1>6. ASSUME NEW s \in Sessions, NEW a \in AttemptIds, DropReference(s, a) PROVE Story'
  <2>1. /\ RowsStay /\ UNCHANGED <<lockE, lockA, txn>> /\ txn[s].pc = "idle"
        /\ \A r \in DbSessions, b \in AttemptIds :
             identity'[r][b] = IF r = s /\ b = a THEN NoRow ELSE identity[r][b]
    BY <1>6 DEF DropReference, RowsStay, Kinds
  <2>2. \A b \in AttemptIds : Seen(s, b)'
    BY <1>0, <2>1 DEF Seen, RowsStay, Exists, NoRow
  <2>3. txn[s].op = "none" /\ txn[s].done = {}
    BY <1>0, <2>1 DEF Placed
  <2>4. Decided(s)'
    BY <2>1, <2>3 DEF Decided, OwnOps
  <2>. QED BY <1>3, <1>4, <2>1, <2>2, <2>4 DEF OthersStay, RowsStay
<1>7. ASSUME NEW s \in Sessions, Call(s) PROVE Story'
  <2>1. txn[s].done = {}
    BY <1>0, <1>7, CallEffect DEF Placed
  <2>2. Decided(s)'
    BY <1>7, <2>1, CallEffect DEF Decided, OwnOps
  <2>. QED BY <1>5, <1>7, <2>2, CallEffect
<1>8. ASSUME NEW s \in Reconcilers, NEW scope, Discover(s, scope) PROVE Story'
  <2>1. txn[s].done = {}
    BY <1>0, <1>8, DiscoverEffect DEF Placed
  <2>2. Decided(s)'
    BY <1>0, <1>8, <2>1, DiscoverEffect DEF Decided, OwnOps, RowsStay
  <2>. QED BY <1>5, <1>8, <2>2, DiscoverEffect
<1>9. ASSUME NEW s \in DbSessions, LockExecution(s) PROVE Story'
  <2>1. Decided(s)'
    <3>1. /\ RowsStay /\ UNCHANGED <<lockA, identity>>
          /\ txn'[s].pc \in {"decide", "lockA"} /\ (txn'[s].pc = "decide" => txn'[s].op = "acquire")
          /\ txn'[s].op = txn[s].op /\ txn'[s].moment = txn[s].moment /\ txn'[s].done = txn[s].done
      BY <1>9, LockExecutionEffect
    <3>. QED BY <1>0, <3>1 DEF Decided, OwnOps, RowsStay
  <2>. QED BY <1>5, <1>9, <2>1, LockExecutionEffect
<1>10. ASSUME NEW s \in DbSessions, LockAttempt(s) PROVE Story'
  <2>0. /\ txn[s].pc = "lockA" /\ OthersStay(s) /\ RowsStay /\ lockA'[txn[s].a] = s
        /\ \A b \in AttemptIds : lockA[b] = s => lockA'[b] = s
        /\ txn'[s].pc = "decide" /\ txn'[s].op = txn[s].op /\ txn'[s].a = txn[s].a
        /\ txn'[s].moment = txn[s].moment /\ txn'[s].done = txn[s].done
        /\ \A r \in DbSessions \ {s}, b \in AttemptIds : identity'[r][b] = identity[r][b]
        /\ \A b \in AttemptIds : lockA'[b] = lockA[b] \/ {lockA[b], lockA'[b]} \subseteq {s, Free}
    BY <1>0, <1>10, LockAttemptEffect
  <2>1. \A b \in AttemptIds : \/ identity'[s][b] = identity[s][b]
                              \/ b = txn[s].a /\ identity'[s][b] = attempt[b] /\ identity[s][b].status = "absent"
    BY <1>10, LockAttemptEffect
  <2>2. Exists(txn[s].a) /\ (txn[s].op # "acquire")
    BY <1>0, <2>0 DEF Placed, OwnOps, Kinds, Txns, Ops
  <2>3. \A b \in AttemptIds : Seen(s, b)'
    <3>1. ASSUME NEW b \in AttemptIds, identity'[s][b] = identity[s][b] PROVE Seen(s, b)'
      BY <1>0, <2>0, <3>1 DEF Seen, RowsStay, Exists
    <3>2. ASSUME NEW b \in AttemptIds, b = txn[s].a, identity'[s][b] = attempt[b] PROVE Seen(s, b)'
      BY <1>0, <2>0, <2>2, <3>2 DEF Seen, RowsStay, Exists
    <3>. QED BY <2>1, <3>1, <3>2
  <2>4. Decided(s)'
    <3>1. identity'[s][txn[s].a].status # "absent"
      BY <1>0, <1>10, <2>2, LockAttemptEffect DEF Exists
    <3>2. \A b \in txn[s].done : identity[s][b] = attempt[b] /\ attempt[b].status # "absent"
      BY <1>0 DEF Decided, Active, ATTEMPT_ACTIVE_STATUSES
    <3>3. \A b \in txn[s].done : identity'[s][b] = attempt[b]
      BY <1>0, <2>1, <3>2
    <3>. QED BY <1>0, <2>0, <3>1, <3>3 DEF Decided, RowsStay
  <2>. QED BY <1>3, <1>4, <2>0, <2>3, <2>4 DEF RowsStay
<1>11. ASSUME NEW s \in DbSessions, Rollback(s) PROVE Story'
  <2>1. Ends(s) /\ RowsStay /\ txn'[s].pc = "idle"
    BY <1>11, RollbackEffect
  <2>2. \A b \in AttemptIds : Seen(s, b)'
    BY <2>1 DEF Seen, Ends, NoRow
  <2>3. Decided(s)'
    BY <2>1 DEF Decided, Ends, OwnOps
  <2>. QED BY <1>3, <1>4, <2>1, <2>2, <2>3 DEF Ends
<1>12. ASSUME NEW s \in DbSessions, DecideAcquire(s) PROVE Story'
  <2>1. txn[s].done = {}
    BY <1>0, <1>12, DecideAcquireEffect DEF Placed, Deciding
  <2>2. Decided(s)'
    BY <1>12, <2>1, DecideAcquireEffect DEF Decided, OwnOps
  <2>. QED BY <1>5, <1>12, <2>2, DecideAcquireEffect
<1>13. ASSUME NEW s \in DbSessions,
              \/ DecideStart(s) \/ DecideRenew(s) \/ DecideMark(s)
              \/ \E o \in Outcomes : DecideFinish(s, o)
       PROVE  Story'
  <2>0. /\ txn[s].pc = "decide" /\ txn[s].op \in OwnOps
        /\ RequireOwner(s) /\ RequireNotTerminal(s) /\ RequireLeaseValid(s)
        /\ txn[s].op = "start" => Object(s).status = "acquired"
        /\ txn[s].op = "finish" =>
             /\ <<Object(s).status, txn'[s].target>> \in LEGAL_ATTEMPT_TRANSITIONS
             /\ Object(s).writes => txn'[s].target \notin PARTIAL_PREVAILS_OVER
        /\ OthersStay(s) /\ RowsStay /\ UNCHANGED <<lockE, lockA, identity>>
        /\ txn'[s].pc = "commit" /\ txn'[s].op = txn[s].op /\ txn'[s].moment = clock
        /\ txn'[s].a = txn[s].a /\ txn'[s].done = txn[s].done
    BY <1>13, DecideOwnEffect DEF OwnOps
  <2>1. Object(s).status # "absent" /\ Seen(s, txn[s].a) /\ Object(s).expires \in Nat
    <3>1. Decided(s) /\ Seen(s, txn[s].a) /\ txn[s].a \in AttemptIds
      BY <1>0
    <3>2. identity[s][txn[s].a] \in Rows
      BY <3>1 DEF Kinds
    <3>3. txn[s].op # "acquire"
      BY <2>0 DEF OwnOps
    <3>. QED BY <2>0, <3>1, <3>2, <3>3 DEF Decided, Object, Rows
  <2>2. ~(Object(s).expires <= clock)
    BY <1>0, <2>0, <2>1 DEF RequireLeaseValid
  <2>3. Object(s) = attempt[txn[s].a]
    BY <2>1, <2>2 DEF Seen, Object
  <2>4. Active(attempt[txn[s].a])
    BY <1>0, <2>0, <2>1, <2>3 DEF RequireNotTerminal, Active, Terminal, Rows
  <2>5. attempt[txn[s].a].worker = WorkerOf[s] /\ clock < attempt[txn[s].a].expires
    BY <1>0, <2>0, <2>3 DEF RequireOwner, RequireLeaseValid
  <2>6. txn[s].done = {}
    BY <1>0, <2>0 DEF Placed, OwnOps
  <2>7. Decided(s)'
    BY <1>0, <2>0, <2>3, <2>4, <2>5, <2>6 DEF Decided, OwnOps, RowsStay
  <2>. QED BY <1>5, <2>0, <2>7
<1>14. ASSUME NEW s \in DbSessions, Recheck(s) PROVE Story'
  <2>0. /\ txn[s].pc = "decide" /\ txn[s].op = "reconcile"
        /\ OthersStay(s) /\ RowsStay /\ UNCHANGED <<lockE, lockA, identity>>
        /\ txn'[s].op = "reconcile" /\ txn'[s].moment = txn[s].moment
        /\ txn'[s].pc \in {"commit", "lockE"}
        /\ txn'[s].done = IF StillLost(s) THEN txn[s].done \cup {txn[s].a} ELSE txn[s].done
    BY <1>14, RecheckEffect
  <2>1. s \in Reconcilers
    BY <2>0 DEF Roles
  <2>2. identity[s][txn[s].a] = attempt[txn[s].a]
    <3>1. Decided(s) /\ Seen(s, txn[s].a)
      BY <1>0
    <3>. QED BY <2>0, <2>1, <3>1 DEF Decided, Seen
  <2>3. StillLost(s) => Active(attempt[txn[s].a]) /\ attempt[txn[s].a].expires <= txn[s].moment
    BY <2>2 DEF StillLost, Object
  <2>4. \A b \in txn'[s].done : /\ identity[s][b] = attempt[b]
                                /\ Active(attempt[b]) /\ attempt[b].expires <= txn[s].moment
    <3>1. \A b \in txn[s].done : /\ identity[s][b] = attempt[b]
                                  /\ Active(attempt[b]) /\ attempt[b].expires <= txn[s].moment
      BY <1>0 DEF Decided
    <3>2. CASE StillLost(s)
      BY <2>0, <2>2, <2>3, <3>1, <3>2
    <3>3. CASE ~StillLost(s)
      BY <2>0, <3>1, <3>3
    <3>. QED BY <3>2, <3>3
  <2>5. Decided(s)'
    BY <1>0, <2>0, <2>4 DEF Decided, OwnOps, RowsStay
  <2>. QED BY <1>5, <2>0, <2>5
<1>15. ASSUME NEW s \in DbSessions, Commit(s) PROVE Story'
  <2>1. Committed(s)
    BY <1>15 DEF Commit, CommitAcquire, CommitRenew, CommitStart, CommitMark, CommitFinish, CommitReconcile
  <2>2. Kinds'
    BY KindsStep
  <2>3. /\ OutcomesSettled' /\ LeaseFencesOutcome' /\ Writes(s)
        /\ txn[s].op # "reconcile" => s \in Sessions /\ attempt'[txn[s].a].worker = WorkerOf[s]
    BY <1>15, <2>2, CommitStory
  <2>4. Ends(s) /\ IF txn[s].op = "reconcile" THEN txn'[s].pc = "idle"
                   ELSE txn'[s].pc = "refresh" /\ txn'[s].a = txn[s].a
    BY <2>1, CommittedEffect
  <2>5. \A b \in AttemptIds : Seen(s, b)'
    BY <2>4 DEF Seen, Ends, NoRow
  <2>6. Decided(s)'
    BY <2>3, <2>4 DEF Decided, Ends, OwnOps
  <2>. QED BY <1>3, <2>3, <2>4, <2>5, <2>6 DEF Ends
<1>16. ASSUME NEW s \in DbSessions, Refresh(s) PROVE Story'
  <2>0. /\ txn[s].pc = "refresh" /\ OthersStay(s) /\ RowsStay /\ UNCHANGED <<lockE, lockA>>
        /\ txn'[s].pc = "idle" /\ txn'[s].op = "none" /\ txn'[s].done = {}
        /\ \A r \in DbSessions, b \in AttemptIds :
             identity'[r][b] = IF r = s /\ b = txn[s].a THEN attempt[b] ELSE identity[r][b]
    BY <1>16, RefreshEffect
  <2>1. Exists(txn[s].a) /\ s \in Sessions /\ s \notin Reconcilers /\ attempt[txn[s].a].worker = WorkerOf[s]
    BY <1>0, <2>0 DEF Placed, Decided
  <2>2. \A b \in AttemptIds : Seen(s, b)'
    BY <1>0, <2>0, <2>1 DEF Seen, RowsStay, Exists
  <2>3. Decided(s)'
    BY <2>0 DEF Decided, OwnOps
  <2>. QED BY <1>3, <1>4, <2>0, <2>2, <2>3 DEF RowsStay
<1>. QED
  BY <1>1, <1>2, <1>6, <1>7, <1>8, <1>9, <1>10, <1>11, <1>12, <1>13, <1>14, <1>15, <1>16
     DEF Next, Step, Reconcile, Decide, Reject, Crash

\* The invariant behind the theorems below.
LEMMA StoryHolds == ASSUME OneSessionPerWorker PROVE Spec => [](TypeOK /\ OneAttempt /\ Story)
<1>1. Init => Story
  <2>. SUFFICES ASSUME Init PROVE Story
    OBVIOUS
  <2>1. /\ \A a \in AttemptIds : ~Exists(a) /\ ~Active(attempt[a]) /\ ~Terminal(attempt[a])
                                 /\ ~attempt[a].writes /\ attempt[a].status = "absent"
        /\ \A e \in Execs : execution[e].status = "pending" /\ ~execution[e].writes
    BY DEF Init, NoRow, Exists, Active, Terminal, ATTEMPT_ACTIVE_STATUSES, ATTEMPT_TERMINAL_STATUSES
  <2>2. \A s \in DbSessions : txn[s].pc = "idle" /\ txn[s].op = "none" /\ txn[s].done = {}
    BY DEF Init, NoTxn
  <2>3. \A s \in DbSessions, a \in AttemptIds : identity[s][a].status = "absent"
    <3>1. NoRow.status = "absent"
      BY DEF NoRow
    <3>2. \A s \in DbSessions, a \in AttemptIds : identity[s][a] = NoRow
      BY DEF Init
    <3>. QED BY <3>1, <3>2
  <2>4. \A e \in Execs : AttemptsOf(e) = {}
    BY <2>1, Zenon DEF AttemptsOf
  <2>5. clock = 1
    BY DEF Init
  <2>6. OutcomesSettled
    BY <2>1, <2>4 DEF OutcomesSettled, OutcomesAgree, PartialPrevailsInv
  <2>7. LeaseFencesOutcome
    BY <2>1 DEF LeaseFencesOutcome
  <2>. QED BY <2>1, <2>2, <2>3, <2>5, <2>6, <2>7 DEF Story, Decided, Seen, Blank, OwnOps
<1>2. Init => OneAttempt
  <2>. SUFFICES ASSUME Init PROVE OneAttempt
    OBVIOUS
  <2>1. \A a \in AttemptIds : ~Exists(a) /\ ~Terminal(attempt[a])
    BY DEF Init, NoRow, Exists, Terminal, ATTEMPT_TERMINAL_STATUSES
  <2>2. \A s \in DbSessions : txn[s].pc = "idle" /\ txn[s].op = "none" /\ txn[s].done = {}
    BY DEF Init, NoTxn
  <2>. QED BY <2>1, <2>2 DEF OneAttempt, Placed, Closed, NoImplicitRetry, OwnOps
<1>3. TypeOK /\ OneAttempt /\ [Next]_vars => OneAttempt'
  BY OneAttemptStep DEF TypeOK
<1>4. TypeOK /\ OneAttempt /\ Story /\ [Next]_vars => Story'
  BY StoryStep DEF TypeOK
<1>. QED
  BY <1>1, <1>2, <1>3, <1>4, TypeCorrect, PTL DEF Spec

\* When every worker calls through one session, the attempt row and its
\* execution tell the same story in every state, and a write that began is
\* never hidden by the outcome: finish_attempt, mark_writes_started and the
\* reconciler may all decide on stale copies, but none commits one.
THEOREM OneStory == ASSUME OneSessionPerWorker PROVE Spec => []OutcomesSettled
<1>1. Story => OutcomesSettled
  BY DEF Story
<1>. QED BY <1>1, StoryHolds, PTL

\* Under the same condition a worker's outcome was decided inside its lease and
\* the reconciler's verdict of interruption after it.
THEOREM LeaseFences == ASSUME OneSessionPerWorker PROVE Spec => []LeaseFencesOutcome
<1>1. Story => LeaseFencesOutcome
  BY DEF Story
<1>. QED BY <1>1, StoryHolds, PTL

\* Under the same condition a terminal attempt row never changes again and its
\* indicator of writes never goes back.
THEOREM OutcomeIsFinal == ASSUME OneSessionPerWorker PROVE Spec => TerminalImmutable
<1>. DEFINE A == \A a \in AttemptIds : /\ Terminal(attempt[a]) => attempt'[a] = attempt[a]
                                       /\ attempt[a].writes => attempt'[a].writes
<1>1. TypeOK /\ OneAttempt /\ Story /\ [Next]_vars => A \/ UNCHANGED attempt
  <2>. SUFFICES ASSUME TypeOK, OneAttempt, Story, [Next]_vars, attempt' # attempt PROVE A
    OBVIOUS
  <2>1. PICK s \in DbSessions : Commit(s)
    <3>1. ~Tick /\ ~(UNCHANGED vars)
      BY DEF Tick, vars
    <3>2. \A s \in Sessions : ~Call(s) /\ \A a \in AttemptIds : ~DropReference(s, a)
      BY Zenon DEF Call, CallAcquire, CallOnAttempt, CallOnBoth, DropReference
    <3>3. \A s \in Reconcilers : ~Reconcile(s)
      BY Zenon DEF Reconcile, Discover
    <3>4. \A s \in DbSessions : ~LockExecution(s) /\ ~LockAttempt(s) /\ ~Refresh(s) /\ ~Crash(s) /\ ~Reject(s)
      BY DEF LockExecution, LockAttempt, Refresh, Crash, Reject, Rollback
    <3>5. \A s \in DbSessions : ~DecideAcquire(s) /\ ~Recheck(s)
      BY Zenon DEF DecideAcquire, Recheck
    <3>6. \A s \in DbSessions : ~DecideStart(s) /\ ~DecideRenew(s) /\ ~DecideMark(s) /\ \A o : ~DecideFinish(s, o)
      BY Zenon DEF DecideStart, DecideRenew, DecideMark, DecideFinish
    <3>. QED BY <3>1, <3>2, <3>3, <3>4, <3>5, <3>6 DEF Next, Step, Decide
  <2>2. Writes(s)
    BY <2>1, KindsStep, CommitStory DEF TypeOK
  <2>3. \A a \in AttemptIds : Terminal(attempt[a]) => Exists(a) /\ ~Active(attempt[a])
    BY DEF Exists, Active, Terminal, ATTEMPT_ACTIVE_STATUSES, ATTEMPT_TERMINAL_STATUSES
  <2>. QED BY <2>2, <2>3 DEF Writes, WritesRow, Story, Blank
<1>. QED BY <1>1, StoryHolds, PTL DEF Spec, TerminalImmutable

-----------------------------------------------------------------------------
(* The slot and the job journal of the web UI, for any set of requests, any *)
(* mix of kinds and whatever the journal does.                              *)

\* Where a handler can be depends on what its request asks for.
Paths ==
    \A q \in Requests :
        /\ pc[q] = "gate" => kind[q] \in {"exec_write", "migrate"}
        /\ pc[q] \in {"slot", "read"} <=> kind[q] = "view" /\ pc[q] \notin {"idle", "done"}
        /\ pc[q] \in {"journal", "phase", "finish"} => Journaled(q)
        /\ pc[q] = "release" => kind[q] # "run"

\* The slot, its identity and its one holder.
Exclusion ==
    /\ \A q, r \in Requests : Holding(q) /\ Holding(r) => q = r
    /\ \A q \in Requests : Holding(q) => busy
    /\ busy => \E q \in Requests : Holding(q)

\* What captureConflictLocked reads tells who holds the slot.
Identity ==
    /\ ~busy => reserved = Nobody /\ analysis # "running"
    /\ \A q \in Requests : Holding(q) =>
         /\ reserved = IF Journaled(q) THEN q ELSE Nobody
         /\ analysis = "running" <=> kind[q] = "run"

\* A subprocess belongs to the handler that waits for it; an orphan's is gone.
Children ==
    /\ \A q \in child : pc[q] = "child"
    /\ \A q \in orphan : pc[q] = "done"

\* The inductive invariant of the slot.
IInv == SlotTyped /\ Paths /\ Exclusion /\ Identity /\ Children

\* Every step keeps the types.
LEMMA TypeStep == ASSUME SlotTyped, [SlotNext]_slotVars PROVE SlotTyped'
<1> USE SlotAssumption
<1>0. ASSUME NEW j \in Journals, NEW known \in SUBSET {"journal", "checklist"}, SlotTyped, WriteJournal(j, known)
      PROVE  journal' \in Journals /\ behind' \subseteq {"journal", "checklist"}
  BY <1>0 DEF SlotTyped, WriteJournal
<1>1. ASSUME NEW q \in Requests, NEW k \in Offered[q], Arrive(q, k) PROVE SlotTyped'
  BY <1>1 DEF SlotTyped, Arrive, FirstStop, Stops, RequestKinds
<1>2. ASSUME NEW q \in Requests, Gate(q) PROVE SlotTyped'
  BY <1>2 DEF SlotTyped, Gate, Stops
<1>3. ASSUME NEW q \in Requests, Reserve(q) PROVE SlotTyped'
  BY <1>3 DEF SlotTyped, Reserve, Stops
<1>4. ASSUME NEW q \in Requests, Refuse(q) PROVE SlotTyped'
  BY <1>4 DEF SlotTyped, Refuse, Stops
<1>5. ASSUME NEW q \in Requests, Release(q) PROVE SlotTyped'
  BY <1>5 DEF SlotTyped, Release, Stops
<1>6. ASSUME NEW q \in Requests, StartJournal(q) PROVE SlotTyped'
  <2>1. [state |-> "running", run |-> q] \in Journals
    BY <1>6 DEF Journals
  <2>2. journal' \in Journals /\ behind' \subseteq {"journal", "checklist"}
    BY <1>0, <1>6, <2>1 DEF SlotTyped, StartJournal
  <2> QED BY <1>6, <2>2 DEF SlotTyped, StartJournal, Stops
<1>7. ASSUME NEW q \in Requests, Phase(q) PROVE SlotTyped'
  <2>0. [state |-> "running", run |-> q] \in Journals
    BY <1>7 DEF Journals
  <2>1. journal' \in Journals /\ behind' \subseteq {"journal", "checklist"}
    <3>1. CASE WriteJournal([state |-> "running", run |-> q], behind \ {"checklist"})
      BY <1>0, <2>0, <3>1 DEF SlotTyped
    <3>2. CASE UNCHANGED <<journal, behind>>
      BY <3>2 DEF SlotTyped
    <3> QED BY <1>7, <3>1, <3>2 DEF Phase
  <2>2. failed' \in [Requests -> BOOLEAN]
    BY <1>7 DEF SlotTyped, Phase
  <2> QED BY <1>7, <2>1, <2>2 DEF SlotTyped, Phase, Stops
<1>8. ASSUME NEW q \in Requests, FinishJournal(q) PROVE SlotTyped'
  <2>1. [state |-> IF failed[q] THEN "failed" ELSE "completed", run |-> q] \in Journals
    BY <1>8 DEF Journals
  <2>2. journal' \in Journals /\ behind' \subseteq {"journal", "checklist"}
    BY <1>0, <1>8, <2>1 DEF SlotTyped, FinishJournal
  <2> QED BY <1>8, <2>2 DEF SlotTyped, FinishJournal, Stops
<1>9. ASSUME NEW q \in Requests, Launch(q) PROVE SlotTyped'
  BY <1>9 DEF SlotTyped, Launch, Stops
<1>10. ASSUME NEW q \in Requests, NEW ok \in BOOLEAN, ChildExits(q, ok) PROVE SlotTyped'
  <2>1. checklist' \in {"absent", "ready", "blocked"}
    BY <1>10 DEF SlotTyped, ChildExits, ChecklistAfter
  <2>2. CASE NextStep(q) /\ step[q] < StepCount(q)
    BY <1>10, <2>1, <2>2 DEF SlotTyped, ChildExits, NextStep, StepCount, Stops
  <2>3. CASE LastStep(q, ok)
    BY <1>10, <2>1, <2>3 DEF SlotTyped, ChildExits, LastStep, Stops
  <2> QED BY <1>10, <2>2, <2>3 DEF ChildExits
<1>11. ASSUME NEW q \in Requests, ExecutePanics(q) PROVE SlotTyped'
  BY <1>11 DEF SlotTyped, ExecutePanics, Stops
<1>12. ASSUME NEW q \in Requests, AcceptRefused(q) PROVE SlotTyped'
  BY <1>12 DEF SlotTyped, AcceptRefused, Stops
<1>13. ASSUME NEW q \in Requests, ViewSlot(q) PROVE SlotTyped'
  BY <1>13 DEF SlotTyped, ViewSlot, Stops
<1>14. ASSUME NEW q \in Requests, ViewJournal(q) PROVE SlotTyped'
  BY <1>14 DEF SlotTyped, ViewJournal, Journals, Stops
<1>15. ASSUME NEW q \in Requests, OrphanExits(q) PROVE SlotTyped'
  BY <1>15 DEF SlotTyped, OrphanExits, ChecklistAfter
<1>16. ASSUME Kill PROVE SlotTyped'
  BY <1>16 DEF SlotTyped, Kill, Stops
<1>17. ASSUME Restart PROVE SlotTyped'
  BY <1>17 DEF SlotTyped, Restart, WriteJournal, Journals
<1>18. CASE UNCHANGED slotVars
  BY <1>18 DEF SlotTyped, slotVars
<1> QED
  BY <1>1, <1>2, <1>3, <1>4, <1>5, <1>6, <1>7, <1>8, <1>9, <1>10, <1>11, <1>12,
     <1>13, <1>14, <1>15, <1>16, <1>17, <1>18 DEF SlotNext, Handle

\* Every step keeps the slot exclusive, identified and followed by its handler.
LEMMA SlotStep == ASSUME IInv, [SlotNext]_slotVars
                  PROVE Paths' /\ Exclusion' /\ Identity' /\ Children'
<1> USE SlotAssumption DEF IInv, Paths, Exclusion, Identity, Children, Holding, Journaled
<1>1. ASSUME NEW q \in Requests, NEW k \in Offered[q], Arrive(q, k)
      PROVE Paths' /\ Exclusion' /\ Identity' /\ Children'
  BY <1>1 DEF SlotTyped, Arrive, FirstStop, Stops, RequestKinds
<1>2. ASSUME NEW q \in Requests, Gate(q) PROVE Paths' /\ Exclusion' /\ Identity' /\ Children'
  BY <1>2 DEF SlotTyped, Gate, Stops, RequestKinds
<1>3. ASSUME NEW q \in Requests, Reserve(q) PROVE Paths' /\ Exclusion' /\ Identity' /\ Children'
  BY <1>3 DEF SlotTyped, Reserve, Stops, RequestKinds
<1>4. ASSUME NEW q \in Requests, Refuse(q) PROVE Paths' /\ Exclusion' /\ Identity' /\ Children'
  BY <1>4 DEF SlotTyped, Refuse, Stops, RequestKinds
<1>5. ASSUME NEW q \in Requests, Release(q) PROVE Paths' /\ Exclusion' /\ Identity' /\ Children'
  BY <1>5 DEF SlotTyped, Release, Stops, RequestKinds
<1>6. ASSUME NEW q \in Requests, StartJournal(q) PROVE Paths' /\ Exclusion' /\ Identity' /\ Children'
  BY <1>6 DEF SlotTyped, StartJournal, Stops, RequestKinds
<1>7. ASSUME NEW q \in Requests, Phase(q) PROVE Paths' /\ Exclusion' /\ Identity' /\ Children'
  BY <1>7 DEF SlotTyped, Phase, Stops, RequestKinds
<1>8. ASSUME NEW q \in Requests, FinishJournal(q) PROVE Paths' /\ Exclusion' /\ Identity' /\ Children'
  BY <1>8 DEF SlotTyped, FinishJournal, Stops, RequestKinds
<1>9. ASSUME NEW q \in Requests, Launch(q) PROVE Paths' /\ Exclusion' /\ Identity' /\ Children'
  BY <1>9 DEF SlotTyped, Launch, Stops, RequestKinds
<1>10. ASSUME NEW q \in Requests, NEW ok \in BOOLEAN, ChildExits(q, ok)
       PROVE Paths' /\ Exclusion' /\ Identity' /\ Children'
  <2>1. CASE NextStep(q)
    BY <1>10, <2>1 DEF SlotTyped, ChildExits, NextStep, Stops, RequestKinds
  <2>2. CASE LastStep(q, ok)
    BY <1>10, <2>2 DEF SlotTyped, ChildExits, LastStep, Stops, RequestKinds
  <2> QED BY <1>10, <2>1, <2>2 DEF ChildExits
<1>11. ASSUME NEW q \in Requests, ExecutePanics(q) PROVE Paths' /\ Exclusion' /\ Identity' /\ Children'
  BY <1>11 DEF SlotTyped, ExecutePanics, Stops, RequestKinds
<1>12. ASSUME NEW q \in Requests, AcceptRefused(q) PROVE Paths' /\ Exclusion' /\ Identity' /\ Children'
  BY <1>12 DEF SlotTyped, AcceptRefused, Stops, RequestKinds
<1>13. ASSUME NEW q \in Requests, ViewSlot(q) PROVE Paths' /\ Exclusion' /\ Identity' /\ Children'
  BY <1>13 DEF SlotTyped, ViewSlot, Stops, RequestKinds
<1>14. ASSUME NEW q \in Requests, ViewJournal(q) PROVE Paths' /\ Exclusion' /\ Identity' /\ Children'
  BY <1>14 DEF SlotTyped, ViewJournal, Stops, RequestKinds
<1>15. ASSUME NEW q \in Requests, OrphanExits(q) PROVE Paths' /\ Exclusion' /\ Identity' /\ Children'
  BY <1>15 DEF SlotTyped, OrphanExits
<1>16. ASSUME Kill PROVE Paths' /\ Exclusion' /\ Identity' /\ Children'
  BY <1>16 DEF SlotTyped, Kill, Stops, RequestKinds
<1>17. ASSUME Restart PROVE Paths' /\ Exclusion' /\ Identity' /\ Children'
  BY <1>17 DEF SlotTyped, Restart
<1>18. CASE UNCHANGED slotVars
  BY <1>18 DEF SlotTyped, slotVars
<1> QED
  BY <1>1, <1>2, <1>3, <1>4, <1>5, <1>6, <1>7, <1>8, <1>9, <1>10, <1>11, <1>12,
     <1>13, <1>14, <1>15, <1>16, <1>17, <1>18 DEF SlotNext, Handle

\* The same argument for the initial state: nobody has asked for anything yet.
LEMMA Start == SlotInit => IInv
<1> SUFFICES ASSUME SlotInit PROVE IInv OBVIOUS
<1>1. NoJournal \in Journals
  BY DEF NoJournal, Journals
<1>2. SlotTyped
  <2>1. /\ failed \in [Requests -> BOOLEAN]
        /\ seen \in [Requests -> BOOLEAN]
    BY DEF SlotInit
  <2>2. /\ kind \in [Requests -> RequestKinds]
        /\ pc \in [Requests -> Stops]
        /\ step \in [Requests -> 1 .. 5]
    BY DEF SlotInit, Stops, RequestKinds
  <2>3. /\ journal \in Journals
        /\ shown \in [Requests -> Journals]
    BY <1>1 DEF SlotInit
  <2> QED BY <2>1, <2>2, <2>3, SlotAssumption DEF SlotInit, SlotTyped
<1>3. Paths /\ Exclusion /\ Identity /\ Children
  BY DEF SlotInit, Paths, Exclusion, Identity, Children, Holding, Journaled
<1> QED BY <1>2, <1>3 DEF IInv

\* The inductive invariant holds in every behaviour.
LEMMA Inductive == SlotSpec => []IInv
<1>1. IInv /\ [SlotNext]_slotVars => IInv'
  BY TypeStep, SlotStep DEF IInv
<1> QED BY Start, <1>1, PTL DEF SlotSpec

\* Type correctness of the slot, the journal and the handlers.
THEOREM SlotTypeCorrect == SlotSpec => []SlotTyped
  BY Inductive, PTL DEF IInv

\* A refusal always names the real holder: captureConflictLocked, run under the
\* mutex at any moment, sees no identity on a free slot and on a busy one the
\* identity of the only handler that holds it.
THEOREM HolderIsIdentified == SlotSpec => []HolderIdentified
<1>1. IInv => HolderIdentified
  <2> SUFFICES ASSUME IInv PROVE HolderIdentified OBVIOUS
  <2> USE DEF IInv, Paths, Exclusion, Identity, Holding, Journaled
  <2>1. CASE ~busy
    BY <2>1 DEF HolderIdentified
  <2>2. CASE busy
    <3>1. PICK q \in Requests : Holding(q)
      BY <2>2
    <3>2. kind[q] \in RequestKinds /\ kind[q] # "view"
      BY <3>1 DEF SlotTyped
    <3>3. SlotConflict = CASE Journaled(q)       -> "named"
                           [] kind[q] = "run"    -> "analysis"
                           [] kind[q] = "accept" -> "anonymous"
      BY <3>1, <3>2, SlotAssumption DEF SlotConflict, RequestKinds
    <3> QED BY <2>2, <3>1, <3>3 DEF HolderIdentified
  <2> QED BY <2>1, <2>2 DEF SlotTyped
<1> QED BY Inductive, <1>1, PTL

\* At most one subprocess of the UI that runs writes the artifact directory,
\* that of the slot's holder; any other is an orphan of a UI that was killed.
THEOREM WritersAreExclusive == SlotSpec => []SingleWriter
<1>1. IInv => SingleWriter
  BY DEF IInv, Exclusion, Children, SingleWriter, Holding, SlotTyped
<1> QED BY Inductive, <1>1, PTL

\* The slot names its one holder and lets one subprocess of its UI write at a
\* time, for any set of requests and whatever a killed UI leaves behind.
THEOREM SlotIsOwned == SlotSpec => []SlotOwned
  BY HolderIsIdentified, WritersAreExclusive, PTL DEF SlotOwned

-----------------------------------------------------------------------------
(* The journal, unless its last write failed                               *)

\* Unless the last write failed, a running record is that of the handler inside
\* the slot, which has still to close it, and a closed record is that of a
\* handler that will launch nothing more.
Recorded ==
    /\ ~up => \A q \in Requests : pc[q] \in {"idle", "done"}
    /\ journal.state # "none" =>
         /\ journal.run \in Requests
         /\ Journaled(journal.run) /\ pc[journal.run] # "idle"
    /\ "journal" \notin behind =>
         /\ up /\ journal.state = "running" => pc[journal.run] \in {"phase", "step", "child", "finish"}
         /\ journal.state \in {"completed", "failed", "interrupted"} => pc[journal.run] \in {"release", "done"}

\* Every step keeps the journal in its handler's hands.
LEMMA RecordedStep == ASSUME IInv, Recorded, [SlotNext]_slotVars PROVE Recorded'
<1> USE SlotAssumption DEF IInv, SlotTyped, Paths, Exclusion, Identity, Recorded, Holding, Journaled,
         WriteJournal, Journals, Stops, RequestKinds
<1>1. ASSUME NEW q \in Requests, NEW k \in Offered[q], Arrive(q, k) PROVE Recorded'
  BY <1>1 DEF Arrive, FirstStop
<1>2. ASSUME NEW q \in Requests, Gate(q) PROVE Recorded'
  BY <1>2 DEF Gate
<1>3. ASSUME NEW q \in Requests, Reserve(q) PROVE Recorded'
  BY <1>3 DEF Reserve
<1>4. ASSUME NEW q \in Requests, Refuse(q) PROVE Recorded'
  BY <1>4 DEF Refuse
<1>5. ASSUME NEW q \in Requests, Release(q) PROVE Recorded'
  BY <1>5 DEF Release
<1>6. ASSUME NEW q \in Requests, StartJournal(q) PROVE Recorded'
  BY <1>6 DEF StartJournal
<1>7. ASSUME NEW q \in Requests, Phase(q) PROVE Recorded'
  BY <1>7 DEF Phase
<1>8. ASSUME NEW q \in Requests, FinishJournal(q) PROVE Recorded'
  BY <1>8 DEF FinishJournal
<1>9. ASSUME NEW q \in Requests, Launch(q) PROVE Recorded'
  BY <1>9 DEF Launch
<1>10. ASSUME NEW q \in Requests, NEW ok \in BOOLEAN, ChildExits(q, ok) PROVE Recorded'
  <2>1. CASE NextStep(q)
    BY <1>10, <2>1 DEF ChildExits, NextStep
  <2>2. CASE LastStep(q, ok)
    BY <1>10, <2>2 DEF ChildExits, LastStep
  <2> QED BY <1>10, <2>1, <2>2 DEF ChildExits
<1>11. ASSUME NEW q \in Requests, ExecutePanics(q) PROVE Recorded'
  BY <1>11 DEF ExecutePanics
<1>12. ASSUME NEW q \in Requests, AcceptRefused(q) PROVE Recorded'
  BY <1>12 DEF AcceptRefused
<1>13. ASSUME NEW q \in Requests, ViewSlot(q) PROVE Recorded'
  BY <1>13 DEF ViewSlot
<1>14. ASSUME NEW q \in Requests, ViewJournal(q) PROVE Recorded'
  BY <1>14 DEF ViewJournal
<1>15. ASSUME NEW q \in Requests, OrphanExits(q) PROVE Recorded'
  BY <1>15 DEF OrphanExits
<1>16. ASSUME Kill PROVE Recorded'
  BY <1>16 DEF Kill
<1>17. ASSUME Restart PROVE Recorded'
  <2>1. CASE journal.state = "running"
    <3>1. ~up /\ up' /\ UNCHANGED <<kind, pc>>
      BY <1>17 DEF Restart
    <3>2. CASE journal' = [journal EXCEPT !.state = "interrupted"]
      <4>1. journal'.state = "interrupted" /\ journal'.run = journal.run
        BY <3>2
      <4> QED BY <2>1, <3>1, <4>1
    <3>3. CASE UNCHANGED journal /\ "journal" \in behind'
      BY <2>1, <3>1, <3>3
    <3> QED BY <1>17, <2>1, <3>2, <3>3 DEF Restart
  <2>2. CASE journal.state # "running"
    BY <1>17, <2>2 DEF Restart
  <2> QED BY <2>1, <2>2
<1>18. CASE UNCHANGED slotVars
  BY <1>18 DEF slotVars
<1> QED
  BY <1>1, <1>2, <1>3, <1>4, <1>5, <1>6, <1>7, <1>8, <1>9, <1>10, <1>11, <1>12,
     <1>13, <1>14, <1>15, <1>16, <1>17, <1>18 DEF SlotNext, Handle

\* job.json agrees with the slot through every crash and restart, except from a
\* write of it that failed (writeJobJournal's error is ignored) to the next one.
THEOREM JournalAgrees == SlotSpec => []JournalMatchesSlot
<1>1. SlotInit => Recorded
  BY DEF SlotInit, NoJournal, Recorded
<1>2. IInv /\ Recorded /\ [SlotNext]_slotVars => Recorded'
  BY RecordedStep
<1>3. IInv /\ Recorded => JournalMatchesSlot
  BY SlotAssumption DEF IInv, Exclusion, Identity, Children, Recorded, JournalMatchesSlot, Holding, Journaled
<1> QED BY Inductive, <1>1, <1>2, <1>3, PTL DEF SlotSpec

\* A step that changes what a page presents is its second read, and a record
\* that it presents as running is that of the handler inside the slot.
LEMMA ShownStep ==
    ASSUME IInv, Recorded, [SlotNext]_slotVars, NEW q \in Requests,
           shown'[q] # shown[q], shown'[q].state = "running", "journal" \notin behind
    PROVE  Holding(shown'[q].run)
<1>1. ASSUME NEW r \in Requests, ViewJournal(r) PROVE Holding(shown'[q].run)
  <2>1. /\ pc[r] = "read" /\ journal \in Journals /\ shown \in [Requests -> Journals]
        /\ shown' = [shown EXCEPT ![r] = IF journal.state = "running" /\ ~seen[r]
                                         THEN [journal EXCEPT !.state = "interrupted"] ELSE journal]
    BY <1>1 DEF ViewJournal, IInv, SlotTyped
  <2>2. q = r
    BY <2>1
  <2>3. [journal EXCEPT !.state = "interrupted"].state = "interrupted"
    BY <2>1 DEF Journals
  <2>4. shown'[q] = journal
    BY <2>1, <2>2, <2>3
  <2>5. up
    BY <2>1 DEF Recorded
  <2>6. pc[journal.run] \in {"phase", "step", "child", "finish"}
    BY <2>4, <2>5 DEF Recorded
  <2> QED BY <2>4, <2>6 DEF Holding
<1>2. CASE UNCHANGED shown
  BY <1>2
<1>3. ASSUME NEW r \in Requests, Handle(r), ~ViewJournal(r) PROVE UNCHANGED shown
  <2>1. CASE \E ok \in BOOLEAN : ChildExits(r, ok)
    BY <2>1 DEF ChildExits
  <2> QED BY <1>3, <2>1 DEF Handle, Gate, Reserve, Refuse, Release, StartJournal, Phase, FinishJournal, Launch,
              ExecutePanics, AcceptRefused, ViewSlot
<1>4. ASSUME NEW r \in Requests, (\E k \in Offered[r] : Arrive(r, k)) \/ OrphanExits(r) PROVE UNCHANGED shown
  BY <1>4 DEF Arrive, OrphanExits
<1>5. Kill \/ Restart \/ UNCHANGED slotVars => UNCHANGED shown
  BY DEF Kill, Restart, slotVars
<1> QED BY <1>1, <1>2, <1>3, <1>4, <1>5 DEF SlotNext

\* Unless the journal's last write failed, a page never presents a record that a
\* dead UI left behind as the action that holds the slot: between the two reads
\* of a page the UI cannot have died.
THEOREM ViewsAreLive == SlotSpec => ViewRunningIsLive
<1>1. SlotInit => Recorded
  BY DEF SlotInit, NoJournal, Recorded
<1>2. IInv /\ Recorded /\ [SlotNext]_slotVars => Recorded'
  BY RecordedStep
<1>3. IInv /\ Recorded /\ [SlotNext]_slotVars =>
        [\A q \in Requests :
           shown'[q] # shown[q] /\ shown'[q].state = "running" /\ "journal" \notin behind
             => Holding(shown'[q].run)]_slotVars
  BY ShownStep
<1> QED BY Inductive, <1>1, <1>2, <1>3, PTL DEF SlotSpec, ViewRunningIsLive

-----------------------------------------------------------------------------
(* The apply gate of the orchestrator                                      *)

\* From the re-check of the gate to the end of the write phase the checklist
\* does not block unless an orphan rewrote it: whoever else could would have to
\* hold the slot.
PhaseGated ==
    \A q \in Requests :
        kind[q] = "migrate" /\ pc[q] \in {"step", "child"} /\ WritePhase(step[q])
          => ~ApplyBlocked \/ "checklist" \in behind

\* Every step keeps the gate open under a write phase: only slot holders and
\* orphans write the checklist.
LEMMA PhaseGatedStep == ASSUME IInv, PhaseGated, [SlotNext]_slotVars PROVE PhaseGated'
<1> USE SlotAssumption DEF IInv, SlotTyped, Paths, Exclusion, Children, PhaseGated, Holding, Journaled,
         ApplyBlocked, WritePhase, RequestKinds, Stops
<1>1. ASSUME NEW q \in Requests, NEW k \in Offered[q], Arrive(q, k) PROVE PhaseGated'
  BY <1>1 DEF Arrive, FirstStop
<1>2. ASSUME NEW q \in Requests, Gate(q) PROVE PhaseGated'
  BY <1>2 DEF Gate
<1>3. ASSUME NEW q \in Requests, Reserve(q) PROVE PhaseGated'
  BY <1>3 DEF Reserve
<1>4. ASSUME NEW q \in Requests, Refuse(q) PROVE PhaseGated'
  BY <1>4 DEF Refuse
<1>5. ASSUME NEW q \in Requests, Release(q) PROVE PhaseGated'
  BY <1>5 DEF Release
<1>6. ASSUME NEW q \in Requests, StartJournal(q) PROVE PhaseGated'
  BY <1>6 DEF StartJournal
<1>7. ASSUME NEW q \in Requests, Phase(q) PROVE PhaseGated'
  BY <1>7 DEF Phase
<1>8. ASSUME NEW q \in Requests, FinishJournal(q) PROVE PhaseGated'
  BY <1>8 DEF FinishJournal
<1>9. ASSUME NEW q \in Requests, Launch(q) PROVE PhaseGated'
  BY <1>9 DEF Launch
<1>10. ASSUME NEW q \in Requests, NEW ok \in BOOLEAN, ChildExits(q, ok) PROVE PhaseGated'
  <2>1. \A r \in Requests : r # q => pc[r] \notin {"step", "child"}
    BY <1>10 DEF ChildExits
  <2>2. CASE NextStep(q)
    BY <1>10, <2>1, <2>2 DEF ChildExits, NextStep
  <2>3. CASE LastStep(q, ok)
    BY <1>10, <2>1, <2>3 DEF ChildExits, LastStep
  <2> QED BY <1>10, <2>2, <2>3 DEF ChildExits
<1>11. ASSUME NEW q \in Requests, ExecutePanics(q) PROVE PhaseGated'
  BY <1>11 DEF ExecutePanics
<1>12. ASSUME NEW q \in Requests, AcceptRefused(q) PROVE PhaseGated'
  BY <1>12 DEF AcceptRefused
<1>13. ASSUME NEW q \in Requests, ViewSlot(q) PROVE PhaseGated'
  BY <1>13 DEF ViewSlot
<1>14. ASSUME NEW q \in Requests, ViewJournal(q) PROVE PhaseGated'
  BY <1>14 DEF ViewJournal
<1>15. ASSUME NEW q \in Requests, OrphanExits(q) PROVE PhaseGated'
  BY <1>15 DEF OrphanExits
<1>16. ASSUME Kill PROVE PhaseGated'
  BY <1>16 DEF Kill
<1>17. ASSUME Restart PROVE PhaseGated'
  BY <1>17 DEF Restart, WriteJournal
<1>18. CASE UNCHANGED slotVars
  BY <1>18 DEF slotVars
<1> QED
  BY <1>1, <1>2, <1>3, <1>4, <1>5, <1>6, <1>7, <1>8, <1>9, <1>10, <1>11, <1>12,
     <1>13, <1>14, <1>15, <1>16, <1>17, <1>18 DEF SlotNext, Handle

\* No write phase of the orchestrator ever runs under a checklist that blocks,
\* unless the subprocess of a killed UI has rewritten it since the gate was read.
THEOREM PhasesAreGated == SlotSpec => []OrchestratorGated
<1>1. SlotInit => PhaseGated
  BY DEF SlotInit, PhaseGated
<1>2. IInv /\ PhaseGated /\ [SlotNext]_slotVars => PhaseGated'
  BY PhaseGatedStep
<1>3. IInv /\ PhaseGated => OrchestratorGated
  BY DEF IInv, SlotTyped, Children, PhaseGated, OrchestratorGated
<1> QED BY Inductive, <1>1, <1>2, <1>3, PTL DEF SlotSpec
=============================================================================
