----------------------------- MODULE WebuiProofs -----------------------------
(***************************************************************************)
(* Theorems about two parts of internal/webui: the sessions of the         *)
(* workbench (module Workbench), for any requests, areas, scopes and first *)
(* status, and host.yaml with the saves that write it (module HostConfig), *)
(* for any saves and passwords.                                            *)
(***************************************************************************)
EXTENDS Workbench, HostConfig, TLAPS

-----------------------------------------------------------------------------
(* Type correctness                                                        *)

\* A status change of a session is a session, and it is one event longer.
LEMMA WithStatusType ==
    ASSUME NEW s \in Sessions, NEW to \in AllStatuses,
           NEW act \in {"status_change", "forced_status_change", "exec", "auto",
                        "attach_artifact", "scope_confirmed"}
    PROVE  /\ WithStatus(s, act, to) \in Sessions
           /\ WithStatus(s, act, to).status = to
           /\ WithStatus(s, act, to).timeline
                = Append(s.timeline, [action |-> act, from |-> s.status, to |-> to])
<1>1. [action |-> act, from |-> s.status, to |-> to] \in Events
  BY DEF Events, Sessions
<1>2. Append(s.timeline, [action |-> act, from |-> s.status, to |-> to]) \in Seq(Events)
  BY <1>1 DEF Sessions
<1> QED
  BY <1>2 DEF WithStatus, Sessions

\* The two ways in which a store operation ends keep the types.
LEMMA StoreTypes ==
    ASSUME TypeOK, NEW r \in Requests, NEW new \in Sessions, NEW next \in Stops, NEW failed \in Stops,
           WriteSession(r, new, next, failed) \/ Abort(r, failed)
    PROVE  /\ session' \in Sessions
           /\ commits' \in Nat
           /\ lock' \in Requests \cup {Free}
           /\ copy' \in [Requests -> Sessions]
           /\ pc' \in [Requests -> Stops]
  BY DEF TypeOK, WriteSession, Commit, Abort

\* Every step keeps the types.
LEMMA TypeStep == ASSUME TypeOK, [Next]_vars PROVE TypeOK'
<1> USE WorkbenchAssumption
<1>1. ASSUME NEW r \in Requests, Arrive(r) PROVE TypeOK'
  <2>1. FirstStop(call[r].kind) \in Stops
    BY DEF TypeOK, Calls, FirstStop, Stops, StoreOps
  <2> QED BY <1>1, <2>1 DEF TypeOK, Arrive, store, world
<1>2. ASSUME NEW r \in Requests, Lock(r) PROVE TypeOK'
  BY <1>2 DEF TypeOK, Lock, world
<1>3. ASSUME NEW r \in Requests, CommitSet(r) PROVE TypeOK'
  <2>1. copy[r] \in Sessions /\ call[r].to \in AllStatuses
    BY DEF TypeOK, Calls
  <2> DEFINE new == WithStatus(copy[r], IF call[r].force THEN "forced_status_change"
                                                         ELSE "status_change", call[r].to)
  <2>2. new \in Sessions
    BY <2>1, WithStatusType
  <2>3. WriteSession(r, new, "done", "done") \/ Abort(r, "done")
    BY <1>3 DEF CommitSet
  <2> HIDE DEF new
  <2>4. /\ session' \in Sessions /\ commits' \in Nat /\ lock' \in Requests \cup {Free}
        /\ copy' \in [Requests -> Sessions] /\ pc' \in [Requests -> Stops]
    BY <2>2, <2>3, StoreTypes DEF Stops
  <2> QED BY <1>3, <2>4 DEF TypeOK, CommitSet, world
<1>4. ASSUME NEW r \in Requests, CommitAttach(r) PROVE TypeOK'
  <2>1. copy[r] \in Sessions /\ copy[r].status \in AllStatuses
    BY DEF TypeOK, Sessions
  <2> DEFINE new == WithEvent(copy[r], "attach_artifact")
  <2>2. new \in Sessions
    BY <2>1, WithStatusType DEF WithEvent
  <2>3. AfterAttach(r) \in Stops
    BY DEF AfterAttach, Stops
  <2>4. WriteSession(r, new, AfterAttach(r), AfterAttach(r))
    BY <1>4 DEF CommitAttach, WriteSession
  <2> HIDE DEF new
  <2>5. /\ session' \in Sessions /\ commits' \in Nat /\ lock' \in Requests \cup {Free}
        /\ copy' \in [Requests -> Sessions] /\ pc' \in [Requests -> Stops]
    BY <2>2, <2>3, <2>4, StoreTypes
  <2>6. ok' \in [Requests -> BOOLEAN]
    BY <1>4 DEF TypeOK, CommitAttach
  <2> QED BY <1>4, <2>5, <2>6 DEF TypeOK, CommitAttach, world
<1>5. ASSUME NEW r \in Requests, CommitScope(r) PROVE TypeOK'
  <2>1. copy[r] \in Sessions /\ copy[r].status \in AllStatuses /\ call[r].scope \in Scopes
    BY DEF TypeOK, Sessions, Calls
  <2>2. WithEvent(copy[r], "scope_confirmed") \in Sessions
    BY <2>1, WithStatusType DEF WithEvent
  <2> DEFINE new == WithScope(copy[r], call[r].scope)
  <2>3. new \in Sessions
    BY <2>1, <2>2 DEF Sessions, WithScope
  <2>4. WriteSession(r, new, "done", "done")
    BY <1>5 DEF CommitScope
  <2> HIDE DEF new
  <2>5. /\ session' \in Sessions /\ commits' \in Nat /\ lock' \in Requests \cup {Free}
        /\ copy' \in [Requests -> Sessions] /\ pc' \in [Requests -> Stops]
    BY <2>3, <2>4, StoreTypes DEF Stops
  <2> QED BY <1>5, <2>5 DEF TypeOK, CommitScope, world
<1>6. ASSUME NEW r \in Requests, CommitRecord(r) PROVE TypeOK'
  <2> DEFINE new == WithStatus(copy[r], "exec", seen[r])
             next == IF call[r].kind = "verify" /\ ok[r] THEN "autoGet" ELSE "close"
  <2>1. new \in Sessions
    BY WithStatusType DEF TypeOK
  <2>2. next \in Stops /\ "close" \in Stops
    BY DEF Stops
  <2>3. WriteSession(r, new, next, "close")
    BY <1>6 DEF CommitRecord
  <2> HIDE DEF new, next
  <2>4. /\ session' \in Sessions /\ commits' \in Nat /\ lock' \in Requests \cup {Free}
        /\ copy' \in [Requests -> Sessions] /\ pc' \in [Requests -> Stops]
    BY <2>1, <2>2, <2>3, StoreTypes
  <2> QED BY <1>6, <2>4 DEF TypeOK, CommitRecord, world
<1>7. ASSUME NEW r \in Requests, CommitAuto(r) PROVE TypeOK'
  <2> DEFINE new == WithStatus(copy[r], "auto", "ready_for_cutover")
  <2>0. "ready_for_cutover" \in AllStatuses
    BY DEF AllStatuses
  <2>1. new \in Sessions
    BY <2>0, WithStatusType DEF TypeOK
  <2>2. WriteSession(r, new, "close", "close") \/ Abort(r, "close")
    BY <1>7 DEF CommitAuto
  <2> HIDE DEF new
  <2>3. /\ session' \in Sessions /\ commits' \in Nat /\ lock' \in Requests \cup {Free}
        /\ copy' \in [Requests -> Sessions] /\ pc' \in [Requests -> Stops]
    BY <2>1, <2>2, StoreTypes DEF Stops
  <2> QED BY <1>7, <2>3 DEF TypeOK, CommitAuto, world
<1>8. ASSUME NEW r \in Requests, Crash(r) PROVE TypeOK'
  BY <1>8 DEF TypeOK, Crash, Abort, Stops, world
<1>9. ASSUME NEW r \in Requests, Facts(r) \/ Live(r) \/ Plan(r) PROVE TypeOK'
  <2>1. pc' \in [Requests -> Stops]
    BY <1>9 DEF TypeOK, Facts, Live, Plan, Stops, StoreOps
  <2>2. session.scope \in SUBSET Areas
    BY DEF TypeOK, Sessions
  <2>3. todo' \in [Requests -> SUBSET Areas]
    BY <1>9, <2>2 DEF TypeOK, Facts, Live, Plan
  <2> QED BY <1>9, <2>1, <2>3 DEF TypeOK, Facts, Live, Plan, store, world
<1>10. ASSUME NEW r \in Requests, Reserve(r) \/ StartJournal(r) \/ Close(r) \/ Release(r)
       PROVE TypeOK'
  <2>1. pc' \in [Requests -> Stops]
    BY <1>10 DEF TypeOK, Reserve, StartJournal, Close, Release, Stops
  <2>2. slot' \in Requests \cup {Free} /\ journaled' \in BOOLEAN
    BY <1>10 DEF TypeOK, Reserve, StartJournal, Close, Release
  <2> QED BY <1>10, <2>1, <2>2 DEF TypeOK, Reserve, StartJournal, Close, Release, store
<1>11. ASSUME NEW r \in Requests, NEW good \in BOOLEAN, RunApply(r, good) PROVE TypeOK'
  <2>1. call[r].area \in Areas
    BY DEF TypeOK, Calls
  <2>2. pc' \in [Requests -> Stops]
    BY <1>11 DEF TypeOK, RunApply, Stops, StoreOps
  <2>3. ok' \in [Requests -> BOOLEAN]
    BY <1>11 DEF TypeOK, RunApply
  <2>4. applied' \subseteq Areas
    BY <1>11, <2>1 DEF TypeOK, RunApply
  <2> QED BY <1>11, <2>2, <2>3, <2>4 DEF TypeOK, RunApply, store
<1>12. ASSUME NEW r \in Requests, NEW good \in BOOLEAN, NEW rep \in {"clean", "dirty"},
              RunVerify(r, good, rep)
       PROVE TypeOK'
  <2>1. call[r].area \in Areas
    BY DEF TypeOK, Calls
  <2>2. pc' \in [Requests -> Stops]
    BY <1>12 DEF TypeOK, RunVerify, Stops, StoreOps
  <2>3. ok' \in [Requests -> BOOLEAN]
    BY <1>12 DEF TypeOK, RunVerify
  <2>4. verified' \in [Areas -> {"absent", "clean", "dirty"}]
    BY <1>12, <2>1 DEF TypeOK, RunVerify
  <2> QED BY <1>12, <2>2, <2>3, <2>4 DEF TypeOK, RunVerify, store
<1>13. ASSUME NEW r \in Requests, NEW a \in Areas, NEW end \in {"clean", "dirty", "failed"},
              RunPhase(r, a, end)
       PROVE TypeOK'
  <2>1. pc' \in [Requests -> Stops]
    BY <1>13 DEF TypeOK, RunPhase, Stops, StoreOps
  <2>2. applied' \subseteq Areas
    BY <1>13 DEF TypeOK, RunPhase
  <2>3. verified' \in [Areas -> {"absent", "clean", "dirty"}]
    BY <1>13 DEF TypeOK, RunPhase
  <2>4. todo' \in [Requests -> SUBSET Areas]
    BY <1>13 DEF TypeOK, RunPhase
  <2> QED BY <1>13, <2>1, <2>2, <2>3, <2>4 DEF TypeOK, RunPhase, store
<1>14. ASSUME NEW r \in Requests, GetStatus(r) \/ AutoGet(r) \/ AutoReports(r) PROVE TypeOK'
  <2>1. pc' \in [Requests -> Stops]
    BY <1>14 DEF TypeOK, GetStatus, AutoGet, AutoReports, Stops, StoreOps
  <2>2. seen' \in [Requests -> AllStatuses]
    BY <1>14 DEF TypeOK, GetStatus, AutoGet, AutoReports, Sessions
  <2> QED BY <1>14, <2>1, <2>2 DEF TypeOK, GetStatus, AutoGet, AutoReports, store, world
<1>15. CASE UNCHANGED vars
  BY <1>15 DEF TypeOK, vars
<1> QED
  BY <1>1, <1>2, <1>3, <1>4, <1>5, <1>6, <1>7, <1>8, <1>9, <1>10, <1>11, <1>12, <1>13,
     <1>14, <1>15 DEF Next, Handle

\* A behaviour starts with values of the right kinds.
LEMMA TypeStart == ASSUME Init PROVE TypeOK
<1> USE WorkbenchAssumption
<1>1. session \in Sessions
  <2>1. <<>> \in Seq(Events)
    OBVIOUS
  <2> QED BY <2>1 DEF Init, Sessions
<1>2. copy \in [Requests -> Sessions]
  BY <1>1 DEF Init
<1>3. call \in [Requests -> Calls]
  BY DEF Init
<1>4. pc \in [Requests -> Stops] /\ seen \in [Requests -> AllStatuses]
  BY DEF Init, Stops
<1>5. ok \in [Requests -> BOOLEAN] /\ todo \in [Requests -> SUBSET Areas]
  BY DEF Init
<1>6. verified \in [Areas -> {"absent", "clean", "dirty"}]
  BY DEF Init
<1> QED
  BY <1>1, <1>2, <1>3, <1>4, <1>5, <1>6 DEF Init, TypeOK

\* The model of the session store is well typed in every behaviour.
THEOREM SessionTypeCorrect == Spec => []TypeOK
  BY TypeStart, TypeStep, PTL DEF Spec

-----------------------------------------------------------------------------
(* The audit trail                                                         *)

\* The session a lock holder has read is the one on disk: nobody else writes
\* while it holds the lock.
LockedCopy == \A r \in Requests : lock = r => copy[r] = session

\* The step writes one event, which starts where the session is and ends where
\* it goes; an unforced one follows the matrix.
Extended(e) ==
    /\ session'.timeline = Append(session.timeline, e)
    /\ commits' = commits + 1
    /\ e.from = session.status
    /\ e.to = session'.status
    /\ e.action \in {"status_change", "auto"} => CanTransition(e.from, e.to)
    /\ e.action = "auto" => e.to = "ready_for_cutover"

\* A write that appends an event which starts where the session is and ends
\* where it goes extends the chain.
LEMMA Extension ==
    ASSUME TypeOK, AuditTrail, NEW e \in Events, Extended(e)
    PROVE  AuditTrail'
<1> USE DEF Extended
<1> DEFINE t == session.timeline
           n == Len(t)
           u == session'.timeline
           before(i) == IF i = 1 THEN StartStatus ELSE t[i - 1].to
           after(i) == IF i = 1 THEN StartStatus ELSE u[i - 1].to
<1>1. t \in Seq(Events) /\ n \in Nat
  BY DEF TypeOK, Sessions
<1>2. /\ Len(u) = n + 1
      /\ \A i \in 1 .. n : u[i] = t[i]
      /\ u[n + 1] = e
  BY <1>1
<1>3. /\ n = commits
      /\ \A i \in 1 .. n : /\ t[i].from = before(i)
                           /\ t[i].action \in {"status_change", "auto"}
                                => CanTransition(t[i].from, t[i].to)
      /\ session.status = before(n + 1)
  BY DEF AuditTrail
<1> HIDE DEF t, u, n
<1>4. \A i \in 1 .. n + 1 : after(i) = before(i)
  BY <1>1, <1>2
<1>5. after(n + 2) = session'.status
  BY <1>1, <1>2
<1>6. \A i \in 1 .. n + 1 : /\ u[i].from = after(i)
                            /\ u[i].action \in {"status_change", "auto"}
                                 => CanTransition(u[i].from, u[i].to)
  <2> TAKE i \in 1 .. n + 1
  <2>1. CASE i \in 1 .. n
    BY <2>1, <1>1, <1>2, <1>3, <1>4, ZenonT(30)
  <2>2. CASE i = n + 1
    BY <2>2, <1>1, <1>2, <1>3, <1>4
  <2> QED BY <2>1, <2>2, <1>1
<1>7. /\ Len(u) = commits'
      /\ \A i \in 1 .. Len(u) : /\ u[i].from = after(i)
                                /\ u[i].action \in {"status_change", "auto"}
                                     => CanTransition(u[i].from, u[i].to)
      /\ session'.status = after(Len(u) + 1)
  BY <1>1, <1>2, <1>3, <1>5, <1>6
<1> QED
  BY <1>7 DEF AuditTrail, t, u, n, CanTransition, AllowedTransitions, ActiveStatuses

\* A status change written by a lock holder is such an event.
LEMMA StatusExtends ==
    ASSUME TypeOK, LockedCopy, NEW r \in Requests, lock = r,
           NEW to \in AllStatuses, NEW next,
           NEW act \in {"status_change", "forced_status_change", "exec", "auto",
                        "attach_artifact", "scope_confirmed"},
           act \in {"status_change", "auto"} => CanTransition(copy[r].status, to),
           act = "auto" => to = "ready_for_cutover",
           Commit(r, WithStatus(copy[r], act, to), next)
    PROVE  \E e \in Events : Extended(e)
<1>1. copy[r] = session /\ session \in Sessions
  BY DEF LockedCopy, TypeOK
<1> DEFINE e == [action |-> act, from |-> session.status, to |-> to]
<1>2. e \in Events
  BY <1>1 DEF Events, Sessions
<1>3. session' = WithStatus(session, act, to) /\ commits' = commits + 1
  BY <1>1 DEF Commit
<1>4. session'.status = to /\ session'.timeline = Append(session.timeline, e)
  BY <1>1, <1>3, WithStatusType
<1>5. e.from = session.status /\ e.to = to /\ e.action = act
  OBVIOUS
<1> HIDE DEF e
<1> QED
  BY <1>1, <1>2, <1>3, <1>4, <1>5 DEF Extended

\* Every step writes one such event or leaves session.json as it is.
LEMMA WriteStep ==
    ASSUME TypeOK, LockedCopy, [Next]_vars
    PROVE  UNCHANGED <<session, commits>> \/ \E e \in Events : Extended(e)
<1> DEFINE Kept == UNCHANGED <<session, commits>>
           Grown == \E e \in Events : Extended(e)
<1>1. ASSUME NEW r \in Requests, CommitSet(r) PROVE Kept \/ Grown
  <2> DEFINE act == IF call[r].force THEN "forced_status_change" ELSE "status_change"
  <2>1. lock = r /\ call[r].to \in AllStatuses
    BY <1>1 DEF CommitSet, Holds, TypeOK, Calls
  <2>2. \/ Abort(r, "done")
        \/ /\ Commit(r, WithStatus(copy[r], act, call[r].to), "done")
           /\ act = "status_change" => CanTransition(copy[r].status, call[r].to)
    BY <1>1 DEF CommitSet, WriteSession
  <2>3. CASE Abort(r, "done")
    BY <2>3 DEF Abort
  <2> QED BY <2>1, <2>2, <2>3, StatusExtends
<1>2. ASSUME NEW r \in Requests, CommitAttach(r) PROVE Kept \/ Grown
  <2>1. lock = r /\ copy[r].status \in AllStatuses
    BY <1>2 DEF CommitAttach, Holds, TypeOK, Sessions
  <2>2. \/ Abort(r, AfterAttach(r))
        \/ Commit(r, WithStatus(copy[r], "attach_artifact", copy[r].status), AfterAttach(r))
    BY <1>2 DEF CommitAttach, WithEvent
  <2>3. CASE Abort(r, AfterAttach(r))
    BY <2>3 DEF Abort
  <2> QED BY <2>1, <2>2, <2>3, StatusExtends
<1>3. ASSUME NEW r \in Requests, CommitScope(r) PROVE Kept \/ Grown
  <2>1. lock = r /\ copy[r] = session /\ session \in Sessions
    BY <1>3 DEF CommitScope, Holds, LockedCopy, TypeOK
  <2>2. CASE Abort(r, "done")
    BY <2>2 DEF Abort
  <2>3. CASE Commit(r, WithScope(copy[r], call[r].scope), "done")
    <3> DEFINE e == [action |-> "scope_confirmed", from |-> session.status, to |-> session.status]
    <3>1. session' = WithScope(session, call[r].scope) /\ commits' = commits + 1
      BY <2>1, <2>3 DEF Commit
    <3>2. session'.status = session.status /\ session'.timeline = Append(session.timeline, e)
      BY <2>1, <3>1 DEF WithScope, WithEvent, WithStatus
    <3>3. e \in Events /\ e.from = session.status /\ e.to = session.status
          /\ e.action = "scope_confirmed"
      BY <2>1 DEF Events, Sessions
    <3> HIDE DEF e
    <3> QED BY <3>1, <3>2, <3>3 DEF Extended
  <2> QED BY <1>3, <2>2, <2>3 DEF CommitScope, WriteSession
<1>4. ASSUME NEW r \in Requests, CommitRecord(r) PROVE Kept \/ Grown
  <2> DEFINE next == IF call[r].kind = "verify" /\ ok[r] THEN "autoGet" ELSE "close"
  <2>1. lock = r /\ seen[r] \in AllStatuses
    BY <1>4 DEF CommitRecord, Holds, TypeOK
  <2>2. Abort(r, "close") \/ Commit(r, WithStatus(copy[r], "exec", seen[r]), next)
    BY <1>4 DEF CommitRecord, WriteSession
  <2>3. CASE Abort(r, "close")
    BY <2>3 DEF Abort
  <2> QED BY <2>1, <2>2, <2>3, StatusExtends
<1>5. ASSUME NEW r \in Requests, CommitAuto(r) PROVE Kept \/ Grown
  <2>1. lock = r /\ "ready_for_cutover" \in AllStatuses
    BY <1>5 DEF CommitAuto, Holds, AllStatuses
  <2>2. \/ Abort(r, "close")
        \/ /\ Commit(r, WithStatus(copy[r], "auto", "ready_for_cutover"), "close")
           /\ CanTransition(copy[r].status, "ready_for_cutover")
    BY <1>5 DEF CommitAuto, WriteSession
  <2>3. CASE Abort(r, "close")
    BY <2>3 DEF Abort
  <2> QED BY <2>1, <2>2, <2>3, StatusExtends
<1>6. CASE UNCHANGED <<session, commits>>
  BY <1>6
<1>7. ASSUME NEW r \in Requests, Handle(r) \/ Crash(r) PROVE Kept \/ Grown
  <2>1. \/ CommitSet(r) \/ CommitAttach(r) \/ CommitScope(r) \/ CommitRecord(r) \/ CommitAuto(r)
        \/ UNCHANGED <<session, commits>>
    BY <1>7 DEF Handle, Crash, Abort, Arrive, Lock, Facts, Live, Plan, Reserve, StartJournal,
                RunApply, RunVerify, RunPhase, GetStatus, AutoGet, AutoReports, Close, Release, store
  <2> QED BY <2>1, <1>1, <1>2, <1>3, <1>4, <1>5, <1>6
<1> QED
  BY <1>6, <1>7 DEF Next, vars

\* A lock holder's copy stays true: the only writer is the holder, and it lets
\* the lock go as it writes.
LEMMA CopyStep == ASSUME TypeOK, LockedCopy, [Next]_vars PROVE LockedCopy'
<1> USE WorkbenchAssumption DEF LockedCopy
<1>1. ASSUME NEW r \in Requests, Lock(r) PROVE LockedCopy'
  BY <1>1 DEF TypeOK, Lock
<1>2. ASSUME lock' = Free PROVE LockedCopy'
  BY <1>2
<1>3. CASE UNCHANGED <<session, lock, copy>>
  BY <1>3
<1>4. ASSUME NEW r \in Requests, Handle(r) \/ Crash(r) PROVE LockedCopy'
  <2>1. Lock(r) \/ lock' = Free \/ UNCHANGED <<session, lock, copy>>
    BY <1>4 DEF Handle, Crash, CommitSet, CommitAttach, CommitScope, CommitRecord, CommitAuto,
                WriteSession, Commit, Abort, Arrive, Facts, Live, Plan, Reserve, StartJournal,
                RunApply, RunVerify, RunPhase, GetStatus, AutoGet, AutoReports, Close, Release, store
  <2> QED BY <2>1, <1>1, <1>2, <1>3
<1> QED
  BY <1>3, <1>4 DEF Next, vars

\* A step that writes nothing keeps the trail, and one that writes extends it.
LEMMA TrailStep == ASSUME TypeOK, LockedCopy, AuditTrail, [Next]_vars PROVE AuditTrail'
<1>1. CASE UNCHANGED <<session, commits>>
  BY <1>1 DEF AuditTrail, CanTransition, AllowedTransitions, ActiveStatuses
<1>2. CASE \E e \in Events : Extended(e)
  BY <1>2, Extension
<1> QED
  BY <1>1, <1>2, WriteStep

\* The timeline is a complete audit trail whatever UI requests and CLI
\* invocations interleave, fail or die: nothing is lost and nothing unforced
\* leaves the transition matrix (Store.SetStatus, ConfirmScope, AttachArtifact).
THEOREM TrailIsComplete == Spec => []AuditTrail
<1>1. Init => LockedCopy /\ AuditTrail
  BY WorkbenchAssumption DEF Init, LockedCopy, AuditTrail
<1> QED
  BY <1>1, TypeStart, TypeStep, TrailStep, CopyStep, PTL DEF Spec

\* The matrix has one way into ready_for_cutover.
LEMMA CutoverEdge ==
    ASSUME NEW from \in AllStatuses, CanTransition(from, "ready_for_cutover")
    PROVE  from = "verification_required"
  BY DEF CanTransition, AllowedTransitions

\* The event that a step appends is never an automatic one from elsewhere.
LEMMA AutoStep ==
    ASSUME TypeOK, LockedCopy, AutoFromVerification, [Next]_vars
    PROVE  AutoFromVerification'
<1>1. CASE UNCHANGED <<session, commits>>
  BY <1>1 DEF AutoFromVerification
<1>2. CASE \E e \in Events : Extended(e)
  <2>1. PICK e \in Events : Extended(e)
    BY <1>2
  <2>2. e.action = "auto" => e.from = "verification_required"
    BY <2>1, CutoverEdge DEF Extended, Events
  <2>3. session.timeline \in Seq(Events) /\ session'.timeline = Append(session.timeline, e)
    BY <2>1 DEF Extended, TypeOK, Sessions
  <2> QED BY <2>2, <2>3 DEF AutoFromVerification
<1> QED
  BY <1>1, <1>2, WriteStep

\* The automatic transition starts from verification_required only, although
\* tryAutoTransitionReadyForCutover looked at the status before it had the lock.
THEOREM CutoverIsVerified == Spec => []AutoFromVerification
<1>1. Init => LockedCopy /\ AutoFromVerification
  BY WorkbenchAssumption DEF Init, LockedCopy, AutoFromVerification
<1> QED
  BY <1>1, TypeStart, TypeStep, CopyStep, AutoStep, PTL DEF Spec

-----------------------------------------------------------------------------
(* The verify reports                                                      *)

\* Between its reservation and its release a handler holds the slot.
Slotted(r) ==
    \/ pc[r] \in {"journal", "run", "get", "record", "autoGet", "reports", "auto", "close", "release"}
    \/ pc[r] = "attach" /\ call[r].kind # "attach"

\* Whoever is inside has the slot.
SlotHeld == \A r \in Requests : Slotted(r) => slot = r

\* Every step keeps the slot with its holder and the reports as it read them.
LEMMA SlotStep ==
    ASSUME TypeOK, SlotHeld, CutoverJustified, [Next]_vars
    PROVE  SlotHeld' /\ CutoverJustified'
<1> USE WorkbenchAssumption DEF SlotHeld, Slotted, CutoverJustified
<1>1. ASSUME NEW r \in Requests, Arrive(r) PROVE SlotHeld' /\ CutoverJustified'
  BY <1>1 DEF TypeOK, Arrive, FirstStop, store, world
<1>2. ASSUME NEW r \in Requests, Lock(r) PROVE SlotHeld' /\ CutoverJustified'
  BY <1>2 DEF TypeOK, Lock, world
<1>3. ASSUME NEW r \in Requests,
             CommitSet(r) \/ CommitScope(r) \/ CommitRecord(r) \/ CommitAuto(r) \/ Crash(r)
      PROVE SlotHeld' /\ CutoverJustified'
  <2>1. \/ pc' = [pc EXCEPT ![r] = "done"]
        \/ Slotted(r) /\ pc' \in {[pc EXCEPT ![r] = "close"], [pc EXCEPT ![r] = "autoGet"]}
    BY <1>3 DEF TypeOK, CommitSet, CommitScope, CommitRecord, CommitAuto, Crash, Holds,
                WriteSession, Commit, Abort
  <2>2. UNCHANGED <<slot, verified, call>>
    BY <1>3 DEF CommitSet, CommitScope, CommitRecord, CommitAuto, Crash, world
  <2> QED BY <2>1, <2>2 DEF TypeOK
<1>4. ASSUME NEW r \in Requests, CommitAttach(r) PROVE SlotHeld' /\ CutoverJustified'
  BY <1>4 DEF TypeOK, CommitAttach, AfterAttach, Holds, Commit, Abort, world
<1>5. ASSUME NEW r \in Requests, Facts(r) \/ Live(r) \/ Plan(r)
      PROVE SlotHeld' /\ CutoverJustified'
  BY <1>5 DEF TypeOK, Facts, Live, Plan, world
<1>6. ASSUME NEW r \in Requests, Reserve(r) \/ StartJournal(r) \/ Close(r) \/ Release(r)
      PROVE SlotHeld' /\ CutoverJustified'
  BY <1>6 DEF TypeOK, Reserve, StartJournal, Close, Release
<1>7. ASSUME NEW r \in Requests, NEW good \in BOOLEAN, RunApply(r, good)
      PROVE SlotHeld' /\ CutoverJustified'
  BY <1>7 DEF TypeOK, Calls, RunApply
<1>8. ASSUME NEW r \in Requests, NEW good \in BOOLEAN, NEW rep \in {"clean", "dirty"},
             RunVerify(r, good, rep)
      PROVE SlotHeld' /\ CutoverJustified'
  BY <1>8 DEF TypeOK, Calls, RunVerify
<1>9. ASSUME NEW r \in Requests, NEW a \in Areas, NEW end \in {"clean", "dirty", "failed"},
             RunPhase(r, a, end)
      PROVE SlotHeld' /\ CutoverJustified'
  BY <1>9 DEF TypeOK, Calls, RunPhase
<1>10. ASSUME NEW r \in Requests, GetStatus(r) \/ AutoGet(r) \/ AutoReports(r)
       PROVE SlotHeld' /\ CutoverJustified'
  BY <1>10 DEF TypeOK, GetStatus, AutoGet, AutoReports, world
<1>11. CASE UNCHANGED vars
  BY <1>11 DEF vars
<1> QED
  BY <1>1, <1>2, <1>3, <1>4, <1>5, <1>6, <1>7, <1>8, <1>9, <1>10, <1>11 DEF Next, Handle

\* No report changes between the check that all are clean and the transition to
\* ready_for_cutover that rests on it: only holders of the slot write reports.
THEOREM CutoverIsJustified == Spec => []CutoverJustified
<1>1. Init => SlotHeld /\ CutoverJustified
  BY DEF Init, SlotHeld, Slotted, CutoverJustified
<1> QED
  BY <1>1, TypeStart, TypeStep, SlotStep, PTL DEF Spec

\* The automatic transition is justified by the status it starts from and by
\* the reports, for any requests, areas and scopes.
THEOREM CutoverIsSound == Spec => []CutoverSound
  BY CutoverIsVerified, CutoverIsJustified, PTL DEF CutoverSound

-----------------------------------------------------------------------------
(* host.yaml and its saves                                                 *)

\* A save at work is one of the running UI, and a candidate about to be renamed
\* has been judged.
Judged ==
    \A s \in Saves :
        /\ saving[s] \in {"write", "validate", "rename"} => up
        /\ saving[s] \in {"validate", "rename"} => tmp[s] # Blank
        /\ saving[s] = "rename" => ValidHost(tmp[s].src) /\ ValidHost(tmp[s].dest)

\* As long as nothing overlapped, the save at work is alone, has read the
\* present file, and its candidate is made from it.
Alone ==
    ~overlap => \A s \in Saves : saving[s] \in {"write", "validate", "rename"} =>
        /\ \A r \in Saves : saving[r] \in {"write", "validate", "rename"} => r = s
        /\ loaded[s] = host
        /\ saving[s] \in {"validate", "rename"} => tmp[s] = Candidate(s)

\* Without a file nobody has set a password.
NoFileNoPassword == host = Blank => \A e \in Ends : typed[e] = Blank

ConfigInv == ConfigSound /\ Judged /\ Alone /\ NoFileNoPassword

USE DEF TmpName

\* The host of a form is a host.
LEMMA ParseType ==
    ASSUME NEW f \in [endpoint : BOOLEAN, pass : Passwords \cup {Blank}],
           NEW prev \in Passwords \cup {Blank}
    PROVE  /\ ParseHost(f, prev) \in Hosts
           /\ ParseHost(f, prev).pass = IF f.pass = Blank THEN prev ELSE f.pass
  BY DEF ParseHost, Hosts

\* The candidate of a save is a configuration; a host keeps the password that
\* was loaded unless the form has one.
LEMMA CandidateType ==
    ASSUME ConfigTyped, NEW s \in Saves
    PROVE  /\ Candidate(s) \in Configs
           /\ \A e \in Ends : Candidate(s)[e].pass =
                IF form[s][e].pass # Blank THEN form[s][e].pass
                ELSE IF loaded[s] = Blank THEN Blank ELSE loaded[s][e].pass
<1>. DEFINE prev(e) == IF loaded[s] = Blank THEN Blank ELSE loaded[s][e].pass
<1>1. prev("src") \in Passwords \cup {Blank} /\ prev("dest") \in Passwords \cup {Blank}
  BY DEF ConfigTyped, Configs, Hosts
<1>2. \A e \in Ends : form[s][e] \in [endpoint : BOOLEAN, pass : Passwords \cup {Blank}]
  BY DEF ConfigTyped, Forms
<1>3. Candidate(s) = [src |-> ParseHost(form[s]["src"], prev("src")), dest |-> ParseHost(form[s]["dest"], prev("dest"))]
  BY DEF Candidate
<1>. HIDE DEF prev
<1>4. \A e \in Ends : ParseHost(form[s][e], prev(e)) \in Hosts
                      /\ ParseHost(form[s][e], prev(e)).pass = IF form[s][e].pass = Blank THEN prev(e) ELSE form[s][e].pass
  BY <1>1, <1>2, ParseType DEF Ends
<1>5. Candidate(s) \in Configs
  BY <1>3, <1>4 DEF Configs, Ends
<1>6. \A e \in Ends : Candidate(s)[e] = ParseHost(form[s][e], prev(e))
  BY <1>3 DEF Ends
<1>. QED BY <1>4, <1>5, <1>6 DEF prev

-----------------------------------------------------------------------------
(* Every step keeps the invariant                                          *)

\* The invariant holds initially.
LEMMA InitInv == ConfigInit => ConfigInv
<1>. SUFFICES ASSUME ConfigInit PROVE ConfigInv
  OBVIOUS
<1>1. ConfigTyped
  BY DEF ConfigInit, ConfigTyped
<1>. QED BY <1>1 DEF ConfigInit, ConfigInv, ConfigSound, HostAlwaysLoads, PasswordsInherited, NoCredentialLingers,
               Judged, Alone, NoFileNoPassword

\* A save reads the file before it makes its candidate.
LEMMA LoadInv == ASSUME ConfigInv, NEW s \in Saves, Load(s) PROVE ConfigInv'
<1>1. ConfigTyped'
  BY DEF ConfigInv, ConfigSound, ConfigTyped, Load
<1>2. HostAlwaysLoads' /\ PasswordsInherited' /\ NoFileNoPassword'
  BY DEF ConfigInv, ConfigSound, HostAlwaysLoads, PasswordsInherited, NoFileNoPassword, Load
<1>3. NoCredentialLingers' /\ Judged'
  BY DEF ConfigInv, ConfigSound, ConfigTyped, NoCredentialLingers, Judged, Load
<1>4. Alone'
  <2>. SUFFICES ASSUME ~overlap' PROVE \A r \in Saves : saving'[r] \in {"write", "validate", "rename"} =>
                                          r = s /\ saving'[r] = "write" /\ loaded'[r] = host'
    BY DEF Alone
  <2>1. \A r \in Saves : saving[r] \notin {"write", "validate", "rename"}
    BY DEF Load, AtWork
  <2>. QED BY <2>1 DEF Load, ConfigInv, ConfigSound, ConfigTyped
<1>. QED BY <1>1, <1>2, <1>3, <1>4 DEF ConfigInv, ConfigSound

\* A candidate is made under a name of its own.
LEMMA WriteTmpInv == ASSUME ConfigInv, NEW s \in Saves, WriteTmp(s) PROVE ConfigInv'
<1>0. ConfigTyped
  BY DEF ConfigInv, ConfigSound
<1>1. Candidate(s) \in Configs /\ Candidate(s) # Blank
  BY <1>0, CandidateType, ConfigAssumption
<1>2. ConfigTyped'
  BY <1>0, <1>1 DEF ConfigTyped, WriteTmp
<1>3. HostAlwaysLoads' /\ PasswordsInherited' /\ NoFileNoPassword'
  BY DEF ConfigInv, ConfigSound, HostAlwaysLoads, PasswordsInherited, NoFileNoPassword, WriteTmp
<1>4. \A r \in Saves : /\ saving'[r] = IF r = s THEN "validate" ELSE saving[r]
                       /\ tmp'[r] = IF r = s THEN Candidate(s) ELSE tmp[r]
  BY <1>0 DEF ConfigTyped, WriteTmp
<1>5. saving[s] = "write" /\ UNCHANGED <<host, up, form, loaded, overlap>>
  BY DEF WriteTmp
<1>6. NoCredentialLingers' /\ Judged'
  BY <1>1, <1>4, <1>5 DEF ConfigInv, ConfigSound, NoCredentialLingers, Judged
<1>7. Alone'
  <2>1. \A r \in Saves : Candidate(r)' = Candidate(r)
    BY <1>5 DEF Candidate
  <2>. QED BY <1>4, <1>5, <2>1 DEF ConfigInv, Alone
<1>. QED BY <1>2, <1>3, <1>6, <1>7 DEF ConfigInv, ConfigSound

\* A candidate that does not load is removed, and the save refused.
LEMMA ValidateInv == ASSUME ConfigInv, NEW s \in Saves, Validate(s) PROVE ConfigInv'
<1>0. ConfigTyped /\ saving[s] = "validate" /\ UNCHANGED <<host, up, form, loaded, typed, overlap, edits>>
  BY DEF ConfigInv, ConfigSound, Validate
<1>1. ConfigTyped'
  BY <1>0 DEF ConfigTyped, Validate
<1>2. HostAlwaysLoads' /\ PasswordsInherited' /\ NoFileNoPassword'
  BY <1>0 DEF ConfigInv, ConfigSound, HostAlwaysLoads, PasswordsInherited, NoFileNoPassword
<1>3. \A r \in Saves : r # s => saving'[r] = saving[r] /\ tmp'[r] = tmp[r]
  BY <1>0 DEF ConfigTyped, Validate
<1>4. \/ saving'[s] = "rename" /\ tmp'[s] = tmp[s] /\ ValidHost(tmp[s].src) /\ ValidHost(tmp[s].dest)
      \/ saving'[s] = "done" /\ tmp'[s] = Blank
  BY <1>0 DEF ConfigTyped, Validate
<1>5. NoCredentialLingers' /\ Judged'
  BY <1>0, <1>3, <1>4 DEF ConfigInv, ConfigSound, NoCredentialLingers, Judged
<1>6. Alone'
  <2>1. \A r \in Saves : Candidate(r)' = Candidate(r)
    BY <1>0 DEF Candidate
  <2>. QED BY <1>0, <1>3, <1>4, <2>1 DEF ConfigInv, Alone
<1>. QED BY <1>1, <1>2, <1>5, <1>6 DEF ConfigInv, ConfigSound

\* Only a candidate that was found to load takes the file's place.
LEMMA RenameInv == ASSUME ConfigInv, NEW s \in Saves, Rename(s) PROVE ConfigInv'
<1>0. ConfigTyped /\ saving[s] = "rename" /\ UNCHANGED <<up, form, loaded, overlap, edits>>
  BY DEF ConfigInv, ConfigSound, Rename
<1>1. /\ tmp[s] # Blank /\ tmp[s] \in Configs /\ host' = tmp[s]
      /\ ValidHost(tmp[s].src) /\ ValidHost(tmp[s].dest)
  BY <1>0 DEF ConfigInv, Judged, Rename, ConfigTyped
<1>2. \A r \in Saves : /\ saving'[r] = IF r = s THEN "done" ELSE saving[r]
                       /\ tmp'[r] = IF r = s THEN Blank ELSE tmp[r]
  BY <1>0 DEF ConfigTyped, Rename
<1>3. \A e \in Ends : typed'[e] = IF form[s][e].pass = Blank THEN typed[e] ELSE form[s][e].pass
  BY DEF Rename
<1>4. ConfigTyped'
  <2>1. \A e \in Ends : form[s][e].pass \in Passwords \cup {Blank}
    BY <1>0 DEF ConfigTyped, Forms
  <2>2. typed' \in [Ends -> Passwords \cup {Blank}]
    BY <1>0, <2>1 DEF ConfigTyped, Rename
  <2>. QED BY <1>0, <1>1, <2>2 DEF ConfigTyped, Rename
<1>5. HostAlwaysLoads' /\ NoFileNoPassword'
  BY <1>1 DEF HostAlwaysLoads, NoFileNoPassword, ValidConfig
<1>6. NoCredentialLingers' /\ Judged'
  BY <1>0, <1>2 DEF ConfigInv, ConfigSound, NoCredentialLingers, Judged
<1>7. PasswordsInherited'
  <2>. SUFFICES ASSUME ~overlap, NEW e \in Ends PROVE tmp[s][e].pass = typed'[e]
    BY <1>0, <1>1 DEF PasswordsInherited
  <2>1. tmp[s] = Candidate(s) /\ loaded[s] = host
    BY <1>0 DEF ConfigInv, Alone
  <2>2. typed[e] = IF host = Blank THEN Blank ELSE host[e].pass
    BY DEF ConfigInv, ConfigSound, PasswordsInherited, NoFileNoPassword
  <2>3. Candidate(s)[e].pass = IF form[s][e].pass # Blank THEN form[s][e].pass
                               ELSE IF loaded[s] = Blank THEN Blank ELSE loaded[s][e].pass
    BY <1>0, CandidateType
  <2>. QED BY <1>3, <2>1, <2>2, <2>3
<1>8. Alone'
  BY <1>0, <1>2 DEF ConfigInv, Alone
<1>. QED BY <1>4, <1>5, <1>6, <1>7, <1>8 DEF ConfigInv, ConfigSound

\* An edit by hand takes the place of the file, not of a candidate.
LEMMA EditInv == ASSUME ConfigInv, NEW e \in Ends, Edit(e) PROVE ConfigInv'
<1>. DEFINE h == [endpoint |-> TRUE, pass |-> Blank, key |-> TRUE]
<1>0. /\ ConfigTyped /\ host \in Configs /\ host # Blank /\ UNCHANGED <<tmp, up, form, loaded, saving>>
      /\ host' = [host EXCEPT ![e] = h] /\ typed' = [typed EXCEPT ![e] = Blank]
      /\ edits' = edits + 1 /\ overlap' = (overlap \/ AtWork # {})
  BY DEF ConfigInv, ConfigSound, ConfigTyped, Edit
<1>1. h \in Hosts /\ ValidHost(h) /\ h.pass = Blank
  BY DEF Hosts, ValidHost
<1>. HIDE DEF h
<1>2. host' \in Configs /\ \A f \in Ends : host'[f] = IF f = e THEN h ELSE host[f]
  BY <1>0, <1>1 DEF Configs, Ends
<1>3. ConfigTyped'
  BY <1>0, <1>2 DEF ConfigTyped, AtWork
<1>4. host' # Blank
  BY <1>2, ConfigAssumption
<1>5. HostAlwaysLoads'
  <2>1. ValidConfig(host)
    BY <1>0 DEF ConfigInv, ConfigSound, HostAlwaysLoads
  <2>2. /\ host'.src = h \/ host'.src = host.src
        /\ host'.dest = h \/ host'.dest = host.dest
    BY <1>2 DEF Ends
  <2>. QED BY <1>1, <2>1, <2>2 DEF HostAlwaysLoads, ValidConfig
<1>6. PasswordsInherited'
  BY <1>0, <1>1, <1>2 DEF ConfigInv, ConfigSound, ConfigTyped, PasswordsInherited
<1>7. NoFileNoPassword' /\ NoCredentialLingers' /\ Judged'
  BY <1>0, <1>4 DEF ConfigInv, ConfigSound, NoFileNoPassword, NoCredentialLingers, Judged
<1>8. Alone'
  BY <1>0 DEF Alone, AtWork
<1>. QED BY <1>3, <1>5, <1>6, <1>7, <1>8 DEF ConfigInv, ConfigSound

\* A killed UI leaves candidates behind and the file as it is.
LEMMA KillInv == ASSUME ConfigInv, Kill PROVE ConfigInv'
<1>0. ConfigTyped /\ up' = FALSE /\ UNCHANGED <<host, tmp, form, loaded, typed, overlap, edits>>
  BY DEF ConfigInv, ConfigSound, Kill
<1>1. \A s \in Saves : saving'[s] \in {"idle", "done"}
  BY DEF Kill
<1>2. ConfigTyped'
  BY <1>0 DEF ConfigTyped, Kill
<1>. QED BY <1>0, <1>1, <1>2 DEF ConfigInv, ConfigSound, HostAlwaysLoads, PasswordsInherited, NoCredentialLingers,
                                 Judged, Alone, NoFileNoPassword

\* The sweep of a new UI removes the candidates left behind.
LEMMA RestartInv == ASSUME ConfigInv, Restart PROVE ConfigInv'
<1>0. ConfigTyped /\ ~up /\ up' = TRUE /\ UNCHANGED <<host, form, loaded, saving, typed, overlap, edits>>
  BY DEF ConfigInv, ConfigSound, Restart
<1>1. \A s \in Saves : saving[s] \notin {"write", "validate", "rename"} /\ tmp'[s] = Blank
  BY <1>0 DEF ConfigInv, Judged, Restart
<1>2. ConfigTyped'
  BY <1>0 DEF ConfigTyped, Restart
<1>. QED BY <1>0, <1>1, <1>2 DEF ConfigInv, ConfigSound, HostAlwaysLoads, PasswordsInherited, NoCredentialLingers,
                                 Judged, Alone, NoFileNoPassword

\* For any number of overlapping saves, hand edits and restarts: host.yaml is
\* always a file the loader accepts, its passwords are the operator's, and no
\* candidate with its passwords outlives its save.
THEOREM FileIsSound == ConfigSpec => []ConfigSound
<1>1. ConfigInv /\ [ConfigNext]_configVars => ConfigInv'
  <2>. SUFFICES ASSUME ConfigInv, [ConfigNext]_configVars PROVE ConfigInv'
    OBVIOUS
  <2>1. CASE UNCHANGED configVars
    BY <2>1 DEF configVars, ConfigInv, ConfigSound, ConfigTyped, HostAlwaysLoads, PasswordsInherited, NoCredentialLingers,
                Judged, Alone, NoFileNoPassword, Candidate
  <2>. QED BY <2>1, LoadInv, WriteTmpInv, ValidateInv, RenameInv, EditInv, KillInv, RestartInv DEF ConfigNext
<1>2. ConfigInv => ConfigSound
  BY DEF ConfigInv
<1>. QED BY <1>1, <1>2, InitInv, PTL DEF ConfigSpec
=============================================================================
