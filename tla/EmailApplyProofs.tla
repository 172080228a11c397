-------------------------- MODULE EmailApplyProofs --------------------------
(***************************************************************************)
(* Proofs about `email apply` and its rollback (module EmailApply): what   *)
(* the records say is true, nothing is replaced that was not reviewed, and *)
(* the command keeps the promise of a guarded apply (module GuardedApply). *)
(***************************************************************************)
EXTENDS EmailApply, FiniteSetTheorems, TLAPS

UndoPhase == {"rcheck", "rwrite", "rverify", "rreport"}
WritePhase == {"check", "write", "verify"}

\* What a reading of an item may have given.
ReadingOf(i) == Values(i) \cup {ListError, Missing} \cup (IF i \in Contents THEN {Unread} ELSE {})

Typed ==
    /\ TypeOK
    /\ \A i \in Items : live[i] \in ReadingOf(i)
    /\ backup # Missing => \A i \in Settings : backup[i] \in Values(i) \cup {Missing}

\* An op carries what the source had when it is one to write or to skip, and
\* the precondition it is to be checked by.
OpSound(i, op) ==
    /\ op.value \in Values(i) /\ op.was \in Values(i)
    /\ (source[i] # Absent /\ op.action \in {"skip", "create", "set"}) => Same(i, source[i], op.value)
    /\ Actionable(op) =>
         /\ op.value # Absent
         /\ i \in In("forwarders") => op.value = "on" /\ (Scope(i) = {i} => op.targets = {})
         /\ i \in Settings => op.was # Absent
PlanSound == \A i \in Items : OpSound(i, Op1(i))

\* A report tells of ops that were to be written.
ReportSound ==
    report # Missing => \A i \in Items : report.status[i] = "applied" =>
        /\ Actionable(report.ops[i])
        /\ i \in In("forwarders") => report.ops[i].value = "on"

\* What an op to be written may replace.
Replaceable(i, v) ==
    IF i \in Settings THEN v # Absent /\ Same(i, Op1(i).was, v) ELSE v = Absent

\* The apply, up to its backup: what it has read is there, unless raced.
Reads ==
    /\ pc \in {"fetch", "backup"} => \A i \in Items : status[i] # "applied"
    /\ pc \in {"fetch", "backup"} => \A i \in Items :
         i \notin raced /\ live[i] \notin {Missing, Unread, ListError} => dest[i] = live[i]
    /\ pc = "fetch" => \A i \in Items : Actionable(Op1(i)) => i \in todo \/ live[i] # Missing
    /\ pc = "backup" => \A i \in todo :
         /\ Actionable(Op1(i)) /\ live[i] \notin {Missing, Unread, ListError}
         /\ Replaceable(i, live[i])

\* The apply, from its backup on: what is to be replaced is in the backup.
Writes ==
    /\ pc \in WritePhase =>
         /\ backup # Missing
         /\ \A i \in todo :
              /\ Actionable(Op1(i))
              /\ i \in Settings => backup[i] \notin {Absent, Missing} /\ Same(i, Op1(i).was, backup[i])
              /\ (i \in In("forwarders") /\ i \notin raced /\ (pc = "verify" => i # Min(todo))) => dest[i] = Absent
    /\ pc = "write" => \A i \in todo : First(i) /\ i \notin raced => Replaceable(i, dest[i])
    /\ pc = "verify" => \A i \in todo : First(i) => pre[i] # Missing
    /\ pc \in WritePhase \cup {"backup", "report"} => \A i \in Items : status[i] = "applied" =>
         pre[i] # Missing /\ Actionable(Op1(i))

\* The rollback: what it undoes is in its records, and what it reports as
\* undone is what the backup holds.
Undoes ==
    /\ pc \notin UndoPhase => ~degraded
    /\ pc \in UndoPhase =>
         /\ backup # Missing
         /\ degraded <=> report = Missing
         /\ todo \subseteq RollbackOps
         /\ \A i \in todo : status[i] = "none" /\ (i \in Settings => backup[i] \notin {Missing, Absent})
         /\ \A i \in Items : i \notin raced /\ status[i] \in {"applied", "already"} => Same(i, RollbackValue(i), dest[i])
    /\ pc = "rwrite" => \A i \in todo :
         First(i) /\ i \notin raced /\ ~degraded => Same(i, report.ops[i].value, dest[i])

\* What an op finds when nobody else touched the item since the plan, which had
\* seen it.
Expected(i, v) ==
    IF i \in Settings THEN v # Absent /\ (Same(i, Op1(i).was, v) \/ Same(i, Op1(i).value, v))
    ELSE v = Absent \/ Same(i, Op1(i).value, v)

Unchanged ==
    \A i \in Items : Actionable(Op1(i)) /\ i \notin changed \cup unseen =>
        /\ Expected(i, dest[i])
        /\ pc \in {"fetch", "backup"} /\ live[i] \notin {Missing, Unread, ListError} => Expected(i, live[i])
        /\ backup # Missing /\ ~older /\ i \in Settings /\ backup[i] # Missing => Expected(i, backup[i])

Inv == /\ Typed /\ PlanSound /\ ReportSound /\ Reads /\ Writes /\ Undoes /\ Unchanged
       /\ BackupIsPreImage /\ RefusalExplained

-----------------------------------------------------------------------------
(* The rules                                                               *)

\* To mean the same is an equivalence.
LEMMA SameEquivalence ==
    ASSUME NEW i, NEW u, NEW v, NEW w
    PROVE  /\ Same(i, v, v)
           /\ Same(i, v, w) => Same(i, w, v)
           /\ Same(i, u, v) /\ Same(i, v, w) => Same(i, u, w)
  BY DEF Same, defaultsEquivalent

\* An item is a forwarder, a setting or a content.
LEMMA Kinds ==
    ASSUME NEW i \in Items
    PROVE  /\ i \in In("forwarders") => i \notin Settings /\ i \notin Contents
           /\ i \in Settings => i \notin Contents
           /\ i \in In("forwarders") \/ i \in Settings \/ i \in Contents
  BY EmailPlanAssumption DEF In, Settings, Contents, Sections

\* A content of an item is none of the readings that failed.
LEMMA Contained ==
    ASSUME NEW i \in Items, NEW v \in Values(i)
    PROVE  /\ v \notin {Unread, ListError, Missing} /\ v \in AnyValue
           /\ i \in In("forwarders") => v \in {"on", Absent}
<1>1. v \in AnyValue
  BY DEF AnyValue
<1>2. v \notin {Unread, ListError}
  <2>1. Values(i) \subseteq {"on"} \cup DefaultValues \cup RoutingValues \cup Bodies \cup {Absent}
    BY EmailPlanAssumption DEF Values, Sections
  <2>. QED BY <2>1, EmailPlanAssumption
<1>3. i \in In("forwarders") => v \in {"on", Absent}
  BY DEF In, Values
<1>. QED BY <1>1, <1>2, <1>3, EmailApplyAssumption

\* Every setting may be absent.
LEMMA AbsentIsValue == ASSUME NEW i \in Items PROVE Absent \in Values(i)
  BY EmailPlanAssumption DEF Values, Sections

\* One call reads an item's whole scope, and gives what is there or nothing.
LEMMA ScopeHolds ==
    ASSUME NEW i \in Items
    PROVE  i \in Scope(i) /\ Scope(i) \subseteq Items /\ (i \in Contents => Scope(i) = {i})
  BY EmailPlanAssumption DEF Scope, destForwardTargets, In, Sections, Contents

\* A reading of a scope gives what is there, or tells that it failed.
LEMMA ReadingGives ==
    ASSUME TypeOK, NEW i \in Items, NEW r \in Readings(i)
    PROVE  /\ DOMAIN r = Scope(i)
           /\ \A j \in Scope(i) : /\ r[j] \in {dest[j], ListError, Unread}
                                  /\ r[j] \notin {ListError, Unread} => r[j] = dest[j]
                                  /\ r[j] = Unread => j \in Contents
           /\ \A seen : Read(seen, r) => faults' \in 0..MaxFaults /\ raced' = raced \ seen
<1>1. \A j \in Items : dest[j] \in Values(j)
  BY DEF TypeOK, States
<1>2. \A j \in Items : dest[j] \notin {Unread, ListError}
  BY <1>1, Contained
<1>3. Scope(i) \subseteq Items /\ (i \in Contents => Scope(i) = {i})
  BY ScopeHolds
<1>4. \/ r = [j \in Scope(i) |-> dest[j]]
      \/ r = [j \in Scope(i) |-> ListError] /\ faults < MaxFaults
      \/ r = [j \in Scope(i) |-> Unread] /\ i \in Contents /\ faults < MaxFaults
  BY DEF Readings
<1>5. faults \in Nat /\ faults <= MaxFaults /\ MaxFaults \in Nat
  BY EmailApplyAssumption DEF TypeOK
<1>6. CASE r = [j \in Scope(i) |-> dest[j]]
  <2>1. ~\E j \in DOMAIN r : r[j] \in {Unread, ListError}
    BY <1>2, <1>3, <1>6
  <2>2. \A seen : Read(seen, r) => faults' = faults /\ raced' = raced \ seen
    BY <1>5, <2>1 DEF Read
  <2>. QED BY <1>2, <1>3, <1>5, <1>6, <2>2
<1>7. CASE r = [j \in Scope(i) |-> ListError] /\ faults < MaxFaults
  <2>1. \A seen : Read(seen, r) => faults' \in {faults, faults + 1} /\ raced' = raced \ seen
    BY <1>5 DEF Read
  <2>. QED BY <1>3, <1>5, <1>7, <2>1, EmailPlanAssumption
<1>8. CASE r = [j \in Scope(i) |-> Unread] /\ i \in Contents /\ faults < MaxFaults
  <2>1. \A seen : Read(seen, r) => faults' \in {faults, faults + 1} /\ raced' = raced \ seen
    BY <1>5 DEF Read
  <2>. QED BY <1>3, <1>5, <1>8, <2>1, EmailPlanAssumption
<1>. QED BY <1>4, <1>6, <1>7, <1>8

\* The freshness guard: an op is written only over what may be replaced.
LEMMA WriteDecided ==
    ASSUME NEW i \in Items, OpSound(i, Op1(i)), Actionable(Op1(i)), NEW l,
           l[i] \in ReadingOf(i), l[i] # Missing, EvaluateEmailOp(i, Op1(i), l) = "write"
    PROVE  l[i] \notin {Missing, Unread, ListError} /\ Replaceable(i, l[i])
<1>1. l[i] \notin {ListError, Unread} /\ ~(l[i] # Absent /\ Same(i, Op1(i).value, l[i]))
  BY DEF EvaluateEmailOp
<1>2. l[i] \in Values(i)
  BY <1>1 DEF ReadingOf
<1>3. CASE i \in In("forwarders")
  BY <1>1, <1>2, <1>3, Contained, Kinds, SameEquivalence DEF OpSound, Replaceable
<1>4. CASE i \in Settings
  BY <1>1, <1>4, Kinds DEF EvaluateEmailOp, Replaceable
<1>5. CASE i \in Contents
  BY <1>1, <1>5, Kinds DEF EvaluateEmailOp, Replaceable
<1>. QED BY <1>1, <1>3, <1>4, <1>5, Kinds

\* It refuses nothing that it may expect to find.
LEMMA RefusalUnexpected ==
    ASSUME NEW i \in Items, OpSound(i, Op1(i)), Actionable(Op1(i)), NEW l,
           l[i] \in Values(i), Expected(i, l[i]), i \in In("forwarders") => Scope(i) = {i}
    PROVE  EvaluateEmailOp(i, Op1(i), l) # "refused"
<1>1. l[i] \notin {ListError, Unread}
  BY Contained
<1>2. CASE i \in In("forwarders")
  <2>1. l[i] = "on" => EvaluateEmailOp(i, Op1(i), l) # "refused"
    <3>1. Op1(i).value = "on" /\ "on" # Absent /\ Same(i, "on", "on")
      BY <1>2, SameEquivalence, EmailPlanAssumption DEF OpSound
    <3>. QED BY <3>1 DEF EvaluateEmailOp
  <2>2. l[i] = Absent => destForwardTargets(i, l) = {}
    <3>1. \A j \in In("forwarders") : Address[j] = Address[i] => j \in Scope(i)
      BY <1>2 DEF Scope, destForwardTargets, In
    <3>. QED BY <1>2, <3>1, EmailPlanAssumption DEF destForwardTargets
  <2>3. Op1(i).targets = {}
    BY <1>2 DEF OpSound
  <2>4. l[i] \in {"on", Absent}
    BY <1>2, Contained
  <2>. QED BY <1>1, <1>2, <2>1, <2>2, <2>3, <2>4 DEF EvaluateEmailOp
<1>3. CASE i \in Settings
  BY <1>1, <1>3 DEF EvaluateEmailOp, Expected
<1>4. CASE i \in Contents
  BY <1>1, <1>4, Kinds DEF EvaluateEmailOp, Expected
<1>. QED BY <1>2, <1>3, <1>4, Kinds

-----------------------------------------------------------------------------
(* The plan                                                                *)

\* What an inventory says of an item.
InventoryOf(i, v, listed) ==
    \/ v = listed
    \/ i \in In("forwarders") \cup Contents /\ v = Absent
    \/ i \in Contents /\ v = Unread /\ listed # Absent

\* An inventory holds what is there, but for what the failed call was to give.
LEMMA InventoryGives ==
    ASSUME NEW side, NEW failed \in {Whole} \cup FailedCalls, NEW i \in Items
    PROVE  /\ InventoryOf(i, Inventory(side, failed)[i], side[i])
           /\ i \in Contents /\ i \notin failed.absent => Inventory(side, failed)[i] \in {side[i], Unread}
<1>1. Inventory(side, failed)[i] = IF i \in failed.absent THEN Absent
        ELSE IF i \in failed.unread /\ side[i] # Absent THEN Unread ELSE side[i]
  BY DEF Inventory
<1>2. failed.absent \subseteq In("forwarders") \cup Contents /\ failed.unread \subseteq Contents
  BY EmailApplyAssumption DEF Whole, FailedCalls, Contents
<1>. QED BY <1>1, <1>2 DEF InventoryOf

\* The plan is made of ops.
LEMMA PlanHasOps ==
    ASSUME NEW i, NEW src, NEW dst
    PROVE  \E a, v, w, t : PlanOp(i, src, dst) = Op(a, v, w, t)
<1>. DEFINE IsOp(o) == \E a, v, w, t : o = Op(a, v, w, t)
<1>1. IsOp(planForwarders(i, src, dst)) /\ IsOp(planDefaultAddresses(i, src, dst))
  BY Zenon DEF planForwarders, planDefaultAddresses
<1>2. IsOp(planContents(i, src, dst)) /\ IsOp(planRouting(i, src, dst))
  BY Zenon DEF planContents, planRouting
<1>. HIDE DEF IsOp
<1>3. IsOp(PlanOp(i, src, dst))
  BY <1>1, <1>2 DEF PlanOp
<1>. QED BY <1>3 DEF IsOp

\* An op of the plan is one of these; d is what the inventory of the destination
\* says.
PlannedOp(i, op, s, d) ==
    \/ op = NoOp \/ op = Op("manual", Absent, Absent, {})
    \/ /\ op.action = "skip" /\ op.value = op.was /\ op.was \in Values(i) /\ op.targets = {}
       /\ Same(i, s, op.value)
    \/ /\ op.action \in {"create", "set"}
       /\ op.value = s /\ s \in Values(i) /\ s # Absent
       /\ op.was \in Values(i) /\ op.targets \in SUBSET In("forwarders")
       /\ i \in In("forwarders") => op.value = "on" /\ (Scope(i) = {i} => op.targets = {})
       /\ i \in Settings => op.was = d /\ d # Absent
       /\ i \in Contents => d = Absent

\* planForwarders plans an op of the source's value.
LEMMA PlannedForwarder ==
    ASSUME NEW i \in In("forwarders"), NEW s \in Values(i), NEW src, NEW dst,
           InventoryOf(i, src[i], s), src[i] # Absent
    PROVE  PlannedOp(i, planForwarders(i, src, dst), s, dst[i])
<1>1. i \in Items /\ i \notin Contents /\ i \notin Settings
  BY Kinds DEF In
<1>2. s = "on"
  BY <1>1, Contained DEF InventoryOf
<1>3. Absent \in Values(i)
  BY <1>1, AbsentIsValue
<1>4. CASE dst[i] = "on"
  BY <1>2, <1>4, SameEquivalence DEF PlannedOp, planForwarders, Op
<1>5. CASE dst[i] # "on" /\ i \in Unwritable
  BY <1>5 DEF PlannedOp, planForwarders, Op
<1>6. CASE dst[i] # "on" /\ i \notin Unwritable
  <2>1. Scope(i) = {i} => destForwardTargets(i, dst) = {}
    <3>1. \A j \in In("forwarders") : Address[j] = Address[i] => j \in Scope(i)
      BY DEF Scope, destForwardTargets, In
    <3>. QED BY <1>6, <3>1 DEF destForwardTargets
  <2>2. destForwardTargets(i, dst) \in SUBSET In("forwarders")
    BY DEF destForwardTargets
  <2>3. "on" # Absent
    BY EmailPlanAssumption
  <2>. QED BY <1>1, <1>2, <1>3, <1>6, <2>1, <2>2, <2>3 DEF PlannedOp, planForwarders, Op
<1>. QED BY <1>4, <1>5, <1>6

\* planDefaultAddresses and planRouting plan the source's value and remember
\* the destination's.
LEMMA PlannedSetting ==
    ASSUME NEW i \in Settings, NEW s \in Values(i), NEW d \in Values(i), NEW src, NEW dst,
           src[i] = s, dst[i] = d, s # Absent
    PROVE  PlannedOp(i, PlanOp(i, src, dst), s, d)
<1>1. i \in Items /\ i \notin Contents /\ i \notin In("forwarders")
  BY Kinds DEF In, Settings
<1>2. CASE Section[i] = "default_address"
  <2>1. PlanOp(i, src, dst) = planDefaultAddresses(i, src, dst)
    BY <1>2 DEF PlanOp
  <2>. QED BY <1>1, <2>1, SameEquivalence DEF PlannedOp, planDefaultAddresses, Op
<1>3. CASE Section[i] = "routing"
  <2>1. PlanOp(i, src, dst) = planRouting(i, src, dst)
    BY <1>3 DEF PlanOp
  <2>. QED BY <1>1, <2>1, SameEquivalence DEF PlannedOp, planRouting, Op
<1>. QED BY <1>2, <1>3 DEF Settings, In

\* The plans of filters and autoresponders create what is missing and replace
\* nothing.
LEMMA PlannedContent ==
    ASSUME NEW i \in Contents, NEW s \in Values(i), NEW src, NEW dst,
           InventoryOf(i, src[i], s), src[i] # Absent
    PROVE  PlannedOp(i, planContents(i, src, dst), s, dst[i])
<1>1. i \in Items /\ i \notin Settings /\ i \notin In("forwarders")
  BY Kinds DEF In, Contents
<1>2. Absent \in Values(i)
  BY <1>1, AbsentIsValue
<1>3. CASE Unread \in {src[i], dst[i]}
  BY <1>3 DEF PlannedOp, planContents, Op
<1>4. CASE Unread \notin {src[i], dst[i]}
  <2>1. src[i] = s
    BY <1>1, <1>4 DEF InventoryOf
  <2>. QED BY <1>1, <1>2, <1>4, <2>1, SameEquivalence DEF PlannedOp, planContents, Op
<1>. QED BY <1>3, <1>4

\* The plan of the inventories of both sides, whichever call failed.
LEMMA PlanMade ==
    ASSUME TypeOK, NEW f1 \in {Whole} \cup FailedCalls, NEW f2 \in {Whole} \cup FailedCalls,
           NEW off \in SUBSET Flagged, NEW i \in Items
    PROVE  LET dst == Inventory(dest, f2) IN
           /\ PlannedOp(i, BuildEmailPlan(Inventory(source, f1), dst, off).ops[i], source[i], dst[i])
           /\ i \in Settings => dst[i] = dest[i]
           /\ i \in Contents /\ i \notin f2.absent => dst[i] \in {dest[i], Unread}
<1>. DEFINE src == Inventory(source, f1)
            dst == Inventory(dest, f2)
            op == BuildEmailPlan(src, dst, off).ops[i]
<1>1. /\ InventoryOf(i, src[i], source[i]) /\ InventoryOf(i, dst[i], dest[i])
      /\ i \in Contents /\ i \notin f2.absent => dst[i] \in {dest[i], Unread}
  BY InventoryGives
<1>2. source[i] \in Values(i) /\ dest[i] \in Values(i)
  BY DEF TypeOK, States
<1>3. op = IF src[i] = Absent \/ Section[i] \in off THEN NoOp ELSE PlanOp(i, src, dst)
  BY DEF BuildEmailPlan
<1>6. i \in Settings => dst[i] = dest[i]
  BY <1>1, Kinds DEF InventoryOf
<1>. SUFFICES PlannedOp(i, op, source[i], dst[i])
  BY <1>1, <1>6
<1>. HIDE DEF src, dst, op
<1>4. CASE src[i] = Absent \/ Section[i] \in off
  BY <1>3, <1>4 DEF PlannedOp
<1>5. CASE src[i] # Absent /\ Section[i] \notin off
  <2>1. CASE i \in In("forwarders")
    <3>1. PlanOp(i, src, dst) = planForwarders(i, src, dst)
      BY <2>1 DEF PlanOp, In
    <3>2. PlannedOp(i, planForwarders(i, src, dst), source[i], dst[i])
      BY <1>1, <1>2, <1>5, <2>1, PlannedForwarder
    <3>. QED BY <1>3, <1>5, <3>1, <3>2
  <2>2. CASE i \in Settings
    <3>1. src[i] = source[i] /\ dst[i] = dest[i]
      BY <1>1, <2>2, Kinds DEF InventoryOf
    <3>. QED BY <1>2, <1>3, <1>5, <2>2, <3>1, PlannedSetting
  <2>3. CASE i \in Contents
    <3>1. PlanOp(i, src, dst) = planContents(i, src, dst)
      BY <2>3 DEF PlanOp, In, Contents
    <3>. QED BY <1>1, <1>2, <1>3, <1>5, <2>3, <3>1, PlannedContent
  <2>. QED BY <2>1, <2>2, <2>3, Kinds
<1>. QED BY <1>4, <1>5

\* Such an op is sound, and finds what it expects, unless the inventory had
\* missed it.
LEMMA PlannedIsSound ==
    ASSUME TypeOK, NEW i \in Items, NEW op, NEW d, NEW missed, PlannedOp(i, op, source[i], d),
           i \in Settings => d = dest[i],
           i \in Contents /\ i \notin missed => d \in {dest[i], Unread}
    PROVE  /\ OpSound(i, op)
           /\ Actionable(op) => IF i \in Settings THEN dest[i] # Absent /\ op.was = dest[i]
                                ELSE dest[i] = Absent \/ Same(i, op.value, dest[i]) \/ i \in missed
<1>1. source[i] \in Values(i) /\ dest[i] \in Values(i) /\ Absent \in Values(i)
  BY AbsentIsValue DEF TypeOK, States
<1>2. Same(i, source[i], source[i]) /\ Same(i, "on", "on")
  BY SameEquivalence
<1>3. OpSound(i, op)
  BY <1>1, <1>2 DEF PlannedOp, OpSound, Actionable, NoOp, Op
<1>4. i \in In("forwarders") => dest[i] \in {"on", Absent}
  BY <1>1, Contained
<1>5. Actionable(op) => op.action \in {"create", "set"} /\ op # NoOp /\ op # Op("manual", Absent, Absent, {})
  BY DEF Actionable, NoOp, Op
<1>6. Actionable(op) => /\ i \in In("forwarders") => op.value = "on"
                        /\ i \in Settings => op.was = dest[i] /\ dest[i] # Absent
                        /\ i \in Contents => dest[i] = Absent \/ i \in missed
  BY <1>5, EmailPlanAssumption DEF PlannedOp, Actionable
<1>. QED BY <1>2, <1>3, <1>4, <1>6, Kinds

-----------------------------------------------------------------------------
(* Every step keeps the invariant: the account, the plan and the apply     *)

\* What does not concern the plan and the report leaves them sound.
LEMMA RecordsKept ==
    ASSUME Inv, UNCHANGED <<plan, source, report>>
    PROVE  PlanSound' /\ ReportSound'
  BY DEF Inv, PlanSound, OpSound, Op1, ReportSound

\* Between two runs there is nothing to say of the run.
LEMMA IdleKept ==
    ASSUME pc' = "idle", ~degraded'
    PROVE  Reads' /\ Writes' /\ Undoes' /\ RefusalExplained'
  BY DEF Reads, Writes, Undoes, RefusalExplained, Refuses, WritePhase, UndoPhase

\* The invariant holds initially.
LEMMA InitInv == Init => Inv
<1>. SUFFICES ASSUME Init PROVE Inv
  OBVIOUS
<1>1. NoOp \in OpType \/ Items = {}
  BY AbsentIsValue DEF NoOp, Op, OpType, AnyValue
<1>2. Typed
  <2>1. plan \in PlanType
    BY <1>1 DEF Init, PlanType, NoPlan
  <2>2. live \in [Items -> AnyValue \cup {Missing, Unread, ListError}] /\ pre \in BackupType /\ status \in [Items -> Statuses]
    BY DEF Init, Unset, BackupType, NoResults, Statuses
  <2>3. dest \in States /\ source \in States /\ edits \in 0..MaxEdits /\ runs \in 0..MaxRuns /\ faults \in 0..MaxFaults
    BY EmailApplyAssumption DEF Init
  <2>4. TypeOK
    BY <2>1, <2>2, <2>3 DEF Init, TypeOK, Steps
  <2>. QED BY <2>4 DEF Typed, Init, Unset, ReadingOf
<1>3. PlanSound
  BY AbsentIsValue DEF PlanSound, OpSound, Op1, Init, NoPlan, NoOp, Op, Actionable
<1>4. ReportSound /\ Reads /\ Writes /\ Undoes /\ RefusalExplained
  BY DEF Init, ReportSound, Reads, Writes, Undoes, RefusalExplained, Refuses, UndoPhase, WritePhase
<1>5. Unchanged
  BY DEF Unchanged, Op1, Init, NoPlan, NoOp, Op, Actionable
<1>6. BackupIsPreImage
  BY DEF BackupIsPreImage, Init, Unset
<1>. QED BY <1>2, <1>3, <1>4, <1>5, <1>6 DEF Inv

\* An edit of the owner is remembered by the ghosts the records are compared
\* with.
LEMMA OwnerEditInv == ASSUME Inv, NEW e \in OwnerEdits, OwnerEdit(e[1], e[2]) PROVE Inv'
<1>. DEFINE i == e[1]
            v == e[2]
<1>1. i \in Items
  BY EmailApplyAssumption
<1>. HIDE DEF i, v
<1>2. /\ edits < MaxEdits /\ edits' = edits + 1 /\ dest' = [dest EXCEPT ![i] = v] /\ v \in Values(i)
      /\ raced' = raced \cup {i} /\ changed' = changed \cup {i}
      /\ UNCHANGED <<source, plan, backup, report, pc, todo, live, status, degraded, unseen, older, pre, runs, faults>>
  BY DEF OwnerEdit, files, locals, i, v
<1>3. Typed'
  <2>1. dest' \in States
    BY <1>1, <1>2, Contained DEF Inv, Typed, TypeOK, States
  <2>2. edits' \in 0..MaxEdits
    BY <1>2, EmailApplyAssumption DEF Inv, Typed, TypeOK
  <2>. QED BY <1>1, <1>2, <2>1, <2>2 DEF Inv, Typed, TypeOK
<1>4. PlanSound' /\ ReportSound'
  BY <1>2, RecordsKept
<1>5. \A j \in Items : j \notin raced' => j # i /\ j \notin raced /\ dest'[j] = dest[j]
  BY <1>2 DEF Inv, Typed, TypeOK, States
<1>6. Reads'
  BY <1>2, <1>5 DEF Inv, Reads, Op1, Replaceable
<1>7. Writes'
  BY <1>2, <1>5 DEF Inv, Typed, TypeOK, Writes, Op1, Replaceable, First
<1>8. Undoes'
  BY <1>2, <1>5 DEF Inv, Typed, TypeOK, Undoes, RollbackOps, RollbackValue, First
<1>9. Unchanged'
  BY <1>2, <1>5 DEF Inv, Typed, TypeOK, States, Unchanged, Op1, Expected
<1>10. BackupIsPreImage' /\ RefusalExplained'
  BY <1>2 DEF Inv, BackupIsPreImage, RefusalExplained, Refuses, RollbackValue
<1>. QED BY <1>3, <1>4, <1>6, <1>7, <1>8, <1>9, <1>10 DEF Inv

\* A new plan makes the reports on disk older than it.
LEMMA BuildPlanInv == ASSUME Inv, BuildPlan PROVE Inv'
<1>1. /\ pc = "idle" /\ runs < MaxRuns /\ runs' = runs + 1 /\ changed' = {} /\ older' = TRUE
      /\ UNCHANGED <<dest, source, backup, report, pc, todo, live, status, degraded, raced, pre, edits>>
  BY DEF BuildPlan, locals
<1>2. PICK failed \in {Whole} \cup (IF faults < MaxFaults THEN FailedCalls ELSE {}), onSource \in BOOLEAN :
        /\ plan' = BuildEmailPlan(Inventory(source, IF onSource THEN failed ELSE Whole),
                                  Inventory(dest, IF onSource THEN Whole ELSE failed), failed.off)
        /\ unseen' = IF onSource THEN {} ELSE {i \in failed.absent : dest[i] # Absent}
        /\ faults' = IF failed = Whole THEN faults ELSE faults + 1
  BY DEF BuildPlan
<1>. DEFINE off == failed.off
            f1 == IF onSource THEN failed ELSE Whole
            f2 == IF onSource THEN Whole ELSE failed
            dst == Inventory(dest, f2)
<1>3. /\ off \in SUBSET Flagged /\ f1 \in {Whole} \cup FailedCalls /\ f2 \in {Whole} \cup FailedCalls
      /\ failed.absent \subseteq Items
  <2>1. failed \in {Whole} \cup FailedCalls
    BY <1>2
  <2>2. \A l \in Listings : l \subseteq Items
    BY EmailApplyAssumption DEF In
  <2>3. failed.off \in SUBSET Flagged /\ failed.absent \subseteq Items
    BY <2>1, <2>2 DEF Whole, FailedCalls
  <2>. QED BY <2>1, <2>3
<1>a. unseen' = {i \in f2.absent : dest[i] # Absent} /\ unseen' \subseteq Items
  BY <1>2, <1>3 DEF Whole
<1>b. plan' = BuildEmailPlan(Inventory(source, f1), dst, off)
  BY <1>2
<1>. HIDE DEF off, f1, f2
<1>4. \A i \in Items : /\ PlannedOp(i, plan'.ops[i], source[i], dst[i])
                       /\ i \in Settings => dst[i] = dest[i]
                       /\ i \in Contents /\ i \notin f2.absent => dst[i] \in {dest[i], Unread}
  BY <1>3, <1>b, PlanMade DEF Inv, Typed
<1>. HIDE DEF dst
<1>5. \A i \in Items : OpSound(i, plan'.ops[i])
  BY <1>4, PlannedIsSound DEF Inv, Typed
<1>6. \A i \in Items : plan'.ops[i] \in OpType
  <2>. SUFFICES ASSUME NEW i \in Items PROVE plan'.ops[i] \in OpType
    OBVIOUS
  <2>. DEFINE op == plan'.ops[i]
  <2>1. PlannedOp(i, op, source[i], dst[i])
    BY <1>4
  <2>2. Values(i) \subseteq AnyValue /\ Absent \in AnyValue
    BY AbsentIsValue DEF AnyValue
  <2>3. DOMAIN op = {"action", "value", "was", "targets"} /\ op = [action |-> op.action, value |-> op.value, was |-> op.was, targets |-> op.targets]
    <3>1. op = IF Inventory(source, f1)[i] = Absent \/ Section[i] \in off THEN NoOp
               ELSE PlanOp(i, Inventory(source, f1), dst)
      BY <1>b DEF BuildEmailPlan
    <3>. HIDE DEF op
    <3>2. op = NoOp \/ \E s, d : op = PlanOp(i, s, d)
      BY <3>1, Zenon
    <3>3. \E a, v, w, t : op = Op(a, v, w, t)
      <4>1. CASE op = NoOp
        BY <4>1, Zenon DEF NoOp
      <4>2. ASSUME NEW s, NEW d, op = PlanOp(i, s, d) PROVE \E a, v, w, t : op = Op(a, v, w, t)
        BY <4>2, PlanHasOps
      <4>. QED BY <3>2, <4>1, <4>2
    <3>. QED BY <3>3 DEF Op
  <2>. HIDE DEF op
  <2>4. op \in OpType
    BY <2>1, <2>2, <2>3 DEF PlannedOp, OpType, NoOp, Op
  <2>. QED BY <2>4 DEF op
<1>7. plan' \in PlanType
  <2>1. plan' = [ops |-> plan'.ops, manualSections |-> off] /\ plan'.ops = [i \in Items |-> plan'.ops[i]]
    BY <1>b DEF BuildEmailPlan
  <2>. QED BY <1>3, <1>6, <2>1 DEF PlanType
<1>8. Typed'
  <2>1. failed = Whole \/ faults < MaxFaults
    BY <1>2
  <2>2. faults' \in 0..MaxFaults /\ runs' \in 0..MaxRuns
    BY <1>1, <1>2, <2>1, EmailApplyAssumption DEF Inv, Typed, TypeOK
  <2>. QED BY <1>1, <1>7, <1>a, <2>2 DEF Inv, Typed, TypeOK
<1>9. PlanSound' /\ ReportSound'
  BY <1>1, <1>5 DEF Inv, PlanSound, OpSound, Op1, ReportSound
<1>10. Unchanged'
  <2>1. \A i \in Items : Actionable(plan'.ops[i]) => IF i \in Settings THEN dest[i] # Absent /\ plan'.ops[i].was = dest[i]
                                ELSE dest[i] = Absent \/ Same(i, plan'.ops[i].value, dest[i]) \/ i \in f2.absent
    BY <1>4, PlannedIsSound DEF Inv, Typed
  <2>2. \A i \in Items : Same(i, dest[i], dest[i])
    BY SameEquivalence
  <2>3. \A i \in Items : Actionable(plan'.ops[i]) /\ i \notin unseen' =>
          IF i \in Settings THEN dest[i] # Absent /\ plan'.ops[i].was = dest[i]
          ELSE dest[i] = Absent \/ Same(i, plan'.ops[i].value, dest[i])
    BY <1>a, <2>1
  <2>. QED BY <1>1, <2>2, <2>3 DEF Unchanged, Expected, Op1
<1>11. BackupIsPreImage'
  BY <1>1 DEF Inv, BackupIsPreImage, RollbackValue
<1>12. Reads' /\ Writes' /\ Undoes' /\ RefusalExplained'
  BY <1>1, IdleKept DEF Inv, Undoes, UndoPhase
<1>. QED BY <1>8, <1>9, <1>10, <1>11, <1>12 DEF Inv

\* An apply starts with nothing read and nothing written.
LEMMA StartApplyInv == ASSUME Inv, StartApply PROVE Inv'
<1>1. /\ pc = "idle" /\ runs < MaxRuns /\ runs' = runs + 1 /\ todo' = writable /\ pc' = "fetch"
      /\ live' = Unset /\ status' = NoResults
      /\ UNCHANGED <<dest, source, plan, backup, report, degraded, raced, changed, unseen, older, pre, edits, faults>>
  BY DEF StartApply, files, ghosts
<1>2. Typed'
  <2>1. live' \in [Items -> AnyValue \cup {Missing, Unread, ListError}] /\ status' \in [Items -> Statuses]
    BY <1>1 DEF Unset, NoResults, Statuses
  <2>2. runs' \in 0..MaxRuns /\ todo' \subseteq Items /\ pc' \in Steps
    BY <1>1, EmailApplyAssumption DEF Inv, Typed, TypeOK, writable, Steps
  <2>3. TypeOK'
    BY <1>1, <2>1, <2>2 DEF Inv, Typed, TypeOK
  <2>. QED BY <1>1, <2>3 DEF Inv, Typed, Unset, ReadingOf
<1>3. PlanSound' /\ ReportSound'
  BY <1>1, RecordsKept
<1>4. Reads'
  BY <1>1 DEF Reads, Unset, NoResults, writable, Op1
<1>5. Writes' /\ Undoes' /\ RefusalExplained'
  BY <1>1 DEF Inv, Writes, Undoes, RefusalExplained, Refuses, WritePhase, UndoPhase
<1>6. Unchanged'
  BY <1>1 DEF Inv, Unchanged, Expected, Op1, Unset
<1>7. BackupIsPreImage'
  BY <1>1 DEF Inv, BackupIsPreImage, RollbackValue
<1>. QED BY <1>2, <1>3, <1>4, <1>5, <1>6, <1>7 DEF Inv

\* A failed call is counted.
LEMMA FaultCounts == ASSUME TypeOK, Fault PROVE faults' \in 0..MaxFaults
  BY EmailApplyAssumption DEF TypeOK, Fault

\* A command that cannot connect leaves everything as it was.
LEMMA DialFailsInv == ASSUME Inv, DialFails PROVE Inv'
<1>1. /\ pc = "fetch" /\ Fault /\ pc' = "idle" /\ todo' = {}
      /\ UNCHANGED <<dest, source, plan, backup, report, live, status, degraded, raced, changed, unseen, older, pre, edits, runs>>
  BY DEF DialFails, files, ghosts
<1>2. Typed'
  BY <1>1, FaultCounts DEF Inv, Typed, TypeOK, Steps
<1>3. PlanSound' /\ ReportSound'
  BY <1>1, RecordsKept
<1>4. Reads' /\ Writes' /\ Undoes' /\ RefusalExplained'
  BY <1>1, IdleKept DEF Inv, Undoes, UndoPhase
<1>5. Unchanged' /\ BackupIsPreImage'
  BY <1>1 DEF Inv, Unchanged, Expected, Op1, BackupIsPreImage, RollbackValue
<1>. QED BY <1>2, <1>3, <1>4, <1>5 DEF Inv

\* The snapshot holds what was there when it was read.
LEMMA FetchInv == ASSUME Inv, NEW i \in Items, fetchEmailLiveState(i) PROVE Inv'
<1>1. PICK r \in Readings(i) :
        /\ Read(Scope(i), r)
        /\ live' = [j \in Items |-> IF j \in DOMAIN r THEN r[j] ELSE live[j]]
  BY DEF fetchEmailLiveState
<1>2. /\ pc = "fetch" /\ todo' = todo \ Scope(i)
      /\ UNCHANGED <<dest, source, plan, backup, report, pc, status, degraded, changed, unseen, older, pre, edits, runs>>
  BY DEF fetchEmailLiveState, files
<1>3. /\ DOMAIN r = Scope(i) /\ faults' \in 0..MaxFaults /\ raced' = raced \ Scope(i)
      /\ \A j \in Scope(i) : /\ r[j] \in {dest[j], ListError, Unread}
                             /\ r[j] \notin {ListError, Unread} => r[j] = dest[j]
                             /\ r[j] = Unread => j \in Contents
  BY <1>1, ReadingGives DEF Inv, Typed
<1>4. \A j \in Items : IF j \in Scope(i) THEN live'[j] = r[j] ELSE live'[j] = live[j]
  BY <1>1, <1>3
<1>5. \A j \in Items : dest[j] \in Values(j) /\ dest[j] \in AnyValue /\ dest[j] \notin {Unread, ListError, Missing}
  BY Contained DEF Inv, Typed, TypeOK, States
<1>6. Typed'
  <2>1. \A j \in Items : live'[j] \in ReadingOf(j)
    BY <1>3, <1>4, <1>5 DEF Inv, Typed, ReadingOf
  <2>2. live' \in [Items -> AnyValue \cup {Missing, Unread, ListError}]
    <3>1. \A j \in Items : live'[j] \in AnyValue \cup {Missing, Unread, ListError}
      BY <1>3, <1>4, <1>5 DEF Inv, Typed, TypeOK
    <3>. QED BY <1>1, <3>1
  <2>. QED BY <1>2, <1>3, <2>1, <2>2 DEF Inv, Typed, TypeOK
<1>7. PlanSound' /\ ReportSound'
  BY <1>2, RecordsKept
<1>8. Reads'
  <2>1. \A j \in Items : j \notin raced' /\ live'[j] \notin {Missing, Unread, ListError} => dest[j] = live'[j]
    BY <1>2, <1>3, <1>4 DEF Inv, Reads
  <2>2. \A j \in Items : Actionable(Op1(j)) => j \in todo' \/ live'[j] # Missing
    <3>1. \A j \in Scope(i) : r[j] # Missing
      BY <1>3, <1>5, ScopeHolds, EmailApplyAssumption
    <3>. QED BY <1>2, <1>4, <3>1 DEF Inv, Reads
  <2>. QED BY <1>2, <2>1, <2>2 DEF Inv, Reads, Op1
<1>9. Writes' /\ Undoes' /\ RefusalExplained'
  BY <1>2 DEF Inv, Writes, Undoes, RefusalExplained, Refuses, WritePhase, UndoPhase
<1>10. Unchanged'
  <2>1. \A j \in Items : live'[j] \notin {Missing, Unread, ListError} => live'[j] \in {dest[j], live[j]}
    BY <1>3, <1>4
  <2>2. \A j \in Items : live'[j] \notin {Missing, Unread, ListError} =>
            live'[j] = dest[j] \/ (live'[j] = live[j] /\ live[j] \notin {Missing, Unread, ListError})
    BY <2>1
  <2>. QED BY <1>2, <2>2 DEF Inv, Unchanged, Expected, Op1
<1>11. BackupIsPreImage'
  BY <1>2 DEF Inv, BackupIsPreImage, RollbackValue
<1>. QED BY <1>6, <1>7, <1>8, <1>9, <1>10, <1>11 DEF Inv

\* The evaluation on the snapshot decides which ops stay to be written.
LEMMA EvaluateInv == ASSUME Inv, Evaluate PROVE Inv'
<1>1. /\ pc = "fetch" /\ todo = {} /\ status' = [i \in Items |-> Decision(i)]
      /\ todo' = {i \in Items : status'[i] = "write"} /\ pc' = IF todo' = {} THEN "report" ELSE "backup"
      /\ UNCHANGED <<dest, source, plan, backup, report, live, degraded, raced, changed, unseen, older, pre, edits, runs, faults>>
  BY DEF Evaluate, files, ghosts, bounds
<1>2. \A i \in Items : status'[i] = Decision(i)
  BY <1>1
<1>3. \A i \in Items : Op1(i).action \in {"none", "skip", "manual", "create", "set"}
  BY DEF Inv, Typed, TypeOK, PlanType, OpType, Op1
<1>4. \A i \in Items : /\ Decision(i) \in Statuses \ {"applied"}
                       /\ Decision(i) \in {"write", "refused"} => Actionable(Op1(i)) /\ Decision(i) = EvaluateEmailOp(i, Op1(i), live)
  BY <1>3 DEF Decision, Statuses, EvaluateEmailOp, Actionable
<1>5. Typed'
  <2>1. status' \in [Items -> Statuses] /\ todo' \subseteq Items /\ pc' \in Steps
    BY <1>1, <1>4 DEF Steps
  <2>. QED BY <1>1, <2>1 DEF Inv, Typed, TypeOK
<1>6. PlanSound' /\ ReportSound'
  BY <1>1, RecordsKept
<1>7. \A i \in Items : Actionable(Op1(i)) => live[i] # Missing /\ live[i] \in ReadingOf(i) /\ OpSound(i, Op1(i))
  BY <1>1 DEF Inv, Typed, Reads, PlanSound
<1>8. Reads'
  <2>1. \A i \in todo' : Actionable(Op1(i)) /\ live[i] \notin {Missing, Unread, ListError} /\ Replaceable(i, live[i])
    BY <1>1, <1>2, <1>4, <1>7, WriteDecided
  <2>2. \A i \in Items : status'[i] # "applied"
    BY <1>2, <1>4
  <2>. QED BY <1>1, <2>1, <2>2 DEF Inv, Reads, Op1, Replaceable
<1>9. Writes' /\ Undoes'
  BY <1>1, <1>2, <1>4 DEF Inv, Writes, Undoes, WritePhase, UndoPhase
<1>10. RefusalExplained'
  <2>. SUFFICES ASSUME NEW i \in Items, Decision(i) = "refused", i \in In("forwarders") => Scope(i) = {i}
                PROVE  i \in changed \cup unseen
    BY <1>1, <1>2 DEF RefusalExplained, Refuses
  <2>1. Actionable(Op1(i)) /\ EvaluateEmailOp(i, Op1(i), live) = "refused"
    BY <1>4
  <2>2. live[i] \notin {Missing, Unread, ListError}
    BY <1>7, <2>1 DEF EvaluateEmailOp
  <2>3. live[i] \in Values(i)
    BY <1>7, <2>1, <2>2 DEF ReadingOf
  <2>4. i \notin changed \cup unseen => Expected(i, live[i])
    BY <1>1, <2>1, <2>2 DEF Inv, Unchanged
  <2>. QED BY <1>7, <2>1, <2>3, <2>4, RefusalUnexpected
<1>11. Unchanged' /\ BackupIsPreImage'
  BY <1>1 DEF Inv, Unchanged, Expected, Op1, BackupIsPreImage, RollbackValue
<1>. QED BY <1>5, <1>6, <1>8, <1>9, <1>10, <1>11 DEF Inv

\* The backup is the snapshot of the ops that are about to be written.
LEMMA WriteBackupInv == ASSUME Inv, WriteBackup PROVE Inv'
<1>1. /\ pc = "backup" /\ live' = Unset
      /\ UNCHANGED <<dest, source, plan, report, degraded, raced, changed, unseen, edits, runs>>
  BY DEF WriteBackup
<1>2. Unset \in BackupType /\ \A i \in Items : Unset[i] = Missing
  BY DEF Unset, BackupType
<1>4. PlanSound' /\ ReportSound'
  BY <1>1, RecordsKept
<1>5. live' \in [Items -> AnyValue \cup {Missing, Unread, ListError}] /\ \A i \in Items : live'[i] \in ReadingOf(i) /\ live'[i] = Missing
  BY <1>1 DEF Unset, ReadingOf
<1>6. CASE backup' = [i \in Items |-> BackedUp(i)] /\ pc' = "check" /\ older' = FALSE /\ pre' = Unset
           /\ UNCHANGED <<todo, status, faults>>
  <2>1. \A i \in Items : /\ backup'[i] = IF live[i] = ListError THEN Missing ELSE live[i]
                         /\ live[i] \in ReadingOf(i) /\ live[i] \in AnyValue \cup {Missing, Unread, ListError}
    BY <1>6 DEF BackedUp, Inv, Typed, TypeOK
  <2>2. backup' \in BackupType /\ backup' # Missing
    BY <1>6, <2>1, EmailApplyAssumption DEF BackupType
  <2>3. \A i \in Settings : i \in Items /\ backup'[i] \in Values(i) \cup {Missing}
    BY <2>1, Kinds DEF ReadingOf, Settings, In
  <2>4. Typed'
    BY <1>1, <1>2, <1>5, <1>6, <2>2, <2>3 DEF Inv, Typed, TypeOK, Steps
  <2>5. Writes'
    <3>1. \A i \in todo : i \in Items /\ Actionable(Op1(i)) /\ live[i] \notin {Missing, Unread, ListError} /\ Replaceable(i, live[i])
                          /\ backup'[i] = live[i] /\ (i \notin raced => dest[i] = live[i])
      BY <1>1, <2>1 DEF Inv, Reads, Typed, TypeOK
    <3>2. \A i \in Items : status[i] # "applied"
      BY <1>1 DEF Inv, Reads
    <3>3. \A i \in todo :
              /\ Actionable(Op1(i))
              /\ i \in Settings => backup'[i] \notin {Absent, Missing} /\ Same(i, Op1(i).was, backup'[i])
              /\ (i \in In("forwarders") /\ i \notin raced) => dest[i] = Absent
      BY <3>1, Kinds DEF Replaceable
    <3>4. pc' = "check" /\ todo' = todo /\ status' = status /\ raced' = raced /\ dest' = dest /\ plan' = plan
      BY <1>1, <1>6
    <3>5. \A i \in todo' : Actionable(plan'.ops[i])
      BY <3>3, <3>4 DEF Op1
    <3>6. \A i \in todo' : i \in Settings => backup'[i] \notin {Absent, Missing} /\ Same(i, plan'.ops[i].was, backup'[i])
      BY <3>3, <3>4 DEF Op1
    <3>7. \A i \in todo' : (i \in In("forwarders") /\ i \notin raced') => dest'[i] = Absent
      BY <3>3, <3>4
    <3>. QED BY <2>2, <3>2, <3>4, <3>5, <3>6, <3>7 DEF Writes, WritePhase, Op1
  <2>6. Reads' /\ Undoes' /\ RefusalExplained'
    BY <1>1, <1>6 DEF Inv, Reads, Undoes, UndoPhase, RefusalExplained, Refuses
  <2>7. Unchanged'
    <3>1. \A i \in Settings : i \in Items /\ (backup'[i] # Missing => backup'[i] = live[i] /\ live[i] \notin {Missing, Unread, ListError})
      BY <2>1, <2>3, Contained, EmailApplyAssumption
    <3>2. \A i \in Items : Actionable(Op1(i)) /\ i \notin changed \cup unseen =>
             Expected(i, dest[i]) /\ (live[i] \notin {Missing, Unread, ListError} => Expected(i, live[i]))
      BY <1>1 DEF Inv, Unchanged
    <3>3. \A i \in Items : Actionable(Op1(i)) /\ i \notin changed \cup unseen =>
             Expected(i, dest[i]) /\ (i \in Settings /\ backup'[i] # Missing => Expected(i, backup'[i]))
      BY <3>1, <3>2
    <3>. QED BY <1>1, <1>6, <3>3 DEF Unchanged, Expected, Op1
  <2>8. BackupIsPreImage'
    BY <1>2, <1>6 DEF BackupIsPreImage
  <2>. QED BY <1>4, <2>4, <2>5, <2>6, <2>7, <2>8 DEF Inv
<1>7. CASE Fault /\ backup' \in {backup, Missing} /\ pc' = "idle" /\ todo' = {} /\ status' = NoResults /\ older' = older
           /\ pre' = IF backup' = backup THEN pre ELSE Unset
  <2>1. status' \in [Items -> Statuses]
    BY <1>7 DEF NoResults, Statuses
  <2>2. Typed'
    BY <1>1, <1>2, <1>5, <1>7, <2>1, FaultCounts DEF Inv, Typed, TypeOK, Steps
  <2>3. Reads' /\ Writes' /\ Undoes' /\ RefusalExplained'
    BY <1>1, <1>7, IdleKept DEF Inv, Undoes, UndoPhase
  <2>4. Unchanged'
    BY <1>1, <1>7 DEF Inv, Unchanged, Expected, Op1
  <2>5. BackupIsPreImage'
    BY <1>1, <1>2, <1>7 DEF Inv, BackupIsPreImage, RollbackValue
  <2>. QED BY <1>4, <2>2, <2>3, <2>4, <2>5 DEF Inv
<1>. QED BY <1>6, <1>7 DEF WriteBackup

\* An op that is settled in the writing phase, with a result that is true of it.
LEMMA SettledInv ==
    ASSUME Inv, NEW i \in Items, pc \in WritePhase, i \in todo, First(i),
           NEW s \in Statuses, Settle(i, s, "check", "report"), Typed',
           UNCHANGED <<source, plan, backup, report, degraded, changed, unseen, older>>,
           \A j \in Items \ {i} : dest'[j] = dest[j] /\ pre'[j] = pre[j] /\ (j \notin raced' => j \notin raced),
           s = "applied" => pre'[i] # Missing,
           s = "refused" => i \in changed \cup unseen \/ (i \in In("forwarders") /\ Scope(i) # {i}),
           Unchanged', BackupIsPreImage'
    PROVE  Inv'
<1>1. status' = [status EXCEPT ![i] = s] /\ todo' = todo \ {i} /\ pc' \in {"check", "report"}
  BY DEF Settle
<1>2. PlanSound' /\ ReportSound'
  BY RecordsKept
<1>3. \A j \in Items : j # i => status'[j] = status[j]
  BY <1>1 DEF Inv, Typed, TypeOK
<1>4. status'[i] = s /\ todo \subseteq Items
  BY <1>1 DEF Inv, Typed, TypeOK
<1>5. i = Min(todo)
  BY DEF First
<1>6. Writes'
  <2>1. \A j \in todo' : j \in Items /\ j # i /\ j \in todo
    BY <1>1, <1>4
  <2>2. \A j \in todo' :
          /\ Actionable(Op1(j))
          /\ j \in Settings => backup[j] \notin {Absent, Missing} /\ Same(j, Op1(j).was, backup[j])
          /\ (j \in In("forwarders") /\ j \notin raced') => dest'[j] = Absent
    BY <1>5, <2>1 DEF Inv, Writes
  <2>3. \A j \in Items : status'[j] = "applied" => pre'[j] # Missing /\ Actionable(Op1(j))
    BY <1>3, <1>4 DEF Inv, Writes
  <2>4. pc' # "write" /\ pc' # "verify" /\ backup # Missing
    BY <1>1 DEF Inv, Writes
  <2>. QED BY <2>2, <2>3, <2>4 DEF Writes, Op1
<1>7. Reads' /\ Undoes'
  BY <1>1 DEF Inv, Reads, Undoes, UndoPhase, WritePhase
<1>8. RefusalExplained'
  BY <1>3, <1>4 DEF Inv, RefusalExplained, Refuses, WritePhase
<1>. QED BY <1>2, <1>6, <1>7, <1>8 DEF Inv

\* The second reading lets an op through only if the value may still be
\* replaced.
LEMMA RecheckInv == ASSUME Inv, NEW i \in Items, Recheck(i) PROVE Inv'
<1>1. /\ pc = "check" /\ i \in todo /\ First(i)
      /\ UNCHANGED <<dest, source, plan, backup, report, live, degraded, changed, unseen, older, pre, edits, runs>>
  BY DEF Recheck, files
<1>2. PlanSound' /\ ReportSound'
  BY <1>1, RecordsKept
<1>3. Unchanged' /\ BackupIsPreImage'
  <2>1. pc' \notin {"fetch", "backup"}
    BY DEF Recheck, Settle
  <2>. QED BY <1>1, <2>1 DEF Inv, Unchanged, Expected, Op1, BackupIsPreImage, RollbackValue
<1>4. Actionable(Op1(i)) /\ OpSound(i, Op1(i)) /\ backup # Missing
  BY <1>1 DEF Inv, Writes, PlanSound, WritePhase
\* The op stays to be written.
<1>5. ASSUME pc' = "write", todo' = todo, status' = status, raced' \in {raced, raced \ {i}}, faults' \in 0..MaxFaults,
             i \notin raced' => Replaceable(i, dest[i]), i \in In("forwarders") => raced' = raced
      PROVE  Inv'
  <2>1. Typed'
    BY <1>1, <1>5 DEF Inv, Typed, TypeOK, Steps
  <2>2. Writes'
    <3>1. i = Min(todo)
      BY <1>1 DEF First
    <3>2. \A j \in todo :
          /\ Actionable(Op1(j))
          /\ j \in Settings => backup[j] \notin {Absent, Missing} /\ Same(j, Op1(j).was, backup[j])
          /\ (j \in In("forwarders") /\ j \notin raced') => dest[j] = Absent
      BY <1>1, <1>5 DEF Inv, Writes, WritePhase
    <3>3. \A j \in Items : status[j] = "applied" => pre[j] # Missing /\ Actionable(Op1(j))
      BY <1>1 DEF Inv, Writes, WritePhase
    <3>4. \A j \in todo' : j = Min(todo') /\ j \notin raced' => Replaceable(j, dest[j])
      BY <1>5, <3>1
    <3>. QED BY <1>1, <1>4, <1>5, <3>2, <3>3, <3>4 DEF Writes, Op1, First, Replaceable
  <2>3. Reads' /\ Undoes' /\ RefusalExplained'
    BY <1>1, <1>5 DEF Inv, Reads, Undoes, UndoPhase, RefusalExplained, Refuses
  <2>. QED BY <1>2, <1>3, <2>1, <2>2, <2>3 DEF Inv
<1>6. CASE i \in In("forwarders") /\ pc' = "write" /\ UNCHANGED <<todo, status, raced, faults>>
  <2>1. i \notin raced => Replaceable(i, dest[i])
    BY <1>1, <1>6, Kinds DEF Inv, Writes, WritePhase, Replaceable
  <2>. QED BY <1>5, <1>6, <2>1 DEF Inv, Typed, TypeOK
<1>7. CASE i \notin In("forwarders")
  <2>1. PICK r \in Readings(i) :
          /\ Read({i}, r)
          /\ LET d == EvaluateEmailOp(i, Op1(i), r) IN
             IF d = "write" THEN pc' = "write" /\ UNCHANGED <<todo, status>>
             ELSE Settle(i, d, "check", "report")
    BY <1>7 DEF Recheck
  <2>2. i \in Scope(i) /\ dest[i] \in Values(i)
    BY ScopeHolds DEF Inv, Typed, TypeOK, States
  <2>3. /\ r[i] \in {dest[i], ListError, Unread} /\ (r[i] \notin {ListError, Unread} => r[i] = dest[i])
        /\ r[i] = Unread => i \in Contents
        /\ faults' \in 0..MaxFaults /\ raced' = raced \ {i}
    BY <2>1, <2>2, ReadingGives DEF Inv, Typed
  <2>4. r[i] \in ReadingOf(i) /\ r[i] # Missing
    BY <2>2, <2>3, Contained, EmailApplyAssumption DEF ReadingOf
  <2>5. CASE EvaluateEmailOp(i, Op1(i), r) = "write"
    <3>1. Replaceable(i, dest[i])
      BY <1>4, <2>3, <2>4, <2>5, WriteDecided
    <3>. QED BY <1>5, <1>7, <2>1, <2>3, <2>5, <3>1
  <2>6. CASE EvaluateEmailOp(i, Op1(i), r) # "write"
    <3>. DEFINE d == EvaluateEmailOp(i, Op1(i), r)
    <3>1. Settle(i, d, "check", "report") /\ d \in Statuses /\ d # "applied"
      BY <2>1, <2>6 DEF EvaluateEmailOp, Statuses
    <3>2. d = "refused" => i \in changed \cup unseen
      <4>. SUFFICES ASSUME d = "refused", i \notin changed \cup unseen PROVE FALSE
        OBVIOUS
      <4>1. r[i] = dest[i]
        BY <2>3 DEF EvaluateEmailOp
      <4>2. Expected(i, r[i])
        BY <1>4, <4>1 DEF Inv, Unchanged
      <4>. QED BY <1>4, <1>7, <2>2, <4>1, <4>2, RefusalUnexpected
    <3>. HIDE DEF d
    <3>3. Typed'
      <4>1. status' \in [Items -> Statuses] /\ todo' \subseteq Items /\ pc' \in Steps
        BY <3>1 DEF Settle, Inv, Typed, TypeOK, Steps
      <4>. QED BY <1>1, <2>3, <4>1 DEF Inv, Typed, TypeOK
    <3>4. \A j \in Items \ {i} : dest'[j] = dest[j] /\ pre'[j] = pre[j] /\ (j \notin raced' => j \notin raced)
      BY <1>1, <2>3
    <3>. QED BY <1>1, <1>3, <3>1, <3>2, <3>3, <3>4, SettledInv DEF WritePhase
  <2>. QED BY <2>5, <2>6
<1>. QED BY <1>6, <1>7 DEF Recheck

\* A call writes the planned value, or fails before or after it took effect.
LEMMA WriteItemInv == ASSUME Inv, NEW i \in Items, WriteItem(i) PROVE Inv'
<1>1. /\ pc = "write" /\ i \in todo /\ First(i)
      /\ UNCHANGED <<source, plan, backup, report, live, degraded, raced, changed, unseen, older, edits, runs>>
  BY DEF WriteItem, files
<1>2. PICK effect \in BOOLEAN, ok \in BOOLEAN :
        /\ ok => effect
        /\ IF effect THEN /\ dest' = [dest EXCEPT ![i] = Op1(i).value]
                          /\ pre' = [pre EXCEPT ![i] = IF i \in raced THEN Unread ELSE dest[i]]
                     ELSE UNCHANGED <<dest, pre>>
        /\ IF ok THEN pc' = "verify" /\ UNCHANGED <<todo, status, faults>>
                 ELSE Fault /\ Settle(i, "failed", "check", "report")
  BY DEF WriteItem, Carried
<1>3. /\ Actionable(Op1(i)) /\ OpSound(i, Op1(i)) /\ backup # Missing
      /\ i \in Settings => backup[i] \notin {Absent, Missing} /\ Same(i, Op1(i).was, backup[i])
      /\ i \notin raced => Replaceable(i, dest[i])
  BY <1>1 DEF Inv, Writes, PlanSound, WritePhase
<1>4. /\ Op1(i).value \in Values(i) /\ Op1(i).value \in AnyValue /\ dest[i] \in Values(i) /\ dest[i] \in AnyValue
      /\ dest[i] # Missing /\ Unread # Missing
  BY <1>3, Contained, EmailApplyAssumption DEF OpSound, Inv, Typed, TypeOK, States
<1>5. \A j \in Items \ {i} : dest'[j] = dest[j] /\ pre'[j] = pre[j]
  BY <1>2 DEF Inv, Typed, TypeOK, States, BackupType
<1>6. \/ dest'[i] = dest[i] /\ pre'[i] = pre[i] /\ ~ok
      \/ dest'[i] = Op1(i).value /\ pre'[i] = (IF i \in raced THEN Unread ELSE dest[i]) /\ pre'[i] # Missing
  BY <1>2, <1>4 DEF Inv, Typed, TypeOK, States, BackupType
<1>7. Typed'
  <2>1. dest' \in States /\ pre' \in BackupType
    BY <1>2, <1>4 DEF Inv, Typed, TypeOK, States, BackupType
  <2>2. status' \in [Items -> Statuses] /\ todo' \subseteq Items /\ pc' \in Steps
    BY <1>2 DEF Settle, Inv, Typed, TypeOK, Steps, Statuses
  <2>3. faults' \in 0..MaxFaults
    BY <1>2, FaultCounts DEF Inv, Typed, TypeOK
  <2>. QED BY <1>1, <2>1, <2>2, <2>3 DEF Inv, Typed, TypeOK
<1>8. Unchanged'
  <2>1. pc' \notin {"fetch", "backup"}
    BY <1>2 DEF Settle
  <2>2. Same(i, Op1(i).value, Op1(i).value) /\ Op1(i).value # Absent
    BY <1>3, SameEquivalence DEF OpSound
  <2>3. \A j \in Items : Actionable(Op1(j)) /\ j \notin changed \cup unseen => Expected(j, dest'[j])
    <3>1. Expected(i, Op1(i).value)
      BY <2>2 DEF Expected
    <3>. QED BY <1>5, <1>6, <3>1 DEF Inv, Unchanged
  <2>. QED BY <1>1, <2>1, <2>3 DEF Inv, Unchanged, Expected, Op1
<1>9. BackupIsPreImage'
  <2>1. \A j \in Items \ {i} : pre'[j] \notin {Missing, Unread} => Same(j, pre'[j], RollbackValue(j))
    BY <1>5 DEF Inv, BackupIsPreImage
  <2>2. pre'[i] \notin {Missing, Unread} => Same(i, pre'[i], RollbackValue(i))
    <3>1. pre'[i] = pre[i] => (pre'[i] \notin {Missing, Unread} => Same(i, pre'[i], RollbackValue(i)))
      BY DEF Inv, BackupIsPreImage
    <3>2. i \notin raced => Same(i, dest[i], RollbackValue(i))
      BY <1>3, SameEquivalence DEF Replaceable, RollbackValue
    <3>. QED BY <1>6, <3>1, <3>2
  <2>. QED BY <1>1, <1>3, <2>1, <2>2 DEF BackupIsPreImage, RollbackValue
<1>10. CASE ~ok
  <2>1. Settle(i, "failed", "check", "report") /\ "failed" \in Statuses
    BY <1>2, <1>10 DEF Statuses
  <2>. QED BY <1>1, <1>5, <1>7, <1>8, <1>9, <2>1, SettledInv DEF WritePhase
<1>11. CASE ok
  <2>1. pc' = "verify" /\ UNCHANGED <<todo, status, faults>>
    BY <1>2, <1>11
  <2>2. PlanSound' /\ ReportSound'
    BY <1>1, RecordsKept
  <2>3. Writes'
    <3>1. i = Min(todo) /\ todo \subseteq Items
      BY <1>1 DEF First, Inv, Typed, TypeOK
    <3>2. \A j \in todo :
          /\ Actionable(Op1(j))
          /\ j \in Settings => backup[j] \notin {Absent, Missing} /\ Same(j, Op1(j).was, backup[j])
          /\ (j \in In("forwarders") /\ j \notin raced /\ j # i) => dest'[j] = Absent
      BY <1>1, <1>5, <3>1 DEF Inv, Writes, WritePhase
    <3>3. \A j \in Items : status[j] = "applied" => pre'[j] # Missing /\ Actionable(Op1(j))
      BY <1>1, <1>3, <1>5, <1>6, <1>11 DEF Inv, Writes, WritePhase
    <3>4. \A j \in todo' : j = Min(todo') => pre'[j] # Missing
      BY <1>6, <1>11, <2>1, <3>1
    <3>. QED BY <1>1, <1>3, <2>1, <3>1, <3>2, <3>3, <3>4 DEF Writes, Op1, First
  <2>4. Reads' /\ Undoes' /\ RefusalExplained'
    BY <1>1, <2>1 DEF Inv, Reads, Undoes, UndoPhase, RefusalExplained, Refuses
  <2>. QED BY <1>7, <1>8, <1>9, <2>2, <2>3, <2>4 DEF Inv
<1>. QED BY <1>10, <1>11

\* The reading after the writes decides the status of an op.
LEMMA VerifyAfterInv == ASSUME Inv, NEW i \in Items, VerifyAfter(i) PROVE Inv'
<1>1. /\ pc = "verify" /\ i \in todo /\ First(i)
      /\ UNCHANGED <<dest, source, plan, backup, report, live, degraded, changed, unseen, older, pre, edits, runs>>
  BY DEF VerifyAfter, files
<1>2. PICK r \in Readings(i), s \in {"applied", "failed"} : Read({i}, r) /\ Settle(i, s, "check", "report")
  BY DEF VerifyAfter
<1>3. faults' \in 0..MaxFaults /\ raced' = raced \ {i} /\ s \in Statuses
  BY <1>2, ReadingGives DEF Inv, Typed, Statuses
<1>4. Typed'
  <2>1. status' \in [Items -> Statuses] /\ todo' \subseteq Items /\ pc' \in Steps
    BY <1>2, <1>3 DEF Settle, Inv, Typed, TypeOK, Steps
  <2>. QED BY <1>1, <1>3, <2>1 DEF Inv, Typed, TypeOK
<1>5. Unchanged' /\ BackupIsPreImage'
  <2>1. pc' \notin {"fetch", "backup"}
    BY <1>2 DEF Settle
  <2>. QED BY <1>1, <2>1 DEF Inv, Unchanged, Expected, Op1, BackupIsPreImage, RollbackValue
<1>6. pre'[i] # Missing
  BY <1>1 DEF Inv, Writes
<1>7. \A j \in Items \ {i} : dest'[j] = dest[j] /\ pre'[j] = pre[j] /\ (j \notin raced' => j \notin raced)
  BY <1>1, <1>3
<1>. QED BY <1>1, <1>2, <1>3, <1>4, <1>5, <1>6, <1>7, SettledInv DEF WritePhase

\* The report names as applied what the tool wrote.
LEMMA FinishReportInv == ASSUME Inv, finishEmailReport PROVE Inv'
<1>1. /\ pc = "report" /\ pc' = "idle" /\ status' = NoResults /\ live' = Unset
      /\ UNCHANGED <<dest, source, plan, backup, todo, degraded, raced, changed, unseen, older, pre, edits, runs>>
  BY DEF finishEmailReport
<1>2. \/ report' = [ops |-> plan.ops, status |-> status] /\ faults' = faults
      \/ Fault /\ report' \in {report, Missing}
  BY DEF finishEmailReport
<1>3. Typed'
  <2>1. report' \in ReportType \cup {Missing} /\ faults' \in 0..MaxFaults
    BY <1>2, FaultCounts DEF Inv, Typed, TypeOK, PlanType, ReportType
  <2>2. live' \in [Items -> AnyValue \cup {Missing, Unread, ListError}] /\ status' \in [Items -> Statuses]
        /\ \A i \in Items : live'[i] \in ReadingOf(i)
    BY <1>1 DEF Unset, NoResults, Statuses, ReadingOf
  <2>. QED BY <1>1, <1>2, <2>1, <2>2 DEF Inv, Typed, TypeOK, Steps
<1>4. PlanSound'
  BY <1>1 DEF Inv, PlanSound, OpSound, Op1
<1>5. ReportSound'
  <2>1. \A i \in Items : status[i] = "applied" => Actionable(plan.ops[i]) /\ (i \in In("forwarders") => plan.ops[i].value = "on")
    BY <1>1 DEF Inv, Writes, PlanSound, OpSound, Op1
  <2>. QED BY <1>2, <2>1 DEF Inv, ReportSound
<1>6. Reads' /\ Writes' /\ Undoes' /\ RefusalExplained'
  BY <1>1, IdleKept DEF Inv, Undoes, UndoPhase
<1>7. Unchanged' /\ BackupIsPreImage'
  BY <1>1 DEF Inv, Unchanged, Expected, Op1, BackupIsPreImage, RollbackValue
<1>. QED BY <1>3, <1>4, <1>5, <1>6, <1>7 DEF Inv

-----------------------------------------------------------------------------
(* Every step keeps the invariant: the rollback, and the crash             *)

\* A rollback undoes what the report says was applied, and without a report
\* the settings that the backup holds.
LEMMA StartRollbackInv == ASSUME Inv, StartRollback PROVE Inv'
<1>1. /\ pc = "idle" /\ runs < MaxRuns /\ backup # Missing /\ runs' = runs + 1
      /\ \A i \in RollbackOps \cap Settings : backup[i] \notin {Missing, Absent}
      /\ degraded' = (report = Missing) /\ todo' = RollbackOps /\ status' = NoResults
      /\ pc' = IF todo' = {} THEN "rreport" ELSE "rcheck"
      /\ UNCHANGED <<dest, source, plan, backup, report, live, raced, changed, unseen, older, pre, edits, faults>>
  BY DEF StartRollback, files, ghosts
<1>2. RollbackOps \subseteq Items
  BY DEF RollbackOps, Settings, In
<1>3. Typed'
  <2>1. status' \in [Items -> Statuses] /\ pc' \in Steps /\ degraded' \in BOOLEAN
    BY <1>1 DEF NoResults, Statuses, Steps
  <2>2. runs' \in 0..MaxRuns
    BY <1>1, EmailApplyAssumption DEF Inv, Typed, TypeOK
  <2>. QED BY <1>1, <1>2, <2>1, <2>2 DEF Inv, Typed, TypeOK
<1>4. PlanSound' /\ ReportSound'
  BY <1>1, RecordsKept
<1>5. Reads' /\ Writes' /\ RefusalExplained'
  BY <1>1 DEF Reads, Writes, RefusalExplained, Refuses, WritePhase
<1>6. Undoes'
  <2>1. \A i \in Items : status'[i] = "none"
    BY <1>1 DEF NoResults
  <2>2. RollbackOps' = RollbackOps
    BY <1>1 DEF RollbackOps
  <2>. QED BY <1>1, <1>2, <2>1, <2>2 DEF Undoes, UndoPhase
<1>7. Unchanged' /\ BackupIsPreImage'
  BY <1>1 DEF Inv, Unchanged, Expected, Op1, BackupIsPreImage, RollbackValue
<1>. QED BY <1>3, <1>4, <1>5, <1>6, <1>7 DEF Inv

\* A step within the rollback that leaves the files alone: what remains to be
\* shown is what it says of the items.
LEMMA UndoStep ==
    ASSUME Inv, NEW i \in Items, pc \in UndoPhase, i \in todo, pc' \in UndoPhase, Typed',
           UNCHANGED <<source, plan, backup, report, degraded, unseen, older, pre>>,
           todo' \subseteq todo, \A j \in Items \ {i} : status'[j] = status[j],
           i \in todo' => status'[i] = "none",
           \A j \in Items \ {i} : dest'[j] = dest[j] /\ (j \notin raced' => j \notin raced),
           i \notin raced' /\ status'[i] \in {"applied", "already"} => Same(i, RollbackValue(i), dest'[i]),
           pc' = "rwrite" => /\ i = Min(todo')
                             /\ i \notin raced' /\ ~degraded => Same(i, report.ops[i].value, dest'[i]),
           changed' \in {changed, changed \cup {i}}, i \notin changed' \cup unseen /\ Actionable(Op1(i)) => Expected(i, dest'[i])
    PROVE  Inv'
<1>1. PlanSound' /\ ReportSound'
  BY RecordsKept
<1>2. Reads' /\ Writes' /\ RefusalExplained'
  BY DEF Reads, Writes, RefusalExplained, Refuses, WritePhase, UndoPhase
<1>3. BackupIsPreImage'
  BY DEF Inv, BackupIsPreImage, RollbackValue
<1>4. Unchanged'
  <2>1. \A j \in Items : Actionable(Op1(j)) /\ j \notin changed' \cup unseen => Expected(j, dest'[j]) /\ j \notin changed
    BY DEF Inv, Unchanged
  <2>2. pc' \notin {"fetch", "backup"}
    BY DEF UndoPhase
  <2>. QED BY <2>1, <2>2 DEF Inv, Unchanged, Expected, Op1
<1>5. Undoes'
  <2>1. RollbackOps' = RollbackOps /\ \A j \in Items : RollbackValue(j)' = RollbackValue(j)
    BY DEF RollbackOps, RollbackValue
  <2>2. backup # Missing /\ (degraded <=> report = Missing) /\ todo \subseteq RollbackOps /\ todo \subseteq Items
    BY DEF Inv, Undoes, Typed, TypeOK
  <2>3. \A j \in todo' : status'[j] = "none" /\ (j \in Settings => backup[j] \notin {Missing, Absent})
    BY <2>2 DEF Inv, Undoes
  <2>4. \A j \in Items : j \notin raced' /\ status'[j] \in {"applied", "already"} => Same(j, RollbackValue(j), dest'[j])
    BY DEF Inv, Undoes
  <2>. QED BY <2>1, <2>2, <2>3, <2>4 DEF Undoes, First
<1>. QED BY <1>1, <1>2, <1>3, <1>4, <1>5 DEF Inv

\* A rollback reads an item again and goes on only where the inverse applies.
LEMMA RollbackCheckInv == ASSUME Inv, NEW i \in Items, RollbackCheck(i) PROVE Inv'
<1>1. /\ pc = "rcheck" /\ i \in todo /\ First(i)
      /\ UNCHANGED <<dest, source, plan, backup, report, live, degraded, changed, unseen, older, pre, edits, runs>>
  BY DEF RollbackCheck, files
<1>2. PICK r \in Readings(i) :
        /\ Read({i}, r)
        /\ LET d == Precheck(i, r[i]) IN
           IF d = "write" THEN pc' = "rwrite" /\ UNCHANGED <<todo, status>>
           ELSE Settle(i, d, "rcheck", "rreport")
  BY DEF RollbackCheck
<1>3. i \in Scope(i) /\ dest[i] \in Values(i)
  BY ScopeHolds DEF Inv, Typed, TypeOK, States
<1>4. /\ r[i] \notin {ListError, Unread} => r[i] = dest[i]
      /\ r[i] = Unread => i \in Contents
      /\ faults' \in 0..MaxFaults /\ raced' = raced \ {i}
  BY <1>2, <1>3, ReadingGives DEF Inv, Typed
<1>5. /\ backup # Missing /\ (degraded <=> report = Missing) /\ i \in RollbackOps /\ status[i] = "none"
      /\ Actionable(Op1(i)) /\ i \notin changed \cup unseen => Expected(i, dest[i])
  BY <1>1 DEF Inv, Undoes, UndoPhase, Unchanged
<1>. DEFINE d == Precheck(i, r[i])
<1>6. d \in {"failed", "already", "unreadable", "refused", "write"}
  BY DEF Precheck
<1>7. d = "already" => Same(i, RollbackValue(i), dest[i])
  <2>. SUFFICES ASSUME d = "already" PROVE Same(i, RollbackValue(i), dest[i])
    OBVIOUS
  <2>1. r[i] # ListError /\ Same(i, RollbackValue(i), r[i])
    BY DEF Precheck
  <2>2. r[i] # Unread
    <3>. SUFFICES ASSUME r[i] = Unread PROVE FALSE
      OBVIOUS
    <3>1. i \in Contents /\ i \notin Settings /\ Section[i] # "default_address"
      BY <1>4, Kinds DEF Contents, In
    <3>2. RollbackValue(i) = Absent
      BY <3>1 DEF RollbackValue
    <3>. QED BY <2>1, <3>1, <3>2, EmailPlanAssumption DEF Same
  <2>. QED BY <1>4, <2>1, <2>2
<1>8. CASE d = "write"
  <2>1. pc' = "rwrite" /\ UNCHANGED <<todo, status>>
    BY <1>2, <1>8
  <2>2. r[i] = dest[i] /\ r[i] # Absent
    BY <1>4, <1>8 DEF Precheck
  <2>3. i \in In("forwarders") \/ degraded \/ Same(i, report.ops[i].value, dest[i])
    BY <1>8, <2>2 DEF Precheck
  <2>4. ~degraded => Same(i, report.ops[i].value, dest[i])
    <3>1. ~degraded /\ i \in In("forwarders") => report.ops[i].value = "on" /\ dest[i] = "on"
      BY <1>3, <1>5, <2>2, Contained DEF Inv, ReportSound, RollbackOps
    <3>. QED BY <2>3, <3>1, SameEquivalence
  <2>5. Typed'
    BY <1>1, <1>4, <2>1 DEF Inv, Typed, TypeOK, Steps
  <2>6. i = Min(todo') /\ pc \in UndoPhase /\ pc' \in UndoPhase
    BY <1>1, <2>1 DEF First, UndoPhase
  <2>. HIDE DEF d
  <2>. QED BY <1>1, <1>4, <1>5, <2>1, <2>4, <2>5, <2>6, UndoStep
<1>9. CASE d # "write"
  <2>1. Settle(i, d, "rcheck", "rreport")
    BY <1>2, <1>9
  <2>. HIDE DEF d
  <2>2. status' = [status EXCEPT ![i] = d] /\ todo' = todo \ {i} /\ pc' \in {"rcheck", "rreport"}
    BY <2>1 DEF Settle
  <2>3. Typed'
    <3>1. status' \in [Items -> Statuses] /\ todo' \subseteq Items /\ pc' \in Steps
      BY <1>6, <2>2 DEF Inv, Typed, TypeOK, Steps, Statuses
    <3>. QED BY <1>1, <1>4, <3>1 DEF Inv, Typed, TypeOK
  <2>4. status'[i] = d /\ \A j \in Items \ {i} : status'[j] = status[j]
    BY <2>2 DEF Inv, Typed, TypeOK
  <2>5. pc \in UndoPhase /\ pc' \in UndoPhase /\ pc' # "rwrite"
    BY <1>1, <2>2 DEF UndoPhase
  <2>. QED BY <1>1, <1>4, <1>5, <1>6, <1>7, <2>2, <2>3, <2>4, <2>5, UndoStep
<1>. QED BY <1>8, <1>9

\* The inverse call restores what the backup holds.
LEMMA RollbackWriteInv == ASSUME Inv, NEW i \in Items, RollbackWrite(i) PROVE Inv'
<1>1. /\ pc = "rwrite" /\ i \in todo /\ First(i)
      /\ UNCHANGED <<source, plan, backup, report, live, degraded, raced, unseen, older, pre, edits, runs>>
  BY DEF RollbackWrite, files
<1>2. PICK effect \in BOOLEAN, ok \in BOOLEAN :
        /\ ok => effect
        /\ IF effect THEN dest' = [dest EXCEPT ![i] = RollbackValue(i)] ELSE UNCHANGED dest
        /\ changed' = IF effect /\ older THEN changed \cup {i} ELSE changed
        /\ IF ok THEN pc' = "rverify" /\ UNCHANGED <<todo, status, faults>>
                 ELSE Fault /\ Settle(i, "failed", "rcheck", "rreport")
  BY DEF RollbackWrite, Carried
<1>3. /\ backup # Missing /\ status[i] = "none" /\ (i \in Settings => backup[i] \notin {Missing, Absent})
      /\ i \in Settings => backup[i] \in Values(i) \cup {Missing}
  BY <1>1 DEF Inv, Undoes, UndoPhase, Typed
<1>4. RollbackValue(i) \in Values(i)
  BY <1>3, AbsentIsValue DEF RollbackValue
<1>5. RollbackValue(i) \in AnyValue
  BY <1>4, Contained
<1>6. dest' \in States
  BY <1>2, <1>4, <1>5 DEF Inv, Typed, TypeOK, States
<1>7. dest'[i] = (IF effect THEN RollbackValue(i) ELSE dest[i]) /\ \A j \in Items \ {i} : dest'[j] = dest[j]
  BY <1>2 DEF Inv, Typed, TypeOK, States
<1>8. i \notin changed' \cup unseen /\ Actionable(Op1(i)) => Expected(i, dest'[i])
  <2>. SUFFICES ASSUME i \notin changed' \cup unseen, Actionable(Op1(i)) PROVE Expected(i, dest'[i])
    OBVIOUS
  <2>1. i \notin changed /\ Expected(i, dest[i])
    BY <1>2 DEF Inv, Unchanged
  <2>2. CASE effect
    <3>1. ~older
      BY <1>2, <2>2
    <3>2. CASE i \in Settings
      BY <1>3, <1>7, <2>1, <2>2, <3>1, <3>2 DEF Inv, Unchanged, RollbackValue
    <3>3. CASE i \notin Settings
      BY <1>7, <2>2, <3>3 DEF RollbackValue, Expected
    <3>. QED BY <3>2, <3>3
  <2>. QED BY <1>7, <2>1, <2>2
<1>9. status' \in [Items -> Statuses] /\ todo' \subseteq todo /\ pc' \in {"rverify", "rcheck", "rreport"}
      /\ (\A j \in Items \ {i} : status'[j] = status[j]) /\ status'[i] \in {"none", "failed"} /\ (i \in todo' => status'[i] = "none")
  BY <1>2, <1>3 DEF Settle, Inv, Typed, TypeOK, Statuses
<1>10. Typed'
  <2>1. faults' \in 0..MaxFaults /\ changed' \subseteq Items
    BY <1>2, FaultCounts DEF Inv, Typed, TypeOK
  <2>. QED BY <1>1, <1>6, <1>9, <2>1 DEF Inv, Typed, TypeOK, Steps
<1>11. pc \in UndoPhase /\ pc' \in UndoPhase /\ pc' # "rwrite" /\ changed' \in {changed, changed \cup {i}}
  BY <1>1, <1>2, <1>9 DEF UndoPhase
<1>. QED BY <1>1, <1>7, <1>8, <1>9, <1>10, <1>11, UndoStep

\* The reading after the rollback decides the status of an inverse.
LEMMA RollbackVerifyInv == ASSUME Inv, NEW i \in Items, RollbackVerify(i) PROVE Inv'
<1>1. /\ pc = "rverify" /\ i \in todo /\ First(i)
      /\ UNCHANGED <<dest, source, plan, backup, report, live, degraded, changed, unseen, older, pre, edits, runs>>
  BY DEF RollbackVerify, files
<1>2. PICK r \in Readings(i) :
        /\ Read({i}, r)
        /\ Settle(i, IF r[i] # ListError /\ Same(i, RollbackValue(i), r[i]) THEN "applied" ELSE "failed", "rcheck", "rreport")
  BY DEF RollbackVerify
<1>3. i \in Scope(i)
  BY ScopeHolds
<1>4. /\ r[i] \notin {ListError, Unread} => r[i] = dest[i]
      /\ r[i] = Unread => i \in Contents
      /\ faults' \in 0..MaxFaults /\ raced' = raced \ {i}
  BY <1>2, <1>3, ReadingGives DEF Inv, Typed
<1>5. PICK s \in {"applied", "failed"} :
        /\ status' = [status EXCEPT ![i] = s] /\ todo' = todo \ {i} /\ pc' \in {"rcheck", "rreport"}
        /\ s = "applied" => r[i] # ListError /\ Same(i, RollbackValue(i), r[i])
  BY <1>2 DEF Settle
<1>6. s = "applied" => Same(i, RollbackValue(i), dest[i])
  <2>. SUFFICES ASSUME s = "applied" PROVE r[i] # Unread
    BY <1>4, <1>5
  <2>. SUFFICES ASSUME r[i] = Unread PROVE FALSE
    OBVIOUS
  <2>1. i \in Contents /\ i \notin Settings /\ Section[i] # "default_address"
    BY <1>4, Kinds DEF Contents, In
  <2>2. RollbackValue(i) = Absent
    BY <2>1 DEF RollbackValue
  <2>. QED BY <1>5, <2>1, <2>2, EmailPlanAssumption DEF Same
<1>7. Typed'
  <2>1. status' \in [Items -> Statuses] /\ todo' \subseteq Items /\ pc' \in Steps
    BY <1>5 DEF Inv, Typed, TypeOK, Steps, Statuses
  <2>. QED BY <1>1, <1>4, <2>1 DEF Inv, Typed, TypeOK
<1>8. status'[i] = s /\ \A j \in Items \ {i} : status'[j] = status[j]
  BY <1>5 DEF Inv, Typed, TypeOK
<1>9. pc \in UndoPhase /\ pc' \in UndoPhase /\ pc' # "rwrite" /\ (Actionable(Op1(i)) /\ i \notin changed \cup unseen => Expected(i, dest[i]))
  BY <1>1, <1>5 DEF UndoPhase, Inv, Unchanged
<1>. QED BY <1>1, <1>4, <1>5, <1>6, <1>7, <1>8, <1>9, UndoStep

\* The report of a rollback changes no record of the apply.
LEMMA RollbackReportInv == ASSUME Inv, RollbackReport PROVE Inv'
<1>1. /\ pc = "rreport" /\ pc' = "idle" /\ status' = NoResults /\ degraded' = FALSE
      /\ UNCHANGED <<dest, source, plan, backup, report, todo, live, raced, changed, unseen, older, pre, edits, runs, faults>>
  BY DEF RollbackReport, files, ghosts, bounds
<1>2. Typed'
  <2>1. status' \in [Items -> Statuses]
    BY <1>1 DEF NoResults, Statuses
  <2>. QED BY <1>1, <2>1 DEF Inv, Typed, TypeOK, Steps
<1>3. PlanSound' /\ ReportSound'
  BY <1>1, RecordsKept
<1>4. Reads' /\ Writes' /\ Undoes' /\ RefusalExplained'
  BY <1>1, IdleKept
<1>5. Unchanged' /\ BackupIsPreImage'
  BY <1>1 DEF Inv, Unchanged, Expected, Op1, BackupIsPreImage, RollbackValue
<1>. QED BY <1>2, <1>3, <1>4, <1>5 DEF Inv

\* A process may die between any two calls and files.
LEMMA CrashInv == ASSUME Inv, Crash PROVE Inv'
<1>1. /\ Fault /\ pc' = "idle" /\ todo' = {} /\ live' = Unset /\ status' = NoResults /\ degraded' = FALSE
      /\ backup' \in {backup, Missing} /\ (backup' # backup => pc = "backup") /\ report' \in {report, Missing}
      /\ pre' = IF backup' = backup THEN pre ELSE Unset
      /\ UNCHANGED <<dest, source, plan, raced, changed, unseen, older, edits, runs>>
  BY DEF Crash
<1>2. Typed'
  <2>1. live' \in [Items -> AnyValue \cup {Missing, Unread, ListError}] /\ status' \in [Items -> Statuses]
        /\ \A i \in Items : live'[i] \in ReadingOf(i)
    BY <1>1 DEF Unset, NoResults, Statuses, ReadingOf
  <2>2. backup' \in BackupType \cup {Missing} /\ report' \in ReportType \cup {Missing} /\ faults' \in 0..MaxFaults
    BY <1>1, FaultCounts DEF Inv, Typed, TypeOK
  <2>3. pre' \in BackupType
    BY <1>1 DEF Inv, Typed, TypeOK, Unset, BackupType
  <2>. QED BY <1>1, <2>1, <2>2, <2>3 DEF Inv, Typed, TypeOK, Steps
<1>3. PlanSound' /\ ReportSound'
  BY <1>1 DEF Inv, PlanSound, OpSound, Op1, ReportSound
<1>4. Reads' /\ Writes' /\ Undoes' /\ RefusalExplained'
  BY <1>1, IdleKept
<1>5. Unchanged'
  BY <1>1 DEF Inv, Unchanged, Expected, Op1
<1>6. BackupIsPreImage'
  <2>1. \A i \in Items : Unset[i] = Missing
    BY DEF Unset
  <2>. QED BY <1>1, <2>1 DEF Inv, BackupIsPreImage, RollbackValue
<1>. QED BY <1>2, <1>3, <1>4, <1>5, <1>6 DEF Inv

\* The invariant is about the variables of the module only.
LEMMA StutterInv == ASSUME Inv, UNCHANGED vars PROVE Inv'
<1>1. UNCHANGED <<dest, source, plan, backup, report, pc, todo, live, status, degraded, raced, changed, unseen, older, pre, edits, runs, faults>>
  BY DEF vars, files, locals, ghosts, bounds
<1>2. PlanSound' /\ ReportSound'
  BY <1>1, RecordsKept
<1>3. Typed' /\ BackupIsPreImage' /\ RefusalExplained'
  BY <1>1 DEF Inv, Typed, TypeOK, BackupIsPreImage, RefusalExplained, Refuses, RollbackValue
<1>4. Reads' /\ Writes' /\ Unchanged'
  BY <1>1 DEF Inv, Reads, Writes, Unchanged, Expected, Replaceable, Op1, First
<1>5. Undoes'
  BY <1>1 DEF Inv, Undoes, RollbackOps, RollbackValue, First
<1>. QED BY <1>2, <1>3, <1>4, <1>5 DEF Inv

\* Every step keeps the invariant.
LEMMA NextInv == ASSUME Inv, [Next]_vars PROVE Inv'
  BY BuildPlanInv, StartApplyInv, DialFailsInv, EvaluateInv, WriteBackupInv, FinishReportInv, StartRollbackInv,
     RollbackReportInv, CrashInv, OwnerEditInv, FetchInv, RecheckInv, WriteItemInv, VerifyAfterInv, RollbackCheckInv,
     RollbackWriteInv, RollbackVerifyInv, StutterInv DEF Next

-----------------------------------------------------------------------------
(* What the records tell                                                   *)

\* The invariant implies that the records are sound.
LEMMA InvRecords == Inv => RecordsSound
<1>. SUFFICES ASSUME Inv PROVE RecordsSound
  OBVIOUS
<1>1. TypeOK /\ BackupIsPreImage /\ RefusalExplained
  BY DEF Inv, Typed
<1>2. RollbackRestores
  <2>. SUFFICES ASSUME NEW i \in Items, pc \in UndoPhase, i \notin raced,
                       status[i] \in {"applied", "already"}, pre[i] \notin {Missing, Unread}
                PROVE  Same(i, pre[i], dest[i])
    BY DEF RollbackRestores, UndoPhase
  <2>1. Same(i, pre[i], RollbackValue(i))
    BY DEF Inv, BackupIsPreImage
  <2>2. Same(i, RollbackValue(i), dest[i])
    BY DEF Inv, Undoes
  <2>. QED BY <2>1, <2>2, SameEquivalence
<1>. QED BY <1>1, <1>2 DEF RecordsSound

\* The records of `email apply` are sound in every state, for any account, any
\* number of runs, edits, failed calls and crashes: the backup holds what the
\* writes replaced, a rollback that reports an item as undone has put that back,
\* and an op is refused only for what was changed since the plan, or for what the
\* plan's inventory had missed.
THEOREM RecordsAreSound == Spec => []RecordsSound
<1>1. Init => Inv
  BY InitInv
<1>2. Inv /\ [Next]_vars => Inv'
  BY NextInv
<1>3. Inv => RecordsSound
  BY InvRecords
<1>. QED BY <1>1, <1>2, <1>3, PTL DEF Spec

\* The invariant implies that a clean verification means migrated.
LEMMA InvClean == Inv => CleanMeansMigrated
<1>. SUFFICES ASSUME Inv, Clean(plan, dest), NEW i \in Items, source[i] # Absent,
                     Op1(i).action \notin {"none", "manual"}
              PROVE  Same(i, source[i], dest[i])
  BY DEF CleanMeansMigrated
<1>1. Op1(i).action \in {"skip", "create", "set"}
  BY DEF Inv, Typed, TypeOK, PlanType, OpType, Op1
<1>2. Same(i, source[i], Op1(i).value)
  BY <1>1 DEF Inv, PlanSound, OpSound
<1>3. verifyEmailOp(i, Op1(i), dest) \notin {"pending", "drift", "unavailable"}
  BY DEF Clean, Op1
<1>4. EmailOutcomePresent(i, Op1(i), dest)
  BY <1>1, <1>3 DEF verifyEmailOp
<1>. QED BY <1>2, <1>4, SameEquivalence DEF EmailOutcomePresent

\* A clean `email verify` means what it says: the destination has all that the
\* source has, whatever runs, edits and failures came before it.
THEOREM CleanIsMigrated == Spec => []CleanMeansMigrated
<1>1. Init => Inv
  BY InitInv
<1>2. Inv /\ [Next]_vars => Inv'
  BY NextInv
<1>3. Inv => CleanMeansMigrated
  BY InvClean
<1>. QED BY <1>1, <1>2, <1>3, PTL DEF Spec

-----------------------------------------------------------------------------
(* What may be replaced                                                    *)

\* Only the two writing calls and the owner change the destination.
LEMMA OnlyCallsWrite ==
    ASSUME Inv, [Next]_vars, dest' # dest
    PROVE  \/ edits' # edits
           \/ \E i \in Items : WriteItem(i) \/ RollbackWrite(i)
<1>1. CASE \E e \in OwnerEdits : OwnerEdit(e[1], e[2])
  BY <1>1 DEF OwnerEdit, Inv, Typed, TypeOK
<1>2. CASE \/ BuildPlan \/ StartApply \/ DialFails \/ Evaluate \/ WriteBackup \/ finishEmailReport
           \/ StartRollback \/ RollbackReport \/ Crash \/ UNCHANGED vars
  BY <1>2 DEF BuildPlan, StartApply, DialFails, Evaluate, WriteBackup, finishEmailReport,
              StartRollback, RollbackReport, Crash, vars
<1>3. CASE \E i \in Items : fetchEmailLiveState(i) \/ Recheck(i) \/ VerifyAfter(i) \/ RollbackCheck(i) \/ RollbackVerify(i)
  BY <1>3 DEF fetchEmailLiveState, Recheck, VerifyAfter, RollbackCheck, RollbackVerify
<1>. QED BY <1>1, <1>2, <1>3 DEF Next

\* Between a reading and the call that follows it, a step of the tool replaces
\* only what the plan had seen, and a rollback only what the apply wrote.
LEMMA ReviewedStep ==
    ASSUME Inv, [Next]_vars, NEW i \in Items, dest'[i] # dest[i], edits' = edits, i \notin raced, ~degraded
    PROVE  IF pc = "write" THEN dest[i] = Absent \/ Same(i, Op1(i).was, dest[i])
           ELSE Same(i, report.ops[i].value, dest[i])
<1>1. PICK j \in Items : WriteItem(j) \/ RollbackWrite(j)
  BY OnlyCallsWrite
<1>2. /\ j \in todo /\ First(j) /\ \E v : dest' = [dest EXCEPT ![j] = v]
      /\ WriteItem(j) => pc = "write"
      /\ RollbackWrite(j) => pc = "rwrite"
  <2>1. CASE WriteItem(j)
    BY <2>1 DEF WriteItem, RollbackWrite, Carried
  <2>2. CASE RollbackWrite(j)
    BY <2>2 DEF WriteItem, RollbackWrite, Carried
  <2>. QED BY <1>1, <2>1, <2>2
<1>3. i = j
  BY <1>2 DEF Inv, Typed, TypeOK, States
<1>4. CASE pc = "write"
  BY <1>2, <1>3, <1>4 DEF Inv, Writes, Replaceable
<1>5. CASE pc = "rwrite"
  BY <1>2, <1>3, <1>5 DEF Inv, Undoes
<1>. QED BY <1>1, <1>2, <1>4, <1>5

\* No content that an owner put in place after the review is replaced, but for
\* an edit that falls between the last look and the call: for any account and
\* any interleaving of its owner's edits with the runs of the tool.
THEOREM ReviewedOnly == Spec => OnlyReviewedReplaced
<1>1. Init => Inv
  BY InitInv
<1>2. Inv /\ [Next]_vars => Inv'
  BY NextInv
<1>3. Inv /\ [Next]_vars =>
        [\A i \in Items :
           /\ dest'[i] # dest[i] /\ edits' = edits
           /\ i \notin raced /\ ~degraded
           => IF pc = "write" THEN dest[i] = Absent \/ Same(i, Op1(i).was, dest[i])
              ELSE Same(i, report.ops[i].value, dest[i])]_vars
  BY ReviewedStep
<1>. QED BY <1>1, <1>2, <1>3, PTL DEF Spec, OnlyReviewedReplaced

-----------------------------------------------------------------------------
(* The promise of a guarded apply                                          *)

\* What the abstract specification sees of a state.
Seen == <<dest, plan, backup, report, pre, edits>>

\* The contents that the abstract specification speaks of.
Content == AnyValue \cup {Missing, Unread}

\* A step that changes nothing the promise speaks of is a stutter of it.
LEMMA PromiseStutter == ASSUME UNCHANGED Seen PROVE UNCHANGED Promise!vars
  BY DEF Seen, Promise!vars, Op1, RollbackValue

\* ListError is none of the things the mapping tells from it.
LEMMA NoneIsNothing ==
    /\ ListError \notin Content
    /\ \A S \in SUBSET Items : S # ListError
    /\ \A f \in [Items -> Content] : f # ListError
<1>1. ListError \notin AnyValue
  BY Contained DEF AnyValue
<1>. QED BY <1>1, EmailPlanAssumption, EmailApplyAssumption DEF Content, BackupType

\* Whatever a backup says to put back is a content.
LEMMA BackupContents ==
    ASSUME NEW b \in BackupType
    PROVE  [i \in Items |-> IF i \in Settings THEN b[i] ELSE Absent] \in [Items -> Content]
<1>1. \A i \in Items : Absent \in AnyValue
  BY AbsentIsValue DEF AnyValue
<1>. QED BY <1>1 DEF BackupType, Content

\* Initial states map to initial states.
LEMMA PromiseInit == Init => Promise!Init
<1>. SUFFICES ASSUME Init PROVE Promise!Init
  OBVIOUS
<1>1. dest \in [Items -> Content] /\ edits = 0
  BY EmailApplyAssumption DEF Init, States, Content
<1>2. [i \in Items |-> IF Actionable(Op1(i)) THEN Op1(i).value ELSE ListError] = [i \in Items |-> ListError]
  BY DEF Init, NoPlan, NoOp, Op, Op1, Actionable
<1>3. {i \in Items : pre[i] # Missing} = {}
  BY DEF Init, Unset
<1>4. backup = Missing /\ report = Missing
  BY DEF Init
<1>. QED BY <1>1, <1>2, <1>3, <1>4 DEF Promise!Init, Content

\* An edit of the owner maps to an edit.
LEMMA PromiseEdit == ASSUME Inv, NEW e \in OwnerEdits, OwnerEdit(e[1], e[2]) PROVE Promise!Edit
<1>1. /\ UNCHANGED <<plan, backup, report, pre>> /\ edits' = edits + 1
      /\ dest' = [dest EXCEPT ![e[1]] = e[2]] /\ e[1] \in Items /\ e[2] \in Content
  BY EmailApplyAssumption DEF OwnerEdit, files, Content
<1>. QED BY <1>1 DEF Promise!Edit, Content, Op1, RollbackValue

\* A plan maps to a plan.
LEMMA PromisePlan == ASSUME Inv, BuildPlan PROVE Promise!Plan
<1>1. UNCHANGED <<dest, backup, report, pre, edits>>
  BY DEF BuildPlan
<1>2. plan' \in PlanType
  BY BuildPlanInv DEF Inv, Typed, TypeOK
<1>3. [i \in Items |-> IF Actionable(Op1(i)') THEN Op1(i)'.value ELSE ListError] \in [Items -> Content \cup {ListError}]
  BY <1>2 DEF PlanType, OpType, Op1, Content
<1>. QED BY <1>1, <1>3 DEF Promise!Plan, Content, Op1, RollbackValue

\* A step that replaces or loses the backup, and with it what is said to have
\* been written.
LEMMA PromiseSave == ASSUME Inv, Inv', UNCHANGED <<dest, plan, report, edits>>, pre' = Unset PROVE Promise!Save
<1>1. backup' \in BackupType \cup {Missing}
  BY DEF Inv, Typed, TypeOK
<1>2. (IF backup' = Missing THEN ListError ELSE [i \in Items |-> IF i \in Settings THEN backup'[i] ELSE Absent])
        \in [Items -> Content] \cup {ListError}
  BY <1>1, BackupContents
<1>3. {i \in Items : pre'[i] # Missing} = {}
  BY DEF Unset
<1>. QED BY <1>2, <1>3 DEF Promise!Save, Content, Op1, RollbackValue

\* A step that touches the report alone.
LEMMA PromiseReport ==
    ASSUME Inv, UNCHANGED <<dest, plan, backup, pre, edits>>,
           report' = Missing \/ \A i \in Items : report'.status[i] = "applied" => pre[i] # Missing
    PROVE  Promise!Report
  BY DEF Promise!Report, Op1, RollbackValue

\* A write maps to a change to a planned value.
LEMMA PromiseWrite ==
    ASSUME Inv, NEW i \in Items, WriteItem(i)
    PROVE  Promise!Write(i) \/ UNCHANGED Promise!vars
<1>1. UNCHANGED <<plan, backup, report, edits>> /\ pc = "write" /\ i \in todo
  BY DEF WriteItem, files
<1>2. \/ UNCHANGED <<dest, pre>>
      \/ dest' = [dest EXCEPT ![i] = Op1(i).value] /\ pre' = [pre EXCEPT ![i] = IF i \in raced THEN Unread ELSE dest[i]]
  BY DEF WriteItem, Carried
<1>3. CASE UNCHANGED <<dest, pre>>
  BY <1>1, <1>3, PromiseStutter DEF Seen
<1>4. CASE dest' = [dest EXCEPT ![i] = Op1(i).value] /\ pre' = [pre EXCEPT ![i] = IF i \in raced THEN Unread ELSE dest[i]]
  <2>1. backup \in BackupType /\ Actionable(Op1(i)) /\ Op1(i).value \in Values(i) /\ dest[i] \in Values(i)
    BY <1>1 DEF Inv, Typed, TypeOK, States, Writes, WritePhase, PlanSound, OpSound
  <2>2. Op1(i).value # ListError /\ dest[i] # Missing /\ Unread # Missing /\ backup # Missing
    BY <2>1, Contained, EmailApplyAssumption
  <2>3. [k \in Items |-> IF k \in Settings THEN backup[k] ELSE Absent] # ListError
    BY <2>1, BackupContents, NoneIsNothing
  <2>4. {k \in Items : pre'[k] # Missing} = {k \in Items : pre[k] # Missing} \cup {i}
    <3>1. pre \in [Items -> Content]
      BY DEF Inv, Typed, TypeOK, BackupType, Content
    <3>. QED BY <1>4, <2>2, <3>1
  <2>5. Promise!Write(i)
    BY <1>1, <1>4, <2>1, <2>2, <2>3, <2>4 DEF Promise!Write, Op1, RollbackValue
  <2>. QED BY <2>5
<1>. QED BY <1>2, <1>3, <1>4

\* An inverse call maps to an undo of what the tool wrote.
LEMMA PromiseUndo ==
    ASSUME Inv, NEW i \in Items, RollbackWrite(i)
    PROVE  Promise!Undo(i) \/ UNCHANGED Promise!vars
<1>1. UNCHANGED <<plan, backup, report, pre, edits>> /\ pc = "rwrite" /\ i \in todo
  BY DEF RollbackWrite, files
<1>2. UNCHANGED dest \/ dest' = [dest EXCEPT ![i] = RollbackValue(i)]
  BY DEF RollbackWrite, Carried
<1>3. CASE UNCHANGED dest
  BY <1>1, <1>3, PromiseStutter DEF Seen
<1>4. CASE dest' = [dest EXCEPT ![i] = RollbackValue(i)]
  <2>1. backup \in BackupType /\ backup # Missing /\ i \in RollbackOps
    BY <1>1 DEF Inv, Typed, TypeOK, Undoes, UndoPhase
  <2>2. [k \in Items |-> IF k \in Settings THEN backup[k] ELSE Absent] # ListError
    BY <2>1, BackupContents, NoneIsNothing
  <2>3. {k \in Items : report.status[k] = "applied"} # ListError
    BY NoneIsNothing
  <2>4. i \in IF (IF report = Missing THEN ListError ELSE {k \in Items : report.status[k] = "applied"}) = ListError
              THEN Settings ELSE {k \in Items : report.status[k] = "applied"}
    BY <2>1, <2>3 DEF RollbackOps
  <2>5. Promise!Undo(i)
    BY <1>1, <1>4, <2>1, <2>2, <2>3, <2>4 DEF Promise!Undo, Op1, RollbackValue
  <2>. QED BY <2>5
<1>. QED BY <1>2, <1>3, <1>4

\* Every step maps to a step of GuardedApply or to a stutter.
LEMMA PromiseNext == ASSUME Inv, [Next]_vars PROVE [Promise!Next]_(Promise!vars)
<1>1. Inv'
  BY NextInv
<1>2. CASE \E e \in OwnerEdits : OwnerEdit(e[1], e[2])
  BY <1>2, PromiseEdit DEF Promise!Next
<1>3. CASE BuildPlan
  BY <1>3, PromisePlan DEF Promise!Next
<1>4. CASE WriteBackup
  <2>1. UNCHANGED <<dest, plan, report, edits>> /\ (pre' = Unset \/ UNCHANGED <<backup, pre>>)
    BY <1>4 DEF WriteBackup
  <2>2. CASE pre' = Unset
    BY <1>1, <2>1, <2>2, PromiseSave DEF Promise!Next
  <2>3. CASE UNCHANGED <<backup, pre>>
    BY <2>1, <2>3, PromiseStutter DEF Seen
  <2>. QED BY <2>1, <2>2, <2>3
<1>5. CASE finishEmailReport
  <2>1. UNCHANGED <<dest, plan, backup, pre, edits>> /\ pc = "report"
        /\ (report' = report \/ report' = Missing \/ report'.status = status)
    BY <1>5 DEF finishEmailReport
  <2>2. CASE report' = report
    BY <2>1, <2>2, PromiseStutter DEF Seen
  <2>3. CASE report' = Missing \/ report'.status = status
    <3>1. \A i \in Items : status[i] = "applied" => pre[i] # Missing
      BY <2>1 DEF Inv, Writes
    <3>2. Promise!Report
      BY <2>1, <2>3, <3>1, PromiseReport
    <3>. QED BY <3>2 DEF Promise!Next
  <2>. QED BY <2>1, <2>2, <2>3
<1>6. CASE \E i \in Items : WriteItem(i) \/ RollbackWrite(i)
  BY <1>6, PromiseWrite, PromiseUndo DEF Promise!Next
<1>7. CASE Crash
  <2>1. UNCHANGED <<dest, plan, edits>>
        /\ \/ UNCHANGED <<backup, report, pre>>
           \/ UNCHANGED report /\ pre' = Unset
           \/ UNCHANGED <<backup, pre>> /\ report' = Missing
    BY <1>7 DEF Crash
  <2>2. CASE UNCHANGED <<backup, report, pre>>
    BY <2>1, <2>2, PromiseStutter DEF Seen
  <2>3. CASE UNCHANGED report /\ pre' = Unset
    BY <1>1, <2>1, <2>3, PromiseSave DEF Promise!Next
  <2>4. CASE UNCHANGED <<backup, pre>> /\ report' = Missing
    BY <2>1, <2>4, PromiseReport DEF Promise!Next
  <2>. QED BY <2>1, <2>2, <2>3, <2>4
<1>8. CASE StartApply \/ DialFails \/ Evaluate \/ StartRollback \/ RollbackReport \/ UNCHANGED vars
  <2>1. UNCHANGED Seen
    BY <1>8 DEF StartApply, DialFails, Evaluate, StartRollback, RollbackReport, vars, files, ghosts, bounds, Seen
  <2>. QED BY <2>1, PromiseStutter
<1>9. CASE \E i \in Items : fetchEmailLiveState(i) \/ Recheck(i) \/ VerifyAfter(i) \/ RollbackCheck(i) \/ RollbackVerify(i)
  <2>1. UNCHANGED Seen
    BY <1>9 DEF fetchEmailLiveState, Recheck, VerifyAfter, RollbackCheck, RollbackVerify, files, Seen
  <2>. QED BY <2>1, PromiseStutter
<1>. QED BY <1>2, <1>3, <1>4, <1>5, <1>6, <1>7, <1>8, <1>9 DEF Next

\* `email apply` and its rollback implement a guarded apply: nothing is written
\* before a backup is on disk, only planned values are, and a rollback touches
\* only what the tool's own report, or without one the backup, speaks for.
THEOREM ApplyKeepsPromise == Spec => KeepsPromise
<1>1. Init => Inv /\ Promise!Init
  BY InitInv, PromiseInit
<1>2. Inv /\ [Next]_vars => Inv' /\ [Promise!Next]_(Promise!vars)
  BY NextInv, PromiseNext
<1>. QED BY <1>1, <1>2, PTL DEF Spec, KeepsPromise, Promise!Spec
=============================================================================
