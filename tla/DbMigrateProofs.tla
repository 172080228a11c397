-------------------------- MODULE DbMigrateProofs ---------------------------
(***************************************************************************)
(* Proofs about DbMigrate: an import is not disturbed by a later step of   *)
(* the run, and what a clean run certifies, for any inventories, contents, *)
(* writes to the source, faults, interrupts and crashes.                   *)
(***************************************************************************)
EXTENDS DbMigrate, FiniteSetTheorems, TLAPS

-----------------------------------------------------------------------------
(* The plan                                                                *)

\* The password and the credential that the run gives to an item.
PassOf(n) == IF plan[n].pass = NoPass THEN Generated[plan[n].src] ELSE plan[n].pass
CredOf(n) == [db |-> plan[n].destDB, user |-> plan[n].destUser, pass |-> PassOf(n)]
PairOf(n) == <<plan[n].destUser, plan[n].destDB>>

Passwords == {x.pass : x \in Range(plan)} \cup Range(Generated) \cup {NoPass}

\* What BuildPlanWithMapping gives to an item.
LEMMA PlanShape ==
    ASSUME inv \in Inventories, plan = BuildPlanWithMapping(inv)
    PROVE  /\ Len(plan) \in Nat /\ DOMAIN plan = 1..Len(plan)
           /\ \A n \in DOMAIN plan :
                /\ plan[n].src \in DOMAIN inv.grantee
                /\ plan[n].destDB = remapName(plan[n].src, dbNameMapping(inv))
                /\ plan[n].configs = ConfigsOf(inv, plan[n].src)
                /\ plan[n].configs \in Seq(DOMAIN inv.site)
<1>1. inv.dbs \in Seq(DOMAIN inv.grantee)
      /\ \A d \in DOMAIN inv.grantee : ConfigsOf(inv, d) \in Seq(DOMAIN inv.site)
  BY InventoryAssumption
<1>2. Len(inv.dbs) \in Nat /\ \A n \in 1..Len(inv.dbs) : inv.dbs[n] \in DOMAIN inv.grantee
  BY <1>1
<1>3. /\ DOMAIN plan = 1..Len(inv.dbs)
      /\ \A n \in 1..Len(inv.dbs) : /\ plan[n].src = inv.dbs[n]
                                    /\ plan[n].destDB = remapName(inv.dbs[n], dbNameMapping(inv))
                                    /\ plan[n].configs = ConfigsOf(inv, inv.dbs[n])
  BY DEF BuildPlanWithMapping
<1>4. plan \in Seq(Range(plan))
  BY <1>2, <1>3 DEF BuildPlanWithMapping, Range
<1>5. DOMAIN plan = 1..Len(plan) /\ Len(plan) \in Nat
  BY <1>4
<1>. QED BY <1>1, <1>2, <1>3, <1>5

-----------------------------------------------------------------------------
(* The invariant                                                           *)

WritingSteps   == {"item", "user", "grant", "empty", "copy"}
ConfigSteps    == {"config", "check"}
ReadingSteps   == {"charsets", "rows", "sums"}
VerifyingSteps == {"verify"} \cup ReadingSteps

RemoteKinds ==
    /\ dest \in [DestDBs -> Contents \cup {NoDB}]
    /\ userPass \in [DestUsers -> Passwords] /\ grants \subseteq DestUsers \X DestDBs
    /\ parsed \in [DOMAIN inv.site -> Creds] /\ used \in [DOMAIN inv.site -> Creds]
    /\ from \in [DestDBs -> DOMAIN inv.grantee \cup {NoOne}]

\* The kinds of the state; the plan and the items to apply are those of the
\* inventory.
Kinds ==
    /\ inv \in Inventories /\ deep \in BOOLEAN
    /\ plan = BuildPlanWithMapping(inv) /\ go = Live \ Refused
    /\ source \in [DOMAIN inv.grantee -> Contents]
    /\ RemoteKinds
    /\ pc \in {"idle", "preflight"} \cup WritingSteps \cup ConfigSteps \cup VerifyingSteps
    /\ i \in Nat /\ (pc # "idle" => i # 0) /\ k \in Nat /\ attempt \in Nat /\ attempt < TransferRetries
    /\ tally \subseteq {"domains", "dbFailed", "dbConfigNotRewritten", "dbConfigUnmigrated", "dbDiff"}
    /\ outcome \in {NoOne, "ok", "issues", "error"}

\* What the run has done for the item in hand.
InHand ==
    /\ pc = "idle" => creds = {}
    /\ pc = "preflight" => creds = {} /\ i = 1
    /\ pc \in {"user", "grant", "empty", "copy"} \cup ConfigSteps => i \in go /\ pass = PassOf(i) /\ k # 0
    /\ pc \in {"user", "grant", "empty", "copy"} => k = 1
    /\ pc \in {"grant", "empty", "copy"} => userPass[plan[i].destUser] = PassOf(i)
    /\ pc \in {"empty", "copy"} => PairOf(i) \in grants /\ dest[plan[i].destDB] # NoDB
    /\ pc \in ConfigSteps => plan[i].destDB \in creds

\* What the run has imported is there, with the user and the grant it got, and
\* belongs to items that the loop has reached.
Held ==
    /\ creds \subseteq {plan[n].destDB : n \in go}
    /\ \A n \in go : plan[n].destDB \in creds =>
          /\ userPass[plan[n].destUser] = PassOf(n) /\ PairOf(n) \in grants
          /\ from[plan[n].destDB] = plan[n].src /\ dest[plan[n].destDB] # NoDB
          /\ pc \in WritingSteps => n < i
          /\ pc \in ConfigSteps => n <= i

\* A config leads to the import, or is one that the tier lets pass.
CutOver(c, n) ==
    \/ used[c] = CredOf(n)
    \/ parsed[c] = CredOf(n) /\ IF deep THEN c \in unscanned ELSE inv.site[c].trap # "none"

\* The items whose import and configs are done.
Passed == IF pc \in VerifyingSteps THEN DOMAIN plan ELSE {n \in DOMAIN plan : n < i}

\* As long as nothing was counted, every domain could be used and every item so
\* far was imported and cut over.
CleanImports ==
    tally = {} /\ pc # "idle" =>
        /\ \A c \in DOMAIN inv.site : ~domainUnavailable(inv.site[c].fate)
        /\ \A n \in Passed : /\ n \in go /\ plan[n].destDB \in creds
                             /\ \A c \in Range(plan[n].configs) : CutOver(c, n)
        /\ pc \in ConfigSteps =>
              \A j \in DOMAIN plan[i].configs : j < k => CutOver(plan[i].configs[j], i)
        /\ pc = "check" => /\ k \in DOMAIN plan[i].configs
                           /\ inv.site[cfg].trap = "none" => used[cfg] = CredOf(i)

\* The source and the destination of an item agree as the tier demands.
Agree(n) ==
    LET s == source[plan[n].src]
        d == dest[plan[n].destDB]
    IN  /\ GetSchemaFingerprint(s) = GetSchemaFingerprint(d)
        /\ \A t \in Tables \cap GetSchemaFingerprint(s) : Rows[s[t]] = Rows[d[t]]
        /\ deep => /\ \A t \in Tables \cap GetSchemaFingerprint(s) : Data[s[t]] = Data[d[t]]
                   /\ \A o \in Objects \cap GetSchemaFingerprint(s) : Body[s[o]] = Body[d[o]]

\* As long as nothing was counted, the items verified so far agree, and the
\* one in hand as far as it was read.
CleanReads ==
    tally = {} =>
        /\ pc \in VerifyingSteps => \A n \in DOMAIN plan : n < i /\ plan[n].src \in quiet => Agree(n)
        /\ pc \in ReadingSteps => i \in DOMAIN plan
        /\ pc \in ReadingSteps /\ match /\ it.src \in quiet => diffSchema
        /\ pc = "sums" /\ match /\ it.src \in quiet =>
              /\ rows = Tables \cap GetSchemaFingerprint(Src)
              /\ \A t \in rows : Rows[Src[t]] = Rows[Dst[t]]

\* What a clean exit has certified stays true.
Certified ==
    /\ outcome = "ok" => pc = "idle"
    /\ CleanMeansMigrated /\ CleanMeansCutOver /\ CleanMeansEqual

MigrateInv == Kinds /\ InHand /\ Held /\ CleanImports /\ CleanReads /\ Certified

-----------------------------------------------------------------------------
(* Items                                                                   *)

\* The names of the items are those of the plan, and their credentials have
\* the kinds of one.
LEMMA ItemTypes ==
    ASSUME Kinds
    PROVE  /\ Len(plan) \in Nat /\ DOMAIN plan = 1..Len(plan) /\ go \subseteq DOMAIN plan
           /\ \A n \in DOMAIN plan :
                /\ plan[n].destDB \in DestDBs /\ plan[n].destUser \in DestUsers
                /\ plan[n].src \in DOMAIN inv.grantee
                /\ plan[n].configs \in Seq(DOMAIN inv.site)
                /\ PassOf(n) \in Passwords /\ CredOf(n) \in Creds
<1>1. /\ Len(plan) \in Nat /\ DOMAIN plan = 1..Len(plan)
      /\ \A n \in DOMAIN plan : /\ plan[n].src \in DOMAIN inv.grantee
                                /\ plan[n].configs \in Seq(DOMAIN inv.site)
  BY PlanShape DEF Kinds
<1>2. go \subseteq DOMAIN plan
  BY DEF Kinds, Live, LiveItems
<1>3. DOMAIN inv.grantee \subseteq DOMAIN Generated
  BY InventoryAssumption DEF Kinds
<1>4. ASSUME NEW n \in DOMAIN plan
      PROVE  /\ plan[n].destDB \in DestDBs /\ plan[n].destUser \in DestUsers
             /\ PassOf(n) \in {x.pass : x \in Range(plan)} \cup Range(Generated)
  <2>1. plan[n] \in Range(plan)
    BY DEF Range
  <2>2. Generated[plan[n].src] \in Range(Generated)
    BY <1>1, <1>3 DEF Range
  <2>. QED BY <2>1, <2>2 DEF DestDBs, DestUsers, PassOf
<1>5. \A n \in DOMAIN plan : PassOf(n) \in Passwords /\ CredOf(n) \in Creds
  BY <1>4 DEF Passwords, CredOf, Creds
<1>. QED BY <1>1, <1>2, <1>4, <1>5

\* Items that may be applied have databases and configs of their own, and
\* share a user only with the password that both know (ValidatePlan).
LEMMA ItemsApart ==
    ASSUME Kinds, NEW n \in go, NEW m \in go, n # m
    PROVE  /\ plan[n].destDB # plan[m].destDB /\ plan[n].src # plan[m].src
           /\ Range(plan[n].configs) \cap Range(plan[m].configs) = {}
           /\ plan[n].destUser = plan[m].destUser => PassOf(n) = PassOf(m) /\ PassOf(n) # NoPass
<1>1. n \in Live /\ m \in Live /\ n \notin ValidatePlan(plan, Live)
  BY DEF Kinds, Refused
<1>2. ~ConflictDestDB(plan, Live, n) /\ ~ConflictDestUser(plan, Live, n)
  BY <1>1 DEF ValidatePlan
<1>3. plan[n].destDB # plan[m].destDB
  BY <1>1, <1>2 DEF ConflictDestDB
<1>4. plan[n].destUser = plan[m].destUser => plan[n].pass = plan[m].pass /\ plan[n].pass # NoPass
  BY <1>1, <1>2 DEF ConflictDestUser
<1>5. n \in DOMAIN plan /\ m \in DOMAIN plan
  BY ItemTypes
<1>6. /\ plan[n].destDB = remapName(plan[n].src, dbNameMapping(inv))
      /\ plan[m].destDB = remapName(plan[m].src, dbNameMapping(inv))
      /\ plan[n].src \in DOMAIN inv.grantee /\ plan[m].src \in DOMAIN inv.grantee
      /\ plan[n].configs = ConfigsOf(inv, plan[n].src) /\ plan[m].configs = ConfigsOf(inv, plan[m].src)
  BY <1>5, PlanShape DEF Kinds
<1>7. plan[n].src # plan[m].src
  BY <1>3, <1>6
<1>8. Range(plan[n].configs) \cap Range(plan[m].configs) = {}
  BY <1>6, <1>7, InventoryAssumption DEF Kinds
<1>. QED BY <1>3, <1>4, <1>7, <1>8 DEF PassOf

\* Input is never changed, and what is made of it neither.
LEMMA InputFixed ==
    ASSUME UNCHANGED input
    PROVE  /\ inv' = inv /\ plan' = plan /\ go' = go /\ deep' = deep
           /\ DestDBs' = DestDBs /\ DestUsers' = DestUsers /\ Live' = Live /\ Refused' = Refused
           /\ Creds' = Creds /\ Passwords' = Passwords
           /\ \A n \in DOMAIN plan : /\ PassOf(n)' = PassOf(n) /\ CredOf(n)' = CredOf(n)
                                     /\ PairOf(n)' = PairOf(n)
BY DEF input, DestDBs, DestUsers, Live, Refused, Creds, Passwords, PassOf, CredOf, PairOf

-----------------------------------------------------------------------------
(* The world and the ends of a run                                         *)

\* An exit that is not clean certifies nothing.
LEMMA NothingCertified == ASSUME outcome' # "ok" PROVE Certified'
  BY DEF Certified, CleanMeansMigrated, CleanMeansCutOver, CleanMeansEqual

\* What the steps look at, besides the source.
LEMMA SameRemote ==
    ASSUME RemoteKinds, UNCHANGED <<input, remote>> PROVE RemoteKinds'
  BY InputFixed DEF RemoteKinds, remote

\* The live source changes databases that are not quiet any more.
LEMMA SourceWriteInv ==
    ASSUME MigrateInv, NEW db \in DOMAIN source, NEW w \in Writes, SourceWrite(db, w)
    PROVE  MigrateInv'
<1>1. source' \in [DOMAIN inv.grantee -> Contents]
  <2>1. w.item \in Names /\ w.version \in Versions \cup {0}
    BY DbMigrateAssumption
  <2>2. source \in [DOMAIN inv.grantee -> [Names -> Versions \cup {0}]] /\ db \in DOMAIN inv.grantee
    BY DEF MigrateInv, Kinds, Contents
  <2>3. source' = [source EXCEPT ![db][w.item] = w.version]
    BY DEF SourceWrite
  <2>. QED BY <2>1, <2>2, <2>3 DEF Contents
<1>2. \A d \in DOMAIN inv.grantee : d \in quiet' => d \in quiet /\ source'[d] = source[d]
  BY DEF SourceWrite, MigrateInv, Kinds
<1>3. UNCHANGED <<input, remote, pc, loop, creds, tally, unscanned, cancelled, outcome>>
  BY DEF SourceWrite
<1>4. \A n \in DOMAIN plan : plan[n].src \in DOMAIN inv.grantee
  BY ItemTypes DEF MigrateInv
<1>5. Kinds'
  BY <1>1, <1>3, InputFixed, SameRemote DEF loop, MigrateInv, Kinds
<1>6. InHand' /\ Held' /\ CleanImports'
  <2>1. InHand'
    BY <1>3 DEF input, remote, loop, MigrateInv, InHand, PairOf, PassOf
  <2>2. Held'
    BY <1>3 DEF input, remote, loop, MigrateInv, Held, PairOf, PassOf
  <2>3. CleanImports'
    BY <1>3 DEF input, remote, loop, MigrateInv, CleanImports, Passed, CutOver, PassOf, CredOf, cfg, it
  <2>. QED BY <2>1, <2>2, <2>3
<1>7. \A n \in DOMAIN plan : plan[n].src \in quiet' => (Agree(n))' = Agree(n)
  BY <1>2, <1>3, <1>4 DEF Agree, input, remote
<1>8. CleanReads'
  <2>1. ASSUME i \in DOMAIN plan, it.src \in quiet'
        PROVE  it.src \in quiet /\ Src' = Src /\ Dst' = Dst /\ it' = it
    BY <1>2, <1>3, <1>4, <2>1 DEF it, Src, Dst, input, remote, loop
  <2>2. ASSUME tally = {}, pc \in VerifyingSteps, NEW n \in DOMAIN plan, n < i, plan[n].src \in quiet'
        PROVE  (Agree(n))'
    BY <1>2, <1>4, <1>7, <2>2 DEF MigrateInv, CleanReads
  <2>3. ASSUME tally = {}, pc \in ReadingSteps, match, it.src \in quiet' PROVE diffSchema'
    BY <2>1, <2>3 DEF MigrateInv, CleanReads, diffSchema
  <2>4. ASSUME tally = {}, pc = "sums", match, it.src \in quiet'
        PROVE  rows = Tables \cap GetSchemaFingerprint(Src') /\ \A t \in rows : Rows[(Src')[t]] = Rows[(Dst')[t]]
    BY <2>1, <2>4 DEF MigrateInv, CleanReads, ReadingSteps
  <2>. QED BY <1>3, <2>2, <2>3, <2>4
           DEF MigrateInv, CleanReads, input, loop, it, GetSchemaFingerprint
<1>9. Certified'
  <2>1. outcome' = outcome /\ pc' = pc /\ UNCHANGED <<input, remote, unscanned>>
    BY <1>3
  <2>2. CleanMeansMigrated' /\ CleanMeansCutOver'
    BY <2>1 DEF MigrateInv, Certified, CleanMeansMigrated, CleanMeansCutOver, Works, input, remote
  <2>3. CleanMeansEqual = (outcome = "ok" => \A n \in DOMAIN plan : plan[n].src \in quiet => Agree(n))
    BY DEF CleanMeansEqual, Agree
  <2>4. CleanMeansEqual' = (outcome = "ok" => \A n \in DOMAIN plan : plan[n].src \in quiet' => (Agree(n))')
    BY <2>1 DEF CleanMeansEqual, Agree, input
  <2>. QED BY <1>2, <1>4, <1>7, <2>1, <2>2, <2>3, <2>4 DEF MigrateInv, Certified
<1>. QED BY <1>5, <1>6, <1>8, <1>9 DEF MigrateInv

\* A run that ends without a clean exit leaves nothing in memory.
LEMMA EndInv ==
    ASSUME MigrateInv, RemoteKinds', NEW o \in {"error", "issues"}, End(o)
    PROVE  MigrateInv'
<1>1. /\ pc' = "idle" /\ outcome' = o /\ creds' = {} /\ tally' = {}
      /\ i' = 0 /\ k' = 0 /\ attempt' = 0 /\ UNCHANGED <<input, source>>
  BY DEF End
<1>2. Kinds'
  BY <1>1, InputFixed, DbMigrateAssumption DEF MigrateInv, Kinds
<1>3. InHand' /\ Held' /\ CleanImports' /\ CleanReads'
  BY <1>1 DEF InHand, Held, CleanImports, CleanReads, ConfigSteps, VerifyingSteps, ReadingSteps
<1>. QED BY <1>1, <1>2, <1>3, NothingCertified DEF MigrateInv

\* An interrupt is only noted.
LEMMA InterruptInv == ASSUME MigrateInv, Interrupt \/ UNCHANGED vars PROVE MigrateInv'
<1>1. UNCHANGED <<input, source, remote, pc, loop, creds, tally, unscanned, outcome, quiet>>
  BY DEF Interrupt, vars, input, remote, loop
<1>2. Kinds'
  BY <1>1, InputFixed, SameRemote DEF loop, MigrateInv, Kinds
<1>3. InHand' /\ Held' /\ CleanImports'
  <2>1. InHand'
    BY <1>1 DEF input, remote, loop, MigrateInv, InHand, PairOf, PassOf
  <2>2. Held'
    BY <1>1 DEF input, remote, loop, MigrateInv, Held, PairOf, PassOf
  <2>3. CleanImports'
    BY <1>1 DEF input, remote, loop, MigrateInv, CleanImports, Passed, CutOver, PassOf, CredOf, cfg, it
  <2>. QED BY <2>1, <2>2, <2>3
<1>4. CleanReads'
  BY <1>1 DEF input, remote, loop, MigrateInv, CleanReads, Agree, it, diffSchema, Src, Dst, GetSchemaFingerprint
<1>5. Certified'
  BY <1>1 DEF input, remote, MigrateInv, Certified, CleanMeansMigrated, CleanMeansCutOver, CleanMeansEqual,
              Works, GetSchemaFingerprint
<1>. QED BY <1>2, <1>3, <1>4, <1>5 DEF MigrateInv

\* The steps that end a run without looking at the tally.
LEMMA EndsInv ==
    ASSUME MigrateInv, Crash \/ ProbeFails \/ StopBetween \/ VerifyInterrupted
    PROVE  MigrateInv'
<1>1. End("error") /\ UNCHANGED <<input, remote>>
  BY DEF Crash, ProbeFails, StopBetween, VerifyInterrupted, End
<1>. QED BY <1>1, EndInv, SameRemote DEF MigrateInv, Kinds

-----------------------------------------------------------------------------
(* The loop over the plan                                                  *)

\* A step of the run that touches neither account, nor the imports on record.
LEMMA QuietKinds ==
    ASSUME Kinds, UNCHANGED <<input, source, remote, creds, outcome>>,
           i' \in Nat \ {0}, k' \in Nat, attempt' \in Nat, attempt' < TransferRetries,
           pc' \in {"idle", "preflight"} \cup WritingSteps \cup ConfigSteps \cup VerifyingSteps,
           tally' \subseteq {"domains", "dbFailed", "dbConfigNotRewritten", "dbConfigUnmigrated", "dbDiff"}
    PROVE  Kinds'
  BY InputFixed, SameRemote DEF Kinds

\* A run starts without imports; a domain that cannot be used counts at once.
LEMMA StartInv == ASSUME MigrateInv, Start PROVE MigrateInv'
<1>1. /\ pc' = "preflight" /\ i' = 1 /\ k' = 0 /\ creds' = {} /\ outcome' = NoOne
      /\ UNCHANGED <<input, source, remote, attempt>>
      /\ tally' = IF \E c \in DOMAIN inv.site : domainUnavailable(inv.site[c].fate) THEN {"domains"} ELSE {}
  BY DEF Start
<1>2. outcome' # "ok"
  BY <1>1, DbMigrateAssumption
<1>3. Kinds'
  BY <1>1, InputFixed, SameRemote DEF MigrateInv, Kinds
<1>4. InHand' /\ Held' /\ CleanReads'
  BY <1>1 DEF InHand, Held, CleanReads, ConfigSteps, VerifyingSteps, ReadingSteps
<1>5. CleanImports'
  <2>1. DOMAIN plan' = DOMAIN plan /\ \A n \in DOMAIN plan : ~ n < 1
    BY <1>1, ItemTypes DEF input, MigrateInv
  <2>. QED BY <1>1, <2>1 DEF input, CleanImports, Passed, VerifyingSteps, ReadingSteps, ConfigSteps
<1>. QED BY <1>2, <1>3, <1>4, <1>5, NothingCertified DEF MigrateInv

LEMMA PreflightInv == ASSUME MigrateInv, Preflight PROVE MigrateInv'
<1>1. /\ pc = "preflight" /\ pc' = "item" /\ UNCHANGED <<input, source, remote, loop, creds, tally, outcome>>
      /\ unscanned' = unscanned
  BY DEF Preflight
<1>2. Kinds'
  BY <1>1, QuietKinds DEF loop, MigrateInv, Kinds, WritingSteps
<1>3. InHand' /\ Held' /\ CleanReads'
  BY <1>1 DEF MigrateInv, InHand, Held, CleanReads, ConfigSteps, VerifyingSteps, ReadingSteps
<1>4. CleanImports'
  BY <1>1 DEF input, remote, loop, MigrateInv, CleanImports, Passed, CutOver, CredOf, PassOf, VerifyingSteps,
              ReadingSteps, ConfigSteps
<1>5. outcome' # "ok"
  BY <1>1 DEF MigrateInv, Certified
<1>. QED BY <1>2, <1>3, <1>4, <1>5, NothingCertified DEF MigrateInv

\* A database that is passed over is counted, now or with its domains.
LEMMA PassOverInv == ASSUME MigrateInv, PassOver PROVE MigrateInv'
<1>1. /\ pc = "item" /\ pc' = "item" /\ i \notin go /\ i <= Len(plan) /\ i' = i + 1
      /\ UNCHANGED <<input, source, remote, k, attempt, creds, unscanned, outcome>>
      /\ tally' = IF ~Unavailable \/ dbUnavailableReasonFailsDB(inv, it) THEN tally \cup {"dbFailed"} ELSE tally
  BY DEF PassOver, NextItem
<1>2. Kinds'
  <2>1. i' \in Nat \ {0}
    BY <1>1 DEF MigrateInv, Kinds
  <2>. QED BY <1>1, <2>1, QuietKinds DEF MigrateInv, Kinds, WritingSteps
<1>3. InHand' /\ CleanReads'
  BY <1>1 DEF InHand, CleanReads, ConfigSteps, VerifyingSteps, ReadingSteps
<1>4. Held'
  <2>1. go \subseteq DOMAIN plan /\ \A n \in DOMAIN plan : n \in Int
    BY ItemTypes DEF MigrateInv
  <2>2. \A n \in go : n < i => n < i'
    BY <1>1, <2>1 DEF MigrateInv, Kinds
  <2>. QED BY <1>1, <2>2 DEF input, remote, MigrateInv, Held, WritingSteps, ConfigSteps, PairOf, PassOf
<1>5. ASSUME tally = {} PROVE tally' # {}
  <2>1. i \in DOMAIN plan /\ it.configs \in Seq(DOMAIN inv.site)
    BY <1>1, <1>5, ItemTypes DEF MigrateInv, Kinds, it
  <2>2. \A c \in DOMAIN inv.site : ~domainUnavailable(inv.site[c].fate)
    BY <1>1, <1>5 DEF MigrateInv, CleanImports
  <2>3. Range(it.configs) \subseteq DOMAIN inv.site
    BY <2>1 DEF Range
  <2>4. ASSUME Unavailable PROVE dbUnavailableReasonFailsDB(inv, it)
    <3>1. it.configs # <<>> /\ \A c \in Range(it.configs) : inv.site[c].fate = "type_issue"
      BY <2>2, <2>3, <2>4 DEF Unavailable, dbAllDomainsUnavailableForApply
    <3>2. 1 \in DOMAIN it.configs
      BY <2>1, <3>1
    <3>. QED BY <3>1, <3>2 DEF dbUnavailableReasonFailsDB, Range
  <2>. QED BY <1>1, <2>4
<1>6. tally' # {}
  BY <1>1, <1>5
<1>7. CleanImports'
  BY <1>6 DEF CleanImports
<1>8. outcome' # "ok"
  BY <1>1 DEF MigrateInv, Certified
<1>. QED BY <1>2, <1>3, <1>4, <1>7, <1>8, NothingCertified DEF MigrateInv

LEMMA BeginItemInv == ASSUME MigrateInv, BeginItem PROVE MigrateInv'
<1>1. /\ pc = "item" /\ pc' = "user" /\ i \in go /\ k' = 1 /\ attempt' = 0 /\ pass' = PassOf(i)
      /\ UNCHANGED <<input, source, remote, i, creds, tally, unscanned, outcome>>
  BY DEF BeginItem, PassOf, it
<1>2. Kinds'
  BY <1>1, QuietKinds, DbMigrateAssumption DEF MigrateInv, Kinds, WritingSteps
<1>3. i \in DOMAIN plan
  BY <1>1, ItemTypes DEF MigrateInv
<1>4. InHand'
  BY <1>1, <1>3, InputFixed DEF input, InHand, ConfigSteps
<1>5. Held' /\ CleanImports' /\ CleanReads'
  BY <1>1 DEF input, remote, MigrateInv, Held, CleanImports, CleanReads, Passed, CutOver, CredOf, PairOf,
              PassOf, WritingSteps, ConfigSteps, VerifyingSteps, ReadingSteps
<1>6. outcome' # "ok"
  BY <1>1 DEF MigrateInv, Certified
<1>. QED BY <1>2, <1>4, <1>5, <1>6, NothingCertified DEF MigrateInv

\* The configs of an item are all cut over when the next one is taken up.
LEMMA ConfigsDoneInv == ASSUME MigrateInv, ConfigsDone PROVE MigrateInv'
<1>1. /\ pc = "config" /\ pc' = "item" /\ k > Len(plan[i].configs) /\ i' = i + 1
      /\ UNCHANGED <<input, source, remote, k, attempt, creds, tally, unscanned, outcome>>
  BY DEF ConfigsDone, NextItem, it
<1>2. /\ i \in go /\ i \in DOMAIN plan /\ plan[i].destDB \in creds /\ i \in Nat /\ k \in Nat
      /\ go \subseteq DOMAIN plan /\ \A n \in DOMAIN plan : n \in Nat
      /\ plan[i].configs \in Seq(DOMAIN inv.site)
  BY <1>1, ItemTypes DEF MigrateInv, Kinds, InHand, ConfigSteps
<1>3. Kinds'
  BY <1>1, <1>2, QuietKinds DEF MigrateInv, Kinds, WritingSteps
<1>4. InHand' /\ CleanReads'
  BY <1>1 DEF InHand, CleanReads, ConfigSteps, VerifyingSteps, ReadingSteps
<1>5. Held'
  <2>1. \A n \in go : n <= i => n < i'
    BY <1>1, <1>2
  <2>. QED BY <1>1, <2>1 DEF input, remote, MigrateInv, Held, WritingSteps, ConfigSteps, PairOf, PassOf
<1>6. CleanImports'
  <2>1. ASSUME tally = {}, NEW c \in Range(plan[i].configs) PROVE CutOver(c, i)
    <3>1. PICK j \in DOMAIN plan[i].configs : c = plan[i].configs[j]
      BY DEF Range
    <3>2. j < k
      BY <1>1, <1>2
    <3>. QED BY <1>1, <2>1, <3>1, <3>2 DEF MigrateInv, CleanImports, ConfigSteps
  <2>2. \A n \in DOMAIN plan : n < i' => n < i \/ n = i
    BY <1>1, <1>2
  <2>3. ASSUME tally = {}, NEW n \in DOMAIN plan, n < i'
        PROVE  n \in go /\ plan[n].destDB \in creds /\ \A c \in Range(plan[n].configs) : CutOver(c, n)
    BY <1>1, <1>2, <2>1, <2>2, <2>3
       DEF MigrateInv, CleanImports, Passed, VerifyingSteps, ReadingSteps, ConfigSteps
  <2>4. ASSUME tally = {} PROVE \A c \in DOMAIN inv.site : ~domainUnavailable(inv.site[c].fate)
    BY <1>1, <2>4 DEF MigrateInv, CleanImports
  <2>. QED BY <1>1, <2>3, <2>4 DEF input, remote, CleanImports, Passed, CutOver, CredOf, PassOf, VerifyingSteps,
                                   ReadingSteps, ConfigSteps
<1>7. outcome' # "ok"
  BY <1>1 DEF MigrateInv, Certified
<1>. QED BY <1>3, <1>4, <1>5, <1>6, <1>7, NothingCertified DEF MigrateInv

\* The verification begins when every item has been through the loop.
LEMMA ReportUnmigratedInv == ASSUME MigrateInv, reportUnmigratedDBConfigs PROVE MigrateInv'
<1>1. CASE cancelled
  <2>1. End("error") /\ UNCHANGED <<input, remote>>
    BY <1>1 DEF reportUnmigratedDBConfigs, End
  <2>. QED BY <2>1, EndInv, SameRemote DEF MigrateInv, Kinds
<1>2. CASE ~cancelled
  <2>1. /\ pc = "item" /\ pc' = "verify" /\ i > Len(plan) /\ i' = 1
        /\ UNCHANGED <<input, source, remote, k, attempt, creds, unscanned, outcome>>
        /\ tally' \in {tally, tally \cup {"dbConfigUnmigrated"}}
    BY <1>2 DEF reportUnmigratedDBConfigs
  <2>2. Kinds'
    BY <2>1, QuietKinds DEF MigrateInv, Kinds, VerifyingSteps
  <2>3. \A n \in DOMAIN plan : n < i /\ ~ n < i'
    BY <2>1, ItemTypes DEF MigrateInv, Kinds
  <2>4. InHand' /\ Held' /\ CleanReads'
    BY <2>1, <2>3 DEF input, remote, MigrateInv, InHand, Held, CleanReads, PairOf, PassOf,
                      WritingSteps, ConfigSteps, VerifyingSteps, ReadingSteps
  <2>5. CleanImports'
    BY <2>1, <2>3 DEF input, remote, MigrateInv, CleanImports, Passed, CutOver, CredOf, PassOf,
                      ConfigSteps, VerifyingSteps, ReadingSteps
  <2>6. outcome' # "ok"
    BY <2>1 DEF MigrateInv, Certified
  <2>. QED BY <2>2, <2>4, <2>5, <2>6, NothingCertified DEF MigrateInv
<1>. QED BY <1>1, <1>2

-----------------------------------------------------------------------------
(* Writing to the destination                                              *)

\* What the run has imported stays as it is.
Undisturbed ==
    /\ grants \subseteq grants'
    /\ \A d \in creds : dest'[d] = dest[d] /\ from'[d] = from[d]
    /\ \A n \in go : plan[n].destDB \in creds => userPass'[plan[n].destUser] = userPass[plan[n].destUser]

\* The item in hand is none of those imported before it.
LEMMA HandApart ==
    ASSUME Kinds, InHand, Held, pc \in {"user", "grant", "empty", "copy"}
    PROVE  /\ i \in go /\ i \in DOMAIN plan /\ pass = PassOf(i)
           /\ plan[i].destDB \in DestDBs /\ plan[i].destUser \in DestUsers
           /\ plan[i].src \in DOMAIN inv.grantee /\ PassOf(i) \in Passwords
           /\ \A d \in creds : d # plan[i].destDB
           /\ \A n \in go : plan[n].destDB \in creds /\ plan[n].destUser = plan[i].destUser
                => PassOf(n) = PassOf(i) /\ userPass[plan[i].destUser] = PassOf(i) /\ PassOf(i) # NoPass
<1>1. i \in go /\ pass = PassOf(i)
  BY DEF InHand
<1>2. ASSUME NEW n \in go, plan[n].destDB \in creds PROVE n # i
  <2>1. n < i /\ n \in Nat /\ i \in Nat
    BY <1>2, ItemTypes DEF Kinds, Held, WritingSteps
  <2>. QED BY <2>1
<1>3. \A d \in creds : d # plan[i].destDB
  BY <1>1, <1>2, ItemsApart DEF Held
<1>4. ASSUME NEW n \in go, plan[n].destDB \in creds, plan[n].destUser = plan[i].destUser
      PROVE  PassOf(n) = PassOf(i) /\ userPass[plan[i].destUser] = PassOf(i) /\ PassOf(i) # NoPass
  <2>1. PassOf(n) = PassOf(i) /\ PassOf(n) # NoPass
    BY <1>1, <1>2, <1>4, ItemsApart
  <2>. QED BY <1>4, <2>1 DEF Held
<1>5. /\ i \in DOMAIN plan /\ plan[i].destDB \in DestDBs /\ plan[i].destUser \in DestUsers
      /\ plan[i].src \in DOMAIN inv.grantee /\ PassOf(i) \in Passwords
  BY <1>1, ItemTypes
<1>. QED BY <1>1, <1>3, <1>4, <1>5

\* The password of a user stays, or becomes what the item wants.
LEMMA PasswordSet ==
    ASSUME Kinds, InHand, Held, pc = "user", NEW p, p \in {userPass[plan[i].destUser], PassOf(i)},
           userPass' = [userPass EXCEPT ![plan[i].destUser] = p],
           UNCHANGED <<input, dest, grants, parsed, used, from>>
    PROVE  RemoteKinds' /\ Undisturbed
<1>1. plan[i].destUser \in DestUsers /\ PassOf(i) \in Passwords
  BY HandApart
<1>2. userPass \in [DestUsers -> Passwords]
  BY DEF Kinds, RemoteKinds
<1>3. userPass' \in [DestUsers -> Passwords]
  BY <1>1, <1>2
<1>4. RemoteKinds'
  BY <1>3, InputFixed DEF input, Kinds, RemoteKinds
<1>5. ASSUME NEW n \in go, plan[n].destDB \in creds
      PROVE  userPass'[plan[n].destUser] = userPass[plan[n].destUser]
  <2>1. CASE plan[n].destUser = plan[i].destUser
    BY <1>1, <1>2, <1>5, <2>1, HandApart
  <2>2. CASE plan[n].destUser # plan[i].destUser
    BY <1>2, <2>2
  <2>. QED BY <2>1, <2>2
<1>. QED BY <1>4, <1>5 DEF Undisturbed

\* The database of the item in hand gets other contents.
LEMMA DatabaseSet ==
    ASSUME Kinds, InHand, Held, pc \in {"grant", "empty", "copy"},
           NEW c \in Contents \cup {NoDB}, NEW f \in {from[plan[i].destDB], NoOne, plan[i].src},
           dest' = [dest EXCEPT ![plan[i].destDB] = c],
           from' = [from EXCEPT ![plan[i].destDB] = f],
           grants' \in {grants, grants \cup {PairOf(i)}},
           UNCHANGED <<input, userPass, parsed, used>>
    PROVE  RemoteKinds' /\ Undisturbed
<1>1. /\ plan[i].destDB \in DestDBs /\ plan[i].destUser \in DestUsers /\ plan[i].src \in DOMAIN inv.grantee
      /\ \A d \in creds : d # plan[i].destDB
  BY HandApart
<1>2. dest \in [DestDBs -> Contents \cup {NoDB}] /\ from \in [DestDBs -> DOMAIN inv.grantee \cup {NoOne}]
  BY DEF Kinds, RemoteKinds
<1>3. dest' \in [DestDBs -> Contents \cup {NoDB}] /\ from' \in [DestDBs -> DOMAIN inv.grantee \cup {NoOne}]
  BY <1>1, <1>2
<1>4. grants' \subseteq DestUsers \X DestDBs
  BY <1>1 DEF Kinds, RemoteKinds, PairOf
<1>5. RemoteKinds'
  BY <1>3, <1>4, InputFixed DEF input, Kinds, RemoteKinds
<1>6. \A d \in creds : dest'[d] = dest[d] /\ from'[d] = from[d]
  <2>1. creds \subseteq DestDBs
    BY ItemTypes DEF Held
  <2>. QED BY <1>1, <1>2, <2>1
<1>. QED BY <1>5, <1>6 DEF Undisturbed

\* The imports on record stay on record.
LEMMA HeldKept ==
    ASSUME Kinds, Held, Undisturbed, UNCHANGED <<input, creds>>,
           \A n \in go : plan[n].destDB \in creds => /\ pc' \in WritingSteps => n < i'
                                                     /\ pc' \in ConfigSteps => n <= i'
    PROVE  Held'
<1>1. go \subseteq DOMAIN plan
  BY ItemTypes
<1>2. \A n \in go : PassOf(n)' = PassOf(n) /\ PairOf(n)' = PairOf(n)
  BY <1>1, InputFixed
<1>3. plan' = plan /\ go' = go
  BY DEF input
<1>. QED BY <1>2, <1>3 DEF Held, Undisturbed

\* A failed step of an item is counted, and the next one is taken up.
LEMMA FailsInv ==
    ASSUME MigrateInv, RemoteKinds', Undisturbed, pc \in {"user", "grant", "empty", "copy"}, Fails
    PROVE  MigrateInv'
<1>1. CASE cancelled
  BY <1>1, EndInv DEF Fails
<1>2. CASE ~cancelled
  <2>1. /\ pc' = "item" /\ i' = i + 1 /\ tally' = tally \cup {"dbFailed"}
        /\ UNCHANGED <<input, source, k, attempt, creds, outcome>>
    BY <1>2 DEF Fails, NextItem
  <2>2. i \in Nat /\ i' \in Nat /\ i' # 0 /\ \A n \in go : n \in Int /\ (n < i => n < i')
    BY <2>1, ItemTypes DEF MigrateInv, Kinds
  <2>3. Kinds'
    BY <2>1, <2>2, InputFixed DEF MigrateInv, Kinds, WritingSteps
  <2>4. InHand' /\ CleanImports' /\ CleanReads'
    BY <2>1 DEF InHand, CleanImports, CleanReads, ConfigSteps, VerifyingSteps, ReadingSteps
  <2>5. \A n \in go : plan[n].destDB \in creds => n < i'
    BY <2>2 DEF MigrateInv, Held, WritingSteps
  <2>6. Held'
    BY <2>1, <2>5, HeldKept DEF MigrateInv, ConfigSteps
  <2>7. outcome' # "ok"
    BY <2>1 DEF MigrateInv, Certified
  <2>. QED BY <2>3, <2>4, <2>6, <2>7, NothingCertified DEF MigrateInv
<1>. QED BY <1>1, <1>2

\* A step that succeeds goes on with the same item.
LEMMA WrittenInv ==
    ASSUME MigrateInv, RemoteKinds', Undisturbed, InHand',
           pc \in {"user", "grant", "empty", "copy"}, pc' \in {"grant", "empty", "copy"},
           attempt' \in Nat, attempt' < TransferRetries,
           UNCHANGED <<input, source, i, k, parsed, used, creds, tally, unscanned, outcome>>
    PROVE  MigrateInv'
<1>1. Kinds'
  BY InputFixed DEF MigrateInv, Kinds, WritingSteps
<1>2. Held'
  <2>1. \A n \in go : plan[n].destDB \in creds => n < i'
    BY DEF MigrateInv, Held, WritingSteps
  <2>. QED BY <2>1, HeldKept DEF MigrateInv, ConfigSteps
<1>3. CleanImports' /\ CleanReads'
  BY DEF input, MigrateInv, CleanImports, CleanReads, Passed, CutOver, CredOf, PassOf, WritingSteps,
         ConfigSteps, VerifyingSteps, ReadingSteps
<1>4. outcome' # "ok"
  BY DEF MigrateInv, Certified
<1>. QED BY <1>1, <1>2, <1>3, <1>4, NothingCertified DEF MigrateInv

LEMMA PasswordInv ==
    ASSUME MigrateInv, SetDBUserPassword \/ SetDBUserPasswordFails
    PROVE  MigrateInv' /\ Undisturbed
<1>1. pc = "user" /\ pass = PassOf(i) /\ plan[i].destUser \in DestUsers
  BY HandApart DEF MigrateInv, SetDBUserPassword, SetDBUserPasswordFails
<1>2. CASE SetDBUserPassword
  <2>1. /\ userPass' = [userPass EXCEPT ![plan[i].destUser] = PassOf(i)] /\ pc' = "grant"
        /\ UNCHANGED <<input, source, dest, i, k, pass, attempt, grants, parsed, used, from, creds, tally,
                       unscanned, outcome>>
    BY <1>1, <1>2 DEF SetDBUserPassword, Step, it
  <2>2. RemoteKinds' /\ Undisturbed
    BY <1>1, <2>1, PasswordSet DEF MigrateInv
  <2>3. userPass'[plan[i].destUser] = PassOf(i)
    BY <1>1, <2>1 DEF MigrateInv, Kinds, RemoteKinds
  <2>4. InHand'
    BY <1>1, <2>1, <2>3 DEF input, MigrateInv, InHand, ConfigSteps, PassOf
  <2>. QED BY <1>1, <2>1, <2>2, <2>4, WrittenInv DEF MigrateInv, Kinds
<1>3. CASE SetDBUserPasswordFails
  <2>1. PICK p \in {userPass[it.destUser], IF userPass[it.destUser] = NoPass THEN pass ELSE userPass[it.destUser]} :
           userPass' = [userPass EXCEPT ![it.destUser] = p]
    BY <1>3 DEF SetDBUserPasswordFails
  <2>2. Fails /\ UNCHANGED <<input, dest, grants, parsed, used, from>>
    BY <1>3 DEF SetDBUserPasswordFails, Fails, End
  <2>3. p \in {userPass[plan[i].destUser], PassOf(i)} /\ userPass' = [userPass EXCEPT ![plan[i].destUser] = p]
    BY <1>1, <2>1 DEF it
  <2>4. RemoteKinds' /\ Undisturbed
    BY <1>1, <2>2, <2>3, PasswordSet DEF MigrateInv
  <2>. QED BY <1>1, <2>2, <2>4, FailsInv
<1>. QED BY <1>2, <1>3

LEMMA GrantInv ==
    ASSUME MigrateInv, SetPrivilegesOnDatabase \/ SetPrivilegesFails
    PROVE  MigrateInv' /\ Undisturbed
<1>1. pc = "grant" /\ plan[i].destDB \in DestDBs /\ plan[i].destUser \in DestUsers
  BY HandApart DEF MigrateInv, SetPrivilegesOnDatabase, SetPrivilegesFails
<1>2. /\ dest[plan[i].destDB] \in Contents \cup {NoDB} /\ Created \in Contents
      /\ from = [from EXCEPT ![plan[i].destDB] = from[plan[i].destDB]]
  BY <1>1 DEF MigrateInv, Kinds, RemoteKinds, Created, Nothing, Contents, it
<1>3. CASE SetPrivilegesOnDatabase
  <2>1. /\ dest' = [dest EXCEPT ![plan[i].destDB] = Created] /\ pc' = "empty"
        /\ grants' = grants \cup {PairOf(i)} /\ from' = from
        /\ UNCHANGED <<input, source, i, k, pass, attempt, userPass, parsed, used, creds, tally, unscanned, outcome>>
    BY <1>3 DEF SetPrivilegesOnDatabase, Step, it, PairOf
  <2>2. from' = [from EXCEPT ![plan[i].destDB] = from[plan[i].destDB]]
    BY <1>2, <2>1
  <2>3. RemoteKinds' /\ Undisturbed
    BY <1>1, <1>2, <2>1, <2>2, DatabaseSet DEF MigrateInv
  <2>4. dest'[plan[i].destDB] # NoDB
    BY <1>1, <1>2, <2>1, DbMigrateAssumption DEF MigrateInv, Kinds, RemoteKinds
  <2>5. InHand'
    BY <1>1, <2>1, <2>4 DEF input, MigrateInv, InHand, ConfigSteps, PassOf, PairOf
  <2>. QED BY <1>1, <2>1, <2>3, <2>5, WrittenInv DEF MigrateInv, Kinds
<1>4. CASE SetPrivilegesFails
  <2>1. PICK c \in {dest[it.destDB], Created} : dest' = [dest EXCEPT ![it.destDB] = c]
    BY <1>4 DEF SetPrivilegesFails
  <2>2. Fails /\ UNCHANGED <<input, userPass, grants, parsed, used, from>>
    BY <1>4 DEF SetPrivilegesFails, Fails, End
  <2>3. c \in Contents \cup {NoDB} /\ dest' = [dest EXCEPT ![plan[i].destDB] = c]
        /\ from' = [from EXCEPT ![plan[i].destDB] = from[plan[i].destDB]]
    BY <1>2, <2>1, <2>2 DEF it
  <2>4. RemoteKinds' /\ Undisturbed
    BY <1>1, <2>2, <2>3, DatabaseSet DEF MigrateInv
  <2>. QED BY <1>1, <2>2, <2>4, FailsInv
<1>. QED BY <1>3, <1>4

LEMMA EmptyInv ==
    ASSUME MigrateInv, EmptyDatabase \/ EmptyFails
    PROVE  MigrateInv' /\ Undisturbed
<1>1. /\ pc = "empty" /\ plan[i].destDB \in DestDBs /\ plan[i].destUser \in DestUsers
      /\ dest[plan[i].destDB] # NoDB
  BY HandApart DEF MigrateInv, InHand, EmptyDatabase, EmptyFails
<1>2. dest[plan[i].destDB] \in Contents /\ Nothing \in Contents
  BY <1>1 DEF MigrateInv, Kinds, RemoteKinds, Nothing, Contents
<1>3. CASE EmptyDatabase
  <2>1. /\ dest' = [dest EXCEPT ![plan[i].destDB] = Nothing] /\ pc' = "copy"
        /\ from' = [from EXCEPT ![plan[i].destDB] = NoOne] /\ grants' = grants
        /\ UNCHANGED <<input, source, i, k, pass, attempt, userPass, parsed, used, creds, tally, unscanned, outcome>>
    BY <1>3 DEF EmptyDatabase, Step, it, dropSchemaSQL
  <2>2. RemoteKinds' /\ Undisturbed
    BY <1>1, <1>2, <2>1, DatabaseSet DEF MigrateInv
  <2>3. dest'[plan[i].destDB] # NoDB
    BY <1>1, <1>2, <2>1, DbMigrateAssumption DEF MigrateInv, Kinds, RemoteKinds
  <2>4. InHand'
    BY <1>1, <2>1, <2>3 DEF input, MigrateInv, InHand, ConfigSteps, PassOf, PairOf
  <2>. QED BY <1>1, <2>1, <2>2, <2>4, WrittenInv DEF MigrateInv, Kinds
<1>4. CASE EmptyFails
  <2>1. PICK kept \in SUBSET Names :
           dest' = [dest EXCEPT ![plan[i].destDB] =
                       [x \in Names |-> IF x \in kept THEN dest[plan[i].destDB][x] ELSE 0]]
    BY <1>4 DEF EmptyFails, it
  <2>2. Fails /\ UNCHANGED <<input, userPass, grants, parsed, used>>
    BY <1>4 DEF EmptyFails, Fails, End
  <2>3. [x \in Names |-> IF x \in kept THEN dest[plan[i].destDB][x] ELSE 0] \in Contents
    BY <1>2 DEF Contents
  <2>4. from' = [from EXCEPT ![plan[i].destDB] = IF dest' = dest THEN from[plan[i].destDB] ELSE NoOne]
    BY <1>4 DEF EmptyFails, it
  <2>5. RemoteKinds' /\ Undisturbed
    BY <1>1, <2>1, <2>2, <2>3, <2>4, DatabaseSet DEF MigrateInv
  <2>. QED BY <1>1, <2>2, <2>5, FailsInv
<1>. QED BY <1>3, <1>4

\* What an attempt imports is a content.
LEMMA ImportedIsContent ==
    ASSUME MigrateInv, pc = "copy", NEW some \in SUBSET Names
    PROVE  Imported(some) \in Contents
<1>1. plan[i].src \in DOMAIN inv.grantee /\ plan[i].destDB \in DestDBs /\ dest[plan[i].destDB] # NoDB
  BY HandApart DEF MigrateInv, InHand
<1>2. source[plan[i].src] \in Contents /\ dest[plan[i].destDB] \in Contents
  BY <1>1 DEF MigrateInv, Kinds, RemoteKinds
<1>. QED BY <1>2 DEF Imported, it, Contents

\* An attempt that broke off leaves the database to the next one.
LEMMA CopyBreaksInv == ASSUME MigrateInv, CopyBreaks PROVE MigrateInv' /\ Undisturbed
<1>1. /\ pc = "copy" /\ plan[i].destDB \in DestDBs /\ plan[i].destUser \in DestUsers
      /\ dest[plan[i].destDB] # NoDB
  BY HandApart DEF MigrateInv, InHand, CopyBreaks
<1>2. PICK some \in SUBSET Names : dest' = [dest EXCEPT ![plan[i].destDB] = Imported(some)]
  BY DEF CopyBreaks, it
<1>3. /\ UNCHANGED <<input, userPass, grants, parsed, used, from>>
      /\ from' = [from EXCEPT ![plan[i].destDB] = from[plan[i].destDB]]
  BY DEF CopyBreaks, Fails, End, Step, MigrateInv, Kinds, RemoteKinds
<1>4. Imported(some) \in Contents
  BY <1>1, ImportedIsContent
<1>5. RemoteKinds' /\ Undisturbed
  BY <1>1, <1>2, <1>3, <1>4, DatabaseSet DEF MigrateInv
<1>6. CASE MayRetry
  <2>1. /\ pc' = "copy" /\ attempt' = attempt + 1 /\ attempt + 1 < TransferRetries
        /\ UNCHANGED <<input, source, i, k, pass, grants, userPass, parsed, used, creds, tally, unscanned, outcome>>
    BY <1>3, <1>6 DEF CopyBreaks, Step, MayRetry
  <2>2. dest'[plan[i].destDB] # NoDB
    BY <1>1, <1>2, <1>4, DbMigrateAssumption DEF MigrateInv, Kinds, RemoteKinds
  <2>3. InHand'
    BY <1>1, <2>1, <2>2 DEF input, MigrateInv, InHand, ConfigSteps, PassOf, PairOf
  <2>4. attempt' \in Nat /\ attempt' < TransferRetries
    BY <2>1 DEF MigrateInv, Kinds
  <2>. QED BY <1>1, <1>5, <2>1, <2>3, <2>4, WrittenInv
<1>7. CASE ~MayRetry
  BY <1>1, <1>5, <1>7, FailsInv DEF CopyBreaks
<1>. QED BY <1>6, <1>7

\* The import is recorded, for the user and with the grant it was made with.
LEMMA CopyInv == ASSUME MigrateInv, CopyDatabase PROVE MigrateInv' /\ Undisturbed
<1>1. /\ pc = "copy" /\ i \in go /\ plan[i].destDB \in DestDBs /\ plan[i].destUser \in DestUsers
      /\ pass = PassOf(i) /\ userPass[plan[i].destUser] = PassOf(i) /\ PairOf(i) \in grants
  BY HandApart DEF MigrateInv, InHand, CopyDatabase
<1>2. /\ dest' = [dest EXCEPT ![plan[i].destDB] = Imported(Names)] /\ pc' = "config"
      /\ from' = [from EXCEPT ![plan[i].destDB] = plan[i].src]
      /\ creds' = creds \cup {plan[i].destDB}
      /\ UNCHANGED <<input, source, i, k, pass, attempt, userPass, grants, parsed, used, tally, unscanned, outcome>>
  BY DEF CopyDatabase, Step, it
<1>3. Imported(Names) \in Contents
  BY <1>1, ImportedIsContent
<1>4. RemoteKinds' /\ Undisturbed
  BY <1>1, <1>2, <1>3, DatabaseSet DEF MigrateInv
<1>5. Kinds'
  BY <1>1, <1>2, <1>4, InputFixed DEF MigrateInv, Kinds, ConfigSteps
<1>6. InHand'
  BY <1>1, <1>2 DEF input, MigrateInv, InHand, ConfigSteps, PassOf
<1>7. /\ go \subseteq DOMAIN plan /\ i \in Nat /\ \A n \in DOMAIN plan : n \in Nat
      /\ \A n \in go : PassOf(n)' = PassOf(n) /\ PairOf(n)' = PairOf(n)
  BY <1>2, ItemTypes, InputFixed DEF MigrateInv, Kinds
<1>8. Held'
  <2>1. creds' \subseteq {plan[n].destDB : n \in go}
    BY <1>1, <1>2 DEF MigrateInv, Held
  <2>2. ASSUME NEW n \in go, plan[n].destDB \in creds'
        PROVE  /\ userPass'[plan[n].destUser] = PassOf(n) /\ PairOf(n) \in grants'
               /\ from'[plan[n].destDB] = plan[n].src /\ dest'[plan[n].destDB] # NoDB
               /\ n <= i
    <3>1. CASE n = i
      BY <1>1, <1>2, <1>3, <1>7, <3>1, DbMigrateAssumption DEF MigrateInv, Kinds, RemoteKinds
    <3>2. CASE n # i
      <4>1. plan[n].destDB # plan[i].destDB
        BY <1>1, <3>2, ItemsApart DEF MigrateInv
      <4>2. plan[n].destDB \in creds
        BY <1>2, <2>2, <4>1
      <4>3. n < i
        BY <1>1, <4>2 DEF MigrateInv, Held, WritingSteps
      <4>. QED BY <1>2, <1>4, <1>7, <4>2, <4>3 DEF MigrateInv, Held, Undisturbed
    <3>. QED BY <3>1, <3>2
  <2>. QED BY <1>2, <1>7, <2>1, <2>2 DEF input, Held, WritingSteps, ConfigSteps
<1>9. CleanImports' /\ CleanReads'
  <2>1. k' = 1 /\ ~(\E j \in DOMAIN plan[i].configs : j < 1)
    <3>1. k = 1
      BY <1>1 DEF MigrateInv, InHand
    <3>2. plan[i].configs \in Seq(DOMAIN inv.site)
      BY <1>1, <1>7, ItemTypes DEF MigrateInv
    <3>. QED BY <1>2, <3>1, <3>2
  <2>2. CleanImports'
    BY <1>1, <1>2, <2>1 DEF input, MigrateInv, CleanImports, Passed, CutOver, CredOf, PassOf, WritingSteps,
           ConfigSteps, VerifyingSteps, ReadingSteps
  <2>3. CleanReads'
    BY <1>2 DEF CleanReads, VerifyingSteps, ReadingSteps
  <2>. QED BY <2>2, <2>3
<1>10. outcome' # "ok"
  BY <1>1, <1>2 DEF MigrateInv, Certified
<1>. QED BY <1>4, <1>5, <1>6, <1>8, <1>9, <1>10, NothingCertified DEF MigrateInv

-----------------------------------------------------------------------------
(* The configs of an item                                                  *)

\* CutOver of a config and an item of now, after the step.
CutOverNext(c, n) ==
    \/ used'[c] = CredOf(n)
    \/ parsed'[c] = CredOf(n) /\ IF deep THEN c \in unscanned' ELSE inv.site[c].trap # "none"

\* The config in hand is one of the item's, and the credential to write is
\* the item's.
LEMMA ConfigInHand ==
    ASSUME MigrateInv, pc \in ConfigSteps
    PROVE  /\ i \in go /\ i \in DOMAIN plan /\ NewCred = CredOf(i) /\ CredOf(i) \in Creds
           /\ plan[i].configs \in Seq(DOMAIN inv.site) /\ go \subseteq DOMAIN plan
           /\ k \in 1..Len(plan[i].configs) =>
                 k \in DOMAIN plan[i].configs /\ cfg \in DOMAIN inv.site /\ cfg \in Range(plan[i].configs)
<1>1. i \in go /\ pass = PassOf(i)
  BY DEF MigrateInv, InHand
<1>2. /\ i \in DOMAIN plan /\ CredOf(i) \in Creds /\ go \subseteq DOMAIN plan
      /\ plan[i].configs \in Seq(DOMAIN inv.site)
  BY <1>1, ItemTypes DEF MigrateInv
<1>3. NewCred = CredOf(i)
  BY <1>1 DEF NewCred, CredOf, it
<1>4. ASSUME k \in 1..Len(plan[i].configs)
      PROVE  k \in DOMAIN plan[i].configs /\ cfg \in DOMAIN inv.site /\ cfg \in Range(plan[i].configs)
  BY <1>2, <1>4 DEF cfg, it, Range
<1>. QED BY <1>1, <1>2, <1>3, <1>4

\* A config that was dealt with makes room for the next one.
LEMMA SettledInv ==
    ASSUME MigrateInv, pc \in ConfigSteps, NEW issue \in SUBSET {"dbConfigNotRewritten"}, Settled(issue),
           RemoteKinds', CleanImports', UNCHANGED <<dest, userPass, grants, from>>
    PROVE  MigrateInv' /\ Undisturbed
<1>1. /\ pc' = "config" /\ k' = k + 1 /\ tally' = tally \cup issue
      /\ UNCHANGED <<input, source, i, attempt, pass, creds, outcome>>
  BY DEF Settled
<1>2. Kinds'
  BY <1>1, InputFixed DEF MigrateInv, Kinds, ConfigSteps
<1>3. i \in go /\ i \in DOMAIN plan /\ k \in Nat
  BY ConfigInHand DEF MigrateInv, Kinds
<1>4. InHand'
  BY <1>1, <1>3, InputFixed DEF input, MigrateInv, InHand, ConfigSteps
<1>5. Undisturbed
  BY DEF Undisturbed
<1>6. Held'
  BY <1>1, <1>5, HeldKept DEF MigrateInv, Held, WritingSteps, ConfigSteps
<1>7. CleanReads'
  BY <1>1 DEF CleanReads, VerifyingSteps, ReadingSteps
<1>8. outcome' # "ok"
  BY <1>1 DEF MigrateInv, Certified, ConfigSteps
<1>. QED BY <1>2, <1>4, <1>5, <1>6, <1>7, <1>8, NothingCertified DEF MigrateInv

\* The file that is rewritten holds the credential of its item, which may be
\* what PHP uses.
LEMMA RewrittenKinds ==
    ASSUME MigrateInv, pc = "config", k <= Len(it.configs), Rewritten,
           UNCHANGED <<input, dest, userPass, grants, from>>
    PROVE  /\ RemoteKinds' /\ k \in DOMAIN plan[i].configs
           /\ cfg \in DOMAIN inv.site /\ cfg \in Range(plan[i].configs)
           /\ parsed' = [parsed EXCEPT ![cfg] = CredOf(i)]
           /\ used' \in {used, [used EXCEPT ![cfg] = CredOf(i)]}
           /\ inv.site[cfg].trap = "none" => used' = [used EXCEPT ![cfg] = CredOf(i)]
<1>1. /\ k \in DOMAIN plan[i].configs /\ cfg \in DOMAIN inv.site /\ cfg \in Range(plan[i].configs)
      /\ NewCred = CredOf(i) /\ CredOf(i) \in Creds
  <2>1. /\ plan[i].configs \in Seq(DOMAIN inv.site) /\ NewCred = CredOf(i) /\ CredOf(i) \in Creds
        /\ k \in 1..Len(plan[i].configs) =>
              k \in DOMAIN plan[i].configs /\ cfg \in DOMAIN inv.site /\ cfg \in Range(plan[i].configs)
    BY ConfigInHand DEF ConfigSteps
  <2>2. k \in 1..Len(plan[i].configs)
    BY <2>1 DEF MigrateInv, Kinds, InHand, ConfigSteps, it
  <2>. QED BY <2>1, <2>2
<1>2. parsed \in [DOMAIN inv.site -> Creds] /\ used \in [DOMAIN inv.site -> Creds]
  BY DEF MigrateInv, Kinds, RemoteKinds
<1>3. /\ parsed' = [parsed EXCEPT ![cfg] = CredOf(i)]
      /\ used' \in {used, [used EXCEPT ![cfg] = CredOf(i)]}
      /\ inv.site[cfg].trap = "none" => used' = [used EXCEPT ![cfg] = CredOf(i)]
  BY <1>1 DEF Rewritten, site
<1>4. parsed' \in [DOMAIN inv.site -> Creds] /\ used' \in [DOMAIN inv.site -> Creds]
  BY <1>1, <1>2, <1>3
<1>5. RemoteKinds'
  BY <1>4, InputFixed DEF input, MigrateInv, Kinds, RemoteKinds
<1>. QED BY <1>1, <1>3, <1>5

LEMMA RewriteInv == ASSUME MigrateInv, RewriteSiteConfig PROVE MigrateInv' /\ Undisturbed
<1>1. /\ pc = "config" /\ pc' = "check"
      /\ UNCHANGED <<input, source, dest, userPass, grants, from, i, k, attempt, pass, creds, tally, unscanned, outcome>>
  BY DEF RewriteSiteConfig, Step
<1>2. /\ RemoteKinds' /\ k \in DOMAIN plan[i].configs
      /\ cfg \in DOMAIN inv.site /\ cfg \in Range(plan[i].configs)
      /\ parsed' = [parsed EXCEPT ![cfg] = CredOf(i)]
      /\ used' \in {used, [used EXCEPT ![cfg] = CredOf(i)]}
      /\ inv.site[cfg].trap = "none" => used' = [used EXCEPT ![cfg] = CredOf(i)]
  BY <1>1, RewrittenKinds DEF RewriteSiteConfig
<1>3. /\ i \in go /\ i \in DOMAIN plan /\ i \in Nat /\ go \subseteq DOMAIN plan
      /\ plan[i].configs \in Seq(DOMAIN inv.site)
  BY <1>1, ConfigInHand DEF MigrateInv, Kinds, ConfigSteps
<1>4. Kinds'
  BY <1>1, <1>2, InputFixed DEF MigrateInv, Kinds, ConfigSteps
<1>5. InHand'
  BY <1>1, <1>3, InputFixed DEF input, MigrateInv, InHand, ConfigSteps
<1>6. Undisturbed
  BY <1>1 DEF Undisturbed
<1>7. Held'
  BY <1>1, <1>6, HeldKept DEF MigrateInv, Held, WritingSteps, ConfigSteps
<1>8. CleanImports'
  <2>1. parsed \in [DOMAIN inv.site -> Creds] /\ used \in [DOMAIN inv.site -> Creds]
    BY DEF MigrateInv, Kinds, RemoteKinds
  <2>2. ASSUME NEW c \in DOMAIN inv.site, NEW n \in DOMAIN plan, CutOver(c, n), c = cfg => n = i
        PROVE  CutOverNext(c, n)
    <3>1. CASE c = cfg
      BY <1>1, <1>2, <2>1, <2>2, <3>1 DEF CutOver, CutOverNext
    <3>2. CASE c # cfg
      <4>1. used'[c] = used[c] /\ parsed'[c] = parsed[c]
        BY <1>2, <2>1, <2>2, <3>2
      <4>. QED BY <1>1, <2>2, <4>1 DEF CutOver, CutOverNext
    <3>. QED BY <3>1, <3>2
  <2>3. ASSUME tally = {}, NEW n \in DOMAIN plan, n < i, NEW c \in Range(plan[n].configs)
        PROVE  n \in go /\ plan[n].destDB \in creds /\ CutOverNext(c, n)
    <3>1. n \in go /\ plan[n].destDB \in creds /\ CutOver(c, n)
      BY <1>1, <2>3 DEF MigrateInv, CleanImports, Passed, VerifyingSteps, ReadingSteps
    <3>2. n # i /\ c # cfg
      <4>1. n \in Nat
        BY ItemTypes DEF MigrateInv
      <4>2. n # i
        BY <1>3, <2>3, <4>1
      <4>. QED BY <1>2, <1>3, <2>3, <3>1, <4>2, ItemsApart DEF MigrateInv
    <3>3. c \in DOMAIN inv.site
      BY <2>3, ItemTypes DEF MigrateInv, Range
    <3>. QED BY <2>2, <3>1, <3>2, <3>3
  <2>4. ASSUME tally = {}, NEW j \in DOMAIN plan[i].configs, j < k PROVE CutOverNext(plan[i].configs[j], i)
    <3>1. CutOver(plan[i].configs[j], i)
      BY <1>1, <2>4 DEF MigrateInv, CleanImports, ConfigSteps
    <3>2. plan[i].configs[j] \in DOMAIN inv.site
      BY <1>3, <2>4
    <3>. QED BY <1>3, <2>2, <3>1, <3>2
  <2>5. cfg' = cfg /\ (inv.site[cfg].trap = "none" => used'[cfg] = CredOf(i))
    BY <1>1, <1>2, <2>1 DEF input, cfg, it
  <2>6. tally = {} => /\ \A c \in DOMAIN inv.site : ~domainUnavailable(inv.site[c].fate)
                      /\ \A n \in DOMAIN plan : n < i => n \in go /\ plan[n].destDB \in creds
    BY <1>1 DEF MigrateInv, CleanImports, Passed, VerifyingSteps, ReadingSteps
  <2>. QED BY <1>1, <1>2, <1>3, <2>3, <2>4, <2>5, <2>6
           DEF input, CleanImports, Passed, CutOver, CutOverNext, CredOf, PassOf, VerifyingSteps, ReadingSteps,
               ConfigSteps
<1>9. CleanReads'
  BY <1>1 DEF CleanReads, VerifyingSteps, ReadingSteps
<1>10. outcome' # "ok"
  BY <1>1 DEF MigrateInv, Certified
<1>. QED BY <1>4, <1>5, <1>6, <1>7, <1>8, <1>9, <1>10, NothingCertified DEF MigrateInv

\* A config that is not rewritten, or cannot be read again, is counted.
LEMMA NotRewrittenInv ==
    ASSUME MigrateInv, ManualConfig \/ RewriteFails \/ ConfigUnreadable
    PROVE  MigrateInv' /\ Undisturbed
<1>1. /\ pc \in ConfigSteps /\ Settled({"dbConfigNotRewritten"})
      /\ UNCHANGED <<input, dest, userPass, grants, from>>
  BY DEF ManualConfig, RewriteFails, ConfigUnreadable, NotRewritten, Settled, remote, ConfigSteps
<1>2. RemoteKinds'
  <2>1. CASE UNCHANGED remote
    BY <1>1, <2>1, SameRemote DEF MigrateInv, Kinds
  <2>2. CASE RewriteFails /\ Rewritten
    BY <1>1, <2>2, RewrittenKinds DEF RewriteFails
  <2>3. CASE RewriteFails /\ UNCHANGED <<parsed, used>>
    BY <1>1, <2>3, SameRemote DEF MigrateInv, Kinds, remote
  <2>. QED BY <2>1, <2>2, <2>3 DEF ManualConfig, RewriteFails, ConfigUnreadable
<1>3. CleanImports'
  BY <1>1 DEF Settled, CleanImports
<1>. QED BY <1>1, <1>2, <1>3, SettledInv

\* The re-read and the scan accept a config only when its site is cut over, as
\* far as the tier can tell.
LEMMA VerifyDestConfigInv ==
    ASSUME MigrateInv, NEW scans \in BOOLEAN, VerifyDestConfig(scans)
    PROVE  MigrateInv' /\ Undisturbed
<1>1. PICK issue \in SUBSET {"dbConfigNotRewritten"} :
        /\ Settled(issue)
        /\ issue = IF ~checkDestCreds THEN {"dbConfigNotRewritten"}
                   ELSE IF ConfigAmbiguity \/ (SourceCredsStillReachable /\ scans) THEN TierPolicy
                   ELSE {}
  BY DEF VerifyDestConfig, TierPolicy
<1>2. /\ pc = "check" /\ pc' = "config" /\ k' = k + 1 /\ tally' = tally \cup issue
      /\ UNCHANGED <<input, source, remote, i, attempt, pass, creds, outcome>>
      /\ unscanned' = IF checkDestCreds /\ ~scans THEN unscanned \cup {cfg} ELSE unscanned
  BY <1>1 DEF Settled, VerifyDestConfig
<1>3. RemoteKinds' /\ UNCHANGED <<dest, userPass, grants, from>>
  BY <1>2, SameRemote DEF MigrateInv, Kinds, remote
<1>4. /\ i \in go /\ i \in DOMAIN plan /\ NewCred = CredOf(i) /\ k \in Nat
      /\ plan[i].configs \in Seq(DOMAIN inv.site)
  BY <1>2, ConfigInHand DEF MigrateInv, Kinds, ConfigSteps
<1>5. \A c, n : n \in DOMAIN plan /\ CutOver(c, n) => CutOverNext(c, n)
  BY <1>2 DEF CutOver, CutOverNext, input, remote
<1>6. ASSUME tally = {}, issue = {} PROVE CutOverNext(cfg, i)
  <2>1. k \in DOMAIN plan[i].configs /\ (inv.site[cfg].trap = "none" => used[cfg] = CredOf(i))
    BY <1>2, <1>6 DEF MigrateInv, CleanImports
  <2>2. cfg \in DOMAIN inv.site
    BY <1>4, <2>1 DEF cfg, it
  <2>3. inv.site[cfg].trap \in {"none", "ambiguous", "stale"}
    BY <2>2, InventoryAssumption DEF MigrateInv, Kinds
  <2>4. CASE inv.site[cfg].trap = "none"
    BY <1>2, <2>1, <2>4 DEF CutOverNext, remote
  <2>5. CASE inv.site[cfg].trap # "none"
    <3>1. checkDestCreds
      BY <1>1, <1>6
    <3>2. parsed[cfg] = CredOf(i)
      BY <1>4, <3>1 DEF checkDestCreds
    <3>3. deep => cfg \in unscanned'
      BY <1>1, <1>2, <1>6, <2>3, <2>5, <3>1
         DEF TierPolicy, ConfigAmbiguity, SourceCredsStillReachable, site
    <3>. QED BY <1>2, <2>5, <3>2, <3>3 DEF CutOverNext, remote
  <2>. QED BY <2>4, <2>5
<1>7. CleanImports'
  <2>1. ASSUME tally' = {} PROVE tally = {} /\ issue = {}
    BY <1>2, <2>1
  <2>2. ASSUME tally = {}, issue = {}, NEW j \in DOMAIN plan[i].configs, j < k'
        PROVE  CutOverNext(plan[i].configs[j], i)
    <3>1. j < k \/ j = k
      BY <1>2, <1>4, <2>2
    <3>2. CASE j < k
      BY <1>2, <1>4, <1>5, <2>2, <3>2 DEF MigrateInv, CleanImports, ConfigSteps
    <3>3. CASE j = k
      BY <1>6, <2>2, <3>3 DEF cfg, it
    <3>. QED BY <3>1, <3>2, <3>3
  <2>3. ASSUME tally = {}, NEW n \in DOMAIN plan, n < i
        PROVE  n \in go /\ plan[n].destDB \in creds /\ \A c \in Range(plan[n].configs) : CutOverNext(c, n)
    BY <1>2, <1>5, <2>3 DEF MigrateInv, CleanImports, Passed, VerifyingSteps, ReadingSteps
  <2>4. tally = {} => \A c \in DOMAIN inv.site : ~domainUnavailable(inv.site[c].fate)
    BY <1>2 DEF MigrateInv, CleanImports
  <2>. QED BY <1>2, <2>1, <2>2, <2>3, <2>4
           DEF input, CleanImports, Passed, CutOver, CutOverNext, CredOf, PassOf, VerifyingSteps, ReadingSteps,
               ConfigSteps
<1>. QED BY <1>1, <1>2, <1>3, <1>7, SettledInv DEF ConfigSteps

-----------------------------------------------------------------------------
(* The verification                                                        *)

\* While nothing was counted the items are all imported, each from a source
\* of its own.
LEMMA VerifiedItems ==
    ASSUME MigrateInv, pc \in VerifyingSteps, tally = {}
    PROVE  /\ DOMAIN plan \subseteq go /\ \A n \in DOMAIN plan : plan[n].destDB \in creds /\ n \in Nat
           /\ \A n, m \in DOMAIN plan : n # m => plan[n].src # plan[m].src
<1>1. \A n \in DOMAIN plan : n \in go /\ plan[n].destDB \in creds
  BY DEF MigrateInv, CleanImports, Passed, VerifyingSteps, ReadingSteps
<1>2. \A n \in DOMAIN plan : n \in Nat
  BY ItemTypes DEF MigrateInv
<1>. QED BY <1>1, <1>2, ItemsApart DEF MigrateInv

\* The verification changes nothing but its own position and its counts.
LEMMA VerifyingInv ==
    ASSUME MigrateInv, pc \in VerifyingSteps, pc' \in VerifyingSteps, CleanReads',
           i' \in Nat \ {0}, NEW more \in SUBSET {"dbDiff"}, tally' = tally \cup more,
           UNCHANGED <<input, source, remote, k, attempt, creds, unscanned, outcome>>
    PROVE  MigrateInv'
<1>1. Kinds'
  BY InputFixed, SameRemote DEF MigrateInv, Kinds, VerifyingSteps, ReadingSteps
<1>2. InHand' /\ Held'
  BY DEF input, remote, MigrateInv, InHand, Held, WritingSteps, ConfigSteps, VerifyingSteps, ReadingSteps,
         PassOf, PairOf
<1>3. CleanImports'
  BY DEF input, remote, MigrateInv, CleanImports, Passed, CutOver, CredOf, PassOf, ConfigSteps,
         VerifyingSteps, ReadingSteps
<1>4. outcome' # "ok"
  BY DEF MigrateInv, Certified, VerifyingSteps, ReadingSteps
<1>. QED BY <1>1, <1>2, <1>3, <1>4, NothingCertified DEF MigrateInv

\* A verdict that is good says that the item agrees.
LEMMA VerdictInv ==
    ASSUME MigrateInv, pc \in VerifyingSteps, NEW m, Verdict(m),
           tally = {} /\ m /\ it.src \in quiet => Agree(i)
    PROVE  MigrateInv'
<1>1. /\ pc' = "verify" /\ i' = i + 1 /\ tally' = tally \cup dbVerdict(m)
      /\ UNCHANGED <<input, source, remote, k, attempt, creds, unscanned, outcome, quiet>>
  BY DEF Verdict
<1>2. dbVerdict(m) \in SUBSET {"dbDiff"} /\ (dbVerdict(m) = {} => m)
  BY DEF dbVerdict
<1>3. i \in Nat /\ \A n \in DOMAIN plan : n \in Nat
  BY ItemTypes DEF MigrateInv, Kinds
<1>4. ASSUME tally' = {}, NEW n \in DOMAIN plan, n < i', plan[n].src \in quiet PROVE Agree(n)
  <2>1. tally = {} /\ m
    BY <1>1, <1>2, <1>4
  <2>2. CASE n = i
    BY <1>4, <2>1, <2>2 DEF it
  <2>3. CASE n # i
    <3>1. n < i
      BY <1>1, <1>3, <1>4, <2>3
    <3>. QED BY <1>4, <2>1, <3>1 DEF MigrateInv, CleanReads
  <2>. QED BY <2>2, <2>3
<1>5. CleanReads'
  BY <1>1, <1>4 DEF input, remote, CleanReads, Agree, ReadingSteps, VerifyingSteps
<1>6. i' \in Nat \ {0} /\ pc' \in VerifyingSteps
  BY <1>1, <1>3 DEF VerifyingSteps
<1>. QED BY <1>1, <1>2, <1>5, <1>6, VerifyingInv

LEMMA VerifySkipsInv == ASSUME MigrateInv, VerifySkips PROVE MigrateInv'
<1>1. /\ pc = "verify" /\ pc' = "verify" /\ i <= Len(plan) /\ i' = i + 1
      /\ Unavailable \/ plan[i].destDB \notin creds
      /\ UNCHANGED <<input, source, remote, k, attempt, creds, tally, unscanned, outcome, quiet>>
  BY DEF VerifySkips, it
<1>2. i \in DOMAIN plan /\ i \in Nat
  BY <1>1, ItemTypes DEF MigrateInv, Kinds
<1>3. tally # {}
  <2>1. ASSUME tally = {} PROVE FALSE
    <3>1. i \in go /\ plan[i].destDB \in creds
      BY <1>1, <1>2, <2>1, VerifiedItems DEF VerifyingSteps
    <3>2. ~Unavailable
      BY <3>1 DEF MigrateInv, Kinds, Live, LiveItems, Unavailable, it
    <3>. QED BY <1>1, <3>1, <3>2
  <2>. QED BY <2>1
<1>4. CleanReads'
  BY <1>1, <1>3 DEF CleanReads
<1>5. tally' = tally \cup {} /\ i' \in Nat \ {0}
  BY <1>1, <1>2
<1>. QED BY <1>1, <1>4, <1>5, VerifyingInv DEF VerifyingSteps

\* A verification step that looks at the item in hand.
LEMMA ItemVerified ==
    ASSUME MigrateInv, VerifySchema \/ SchemaUnreadable \/ DeepTables \/ DeepTablesUnreadable
                       \/ (\E r \in BOOLEAN : VerifyCharsets(r))
                       \/ (\E same, sums, bodies \in BOOLEAN : deepDB(same, sums, bodies)),
           tally = {}
    PROVE  i \in DOMAIN plan
<1>1. CASE pc = "verify"
  <2>1. i <= Len(plan)
    BY <1>1 DEF VerifySchema, SchemaUnreadable, VerifyCharsets, DeepTables, DeepTablesUnreadable, deepDB
  <2>. QED BY <1>1, <2>1, ItemTypes DEF MigrateInv, Kinds
<1>2. CASE pc \in ReadingSteps
  BY <1>2 DEF MigrateInv, CleanReads
<1>. QED BY <1>1, <1>2 DEF VerifySchema, SchemaUnreadable, VerifyCharsets, DeepTables, DeepTablesUnreadable,
                           deepDB, ReadingSteps

\* A read of the item in hand changes what is known of it.
LEMMA ReadsInv ==
    ASSUME MigrateInv, pc \in VerifyingSteps, NEW next \in ReadingSteps, Reads(next), CleanReads'
    PROVE  MigrateInv'
<1>1. /\ pc' = next /\ tally' = tally \cup {} /\ i' = i
      /\ UNCHANGED <<input, source, remote, k, attempt, creds, unscanned, outcome>>
  BY DEF Reads
<1>2. i' \in Nat \ {0} /\ pc' \in VerifyingSteps
  BY <1>1 DEF MigrateInv, Kinds, VerifyingSteps, ReadingSteps
<1>. QED BY <1>1, <1>2, VerifyingInv

\* What the reads compare is what they compared before.
LEMMA SameItem ==
    ASSUME UNCHANGED <<input, source, remote, i>>
    PROVE  /\ it' = it /\ Src' = Src /\ Dst' = Dst /\ diffSchema' = diffSchema
           /\ \A n \in DOMAIN plan : Agree(n)' = Agree(n)
BY DEF input, remote, it, Src, Dst, diffSchema, Agree, GetSchemaFingerprint

LEMMA VerifySchemaInv == ASSUME MigrateInv, VerifySchema PROVE MigrateInv'
<1>1. /\ pc = "verify" /\ Reads("charsets") /\ match' = diffSchema /\ quiet' = quiet \cup {it.src}
  BY DEF VerifySchema
<1>2. pc' = "charsets" /\ UNCHANGED <<input, source, remote, i, tally>>
  BY <1>1 DEF Reads
<1>3. tally = {} => i \in DOMAIN plan
  BY ItemVerified
<1>4. ASSUME tally = {}, NEW n \in DOMAIN plan, n < i, plan[n].src \in quiet' PROVE Agree(n)
  <2>1. i \in Nat /\ n \in Nat /\ n # i
    BY <1>4, ItemTypes DEF MigrateInv, Kinds
  <2>2. plan[n].src # it.src
    BY <1>1, <1>3, <1>4, <2>1, VerifiedItems DEF it, VerifyingSteps
  <2>. QED BY <1>1, <1>4, <2>2 DEF MigrateInv, CleanReads, VerifyingSteps
<1>5. CleanReads'
  BY <1>1, <1>2, <1>3, <1>4, SameItem DEF input, CleanReads, VerifyingSteps, ReadingSteps
<1>. QED BY <1>1, <1>5, ReadsInv DEF VerifyingSteps, ReadingSteps

LEMMA VerifyCharsetsInv == ASSUME MigrateInv, NEW r \in BOOLEAN, VerifyCharsets(r) PROVE MigrateInv'
<1>1. /\ pc = "charsets" /\ Reads("rows") /\ match' = (match /\ r /\ diffCharsets) /\ quiet' = quiet
  BY DEF VerifyCharsets
<1>2. pc' = "rows" /\ UNCHANGED <<input, source, remote, i, tally>>
  BY <1>1 DEF Reads
<1>3. CleanReads'
  BY <1>1, <1>2, SameItem DEF input, MigrateInv, CleanReads, VerifyingSteps, ReadingSteps
<1>. QED BY <1>1, <1>3, ReadsInv DEF VerifyingSteps, ReadingSteps

LEMMA DeepTablesInv == ASSUME MigrateInv, DeepTables PROVE MigrateInv'
<1>1. /\ pc = "rows" /\ Reads("sums") /\ quiet' = quiet
      /\ rows' = {t \in commonTableNames : Rows[Src[t]] = Rows[Dst[t]]}
      /\ match' = (match /\ rows' = Tables \cap (GetSchemaFingerprint(Src) \cup GetSchemaFingerprint(Dst)))
  BY DEF DeepTables
<1>2. pc' = "sums" /\ UNCHANGED <<input, source, remote, i, tally>>
  BY <1>1 DEF Reads
<1>3. ASSUME tally = {}, match', it.src \in quiet
      PROVE  /\ diffSchema /\ rows' = Tables \cap GetSchemaFingerprint(Src)
             /\ \A t \in rows' : Rows[Src[t]] = Rows[Dst[t]]
  <2>1. diffSchema
    BY <1>1, <1>3 DEF MigrateInv, CleanReads, ReadingSteps
  <2>2. rows' = Tables \cap GetSchemaFingerprint(Src)
    BY <1>1, <1>3, <2>1 DEF diffSchema
  <2>. QED BY <1>1, <2>1, <2>2
<1>4. CleanReads'
  <2>1. ASSUME tally = {}, match', it.src \in quiet
        PROVE  /\ rows' = Tables \cap (GetSchemaFingerprint(Src))'
               /\ \A t \in rows' : Rows[(Src')[t]] = Rows[(Dst')[t]]
    BY <1>2, <1>3, <2>1, SameItem DEF GetSchemaFingerprint
  <2>. QED BY <1>1, <1>2, <1>3, <2>1, SameItem DEF input, MigrateInv, CleanReads, VerifyingSteps, ReadingSteps
<1>. QED BY <1>1, <1>4, ReadsInv DEF VerifyingSteps, ReadingSteps

\* What the deep comparison accepts is equal, object by object.
LEMMA DeepDBInv ==
    ASSUME MigrateInv, NEW same \in BOOLEAN, NEW sums \in BOOLEAN, NEW bodies \in BOOLEAN,
           deepDB(same, sums, bodies)
    PROVE  MigrateInv'
<1> DEFINE hardDiff  == same /\ ((sums /\ diffSums) \/ (bodies /\ ~diffObjectBodies))
           unchecked == \/ rows # {} /\ IF same THEN ~sums \/ \E t \in rows : ~Proven(t)
                                       ELSE ~crossEngineContentMatches(sums)
                        \/ ~bodies
                        \/ ~same /\ Objects \cap Common # {}
           verdict   == match /\ ~hardDiff /\ (deep => ~unchecked)
<1>1. pc = "sums" /\ Verdict(verdict)
  BY DEF deepDB
<1>2. ASSUME tally = {}, verdict, it.src \in quiet PROVE Agree(i)
  <2>1. i \in DOMAIN plan
    BY <1>1, <1>2 DEF MigrateInv, CleanReads, ReadingSteps
  <2>2. /\ GetSchemaFingerprint(Src) = GetSchemaFingerprint(Dst)
        /\ rows = Tables \cap GetSchemaFingerprint(Src)
        /\ \A t \in rows : Rows[Src[t]] = Rows[Dst[t]]
    BY <1>1, <1>2 DEF MigrateInv, CleanReads, ReadingSteps, diffSchema
  <2>3. ASSUME deep, NEW t \in rows PROVE Data[Src[t]] = Data[Dst[t]]
    <3>1. ~diffSums /\ Proven(t)
      BY <1>2, <2>3 DEF crossEngineContentMatches
    <3>2. ChecksumTables(Src, rows)[t] = ChecksumTables(Dst, rows)[t]
      BY <2>3, <3>1 DEF diffSums
    <3>3. Src[t] # 0 /\ Dst[t] # 0
      BY <2>3, <3>1 DEF Proven, ChecksumTables
    <3>. QED BY <2>3, <3>2, <3>3 DEF ChecksumTables
  <2>4. ASSUME deep, NEW o \in Objects \cap Common PROVE Body[Src[o]] = Body[Dst[o]]
    <3>1. ObjectBodies(Src) = ObjectBodies(Dst)
      BY <1>2, <2>4 DEF diffObjectBodies
    <3>2. ObjectBodies(Src)[o] = Body[Src[o]] /\ ObjectBodies(Dst)[o] = Body[Dst[o]]
      BY <2>4 DEF ObjectBodies
    <3>. QED BY <3>1, <3>2
  <2>. QED BY <2>2, <2>3, <2>4 DEF Agree, Src, Dst, it, Common
<1>3. pc \in VerifyingSteps
  BY <1>1 DEF VerifyingSteps, ReadingSteps
<1> HIDE DEF verdict
<1>. QED BY <1>1, <1>2, <1>3, VerdictInv

\* A database that cannot be read counts as different.
LEMMA UnreadableInv == ASSUME MigrateInv, SchemaUnreadable \/ DeepTablesUnreadable PROVE MigrateInv'
<1>1. pc \in VerifyingSteps /\ Verdict(FALSE)
  BY DEF SchemaUnreadable, DeepTablesUnreadable, VerifyingSteps, ReadingSteps
<1>. QED BY <1>1, VerdictInv

\* A clean exit has imported every item, cut over its configs and found its
\* contents equal.
LEMMA ApplyOutcomeInv == ASSUME MigrateInv, applyOutcome PROVE MigrateInv'
<1>1. /\ pc = "verify" /\ i > Len(plan) /\ UNCHANGED <<input, remote>>
      /\ End(IF cancelled THEN "error" ELSE IF tally = {} THEN "ok" ELSE "issues")
  BY DEF applyOutcome, End
<1>2. RemoteKinds'
  BY <1>1, SameRemote DEF MigrateInv, Kinds
<1>3. CASE cancelled \/ tally # {}
  <2>1. End("error") \/ End("issues")
    BY <1>1, <1>3
  <2>. QED BY <1>2, <2>1, EndInv
<1>4. CASE ~cancelled /\ tally = {}
  <2>1. /\ pc' = "idle" /\ outcome' = "ok" /\ creds' = {} /\ tally' = {}
        /\ i' = 0 /\ k' = 0 /\ attempt' = 0 /\ UNCHANGED <<input, source, remote, unscanned, quiet>>
    BY <1>1, <1>4 DEF End
  <2>2. Kinds'
    BY <1>2, <2>1, InputFixed, DbMigrateAssumption DEF MigrateInv, Kinds
  <2>3. InHand' /\ Held' /\ CleanImports' /\ CleanReads'
    BY <2>1 DEF InHand, Held, CleanImports, CleanReads, ConfigSteps, VerifyingSteps, ReadingSteps
  <2>4. ASSUME NEW n \in DOMAIN plan
        PROVE  /\ from[plan[n].destDB] = plan[n].src /\ PairOf(n) \in grants
               /\ userPass[plan[n].destUser] = PassOf(n)
    BY <1>1, <1>4, VerifiedItems DEF MigrateInv, Held, VerifyingSteps
  <2>5. ASSUME NEW n \in DOMAIN plan, NEW c \in Range(plan[n].configs)
        PROVE  \/ Works(used[c], plan[n])
               \/ Works(parsed[c], plan[n]) /\ IF deep THEN c \in unscanned ELSE inv.site[c].trap # "none"
    <3>1. CutOver(c, n)
      BY <1>1, <1>4, <2>5 DEF MigrateInv, CleanImports, Passed, VerifyingSteps
    <3>2. \A x : x = CredOf(n) => Works(x, plan[n])
      BY <2>4 DEF CredOf, PairOf, Works
    <3>. QED BY <3>1, <3>2 DEF CutOver
  <2>6. ASSUME NEW n \in DOMAIN plan, plan[n].src \in quiet PROVE Agree(n)
    <3>1. n < i
      BY <1>1, ItemTypes DEF MigrateInv, Kinds
    <3>. QED BY <1>1, <1>4, <2>6, <3>1 DEF MigrateInv, CleanReads, VerifyingSteps
  <2>7. Certified'
    BY <2>1, <2>4, <2>5, <2>6 DEF input, remote, Certified, CleanMeansMigrated, CleanMeansCutOver,
                                  CleanMeansEqual, Works, Agree, PairOf
  <2>. QED BY <2>2, <2>3, <2>7 DEF MigrateInv
<1>. QED BY <1>3, <1>4

-----------------------------------------------------------------------------
(* The theorems                                                            *)

LEMMA InitInv == ASSUME Init PROVE MigrateInv
<1>1. /\ inv \in Inventories /\ plan = BuildPlanWithMapping(inv) /\ deep \in BOOLEAN /\ go = Live \ Refused
      /\ pc = "idle" /\ i = 0 /\ k = 0 /\ attempt = 0 /\ creds = {} /\ tally = {} /\ outcome = NoOne
      /\ grants = {} /\ from = [d \in DestDBs |-> NoOne]
  BY DEF Init
<1>2. source \in [DOMAIN inv.grantee -> Contents] /\ dest \in [DestDBs -> Contents \cup {NoDB}]
  BY DbMigrateAssumption DEF Init
<1>3. userPass \in [DestUsers -> Passwords]
  BY DEF Init, Passwords
<1>4. parsed \in [DOMAIN inv.site -> Creds] /\ used \in [DOMAIN inv.site -> Creds]
  BY DEF Init, Creds
<1>5. Kinds
  BY <1>1, <1>2, <1>3, <1>4, DbMigrateAssumption DEF Kinds, RemoteKinds
<1>6. InHand /\ Held /\ CleanImports /\ CleanReads
  BY <1>1 DEF InHand, Held, CleanImports, CleanReads, ConfigSteps, VerifyingSteps, ReadingSteps
<1>7. Certified
  BY <1>1, DbMigrateAssumption DEF Certified, CleanMeansMigrated, CleanMeansCutOver, CleanMeansEqual
<1>. QED BY <1>5, <1>6, <1>7 DEF MigrateInv

\* A step that leaves the new server alone disturbs nothing.
LEMMA RemoteLeft == ASSUME UNCHANGED remote PROVE Undisturbed
  BY DEF remote, Undisturbed

LEMMA StepInv == ASSUME MigrateInv, [Next]_vars PROVE MigrateInv' /\ Undisturbed
<1>1. CASE (\E db \in DOMAIN source, w \in Writes : SourceWrite(db, w)) \/ Interrupt \/ UNCHANGED vars
  <2>1. UNCHANGED remote
    BY <1>1 DEF SourceWrite, Interrupt, vars, remote
  <2>. QED BY <1>1, <2>1, SourceWriteInv, InterruptInv, RemoteLeft
<1>2. CASE Start \/ Preflight \/ PassOver \/ BeginItem
  <2>1. UNCHANGED remote
    BY <1>2 DEF Start, Preflight, PassOver, BeginItem, remote
  <2>. QED BY <1>2, <2>1, StartInv, PreflightInv, PassOverInv, BeginItemInv, RemoteLeft
<1>3. CASE Crash \/ ProbeFails \/ StopBetween \/ VerifyInterrupted \/ applyOutcome
  <2>1. UNCHANGED remote
    BY <1>3 DEF Crash, ProbeFails, StopBetween, VerifyInterrupted, applyOutcome, remote
  <2>. QED BY <1>3, <2>1, EndsInv, ApplyOutcomeInv, RemoteLeft
<1>4. CASE SetDBUserPassword \/ SetDBUserPasswordFails \/ SetPrivilegesOnDatabase \/ SetPrivilegesFails
           \/ EmptyDatabase \/ EmptyFails \/ CopyDatabase \/ CopyBreaks
  BY <1>4, PasswordInv, GrantInv, EmptyInv, CopyInv, CopyBreaksInv
<1>5. CASE ManualConfig \/ RewriteSiteConfig \/ RewriteFails \/ ConfigUnreadable
           \/ (\E s \in BOOLEAN : VerifyDestConfig(s))
  BY <1>5, NotRewrittenInv, RewriteInv, VerifyDestConfigInv
<1>6. CASE ConfigsDone \/ reportUnmigratedDBConfigs
  <2>1. UNCHANGED remote
    BY <1>6 DEF ConfigsDone, reportUnmigratedDBConfigs, remote
  <2>. QED BY <1>6, <2>1, ConfigsDoneInv, ReportUnmigratedInv, RemoteLeft
<1>7. CASE VerifySkips \/ VerifySchema \/ SchemaUnreadable \/ DeepTables \/ DeepTablesUnreadable
           \/ (\E r \in BOOLEAN : VerifyCharsets(r))
           \/ (\E same, sums, bodies \in BOOLEAN : deepDB(same, sums, bodies))
  <2>1. UNCHANGED remote
    BY <1>7 DEF VerifySkips, VerifySchema, SchemaUnreadable, DeepTables, DeepTablesUnreadable, VerifyCharsets,
                deepDB, Reads, Verdict, remote
  <2>. QED BY <1>7, <2>1, VerifySkipsInv, VerifySchemaInv, UnreadableInv, DeepTablesInv, VerifyCharsetsInv,
              DeepDBInv, RemoteLeft
<1>. QED BY <1>1, <1>2, <1>3, <1>4, <1>5, <1>6, <1>7 DEF Next, ApplyStep, VerifyStep

LEMMA MigrateInvariant == Spec => []MigrateInv
<1>1. MigrateInv /\ [Next]_vars => MigrateInv'
  BY StepInv
<1>. QED BY <1>1, InitInv, PTL DEF Spec

\* What the checked invariant says of the kinds follows.
LEMMA InvGivesClean == ASSUME MigrateInv PROVE CleanRun
<1>1. go \subseteq DOMAIN plan /\ \A n \in go : plan[n].destDB \in DestDBs /\ plan[n].src \in DOMAIN inv.grantee
  BY ItemTypes DEF MigrateInv
<1>2. creds \subseteq {d \in DestDBs : from[d] # NoOne}
  <2>1. NoOne \notin DOMAIN inv.grantee
    BY InventoryAssumption DEF MigrateInv, Kinds
  <2>. QED BY <1>1, <2>1 DEF MigrateInv, Held
<1>3. pc \in {"empty", "copy"} => dest[it.destDB] # NoDB
  BY DEF MigrateInv, InHand, it
<1>4. TypeOK
  BY <1>1, <1>2, <1>3
     DEF TypeOK, MigrateInv, Kinds, RemoteKinds, WritingSteps, ConfigSteps, VerifyingSteps, ReadingSteps
<1>. QED BY <1>4 DEF CleanRun, MigrateInv, Certified

\* A clean exit of the database flow certifies what it says: every database of
\* the plan imported from its own source and granted, every site's config cut
\* over as far as the tier can tell, and equal contents where the source was
\* left alone, whatever failed, was interrupted or crashed before (runApply,
\* applyDBs, verifyDBs, applyOutcome).
THEOREM CleanRunsAreSound == Spec => []CleanRun
BY MigrateInvariant, InvGivesClean, PTL

\* No step of a run drops or overwrites a database that the run has imported,
\* or changes the password its configs were written with (ValidatePlan,
\* SetDBUserPassword).
THEOREM ImportsStay == Spec => ImportsUndisturbed
<1>1. MigrateInv /\ [Next]_vars
        => [/\ \A d \in creds : dest'[d] = dest[d]
            /\ \A n \in go : plan[n].destDB \in creds
                  => userPass'[plan[n].destUser] = userPass[plan[n].destUser]]_vars
  BY StepInv DEF Undisturbed
<1>. QED BY <1>1, MigrateInvariant, PTL DEF Spec, ImportsUndisturbed
=============================================================================
