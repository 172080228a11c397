----------------------------- MODULE DbMigrate ------------------------------
(***************************************************************************)
(* The database flow of `--apply` (internal/migrate/apply_dbs.go over      *)
(* internal/dbmig): preflight, provision, empty, dump and import, config   *)
(* rewrite, verification and the outcome of the run, for a source that     *)
(* stays live.  A run may be interrupted or die at any point and be        *)
(* repeated over what it left.                                             *)
(*                                                                         *)
(* A database is a function from its objects to versions, 0 for an object  *)
(* that does not exist.  Rows, Coll, Data and Body are what the program's  *)
(* readings show of a version: COUNT and the charset query, the checksum   *)
(* of a table's rows (not of its definition), and the hash of an object's  *)
(* body, which is blind to a routine's parameters, to an event's schedule  *)
(* and to what a NULL body hides.  Versions that differ in none of them    *)
(* are different all the same.  A site's config holds the credentials its parser sees; *)
(* what PHP uses differs from them in a config with a trap: `ambiguous`,   *)
(* which the second parse recognises, or `stale`, a value set in another   *)
(* file, which the scan of the docroot recognises.  The schema's default   *)
(* collation, which no verdict depends on, is left out.                    *)
(***************************************************************************)
EXTENDS DbPlan

CONSTANTS
    Inventories,      \* what discovery may have found
    Tables, Objects,  \* names of tables and of views, triggers, routines, events
    Rows, Coll,       \* row count and collation of each version
    Data, Body,       \* checksum of a table, hash of an object's body
    InitialSource,    \* contents a source database may start with
    Writes,           \* [item, version] pairs that the live source may take
    Generated,        \* a generated password, one per database
    OldDest,          \* what a destination database of the same name may hold
    NoDB, NoOne,
    TransferRetries, MaxWrites, MaxRuns

Names    == Tables \cup Objects
Versions == DOMAIN Rows
Contents == [Names -> Versions \cup {0}]
Nothing  == [x \in Names |-> 0]
NULL     == 0   \* the checksum of a table that is not there

ASSUME DbMigrateAssumption ==
    /\ DOMAIN Coll = Versions /\ DOMAIN Body = Versions
    /\ Data \in [Versions -> Nat \ {NULL}]
    /\ InitialSource \subseteq Contents /\ OldDest \in Contents /\ NoDB \notin Contents
    /\ NoOne \notin {"ok", "issues", "error"}
    /\ \A w \in Writes : w.item \in Names /\ w.version \in Versions \cup {0}
    /\ TransferRetries \in Nat \ {0} /\ MaxWrites \in Nat /\ MaxRuns \in Nat

\* Of every database listed the grantees are known and a password can be
\* generated; discovery reads one credential from a config file, so a file
\* belongs to one database (DiscoverSiteCreds, parseCMSConfig).
ASSUME InventoryAssumption ==
    \A v \in Inventories :
        /\ v.dbs \in Seq(DOMAIN v.grantee) /\ NoOne \notin DOMAIN v.grantee
        /\ DOMAIN v.grantee \subseteq DOMAIN Generated
        /\ \A c \in DOMAIN v.site : /\ v.site[c].fate \in Fates
                                    /\ v.site[c].trap \in {"none", "ambiguous", "stale"}
        /\ \A d \in DOMAIN v.grantee : ConfigsOf(v, d) \in Seq(DOMAIN v.site)
        /\ \A d, e \in DOMAIN v.grantee :
               d # e => Range(ConfigsOf(v, d)) \cap Range(ConfigsOf(v, e)) = {}

VARIABLES
    inv, plan, deep, \* the inventory, its plan and the tier of the runs
    go,              \* the items of the plan that may be applied
    source, dest,    \* databases of both accounts; NoDB where there is none
    userPass,        \* password of each destination user, NoPass without user
    grants,          \* pairs of a user and a database
    parsed, used,    \* credentials each destination config shows, and uses
    pc, i, k,        \* where the run is: step, item, config
    attempt,         \* dumps of the item so far
    pass,            \* password of the item
    creds,           \* destCreds: databases imported in this run
    rows, match,     \* tables with equal row counts; verdict so far
    tally,           \* the counts of applyTally that are not zero
    unscanned,       \* configs whose docroot the scan could not read
    cancelled, outcome,
    from,            \* ghost: source database whose import a destination holds
    quiet,           \* ghost: sources not written since their verification began
    writes, runs     \* bounds

input  == <<inv, plan, go, deep>>
remote == <<dest, userPass, grants, parsed, used, from>>
loop   == <<i, k, attempt, pass, rows, match>>
vars   == <<inv, plan, go, deep, source, dest, userPass, grants, parsed, used, pc, i, k, attempt,
            pass, creds, rows, match, tally, unscanned, cancelled, outcome, from, quiet,
            writes, runs>>

Live      == LiveItems(inv, plan)
Refused   == ValidatePlan(plan, Live) \cup ValidateDestNameLimits(inv, plan, Live)
DestDBs   == {x.destDB : x \in Range(plan)}
DestUsers == {x.destUser : x \in Range(plan)}
it        == plan[i]
Unavailable == dbAllDomainsUnavailableForApply(inv, it)
cfg       == it.configs[k]
site      == inv.site[cfg]

OldCred == [db |-> NoDB, user |-> Nobody, pass |-> NoPass]
NewCred == [db |-> it.destDB, user |-> it.destUser, pass |-> pass]

Init ==
    /\ inv \in Inventories /\ deep \in BOOLEAN
    /\ plan = BuildPlanWithMapping(inv) /\ go = Live \ Refused
    /\ source \in [DOMAIN inv.grantee -> InitialSource]
    /\ dest \in [DestDBs -> {NoDB}] \cup [DestDBs -> {OldDest}]
    /\ userPass = [u \in DestUsers |-> NoPass] /\ grants = {}
    /\ parsed = [c \in DOMAIN inv.site |-> OldCred] /\ used = parsed
    /\ pc = "idle" /\ i = 0 /\ k = 0 /\ attempt = 0 /\ pass = NoPass
    /\ creds = {} /\ rows = {} /\ match = TRUE /\ tally = {} /\ unscanned = {}
    /\ cancelled = FALSE /\ outcome = NoOne
    /\ from = [d \in DestDBs |-> NoOne] /\ quiet = {}
    /\ writes = 0 /\ runs = 0

-----------------------------------------------------------------------------
(* The world: the live source, the operator's interrupt, a crash.          *)

SourceWrite(db, w) ==
    /\ writes < MaxWrites
    /\ source[db][w.item] # w.version
    /\ source' = [source EXCEPT ![db][w.item] = w.version]
    /\ writes' = writes + 1
    /\ quiet' = quiet \ {db}
    /\ UNCHANGED <<input, remote, pc, loop, creds, tally, unscanned, cancelled, outcome, runs>>

Interrupt ==
    /\ pc # "idle" /\ ~cancelled
    /\ cancelled' = TRUE
    /\ UNCHANGED <<input, source, remote, pc, loop, creds, tally, unscanned, outcome, quiet, writes, runs>>

\* The process ends and its memory with it.
End(o) ==
    /\ pc' = "idle" /\ outcome' = o
    /\ i' = 0 /\ k' = 0 /\ attempt' = 0 /\ pass' = NoPass /\ rows' = {} /\ match' = TRUE
    /\ creds' = {} /\ tally' = {} /\ cancelled' = FALSE
    /\ UNCHANGED <<input, source, unscanned, quiet, writes, runs>>

Crash ==
    /\ pc # "idle"
    /\ End("error")
    /\ UNCHANGED remote

-----------------------------------------------------------------------------
(* runApply: domains first.  Failed and blocked ones count at the end.     *)

Start ==
    /\ pc = "idle" /\ runs < MaxRuns
    /\ runs' = runs + 1
    /\ tally' = IF \E c \in DOMAIN inv.site : domainUnavailable(inv.site[c].fate)
                THEN {"domains"} ELSE {}
    /\ pc' = "preflight" /\ outcome' = NoOne
    /\ i' = 1 /\ k' = 0 /\ creds' = {} /\ unscanned' = {} /\ cancelled' = FALSE /\ quiet' = {}
    /\ UNCHANGED <<input, source, remote, attempt, pass, rows, match, writes>>

\* The source's mysqldump is probed once when something will be dumped.
Preflight ==
    /\ pc = "preflight"
    /\ pc' = "item"
    /\ UNCHANGED <<input, source, remote, loop, creds, tally, unscanned, cancelled, outcome, quiet, writes, runs>>

ProbeFails ==
    /\ pc = "preflight" /\ go # {}
    /\ End("error")
    /\ UNCHANGED remote

-----------------------------------------------------------------------------
(* applyDBs, one database at a time                                        *)

NextItem == i' = i + 1 /\ pc' = "item"

\* An interrupt is noticed between two databases.
StopBetween ==
    /\ pc = "item" /\ i <= Len(plan) /\ cancelled
    /\ End("error")
    /\ UNCHANGED remote

\* Unavailable domains skip the database, or fail it; so does a refused plan.
PassOver ==
    /\ pc = "item" /\ i <= Len(plan) /\ ~cancelled
    /\ i \notin go
    /\ tally' = IF ~Unavailable \/ dbUnavailableReasonFailsDB(inv, it)
                THEN tally \cup {"dbFailed"} ELSE tally
    /\ NextItem
    /\ UNCHANGED <<input, source, remote, k, attempt, pass, rows, match, creds, unscanned, cancelled, outcome, quiet, writes, runs>>

\* Generating the password of an orphan may fail too, before anything else.
BeginItem ==
    /\ pc = "item" /\ i \in go /\ ~cancelled
    /\ pass' = IF it.pass = NoPass THEN Generated[it.src] ELSE it.pass
    /\ pc' = "user" /\ attempt' = 0 /\ k' = 1
    /\ UNCHANGED <<input, source, remote, i, rows, match, creds, tally, unscanned, cancelled, outcome, quiet, writes, runs>>

\* A failed step fails the database, or ends the run when it was interrupted.
Fails ==
    IF cancelled THEN End("error")
    ELSE /\ tally' = tally \cup {"dbFailed"}
         /\ NextItem
         /\ UNCHANGED <<input, source, k, attempt, pass, rows, match, creds, unscanned, cancelled, outcome, quiet, writes, runs>>

Step(next) ==
    /\ pc' = next
    /\ UNCHANGED <<input, source, i, k, pass, rows, match, tally, unscanned, cancelled, outcome, quiet, writes, runs>>

\* create_user's error is ignored: set_password decides.
SetDBUserPassword ==
    /\ pc = "user"
    /\ userPass' = [userPass EXCEPT ![it.destUser] = pass]
    /\ Step("grant")
    /\ UNCHANGED <<dest, grants, parsed, used, from, attempt, creds>>

\* create_user may have taken the password all the same.
SetDBUserPasswordFails ==
    /\ pc = "user"
    /\ \E p \in {userPass[it.destUser], IF userPass[it.destUser] = NoPass THEN pass ELSE userPass[it.destUser]} :
           userPass' = [userPass EXCEPT ![it.destUser] = p]
    /\ Fails
    /\ UNCHANGED <<dest, grants, parsed, used, from>>

\* create_database's error is ignored: the grant decides.
Created == IF dest[it.destDB] = NoDB THEN Nothing ELSE dest[it.destDB]

SetPrivilegesOnDatabase ==
    /\ pc = "grant"
    /\ dest' = [dest EXCEPT ![it.destDB] = Created]
    /\ grants' = grants \cup {<<it.destUser, it.destDB>>}
    /\ Step("empty")
    /\ UNCHANGED <<userPass, parsed, used, from, attempt, creds>>

SetPrivilegesFails ==
    /\ pc = "grant"
    /\ \E c \in {dest[it.destDB], Created} : dest' = [dest EXCEPT ![it.destDB] = c]
    /\ Fails
    /\ UNCHANGED <<userPass, grants, parsed, used, from>>

dropSchemaSQL(content) == Nothing

EmptyDatabase ==
    /\ pc = "empty"
    /\ dest' = [dest EXCEPT ![it.destDB] = dropSchemaSQL(dest[it.destDB])]
    /\ from' = [from EXCEPT ![it.destDB] = NoOne]
    /\ Step("copy")
    /\ UNCHANGED <<userPass, grants, parsed, used, attempt, creds>>

\* The statements run in order, so a failure may leave any part of them done.
EmptyFails ==
    /\ pc = "empty"
    /\ \E kept \in SUBSET Names :
           dest' = [dest EXCEPT ![it.destDB] = [x \in Names |-> IF x \in kept THEN @[x] ELSE 0]]
    /\ from' = [from EXCEPT ![it.destDB] = IF dest' = dest THEN @ ELSE NoOne]
    /\ Fails
    /\ UNCHANGED <<userPass, grants, parsed, used>>

\* The dump replaces the objects it holds and leaves the others alone.
Imported(some) ==
    [x \in Names |-> IF x \in some /\ source[it.src][x] # 0 THEN source[it.src][x]
                     ELSE dest[it.destDB][x]]

\* Both ends of the bridge succeeded: the credential is kept for the verify.
CopyDatabase ==
    /\ pc = "copy"
    /\ dest' = [dest EXCEPT ![it.destDB] = Imported(Names)]
    /\ from' = [from EXCEPT ![it.destDB] = it.src]
    /\ creds' = creds \cup {it.destDB}
    /\ Step("config")
    /\ UNCHANGED <<userPass, grants, parsed, used, attempt>>

MayRetry == attempt + 1 < TransferRetries /\ ~cancelled

\* An attempt breaks off with part of the dump imported; the next one dumps
\* the source anew.
CopyBreaks ==
    /\ pc = "copy"
    /\ \E some \in SUBSET Names : dest' = [dest EXCEPT ![it.destDB] = Imported(some)]
    /\ IF MayRetry
       THEN /\ attempt' = attempt + 1
            /\ Step("copy") /\ UNCHANGED creds
       ELSE Fails
    /\ UNCHANGED <<userPass, grants, parsed, used, from>>

-----------------------------------------------------------------------------
(* rewriteDestConfigs: each config of the database is rewritten, re-read   *)
(* and its docroot scanned.                                                *)

\* The import leads here at once; a database without configs is done.
Settled(issue) ==
    /\ tally' = tally \cup issue
    /\ k' = k + 1 /\ pc' = "config"
    /\ UNCHANGED <<input, source, i, attempt, pass, rows, match, creds, cancelled, outcome, quiet, writes, runs>>

NotRewritten == Settled({"dbConfigNotRewritten"})

ConfigsDone ==
    /\ pc = "config" /\ k > Len(it.configs)
    /\ NextItem
    /\ UNCHANGED <<input, source, remote, k, attempt, pass, rows, match, creds, tally, unscanned, cancelled, outcome, quiet, writes, runs>>

\* The config's docroot is unknown on either side (a domain that failed has
\* none), its domain is blocked, or nothing rewrites its kind.
ManualConfig ==
    /\ pc = "config" /\ k <= Len(it.configs)
    /\ site.fate # "ok" \/ ~site.supported
    /\ NotRewritten
    /\ UNCHANGED <<remote, unscanned>>

Rewritten ==
    /\ parsed' = [parsed EXCEPT ![cfg] = NewCred]
    /\ used' = IF site.trap = "none" THEN [used EXCEPT ![cfg] = NewCred] ELSE used

RewriteSiteConfig ==
    /\ pc = "config" /\ k <= Len(it.configs)
    /\ site.fate = "ok" /\ site.supported
    /\ Rewritten
    /\ Step("check")
    /\ UNCHANGED <<dest, userPass, grants, from, attempt, creds>>

\* The file is replaced by a rename, so it is the old one or the new one.
RewriteFails ==
    /\ pc = "config" /\ k <= Len(it.configs)
    /\ site.fate = "ok" /\ site.supported
    /\ Rewritten \/ UNCHANGED <<parsed, used>>
    /\ NotRewritten
    /\ UNCHANGED <<dest, userPass, grants, from, unscanned>>

checkDestCreds == parsed[cfg] = NewCred /\ site.local

\* The tier decides what an unproven cutover is: a note, or a failure.
\* Mutant: it is a note in both.
TierIgnored == {}

TierPolicy == IF deep THEN {"dbConfigNotRewritten"} ELSE {}

ConfigAmbiguity == site.trap = "ambiguous"

\* The docroot names the old database or user outside the planned configs.
SourceCredsStillReachable == site.trap = "stale"

\* The re-read finds a wrong value or host, or cannot tell which value PHP
\* uses; the scan that follows finds the old name elsewhere, or breaks off.
VerifyDestConfig(scans) ==
    /\ pc = "check"
    /\ Settled(IF ~checkDestCreds THEN {"dbConfigNotRewritten"}
               ELSE IF ConfigAmbiguity \/ (SourceCredsStillReachable /\ scans) THEN TierPolicy
               ELSE {})
    /\ unscanned' = IF checkDestCreds /\ ~scans THEN unscanned \cup {cfg} ELSE unscanned
    /\ UNCHANGED remote

ConfigUnreadable ==
    /\ pc = "check"
    /\ NotRewritten
    /\ UNCHANGED <<remote, unscanned>>

\* Config formats that nobody rewrites are counted, if the source answers.
reportUnmigratedDBConfigs ==
    /\ pc = "item" /\ i > Len(plan)
    /\ UNCHANGED remote
    /\ IF cancelled THEN End("error")
       ELSE /\ \E answered \in BOOLEAN :
                  tally' = IF inv.foreign /\ answered THEN tally \cup {"dbConfigUnmigrated"} ELSE tally
            /\ pc' = "verify" /\ i' = 1
            /\ UNCHANGED <<input, source, k, attempt, pass, rows, match, creds, unscanned, cancelled, outcome, quiet, writes, runs>>

-----------------------------------------------------------------------------
(* verifyDBs: the reads of one database are apart in time.                 *)

GetSchemaFingerprint(content) == {x \in Names : content[x] # 0}

Src              == source[it.src]
Dst              == dest[it.destDB]
Common           == GetSchemaFingerprint(Src) \cap GetSchemaFingerprint(Dst)
commonTableNames == Tables \cap Common

GetCharsets(content)        == [t \in commonTableNames |-> Coll[content[t]]]
ChecksumTables(content, ts) == [t \in ts |-> IF content[t] = 0 THEN NULL ELSE Data[content[t]]]

\* The server's text of a view is compared without its schema's name; a body
\* that contains that name may be reported although it is equal, which counts
\* against the run and is left out.
ObjectBodies(content) == [o \in Objects \cap Common |-> Body[content[o]]]

diffSchema       == GetSchemaFingerprint(Src) = GetSchemaFingerprint(Dst)
diffCharsets     == GetCharsets(Src) = GetCharsets(Dst)
diffObjectBodies == ObjectBodies(Src) = ObjectBodies(Dst)

\* Tables whose row counts agreed and that one side no longer has are unproven.
Proven(t) == NULL \notin {ChecksumTables(Src, rows)[t], ChecksumTables(Dst, rows)[t]}
diffSums  == \E t \in rows : Proven(t) /\ ChecksumTables(Src, rows)[t] # ChecksumTables(Dst, rows)[t]

\* Between versions a portable fingerprint may prove the tables equal, never
\* different.
crossEngineContentMatches(sums) == sums /\ ~diffSums /\ \A t \in rows : Proven(t)

Reads(next) ==
    /\ pc' = next
    /\ UNCHANGED <<input, source, remote, i, k, attempt, pass, creds, tally, unscanned, cancelled, outcome, writes, runs>>

dbVerdict(m) == IF m THEN {} ELSE {"dbDiff"}

Verdict(m) ==
    /\ tally' = tally \cup dbVerdict(m)
    /\ pc' = "verify" /\ i' = i + 1
    /\ UNCHANGED <<input, source, remote, k, attempt, pass, rows, match, creds, unscanned, cancelled, outcome, quiet, writes, runs>>

\* Without a credential the failure is already counted; an unavailable
\* database is under the domains.
VerifySkips ==
    /\ pc = "verify" /\ i <= Len(plan) /\ ~cancelled
    /\ Unavailable \/ it.destDB \notin creds
    /\ i' = i + 1
    /\ UNCHANGED <<input, source, remote, pc, k, attempt, pass, rows, match, creds, tally, unscanned, cancelled, outcome, quiet, writes, runs>>

VerifySchema ==
    /\ pc = "verify" /\ i <= Len(plan) /\ ~cancelled
    /\ ~Unavailable /\ it.destDB \in creds
    /\ match' = diffSchema
    /\ quiet' = quiet \cup {it.src} /\ rows' = rows
    /\ Reads("charsets")

SchemaUnreadable ==
    /\ pc = "verify" /\ i <= Len(plan) /\ ~cancelled
    /\ ~Unavailable /\ it.destDB \in creds
    /\ Verdict(FALSE)

\* Charsets that cannot be read on either side count against the database.
VerifyCharsets(readable) ==
    /\ pc = "charsets"
    /\ match' = (match /\ readable /\ diffCharsets)
    /\ quiet' = quiet /\ rows' = rows
    /\ Reads("rows")

\* DeepTables: the set of tables again, and their row counts.
DeepTables ==
    /\ pc = "rows"
    /\ rows' = {t \in commonTableNames : Rows[Src[t]] = Rows[Dst[t]]}
    /\ match' = (match /\ rows' = Tables \cap (GetSchemaFingerprint(Src) \cup GetSchemaFingerprint(Dst)))
    /\ quiet' = quiet
    /\ Reads("sums")

DeepTablesUnreadable ==
    /\ pc = "rows"
    /\ Verdict(FALSE)

\* On servers of one version CHECKSUM TABLE and the object bodies are compared,
\* where they can be read; between versions bodies cannot be.
deepDB(same, sums, bodies) ==
    /\ pc = "sums"
    /\ LET hardDiff  == same /\ ((sums /\ diffSums) \/ (bodies /\ ~diffObjectBodies))
           unchecked == \/ rows # {} /\ IF same THEN ~sums \/ \E t \in rows : ~Proven(t)
                                       ELSE ~crossEngineContentMatches(sums)
                        \/ ~bodies
                        \/ ~same /\ Objects \cap Common # {}
       IN  Verdict(match /\ ~hardDiff /\ (deep => ~unchecked))

VerifyInterrupted ==
    /\ pc = "verify" /\ i <= Len(plan) /\ cancelled
    /\ End("error")
    /\ UNCHANGED remote

\* applyOutcome: the run is clean only when every count is zero.
applyOutcome ==
    /\ pc = "verify" /\ i > Len(plan)
    /\ End(IF cancelled THEN "error" ELSE IF tally = {} THEN "ok" ELSE "issues")
    /\ UNCHANGED remote

-----------------------------------------------------------------------------

ApplyStep ==
    \/ Preflight \/ ProbeFails \/ StopBetween \/ PassOver \/ BeginItem
    \/ SetDBUserPassword \/ SetDBUserPasswordFails \/ SetPrivilegesOnDatabase \/ SetPrivilegesFails
    \/ EmptyDatabase \/ EmptyFails \/ CopyDatabase \/ CopyBreaks
    \/ ConfigsDone \/ ManualConfig \/ RewriteSiteConfig \/ RewriteFails
    \/ (\E s \in BOOLEAN : VerifyDestConfig(s)) \/ ConfigUnreadable
    \/ reportUnmigratedDBConfigs

VerifyStep ==
    \/ VerifySkips \/ VerifySchema \/ SchemaUnreadable
    \/ (\E r \in BOOLEAN : VerifyCharsets(r))
    \/ DeepTables \/ DeepTablesUnreadable
    \/ (\E same, sums, bodies \in BOOLEAN : deepDB(same, sums, bodies))
    \/ VerifyInterrupted \/ applyOutcome

Next ==
    \/ Start \/ ApplyStep \/ VerifyStep
    \/ (\E db \in DOMAIN source, w \in Writes : SourceWrite(db, w))
    \/ Interrupt \/ Crash

Spec == Init /\ [][Next]_vars

-----------------------------------------------------------------------------
(* Properties *)

Creds    == [db : DestDBs, user : DestUsers, pass : {x.pass : x \in Range(plan)} \cup Range(Generated)] \cup {OldCred}

\* The run's state keeps its kinds, a database in creds holds an import, and
\* a config that is being checked was rewritten for the database of the loop.
TypeOK ==
    /\ inv \in Inventories /\ deep \in BOOLEAN /\ go \subseteq DOMAIN plan
    /\ source \in [DOMAIN inv.grantee -> Contents]
    /\ dest \in [DestDBs -> Contents \cup {NoDB}]
    /\ grants \subseteq DestUsers \X DestDBs
    /\ parsed \in [DOMAIN inv.site -> Creds] /\ used \in [DOMAIN inv.site -> Creds]
    /\ pc \in {"idle", "preflight", "item", "user", "grant", "empty", "copy", "config",
               "check", "verify", "charsets", "rows", "sums"}
    /\ creds \subseteq {d \in DestDBs : from[d] # NoOne}
    /\ pc \in {"empty", "copy"} => dest[it.destDB] # NoDB
    /\ attempt < TransferRetries
    /\ tally \subseteq {"domains", "dbFailed", "dbConfigNotRewritten", "dbConfigUnmigrated", "dbDiff"}
    /\ outcome \in {NoOne, "ok", "issues", "error"}

\* A site that uses these credentials reaches the imported database.
Works(c, x) ==
    /\ c = [db |-> x.destDB, user |-> x.destUser, pass |-> userPass[x.destUser]]
    /\ <<x.destUser, x.destDB>> \in grants
    /\ from[x.destDB] = x.src

\* A clean run has migrated every database of the plan: each holds the import
\* of its own source, whose user it was granted to.
CleanMeansMigrated ==
    outcome = "ok" =>
        \A n \in DOMAIN plan :
            /\ from[plan[n].destDB] = plan[n].src
            /\ <<plan[n].destUser, plan[n].destDB>> \in grants

\* After a clean run every site works on the new server, with the password
\* its user has at the end of the run; the default tier lets the configs pass
\* whose value it could not prove, the deep one only what it could not scan.
CleanMeansCutOver ==
    outcome = "ok" =>
        \A n \in DOMAIN plan : \A c \in Range(plan[n].configs) :
            \/ Works(used[c], plan[n])
            \/ Works(parsed[c], plan[n]) /\ IF deep THEN c \in unscanned ELSE inv.site[c].trap # "none"

\* A clean run certifies the content: a source that nobody wrote since its
\* verification began has the destination's objects and row counts, and under
\* --deep-verify the destination's data in every table and its bodies in every
\* other object.  What the hashes do not cover may still differ: a dump read
\* while the source took such a change passes both tiers.
CleanMeansEqual ==
    outcome = "ok" =>
        \A n \in DOMAIN plan : plan[n].src \in quiet =>
            LET s == source[plan[n].src]
                d == dest[plan[n].destDB]
            IN  /\ GetSchemaFingerprint(s) = GetSchemaFingerprint(d)
                /\ \A t \in Tables \cap GetSchemaFingerprint(s) : Rows[s[t]] = Rows[d[t]]
                /\ deep => /\ \A t \in Tables \cap GetSchemaFingerprint(s) : Data[s[t]] = Data[d[t]]
                           /\ \A o \in Objects \cap GetSchemaFingerprint(s) : Body[s[o]] = Body[d[o]]

\* What a database of the run brought stays as it is until the run ends: its
\* rows are not dropped or overwritten for another one, and the password of its
\* user does not change, so configs written before keep working (ValidatePlan).
ImportsUndisturbed ==
    [][/\ \A d \in creds : dest'[d] = dest[d]
       /\ \A n \in go : plan[n].destDB \in creds
             => userPass'[plan[n].destUser] = userPass[plan[n].destUser]]_vars

\* What a clean exit of the database flow certifies (applyDBs, verifyDBs,
\* applyOutcome): every database migrated, every site cut over, equal contents.
CleanRun == TypeOK /\ CleanMeansMigrated /\ CleanMeansCutOver /\ CleanMeansEqual
=============================================================================
