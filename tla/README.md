# Verification of the cPanel self-migration tool

TLA+ models of the parts of this repository that are hard to test: who may write, in which order,
on which copy of the state, and what is left after a crash. TLC checks the models on small
instances, and TLAPS proves the safety properties for instances of any size: those of the control
plane, of the DNS, email and cron commands, of the domain, mail, web and database steps of a
migration, and of the SSH client and its bridge. One safety property and the liveness properties are
only model-checked.
`PROJECT.json` lists the components, the runs, the correspondence of every definition with source
lines, the hazards, the mutants and the theorems.

To check a run: `tlc -workers 2 -config MCJobSlot.cfg MCJobSlot`. To check proofs:
`tlapm OwnershipProofs.tla`.

## 1. Inventory of the system

The repository holds two programs that share a purpose: moving one cPanel account to another
server.

* The **Go command line tool** (`cmd/`, `internal/`): inventories of both accounts, a diff, a
  policy report, a checklist, plans for DNS, email and cron, *apply* commands that write to the
  destination with backup, verification and rollback, and the content migration (`--apply`: domains,
  mail, files, databases) over SSH. A local **web UI** (`internal/webui`, `internal/workbench`)
  drives it: one migration is a *session*, its artifacts are the files of one directory, and every
  action is a subprocess of the tool.
* The **migration platform** (`migration-platform/`): a FastAPI service with a worker, in which an
  execution is to be owned by one worker attempt under a lease.

| Component | State | Operations | What is hard | What makes it correct | Modules |
|---|---|---|---|---|---|
| Execution ownership (platform) | rows of executions and attempts, row locks, identity maps | acquire, start, renew, mark writes, finish, reconcile | stale objects under a lock, lease expiry in a lock queue, crashes, lock order | one attempt per execution, rows agree, partial prevails, terminal rows stay, no deadlock, a called reconciliation settles what it found | Attempts |
| Slot and job journal | `busy`, `reserved`, analysis state, `job.json` | run, exec, start-migration, accept, view, recovery | requests racing, panics, UI killed with a subprocess, page reading two sources | one subprocess, holder named, journal true, gate respected, slot always freed | JobSlot |
| Session store and handlers | `session.json`, flock and mutex, reports | set status, confirm scope, attach, record, automatic transition | read-modify-write across processes, decisions on old reads | complete and legal timeline, justified transition | Workbench |
| Configuration file | `host.yaml`, temporary candidates | load, save, sweep | overlapping saves, crash with credentials on disk | file always loads, passwords inherited, nothing left over | HostConfig |
| DNS commands | live zones, plan, backup and report files | plan, fetch, backup, mass edit, verify, report, reverse | zone edited between plan, fetch and write; lost answers; torn files; report and backup of different runs | pre-image saved, only reviewed values removed, rollback restores | DnsPlan, DnsApply |
| Email commands | forwarders, catch-alls, routing, filters, autoresponders; plan, backup, report | plan, snapshot, backup, write, verify, roll back | no serial guards the write; owners edit; crash between files | records are true, only reviewed values replaced, clean means migrated | EmailPlan, EmailApply, GuardedApply |
| Cron commands | crontab; plan, backup, report | plan, read, install, verify, roll back | one call replaces the whole table; variables have an order | owner's lines kept, jobs keep their environment | CronApply |
| Domain step | the destination's domains, temporary API token | cover, collide, create, revoke, re-read | full-access token on every path out; answers lost | no token is left unreported; failed and blocked domains are known to the flows | ApplyDomains |
| Mail flow | two live maildirs, `-bak` directories, UIDVALIDITY | account, mirror, delta, re-scan, verify | messages renamed, moved and expunged during the copy; a source that vanishes | nothing lost, nothing doubled, clean means synced | MailSync |
| Web flow | two live trees with nested docroots | plan, guard, list, put aside, empty, stream, verify | nested docroots, cut streams, unreadable sources, live sites | a site loses only what its source replaces, clean means mirrored | WebSync |
| Migration runner | outcome of a run | the order of the steps, exit | one of several steps fails, interrupts | undisturbed runs are clean | Apply |
| Database flow | databases, users, grants, configurations | plan, preflight, provision, dump, import, rewrite, verify | shared users, name collisions, dump repeated over half an import, live source | clean means equal data as far as the tier compares, and working sites | DbPlan, DbMigrate |
| SSH client | transport, generation, sessions | dial, heal, keepalive, run, close | heal racing close, silent links, session limit | one owner per transport, nothing leaks, every call returns | SshClient |
| SSH bridge | two commands, a relay, windows, a watchdog | start, relay, tear down, retry | both sides block or die at any byte | success is complete, blame is right, every batch ends | Bridge |
| Inventory, diff, policy, checklist, execution contract; screens; parsers; logs; platform CRUD and web interface | none, or read-only | decisions and formatting | | | section 8 |

The components meet in a few places. The slot serializes the subprocesses, so the models of single
commands run one at a time. The session store is written by handlers inside and outside the slot.
The checklist that the analysis writes gates the actions. The artifact files are how one subprocess
speaks to the next. In `--apply` the domain step decides for each domain whether the flows may touch
it; the flows stream over the bridge, whose retries and failures the flow modules take as steps.

## 2. Plan

Done: the control plane (Attempts, JobSlot, Workbench, HostConfig), the three pairs of apply and
rollback commands (DnsPlan and DnsApply, EmailPlan and EmailApply, CronApply) with an abstract
specification (GuardedApply), the content migration (ApplyDomains, MailSync, WebSync, composed in
Apply; DbPlan, DbMigrate) and its transport (SshClient, Bridge).

The safety properties of all of them are proved, with the refinement (section 6), except for one.
What is worth proving next is that one: `UndisturbedIsClean` of Apply, mail first: the plan and what
has arrived of it are together what the source holds, through every batch.

Left to model if the project grows: the selection of areas by policy and checklist as operators,
and the delivery of preflight jobs in the platform.

## 3. Modules and the code

Every module keeps the control of the code and abstracts its data. The source lines of every
definition are in `PROJECT.json` under `map`.

### Control plane

**Attempts** (`migration-platform/apps/api/app/modules/executions/attempts.py`). Each public
operation is a transaction of one database session, split where others can interleave: the call, the
lock of the execution row, the lock of the attempt row, the decision (which reads the database clock
once), the commit, and the refresh. The row locks are those of PostgreSQL. `identity` is the identity
map of an SQLAlchemy session: a referenced object is not refreshed by `SELECT ... FOR UPDATE`, so the
decision is taken on that object. `Crash` loses a connection inside a transaction. `Discover` reads
the clock and the candidates of a reconciliation before any lock. Nothing obliges anybody to call it.

**JobSlot** (`internal/webui/job.go`, `job_journal.go`, `accept.go`, and the slot's part of
`workbench_exec.go` and `workbench_orchestrator.go`). A request is a goroutine with a program
counter. `Reserve`, `Refuse` and `Release` are the critical sections of the mutex; `Launch`,
`ChildExits` and `ExecutePanics` are a subprocess and its ways to end; `StartJournal`,
`FinishJournal` and the recovery in `Restart` are the writes of `job.json`. `Kill` ends the UI at any
point, and its subprocess may survive it as an orphan, which goes on to rewrite the checklist when it
is a pipeline. Every write of the journal may fail, which the code ignores. The ghost `behind` says
whether the last write of the journal failed, and whether an orphan has changed the checklist since
the orchestrator read it.

**Workbench** (`internal/workbench`, and the handlers of `internal/webui` that change a session).
`Lock` takes the flock and the mutex and reads the file; one `Commit…` action per store operation
validates on that copy, writes and unlocks, or fails. Between store operations a handler reads with
`GetStatus`, `AutoGet` and `AutoReports`, without a lock. `Crash` kills a CLI command.

**HostConfig** (`saveConfig`, `writeValidatedConfig`, the sweep of `New`; `internal/config.Load`).
`Load`, `WriteTmp`, `Validate` and `Rename` are the steps of a save. Saves overlap, because nothing
in the code excludes it. `Edit` is an edit by hand.

### Apply commands

**DnsPlan** (`dnsplan.go`, `dnsverify.go`). `classify` and `verifyOp` as operators on sets of
records, in the order of the rules in the code. Values are canonical, so spelling and TTL are gone.
A and AAAA are one type, MX stands for the types copied verbatim, SRV for those never written.

**DnsApply** (`dns_apply_cmd.go`, `internal/cpanel/dns_apply.go`, `dnsapply_write.go`). One action
per network call or file write of `runDNSApplyWrites` and `runDNSRollback`: `FetchZone` for every
writable zone, `WriteBackup`, then per zone `WriteZone` (or `NothingToWrite`, `StaleSerial`,
`WriteFails`) and `VerifyZone`, then `finishDNSReport`; the rollback in the same way. `Edit` is
anybody else with access to the zone. `WriteFails` covers a call that failed and one whose answer was
lost; `BackupFails`, `ReportFails` and `Crash` may leave a torn file, since `os.WriteFile` truncates.
Files have the fixed names that the workbench passes, so a later run overwrites those of an earlier
one. The ghost `current` tells whether the report on disk was written since the plan was made: a
report of an earlier plan may lie beside the backup of an apply that died, even when the two plans
are equal. `mass_edit_zone` is external: one edit guarded by the serial, in which adding a record that
exists changes nothing, as `docs/dev/PR6D_DNS_APPLY_DESIGN.md` says.

**EmailPlan** (`emailplan.go`, `emailverify.go`, `emailapply.go`). The five sections of mail settings
as items with values; the classification of an op, its evaluation against the live account, its
inverse, and the verdict of a verification, as operators.

**EmailApply** (`email_apply_cmd.go`). Plan, snapshot per section, backup, recheck and write per op,
report, and the rollback with its degraded form without a report. The owner edits between any two
calls; a call may fail before or after it took effect. The inventory that a plan rests on may miss
something in three ways, as `collector.go` has it: a section is marked as not available, the content of
one item could not be read, or a whole listing failed with a warning and reads as an empty one (the
forwarders or autoresponders of a domain, the filters of a mailbox: the constant `Listings`). The ghost
`older` tells whether the backup is older than the plan; `changed` collects what was changed since the
plan, by the owner or by undoing an apply of an earlier plan, and `unseen` what the plan's inventory of
the destination had missed. `pre` is what the apply whose backup is on disk replaced; the report beside it may be of another
apply.

**GuardedApply** is the abstract specification: nothing is changed without a backup, a change is to a
planned value, an undo concerns what the tool wrote and restores what the backup holds. EmailApply is
shown to implement it under the refinement mapping of `Promise` (`KeepsPromise`).

**CronApply** (`cronplan.go`, `cron_apply_cmd.go`, `cron_verify_cmd.go`, `internal/cpanel/cron*.go`).
A crontab is a sequence of job and variable lines. `Merged` keeps the owner's text and appends; an
install replaces the table.

### Content migration

**ApplyDomains** (`apply_domains.go`, `selected_domains.go`, `addon_label_preflight.go`,
`cpanel/token.go`, `cpanel/addon.go`). The destination's list of domains is read, coverage and label
collisions are decided, left-over tokens revoked, the missing domain is created (an addon with a
temporary token), the token revoked on every way out, the list read again and the verdict made. One
domain is at stake; what the others contribute is in `DomainFacts`.

**MailSync** (`apply_mailboxes.go`, `maildir/`, `cpanel/email.go`, `verify.go`). One mailbox. A
message is its folder and base ID, a file is a message in `new/` or `cur/`, whole or torn. On either
side Dovecot may number a folder, or number it anew, at any time (`SourceIndex`, `DestIndex`); the
ghost `renumbered` holds the folders that the source numbered after the run's last reading. The
account is made (a stray directory is put aside first), a mirror run proves the source's occupancy
and resets the destination, the copy sends batches with retries and plans again when a file vanished,
control files bring the UIDVALIDITY, and the verification has the tiers of the flags.

**WebSync** (`apply_webfiles.go`, `domain_type_issues.go`, `webfiles/`). All docroots of an account,
because they lie inside each other: a side is one tree, a function from paths (sequences of names
made of `Words`) to files, links and empty directories. The plan and its type issues, the preflight
of all targets, then per docroot the listing, the `-bak` rename or the emptying, the batches with
retries, and the verification by manifest, by name fingerprints above the manifest cap, and by
content fingerprints.

**Apply** (`apply.go`) composes the three: the domain step and after it the flow that the flags
select. Both flows start from what the domain step left behind.

**DbPlan** (`dbmig/plan.go`, `dbmig/preflight.go`, `dbfiles_common.go`) has the prefix remap, the
owner and password of a database, and the preflight as operators. **DbMigrate** (`apply_dbs.go`,
`dbmig/transfer.go`, `deepverify.go`) is a run: provision, empty, dump and import, rewrite the
configurations, verify in two tiers, exit; the source is live, a run may die and be repeated. Content
is a version per table and object; `Rows`, `Data`, `Coll` and `Body` say what each check reads of a
version, so that two versions may agree in all that is compared.

**SshClient** (`sshx/client.go`, `pool.go`, `retry.go`): each section under the mutex without I/O is
one step; `heal` keeps the mutex across its dial. Transports fail, or go silent. **Bridge**
(`sshx/stream.go`, `stall.go`, `retry.go`): source command, relay goroutine, destination command, the
feed of the file list, one window of buffering on each side, the watchdog and the retry loop.

The MC modules define the instances. Beside a definition there may be a distorted form of it, a
plausible slip of the code; each property of a passing run is violated when one of these takes its definition's place,
so no property holds by the shape of the model.

## 4. Runs

| Run | Instance | What it shows |
|---|---|---|
| `attempts` | 1 execution, 2 workers, 1 reconciler, up to 2 attempts, a lost connection, clock 3 | One attempt per execution (`NoImplicitRetry`); the rows agree and half-written destinations are never called failed (`OutcomesSettled`); the lease separates what the worker and the reconciler may author (`LeaseFencesOutcome`); locks are taken in one order (`LockOrder`); terminal rows never change (`TerminalImmutable`); a lost attempt that a reconciliation found becomes terminal unless its owner renewed it in time (`ReconciliationSettles`). |
| `slot` | 2 requests of any of the 6 kinds that take the slot and a page view, with and without a checklist from before, UI killed and restarted, failing journal writes, surviving subprocesses | One subprocess of each UI, a second one only as an orphan, and a refusal names the holder (`SlotOwned`); `job.json` agrees with the slot after a write that succeeded (`JournalMatchesSlot`); no orchestrated write phase under a blocking checklist, unless an orphan rewrote it (`OrchestratorGated`); no page takes a dead UI's record for the job at work, unless the last write of the journal failed (`ViewRunningIsLive`); every request ends and frees the slot (`EveryRequestEnds`). |
| `workbench_store` | 3 requests or commands of 6 kinds, 2 areas | The timeline is complete, chained and legal (`AuditTrail`); the automatic transition leaves `verification_required` and rests on reports that are still clean (`CutoverSound`). |
| `config_safe` | 3 saves, a hand edit, UI killed | The file loads, blank fields inherit unless saves overlap, no credentials are left over (`ConfigSound`). |
| `dns_apply` | 2 zones, 9 pairs of source and destination, 2 foreign edits, 4 plans, applies and rollbacks | `BackupIsPreImage`, `OnlyReviewedRemoved`, `CnameStaysAlone`; a replace reported applied would pass `dns verify` (`AppliedIsCertified`); a rollback restores the backup and empties nothing (`UndoSound`). |
| `db_migrate` | 8 inventories, both tiers, one write to the source, 2 attempts per dump, 2 runs | A clean exit means equal objects and row counts, with `--deep-verify` equal data of tables and equal bodies of the other objects, and working configurations (`CleanRun`); no later step of a run drops, overwrites or locks out what it has imported (`ImportsUndisturbed`). |
| `ssh_client` | 2 callers, a closer, 2 transports, 2 misses, 1 session | No transport leaks, none is stopped twice, no command runs twice (`ConnectionSound`); sessions come back (`SessionsReturned`); a transport ends by its own failure or by `Close`, which is final (`TransportFate`); calls return, or are left with a command that runs on a live link (`CallsReturn`). |
| `ssh_dropped` | the same | Violated: the operation that lost its connection is retried (`DroppedIsRetried`, section 5). |
| `bridge` | 3 chunks, window 1, 4 attempts, both modes | Success is complete, sessions are closed once, progress is exact, blame is right (`BatchSound`); batches end (`BatchEnds`). |
| `email_apply` | 7 items over 5 sections, 1 edit, 1 fault, 5 plans, applies and rollbacks | The backup is what was replaced, a rollback restores it, an item is refused only if it was changed since the plan or missed by it (`RecordsSound`); `CleanMeansMigrated`; `OnlyReviewedReplaced`; EmailApply implements GuardedApply (`KeepsPromise`). |
| `cron_apply` | 3 commands or variables, 2 edits, 1 fault, 4 runs | `OwnerLinesKept`; jobs keep their variables, an unedited table is restored, a clean verification means migrated (`CrontabSound`). |
| `apply` | mailboxes: 4 sources, 5 destinations, all modes and tiers, 2 edits; sites: layouts with 2 docroots beside and inside each other, `-bak` directories and bare docroots, 9 refusals, 16 tiers, 1 edit; every domain situation; 1 fault | No token is left unreported (`TokenRevoked`); a clean exit means synced and mirrored (`MailSynced`, `SitesMirrored`); a site loses only what its source replaces (`SitesKept`); undisturbed runs are clean (`UndisturbedIsClean`); no mail is lost or doubled (`NothingLost`, `NoDuplicates`). |

Several properties are conjunctions of named parts, each with its own comment in the module; the
type invariant of a module is one of them, or is proved (section 6).

### Bounds and why they are enough

* *Attempts.* A second attempt row (`MaxAttempts = 2`) is what a forbidden retry would create. Leases
  of two clock units against a clock of 3 expire before, at and after each lock. A lease running at
  the last reading may still expire: `Tick` goes on while one is active.
* *JobSlot.* A holder or an orphan, a competitor and a page view are three requests, and the
  directory may hold the checklist of an earlier UI, so that an orchestration can start at once. The
  conflicts are pairwise, and the theorems prove the safety properties for any number of requests of any kind.
* *Workbench.* Two requests race, and a third makes the state they find unusual. Requests are
  finite, so behaviours end; deadlock checking is off there.
* *HostConfig.* Two overlapping saves and one after them.
* *DnsApply, EmailApply, CronApply.* A plan, two applies and a rollback are the shortest run in which
  the report and the backup come from different runs; in email a fifth run lets the rollback undo an
  apply of an earlier plan before the later plan is applied. In DNS two foreign edits remove a record and
  bring it back, and the second zone leaves something to write while the first is verified. In email
  each section has an item, two forwarders share an address, and one fault is a failed reading, a
  failed or lost call, a torn file or a crash. In cron two edits move a variable across a job.
* *DbMigrate.* Two databases are enough to share a user, a name or a site, and one of them may be
  passed over because of the other; one table and one view have every outcome of a dump; a second run
  meets what the first left.
* *SshClient.* Two transports make one stale; two callers and a closer are the parties of every race
  for the mutex; one session is the smallest limit. *Bridge.* Three chunks over windows of one piece
  leave one in each place: source, relay, destination. Four attempts are the code's own number.
* *Apply.* Two messages in the inbox and one in another folder under the same base ID; two edits
  rename a message and expunge it. Two docroots beside each other, one inside the other on both
  sides, or on the destination only, copied in either order; a destination that holds an old `-bak`
  directory inside a docroot, and nested docroots in which the source has no file. One fault reaches every failing call on
  every path; a second of the same kind is the retry of the first.

Where the run stops because its bounds are used up, deadlock checking is off (`CHECK_DEADLOCK FALSE`);
Attempts, JobSlot and HostConfig are checked for deadlock.

### Fairness

* *Attempts:* a transaction proceeds (weak fairness of the decision, commit and refresh; the server
  aborts a dead connection); a waiter for a row lock is served in the end (strong fairness, because
  PostgreSQL queues waiters); and time passes. Nothing is assumed of who calls what:
  `reconcile_expired_attempts` is called by nobody in the repository, so `ReconciliationSettles`
  speaks of a reconciliation that has begun, and the attempt of a dead worker that nobody reconciles
  stays active.
* *JobSlot:* every handler is a scheduled goroutine, and the timeout of `execRunner` ends every
  subprocess. Requests arrive, and the UI dies or restarts, without any fairness.
* *SshClient:* goroutines are scheduled; the keepalive ticker ticks; a dial ends by its deadline. A
  link that is silent is not obliged to recover: the misses of the keepalive end the wait. A remote
  command on a link that works is not obliged to exit, because `run` puts no bound on it (`CommandRuns`).
* *Bridge:* goroutines are scheduled, the watchdog's timer fires while the relay is waited for, and
  the remote commands, as running processes, take what is in their window, send while there is room
  in it, and exit when they have nothing left. A command whose window is full is owed nothing.

## 5. Observations

What the models show about the code, as it is. Where the code does not exclude a case, the property
says under which condition it holds.

*Control plane.*
* `attempts.py:220`: a worker that uses two database sessions decides on the row that the second one
  cached, and may then close as `failed` an attempt with `writes_started`. The run has one session
  per worker.
* `workbench_exec.go:480`: after an action `handleExec` forces the status that an earlier `Get`
  returned; a status that the operator sets between the two is overwritten, although a comment says
  that the re-read avoids it.
* `workbench_orchestrator.go:306`: the orchestrator fixes its phases before it reserves the slot, and
  a new scope can be confirmed in that window.
* `workbench_exec.go:376`: the gate of a single action is read before the slot is taken.
* `job.go:369`: a subprocess outlives a killed UI, is recorded as interrupted, and may overlap the
  next one; if it is a pipeline, it may rewrite the checklist under the orchestrator of that one.
  `SlotOwned` and `OrchestratorGated` name the orphan as the one exception.
* `job_journal.go:126`: a write of `job.json` that fails is ignored; the file then says what the last
  successful write said, until another one succeeds.
* The deadlock of several reconciliations over several executions is beyond the run, which has one
  execution; `LocksAreOrdered` (section 6) is about any number of them.
* `webui.go:300`: comments say that `cfgMu` serializes a save, and nothing ever locks it. With
  overlapping saves a blank field may bring back a password that the other one replaced; the file
  itself stays sound.

*Apply commands.*
* The DNS rollback does not compare an add with the fetched zone: a record that somebody else added
  between plan and apply is taken for the tool's own and removed.
* Repeating an apply overwrites the backup of the first run. A repeated email apply that finds nothing
  to write still overwrites the report, and the rollback then has nothing to undo.
* `emailapply.go:366` says that the backup and the report are paired by path and sha256. The rollback
  follows the path and compares no sha256 (`email_apply_cmd.go:880`). An apply that dies between the
  backup and the report leaves the report of the apply before it, and the rollback then takes what that
  one had set for what was there before: it calls a setting undone that it leaves as the first apply
  made it. What `RecordsSound` claims is about the apply of the backup.
* A listing that failed while the plan was made leaves a warning, and its items count as missing
  (`collector.go:128`, `:140`, `:543`). What is there is planned as a create, and the apply refuses it,
  rightly, but as something that `appeared since the plan` (`emailapply.go:274`), which it did not.
* An address with two planned forwarders, of which a run wrote the first only, is refused by every
  re-run, because the second's plan-time targets no longer match. `RefusalExplained` leaves it out.
* The degraded email rollback, without a report, restores routing from the backup alone.
* The stale guard of `cron apply` is never armed, since no plan sets `PlanTimeDestCrontab`. The cron
  rollback has no divergence guard, although `docs/dev/PR2A_CRON_APPLY_DESIGN.md:131` describes one.
  Applying a plan a second time appends its lines again. A crontab that cannot be read becomes an
  empty plan, which verifies clean.

*Content migration.*
* `apply_domains.go:84`: the token of a run that died is revoked by the next run that has an addon to
  create, and by no other.
* A file that a cut stream left torn on the destination is newer than the source's and is kept by
  `--keep-newer-files`: the advice to repeat with `--full` (`verify.go:482`) does not repair it. The
  verification reports it each time.
* A destination folder that is ahead of the source's is not checked for its UIDVALIDITY, nor is one
  without messages. When the source's Dovecot numbers such a folder after the run has sent, or missed,
  its uidlist, the run ends clean and the two sides number it differently. `ControlAligned` is about
  the other folders.
* `deepverify.go:283`: the hash of a routine leaves out its parameters; it also leaves out definers,
  the status and the schedule of an event, and the text of a routine whose body the server does not
  give, and `CHECKSUM TABLE` reads rows and no table definition. A dump that took such a change while
  the source was written to passes `--deep-verify`. `CleanRun` claims what is hashed, no more. Some
  bodies that are equal count as different (a view that contains its schema's name); such a run does
  not end clean, and the model leaves it out.
* `pool.go:37` says that the operation which lost its connection is retried on the fresh one. It is not:
  `run` returns the error, the client heals when the next session is opened, and a call starts its
  command at most once (`RunsAtMostOnce`). Only `RetryBatch`, above the client, repeats work
  (`ssh_dropped`).
* Between the mirror gate (`apply_mailboxes.go:200`) and the copy the source may vanish; the run then
  does not end cleanly, and the mail is in the `-bak` directory.
* Destination docroots that lie inside each other where the source's do not (the main domain in
  `public_html`, an addon moved beneath it): the outer copy removes the inner one with its `cgi-bin`
  and its `-bak` directory, or the inner one shows up as extra files of the outer one. Such a run
  never ends cleanly, and `UndisturbedIsClean` excludes the layout.
* A docroot may bear the name of the `-bak` directory of another one (an addon whose document root
  the owner moved there). A later copy empties it, and with it the files that an earlier copy put
  aside under that name. `OnlyTheSourceTakes` has the hypothesis `PlainTargets`, which excludes such
  names.
* A database that the plan passes over may have the name of one that the run imports: two sources
  that the prefix remap maps to one name, of which one is refused for another reason. What a run
  promises concerns the items it applies (`go`), and `ImportsUndisturbed` says so.
* A source docroot that vanishes after the destination was emptied leaves it empty, with a nonzero
  exit. A docroot inside a directory that cannot be entered reads as absent, and the verification
  skips it; its copy fails.

## 6. Proofs

All proofs are checked by TLAPS with its SMT, Zenon and temporal (LS4) backends, from the `ASSUME`s
of the modules only, which TLC evaluates in each run.

Each theorem rests on an inductive invariant: `Init => Inv`, `Inv /\ [Next]_vars => Inv'` with one
lemma or step per action, and `Inv => Property`, or for a property of steps
`Inv /\ [Next]_vars => Step`.

**OwnershipProofs**, Attempts. `TypeCorrect`: rows, locks, transactions and identity maps keep their kinds, and
only reconcilers reconcile, for any executions, sessions, leases and bounds.

* `LocksAreOrdered` proves `LockOrder`. It is not inductive, because the next lock of a reconciliation
  depends on what it has left; the invariant `InOrder` adds that a session holds nothing outside its
  transaction, that a reconciliation holds the execution of every attempt it holds, and that its
  candidates still come in their order. Since everybody who waits holds only earlier rows, no cycle of
  waiting sessions exists, whatever their number.
* `NeverRetried` proves `NoImplicitRetry` without any hypothesis, stale objects included. The
  invariant `OneAttempt` adds `Placed` (a session holds the locks that its place in the transaction
  says; one about to create an attempt holds the execution, which has none) and `Closed` (the
  execution of a terminal attempt is terminal, so that it cannot be acquired again).
* `OneStory`, `LeaseFences` and `OutcomeIsFinal` prove `OutcomesSettled`, `LeaseFencesOutcome` and
  `TerminalImmutable`, under the hypothesis `OneSessionPerWorker`. Their invariant `Story` says that
  a cached object is the row, or the row is terminal by now and the object's lease has run out
  (`Seen`), that a decision waiting for its commit is still right (`Decided`), and that rows not yet
  created have no writes (`Blank`). The hypothesis is needed: a worker
  with two sessions decides on the object that one of them cached (section 5).

**OwnershipProofs**, JobSlot. The properties are not inductive: one writer says nothing of a handler about to
launch. The invariant `IInv` adds `Paths` (each kind of request stays on its route through the
handler), `Exclusion` (whoever is in the critical section is alone, and the slot is busy), `Identity`
(`reserved` and the analysis state belong to that holder) and `Children` (a subprocess has its
handler at the point where it waits). From it follow `SlotTypeCorrect`, `HolderIsIdentified` and
`WritersAreExclusive`, whose second writer can only be an orphan; the last two together are
`SlotIsOwned`. `Recorded` ties the journal to the handler that wrote it, unless its last write failed,
and gives `JournalAgrees` and `ViewsAreLive`: a page reads the journal and the slot at two moments, and
what it shows as running held the slot at the second. `PhaseGated` says that the gate is open from the
moment the orchestrator has read it until its subprocess ends, unless an orphan has rewritten the
checklist, because otherwise only slot holders write it, and gives `PhasesAreGated`. None of these
theorems has a hypothesis: journal writes that fail and subprocesses that outlive their UI are steps
of the model.

**WebuiProofs**, Workbench. `LockedCopy`: the copy of the lock holder is the session on disk. With it every
write appends one event that starts where the session is (`Extended`), so `AuditTrail` is kept:
`TrailIsComplete`. The transition matrix has one edge into `ready_for_cutover`: `CutoverIsVerified`.
`SlotHeld`: only the holder of the slot rewrites reports, so they stay clean from the check to the
transition: `CutoverIsJustified`. Both together are `CutoverIsSound`.

**WebuiProofs**, HostConfig. `FileIsSound` proves `ConfigSound` for any saves, edits and kills. The invariant
adds `Judged` (a candidate about to be renamed loads, and its UI is up), `Alone` (without an overlap
at most one save is at work, it has read the file that is there, and its candidate is made from it) and
`NoFileNoPassword` (before the first file there is no password to inherit).

**SshProofs**, SshClient. `Connection`, `SessionsBalance` and `TransportsFate` prove `ConnectionSound`,
`SessionsReturned` and `TransportFate` for any callers, closers, dials, misses and sessions. The
invariant counts sessions by the calls that hold one (`SessionsCounted`), ties generations, transports
and keepalive loops together (`Numbers`, `Loops`), and says that a snapshot is of one generation, that
a caller gives up a transport only when it is gone (`Calls`), that the mutex is kept over a redial of
a dead client only, and that at most one Close has taken the live transport (`Owners`). `TransportFate`
is a step property: a live transport is retired only after its own failure, because a caller and a
keepalive loop name the generation they saw.

**SshProofs**, Bridge. `BatchesAreSound` proves `BatchSound` for any batch sizes, windows and numbers
of attempts. `BridgeInv` counts the pieces: what the source has sent is in its window, with the relay,
in the destination's window or consumed, so a destination that has seen the end of its input after a
source that ended well has everything. It adds what each command may still do in the state it is in,
that each session is open until the tear-down that closes it, that a blame on the source goes back to
a failure of the source or a file list it did not read to its end, and that the progress shown is this
attempt's part alone unless a relay of an earlier attempt, one that was not waited for, has written
since (`late` counts those relays, `stray` remembers that one wrote).

**DnsApplyProofs.** `DnsTypeCorrect` includes that no apply writes without a backup on disk.

* `BackupBeforeWrite` proves `BackupIsPreImage` for any zones, names, values, ip-map and foreign
  edits. The invariant `Held` says that what was fetched of each writable zone is a `Snapshot` (its
  serial is older, or its records are the zone's), and that the backup holds the snapshots from the
  moment it is written. A write needs the serials to be equal, so the backup is the zone.
* `RemovalsReviewed` proves `OnlyReviewedRemoved` from the same invariant, for finitely many values: a
  replace is active only if the fetched rrset has as many values as the plan and all of the plan's,
  hence no other (`ReplaceSeesPlanValues`), and at the write what was fetched is the zone.
* `CnamesStayAlone` proves `CnameStaysAlone`. In a zone that nobody edited since the plan, an
  rrset to be written has no CNAME beside it and a CNAME to be written has nothing beside it, neither
  in the zone nor among the ops of the plan (`CnameApart`).
* `ReportedIsCertified` proves `AppliedIsCertified`, for finitely many values: as long as
  the serial shows no other edit, the zone under verification is what was fetched with the edit
  applied (`Staged`), and a replaced rrset with as many values as desired, all of them desired, is the
  desired one.
* `ValuesToValues` and `UndoIsSound` prove `UndoSound`. `Trail` follows an unedited zone from an
  apply over its report to the rollback: an rrset that the current report calls replaced has the
  plan's old values or its new ones, the backup too, and the backup has the new ones only while the
  zone has (an apply repeated), however many applies, crashes and torn files come in between;
  `PutBack` says that the zone a rollback has written has the backup's values. The proof needs
  the ghost `current`: stated with an equal plan instead, the property fails when a report of an
  earlier plan meets the backup of an apply that died.

**EmailApplyProofs.** The invariant: `PlanSound` (a planned value is the source's, and for a setting
the plan remembers the destination's), `ReportSound` (the report's ops are sound ops), `Reads` and
`Writes` (what was read is still there unless it raced; what is about to be written may be replaced,
and the backup holds it), `Undoes` (a rollback restores what was before), `Unchanged` (what nobody
changed since the plan, and the plan did not miss, is what the plan saw, or what it wrote). It gives `RecordsAreSound`,
`CleanIsMigrated` and `ReviewedOnly` for any items, values, edits, faults and runs.
`ApplyKeepsPromise` is the refinement: EmailApply implements GuardedApply under the mapping of
`Promise`, the initial states by `PromiseInit`, the steps by `PromiseNext`, which maps each action to
an edit, a plan, a save, a write, a report, an undo or a stutter.

**CronApplyProofs.** `CrontabIsSound` and `OwnersLines` prove `CrontabSound` and `OwnerLinesKept` for
any crontabs, edits, faults, crashes and runs. The order of a planned crontab, its variables before
its jobs and both in the source's order, comes from `Arranged`, which puts each member of a finite set
at the place given by the number of members before it; that the result is the whole set, each member
once and in order (`ArrangedIsOrdered`), is a counting argument about finite sets and needs no
induction over the sequence. With it a created job is preceded by the variables that its source has in effect. The
invariant follows what the plan takes over of the source, what the backup holds of the table that was
read, and what a table that nobody edited consists of: the backup's lines and after them the plan's.

**DbMigrateProofs.** `CleanRunsAreSound` and `ImportsStay` prove `CleanRun` and `ImportsUndisturbed`
for any inventories that discovery can make (`InventoryAssumption`: known grantees, one credential per
file), contents, live writes, faults, interrupts, crashes and runs. `ItemsApart` is what `ValidatePlan`
is for: two items that may be applied have different destinations, sources and configs, and share a
user only with the password that both know. The invariant `MigrateInv` says what the run has done for
the item in hand (`InHand`), that every import on record is there with its user, its grant and its
content and belongs to an item that the loop has passed (`Held`), and what an empty tally means so
far: every item passed was imported and its configs cut over (`CleanImports`), every item verified
agrees (`CleanReads`). `Certified` is the property itself, which later steps keep. A step that writes
to the destination touches the item in hand only, and a password that is set again for a shared user
is the one it has (`PasswordSet`, `DatabaseSet`), which is `ImportsStay`.

**ApplyProofs.** The composed run, for any constants.

* `TokensAreRevoked` proves `TokenRevoked`: a token that exists is that of the step about to use or
  to revoke it, or the revocation failed and was reported, and no step after the domain step touches
  it.
* `CleanMailIsSynced`, `NoMailIsLost` and `NoMailIsDoubled` prove `MailSynced`, `NothingLost` and
  `NoDuplicates`. `MailInv` says what each place of the run has established: the plan names each
  message once and, in a delta, only those that the destination lacks (`MailSingle`); a copy that
  ended without failure has the source's numbering but for the folders in `renumbered`, and one that reset a mailbox with a proven
  source has brought something (`MailCopied`). A step keeps the destination, puts it aside as a
  whole, feeds it a batch, or moves a file of it (`DestChanges`); none of these loses a message.
* `CleanSitesAreMirrored` proves `SitesMirrored`. `WebInv` follows the verification: what it has read
  of the source is the source's view (`Compared`), and the docroots behind it are mirrored or
  noted (`Verified`), unless an owner wrote while it ran. What the copy did before plays no part:
  the claim of a clean exit rests on the verification alone.
* `OnlyTheSourceTakes` proves `SitesKept`, for a plan in which no docroot bears the name of a `-bak`
  directory (`PlainTargets`). The invariant `KeptInv` says where every file of the destination is that was there
  when the run began: in its place, under the `-bak` directories of the docroots that were put aside
  so far, or gone because the source of a docroot around it has a file, or was written by its owner
  during the run into a docroot that the source left bare. The hypothesis is needed: see section 5.

### Only model-checked

* Liveness under fairness (`ReconciliationSettles`, `EveryRequestEnds`, `CallsReturn`, `BatchEnds`) is out
  of reach of TLAPS.
* `UndisturbedIsClean` of Apply: a run without faults and edits, on accounts that can be made equal,
  ends clean. It speaks of everything that the copy sends, file by file and batch by batch, and of
  every verdict that must not be given: the invariant is the functional correctness of the whole copy
  (section 2).

## 7. Hazards without a property

Two hazards in `PROJECT.json` have no property, since the code does not exclude what they describe: a
status that the record of an execution undoes, and a cron rollback over a crontab edited meanwhile. Nor
has the gate of a single action, which is read before the slot is taken; the hazard about the
orchestrator's gate names it. The models contain these steps, and section 5 describes them.

## 8. Not modelled

* Inventory, diff, policy and checklist are passes over read-only listings to reports, and the
  execution contract is the validation of a document. They keep no state between runs. What later
  steps decide on is in the modules of those steps.
* The API bindings format requests and parse answers; the calls that write are steps of the modules
  that use them. Events, logs and reports are output that nothing reads back, and the screens and the
  React interface are presentation. The parsers (PHP serialization, `wp-config` and other
  configuration files, domain names) are right or wrong in their characters, which a state model
  abstracts away: what they find is a choice. Flag parsing and dispatch are left out.
* The platform's CRUD, its comparison rules and the delivery of its preflight jobs, which only read
  the two accounts.
* In DNS: TTLs and their cap, the Markdown reports, the dry run and the degraded rollback, which
  writes nothing; a plan edited by hand into a shape that `BuildDNSPlan` never produces.
* In email and cron: texts, except as values that are equal or not; the dry runs.
* In the content migration: the analysis that precedes a run (sizes and occupancy, for the report
  only), sizes and byte caps except as flags, permission bits (a soft difference), unsafe names on
  the destination, symbolic links in the path of a target (the guard's canonical path is the path),
  and progress bars. A run of Apply has one flow; flows of one invocation share nothing but the
  domain step and the exit. The composition with Bridge is by its outcome: a batch arrives, or it
  fails after any part of it arrived.
* In the SSH layer: authentication and host keys, and the contents of the streams.
