------------------------------ MODULE MailSync ------------------------------
(***************************************************************************)
(* `--apply` for one mailbox: its domain (module ApplyDomains), the        *)
(* account and the optional mirror rename (migrate/apply_mailboxes.go,     *)
(* cpanel/email.go, maildir/mirror.go), the copy in batches with retries   *)
(* and re-scans (maildir/transfer.go), and the verification that decides   *)
(* the exit (migrate/verify.go).  Both mailboxes are live: mail arrives,   *)
(* is read and is expunged meanwhile.                                      *)
(*                                                                         *)
(* A message is its folder and its base ID; a file is a message in new/ or *)
(* in cur/.  Message bodies never change, so a file on the destination is  *)
(* either whole or torn.                                                   *)
(***************************************************************************)
EXTENDS ApplyDomains, Sequences

CONSTANTS
    Msgs,            \* pairs <<folder, base ID>>
    Inbox,           \* the folder whose UIDVALIDITY the fast-skip compares
    Starts,          \* situations that a run may find, see AllStarts
    TransferRetries, MaxRescans,
    MaxEdits         \* bound on the owners' edits

Folders == {m[1] : m \in Msgs} \cup {Inbox}
Files   == Msgs \X {"new", "cur"}

\* uid is the UIDVALIDITY of a folder's dovecot-uidlist: the one the source had
\* at the start, one that its Dovecot gives during the run, or one that the
\* destination's Dovecot made up.
Boxes == [root : {"ok", "absent", "unreadable"},
          file : [Files -> {"none", "whole", "torn"}],
          uid  : [Folders -> {"none", "s", "n", "d"}]]

\* entry is what the inventory knows of the mailbox: its password hash is
\* missing, or two destination domains answer to its domain's name.
AllOptions == [mode : {"delta", "full", "mirror"}, check : {"default", "deep", "checksums"},
               entry : {"ok", "nohash", "ambiguous"}]

\* A domain that the destination lacks has no accounts there; a directory may
\* have stayed, and one that is missing is an empty one.  What the source holds
\* is whole, whatever it is.
IsStart(s) ==
    /\ DOMAIN s = {"src", "dest", "account", "opts", "facts", "hosted", "tokens"}
    /\ s.src \in Boxes /\ s.dest \in Boxes /\ s.dest.root = "ok"
    /\ \A x \in Files : s.src.file[x] # "torn"
    /\ \A m \in Msgs : "none" \in {s.src.file[<<m, "new">>], s.src.file[<<m, "cur">>]}
    /\ s.opts \in AllOptions /\ s.facts \in DomainFacts
    /\ s.account \in BOOLEAN /\ s.hosted \in BOOLEAN /\ (s.account => s.hosted)
    /\ s.tokens \subseteq {"old"}

ASSUME MailSyncAssumption ==
    /\ \A s \in Starts : IsStart(s)
    /\ IsFiniteSet(Msgs)
    /\ TransferRetries \in Nat \ {0} /\ MaxRescans \in Nat
    /\ MaxEdits \in Nat /\ MaxFaults \in Nat

VARIABLES
    src, dest,   \* the live mailboxes
    aside,       \* the destination mailboxes renamed to -bak, -bak.2, ...
    account,     \* the destination's shadow file has the user
    opts,        \* the run's flags and the inventory's entry
    todo,        \* the files of the plan that are still to be sent
    control,     \* the folders whose uidlist the final step will send
    batch,       \* the batch on its way, empty between batches
    tries, rescans,
    proven,      \* what the mirror gate saw: [bak, count]
    result,      \* the outcome that applyMailboxes recorded
    kind,        \* verify's worst folder verdict
    stable,      \* messages that were at the source all the time
    moved,       \* the owner of the destination moved a message during the run
    renumbered,  \* folders that the source's Dovecot numbered after the run's last
                 \* reading of their numbers
    calm,        \* nothing interfered, and the run started where it can succeed
    edits

flow   == <<pc, todo, control, batch, tries, rescans, proven, result, kind, exit>>
ghosts == <<stable, moved, renumbered, calm>>
vars   == <<src, dest, aside, account, opts, flow, ghosts, edits, faults, domainVars>>

-----------------------------------------------------------------------------
(* Reading a mailbox.                                                      *)

\* An absent directory, and one that cannot be entered, list nothing.
Listing(box) == IF box.root = "ok" THEN {x \in Files : box.file[x] # "none"} ELSE {}
InFolder(box, f) == {x \in Listing(box) : x[1][1] = f}
Uid(box, f) == IF box.root = "ok" THEN box.uid[f] ELSE "none"
Indexed(box) == {f \in Folders : Uid(box, f) # "none"}
Identity(x) == x[1]
Held(box) == {Identity(x) : x \in Listing(box)}

Consistent(s, d) ==
    /\ Listing(s) # {} /\ Cardinality(Listing(s)) = Cardinality(Listing(d))
    /\ Uid(s, Inbox) # "none" /\ Uid(s, Inbox) = Uid(d, Inbox)

\* The digest of a message; two files of one message that disagree have none.
Digest(box, m) ==
    LET bodies == {box.file[x] : x \in {y \in Listing(box) : Identity(y) = m}}
    IN  IF bodies = {} THEN "absent"
        ELSE IF Cardinality(bodies) > 1 THEN "unreadable" ELSE CHOOSE b \in bodies : TRUE

\* CountDigestDivergence and DiffMessageDigests: lost or different, and
\* impossible to compare.
Lost(s, d) == {m \in Held(s) : Digest(d, m) \notin {Digest(s, m), "unreadable"}}
Unclear(s, d) == {m \in Held(s) : Digest(d, m) = "unreadable"}

\* classifyVerify for one folder, and classifyMailbox: the worst of them.
FolderKind(s, d, f) ==
    LET sn == Cardinality(InFolder(s, f))
        dn == Cardinality(InFolder(d, f))
    IN  CASE sn = dn /\ (sn = 0 \/ Uid(s, f) = Uid(d, f)) -> "consistent"
          [] sn = dn /\ sn # 0 /\ Uid(s, f) # Uid(d, f)    -> "uidmismatch"
          [] dn < sn -> "incomplete"
          [] dn > sn -> "ahead"

MailboxKind(s, d) ==
    LET kinds == {FolderKind(s, d, f) : f \in Folders}
    IN  IF "incomplete" \in kinds THEN "incomplete"
        ELSE IF "uidmismatch" \in kinds THEN "uidmismatch"
        ELSE IF "ahead" \in kinds THEN "ahead" ELSE "consistent"

\* classifyVerify compares no UIDVALIDITY in a folder without messages, nor in
\* one where the destination has more.
Uncompared(s, d) == {f \in Folders : InFolder(s, f) = {} \/ FolderKind(s, d, f) = "ahead"}

-----------------------------------------------------------------------------
(* The plan of a copy and the extraction.                                  *)

DeltaByPath(s, d) == Listing(s) \ Listing(d)
DeltaById(s, d)   == {x \in Listing(s) : x[1][2] \notin {y[1][2] : y \in Listing(d)}}

\* deltaFiles: the messages that the destination lacks, by identity.
DeltaFiles(s, d) == {x \in Listing(s) : Identity(x) \notin Held(d)}

\* The uidlists are always sent again.
ControlFiles(s, d) == Indexed(s)

\* tar -x --keep-newer-files: a torn file is newer than its archive copy and
\* stays; any other one is unlinked and written again.
Extract(box, written, torn) ==
    [box EXCEPT !.file = [x \in Files |->
        IF box.file[x] = "torn" THEN "torn"
        ELSE IF x \in torn THEN "torn"
        ELSE IF x \in written THEN "whole" ELSE box.file[x]]]

\* tar -x --overwrite of the uidlists.
ExtractControl(box, s, fs) ==
    [box EXCEPT !.uid = [f \in Folders |-> IF f \in fs THEN s.uid[f] ELSE box.uid[f]]]

Empty == [root |-> "ok", file |-> [x \in Files |-> "none"], uid |-> [f \in Folders |-> "none"]]
IsEmpty(box) == Listing(box) = {} /\ Indexed(box) = {}

\* A mailbox that a run can bring into line: the source is readable and
\* indexed, nothing on the destination is torn or there twice, and nothing is
\* only there.
Convergable(s, d, o, f, h) ==
    /\ s.root = "ok" /\ o.entry = "ok"
    /\ h \/ (f.inventory /\ (f.kind = "addon" => f.label = "free"))
    /\ \A n \in Folders : InFolder(s, n) # {} => s.uid[n] # "none"
    /\ o.mode = "mirror" \/ /\ \A x \in Files : d.file[x] # "torn"
                            /\ Cardinality(Listing(d)) = Cardinality(Held(d))
                            /\ Held(d) \subseteq Held(s)
    /\ o.mode = "full" => \A x \in Listing(d) : x \in Listing(s)

Init ==
    /\ \E s \in Starts :
          /\ src = s.src /\ dest = s.dest /\ account = s.account /\ opts = s.opts
          /\ facts = s.facts /\ hosted = s.hosted /\ tokens = s.tokens
          /\ calm = Convergable(s.src, s.dest, s.opts, s.facts, s.hosted)
    /\ seen = FALSE /\ failed = FALSE /\ blocked = FALSE
    /\ cancelled = FALSE /\ unrevoked = FALSE
    /\ aside = <<>>
    /\ pc = "domains" /\ todo = {} /\ control = {} /\ batch = {} /\ tries = 0 /\ rescans = 0
    /\ proven = [bak |-> FALSE, count |-> 0]
    /\ result = "none" /\ kind = "none" /\ exit = "none"
    /\ stable = Held(src) /\ moved = FALSE /\ renumbered = {}
    /\ edits = 0 /\ faults = 0

-----------------------------------------------------------------------------
(* Steps of the run.                                                       *)

MailStep == pc \notin DomainSteps \cup {"done"}
Fault == UseFault /\ calm' = FALSE
NoFault == UNCHANGED <<faults, calm>>
Plan == <<todo, control, batch, tries, rescans>>

GoTo(step) == pc' = step /\ UNCHANGED <<result, Plan>>

\* The mailbox's outcome is recorded and its plan is gone; runApply then
\* verifies it.
NoPlan == todo' = {} /\ control' = {} /\ batch' = {} /\ tries' = 0 /\ rescans' = 0
Record(outcome) == pc' = "verify" /\ result' = outcome /\ NoPlan

\* Step 8; an undisturbed one leaves the run calm.
DomainStep ==
    /\ ApplyDomain
    /\ calm' = (calm /\ faults' = faults)
    /\ UNCHANGED <<src, dest, aside, account, opts, Plan, proven, result, kind,
                   stable, moved, renumbered, edits>>

\* The checks before anything is written.
Gate ==
    /\ pc = "gate"
    /\ CASE failed \/ blocked \/ ~seen -> Record("skipped")
         [] seen /\ ~blocked /\ opts.entry = "nohash"    -> Record("unverified")
         [] seen /\ ~blocked /\ opts.entry = "ambiguous" -> Record("failed")
         [] seen /\ ~blocked /\ opts.entry = "ok"        -> GoTo("account")
    /\ NoFault
    /\ UNCHANGED <<src, dest, aside, account, opts, proven, kind, exit,
                   stable, moved, renumbered, edits, domainVars>>

\* EnsureAccount: without an account the orphan directory is renamed aside
\* first; add_pop, the rename or the rewriting of shadow may fail.
EnsureAccount ==
    /\ pc = "account"
    /\ LET orphan == ~account /\ ~IsEmpty(dest) IN
       \/ /\ account' = TRUE
          /\ GoTo(CASE opts.mode = "mirror" -> "probe"
                    [] opts.mode = "delta"  -> "skip"
                    [] opts.mode = "full"   -> "list")
          /\ dest' = IF orphan THEN Empty ELSE dest
          /\ aside' = IF orphan THEN Append(aside, dest) ELSE aside
          /\ NoFault
       \/ /\ Fault /\ Record("failed") /\ UNCHANGED account
          /\ \/ orphan /\ dest' = Empty /\ aside' = Append(aside, dest)
             \/ UNCHANGED <<dest, aside>>
    /\ UNCHANGED <<src, opts, proven, kind, exit, stable, moved, renumbered, edits, domainVars>>

\* SourceBoxReadable.
ProbeSource ==
    /\ pc = "probe"
    /\ \/ /\ NoFault
          /\ IF src.root = "ok" THEN GoTo("count") ELSE Record("failed")
       \/ Fault /\ Record("failed")
    /\ UNCHANGED <<src, dest, aside, account, opts, proven, kind, exit, stable, moved, renumbered, edits, domainVars>>

\* GetFolderStats at the gate: an absent root counts nothing, without an error.
CountSource ==
    /\ pc = "count"
    /\ \/ /\ src.root # "unreadable"
          /\ GoTo("mirror") /\ proven' = [proven EXCEPT !.count = Cardinality(Listing(src))]
          /\ NoFault
       \/ src.root = "unreadable" /\ Record("failed") /\ NoFault /\ UNCHANGED proven
       \/ Fault /\ Record("failed") /\ UNCHANGED proven
    /\ UNCHANGED <<src, dest, aside, account, opts, kind, exit, stable, moved, renumbered, edits, domainVars>>

MirrorDelete(bak, live) == dest' = Empty /\ aside' = bak

\* mv of the mailbox to the first free -bak name.
SetAside(bak, live) == dest' = Empty /\ aside' = Append(bak, live)

MirrorBox ==
    /\ pc = "mirror"
    /\ \/ /\ GoTo("list") /\ NoFault
          /\ proven' = [proven EXCEPT !.bak = ~IsEmpty(dest)]
          /\ IF IsEmpty(dest) THEN UNCHANGED <<dest, aside>> ELSE SetAside(aside, dest)
       \/ /\ Fault /\ Record("failed") /\ UNCHANGED <<proven, dest, aside>>
    /\ UNCHANGED <<src, account, opts, kind, exit, stable, moved, renumbered, edits, domainVars>>

\* The fast-skip of a plain run; a failed reading only means that it copies.
FastSkip ==
    /\ pc = "skip"
    /\ LET same == /\ src.root # "unreadable" /\ Consistent(src, dest)
                   /\ opts.check = "checksums" => Held(src) = Held(dest)
       IN  \/ NoFault /\ IF same THEN Record("unchanged") ELSE GoTo("list")
           \/ Fault /\ GoTo("list")
    /\ UNCHANGED <<src, dest, aside, account, opts, proven, kind, exit,
                   stable, moved, renumbered, edits, domainVars>>

CopyDoneUnchecked == Record("migrated")

\* After the last batch: the mirror's own check, if it applies.
CopyDone == IF proven.bak /\ proven.count > 0
            THEN pc' = "check" /\ NoPlan /\ UNCHANGED result
            ELSE Record("migrated")

NewPlan(files, n) ==
    IF files = {} /\ ControlFiles(src, dest) = {} THEN CopyDone
    ELSE /\ pc' = "copy" /\ rescans' = n /\ UNCHANGED result
         /\ todo' = files /\ control' = ControlFiles(src, dest) /\ batch' = {} /\ tries' = 0

\* The first scan of SyncBoxProgressDomains.
ListFiles ==
    /\ pc = "list"
    /\ \/ /\ NewPlan(IF opts.mode = "delta" THEN DeltaFiles(src, dest) ELSE Listing(src), 0)
          /\ NoFault
       \/ Fault /\ Record("failed")
    /\ UNCHANGED <<src, dest, aside, account, opts, proven, kind, exit,
                   stable, moved, renumbered, edits, domainVars>>

\* SplitBatches: the next batch is some of the files that are left.
NextBatch ==
    /\ pc = "copy" /\ batch = {} /\ todo # {}
    /\ \E b \in SUBSET todo \ {{}} : batch' = b /\ todo' = todo \ b
    /\ tries' = 0 /\ NoFault
    /\ UNCHANGED <<src, dest, aside, account, opts, pc, control, rescans, proven, result,
                   kind, exit, stable, moved, renumbered, edits, domainVars>>

\* Nothing but the uidlists is left.
ControlStep == batch = {} /\ todo = {}
InFlight == pc = "copy" /\ (batch # {} \/ ControlStep)

Vanished == IF ControlStep THEN src.root = "absent"
            ELSE src.root = "absent" \/ (src.root = "ok" /\ ~ batch \subseteq Listing(src))

\* streamOnce succeeds.
Stream ==
    /\ InFlight /\ src.root = "ok" /\ ~Vanished
    /\ \/ /\ batch # {}
          /\ dest' = Extract(dest, batch, {})
          /\ IF todo = {} /\ control = {} THEN CopyDone
             ELSE batch' = {} /\ tries' = 0 /\ UNCHANGED <<pc, result, todo, control, rescans>>
          /\ UNCHANGED renumbered
       \/ /\ ControlStep
          /\ dest' = ExtractControl(dest, src, control)
          /\ renumbered' = renumbered \ control
          /\ CopyDone
    /\ NoFault
    /\ UNCHANGED <<src, aside, account, opts, proven,
                   kind, exit, stable, moved, edits, domainVars>>

\* The source's tar skips a file that is gone and fails at its end: the
\* others are extracted, and the run scans both sides anew.
StreamVanished ==
    /\ InFlight /\ Vanished
    /\ dest' = Extract(dest, batch \cap Listing(src), {})
    /\ IF rescans < MaxRescans THEN GoTo("rescan") ELSE Record("failed")
    /\ NoFault
    /\ UNCHANGED <<src, aside, account, opts, proven,
                   kind, exit, stable, moved, renumbered, edits, domainVars>>

\* The new plan is a delta in every mode.
Rescan ==
    /\ pc = "rescan"
    /\ \/ NewPlan(DeltaFiles(src, dest), rescans + 1) /\ NoFault
       \/ Fault /\ Record("failed")
    /\ UNCHANGED <<src, dest, aside, account, opts, proven, kind, exit,
                   stable, moved, renumbered, edits, domainVars>>

\* RetryBatch gives up after TransferRetries attempts.
FailAttempt ==
    IF tries + 1 < TransferRetries
    THEN tries' = tries + 1 /\ UNCHANGED <<pc, result, todo, control, batch, rescans>>
    ELSE Record("failed")

\* An attempt breaks off: some files have arrived and one may be cut short.
StreamBroken ==
    /\ InFlight
    /\ \/ /\ src.root = "unreadable" /\ NoFault /\ UNCHANGED dest
       \/ /\ src.root = "ok" /\ ~ControlStep /\ Fault
          /\ \E written \in SUBSET (batch \cap Listing(src)) :
             \E torn \in {{}} \cup {{x} : x \in (batch \cap Listing(src)) \ written} :
                dest' = Extract(dest, written, torn)
       \/ /\ src.root = "ok" /\ ControlStep /\ Fault
          /\ \E fs \in SUBSET control : dest' = ExtractControl(dest, src, fs)
    /\ FailAttempt
    /\ UNCHANGED <<src, aside, account, opts, proven,
                   kind, exit, stable, moved, renumbered, edits, domainVars>>

\* The mirror's check after the copy (mirrorEmptiedLiveDest).
CheckMirror ==
    /\ pc = "check"
    /\ \/ NoFault /\ Record(IF Listing(dest) = {} THEN "failed" ELSE "migrated")
       \/ Fault /\ Record("failed")
    /\ UNCHANGED <<src, dest, aside, account, opts, proven, kind, exit,
                   stable, moved, renumbered, edits, domainVars>>

-----------------------------------------------------------------------------
(* The verification and the exit.                                          *)

\* applyOutcome: a hard difference, a failed or an unverified mailbox, a
\* failed or a blocked domain.  "noted" is a clean exit whose report says that
\* the bodies were not compared.
Finish(hard, noted) ==
    /\ pc' = "done"
    /\ exit' = IF hard \/ result \in {"failed", "unverified"} \/ failed \/ blocked
               THEN "issues" ELSE IF noted THEN "noted" ELSE "clean"

Deep == opts.check # "default"

\* What the bodies say: a message that is lost or different, and with a deep
\* verification one that could not be compared.
ContentHard(s, d) == Lost(s, d) # {} \/ (Deep /\ Unclear(s, d) # {})

Reachable == seen /\ opts.entry = "ok"

\* verify's gates, and the counts and UIDVALIDITYs of the folders.  A domain
\* that is missing without a reason, and a name that cannot be resolved, are
\* hard differences.
VerifyFolders ==
    /\ pc = "verify"
    /\ \/ /\ ~Reachable /\ NoFault /\ kind' = "none"
          /\ Finish(IF seen THEN opts.entry = "ambiguous" ELSE ~failed /\ ~blocked, FALSE)
          /\ UNCHANGED renumbered
       \/ /\ Reachable /\ src.root = "unreadable" /\ NoFault
          /\ kind' = "unreadable" /\ Finish(TRUE, FALSE)
          /\ UNCHANGED renumbered
       \/ /\ Reachable /\ Fault
          /\ kind' = "unreadable" /\ Finish(TRUE, FALSE)
          /\ UNCHANGED renumbered
       \/ /\ Reachable /\ src.root # "unreadable" /\ NoFault
          /\ kind' = MailboxKind(src, dest)
          /\ IF kind' \in {"incomplete", "uidmismatch"}
             THEN Finish(TRUE, FALSE) /\ UNCHANGED renumbered
             ELSE /\ pc' = "digest" /\ UNCHANGED exit
                  /\ renumbered' = renumbered \cap Uncompared(src, dest)
    /\ UNCHANGED <<src, dest, aside, account, opts, Plan, proven, result,
                   stable, moved, edits, domainVars>>

\* The bodies.  What cannot be compared is a note by default, and a hard
\* difference for a deep verification.
VerifyDigests ==
    /\ pc = "digest"
    /\ \/ /\ src.root # "unreadable" /\ NoFault
          /\ Finish(ContentHard(src, dest), Unclear(src, dest) # {})
       \/ /\ src.root = "unreadable" /\ NoFault /\ Finish(Deep, TRUE)
       \/ /\ Fault /\ Finish(Deep, TRUE)
    /\ UNCHANGED <<src, dest, aside, account, opts, Plan, proven, result, kind,
                   stable, moved, renumbered, edits, domainVars>>

\* Ctrl-C: the run ends with the context's error.
Interrupt ==
    /\ MailStep /\ Fault /\ pc' = "done" /\ exit' = "issues" /\ NoPlan
    /\ UNCHANGED <<src, dest, aside, account, opts, proven, result, kind,
                   stable, moved, renumbered, edits, domainVars>>

-----------------------------------------------------------------------------
(* The owners of the two mailboxes, from the mailbox step on: what they do  *)
(* before is another start.                                                 *)

Edit == MailStep /\ edits < MaxEdits /\ edits' = edits + 1 /\ calm' = FALSE
            /\ UNCHANGED <<aside, account, opts, flow, faults, domainVars>>

\* Mail arrives at the source, is read there, or is expunged.
SourceDeliver(m) ==
    /\ src.root = "ok" /\ m \notin Held(src) /\ m \notin Held(dest)
    /\ Edit /\ src' = [src EXCEPT !.file[<<m, "new">>] = "whole"]
    /\ UNCHANGED <<dest, stable, moved, renumbered>>

SourceRead(m) ==
    /\ <<m, "new">> \in Listing(src)
    /\ Edit /\ src' = [src EXCEPT !.file = [@ EXCEPT ![<<m, "new">>] = "none", ![<<m, "cur">>] = "whole"]]
    /\ UNCHANGED <<dest, stable, moved, renumbered>>

SourceExpunge(x) ==
    /\ x \in Listing(src)
    /\ Edit /\ src' = [src EXCEPT !.file[x] = "none"] /\ stable' = stable \ {Identity(x)}
    /\ UNCHANGED <<dest, moved, renumbered>>

\* The source's Dovecot opens a folder without an index, or rebuilds one that
\* it had.
SourceIndex(f) ==
    /\ src.root = "ok" /\ src.uid[f] # "n"
    /\ Edit /\ src' = [src EXCEPT !.uid[f] = "n"] /\ renumbered' = renumbered \cup {f}
    /\ UNCHANGED <<dest, stable, moved>>

\* The directory is removed, or loses its permissions.
SourceVanish(r) ==
    /\ src.root = "ok"
    /\ Edit /\ src' = [src EXCEPT !.root = r] /\ stable' = {}
    /\ UNCHANGED <<dest, moved, renumbered>>

\* A message is read at the destination.
DestRead(m) ==
    /\ <<m, "new">> \in Listing(dest) /\ <<m, "cur">> \notin Listing(dest)
    /\ Edit /\ moved' = TRUE
    /\ dest' = [dest EXCEPT !.file = [@ EXCEPT ![<<m, "new">>] = "none",
                                              ![<<m, "cur">>] = dest.file[<<m, "new">>]]]
    /\ UNCHANGED <<src, stable, renumbered>>

\* The destination's Dovecot opens a folder without an index.
DestIndex(f) ==
    /\ account /\ dest.uid[f] = "none"
    /\ Edit /\ dest' = [dest EXCEPT !.uid[f] = "d"]
    /\ UNCHANGED <<src, stable, moved, renumbered>>

Tool == \/ DomainStep \/ Gate \/ EnsureAccount \/ ProbeSource \/ CountSource \/ MirrorBox \/ FastSkip
        \/ ListFiles \/ NextBatch \/ Stream \/ StreamVanished \/ Rescan \/ StreamBroken
        \/ CheckMirror \/ VerifyFolders \/ VerifyDigests \/ Interrupt

Owners == \/ \E m \in Msgs : SourceDeliver(m) \/ SourceRead(m) \/ DestRead(m)
          \/ \E x \in Files : SourceExpunge(x)
          \/ \E r \in {"absent", "unreadable"} : SourceVanish(r)
          \/ \E f \in Folders : SourceIndex(f) \/ DestIndex(f)

Next == Tool \/ Owners
Spec == Init /\ [][Next]_vars

-----------------------------------------------------------------------------
(* Properties.                                                             *)

\* Types, and one copy at most of a message at the source.
TypeOK ==
    /\ src \in Boxes /\ dest \in Boxes
    /\ \A m \in Msgs : ~ {<<m, "new">>, <<m, "cur">>} \subseteq Listing(src)
    /\ \A i \in DOMAIN aside : aside[i] \in Boxes
    /\ account \in BOOLEAN /\ moved \in BOOLEAN /\ calm \in BOOLEAN
    /\ renumbered \subseteq Folders
    /\ pc \in DomainSteps \cup {"gate", "account", "probe", "count", "mirror", "skip", "list", "copy",
               "rescan", "check", "verify", "digest", "done"}
    /\ todo \subseteq Files /\ batch \subseteq Files /\ control \subseteq Folders
    /\ tries \in 0..TransferRetries - 1 /\ rescans \in 0..MaxRescans
    /\ result \in {"none", "migrated", "unchanged", "failed", "skipped", "unverified"}
    /\ kind \in {"none", "consistent", "ahead", "uidmismatch", "incomplete", "unreadable"}
    /\ exit \in {"none", "clean", "noted", "issues"}

Copies(m) == {x \in Listing(dest) : Identity(x) = m}

\* No step of a run makes a message of the destination disappear: it stays in
\* the live mailbox or in a -bak directory, whatever fails and in every mode
\* (mirror.go:9, "mail that exists only on the destination is moved out of the
\* live mailbox", and email.go's orphan rename).
Anywhere == Held(dest) \cup UNION {Held(aside[i]) : i \in DOMAIN aside}
NothingLost == [][Anywhere \subseteq Anywhere']_vars

\* A clean exit without a note means that every message that was at the source
\* all along is whole on the destination, although batches were cut short,
\* repeated and planned anew while both mailboxes changed (verify,
\* verifyMailContentDigest, syncBatch).
CleanMeansIntact ==
    exit = "clean" => \A m \in stable : \E x \in Copies(m) : dest.file[x] = "whole"

\* A run that copied and ended cleanly has the source's UIDVALIDITY in every
\* folder, also in one where the destination has more mail, which verify does
\* not compare (deltaFiles, planSyncSteps, classifyVerify).  It has not where
\* the source's Dovecot numbered the folder after the run's last reading: the
\* uidlists are read when they are sent, and verify reads them again only of a
\* folder with as many messages on either side.
ControlAligned ==
    exit \in {"clean", "noted"} /\ result = "migrated" /\ src.root = "ok" =>
        \A f \in Indexed(src) \ renumbered : Uid(dest, f) = Uid(src, f)

\* A run that plans by identity never makes a second file of a message,
\* however often it retries and re-scans, unless the message was moved on the
\* destination meanwhile (fileIdentity, deltaFiles, extraction in place).
NoDuplicates ==
    [][\A m \in Msgs : opts.mode # "full" /\ ~moved' /\ Cardinality(Copies(m)') > Cardinality(Copies(m))
                          => Copies(m) = {}]_vars

\* An undisturbed run ends cleanly and without a note when nothing that it
\* cannot repair was there at its start.
CalmIsClean == exit # "none" /\ calm => exit = "clean"

\* A mirror run that set the live mailbox aside, for a source in which its gate
\* had counted mail, does not end cleanly with the live mailbox empty, although
\* the source may vanish at any later moment and then compares as equally empty
\* (mirrorEmptiedLiveDest).
MirrorNeverEmpties ==
    exit \in {"clean", "noted"} /\ proven.bak /\ proven.count > 0 => Listing(dest) # {}

\* What a clean exit certifies for a mailbox (verify, applyOutcome): the
\* source's messages, the numbering that the run has read, and no emptied
\* mirror.
CleanMeansSynced == TypeOK /\ CleanMeansIntact /\ ControlAligned /\ MirrorNeverEmpties
=============================================================================
