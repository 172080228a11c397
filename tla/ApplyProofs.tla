----------------------------- MODULE ApplyProofs -----------------------------
(***************************************************************************)
(* Proofs about `--apply` (module Apply): the API token of the domain      *)
(* step, what a run of the mail flow leaves on the destination, and what a *)
(* clean exit of either flow means.                                        *)
(***************************************************************************)
EXTENDS Apply, FiniteSetTheorems, SequenceTheorems, WellFoundedInduction, TLAPS

-----------------------------------------------------------------------------
(* The domain step                                                         *)

\* Only an addon domain gets a token, and the step ends past its revocation.
TokenInv ==
    /\ opts \in AllOptions
    /\ facts.kind \in {"addon", "sub"}
    /\ pc \in {"leftovers", "token"} => facts.kind = "addon"
    /\ TokenRevoked
    /\ facts.kind = "sub" /\ "own" \in tokens => unrevoked

\* Past the domain step nothing touches its state.
PastDomains == UNCHANGED <<domainVars, opts>> /\ pc \notin DomainSteps /\ pc' \notin DomainSteps

\* Steps after the domain step touch no token.
LEMMA PastDomainsTokens == ASSUME TokenInv, PastDomains PROVE TokenInv'
  BY DEF TokenInv, TokenRevoked, PastDomains, domainVars, DomainSteps

\* Every step of applyDomains keeps the token accounted for: it is revoked,
\* about to be, or its revocation failed.
LEMMA DomainTokens == ASSUME TokenInv, ApplyDomain, UNCHANGED opts PROVE TokenInv'
<1>1. CASE PlanDomains
  <2>1. /\ pc = "domains" /\ UNCHANGED <<facts, tokens, unrevoked>>
        /\ pc' \in {"leftovers", "create", "reread", "gate", "done"}
        /\ pc' = "leftovers" => facts.kind = "addon"
    BY <1>1 DEF PlanDomains, AbortStep, TokenInv
  <2>. QED BY <2>1 DEF TokenInv, TokenRevoked
<1>2. CASE RevokeLeftovers
  <2>1. /\ pc = "leftovers" /\ pc' = "token" /\ UNCHANGED <<facts, unrevoked>>
        /\ tokens' \subseteq tokens
    BY <1>2 DEF RevokeLeftovers
  <2>. QED BY <2>1 DEF TokenInv, TokenRevoked
<1>3. CASE CreateToken
  <2>1. /\ pc = "token" /\ pc' \in {"create", "revoke"} /\ UNCHANGED <<facts, unrevoked>>
    BY <1>3 DEF CreateToken
  <2>. QED BY <2>1 DEF TokenInv, TokenRevoked
<1>4. CASE CreateDomain
  <2>1. /\ pc = "create" /\ UNCHANGED <<facts, tokens, unrevoked>>
        /\ pc' = IF facts.kind = "addon" THEN "revoke" ELSE "reread"
    BY <1>4 DEF CreateDomain, AfterAddon
  <2>. QED BY <2>1 DEF TokenInv, TokenRevoked
<1>5. CASE RevokeToken
  <2>1. /\ pc = "revoke" /\ pc' = "reread" /\ UNCHANGED facts
        /\ \/ tokens' = tokens \ {"own"} /\ unrevoked' = unrevoked
           \/ tokens' = tokens /\ unrevoked' = TRUE
    BY <1>5 DEF RevokeToken
  <2>. QED BY <2>1 DEF TokenInv, TokenRevoked
<1>6. CASE Reread
  <2>1. /\ pc = "reread" /\ pc' \in {"gate", "done"} /\ UNCHANGED <<facts, tokens, unrevoked>>
    BY <1>6 DEF Reread, AbortStep
  <2>. QED BY <2>1 DEF TokenInv, TokenRevoked
<1>7. CASE Cancel
  <2>1. UNCHANGED <<pc, facts, tokens, unrevoked>>
    BY <1>7 DEF Cancel
  <2>. QED BY <2>1 DEF TokenInv, TokenRevoked
<1>. QED BY <1>1, <1>2, <1>3, <1>4, <1>5, <1>6, <1>7 DEF ApplyDomain

\* The domain step goes on, hands over to the flow, or ends the run.
LEMMA DomainMoves ==
    ASSUME TokenInv, ApplyDomain
    PROVE  /\ pc \in DomainSteps
           /\ \/ pc' \in DomainSteps \cup {"gate"} /\ exit' = exit
              \/ pc' = "done" /\ exit' = "issues"
<1>1. CASE PlanDomains
  BY <1>1 DEF PlanDomains, AbortStep, DomainSteps, TokenInv
<1>2. CASE RevokeLeftovers \/ CreateToken \/ CreateDomain \/ RevokeToken \/ Reread \/ Cancel
  BY <1>2 DEF RevokeLeftovers, CreateToken, CreateDomain, RevokeToken, Reread, Cancel, AbortStep, AfterAddon, DomainSteps
<1>. QED BY <1>1, <1>2 DEF ApplyDomain

\* The steps of a mailbox after its domain step.
MailPast ==
    \/ Gate \/ EnsureAccount \/ ProbeSource \/ CountSource \/ MirrorBox \/ FastSkip
    \/ ListFiles \/ NextBatch \/ Stream \/ StreamVanished \/ Rescan \/ StreamBroken
    \/ CheckMirror \/ VerifyFolders \/ VerifyDigests \/ Interrupt \/ Owners

\* No step of the mail flow returns to the domain step.
LEMMA MailIsPast == ASSUME opts \in AllOptions, MailPast PROVE PastDomains
<1>1. CASE Gate \/ EnsureAccount \/ ProbeSource \/ CountSource \/ MirrorBox \/ FastSkip
  BY <1>1 DEF Gate, EnsureAccount, ProbeSource, CountSource, MirrorBox, FastSkip,
              Record, GoTo, PastDomains, DomainSteps, AllOptions
<1>2. CASE ListFiles \/ NextBatch \/ Rescan \/ CheckMirror \/ VerifyFolders \/ VerifyDigests \/ Interrupt
  BY <1>2 DEF ListFiles, NextBatch, Rescan, CheckMirror, VerifyFolders, VerifyDigests, Interrupt,
              NewPlan, CopyDone, Record, Finish, MailStep, PastDomains, DomainSteps
<1>3. CASE Stream \/ StreamVanished \/ StreamBroken
  BY <1>3 DEF Stream, StreamVanished, StreamBroken, FailAttempt, InFlight, CopyDone, Record, GoTo,
              PastDomains, DomainSteps
<1>4. CASE Owners
  <2>1. Edit
    <3>1. \A m : SourceDeliver(m) \/ SourceRead(m) \/ DestRead(m) => Edit
      BY Zenon DEF SourceDeliver, SourceRead, DestRead
    <3>2. /\ \A x : SourceExpunge(x) => Edit
          /\ \A r : SourceVanish(r) => Edit
          /\ \A f : SourceIndex(f) \/ DestIndex(f) => Edit
      BY Zenon DEF SourceExpunge, SourceVanish, SourceIndex, DestIndex
    <3>. QED BY <1>4, <3>1, <3>2, Zenon DEF Owners
  <2>. QED BY <2>1 DEF Edit, MailStep, flow, PastDomains, DomainSteps
<1>. QED BY <1>1, <1>2, <1>3, <1>4 DEF MailPast

\* The steps of the docroots after their domain step.
WebPast ==
    \/ Preflight \/ PassOver \/ ListDocroot \/ PutAside \/ EmptyDest
    \/ NextParcel \/ SendParcel \/ ParcelFails
    \/ SourceManifest \/ DestManifest \/ SourceNames \/ DestNames
    \/ SourceBodies \/ DestBodies \/ WebInterrupt \/ WebOwners

\* No step of the web flow returns to the domain step.
LEMMA WebIsPast == ASSUME WebPast, UNCHANGED opts PROVE PastDomains
<1>1. CASE Preflight \/ PassOver \/ ListDocroot \/ PutAside \/ EmptyDest
  BY <1>1 DEF Preflight, PassOver, ListDocroot, PutAside, EmptyDest, Sending, NextDocroot, Prepare,
              PastDomains, DomainSteps
<1>2. CASE NextParcel \/ SendParcel \/ ParcelFails
  BY <1>2 DEF NextParcel, SendParcel, ParcelFails, NextDocroot, PastDomains, DomainSteps
<1>3. CASE SourceManifest \/ DestManifest \/ SourceNames \/ DestNames \/ SourceBodies \/ DestBodies
  BY <1>3 DEF SourceManifest, DestManifest, SourceNames, DestNames, SourceBodies, DestBodies, Verdict, Read, Go,
              ContentGate, VerifyFrame, PastDomains, DomainSteps
<1>4. CASE WebInterrupt
  BY <1>4 DEF WebInterrupt, WebSteps, CopySteps, VerifySteps, PastDomains, DomainSteps
<1>5. CASE WebOwners
  <2>1. WebEdit
    BY <1>5 DEF WebOwners, SiteWrite, SiteDelete, SiteVanish, SiteLock, LiveWrite
  <2>. QED BY <2>1 DEF WebEdit, WebSteps, CopySteps, VerifySteps, PastDomains, DomainSteps
<1>. QED BY <1>1, <1>2, <1>3, <1>4, <1>5 DEF WebPast

\* A step of a run is one of its domain step, or comes after it.
LEMMA StepKinds ==
    ASSUME [ApplyNext]_applyVars
    PROVE  \/ UNCHANGED applyVars
           \/ UNCHANGED doFile /\ ~doFile /\ (DomainStep \/ MailPast) /\ UNCHANGED webVars
           \/ UNCHANGED doFile /\ doFile /\ (WebDomains \/ WebPast) /\ UNCHANGED mailVars
  BY DEF ApplyNext, Next, Tool, WebNext, WebTool, MailPast, WebPast

\* A run starts without a token of its own.
LEMMA InitTokens == ApplyInit => TokenInv
<1>. SUFFICES ASSUME ApplyInit PROVE TokenInv
  OBVIOUS
<1>1. pc = "domains" /\ "own" \notin tokens /\ facts \in DomainFacts /\ opts \in AllOptions
  <2>1. CASE Init
    BY <2>1, MailSyncAssumption DEF Init, IsStart
  <2>2. CASE WebInit /\ NoMail
    BY <2>2, WebSyncAssumption DEF WebInit, IsWebStart, NoMail, AllOptions
  <2>. QED BY <2>1, <2>2 DEF ApplyInit
<1>. QED BY <1>1 DEF TokenInv, TokenRevoked, DomainFacts

\* Every step of a run keeps the token accounted for.
LEMMA NextTokens == ASSUME TokenInv, [ApplyNext]_applyVars PROVE TokenInv'
<1>1. CASE UNCHANGED applyVars
  BY <1>1 DEF applyVars, vars, flow, domainVars, TokenInv, TokenRevoked
<1>2. CASE DomainStep \/ (WebDomains /\ UNCHANGED mailVars)
  BY <1>2, DomainTokens DEF DomainStep, WebDomains, mailVars
<1>3. CASE MailPast \/ (WebPast /\ UNCHANGED mailVars)
  BY <1>3, MailIsPast, WebIsPast, PastDomainsTokens DEF TokenInv, mailVars
<1>. QED BY <1>1, <1>2, <1>3, StepKinds

\* No full-access API token of a run outlives its domain step unless a call
\* that revokes it failed, for any number of failed calls, lost answers and
\* interrupts, in the mail flow and in the web flow.
THEOREM TokensAreRevoked == ApplySpec => []TokenRevoked
<1>1. ApplyInit => TokenInv
  BY InitTokens
<1>2. TokenInv /\ [ApplyNext]_applyVars => TokenInv'
  BY NextTokens
<1>3. TokenInv => TokenRevoked
  BY DEF TokenInv
<1>. QED BY <1>1, <1>2, <1>3, PTL DEF ApplySpec

-----------------------------------------------------------------------------
(* The mail flow: its invariant                                            *)

MailSteps == DomainSteps \cup {"gate", "account", "probe", "count", "mirror", "skip", "list", "copy",
                               "rescan", "check", "verify", "digest", "done"}

\* The mailboxes: the source holds whole messages, each of them once, and
\* those that are said to have been there all along are.
MailHeld ==
    /\ src \in Boxes /\ dest \in Boxes /\ dest.root = "ok"
    /\ \A x \in Files : src.file[x] # "torn"
    /\ \A m \in Msgs : ~ {<<m, "new">>, <<m, "cur">>} \subseteq Listing(src)
    /\ aside \in Seq(Boxes) /\ stable \subseteq Held(src)
    /\ account \in BOOLEAN /\ moved \in BOOLEAN /\ calm \in BOOLEAN

\* The control: types, and what the place of the run says of its outcome.
MailTyped ==
    /\ opts \in AllOptions
    /\ pc \in MailSteps
    /\ todo \subseteq Files /\ batch \subseteq Files /\ control \subseteq Folders
    /\ renumbered \subseteq Folders
    /\ tries \in 0..TransferRetries - 1 /\ rescans \in 0..MaxRescans
    /\ result \in {"none", "migrated", "unchanged", "failed", "skipped", "unverified"}
    /\ kind \in {"none", "consistent", "ahead", "uidmismatch", "incomplete", "unreadable"}
    /\ exit \in {"none", "clean", "noted", "issues"}

MailFlow ==
    /\ result # "none" => pc \in {"verify", "digest", "done"}
    /\ exit # "none" => pc = "done"
    /\ pc = "rescan" => rescans < MaxRescans
    /\ pc = "skip" => opts.mode = "delta"
    /\ pc \notin DomainSteps \cup {"gate", "verify", "done"} => opts.entry = "ok"
    /\ pc = "verify" /\ seen /\ opts.entry # "ok" => result \in {"unverified", "failed"} \/ failed \/ blocked
    /\ proven = [bak |-> proven.bak, count |-> proven.count]
    /\ proven.bak => pc \notin DomainSteps \cup {"gate", "account", "probe", "count", "mirror", "skip"}

\* The destination has the source's numbering, as far as the run has read it.
Aligned == src.root = "ok" => \A f \in Indexed(src) \ renumbered : Uid(dest, f) = Uid(src, f)

\* What the copy leaves behind, before the verification has seen it.
MailCopied ==
    /\ pc \in {"verify", "digest"} /\ result \notin {"failed", "unverified"} /\ proven.bak /\ proven.count > 0
         => Listing(dest) # {}
    /\ pc = "copy" /\ src.root = "ok" => Indexed(src) \ renumbered \subseteq control
    /\ pc = "check" \/ result = "migrated" => Aligned

\* A file of the plan is the only one of its message, in the plan and, unless
\* its owner moved messages, on the destination.
MailSingle ==
    /\ pc = "copy" => \A x, y \in todo \cup batch : Identity(x) = Identity(y) => x = y
    /\ opts.mode # "full" /\ ~moved /\ pc = "copy" => \A x \in todo \cup batch : Copies(Identity(x)) \subseteq {x}
    /\ pc = "list" /\ opts.mode = "mirror" => Listing(dest) = {}

MailClean == CleanMeansIntact /\ ControlAligned /\ MirrorNeverEmpties

MailInv == MailHeld /\ MailTyped /\ MailFlow /\ MailCopied /\ MailSingle /\ MailClean

-----------------------------------------------------------------------------
(* The mail flow: the operators                                            *)

\* A maildir that can be read lists its files, any other lists nothing.
LEMMA ListingIs ==
    ASSUME NEW box \in Boxes
    PROVE  /\ Listing(box) \subseteq Files
           /\ box.root = "ok" => Listing(box) = {x \in Files : box.file[x] # "none"}
           /\ box.root # "ok" => Listing(box) = {}
           /\ Indexed(box) \subseteq Folders
  BY DEF Listing, Indexed

\* A file is its message in new/ or in cur/.
LEMMA FileIs ==
    ASSUME NEW x \in Files
    PROVE  /\ Identity(x) \in Msgs /\ x = <<x[1], x[2]>> /\ x[2] \in {"new", "cur"}
           /\ x \in {<<Identity(x), "new">>, <<Identity(x), "cur">>}
  BY DEF Files, Identity

\* A maildir just made is readable and holds nothing.
LEMMA EmptyBox == Empty \in Boxes /\ Empty.root = "ok" /\ Listing(Empty) = {}
  BY DEF Empty, Boxes, Listing

\* An extraction takes nothing away and adds only what was sent.
LEMMA ExtractGives ==
    ASSUME NEW box \in Boxes, box.root = "ok", NEW written \in SUBSET Files, NEW torn \in SUBSET Files
    PROVE  /\ Extract(box, written, torn) \in Boxes
           /\ Extract(box, written, torn).root = "ok"
           /\ Extract(box, written, torn).uid = box.uid
           /\ Listing(box) \subseteq Listing(Extract(box, written, torn))
           /\ Listing(Extract(box, written, torn)) \subseteq Listing(box) \cup written \cup torn
<1>. DEFINE r == Extract(box, written, torn)
<1>1. r \in Boxes /\ r.root = "ok" /\ r.uid = box.uid
  BY DEF Extract, Boxes
<1>2. \A x \in Files : /\ box.file[x] # "none" => r.file[x] # "none"
                       /\ r.file[x] # "none" => box.file[x] # "none" \/ x \in written \/ x \in torn
  BY DEF Extract, Boxes
<1>. QED BY <1>1, <1>2, ListingIs

\* The control files bring numbering and no messages.
LEMMA ExtractControlGives ==
    ASSUME NEW box \in Boxes, NEW s \in Boxes, NEW fs \in SUBSET Folders
    PROVE  /\ ExtractControl(box, s, fs) \in Boxes
           /\ ExtractControl(box, s, fs).root = box.root
           /\ ExtractControl(box, s, fs).file = box.file
           /\ Listing(ExtractControl(box, s, fs)) = Listing(box)
           /\ \A f \in fs : ExtractControl(box, s, fs).uid[f] = s.uid[f]
  BY DEF ExtractControl, Boxes, Listing

\* What a plan holds: some of the source's files, of messages that the
\* destination lacks.
LEMMA DeltaGives ==
    ASSUME MailHeld
    PROVE  /\ DeltaFiles(src, dest) \subseteq Listing(src)
           /\ \A x \in DeltaFiles(src, dest) : Copies(Identity(x)) = {}
           /\ Listing(src) \subseteq Files
           /\ \A x, y \in Listing(src) : Identity(x) = Identity(y) => x = y
<1>1. Listing(src) \subseteq Files
  BY ListingIs DEF MailHeld
<1>2. \A x, y \in Listing(src) : Identity(x) = Identity(y) => x = y
  BY <1>1, FileIs DEF MailHeld
<1>. QED BY <1>1, <1>2 DEF DeltaFiles, Copies, Held

\* A message that is whole at the source, and that the bodies do not show to be
\* lost, different or impossible to compare, is whole at the destination.
LEMMA DigestTells ==
    ASSUME MailHeld, NEW m \in Held(src), m \notin Lost(src, dest), m \notin Unclear(src, dest)
    PROVE  \E x \in Copies(m) : dest.file[x] = "whole"
<1>. DEFINE sb == {src.file[x] : x \in {y \in Listing(src) : Identity(y) = m}}
            db == {dest.file[x] : x \in {y \in Listing(dest) : Identity(y) = m}}
<1>1. sb = {"whole"}
  <2>1. \E x \in Listing(src) : Identity(x) = m
    BY DEF Held
  <2>2. \A x \in Listing(src) : src.file[x] = "whole"
    BY ListingIs DEF MailHeld, Boxes
  <2>. QED BY <2>1, <2>2
<1>2. Digest(src, m) = "whole"
  <2>1. Cardinality(sb) = 1
    BY <1>1, FS_Singleton
  <2>. QED BY <1>1, <2>1 DEF Digest
<1>3. Digest(dest, m) = "whole"
  BY <1>2 DEF Lost, Unclear
<1>4. "whole" \in db
  <2>. HIDE DEF db
  <2>1. Digest(dest, m) = IF db = {} THEN "absent"
                          ELSE IF Cardinality(db) > 1 THEN "unreadable" ELSE CHOOSE b \in db : TRUE
    BY DEF Digest, db
  <2>. QED BY <1>3, <2>1
<1>. QED BY <1>4 DEF Copies

-----------------------------------------------------------------------------
(* The mail flow: the steps that leave the mailboxes alone                 *)

MailQuiet == UNCHANGED <<src, dest, aside, account, opts, stable, moved>> /\ calm' \in BOOLEAN

\* A step that leaves both mailboxes alone keeps what is known of them.
LEMMA QuietHeld == ASSUME MailHeld, MailQuiet PROVE MailHeld'
  BY DEF MailHeld, MailQuiet, Listing, Held

\* As long as the run has not ended, nothing is claimed.
LEMMA NotEnded == ASSUME exit' = "none" PROVE MailClean'
  BY DEF MailClean, CleanMeansIntact, ControlAligned, MirrorNeverEmpties

\* A step with or without a failed call keeps the ghost calm Boolean.
LEMMA FaultsAreBoolean ==
    ASSUME MailHeld
    PROVE  Fault \/ NoFault => calm' \in BOOLEAN
  BY DEF MailHeld, Fault, NoFault

\* The step of a run that has not ended, with the outcome "failed".
LEMMA RecordFailed ==
    ASSUME MailInv, MailHeld', UNCHANGED <<opts, renumbered, proven, kind, exit, domainVars>>,
           pc \notin {"verify", "digest", "done"}, Record("failed")
    PROVE  MailInv'
<1>1. /\ pc' = "verify" /\ result' = "failed" /\ todo' = {} /\ control' = {} /\ batch' = {}
      /\ tries' = 0 /\ rescans' = 0 /\ exit = "none"
      /\ UNCHANGED <<opts, proven, kind, exit, seen, failed, blocked>>
  BY DEF Record, NoPlan, MailInv, MailFlow, domainVars
<1>2. 0 \in 0..TransferRetries - 1 /\ 0 \in 0..MaxRescans
  BY MailSyncAssumption
<1>3. MailTyped' /\ MailFlow'
  BY <1>1, <1>2 DEF MailInv, MailTyped, MailFlow, MailSteps, DomainSteps
<1>4. MailCopied' /\ MailSingle' /\ MailClean'
  BY <1>1, NotEnded DEF MailCopied, MailSingle
<1>. QED BY <1>3, <1>4 DEF MailInv

\* The step of a run that has not ended, to a place before the copy.
LEMMA GoToEarly ==
    ASSUME MailInv, MailHeld', NEW step \in {"account", "probe", "count", "mirror", "skip", "list"}, GoTo(step),
           UNCHANGED <<opts, renumbered, kind, exit, domainVars>>, pc \notin {"verify", "digest", "done"},
           opts.entry = "ok", step = "skip" => opts.mode = "delta",
           proven' = [bak |-> proven'.bak, count |-> proven'.count],
           proven'.bak => step = "list",
           (step = "list" /\ opts.mode = "mirror") => Listing(dest') = {}
    PROVE  MailInv'
<1>1. /\ pc' = step /\ UNCHANGED <<result, todo, control, batch, tries, rescans>> /\ exit = "none" /\ result = "none"
      /\ UNCHANGED <<opts, kind, exit, seen, failed, blocked>>
  BY DEF GoTo, Plan, MailInv, MailFlow, domainVars
<1>2. MailTyped'
  BY <1>1 DEF MailInv, MailTyped, MailSteps
<1>3. MailFlow'
  BY <1>1 DEF MailFlow, DomainSteps
<1>4. MailCopied' /\ MailSingle' /\ MailClean'
  BY <1>1, NotEnded DEF MailCopied, MailSingle
<1>. QED BY <1>2, <1>3, <1>4 DEF MailInv

\* applyDomains leaves the mailboxes alone, and ends a run with issues if at
\* all.
LEMMA DomainStepInv == ASSUME TokenInv, MailInv, DomainStep PROVE MailInv'
<1>1. /\ UNCHANGED <<src, dest, aside, account, opts, todo, control, batch, tries, rescans, proven, result, kind,
                     stable, moved, renumbered>>
      /\ calm' \in BOOLEAN
  BY DEF DomainStep, Plan, MailInv, MailHeld
<1>2. /\ pc \in DomainSteps
      /\ \/ pc' \in DomainSteps \cup {"gate"} /\ exit' = exit
         \/ pc' = "done" /\ exit' = "issues"
  BY DomainMoves DEF DomainStep
<1>3. exit = "none" /\ result = "none" /\ pc \notin {"verify", "digest", "done"}
  BY <1>2 DEF MailInv, MailFlow, DomainSteps
<1>4. MailHeld'
  BY <1>1, QuietHeld DEF MailQuiet, MailInv
<1>5. MailTyped'
  BY <1>1, <1>2, <1>3 DEF MailInv, MailTyped, MailSteps
<1>6. MailFlow'
  BY <1>1, <1>2, <1>3 DEF MailInv, MailFlow, DomainSteps
<1>7. MailCopied' /\ MailSingle'
  BY <1>1, <1>2, <1>3 DEF MailCopied, MailSingle, DomainSteps
<1>8. MailClean'
  BY <1>2, <1>3 DEF MailClean, CleanMeansIntact, ControlAligned, MirrorNeverEmpties
<1>. QED BY <1>4, <1>5, <1>6, <1>7, <1>8 DEF MailInv

\* The gate of applyMailboxes records why a mailbox is passed over, or goes
\* on.
LEMMA GateInv == ASSUME MailInv, Gate PROVE MailInv'
<1>1. /\ pc = "gate" /\ UNCHANGED <<src, dest, aside, account, opts, proven, kind, exit, stable, moved, renumbered, calm>>
      /\ UNCHANGED <<domainVars, seen, failed, blocked>>
      /\ \/ (failed \/ blocked \/ ~seen) /\ Record("skipped")
         \/ opts.entry = "nohash" /\ Record("unverified")
         \/ opts.entry = "ambiguous" /\ Record("failed")
         \/ opts.entry = "ok" /\ GoTo("account")
  <2>1. opts.entry \in {"ok", "nohash", "ambiguous"}
    BY DEF MailInv, MailTyped, AllOptions
  <2>2. \/ (failed \/ blocked \/ ~seen) /\ Record("skipped")
        \/ opts.entry = "nohash" /\ Record("unverified")
        \/ opts.entry = "ambiguous" /\ Record("failed")
        \/ opts.entry = "ok" /\ GoTo("account")
    BY <2>1 DEF Gate
  <2>. QED BY <2>2 DEF Gate, NoFault, domainVars
<1>2. MailHeld'
  BY <1>1, QuietHeld DEF MailQuiet, MailInv, MailHeld
<1>3. exit = "none" /\ ~proven.bak
  BY <1>1 DEF MailInv, MailFlow
<1>4. CASE opts.entry = "ok" /\ GoTo("account")
  BY <1>1, <1>2, <1>3, <1>4, GoToEarly DEF MailInv, MailFlow
<1>5. CASE opts.entry = "ambiguous" /\ Record("failed")
  BY <1>1, <1>2, <1>5, RecordFailed
<1>6. ASSUME NEW o \in {"skipped", "unverified"}, Record(o), failed \/ blocked \/ ~seen \/ o = "unverified"
      PROVE  MailInv'
  <2>1. /\ pc' = "verify" /\ result' = o /\ todo' = {} /\ control' = {} /\ batch' = {}
        /\ tries' = 0 /\ rescans' = 0
    BY <1>6 DEF Record, NoPlan
  <2>2. 0 \in 0..TransferRetries - 1 /\ 0 \in 0..MaxRescans
    BY MailSyncAssumption
  <2>3. MailTyped'
    BY <1>1, <2>1, <2>2 DEF MailInv, MailTyped, MailSteps
  <2>4. MailFlow'
    BY <1>1, <1>3, <1>6, <2>1 DEF MailInv, MailFlow, DomainSteps
  <2>5. MailCopied' /\ MailSingle' /\ MailClean'
    BY <1>1, <1>3, <2>1, NotEnded DEF MailCopied, MailSingle
  <2>. QED BY <1>2, <2>3, <2>4, <2>5 DEF MailInv
<1>. QED BY <1>1, <1>4, <1>5, <1>6

\* The two readings of the source before a mirror reset copy nothing.
LEMMA ProbeInv == ASSUME MailInv, ProbeSource \/ CountSource PROVE MailInv'
<1>1. /\ pc \in {"probe", "count"}
      /\ UNCHANGED <<src, dest, aside, account, opts, kind, exit, stable, moved, renumbered, domainVars>>
      /\ Fault \/ NoFault
      /\ \/ Record("failed") /\ UNCHANGED proven
         \/ /\ GoTo("count") \/ GoTo("mirror")
            /\ proven' = proven \/ proven' = [proven EXCEPT !.count = Cardinality(Listing(src))]
  BY DEF ProbeSource, CountSource
<1>2. MailHeld' /\ opts.entry = "ok"
  BY <1>1, QuietHeld, FaultsAreBoolean DEF MailQuiet, MailInv, MailFlow, DomainSteps
<1>3. CASE Record("failed") /\ UNCHANGED proven
  BY <1>1, <1>2, <1>3, RecordFailed
<1>4. CASE (GoTo("count") \/ GoTo("mirror"))
           /\ (proven' = proven \/ proven' = [proven EXCEPT !.count = Cardinality(Listing(src))])
  <2>1. proven' = [bak |-> proven'.bak, count |-> proven'.count] /\ proven'.bak = proven.bak /\ ~proven.bak
    BY <1>1, <1>4 DEF MailInv, MailFlow
  <2>. QED BY <1>1, <1>2, <1>4, <2>1, GoToEarly
<1>. QED BY <1>1, <1>3, <1>4

\* A delta run may find the two mailboxes equal and skip the copy.
LEMMA FastSkipInv == ASSUME MailInv, FastSkip PROVE MailInv'
<1>1. /\ pc = "skip" /\ UNCHANGED <<src, dest, aside, account, opts, proven, kind, exit, stable, moved, renumbered, domainVars>>
      /\ Fault \/ NoFault
      /\ Record("unchanged") \/ GoTo("list")
  BY DEF FastSkip
<1>2. MailHeld' /\ opts.entry = "ok" /\ opts.mode = "delta" /\ ~proven.bak /\ exit = "none"
  BY <1>1, QuietHeld, FaultsAreBoolean DEF MailQuiet, MailInv, MailFlow, DomainSteps
<1>3. CASE GoTo("list")
  BY <1>1, <1>2, <1>3, GoToEarly DEF MailInv, MailFlow
<1>4. CASE Record("unchanged")
  <2>1. /\ pc' = "verify" /\ result' = "unchanged" /\ todo' = {} /\ control' = {} /\ batch' = {}
        /\ tries' = 0 /\ rescans' = 0
    BY <1>4 DEF Record, NoPlan
  <2>2. 0 \in 0..TransferRetries - 1 /\ 0 \in 0..MaxRescans
    BY MailSyncAssumption
  <2>3. MailTyped' /\ MailFlow'
    BY <1>1, <1>2, <2>1, <2>2 DEF MailInv, MailTyped, MailSteps, MailFlow, DomainSteps
  <2>4. MailCopied' /\ MailSingle' /\ MailClean'
    BY <1>1, <1>2, <2>1, NotEnded DEF MailCopied, MailSingle
  <2>. QED BY <1>2, <2>3, <2>4 DEF MailInv
<1>. QED BY <1>1, <1>3, <1>4

\* The copy is done: the destination has the source's numbering.
LEMMA CopyDoneInv ==
    ASSUME MailInv, MailHeld', Aligned', UNCHANGED <<opts, proven, kind, exit, domainVars>>, renumbered' \subseteq renumbered,
           pc \in {"list", "copy", "rescan"}, CopyDone
    PROVE  MailInv'
<1>1. /\ todo' = {} /\ control' = {} /\ batch' = {} /\ tries' = 0 /\ rescans' = 0
      /\ \/ pc' = "check" /\ result' = result
         \/ pc' = "verify" /\ result' = "migrated" /\ ~(proven.bak /\ proven.count > 0)
      /\ UNCHANGED <<opts, proven, kind, exit, seen, failed, blocked>>
  BY DEF CopyDone, Record, NoPlan, domainVars
<1>2. exit = "none" /\ result = "none" /\ opts.entry = "ok"
  BY DEF MailInv, MailFlow, DomainSteps
<1>3. 0 \in 0..TransferRetries - 1 /\ 0 \in 0..MaxRescans
  BY MailSyncAssumption
<1>4. MailTyped' /\ MailFlow'
  BY <1>1, <1>2, <1>3 DEF MailInv, MailTyped, MailSteps, MailFlow, DomainSteps
<1>5. MailCopied' /\ MailSingle' /\ MailClean'
  BY <1>1, <1>2, NotEnded DEF MailCopied, MailSingle
<1>. QED BY <1>4, <1>5 DEF MailInv

\* A plan lists files of the source, no message twice, and in a delta run
\* none that the destination has.
LEMMA NewPlanInv ==
    ASSUME MailInv, MailQuiet, UNCHANGED <<renumbered, proven, kind, exit, domainVars>>, pc \in {"list", "rescan"},
           NEW fs \in SUBSET Listing(src), NEW n \in 0..MaxRescans, NewPlan(fs, n),
           opts.mode # "full" /\ ~moved => \A x \in fs : Copies(Identity(x)) = {}
    PROVE  MailInv'
<1>1. MailHeld' /\ UNCHANGED <<src, dest, opts, moved, renumbered, proven, kind, exit, domainVars, seen, failed, blocked>>
  BY QuietHeld DEF MailQuiet, MailInv, domainVars
<1>2. CASE fs = {} /\ ControlFiles(src, dest) = {}
  <2>1. CopyDone
    BY <1>2 DEF NewPlan
  <2>2. Aligned'
    BY <1>1, <1>2 DEF Aligned, ControlFiles, Indexed, Uid
  <2>. QED BY <1>1, <2>1, <2>2, CopyDoneInv
<1>3. CASE ~(fs = {} /\ ControlFiles(src, dest) = {})
  <2>1. /\ pc' = "copy" /\ rescans' = n /\ result' = result
        /\ todo' = fs /\ control' = Indexed(src) /\ batch' = {} /\ tries' = 0
    BY <1>3 DEF NewPlan, ControlFiles
  <2>2. exit = "none" /\ result = "none" /\ opts.entry = "ok"
    BY DEF MailInv, MailFlow, DomainSteps
  <2>3. 0 \in 0..TransferRetries - 1 /\ fs \subseteq Files /\ Indexed(src) \subseteq Folders
    BY MailSyncAssumption, ListingIs DEF MailInv, MailHeld
  <2>4. MailTyped' /\ MailFlow'
    BY <1>1, <2>1, <2>2, <2>3 DEF MailInv, MailTyped, MailSteps, MailFlow, DomainSteps
  <2>5. MailCopied' /\ MailClean'
    BY <1>1, <2>1, <2>2, NotEnded DEF MailCopied, Indexed, Uid
  <2>6. MailSingle'
    <3>1. \A x, y \in fs : Identity(x) = Identity(y) => x = y
      BY DeltaGives DEF MailInv
    <3>2. \A m : Copies(m)' = Copies(m)
      BY <1>1 DEF Copies, Listing
    <3>. QED BY <1>1, <2>1, <3>1, <3>2 DEF MailSingle
  <2>. QED BY <1>1, <2>4, <2>5, <2>6 DEF MailInv
<1>. QED BY <1>2, <1>3

\* Listing the source, first or again after a file vanished, makes such a
\* plan.
LEMMA ListInv == ASSUME MailInv, ListFiles \/ Rescan PROVE MailInv'
<1>1. /\ pc \in {"list", "rescan"}
      /\ UNCHANGED <<src, dest, aside, account, opts, proven, kind, exit, stable, moved, renumbered, domainVars>>
      /\ Fault \/ NoFault
      /\ \/ Record("failed")
         \/ pc = "list" /\ NewPlan(IF opts.mode = "delta" THEN DeltaFiles(src, dest) ELSE Listing(src), 0)
         \/ pc = "rescan" /\ NewPlan(DeltaFiles(src, dest), rescans + 1)
  BY DEF ListFiles, Rescan
<1>2. MailQuiet /\ MailHeld'
  BY <1>1, QuietHeld, FaultsAreBoolean DEF MailQuiet, MailInv
<1>3. CASE Record("failed")
  BY <1>1, <1>2, <1>3, RecordFailed
<1>4. CASE pc = "list" /\ NewPlan(IF opts.mode = "delta" THEN DeltaFiles(src, dest) ELSE Listing(src), 0)
  <2>. DEFINE fs == IF opts.mode = "delta" THEN DeltaFiles(src, dest) ELSE Listing(src)
  <2>1. fs \in SUBSET Listing(src) /\ 0 \in 0..MaxRescans
    BY DeltaGives, MailSyncAssumption DEF MailInv
  <2>2. opts.mode # "full" => \A x \in fs : Copies(Identity(x)) = {}
    <3>1. CASE opts.mode = "delta"
      BY <3>1, DeltaGives DEF MailInv
    <3>2. CASE opts.mode = "mirror"
      <4>1. Listing(dest) = {}
        BY <1>4, <3>2 DEF MailInv, MailSingle
      <4>. QED BY <4>1 DEF Copies
    <3>. QED BY <3>1, <3>2 DEF MailInv, MailTyped, AllOptions
  <2>3. NewPlan(fs, 0)
    BY <1>4
  <2>. HIDE DEF fs
  <2>. QED BY <1>1, <1>2, <2>1, <2>2, <2>3, NewPlanInv
<1>5. CASE pc = "rescan" /\ NewPlan(DeltaFiles(src, dest), rescans + 1)
  <2>1. rescans + 1 \in 0..MaxRescans
    BY <1>5, MailSyncAssumption DEF MailInv, MailFlow, MailTyped
  <2>2. DeltaFiles(src, dest) \in SUBSET Listing(src) /\ \A x \in DeltaFiles(src, dest) : Copies(Identity(x)) = {}
    BY DeltaGives DEF MailInv
  <2>. QED BY <1>1, <1>2, <1>5, <2>1, <2>2, NewPlanInv
<1>. QED BY <1>1, <1>3, <1>4, <1>5

\* Cutting the next batch from the plan adds nothing to it.
LEMMA NextBatchInv == ASSUME MailInv, NextBatch PROVE MailInv'
<1>1. /\ pc = "copy" /\ batch = {} /\ batch' \cup todo' = todo
      /\ UNCHANGED <<src, dest, aside, account, opts, pc, control, rescans, proven, result, kind, exit,
                     stable, moved, renumbered, calm>>
      /\ tries' = 0 /\ UNCHANGED <<seen, failed, blocked>>
  BY DEF NextBatch, NoFault, domainVars
<1>2. MailHeld' /\ exit = "none"
  BY <1>1, QuietHeld DEF MailQuiet, MailInv, MailHeld, MailFlow
<1>3. 0 \in 0..TransferRetries - 1
  BY MailSyncAssumption
<1>4. MailTyped' /\ MailFlow'
  BY <1>1, <1>3 DEF MailInv, MailTyped, MailFlow
<1>5. MailCopied' /\ MailClean'
  BY <1>1, <1>2, NotEnded DEF MailInv, MailCopied, Aligned, Listing, Indexed, Uid
<1>6. MailSingle'
  <2>1. \A m : Copies(m)' = Copies(m)
    BY <1>1 DEF Copies, Listing
  <2>. QED BY <1>1, <2>1 DEF MailInv, MailSingle
<1>. QED BY <1>2, <1>4, <1>5, <1>6 DEF MailInv

\* A mirrored mailbox counts as migrated only if something arrived.
LEMMA CheckMirrorInv == ASSUME MailInv, CheckMirror PROVE MailInv'
<1>1. /\ pc = "check" /\ UNCHANGED <<src, dest, aside, account, opts, proven, kind, exit, stable, moved, renumbered, domainVars>>
      /\ Fault \/ NoFault
      /\ Record("failed") \/ (Record("migrated") /\ Listing(dest) # {})
  BY DEF CheckMirror
<1>2. MailHeld' /\ opts.entry = "ok" /\ exit = "none" /\ Aligned
  BY <1>1, QuietHeld, FaultsAreBoolean DEF MailQuiet, MailInv, MailFlow, DomainSteps, MailCopied
<1>3. CASE Record("failed")
  BY <1>1, <1>2, <1>3, RecordFailed
<1>4. CASE Record("migrated") /\ Listing(dest) # {}
  <2>1. /\ pc' = "verify" /\ result' = "migrated" /\ todo' = {} /\ control' = {} /\ batch' = {}
        /\ tries' = 0 /\ rescans' = 0
    BY <1>4 DEF Record, NoPlan
  <2>2. 0 \in 0..TransferRetries - 1 /\ 0 \in 0..MaxRescans
    BY MailSyncAssumption
  <2>3. MailTyped' /\ MailFlow'
    BY <1>1, <1>2, <2>1, <2>2 DEF MailInv, MailTyped, MailSteps, MailFlow, DomainSteps
  <2>4. MailCopied' /\ MailSingle' /\ MailClean'
    BY <1>1, <1>2, <1>4, <2>1, NotEnded DEF MailCopied, MailSingle, Aligned, Listing, Indexed, Uid
  <2>. QED BY <1>2, <2>3, <2>4 DEF MailInv
<1>. QED BY <1>1, <1>3, <1>4

-----------------------------------------------------------------------------
(* The mail flow: its end                                                  *)

\* The verdict of a mailbox ends the run; it is clean only on what the
\* verification has compared.
LEMMA FinishInv ==
    ASSUME MailInv, MailQuiet, pc \in {"verify", "digest"}, pc' = "done",
           UNCHANGED <<todo, control, batch, tries, rescans, renumbered, proven, result>>,
           kind' \in {"none", "consistent", "ahead", "uidmismatch", "incomplete", "unreadable"},
           exit' \in {"clean", "noted", "issues"},
           exit' \in {"clean", "noted"} => result \notin {"failed", "unverified"},
           exit' = "clean" => \A m \in stable : \E x \in Copies(m) : dest.file[x] = "whole"
    PROVE  MailInv'
<1>1. MailHeld' /\ UNCHANGED <<src, dest, opts, stable, moved>>
  BY QuietHeld DEF MailQuiet, MailInv
<1>2. MailTyped' /\ MailFlow'
  BY <1>1 DEF MailInv, MailTyped, MailSteps, MailFlow, DomainSteps
<1>3. MailCopied' /\ MailSingle'
  BY <1>1 DEF MailInv, MailCopied, MailSingle, Aligned, Indexed, Uid
<1>4. MailClean'
  <2>1. CleanMeansIntact'
    BY <1>1 DEF CleanMeansIntact, Copies, Listing
  <2>2. ControlAligned'
    BY <1>1 DEF MailInv, MailCopied, Aligned, ControlAligned, Indexed, Uid
  <2>3. MirrorNeverEmpties'
    BY <1>1 DEF MailInv, MailCopied, MirrorNeverEmpties, Listing
  <2>. QED BY <2>1, <2>2, <2>3 DEF MailClean
<1>. QED BY <1>1, <1>2, <1>3, <1>4 DEF MailInv

\* Where classifyVerify finds nothing wrong, the folders whose UIDVALIDITY it
\* compares have the same on both sides.
LEMMA ComparedIsAligned ==
    ASSUME src \in Boxes, dest \in Boxes, MailboxKind(src, dest) \notin {"incomplete", "uidmismatch"},
           NEW f \in Folders \ Uncompared(src, dest)
    PROVE  Uid(dest, f) = Uid(src, f)
<1>. DEFINE sn == Cardinality(InFolder(src, f))
            dn == Cardinality(InFolder(dest, f))
<1>1. IsFiniteSet(Files)
  <2>1. IsFiniteSet({"new", "cur"})
    <3>1. {"new", "cur"} = {"new"} \cup {"cur"}
      OBVIOUS
    <3>2. IsFiniteSet({"new"} \cup {"cur"})
      BY FS_Singleton, FS_Union
    <3>. QED BY <3>1, <3>2
  <2>. QED BY <2>1, MailSyncAssumption, FS_Product DEF Files
<1>2. IsFiniteSet(InFolder(src, f)) /\ IsFiniteSet(InFolder(dest, f))
  BY <1>1, ListingIs, FS_Subset DEF InFolder
<1>3. sn \in Nat /\ dn \in Nat /\ sn # 0
  BY <1>2, FS_CardinalityType, FS_EmptySet DEF Uncompared
<1>4. FolderKind(src, dest, f) \notin {"incomplete", "uidmismatch", "ahead"}
  BY DEF MailboxKind, Uncompared
<1>. HIDE DEF sn, dn
<1>5. FolderKind(src, dest, f) =
        CASE sn = dn /\ (sn = 0 \/ Uid(src, f) = Uid(dest, f)) -> "consistent"
          [] sn = dn /\ sn # 0 /\ Uid(src, f) # Uid(dest, f)    -> "uidmismatch"
          [] dn < sn -> "incomplete"
          [] dn > sn -> "ahead"
  BY DEF FolderKind, sn, dn
<1>. QED BY <1>3, <1>4, <1>5

\* The folder tier reports a mailbox that is incomplete, misnumbered or
\* unreadable, and leaves every other one to the digests.
LEMMA VerifyFoldersInv == ASSUME MailInv, VerifyFolders PROVE MailInv'
<1>1. /\ pc = "verify" /\ (Fault \/ NoFault)
      /\ UNCHANGED <<src, dest, aside, account, opts, todo, control, batch, tries, rescans, proven, result,
                     stable, moved, seen, failed, blocked>>
  BY DEF VerifyFolders, Plan, domainVars
<1>2. MailQuiet /\ MailHeld'
  BY <1>1, QuietHeld, FaultsAreBoolean DEF MailQuiet, MailInv
<1>3. kind' \in {"none", "consistent", "ahead", "uidmismatch", "incomplete", "unreadable"}
  BY DEF VerifyFolders, MailboxKind
<1>4. \/ pc' = "done" /\ exit' = "issues" /\ renumbered' = renumbered
      \/ /\ pc' = "digest" /\ exit' = exit /\ Reachable /\ renumbered' = renumbered \cap Uncompared(src, dest)
         /\ MailboxKind(src, dest) \notin {"incomplete", "uidmismatch"}
  <2>1. CASE /\ ~Reachable /\ Finish(IF seen THEN opts.entry = "ambiguous" ELSE ~failed /\ ~blocked, FALSE)
             /\ renumbered' = renumbered
    <3>1. seen => opts.entry # "ok"
      BY <2>1 DEF Reachable
    <3>2. seen => result \in {"failed", "unverified"} \/ failed \/ blocked
      BY <1>1, <3>1 DEF MailInv, MailFlow
    <3>. QED BY <2>1, <3>2 DEF Finish
  <2>2. CASE Finish(TRUE, FALSE) /\ renumbered' = renumbered
    BY <2>2 DEF Finish
  <2>3. CASE /\ Reachable /\ pc' = "digest" /\ UNCHANGED exit
             /\ kind' = MailboxKind(src, dest) /\ kind' \notin {"incomplete", "uidmismatch"}
             /\ renumbered' = renumbered \cap Uncompared(src, dest)
    BY <2>3
  <2>. QED BY <2>1, <2>2, <2>3 DEF VerifyFolders
<1>5. CASE pc' = "done" /\ exit' = "issues" /\ renumbered' = renumbered
  BY <1>1, <1>2, <1>3, <1>5, FinishInv
<1>6. CASE /\ pc' = "digest" /\ exit' = exit /\ Reachable /\ renumbered' = renumbered \cap Uncompared(src, dest)
           /\ MailboxKind(src, dest) \notin {"incomplete", "uidmismatch"}
  <2>1. exit = "none" /\ opts.entry = "ok"
    BY <1>1, <1>6 DEF MailInv, MailFlow, Reachable
  <2>2. MailTyped' /\ MailFlow'
    BY <1>1, <1>3, <1>6, <2>1 DEF MailInv, MailTyped, MailSteps, MailFlow, DomainSteps
  <2>3. Aligned => Aligned'
    <3>1. \A f \in Indexed(src) \ renumbered' : f \notin renumbered \/ Uid(dest, f) = Uid(src, f)
      BY <1>6, ComparedIsAligned DEF MailInv, MailHeld, Indexed
    <3>. QED BY <1>1, <3>1 DEF Aligned, Indexed, Uid
  <2>4. MailCopied' /\ MailSingle' /\ MailClean'
    BY <1>1, <1>6, <2>1, <2>3, NotEnded DEF MailInv, MailCopied, MailSingle, Listing
  <2>. QED BY <1>2, <2>2, <2>4 DEF MailInv
<1>. QED BY <1>4, <1>5, <1>6

\* The digest tier claims it only if every message of the source is whole on
\* the destination.
LEMMA VerifyDigestsInv == ASSUME MailInv, VerifyDigests PROVE MailInv'
<1>1. /\ pc = "digest" /\ (Fault \/ NoFault)
      /\ UNCHANGED <<src, dest, aside, account, opts, todo, control, batch, tries, rescans, proven, result, kind,
                     stable, moved, renumbered>>
      /\ Finish(ContentHard(src, dest), Unclear(src, dest) # {}) \/ Finish(Deep, TRUE)
  BY DEF VerifyDigests, Plan
<1>2. MailQuiet /\ MailHeld'
  BY <1>1, QuietHeld, FaultsAreBoolean DEF MailQuiet, MailInv
<1>3. /\ pc' = "done" /\ exit' \in {"clean", "noted", "issues"}
      /\ exit' \in {"clean", "noted"} => result \notin {"failed", "unverified"}
      /\ exit' = "clean" => ~ContentHard(src, dest) /\ Unclear(src, dest) = {}
  BY <1>1 DEF Finish
<1>4. exit' = "clean" => \A m \in stable : \E x \in Copies(m) : dest.file[x] = "whole"
  <2>. SUFFICES ASSUME exit' = "clean", NEW m \in stable PROVE \E x \in Copies(m) : dest.file[x] = "whole"
    OBVIOUS
  <2>1. m \in Held(src) /\ Lost(src, dest) = {} /\ Unclear(src, dest) = {}
    BY <1>3 DEF ContentHard, MailInv, MailHeld
  <2>. QED BY <2>1, DigestTells DEF MailInv
<1>5. kind' \in {"none", "consistent", "ahead", "uidmismatch", "incomplete", "unreadable"}
  BY <1>1 DEF MailInv, MailTyped
<1>. QED BY <1>1, <1>2, <1>3, <1>4, <1>5, FinishInv

\* An interrupted run ends with issues.
LEMMA InterruptInv == ASSUME MailInv, Interrupt PROVE MailInv'
<1>1. /\ pc \notin DomainSteps \cup {"done"} /\ pc' = "done" /\ exit' = "issues" /\ calm' = FALSE
      /\ todo' = {} /\ control' = {} /\ batch' = {} /\ tries' = 0 /\ rescans' = 0
      /\ UNCHANGED <<src, dest, aside, account, opts, proven, result, kind, stable, moved, renumbered>>
  BY DEF Interrupt, MailStep, NoPlan, Fault
<1>2. MailHeld'
  BY <1>1, QuietHeld DEF MailQuiet, MailInv
<1>3. 0 \in 0..TransferRetries - 1 /\ 0 \in 0..MaxRescans
  BY MailSyncAssumption
<1>4. MailTyped' /\ MailFlow'
  BY <1>1, <1>3 DEF MailInv, MailTyped, MailSteps, MailFlow, DomainSteps
<1>5. MailCopied' /\ MailSingle'
  BY <1>1 DEF MailInv, MailCopied, MailSingle, Aligned, Indexed, Uid
<1>6. MailClean'
  BY <1>1 DEF MailClean, CleanMeansIntact, ControlAligned, MirrorNeverEmpties
<1>. QED BY <1>2, <1>4, <1>5, <1>6 DEF MailInv

-----------------------------------------------------------------------------
(* The mail flow: the steps that write to the destination                  *)

\* A step of the tool on the destination leaves the source as it was.
LEMMA DestHeld ==
    ASSUME MailHeld, UNCHANGED <<src, stable, moved>>, dest' \in Boxes, dest'.root = "ok", aside' \in Seq(Boxes),
           account' \in BOOLEAN, Fault \/ NoFault
    PROVE  MailHeld'
<1>1. calm' \in BOOLEAN
  BY FaultsAreBoolean
<1>2. Listing(src)' = Listing(src) /\ Held(src)' = Held(src)
  BY DEF Listing, Held
<1>. QED BY <1>1, <1>2 DEF MailHeld

\* Making the account puts a stray maildir aside and never deletes it.
LEMMA EnsureAccountInv == ASSUME MailInv, EnsureAccount PROVE MailInv'
<1>1. /\ pc = "account" /\ UNCHANGED <<src, opts, proven, kind, exit, stable, moved, renumbered, domainVars>>
      /\ dest' \in {dest, Empty} /\ aside' \in {aside, Append(aside, dest)}
      /\ \/ /\ account' = TRUE /\ NoFault
            /\ GoTo(CASE opts.mode = "mirror" -> "probe"
                      [] opts.mode = "delta"  -> "skip"
                      [] opts.mode = "full"   -> "list")
         \/ Fault /\ Record("failed") /\ UNCHANGED account
  BY DEF EnsureAccount
<1>2. MailHeld'
  <2>1. dest' \in Boxes /\ dest'.root = "ok" /\ aside' \in Seq(Boxes)
    BY <1>1, EmptyBox DEF MailInv, MailHeld
  <2>2. account' \in BOOLEAN /\ (Fault \/ NoFault)
    BY <1>1 DEF MailInv, MailHeld
  <2>. QED BY <1>1, <2>1, <2>2, DestHeld DEF MailInv
<1>3. CASE Record("failed")
  BY <1>1, <1>2, <1>3, RecordFailed
<1>4. CASE GoTo(CASE opts.mode = "mirror" -> "probe"
                  [] opts.mode = "delta"  -> "skip"
                  [] opts.mode = "full"   -> "list")
  <2>1. PICK step \in {"probe", "skip", "list"} :
          GoTo(step) /\ (step = "skip" => opts.mode = "delta") /\ (step = "list" => opts.mode = "full")
    <3>1. CASE opts.mode = "mirror"
      BY <1>4, <3>1
    <3>2. CASE opts.mode = "delta"
      BY <1>4, <3>2
    <3>3. CASE opts.mode = "full"
      BY <1>4, <3>3
    <3>. QED BY <3>1, <3>2, <3>3 DEF MailInv, MailTyped, AllOptions
  <2>2. opts.entry = "ok" /\ ~proven.bak /\ proven = [bak |-> proven.bak, count |-> proven.count]
    BY <1>1 DEF MailInv, MailFlow, DomainSteps
  <2>. QED BY <1>1, <1>2, <2>1, <2>2, GoToEarly
<1>. QED BY <1>1, <1>3, <1>4

\* The mirror reset puts the old maildir aside and starts from an empty one.
LEMMA MirrorBoxInv == ASSUME MailInv, MirrorBox PROVE MailInv'
<1>1. /\ pc = "mirror" /\ UNCHANGED <<src, account, opts, kind, exit, stable, moved, renumbered, domainVars>>
      /\ dest' \in {dest, Empty} /\ aside' \in {aside, Append(aside, dest)}
      /\ \/ /\ GoTo("list") /\ NoFault
            /\ proven' = [proven EXCEPT !.bak = ~IsEmpty(dest)]
            /\ IF IsEmpty(dest) THEN dest' = dest ELSE dest' = Empty
         \/ Fault /\ Record("failed") /\ UNCHANGED proven
  BY DEF MirrorBox, SetAside
<1>2. MailHeld'
  <2>1. dest' \in Boxes /\ dest'.root = "ok" /\ aside' \in Seq(Boxes)
    BY <1>1, EmptyBox DEF MailInv, MailHeld
  <2>2. account' \in BOOLEAN /\ (Fault \/ NoFault)
    BY <1>1 DEF MailInv, MailHeld
  <2>. QED BY <1>1, <2>1, <2>2, DestHeld DEF MailInv
<1>3. CASE Record("failed") /\ UNCHANGED proven
  BY <1>1, <1>2, <1>3, RecordFailed
<1>4. CASE /\ GoTo("list")
           /\ proven' = [proven EXCEPT !.bak = ~IsEmpty(dest)]
           /\ IF IsEmpty(dest) THEN dest' = dest ELSE dest' = Empty
  <2>1. Listing(dest') = {}
    BY <1>4, EmptyBox DEF IsEmpty
  <2>2. opts.entry = "ok" /\ proven' = [bak |-> proven'.bak, count |-> proven'.count]
    BY <1>1, <1>4 DEF MailInv, MailFlow, DomainSteps
  <2>. QED BY <1>1, <1>2, <1>4, <2>1, <2>2, GoToEarly
<1>. QED BY <1>1, <1>3, <1>4

\* The copy goes on: what arrived is of the batch.
LEMMA CopyOn ==
    ASSUME MailInv, MailHeld', pc = "copy",
           UNCHANGED <<src, opts, moved, renumbered, pc, result, control, rescans, proven, kind, exit, domainVars>>,
           todo' \cup batch' \subseteq todo \cup batch, tries' \in 0..TransferRetries - 1,
           Listing(dest') \subseteq Listing(dest) \cup batch
    PROVE  MailInv'
<1>1. exit = "none" /\ result = "none" /\ UNCHANGED <<seen, failed, blocked>>
  BY DEF MailInv, MailFlow, domainVars
<1>2. MailTyped' /\ MailFlow'
  BY <1>1 DEF MailInv, MailTyped, MailFlow
<1>3. MailCopied' /\ MailClean'
  BY <1>1, NotEnded DEF MailInv, MailCopied, Indexed, Uid
<1>4. MailSingle'
  <2>1. \A x, y \in todo' \cup batch' : Identity(x) = Identity(y) => x = y
    BY DEF MailInv, MailSingle
  <2>2. ASSUME opts.mode # "full", ~moved, NEW x \in todo' \cup batch', NEW y \in Listing(dest'), Identity(y) = Identity(x)
        PROVE  y = x
    <3>1. CASE y \in Listing(dest)
      BY <2>2, <3>1 DEF MailInv, MailSingle, Copies
    <3>2. CASE y \in batch
      BY <2>2, <3>2 DEF MailInv, MailSingle
    <3>. QED BY <3>1, <3>2
  <2>3. \A m : Copies(m)' = {x \in Listing(dest') : Identity(x) = m}
    BY DEF Copies, Identity, Listing
  <2>. QED BY <2>1, <2>2, <2>3 DEF MailSingle
<1>. QED BY <1>2, <1>3, <1>4 DEF MailInv

\* A batch that arrives brings its files, and a last step the control files.
LEMMA StreamInv == ASSUME MailInv, Stream PROVE MailInv'
<1>1. /\ pc = "copy" /\ src.root = "ok" /\ NoFault
      /\ UNCHANGED <<src, aside, account, opts, proven, kind, exit, stable, moved, domainVars>>
  BY DEF Stream, InFlight
<1>2. /\ src \in Boxes /\ dest \in Boxes /\ dest.root = "ok" /\ batch \subseteq Files
      /\ Indexed(src) \ renumbered \subseteq control
      /\ control \subseteq Folders /\ account' \in BOOLEAN /\ aside' \in Seq(Boxes)
  BY <1>1 DEF MailInv, MailHeld, MailTyped, MailCopied
<1>3. CASE /\ dest' = Extract(dest, batch, {})
           /\ IF todo = {} /\ control = {} THEN CopyDone
              ELSE batch' = {} /\ tries' = 0 /\ UNCHANGED <<pc, result, todo, control, rescans>>
           /\ renumbered' = renumbered
  <2>1. dest' \in Boxes /\ dest'.root = "ok" /\ Listing(dest') \subseteq Listing(dest) \cup batch
    <3>1. batch \in SUBSET Files /\ {} \in SUBSET Files
      BY <1>2
    <3>2. dest' = Extract(dest, batch, {}) /\ dest \in Boxes /\ dest.root = "ok"
      BY <1>2, <1>3
    <3>. QED BY <3>1, <3>2, ExtractGives
  <2>2. MailHeld'
    BY <1>1, <1>2, <2>1, DestHeld DEF MailInv
  <2>3. CASE todo = {} /\ control = {}
    <3>1. Aligned'
      BY <1>1, <1>2, <1>3, <2>3 DEF Aligned, Indexed, Uid
    <3>. QED BY <1>1, <1>3, <2>2, <2>3, <3>1, CopyDoneInv
  <2>4. CASE ~(todo = {} /\ control = {})
    <3>1. 0 \in 0..TransferRetries - 1
      BY MailSyncAssumption
    <3>. QED BY <1>1, <1>3, <2>1, <2>2, <2>4, <3>1, CopyOn
  <2>. QED BY <2>3, <2>4
<1>4. CASE dest' = ExtractControl(dest, src, control) /\ renumbered' = renumbered \ control /\ CopyDone
  <2>1. dest' \in Boxes /\ dest'.root = "ok" /\ \A f \in control : dest'.uid[f] = src.uid[f]
    BY <1>2, <1>4, ExtractControlGives
  <2>2. MailHeld'
    BY <1>1, <1>2, <2>1, DestHeld DEF MailInv
  <2>3. Aligned'
    <3>1. Indexed(src) \ renumbered' \subseteq control
      BY <1>2, <1>4
    <3>. QED BY <1>1, <2>1, <3>1 DEF Aligned, Indexed, Uid
  <2>. QED BY <1>1, <1>4, <2>2, <2>3, CopyDoneInv
<1>. QED BY <1>3, <1>4 DEF Stream

\* A batch with a vanished file brings the others and leads to a new plan or
\* to failure.
LEMMA StreamVanishedInv == ASSUME MailInv, StreamVanished PROVE MailInv'
<1>1. /\ pc = "copy" /\ NoFault
      /\ UNCHANGED <<src, aside, account, opts, proven, kind, exit, stable, moved, renumbered, domainVars>>
      /\ dest' = Extract(dest, batch \cap Listing(src), {})
      /\ IF rescans < MaxRescans THEN GoTo("rescan") ELSE Record("failed")
  BY DEF StreamVanished, InFlight
<1>2. dest \in Boxes /\ dest.root = "ok" /\ batch \subseteq Files /\ account' \in BOOLEAN /\ aside' \in Seq(Boxes)
  BY <1>1 DEF MailInv, MailHeld, MailTyped
<1>3. dest' \in Boxes /\ dest'.root = "ok"
  BY <1>1, <1>2, ExtractGives
<1>4. MailHeld'
  BY <1>1, <1>2, <1>3, DestHeld DEF MailInv
<1>5. CASE Record("failed")
  BY <1>1, <1>4, <1>5, RecordFailed
<1>6. CASE rescans < MaxRescans /\ GoTo("rescan")
  <2>1. pc' = "rescan" /\ UNCHANGED <<result, todo, control, batch, tries, rescans, seen, failed, blocked>>
    BY <1>1, <1>6 DEF GoTo, Plan, domainVars
  <2>2. exit = "none" /\ result = "none" /\ opts.entry = "ok"
    BY <1>1 DEF MailInv, MailFlow, DomainSteps
  <2>3. MailTyped' /\ MailFlow'
    BY <1>1, <1>6, <2>1, <2>2 DEF MailInv, MailTyped, MailSteps, MailFlow, DomainSteps
  <2>4. MailCopied' /\ MailSingle' /\ MailClean'
    BY <1>1, <2>1, <2>2, NotEnded DEF MailCopied, MailSingle
  <2>. QED BY <1>4, <2>3, <2>4 DEF MailInv
<1>. QED BY <1>1, <1>5, <1>6

\* A batch that broke off leaves some files whole or torn, and is sent again
\* or given up.
LEMMA StreamBrokenInv == ASSUME MailInv, StreamBroken PROVE MailInv'
<1>1. /\ pc = "copy" /\ (Fault \/ NoFault)
      /\ UNCHANGED <<src, aside, account, opts, proven, kind, exit, stable, moved, renumbered, domainVars>>
      /\ \/ tries' = tries + 1 /\ tries + 1 < TransferRetries
            /\ UNCHANGED <<pc, result, todo, control, batch, rescans>>
         \/ Record("failed")
  BY DEF StreamBroken, InFlight, FailAttempt
<1>2. /\ src \in Boxes /\ dest \in Boxes /\ dest.root = "ok" /\ batch \subseteq Files /\ control \subseteq Folders
      /\ account' \in BOOLEAN /\ aside' \in Seq(Boxes)
  BY <1>1 DEF MailInv, MailHeld, MailTyped
<1>3. dest' \in Boxes /\ dest'.root = "ok" /\ Listing(dest') \subseteq Listing(dest) \cup batch
  <2>1. ASSUME NEW written \in SUBSET (batch \cap Listing(src)), NEW torn \in SUBSET (batch \cap Listing(src)),
               dest' = Extract(dest, written, torn)
        PROVE  dest' \in Boxes /\ dest'.root = "ok" /\ Listing(dest') \subseteq Listing(dest) \cup batch
    BY <1>2, <2>1, ExtractGives
  <2>2. ASSUME NEW fs \in SUBSET control, dest' = ExtractControl(dest, src, fs)
        PROVE  dest' \in Boxes /\ dest'.root = "ok" /\ Listing(dest') \subseteq Listing(dest) \cup batch
    BY <1>2, <2>2, ExtractControlGives
  <2>3. \/ dest' = dest
        \/ \E written, torn \in SUBSET (batch \cap Listing(src)) : dest' = Extract(dest, written, torn)
        \/ \E fs \in SUBSET control : dest' = ExtractControl(dest, src, fs)
    BY DEF StreamBroken
  <2>. QED BY <1>2, <2>1, <2>2, <2>3
<1>4. MailHeld'
  BY <1>1, <1>2, <1>3, DestHeld DEF MailInv
<1>5. CASE Record("failed")
  BY <1>1, <1>4, <1>5, RecordFailed
<1>6. CASE tries' = tries + 1 /\ tries + 1 < TransferRetries /\ UNCHANGED <<pc, result, todo, control, batch, rescans>>
  <2>1. tries' \in 0..TransferRetries - 1
    BY <1>6, MailSyncAssumption DEF MailInv, MailTyped
  <2>. QED BY <1>1, <1>3, <1>4, <1>6, <2>1, CopyOn
<1>. QED BY <1>1, <1>5, <1>6

-----------------------------------------------------------------------------
(* The mail flow: the owners of the mailboxes                              *)

\* An owner's edit that keeps occupancy, and the numbers of the folders that
\* are not noted as renumbered, keeps the invariant.
LEMMA OwnerKeeps ==
    ASSUME MailInv, MailHeld', Edit, src'.root = "ok" => src.root = "ok",
           renumbered \subseteq renumbered', renumbered' \subseteq Folders,
           \A f \in Folders \ renumbered' : src'.uid[f] = src.uid[f],
           Listing(dest) = {} <=> Listing(dest') = {},
           \A f \in Folders : dest'.uid[f] = dest.uid[f] \/ dest.uid[f] = "none",
           moved' = TRUE \/ (moved' = moved /\ Listing(dest') = Listing(dest))
    PROVE  MailInv'
<1>1. /\ pc \notin DomainSteps \cup {"done"}
      /\ UNCHANGED <<opts, pc, todo, control, batch, tries, rescans, proven, result, kind, exit, seen, failed, blocked>>
  BY DEF Edit, MailStep, flow, domainVars
<1>2. exit = "none"
  BY <1>1 DEF MailInv, MailFlow
<1>3. MailTyped' /\ MailFlow'
  BY <1>1 DEF MailInv, MailTyped, MailFlow
<1>4. src'.root = "ok" => /\ Indexed(src') \ renumbered' \subseteq Indexed(src) \ renumbered
                          /\ \A f \in Indexed(src') \ renumbered' : Uid(src', f) = Uid(src, f)
  BY DEF Indexed, Uid
<1>5. Aligned => Aligned'
  <2>. SUFFICES ASSUME Aligned, src'.root = "ok", NEW f \in Indexed(src') \ renumbered' PROVE Uid(dest', f) = Uid(src', f)
    BY DEF Aligned, Indexed, Uid
  <2>1. f \in Indexed(src) /\ Uid(dest, f) = Uid(src, f) /\ Uid(src, f) # "none" /\ f \in Folders
        /\ Uid(src', f) = Uid(src, f)
    BY <1>4 DEF Aligned, Indexed
  <2>2. dest.root = "ok" /\ dest'.root = "ok"
    BY DEF MailInv, MailHeld
  <2>. QED BY <2>1, <2>2 DEF Uid
<1>6. MailCopied'
  <2>1. Listing(dest)' = Listing(dest') /\ Indexed(src)' = Indexed(src')
    BY DEF Listing, Indexed, Uid
  <2>. QED BY <1>1, <1>4, <1>5, <2>1 DEF MailInv, MailCopied
<1>7. MailSingle'
  <2>1. Listing(dest)' = Listing(dest') /\ \A m : Copies(m)' = {x \in Listing(dest') : Identity(x) = m}
    BY DEF Listing, Copies, Identity
  <2>. QED BY <1>1, <2>1 DEF MailInv, MailSingle, Copies
<1>. QED BY <1>2, <1>1, <1>3, <1>6, <1>7, NotEnded DEF MailInv

\* The owner of the source delivers, reads, expunges, removes the whole
\* maildir, or has a folder numbered anew.
LEMMA SourceOwnerInv ==
    ASSUME MailInv, \/ \E m \in Msgs : SourceDeliver(m) \/ SourceRead(m)
                    \/ \E x \in Files : SourceExpunge(x)
                    \/ \E r \in {"absent", "unreadable"} : SourceVanish(r)
                    \/ \E f \in Folders : SourceIndex(f)
    PROVE  MailInv'
<1>1. Edit /\ UNCHANGED <<dest, moved>>
  BY DEF SourceDeliver, SourceRead, SourceExpunge, SourceVanish, SourceIndex
<1>2. UNCHANGED <<aside, account>> /\ calm' = FALSE
  BY <1>1 DEF Edit
<1>3. src \in Boxes /\ src = [root |-> src.root, file |-> src.file, uid |-> src.uid] /\ src.file \in [Files -> {"none", "whole"}]
  BY DEF MailInv, MailHeld, Boxes
<1>. DEFINE Good == /\ src' \in Boxes /\ \A x \in Files : src'.file[x] # "torn"
                    /\ renumbered \subseteq renumbered' /\ renumbered' \subseteq Folders
                    /\ \A f \in Folders \ renumbered' : src'.uid[f] = src.uid[f]
                    /\ (src'.root = "ok" => src.root = "ok")
                    /\ \A m \in Msgs : ~ {<<m, "new">>, <<m, "cur">>} \subseteq Listing(src')
                    /\ stable' \subseteq Held(src')
<1>4. ASSUME NEW m \in Msgs, SourceDeliver(m) PROVE Good
  <2>1. /\ src' = [src EXCEPT !.file[<<m, "new">>] = "whole"] /\ UNCHANGED <<stable, renumbered>>
        /\ m \notin Held(src) /\ src.root = "ok" /\ <<m, "new">> \in Files
    BY <1>4 DEF SourceDeliver, Files
  <2>2. src' \in Boxes /\ src'.uid = src.uid /\ src'.root = "ok"
        /\ src'.file = [src.file EXCEPT ![<<m, "new">>] = "whole"]
    BY <1>3, <2>1 DEF Boxes
  <2>3. Listing(src') = Listing(src) \cup {<<m, "new">>}
    BY <1>3, <2>1, <2>2, ListingIs
  <2>4. <<m, "cur">> \notin Listing(src)
    BY <2>1 DEF Held, Identity
  <2>5. Held(src) \subseteq Held(src')
    BY <2>3 DEF Held
  <2>. QED BY <1>3, <2>1, <2>2, <2>3, <2>4, <2>5 DEF MailInv, MailHeld, MailTyped
<1>5. ASSUME NEW m \in Msgs, SourceRead(m) PROVE Good
  <2>1. /\ src' = [src EXCEPT !.file = [src.file EXCEPT ![<<m, "new">>] = "none", ![<<m, "cur">>] = "whole"]]
        /\ UNCHANGED <<stable, renumbered>>
        /\ <<m, "new">> \in Listing(src) /\ <<m, "new">> \in Files /\ <<m, "cur">> \in Files
    BY <1>5 DEF SourceRead, Files
  <2>2. src' \in Boxes /\ src'.uid = src.uid /\ src'.root = src.root
        /\ src'.file = [src.file EXCEPT ![<<m, "new">>] = "none", ![<<m, "cur">>] = "whole"]
    BY <1>3, <2>1 DEF Boxes
  <2>3. Listing(src') = (Listing(src) \ {<<m, "new">>}) \cup {<<m, "cur">>}
    BY <1>3, <2>1, <2>2, ListingIs
  <2>4. Held(src) \subseteq Held(src')
    BY <2>1, <2>3, FileIs DEF Held, Identity
  <2>. QED BY <1>3, <2>1, <2>2, <2>3, <2>4 DEF MailInv, MailHeld, MailTyped
<1>6. ASSUME NEW x \in Files, SourceExpunge(x) PROVE Good
  <2>1. src' = [src EXCEPT !.file[x] = "none"] /\ stable' = stable \ {Identity(x)} /\ renumbered' = renumbered /\ x \in Listing(src)
    BY <1>6 DEF SourceExpunge
  <2>2. src' \in Boxes /\ src'.uid = src.uid /\ src'.root = src.root /\ src'.file = [src.file EXCEPT ![x] = "none"]
    BY <1>3, <2>1 DEF Boxes
  <2>3. Listing(src') = Listing(src) \ {x}
    BY <1>3, <2>1, <2>2, ListingIs
  <2>4. Held(src) \ {Identity(x)} \subseteq Held(src')
    BY <2>3 DEF Held
  <2>. QED BY <1>3, <2>1, <2>2, <2>3, <2>4 DEF MailInv, MailHeld, MailTyped
<1>7. ASSUME NEW r \in {"absent", "unreadable"}, SourceVanish(r) PROVE Good
  <2>1. src' = [src EXCEPT !.root = r] /\ stable' = {} /\ renumbered' = renumbered
    BY <1>7 DEF SourceVanish
  <2>2. src' \in Boxes /\ src'.uid = src.uid /\ src'.root = r /\ src'.file = src.file
    BY <1>3, <2>1 DEF Boxes
  <2>3. Listing(src') = {}
    BY <2>2, ListingIs
  <2>. QED BY <1>3, <2>1, <2>2, <2>3 DEF MailInv, MailTyped
<1>8. ASSUME NEW f \in Folders, SourceIndex(f) PROVE Good
  <2>1. src' = [src EXCEPT !.uid[f] = "n"] /\ renumbered' = renumbered \cup {f} /\ stable' = stable
    BY <1>8 DEF SourceIndex
  <2>2. src' \in Boxes /\ src'.root = src.root /\ src'.file = src.file
        /\ \A g \in Folders \ renumbered' : src'.uid[g] = src.uid[g]
    BY <1>3, <2>1 DEF Boxes
  <2>3. Listing(src') = Listing(src) /\ Held(src') = Held(src)
    BY <2>2 DEF Listing, Held
  <2>. QED BY <1>3, <2>1, <2>2, <2>3 DEF MailInv, MailHeld, MailTyped
<1>9. Good
  BY <1>4, <1>5, <1>6, <1>7, <1>8
<1>. HIDE DEF Good
<1>10. MailHeld'
  <2>1. Listing(src)' = Listing(src') /\ Held(src)' = Held(src')
    BY DEF Listing, Held, Identity
  <2>. QED BY <1>1, <1>2, <1>9, <2>1 DEF Good, MailInv, MailHeld
<1>. QED BY <1>1, <1>9, <1>10, OwnerKeeps DEF Good

\* The owner of the destination reads a message, which moves its file.
LEMMA DestReadInv == ASSUME MailInv, NEW m \in Msgs, DestRead(m) PROVE MailInv'
<1>1. /\ Edit /\ UNCHANGED <<src, stable, renumbered>> /\ moved' = TRUE
      /\ dest' = [dest EXCEPT !.file = [dest.file EXCEPT ![<<m, "new">>] = "none",
                                                         ![<<m, "cur">>] = dest.file[<<m, "new">>]]]
      /\ <<m, "new">> \in Listing(dest) /\ <<m, "new">> \in Files /\ <<m, "cur">> \in Files
  BY DEF DestRead, Files
<1>2. UNCHANGED <<aside, account>> /\ calm' = FALSE
  BY <1>1 DEF Edit
<1>3. dest \in Boxes /\ dest.root = "ok"
  BY DEF MailInv, MailHeld
<1>4. dest' \in Boxes /\ dest'.root = "ok" /\ dest'.uid = dest.uid
      /\ dest'.file = [dest.file EXCEPT ![<<m, "new">>] = "none", ![<<m, "cur">>] = dest.file[<<m, "new">>]]
  BY <1>1, <1>3 DEF Boxes
<1>5. Listing(dest') = (Listing(dest) \ {<<m, "new">>}) \cup {<<m, "cur">>}
  <2>1. dest.file \in [Files -> {"none", "whole", "torn"}] /\ dest.file[<<m, "new">>] # "none"
    BY <1>1, <1>3, ListingIs DEF Boxes
  <2>2. \A x \in Files : dest'.file[x] = IF x = <<m, "cur">> THEN dest.file[<<m, "new">>]
                                        ELSE IF x = <<m, "new">> THEN "none" ELSE dest.file[x]
    BY <1>1, <1>4, <2>1
  <2>3. /\ Listing(dest') = {x \in Files : dest'.file[x] # "none"}
        /\ Listing(dest) = {x \in Files : dest.file[x] # "none"}
    BY <1>3, <1>4, ListingIs
  <2>4. <<m, "new">> # <<m, "cur">>
    OBVIOUS
  <2>. QED BY <1>1, <2>1, <2>2, <2>3, <2>4
<1>6. MailHeld'
  <2>1. Listing(src)' = Listing(src) /\ Held(src)' = Held(src)
    BY <1>1 DEF Listing, Held
  <2>. QED BY <1>1, <1>2, <1>4, <2>1 DEF MailInv, MailHeld
<1>. QED BY <1>1, <1>4, <1>5, <1>6, OwnerKeeps DEF MailInv, MailTyped

\* The destination's server numbers a folder that has no numbering yet.
LEMMA DestIndexInv == ASSUME MailInv, NEW f \in Folders, DestIndex(f) PROVE MailInv'
<1>1. /\ Edit /\ UNCHANGED <<src, stable, moved, renumbered>> /\ dest.uid[f] = "none"
      /\ dest' = [dest EXCEPT !.uid[f] = "d"]
  BY DEF DestIndex
<1>2. UNCHANGED <<aside, account>> /\ calm' = FALSE
  BY <1>1 DEF Edit
<1>3. dest \in Boxes /\ dest.root = "ok"
  BY DEF MailInv, MailHeld
<1>4. /\ dest' \in Boxes /\ dest'.root = "ok" /\ dest'.file = dest.file
      /\ \A g \in Folders : dest'.uid[g] = dest.uid[g] \/ dest.uid[g] = "none"
  BY <1>1, <1>3 DEF Boxes
<1>5. Listing(dest') = Listing(dest)
  BY <1>3, <1>4, ListingIs
<1>6. MailHeld'
  <2>1. Listing(src)' = Listing(src) /\ Held(src)' = Held(src)
    BY <1>1 DEF Listing, Held
  <2>. QED BY <1>1, <1>2, <1>4, <2>1 DEF MailInv, MailHeld
<1>. QED BY <1>1, <1>4, <1>5, <1>6, OwnerKeeps DEF MailInv, MailTyped

-----------------------------------------------------------------------------
(* The mail flow: its theorems                                             *)

\* The invariant of a run of either flow.
ApplyInv == TokenInv /\ doFile \in BOOLEAN /\ (~doFile => MailInv)

\* The invariant of the mail flow holds initially.
LEMMA MailInitInv == Init => MailInv
<1>. SUFFICES ASSUME Init PROVE MailInv
  OBVIOUS
<1>1. PICK s \in Starts : src = s.src /\ dest = s.dest /\ account = s.account /\ opts = s.opts
  BY DEF Init
<1>2. IsStart(s)
  BY MailSyncAssumption
<1>3. calm \in BOOLEAN
  BY DEF Init, Convergable
<1>4. MailHeld
  <2>1. src \in Boxes /\ dest \in Boxes /\ dest.root = "ok" /\ (\A x \in Files : src.file[x] # "torn") /\ account \in BOOLEAN
    BY <1>1, <1>2 DEF IsStart
  <2>2. \A m \in Msgs : ~ {<<m, "new">>, <<m, "cur">>} \subseteq Listing(src)
    <3>1. ASSUME NEW m \in Msgs PROVE ~ {<<m, "new">>, <<m, "cur">>} \subseteq Listing(src)
      <4>1. "none" \in {s.src.file[<<m, "new">>], s.src.file[<<m, "cur">>]}
        BY <1>2 DEF IsStart
      <4>2. src.file[<<m, "new">>] = "none" \/ src.file[<<m, "cur">>] = "none"
        BY <1>1, <4>1
      <4>3. <<m, "new">> \notin Listing(src) \/ <<m, "cur">> \notin Listing(src)
        BY <4>2 DEF Listing
      <4>. QED BY <4>3, Zenon
    <3>. QED BY <3>1, Zenon
  <2>3. aside = <<>> /\ stable = Held(src) /\ moved = FALSE
    BY DEF Init
  <2>4. aside \in Seq(Boxes)
    BY <2>3
  <2>. QED BY <1>3, <2>1, <2>2, <2>3, <2>4 DEF MailHeld
<1>5. 0 \in 0..TransferRetries - 1 /\ 0 \in 0..MaxRescans
  BY MailSyncAssumption
<1>6. MailTyped
  BY <1>1, <1>2, <1>5 DEF Init, IsStart, MailTyped, MailSteps, DomainSteps
<1>7. MailFlow /\ MailCopied /\ MailSingle /\ MailClean
  BY DEF Init, MailFlow, MailCopied, MailSingle, MailClean, CleanMeansIntact, ControlAligned, MirrorNeverEmpties, DomainSteps
<1>. QED BY <1>4, <1>6, <1>7 DEF MailInv

\* Every edit of an owner keeps the invariant of the mail flow.
LEMMA OwnersInv == ASSUME MailInv, Owners PROVE MailInv'
<1>1. CASE \E m \in Msgs : DestRead(m)
  BY <1>1, DestReadInv
<1>2. CASE \E f \in Folders : DestIndex(f)
  BY <1>2, DestIndexInv
<1>3. CASE \/ \E m \in Msgs : SourceDeliver(m) \/ SourceRead(m)
           \/ \E x \in Files : SourceExpunge(x)
           \/ \E r \in {"absent", "unreadable"} : SourceVanish(r)
           \/ \E f \in Folders : SourceIndex(f)
  BY <1>3, SourceOwnerInv
<1>. QED BY <1>1, <1>2, <1>3 DEF Owners

\* Every step of a mail run keeps its invariant.
LEMMA MailNextInv == ASSUME TokenInv, MailInv, DomainStep \/ MailPast PROVE MailInv'
  BY DomainStepInv, GateInv, EnsureAccountInv, ProbeInv, MirrorBoxInv, FastSkipInv, ListInv, NextBatchInv, StreamInv,
     StreamVanishedInv, StreamBrokenInv, CheckMirrorInv, VerifyFoldersInv, VerifyDigestsInv, InterruptInv, OwnersInv
     DEF MailPast

\* The invariant of the mail flow is about its own variables only.
LEMMA MailStutterInv == ASSUME MailInv, UNCHANGED vars PROVE MailInv'
<1>1. UNCHANGED <<src, dest, aside, account, opts, pc, todo, control, batch, tries, rescans, proven, result, kind, exit,
                  stable, moved, renumbered, calm, seen, failed, blocked>>
  BY DEF vars, flow, ghosts, domainVars
<1>2. MailHeld'
  BY <1>1, QuietHeld DEF MailQuiet, MailInv, MailHeld
<1>3. MailTyped' /\ MailFlow'
  BY <1>1 DEF MailInv, MailTyped, MailFlow
<1>4. MailCopied' /\ MailSingle'
  BY <1>1 DEF MailInv, MailCopied, MailSingle, Aligned, Copies, Listing, Indexed, Uid
<1>5. MailClean'
  BY <1>1 DEF MailInv, MailClean, CleanMeansIntact, ControlAligned, MirrorNeverEmpties, Copies, Listing, Indexed, Uid
<1>. QED BY <1>2, <1>3, <1>4, <1>5 DEF MailInv

\* The invariant of a run holds initially.
LEMMA ApplyInitInv == ApplyInit => ApplyInv
  BY InitTokens, MailInitInv DEF ApplyInit, ApplyInv

\* Every step of a run keeps its invariant.
LEMMA ApplyNextInv == ASSUME ApplyInv, [ApplyNext]_applyVars PROVE ApplyInv'
<1>1. TokenInv' /\ TokenInv /\ doFile' = doFile /\ doFile \in BOOLEAN
  BY NextTokens, StepKinds DEF ApplyInv, applyVars
<1>2. ~doFile => MailInv'
  BY <1>1, StepKinds, MailNextInv, MailStutterInv DEF ApplyInv, applyVars
<1>. QED BY <1>1, <1>2 DEF ApplyInv

\* The invariant implies what a clean exit claims of the mailbox.
LEMMA MailInvSynced == MailInv => CleanMeansSynced
<1>. SUFFICES ASSUME MailInv PROVE CleanMeansSynced
  OBVIOUS
<1>1. \A i \in DOMAIN aside : aside[i] \in Boxes
  BY DEF MailInv, MailHeld
<1>2. TypeOK
  BY <1>1 DEF MailInv, MailHeld, MailTyped, MailSteps, TypeOK
<1>. QED BY <1>2 DEF MailInv, MailClean, CleanMeansSynced

\* A clean exit of the mail flow means what it says, for any mailboxes, batches,
\* retries and re-scans, and whatever their owners do meanwhile: the messages
\* that were there all along are whole, their numbering is the source's after a
\* copy, and no mirror was emptied.
THEOREM CleanMailIsSynced == ApplySpec => []MailSynced
<1>1. ApplyInit => ApplyInv
  BY ApplyInitInv
<1>2. ApplyInv /\ [ApplyNext]_applyVars => ApplyInv'
  BY ApplyNextInv
<1>3. ApplyInv => MailSynced
  BY MailInvSynced DEF ApplyInv, MailSynced
<1>. QED BY <1>1, <1>2, <1>3, PTL DEF ApplySpec

-----------------------------------------------------------------------------
(* The mail flow: what a step does to the destination                      *)

\* A step leaves the files of the live mailbox alone, sets it aside as it is,
\* extracts files of the batch into it, or is its owner who moves a message.
DestKept    == Listing(dest') = Listing(dest) /\ aside' = aside
DestAside   == aside' = Append(aside, dest) /\ Listing(dest') = {}
DestFed     == /\ pc = "copy" /\ UNCHANGED <<aside, moved>> /\ Listing(dest) \subseteq Listing(dest')
               /\ Listing(dest') \subseteq Listing(dest) \cup batch
DestShifted == moved' = TRUE /\ aside' = aside /\ Held(dest) \subseteq Held(dest')

\* A step keeps the destination, puts it aside, feeds it a batch, or moves a
\* file of it to cur/.
LEMMA DestChanges ==
    ASSUME MailInv, DomainStep \/ MailPast
    PROVE  DestKept \/ DestAside \/ DestFed \/ DestShifted
<1>0. /\ src \in Boxes /\ dest \in Boxes /\ dest.root = "ok" /\ batch \subseteq Files /\ control \subseteq Folders
      /\ {} \in SUBSET Files
  BY DEF MailInv, MailHeld, MailTyped
<1>1. CASE DomainStep \/ Gate \/ ProbeSource \/ CountSource \/ FastSkip \/ ListFiles \/ NextBatch \/ Rescan
  <2>1. UNCHANGED <<dest, aside>>
    BY <1>1 DEF DomainStep, Gate, ProbeSource, CountSource, FastSkip, ListFiles, NextBatch, Rescan
  <2>. QED BY <2>1 DEF DestKept, Listing
<1>2. CASE CheckMirror \/ VerifyFolders \/ VerifyDigests \/ Interrupt
  <2>1. UNCHANGED <<dest, aside>>
    BY <1>2 DEF CheckMirror, VerifyFolders, VerifyDigests, Interrupt
  <2>. QED BY <2>1 DEF DestKept, Listing
<1>3. CASE EnsureAccount \/ MirrorBox
  <2>1. \/ UNCHANGED <<dest, aside>>
        \/ dest' = Empty /\ aside' = Append(aside, dest)
    BY <1>3 DEF EnsureAccount, MirrorBox, SetAside
  <2>. QED BY <2>1, EmptyBox DEF DestKept, DestAside, Listing
<1>4. CASE Stream \/ StreamVanished \/ StreamBroken
  <2>1. pc = "copy" /\ UNCHANGED <<aside, moved>>
    BY <1>4 DEF Stream, StreamVanished, StreamBroken, InFlight
  <2>2. \/ dest' = dest
        \/ \E written, torn \in SUBSET batch : dest' = Extract(dest, written, torn)
        \/ \E fs \in SUBSET control : dest' = ExtractControl(dest, src, fs)
    <3>1. CASE Stream
      <4>1. dest' = Extract(dest, batch, {}) \/ dest' = ExtractControl(dest, src, control)
        BY <3>1 DEF Stream
      <4>. QED BY <4>1
    <3>2. CASE StreamVanished
      <4>1. dest' = Extract(dest, batch \cap Listing(src), {})
        BY <3>2 DEF StreamVanished
      <4>2. batch \cap Listing(src) \in SUBSET batch /\ {} \in SUBSET batch
        OBVIOUS
      <4>. QED BY <4>1, <4>2
    <3>3. CASE StreamBroken
      BY <3>3 DEF StreamBroken
    <3>. QED BY <1>4, <3>1, <3>2, <3>3
  <2>3. ASSUME NEW written \in SUBSET batch, NEW torn \in SUBSET batch, dest' = Extract(dest, written, torn)
        PROVE  Listing(dest) \subseteq Listing(dest') /\ Listing(dest') \subseteq Listing(dest) \cup batch
    BY <1>0, <2>3, ExtractGives
  <2>4. ASSUME NEW fs \in SUBSET control, dest' = ExtractControl(dest, src, fs)
        PROVE  Listing(dest') = Listing(dest)
    BY <1>0, <2>4, ExtractControlGives
  <2>5. dest' = dest => Listing(dest') = Listing(dest)
    BY DEF Listing
  <2>. QED BY <2>1, <2>2, <2>3, <2>4, <2>5 DEF DestFed
<1>5. ASSUME NEW m \in Msgs, DestRead(m) PROVE DestShifted
  <2>1. /\ <<m, "new">> \in Listing(dest)
        /\ dest' = [dest EXCEPT !.file = [@ EXCEPT ![<<m, "new">>] = "none",
                                                  ![<<m, "cur">>] = dest.file[<<m, "new">>]]]
        /\ moved' = TRUE /\ aside' = aside
    BY <1>5 DEF DestRead, Edit
  <2>2. <<m, "new">> \in Files /\ <<m, "cur">> \in Files /\ <<m, "new">> # <<m, "cur">>
    BY DEF Files
  <2>3. dest.file[<<m, "new">>] # "none"
    BY <1>0, <2>1, ListingIs
  <2>4. /\ dest' \in Boxes /\ dest'.root = "ok" /\ dest'.file[<<m, "cur">>] # "none"
        /\ \A x \in Files : x # <<m, "new">> /\ x # <<m, "cur">> => dest'.file[x] = dest.file[x]
    BY <1>0, <2>1, <2>2, <2>3 DEF Boxes
  <2>5. ASSUME NEW x \in Listing(dest) PROVE Identity(x) \in Held(dest')
    <3>1. x \in Files /\ dest.file[x] # "none"
      BY <1>0, ListingIs
    <3>2. CASE x = <<m, "new">> \/ x = <<m, "cur">>
      <4>1. Identity(x) = Identity(<<m, "cur">>)
        BY <3>2 DEF Identity
      <4>2. <<m, "cur">> \in Listing(dest')
        BY <2>2, <2>4, ListingIs
      <4>. QED BY <4>1, <4>2 DEF Held
    <3>3. CASE x # <<m, "new">> /\ x # <<m, "cur">>
      <4>1. x \in Listing(dest')
        BY <3>1, <3>3, <2>4, ListingIs
      <4>. QED BY <4>1 DEF Held
    <3>. QED BY <3>2, <3>3
  <2>6. Held(dest) \subseteq Held(dest')
    BY <2>5 DEF Held
  <2>. QED BY <2>1, <2>6 DEF DestShifted
<1>6. ASSUME NEW f \in Folders, DestIndex(f) PROVE DestKept
  <2>1. dest' = [dest EXCEPT !.uid[f] = "d"] /\ aside' = aside
    BY <1>6 DEF DestIndex, Edit
  <2>2. dest' \in Boxes /\ dest'.root = dest.root /\ dest'.file = dest.file
    BY <1>0, <2>1 DEF Boxes
  <2>. QED BY <1>0, <2>1, <2>2 DEF DestKept, Listing
<1>7. CASE \/ \E m \in Msgs : SourceDeliver(m) \/ SourceRead(m)
           \/ \E x \in Files : SourceExpunge(x)
           \/ \E r \in {"absent", "unreadable"} : SourceVanish(r)
           \/ \E f \in Folders : SourceIndex(f)
  <2>1. UNCHANGED <<dest, aside>>
    BY <1>7, Zenon DEF SourceDeliver, SourceRead, SourceExpunge, SourceVanish, SourceIndex, Edit
  <2>. QED BY <2>1 DEF DestKept, Listing
<1>8. CASE Owners
  BY <1>5, <1>6, <1>7, <1>8, Zenon DEF Owners
<1>. QED BY <1>1, <1>2, <1>3, <1>4, <1>8 DEF MailPast

\* None of these takes a message from the destination and its -bak
\* directories.
LEMMA NothingLostStep == ASSUME ApplyInv, [ApplyNext]_applyVars PROVE Anywhere \subseteq Anywhere'
<1>0. /\ Held(dest)' = Held(dest')
      /\ Anywhere' = Held(dest') \cup UNION {Held(aside'[i]) : i \in DOMAIN aside'}
  BY DEF Anywhere, Held, Listing, Identity
<1>1. CASE UNCHANGED <<dest, aside>>
  BY <1>1 DEF Anywhere, Held, Listing, Identity
<1>2. CASE aside' = aside /\ Held(dest) \subseteq Held(dest')
  <2>. DEFINE H(i) == Held(aside[i])
  <2>1. Anywhere' = Held(dest') \cup UNION {H(i) : i \in DOMAIN aside}
    BY <1>0, <1>2
  <2>2. Anywhere = Held(dest) \cup UNION {H(i) : i \in DOMAIN aside}
    BY DEF Anywhere
  <2>. QED BY <1>2, <2>1, <2>2
<1>3. CASE MailInv /\ DestAside
  <2>1. aside \in Seq(Boxes) /\ dest \in Boxes /\ aside' = Append(aside, dest)
    BY <1>3 DEF MailInv, MailHeld, DestAside
  <2>2. /\ DOMAIN aside \subseteq DOMAIN aside' /\ Len(aside) + 1 \in DOMAIN aside'
        /\ \A i \in DOMAIN aside : aside'[i] = aside[i]
        /\ aside'[Len(aside) + 1] = dest
    BY <2>1
  <2>3. ASSUME NEW i \in DOMAIN aside PROVE Held(aside[i]) \subseteq Anywhere'
    BY <1>0, <2>2
  <2>4. Held(dest) \subseteq Anywhere'
    BY <1>0, <2>2
  <2>. QED BY <2>3, <2>4 DEF Anywhere
<1>4. CASE UNCHANGED applyVars \/ UNCHANGED mailVars
  BY <1>1, <1>4 DEF applyVars, vars, mailVars
<1>5. CASE ~doFile /\ (DomainStep \/ MailPast)
  <2>1. MailInv
    BY <1>5 DEF ApplyInv
  <2>2. CASE DestKept
    BY <1>2, <2>2 DEF DestKept, Held
  <2>3. CASE DestFed
    BY <1>2, <2>3 DEF DestFed, Held
  <2>4. CASE DestShifted
    BY <1>2, <2>4 DEF DestShifted
  <2>. QED BY <1>3, <1>5, <2>1, <2>2, <2>3, <2>4, DestChanges
<1>. QED BY <1>4, <1>5, StepKinds

\* No step of a run, of its owners or of an interrupt makes a message of the
\* destination disappear, for any mailboxes and any number of failures: what a
\* mirror or an orphan's rename takes out of the live mailbox is in a -bak
\* directory, and an extraction never takes a file away.
THEOREM NoMailIsLost == ApplySpec => NothingLost
<1>1. ApplyInit => ApplyInv
  BY ApplyInitInv
<1>2. ApplyInv /\ [ApplyNext]_applyVars => ApplyInv'
  BY ApplyNextInv
<1>3. ApplyInv /\ [ApplyNext]_applyVars => [Anywhere \subseteq Anywhere']_vars
  BY NothingLostStep
<1>. QED BY <1>1, <1>2, <1>3, PTL DEF ApplySpec, NothingLost

\* A message has at most the two files in new/ and cur/.
LEMMA CopiesFinite ==
    ASSUME NEW m \in Msgs
    PROVE  /\ IsFiniteSet(Copies(m)) /\ Cardinality(Copies(m)) \in Nat
           /\ \A S \in SUBSET Copies(m) : Cardinality(S) \in Nat /\ Cardinality(S) <= Cardinality(Copies(m))
<1>1. Copies(m) \subseteq {<<m, "new">>} \cup {<<m, "cur">>}
  BY FileIs DEF Copies, Listing
<1>2. IsFiniteSet({<<m, "new">>} \cup {<<m, "cur">>})
  BY FS_Singleton, FS_Union
<1>3. IsFiniteSet(Copies(m))
  BY <1>1, <1>2, FS_Subset
<1>4. ASSUME NEW S \in SUBSET Copies(m) PROVE Cardinality(S) \in Nat /\ Cardinality(S) <= Cardinality(Copies(m))
  BY <1>3, FS_Subset, FS_CardinalityType
<1>. QED BY <1>3, <1>4, FS_CardinalityType

\* A message that the destination has gets no second file.
LEMMA NoDuplicatesStep ==
    ASSUME ApplyInv, [ApplyNext]_applyVars, NEW m \in Msgs, opts.mode # "full", ~moved'
    PROVE  Copies(m) # {} => Copies(m)' \subseteq Copies(m)
<1>0. Copies(m)' = {x \in Listing(dest') : Identity(x) = m}
  BY DEF Copies, Listing, Identity
<1>1. CASE UNCHANGED applyVars \/ UNCHANGED mailVars
  <2>1. UNCHANGED dest
    BY <1>1 DEF applyVars, vars, mailVars
  <2>. QED BY <2>1 DEF Copies, Listing, Identity
<1>2. CASE ~doFile /\ (DomainStep \/ MailPast)
  <2>1. MailInv /\ (DestKept \/ DestAside \/ DestFed)
    BY <1>2, DestChanges DEF ApplyInv, DestShifted
  <2>2. CASE DestKept \/ DestAside
    BY <1>0, <2>2 DEF DestKept, DestAside, Copies
  <2>3. CASE DestFed
    <3>1. \A x \in batch : Copies(Identity(x)) \subseteq {x}
      BY <2>1, <2>3 DEF DestFed, MailInv, MailSingle
    <3>2. ASSUME Copies(m) # {}, NEW x \in Copies(m)' PROVE x \in Copies(m)
      <4>1. Identity(x) = m /\ (x \in Listing(dest) \/ x \in batch)
        BY <1>0, <2>3, <3>2 DEF DestFed
      <4>2. CASE x \in Listing(dest)
        BY <4>1, <4>2 DEF Copies
      <4>3. CASE x \in batch
        BY <3>1, <3>2, <4>1, <4>3
      <4>. QED BY <4>1, <4>2, <4>3
    <3>. QED BY <3>2
  <2>. QED BY <2>1, <2>2, <2>3
<1>. QED BY <1>1, <1>2, StepKinds

\* A run that plans by identity never adds a second file of a message that the
\* destination holds, however often it retries and re-scans and whatever is cut
\* short, unless the owner of the destination moved a message.
THEOREM NoMailIsDoubled == ApplySpec => NoDuplicates
<1>1. ApplyInit => ApplyInv
  BY ApplyInitInv
<1>2. ApplyInv /\ [ApplyNext]_applyVars => ApplyInv'
  BY ApplyNextInv
<1>3. ASSUME ApplyInv, [ApplyNext]_applyVars, NEW m \in Msgs, opts.mode # "full", ~moved',
             Cardinality(Copies(m)') > Cardinality(Copies(m))
      PROVE  Copies(m) = {}
  <2>. SUFFICES ASSUME Copies(m) # {} PROVE FALSE
    OBVIOUS
  <2>1. Copies(m)' \in SUBSET Copies(m)
    BY <1>3, NoDuplicatesStep
  <2>2. Cardinality(Copies(m)') <= Cardinality(Copies(m)) /\ Cardinality(Copies(m)') \in Nat
        /\ Cardinality(Copies(m)) \in Nat
    BY <2>1, CopiesFinite
  <2>. QED BY <1>3, <2>2
<1>4. ApplyInv /\ [ApplyNext]_applyVars
        => [\A m \in Msgs : opts.mode # "full" /\ ~moved' /\ Cardinality(Copies(m)') > Cardinality(Copies(m))
                              => Copies(m) = {}]_vars
  BY <1>3
<1>. QED BY <1>1, <1>2, <1>4, PTL DEF ApplySpec, NoDuplicates

-----------------------------------------------------------------------------
(* The web flow: paths and trees                                           *)

\* IsPrefix, word by word.
LEMMA PrefixIs ==
    ASSUME NEW s \in Paths, NEW t \in Paths
    PROVE  IsPrefix(s, t) <=> Len(s) <= Len(t) /\ \A i \in 1..Len(s) : s[i] = t[i]
<1>1. s \in Seq(Words \X Nat) /\ t \in Seq(Words \X Nat) /\ Len(s) \in Nat /\ Len(t) \in Nat
  BY DEF Paths
<1>2. SubSeq(s, 1, Len(s)) = [i \in 1..Len(s) |-> s[i]] /\ SubSeq(t, 1, Len(s)) = [i \in 1..Len(s) |-> t[i]]
  BY <1>1
<1>. QED BY <1>1, <1>2 DEF IsPrefix

\* Two directories around one path lie inside each other.
LEMMA Comparable ==
    ASSUME NEW s \in Paths, NEW t \in Paths, NEW u \in Paths, IsPrefix(s, u), IsPrefix(t, u)
    PROVE  IsPrefix(s, t) \/ IsPrefix(t, s)
<1>1. Len(s) \in Nat /\ Len(t) \in Nat
  BY DEF Paths
<1>. QED BY <1>1, PrefixIs

\* The relative path, appended to its directory, is the path.
LEMMA RelBack ==
    ASSUME NEW s \in Paths, NEW u \in Paths, IsPrefix(s, u)
    PROVE  s \o Rel(s, u) = u
<1>. DEFINE r == SubSeq(u, Len(s) + 1, Len(u))
<1>1. Len(s) <= Len(u) /\ \A i \in 1..Len(s) : s[i] = u[i]
  BY PrefixIs
<1>2. s \in Seq(Words \X Nat) /\ u \in Seq(Words \X Nat) /\ Len(s) \in Nat /\ Len(u) \in Nat
  BY DEF Paths
<1>3. r \in Seq(Words \X Nat) /\ Len(r) = Len(u) - Len(s) /\ \A i \in 1..Len(r) : r[i] = u[Len(s) + i]
  BY <1>1, <1>2
<1>. HIDE DEF r
<1>4. /\ s \o r \in Seq(Words \X Nat) /\ Len(s \o r) = Len(s) + Len(r)
      /\ \A i \in 1..Len(s) + Len(r) : (s \o r)[i] = IF i <= Len(s) THEN s[i] ELSE r[i - Len(s)]
  BY <1>2, <1>3, ConcatProperties
<1>5. ASSUME NEW i \in 1..Len(u) PROVE (s \o r)[i] = u[i]
  <2>1. CASE i <= Len(s)
    <3>1. i \in 1..Len(s) /\ i \in 1..Len(s) + Len(r)
      BY <1>2, <1>3, <2>1
    <3>. QED BY <1>1, <1>4, <2>1, <3>1
  <2>2. CASE ~(i <= Len(s))
    <3>. DEFINE j == i - Len(s)
    <3>1. j \in 1..Len(r) /\ Len(s) + j = i /\ i \in 1..Len(s) + Len(r)
      BY <1>2, <1>3, <2>2
    <3>2. (s \o r)[i] = r[j]
      BY <1>4, <2>2, <3>1
    <3>. HIDE DEF j
    <3>3. r[j] = u[Len(s) + j]
      BY <1>3, <3>1
    <3>. QED BY <3>1, <3>2, <3>3
  <2>. QED BY <2>1, <2>2
<1>6. s \o r = u
  <2>1. Len(s \o r) = Len(u)
    BY <1>2, <1>3, <1>4
  <2>. QED BY <1>2, <1>4, <1>5, <2>1, SeqEqual
<1>. QED BY <1>6 DEF Rel, r

\* The trees that an owner makes.
LEMMA TreeDomains ==
    ASSUME NEW t, NEW p, NEW ps, NEW x
    PROVE  /\ DOMAIN Overlay(t, Leaf(p, x)) \subseteq {p} \cup DOMAIN t
           /\ DOMAIN Only(t, ps) = ps
           /\ DOMAIN Mkdir(p, t) \subseteq {p} \cup DOMAIN t
           /\ DOMAIN Without(t, ps, p) \subseteq {p} \cup DOMAIN t
<1>1. \A d, q, y : DOMAIN Overlay(d, Leaf(q, y)) \subseteq {q} \cup DOMAIN d
  BY DEF Overlay, Normal, Only, Leaf
<1>2. \A d, qs : DOMAIN Only(d, qs) = qs
  BY DEF Only
<1>3. \A d, q : DOMAIN Mkdir(q, d) \subseteq {q} \cup DOMAIN d
  BY <1>1 DEF Mkdir
<1>. QED BY <1>1, <1>2, <1>3 DEF Without

-----------------------------------------------------------------------------
(* The web flow: its invariant                                             *)

SourceOf(i) == View(start.items[i].from, site)
DestOf(i)   == View(start.items[i].to, live)

\* The docroot is a mirror, in its bodies too unless it is one of ns.
Mirrored(i, ns) ==
    ~Absent(start.items[i].from) /\ SourceOf(i) # <<>> =>
        Meta(SourceOf(i)) = Meta(DestOf(i)) /\ (i \notin ns => SourceOf(i) = DestOf(i))

WebTyped ==
    /\ start \in WebStarts /\ at \in DOMAIN start.items
    /\ DOMAIN site \subseteq Paths /\ locked \subseteq Paths
    /\ pc \in DomainSteps \cup WebSteps \cup {"done"}
    /\ exit # "none" => pc = "done"
    /\ pc \in DomainSteps \cup {"gate"} => at = 1
    /\ late \in BOOLEAN /\ webDiff \in BOOLEAN

\* What the verification of the docroot at work has established so far.
Entered == ~Barred(Item.from) /\ ~Partial(Item.from)
Compared ==
    /\ pc \in VerifySteps \ {"manifest"} => Entered
    /\ pc \in {"against", "namesagainst"} => manifest.view = SourceOf(at)
    /\ pc \in {"names", "namesagainst"} => start.big
    /\ pc \in {"bodies", "bodiesagainst"} => Meta(SourceOf(at)) = Meta(DestOf(at))
    /\ pc = "bodiesagainst" /\ manifest.ok => manifest.view = SourceOf(at)

\* The docroots that it has passed, and all of them at a clean end.
Verified ==
    /\ pc \in VerifySteps /\ ~webDiff => \A i \in Actionable : i < at => Mirrored(i, notes)
    /\ exit \in {"clean", "noted"} => \A i \in Actionable : Mirrored(i, notes)

WebInv == WebTyped /\ (~late => Compared /\ Verified)

\* The docroots of a plan are a nonempty sequence, and those to copy are
\* among them.
LEMMA ItemsAre ==
    ASSUME WebTyped
    PROVE  /\ start.items \in Seq(ItemType) /\ DOMAIN start.items = 1..Len(start.items) /\ Len(start.items) \in Nat
           /\ 1 \in DOMAIN start.items /\ Actionable \subseteq DOMAIN start.items
           /\ \A i \in DOMAIN start.items : start.items[i].from \in Paths /\ start.items[i].to \in Paths
<1>1. IsWebStart(start)
  BY WebSyncAssumption DEF WebTyped
<1>2. start.items \in Seq(ItemType) /\ start.which \in DOMAIN start.items
  BY <1>1 DEF IsWebStart
<1>3. DOMAIN start.items = 1..Len(start.items) /\ Len(start.items) \in Nat
  BY <1>2
<1>4. \A i \in DOMAIN start.items : start.items[i] \in ItemType
  BY <1>2
<1>. QED BY <1>2, <1>3, <1>4 DEF ItemType, Actionable

\* The fingerprints read all of a docroot without a directory that bars them.
LEMMA ReadableIsView ==
    ASSUME WebTyped, NEW root \in Paths, ~Barred(root), ~Partial(root)
    PROVE  Readable(root) = View(root, site)
<1>. DEFINE open == {p \in DOMAIN site : ~Barred(p)}
            t == Only(site, open)
<1>1. ASSUME NEW p \in DOMAIN site, IsStrictPrefix(root, p) PROVE ~Barred(p)
  <2>. SUFFICES ASSUME NEW l \in locked, IsPrefix(l, p) PROVE FALSE
    BY DEF Barred
  <2>1. p \in Paths /\ l \in Paths /\ IsPrefix(root, p)
    BY <1>1 DEF WebTyped, IsStrictPrefix
  <2>2. IsPrefix(l, root) \/ IsPrefix(root, l)
    BY <2>1, Comparable
  <2>. QED BY <2>2 DEF Barred, Partial
<1>2. DOMAIN t = open /\ \A p \in open : t[p] = site[p]
  BY DEF Only
<1>. HIDE DEF t
<1>3. Under(root, t) = Under(root, site)
  BY <1>1, <1>2 DEF Under
<1>4. Entries(root, t) = Entries(root, site)
  BY <1>3 DEF Entries
<1>5. ASSUME NEW p \in Entries(root, site) PROVE t[root \o Rel(root, p)] = site[root \o Rel(root, p)]
  <2>1. p \in DOMAIN site /\ IsStrictPrefix(root, p) /\ p \in Paths
    BY <1>5 DEF Entries, Under, WebTyped
  <2>2. root \o Rel(root, p) = p
    BY <2>1, RelBack DEF IsStrictPrefix
  <2>. QED BY <1>1, <1>2, <2>1, <2>2
<1>. DEFINE R == {Rel(root, p) : p \in Entries(root, site)}
<1>6. \A r \in R : t[root \o r] = site[root \o r]
  BY <1>5
<1>7. View(root, t) = [r \in R |-> t[root \o r]] /\ View(root, site) = [r \in R |-> site[root \o r]]
  BY <1>4 DEF View
<1>. HIDE DEF R
<1>8. View(root, t) = View(root, site)
  BY <1>6, <1>7
<1>. QED BY <1>8 DEF Readable, t

-----------------------------------------------------------------------------
(* The web flow: the verification                                          *)

WebStill == UNCHANGED <<start, site, live, locked, late, seen, failed, blocked>>

\* Which docroots are copied depends on the plan and the domain step alone.
LEMMA StillActionable ==
    ASSUME UNCHANGED <<start, seen, failed, blocked>>
    PROVE  Actionable' = Actionable
<1>1. \A i : /\ Unavailable(i)' <=> Unavailable(i)
             /\ NoTarget(i)' <=> NoTarget(i)
             /\ TypeIssue(i)' <=> TypeIssue(i)
  BY DEF Unavailable, NoTarget, TypeIssue, There
<1>. QED BY <1>1 DEF Actionable

\* A docroot found mirrored stays so while both sites are left alone.
LEMMA StillMirrored ==
    ASSUME WebStill, notes \subseteq notes', NEW i, Mirrored(i, notes)
    PROVE  Mirrored(i, notes)'
<1>1. Absent(start.items[i].from)' <=> Absent(start.items[i].from)
  BY DEF WebStill, Absent, Exists
<1>2. SourceOf(i)' = SourceOf(i) /\ DestOf(i)' = DestOf(i)
  BY DEF WebStill, SourceOf, DestOf
<1>. QED BY <1>1, <1>2 DEF Mirrored

\* A step that leaves plan, source and locks alone keeps the types.
LEMMA StillTyped ==
    ASSUME WebTyped, UNCHANGED <<start, site, locked, late>>, at' \in DOMAIN start.items, webDiff' \in BOOLEAN,
           pc' \in WebSteps \cup {"done"}, exit' # "none" => pc' = "done", pc' = "gate" => at' = 1
    PROVE  WebTyped'
  BY DEF WebTyped, WebSteps, CopySteps, VerifySteps, DomainSteps

\* The docroot at work passes, or counts as a difference.
LEMMA VerdictInv ==
    ASSUME WebInv, WebStill, UNCHANGED webFailed, pc \in VerifySteps,
           NEW hard \in BOOLEAN, NEW noted \in BOOLEAN, Verdict(hard, noted),
           ~late /\ ~hard /\ at \in Actionable => Mirrored(at, IF noted THEN {at} ELSE {})
    PROVE  WebInv'
<1>. DEFINE end == at = Len(start.items)
<1>1. /\ webDiff' = (webDiff \/ hard)
      /\ notes' = IF noted THEN notes \cup {at} ELSE notes
      /\ at' = IF end THEN at ELSE at + 1
      /\ pc' = IF end THEN "done" ELSE "manifest"
      /\ exit' = IF ~end THEN exit
                 ELSE IF webDiff' \/ webFailed \/ failed \/ blocked THEN "issues"
                 ELSE IF notes' # {} THEN "noted" ELSE "clean"
  BY DEF Verdict
<1>2. WebTyped /\ exit = "none" /\ webDiff \in BOOLEAN
  BY DEF WebInv, WebTyped, VerifySteps
<1>3. /\ DOMAIN start.items = 1..Len(start.items) /\ Len(start.items) \in Nat /\ at \in DOMAIN start.items
      /\ Actionable \subseteq DOMAIN start.items
  BY <1>2, ItemsAre DEF WebTyped
<1>4. WebTyped'
  <2>1. at' \in DOMAIN start.items /\ webDiff' \in BOOLEAN /\ pc' \in WebSteps \cup {"done"}
    BY <1>1, <1>2, <1>3 DEF WebSteps, VerifySteps
  <2>2. (exit' # "none" => pc' = "done") /\ pc' # "gate"
    BY <1>1, <1>2
  <2>. QED BY <1>2, <2>1, <2>2, StillTyped DEF WebStill
<1>5. Compared'
  BY <1>1 DEF Compared, VerifySteps
<1>6. ASSUME ~late, ~webDiff' PROVE \A i \in Actionable : i <= at => Mirrored(i, notes)'
  <2>1. ~webDiff /\ ~hard /\ notes \subseteq notes'
    BY <1>1, <1>2, <1>6
  <2>2. ASSUME NEW i \in Actionable, i < at PROVE Mirrored(i, notes)'
    BY <1>6, <2>1, <2>2, StillMirrored DEF WebInv, Verified
  <2>3. ASSUME at \in Actionable PROVE Mirrored(at, notes')
    BY <1>1, <1>6, <2>1, <2>3 DEF Mirrored
  <2>4. ASSUME NEW i \in Actionable, i = at PROVE Mirrored(i, notes)'
    <3>1. Absent(start.items[i].from)' <=> Absent(start.items[i].from)
      BY DEF WebStill, Absent, Exists
    <3>2. SourceOf(i)' = SourceOf(i) /\ DestOf(i)' = DestOf(i)
      BY DEF WebStill, SourceOf, DestOf
    <3>. QED BY <2>3, <2>4, <3>1, <3>2 DEF Mirrored
  <2>5. \A i \in Actionable : i \in Nat
    BY <1>3
  <2>. QED BY <1>3, <2>2, <2>4, <2>5
<1>7. Actionable' = Actionable
  BY StillActionable DEF WebStill
<1>8. ASSUME ~late PROVE Verified'
  <2>1. ASSUME pc' \in VerifySteps, ~webDiff', NEW i \in Actionable, i < at' PROVE Mirrored(i, notes)'
    <3>1. i <= at
      BY <1>1, <1>3, <2>1
    <3>. QED BY <1>6, <1>8, <2>1, <3>1
  <2>2. ASSUME exit' \in {"clean", "noted"}, NEW i \in Actionable PROVE Mirrored(i, notes)'
    <3>1. ~webDiff' /\ i <= at
      BY <1>1, <1>2, <1>3, <2>2
    <3>. QED BY <1>6, <1>8, <3>1
  <2>. QED BY <1>7, <2>1, <2>2 DEF Verified
<1>. QED BY <1>4, <1>5, <1>8 DEF WebInv, WebStill

\* The verification of the docroot at work goes on.
LEMMA ReadOnInv ==
    ASSUME WebInv, WebStill, pc \in VerifySteps, pc' \in VerifySteps \ {"manifest"},
           UNCHANGED <<at, webDiff, notes, exit>>, ~late => Compared'
    PROVE  WebInv'
<1>1. WebTyped /\ exit = "none" /\ webDiff \in BOOLEAN /\ at \in DOMAIN start.items
  BY DEF WebInv, WebTyped, VerifySteps
<1>2. WebTyped'
  BY <1>1, StillTyped DEF WebStill, WebSteps, VerifySteps
<1>3. Actionable' = Actionable
  BY StillActionable DEF WebStill
<1>4. ASSUME ~late PROVE Verified'
  <2>1. ASSUME ~webDiff', NEW i \in Actionable, i < at' PROVE Mirrored(i, notes)'
    BY <1>4, <2>1, StillMirrored DEF WebInv, Verified
  <2>. QED BY <1>1, <1>3, <2>1 DEF Verified
<1>. QED BY <1>2, <1>4 DEF WebInv, WebStill

\* What the verification compares stays the same while both sites are left
\* alone.
LEMMA StillItem ==
    ASSUME WebStill, at' = at
    PROVE  /\ Entered' <=> Entered
           /\ SourceOf(at)' = SourceOf(at) /\ DestOf(at)' = DestOf(at) /\ start'.big = start.big
  BY DEF WebStill, Entered, Item, Barred, Partial, SourceOf, DestOf

\* A verification step changes neither site.
LEMMA FrameStill == ASSUME VerifyFrame PROVE WebStill /\ UNCHANGED webFailed
  BY DEF VerifyFrame, WebStill, webSites, domainVars

\* Reading the source's manifest keeps it as the source's view, or gives a
\* verdict.
LEMMA SourceManifestInv == ASSUME WebInv, SourceManifest PROVE WebInv'
<1>1. pc = "manifest" /\ pc \in VerifySteps /\ WebStill /\ UNCHANGED webFailed
  BY FrameStill DEF SourceManifest, VerifySteps
<1>2. \/ Verdict(TRUE, FALSE)
      \/ Verdict(FALSE, FALSE) /\ (at \notin Actionable \/ Absent(Item.from) \/ View(Item.from, site) = <<>>)
      \/ Read("against", View(Item.from, site)) /\ Entered
  BY DEF SourceManifest, Entered
<1>3. CASE Verdict(TRUE, FALSE)
  BY <1>1, <1>3, VerdictInv
<1>4. CASE Verdict(FALSE, FALSE) /\ (at \notin Actionable \/ Absent(Item.from) \/ View(Item.from, site) = <<>>)
  <2>1. at \in Actionable => Mirrored(at, {})
    BY <1>4 DEF Mirrored, Item, SourceOf
  <2>2. WebInv'
    BY <1>1, <1>4, <2>1, VerdictInv
  <2>. QED BY <2>2
<1>5. CASE Read("against", View(Item.from, site)) /\ Entered
  <2>1. /\ pc' = "against" /\ manifest' = [ok |-> TRUE, view |-> SourceOf(at)]
        /\ UNCHANGED <<at, webDiff, notes, exit>>
    BY <1>5 DEF Read, SourceOf, Item
  <2>2. Compared'
    BY <1>1, <1>5, <2>1, StillItem DEF Compared, VerifySteps
  <2>. QED BY <1>1, <2>1, <2>2, ReadOnInv DEF VerifySteps
<1>. QED BY <1>2, <1>3, <1>4, <1>5

\* The content gate, after a comparison that found no difference.
LEMMA ContentGateInv ==
    ASSUME WebInv, WebStill, UNCHANGED webFailed, pc \in {"against", "namesagainst"}, ContentGate,
           start.huge \in BOOLEAN, ~late => Meta(SourceOf(at)) = Meta(DestOf(at)),
           ~late /\ start.deep /\ ~start.big /\ ~start.huge => SourceOf(at) = DestOf(at)
    PROVE  WebInv'
<1>1. pc \in VerifySteps
  BY DEF VerifySteps
<1>2. CASE start.deep /\ ~start.big /\ Verdict(FALSE, start.huge)
  <2>1. ~late => Mirrored(at, IF start.huge THEN {at} ELSE {})
    BY <1>2 DEF Mirrored
  <2>. QED BY <1>1, <1>2, <2>1, VerdictInv
<1>3. CASE Verdict(FALSE, TRUE)
  <2>1. ~late => Mirrored(at, {at})
    BY DEF Mirrored
  <2>. QED BY <1>1, <1>3, <2>1, VerdictInv
<1>4. CASE Go("bodies")
  <2>1. pc' = "bodies" /\ UNCHANGED <<manifest, at, webDiff, notes, exit>>
    BY <1>4 DEF Go
  <2>2. ~late => Compared'
    <3>1. ~late => Entered
      BY DEF WebInv, Compared, VerifySteps
    <3>. QED BY <2>1, <3>1, StillItem DEF Compared, VerifySteps
  <2>. QED BY <1>1, <2>1, <2>2, ReadOnInv DEF VerifySteps
<1>. QED BY <1>2, <1>3, <1>4 DEF ContentGate

\* The flags of a run are Boolean.
LEMMA StartFlags == ASSUME WebInv PROVE start.huge \in BOOLEAN /\ start.deep \in BOOLEAN /\ start.big \in BOOLEAN
  BY WebSyncAssumption DEF WebInv, WebTyped, IsWebStart

\* A manifest without differences means equal names, types and sizes, and
\* with hashes equal trees.
LEMMA DestManifestInv == ASSUME WebInv, DestManifest PROVE WebInv'
<1>1. pc = "against" /\ pc \in VerifySteps /\ WebStill /\ UNCHANGED webFailed
  BY FrameStill DEF DestManifest, VerifySteps
<1>2. \/ Verdict(TRUE, FALSE)
      \/ start.big /\ Go("names")
      \/ ~DiffManifests(manifest.view, View(Item.to, live)) /\ ContentGate
  BY DEF DestManifest
<1>3. ~late => Entered /\ manifest.view = SourceOf(at)
  BY <1>1 DEF WebInv, Compared
<1>4. CASE Verdict(TRUE, FALSE)
  BY <1>1, <1>4, VerdictInv
<1>5. CASE start.big /\ Go("names")
  <2>1. pc' = "names" /\ UNCHANGED <<manifest, at, webDiff, notes, exit>>
    BY <1>5 DEF Go
  <2>2. ~late => Compared'
    BY <1>1, <1>3, <1>5, <2>1, StillItem DEF Compared, VerifySteps
  <2>. QED BY <1>1, <2>1, <2>2, ReadOnInv DEF VerifySteps
<1>6. CASE ~DiffManifests(manifest.view, View(Item.to, live)) /\ ContentGate
  <2>1. ~late => /\ Meta(SourceOf(at)) = Meta(DestOf(at))
                 /\ start.deep /\ ~start.big /\ ~start.huge => SourceOf(at) = DestOf(at)
    BY <1>3, <1>6 DEF DiffManifests, Hashing, DestOf, Item
  <2>. QED BY <1>1, <1>6, <2>1, StartFlags, ContentGateInv
<1>. QED BY <1>2, <1>4, <1>5, <1>6

\* Above the manifest cap the source is read by name fingerprints.
LEMMA SourceNamesInv == ASSUME WebInv, SourceNames PROVE WebInv'
<1>1. pc = "names" /\ pc \in VerifySteps /\ WebStill /\ UNCHANGED webFailed
  BY FrameStill DEF SourceNames, VerifySteps
<1>2. Verdict(TRUE, FALSE) \/ Read("namesagainst", Readable(Item.from))
  BY DEF SourceNames
<1>3. ~late => Entered /\ start.big
  BY <1>1 DEF WebInv, Compared
<1>4. CASE Verdict(TRUE, FALSE)
  BY <1>1, <1>4, VerdictInv
<1>5. CASE Read("namesagainst", Readable(Item.from))
  <2>1. /\ pc' = "namesagainst" /\ manifest' = [ok |-> TRUE, view |-> Readable(Item.from)]
        /\ UNCHANGED <<at, webDiff, notes, exit>>
    BY <1>5 DEF Read
  <2>2. ~late => Readable(Item.from) = SourceOf(at)
    BY <1>3, ItemsAre, ReadableIsView DEF WebInv, WebTyped, Entered, Item, SourceOf
  <2>3. ~late => Compared'
    BY <1>1, <1>3, <2>1, <2>2, StillItem DEF Compared, VerifySteps
  <2>. QED BY <1>1, <2>1, <2>3, ReadOnInv DEF VerifySteps
<1>. QED BY <1>2, <1>4, <1>5

\* Equal name fingerprints mean equal names, types and sizes.
LEMMA DestNamesInv == ASSUME WebInv, DestNames PROVE WebInv'
<1>1. pc = "namesagainst" /\ pc \in VerifySteps /\ WebStill /\ UNCHANGED webFailed
  BY FrameStill DEF DestNames, VerifySteps
<1>2. \/ Verdict(TRUE, FALSE)
      \/ Meta(manifest.view) = Meta(View(Item.to, live)) /\ ContentGate
  BY DEF DestNames
<1>3. ~late => manifest.view = SourceOf(at) /\ start.big
  BY <1>1 DEF WebInv, Compared
<1>4. CASE Verdict(TRUE, FALSE)
  BY <1>1, <1>4, VerdictInv
<1>5. CASE Meta(manifest.view) = Meta(View(Item.to, live)) /\ ContentGate
  <2>1. ~late => Meta(SourceOf(at)) = Meta(DestOf(at)) /\ start.big
    BY <1>3, <1>5 DEF DestOf, Item
  <2>. QED BY <1>1, <1>5, <2>1, StartFlags, ContentGateInv
<1>. QED BY <1>2, <1>4, <1>5

\* The content fingerprint of the source is of its readable view.
LEMMA SourceBodiesInv == ASSUME WebInv, SourceBodies PROVE WebInv'
<1>1. pc = "bodies" /\ pc \in VerifySteps /\ WebStill /\ UNCHANGED webFailed
  BY FrameStill DEF SourceBodies, VerifySteps
<1>2. \/ Verdict(TRUE, FALSE)
      \/ /\ pc' = "bodiesagainst" /\ UNCHANGED <<at, webDiff, notes, exit>>
         /\ \/ manifest' = NoManifest
            \/ manifest' = [ok |-> TRUE, view |-> Readable(Item.from)]
  BY DEF SourceBodies, Read
<1>3. ~late => Entered /\ Meta(SourceOf(at)) = Meta(DestOf(at))
  BY <1>1 DEF WebInv, Compared, VerifySteps
<1>4. CASE Verdict(TRUE, FALSE)
  BY <1>1, <1>4, VerdictInv
<1>5. CASE /\ pc' = "bodiesagainst" /\ UNCHANGED <<at, webDiff, notes, exit>>
           /\ \/ manifest' = NoManifest
              \/ manifest' = [ok |-> TRUE, view |-> Readable(Item.from)]
  <2>1. ~late => Readable(Item.from) = SourceOf(at)
    BY <1>3, ItemsAre, ReadableIsView DEF WebInv, WebTyped, Entered, Item, SourceOf
  <2>2. ~late /\ manifest'.ok => manifest'.view = SourceOf(at)
    BY <1>5, <2>1 DEF NoManifest
  <2>3. ~late => Compared'
    BY <1>1, <1>3, <1>5, <2>2, StillItem DEF Compared, VerifySteps
  <2>. QED BY <1>1, <1>5, <2>3, ReadOnInv DEF VerifySteps
<1>. QED BY <1>2, <1>4, <1>5

\* Equal content fingerprints mean equal trees; missing ones are noted.
LEMMA DestBodiesInv == ASSUME WebInv, DestBodies PROVE WebInv'
<1>1. pc = "bodiesagainst" /\ pc \in VerifySteps /\ WebStill /\ UNCHANGED webFailed
  BY FrameStill DEF DestBodies, VerifySteps
<1>2. \/ Verdict(TRUE, FALSE)
      \/ Verdict(FALSE, TRUE)
      \/ manifest.ok /\ Verdict(manifest.view # View(Item.to, live), FALSE)
  BY DEF DestBodies
<1>3. ~late => /\ Meta(SourceOf(at)) = Meta(DestOf(at))
               /\ manifest.ok => manifest.view = SourceOf(at)
  BY <1>1 DEF WebInv, Compared
<1>4. CASE Verdict(TRUE, FALSE)
  BY <1>1, <1>4, VerdictInv
<1>5. CASE Verdict(FALSE, TRUE)
  <2>1. ~late => Mirrored(at, {at})
    BY <1>3 DEF Mirrored
  <2>. QED BY <1>1, <1>5, <2>1, VerdictInv
<1>6. CASE manifest.ok /\ Verdict(manifest.view # View(Item.to, live), FALSE)
  <2>. DEFINE hard == manifest.view # View(Item.to, live)
  <2>1. ~late /\ ~hard => Mirrored(at, {})
    BY <1>3, <1>6 DEF Mirrored, DestOf, Item
  <2>2. hard \in BOOLEAN /\ Verdict(hard, FALSE)
    BY <1>6
  <2>. HIDE DEF hard
  <2>. QED BY <1>1, <2>1, <2>2, VerdictInv
<1>. QED BY <1>2, <1>4, <1>5, <1>6

-----------------------------------------------------------------------------
(* The web flow: the other steps                                           *)

\* Outside the verification nothing is claimed yet, and it begins with the
\* first docroot.
LEMMA UnverifiedInv ==
    ASSUME WebTyped', pc' \notin VerifySteps \ {"manifest"}, pc' = "manifest" => at' = 1, exit' \notin {"clean", "noted"}
    PROVE  WebInv'
<1>1. Compared'
  BY DEF Compared, VerifySteps
<1>2. DOMAIN start'.items = 1..Len(start'.items) /\ Actionable' \subseteq DOMAIN start'.items
  <2>1. IsWebStart(start')
    BY WebSyncAssumption DEF WebTyped
  <2>2. start'.items \in Seq(ItemType)
    BY <2>1 DEF IsWebStart
  <2>. QED BY <2>2 DEF Actionable
<1>3. Verified'
  <2>. DEFINE A == Actionable'
  <2>1. \A i \in A : i \in Nat \ {0}
    BY <1>2
  <2>2. pc' \in VerifySteps => \A i \in A : ~ (i < at')
    BY <2>1 DEF VerifySteps
  <2>. QED BY <2>2 DEF Verified
<1>. QED BY <1>1, <1>3 DEF WebInv

\* The domain step leaves both sites alone.
LEMMA WebDomainsInv == ASSUME TokenInv, WebInv, WebDomains PROVE WebInv'
<1>1. /\ UNCHANGED <<start, site, locked, at, late, webDiff>> /\ pc \in DomainSteps
      /\ \/ pc' \in DomainSteps \cup {"gate"} /\ exit' = exit
         \/ pc' = "done" /\ exit' = "issues"
  BY DomainMoves DEF WebDomains, webFlow, webSites
<1>2. exit = "none" /\ at = 1
  BY <1>1 DEF WebInv, WebTyped, DomainSteps
<1>3. WebTyped'
  BY <1>1, <1>2 DEF WebInv, WebTyped, DomainSteps, WebSteps, CopySteps
<1>. QED BY <1>1, <1>2, <1>3, UnverifiedInv DEF DomainSteps, VerifySteps

\* The steps of the copy claim nothing: the verification starts at the first
\* docroot.
LEMMA CopyStepInv ==
    ASSUME WebInv, Preflight \/ PassOver \/ ListDocroot \/ PutAside \/ EmptyDest \/ NextParcel \/ SendParcel \/ ParcelFails
    PROVE  WebInv'
<1>. DEFINE Onward == IF at < Len(start.items) THEN at' = at + 1 /\ pc' = "docroot" ELSE at' = 1 /\ pc' = "manifest"
<1>1. CASE Preflight
  <2>1. /\ pc = "gate" /\ pc' \in {"docroot", "manifest"}
        /\ UNCHANGED <<start, site, locked, late, webDiff, exit, at>>
    BY <1>1 DEF Preflight, webSites, Reading
  <2>2. exit = "none" /\ at = 1 /\ WebTyped /\ at \in DOMAIN start.items /\ webDiff \in BOOLEAN
    BY <2>1 DEF WebInv, WebTyped
  <2>3. WebTyped'
    BY <2>1, <2>2, StillTyped DEF WebSteps, CopySteps, VerifySteps
  <2>. QED BY <2>1, <2>2, <2>3, UnverifiedInv DEF VerifySteps
<1>2. CASE PassOver \/ ListDocroot \/ PutAside \/ EmptyDest \/ NextParcel \/ SendParcel \/ ParcelFails
  <2>1. pc \in {"docroot", "aside", "wipe", "send"} /\ UNCHANGED <<start, site, locked, late, webDiff, exit>>
    BY <1>2 DEF PassOver, ListDocroot, PutAside, EmptyDest, NextParcel, SendParcel, ParcelFails, webSites, Reading
  <2>2. Onward \/ (at' = at /\ pc' \in {"aside", "wipe", "send"})
    <3>1. CASE PassOver \/ ListDocroot
      BY <3>1 DEF PassOver, ListDocroot, NextDocroot, Prepare
    <3>2. CASE PutAside \/ EmptyDest
      BY <3>2 DEF PutAside, EmptyDest, Sending, NextDocroot
    <3>3. CASE NextParcel \/ SendParcel \/ ParcelFails
      BY <3>3 DEF NextParcel, SendParcel, ParcelFails, NextDocroot
    <3>. QED BY <1>2, <3>1, <3>2, <3>3
  <2>3. exit = "none" /\ WebTyped /\ at \in DOMAIN start.items /\ webDiff \in BOOLEAN
    BY <2>1 DEF WebInv, WebTyped
  <2>4. at' \in DOMAIN start.items /\ pc' \in {"docroot", "aside", "wipe", "send", "manifest"} /\ (pc' = "manifest" => at' = 1)
    BY <2>2, <2>3, ItemsAre
  <2>5. WebTyped'
    BY <2>1, <2>3, <2>4, StillTyped DEF WebSteps, CopySteps, VerifySteps
  <2>. QED BY <2>1, <2>3, <2>4, <2>5, UnverifiedInv DEF VerifySteps
<1>. QED BY <1>1, <1>2

\* An interrupted run ends with issues.
LEMMA WebInterruptInv == ASSUME WebInv, WebInterrupt PROVE WebInv'
<1>1. pc' = "done" /\ exit' = "issues" /\ UNCHANGED <<start, site, locked, late, webDiff, at>>
  BY DEF WebInterrupt, webSites, webFlow
<1>2. WebTyped'
  BY <1>1, StillTyped DEF WebInv, WebTyped
<1>. QED BY <1>1, <1>2, UnverifiedInv DEF VerifySteps

\* What an owner writes, he writes before the verification, or late.
LEMMA WebEditInv ==
    ASSUME WebInv, WebEdit, DOMAIN site' \subseteq Paths, locked' \subseteq Paths
    PROVE  WebInv'
<1>1. /\ pc \in WebSteps /\ UNCHANGED <<start, pc, exit, at, webDiff>>
      /\ late' = (late \/ pc \in VerifySteps)
  BY DEF WebEdit, webFlow
<1>2. WebTyped'
  BY <1>1 DEF WebInv, WebTyped
<1>3. CASE pc \in VerifySteps
  BY <1>1, <1>2, <1>3 DEF WebInv
<1>4. CASE pc \notin VerifySteps
  <2>1. exit = "none"
    BY <1>1 DEF WebInv, WebTyped, WebSteps, CopySteps, VerifySteps
  <2>. QED BY <1>1, <1>2, <1>4, <2>1, UnverifiedInv DEF VerifySteps
<1>. QED BY <1>3, <1>4

\* Owners write, delete, lock and remove; after a comparison has begun this
\* makes the run late.
LEMMA WebOwnersInv == ASSUME WebInv, WebOwners PROVE WebInv'
<1>0. DOMAIN site \subseteq Paths /\ locked \subseteq Paths /\ WebTyped
  BY DEF WebInv, WebTyped
<1>1. PICK i \in DOMAIN start.items :
        LET it == start.items[i] IN
        \/ SiteWrite(it.from \o <<Name("index")>>) \/ SiteWrite(it.from \o <<Name("new")>>)
        \/ SiteDelete(it.from \o <<Name("index")>>)
        \/ SiteVanish(it.from) \/ SiteLock(it.from)
        \/ it.to # <<>> /\ (LiveWrite(it.to \o <<Name("index")>>) \/ LiveWrite(it.to \o <<Name("new")>>))
  BY DEF WebOwners
<1>. DEFINE from == start.items[i].from
            to   == start.items[i].to
<1>2. from \in Paths
  BY <1>0, ItemsAre
<1>3. \A w \in Words : from \o <<Name(w)>> \in Paths /\ Front(from \o <<Name(w)>>) \in Paths
  <2>. SUFFICES ASSUME NEW w \in Words PROVE from \o <<Name(w)>> \in Paths /\ Front(from \o <<Name(w)>>) \in Paths
    OBVIOUS
  <2>. DEFINE p == from \o <<Name(w)>>
  <2>1. <<Name(w)>> \in Seq(Words \X Nat)
    BY DEF Name
  <2>2. p \in Seq(Words \X Nat) /\ Len(p) = Len(from) + 1 /\ Len(from) \in Nat
    BY <1>2, <2>1, ConcatProperties DEF Paths
  <2>. HIDE DEF p
  <2>3. SubSeq(p, 1, Len(p) - 1) \in Seq(Words \X Nat)
    <3>1. Len(p) \in Nat /\ \A k \in 1..Len(p) : p[k] \in Words \X Nat
      BY <2>2
    <3>2. Len(p) - 1 \in Int /\ 1 \in Int /\ \A k \in 1..Len(p) - 1 : p[k] \in Words \X Nat
      BY <3>1
    <3>. QED BY <3>2, SubSeqProperties
  <2>. QED BY <2>2, <2>3 DEF Paths, Front, p
<1>. HIDE DEF from, to
<1>4. ASSUME NEW p, p \in Paths, SiteWrite(p) PROVE WebInv'
  <2>1. WebEdit /\ site' = Overlay(site, Leaf(p, "v2")) /\ locked' = locked
    BY <1>4 DEF SiteWrite
  <2>. QED BY <1>0, <1>4, <2>1, TreeDomains, WebEditInv
<1>5. ASSUME NEW p, Front(p) \in Paths, SiteDelete(p) PROVE WebInv'
  <2>1. WebEdit /\ site' = Without(site, {p}, Front(p)) /\ locked' = locked
    BY <1>5 DEF SiteDelete
  <2>. QED BY <1>0, <1>5, <2>1, TreeDomains, WebEditInv
<1>6. ASSUME SiteVanish(from) PROVE WebInv'
  <2>1. WebEdit /\ site' = Only(site, {p \in DOMAIN site : ~IsPrefix(from, p)}) /\ locked' = locked
    BY <1>6 DEF SiteVanish
  <2>2. DOMAIN site' \subseteq DOMAIN site
    BY <2>1, TreeDomains
  <2>. QED BY <1>0, <2>1, <2>2, WebEditInv
<1>7. ASSUME SiteLock(from) PROVE WebInv'
  <2>1. WebEdit /\ site' = site /\ locked' = locked \cup {from}
    BY <1>7 DEF SiteLock
  <2>. QED BY <1>0, <1>2, <2>1, WebEditInv
<1>8. ASSUME NEW p, LiveWrite(p) PROVE WebInv'
  <2>1. WebEdit /\ site' = site /\ locked' = locked
    BY <1>8 DEF LiveWrite
  <2>. QED BY <1>0, <2>1, WebEditInv
<1>9. \/ SiteWrite(from \o <<Name("index")>>) \/ SiteWrite(from \o <<Name("new")>>)
      \/ SiteDelete(from \o <<Name("index")>>) \/ SiteVanish(from) \/ SiteLock(from)
      \/ \E p : LiveWrite(p)
  BY <1>1, Zenon DEF from
<1>10. /\ from \o <<Name("index")>> \in Paths /\ Front(from \o <<Name("index")>>) \in Paths
       /\ from \o <<Name("new")>> \in Paths
  <2>1. "index" \in Words /\ "new" \in Words
    BY WebSyncAssumption
  <2>. QED BY <1>3, <2>1, Zenon
<1>11. CASE SiteWrite(from \o <<Name("index")>>) \/ SiteWrite(from \o <<Name("new")>>)
  BY <1>4, <1>10, <1>11, Zenon
<1>12. CASE SiteDelete(from \o <<Name("index")>>)
  BY <1>5, <1>10, <1>12, Zenon
<1>. QED BY <1>6, <1>7, <1>8, <1>9, <1>11, <1>12, Zenon

-----------------------------------------------------------------------------
(* The web flow: its theorem                                               *)

\* The invariant of the web flow holds initially.
LEMMA WebInitInv == WebInit => WebInv
<1>. SUFFICES ASSUME WebInit PROVE WebInv
  OBVIOUS
<1>1. /\ start \in WebStarts /\ site = start.site /\ locked = {} /\ pc = "domains" /\ exit = "none" /\ at = 1
      /\ webDiff = FALSE /\ late = FALSE
  BY DEF WebInit
<1>2. IsWebStart(start)
  BY <1>1, WebSyncAssumption
<1>3. start.items \in Seq(ItemType) /\ start.which \in DOMAIN start.items /\ DOMAIN site \subseteq Paths
  BY <1>1, <1>2 DEF IsWebStart, IsTree
<1>4. 1 \in DOMAIN start.items
  BY <1>3
<1>5. WebTyped
  BY <1>1, <1>3, <1>4 DEF WebTyped, DomainSteps
<1>. QED BY <1>1, <1>5 DEF WebInv, Compared, Verified, VerifySteps

\* The invariant of the web flow is about its own variables only.
LEMMA WebStutterInv == ASSUME WebInv, UNCHANGED applyVars PROVE WebInv'
<1>1. WebStill /\ UNCHANGED <<at, webDiff, manifest, notes, pc, exit>>
  BY DEF applyVars, vars, webVars, webFlow, webSites, flow, domainVars, WebStill
<1>2. WebTyped'
  BY <1>1 DEF WebInv, WebTyped, WebStill
<1>3. Compared => Compared'
  BY <1>1, StillItem, Zenon DEF Compared, WebStill
<1>4. Actionable' = Actionable
  BY <1>1, StillActionable DEF WebStill
<1>5. \A i : Mirrored(i, notes) => Mirrored(i, notes)'
  BY <1>1, StillMirrored
<1>6. Verified => Verified'
  BY <1>1, <1>4, <1>5 DEF Verified
<1>. QED BY <1>1, <1>2, <1>3, <1>6 DEF WebInv, WebStill

\* Every step of a web run keeps its invariant.
LEMMA WebNextInv == ASSUME TokenInv, WebInv, WebDomains \/ WebPast PROVE WebInv'
  BY WebDomainsInv, CopyStepInv, SourceManifestInv, DestManifestInv, SourceNamesInv, DestNamesInv,
     SourceBodiesInv, DestBodiesInv, WebInterruptInv, WebOwnersInv DEF WebPast

\* A clean exit of the web flow means what it says, for any trees, docroots
\* inside each other, batches and retries, and whatever the owners write until
\* the verification begins: every targeted docroot with content is a mirror of
\* its source, in its bodies too unless the report notes them.
THEOREM CleanSitesAreMirrored == ApplySpec => []SitesMirrored
<1>. DEFINE I == TokenInv /\ (doFile => WebInv)
<1>1. ApplyInit => I
  BY InitTokens, WebInitInv DEF ApplyInit
<1>2. I /\ [ApplyNext]_applyVars => I'
  <2>. SUFFICES ASSUME I, [ApplyNext]_applyVars PROVE I'
    OBVIOUS
  <2>1. TokenInv'
    BY NextTokens
  <2>2. doFile' = doFile
    BY StepKinds DEF applyVars
  <2>3. ASSUME doFile PROVE WebInv'
    <3>1. WebInv /\ TokenInv
      BY <2>3
    <3>2. UNCHANGED applyVars \/ WebDomains \/ WebPast
      BY <2>3, StepKinds, Zenon
    <3>. QED BY <3>1, <3>2, WebNextInv, WebStutterInv
  <2>. QED BY <2>1, <2>2, <2>3
<1>3. I => SitesMirrored
  BY DEF WebInv, Verified, Mirrored, SourceOf, DestOf, SitesMirrored, CleanMeansMirrored
<1>. QED BY <1>1, <1>2, <1>3, PTL DEF ApplySpec

-----------------------------------------------------------------------------
(* What the web flow may take: names and paths                             *)

\* A nonempty set of numbers has a least one.
LEMMA LeastNumber ==
    ASSUME NEW T \in SUBSET Nat, T # {}
    PROVE  \E n \in T : \A k \in T : n <= k
<1>. DEFINE U == {1..n : n \in T}
<1>1. U \subseteq FiniteSubsetsOf(Nat) /\ U # {}
  <2>1. \A n \in T : 1..n \in SUBSET Nat /\ IsFiniteSet(1..n)
    BY FS_Interval
  <2>. QED BY <2>1 DEF FiniteSubsetsOf
<1>2. PICK x \in U : \A y \in U : ~ (<<y, x>> \in StrictSubsetOrdering(Nat))
  BY <1>1, FS_StrictSubsetOrderingWellFounded, WFMin, Zenon
<1>3. PICK n \in T : x = 1..n
  OBVIOUS
<1>4. ASSUME NEW k \in T, k < n PROVE FALSE
  <2>1. 1..k \in SUBSET Nat /\ 1..n \in SUBSET Nat /\ 1..k \subseteq 1..n /\ n \in 1..n /\ n \notin 1..k
    BY <1>4
  <2>2. <<1..k, 1..n>> \in StrictSubsetOrdering(Nat)
    BY <2>1 DEF StrictSubsetOrdering
  <2>. QED BY <1>2, <1>3, <2>2
<1>. QED BY <1>4

\* The n-th -bak name of a docroot.
BakName(root, n) == Front(root) \o <<<<Last(root)[1], n>>>>

\* A -bak name differs from its docroot's in the number of the last word.
LEMMA BakNames ==
    ASSUME NEW root \in Paths, root # <<>>, NEW n \in Nat
    PROVE  /\ BakName(root, n) \in Paths /\ Len(BakName(root, n)) = Len(root) /\ Len(root) \in Nat \ {0}
           /\ \A k \in 1..Len(root) - 1 : BakName(root, n)[k] = root[k]
           /\ BakName(root, n)[Len(root)] = <<root[Len(root)][1], n>>
<1>. DEFINE f == SubSeq(root, 1, Len(root) - 1)
            l == <<root[Len(root)][1], n>>
<1>1. /\ root \in Seq(Words \X Nat) /\ Len(root) \in Nat \ {0}
      /\ \A k \in 1..Len(root) : root[k] \in Words \X Nat
  BY EmptySeq DEF Paths
<1>2. /\ f \in Seq(Words \X Nat) /\ Len(f) = Len(root) - 1
      /\ \A k \in 1..Len(root) - 1 : f[k] = root[k]
  <2>1. Len(root) - 1 \in Int /\ 1 \in Int /\ \A k \in 1..Len(root) - 1 : root[k] \in Words \X Nat
    BY <1>1
  <2>2. f \in Seq(Words \X Nat)
    BY <2>1, SubSeqProperties
  <2>3. Len(f) = Len(root) - 1
    <3>1. CASE Len(root) = 1
      BY <1>1, <3>1
    <3>2. CASE Len(root) >= 2
      BY <1>1, <3>2
    <3>3. \A x \in Nat \ {0} : x = 1 \/ x >= 2
      OBVIOUS
    <3>. QED BY <1>1, <3>1, <3>2, <3>3, Zenon
  <2>4. ASSUME NEW k \in 1..Len(root) - 1 PROVE f[k] = root[k]
    <3>1. k \in 1..((Len(root) - 1) - 1 + 1) /\ 1 + k - 1 = k
      BY <1>1
    <3>. QED BY <1>1, <3>1
  <2>. QED BY <2>2, <2>3, <2>4
<1>3. l \in Words \X Nat
  BY <1>1
<1>. HIDE DEF f, l
<1>4. <<l>> \in Seq(Words \X Nat) /\ Len(<<l>>) = 1 /\ <<l>>[1] = l
  BY <1>3
<1>5. /\ f \o <<l>> \in Seq(Words \X Nat) /\ Len(f \o <<l>>) = Len(root)
      /\ \A k \in 1..Len(root) : (f \o <<l>>)[k] = IF k <= Len(root) - 1 THEN f[k] ELSE <<l>>[k - (Len(root) - 1)]
  BY <1>1, <1>2, <1>4, ConcatProperties
<1>6. BakName(root, n) = f \o <<l>>
  BY DEF BakName, Front, Last, f, l
<1>7. \A k \in 1..Len(root) - 1 : (f \o <<l>>)[k] = root[k]
  BY <1>1, <1>2, <1>5
<1>8. (f \o <<l>>)[Len(root)] = l
  BY <1>1, <1>4, <1>5
<1>. QED BY <1>1, <1>5, <1>6, <1>7, <1>8 DEF Paths, l

\* The name that backupDest takes is free: among one name more than there are
\* files, links and directories there is a free one, and so a first one.
LEMMA BakIsFree ==
    ASSUME DOMAIN live \subseteq Paths, IsFiniteSet(DOMAIN live), NEW root \in Paths, root # <<>>
    PROVE  \E n \in Nat \ {0} : BakOf(root) = BakName(root, n) /\ ~Exists(BakName(root, n), live)
<1>. DEFINE N == Cardinality(DOMAIN live)
            I == 1..N + 1
            free == {n \in I : ~Exists(BakName(root, n), live)}
            f == [n \in I |-> CHOOSE p \in DOMAIN live : IsPrefix(BakName(root, n), p)]
<1>1. N \in Nat
  BY FS_CardinalityType
<1>2. IsFiniteSet(I) /\ Cardinality(I) = N + 1
  BY <1>1, FS_Interval
<1>3. free # {}
  <2>. SUFFICES ASSUME free = {} PROVE FALSE
    OBVIOUS
  <2>1. \A n \in I : f[n] \in DOMAIN live /\ IsPrefix(BakName(root, n), f[n])
    BY DEF Exists
  <2>2. f \in [I -> DOMAIN live]
    BY <2>1
  <2>. HIDE DEF f, I, N, free
  <2>3. \E x, y \in I : x # y /\ f[x] = f[y]
    <3>1. N < Cardinality(I)
      BY <1>1, <1>2
    <3>. QED BY <1>2, <2>2, <3>1, FS_PigeonHole DEF N
  <2>4. PICK x \in I, y \in I : x # y /\ f[x] = f[y]
    BY <2>3
  <2>5. x \in Nat /\ y \in Nat
    BY <1>1 DEF I
  <2>6. /\ BakName(root, x) \in Paths /\ Len(BakName(root, x)) = Len(root)
        /\ BakName(root, x)[Len(root)] = <<root[Len(root)][1], x>>
        /\ BakName(root, y) \in Paths /\ Len(BakName(root, y)) = Len(root)
        /\ BakName(root, y)[Len(root)] = <<root[Len(root)][1], y>> /\ Len(root) \in Nat \ {0}
    BY <2>5, BakNames
  <2>7. f[x] \in Paths /\ f[x][Len(root)] = BakName(root, x)[Len(root)]
        /\ f[x][Len(root)] = BakName(root, y)[Len(root)]
    BY <2>1, <2>4, <2>6, PrefixIs
  <2>. QED BY <2>4, <2>6, <2>7
<1>4. free \in SUBSET Nat
  OBVIOUS
<1>5. PICK m \in free : \A k \in free : m <= k
  BY <1>3, <1>4, LeastNumber
<1>. DEFINE first == CHOOSE n \in free : \A k \in free : n <= k
<1>6. BakOf(root) = BakName(root, first)
  BY DEF BakOf, BakName
<1>7. first \in free
  BY <1>5
<1>8. \A n \in free : n \in Nat \ {0} /\ ~Exists(BakName(root, n), live)
  OBVIOUS
<1>. HIDE DEF first, free
<1>. QED BY <1>6, <1>7, <1>8

\* No docroot of the plan bears the name of a -bak directory.
PlainTargets ==
    \A s \in WebStarts : \A i \in DOMAIN s.items : \A k \in DOMAIN s.items[i].to : s.items[i].to[k][2] = 0
Plain(p) == \A k \in 1..Len(p) : p[k][2] = 0

To(i) == start.items[i].to

\* What is copied has a docroot on the destination.
LEMMA TargetIs ==
    ASSUME WebTyped, PlainTargets, NEW i \in Actionable
    PROVE  To(i) \in Paths /\ To(i) # <<>> /\ Plain(To(i)) /\ i \in DOMAIN start.items
<1>1. i \in DOMAIN start.items /\ To(i) \in Paths
  BY ItemsAre DEF To
<1>2. To(i) # <<>>
  BY DEF Actionable, NoTarget, To
<1>3. \A k \in DOMAIN To(i) : To(i)[k][2] = 0
  BY <1>1 DEF PlainTargets, To, WebTyped
<1>4. DOMAIN To(i) = 1..Len(To(i))
  BY <1>1 DEF Paths
<1>. QED BY <1>1, <1>2, <1>3, <1>4 DEF Plain

\* A strict prefix is shorter.
LEMMA StrictIs ==
    ASSUME NEW s \in Paths, NEW t \in Paths
    PROVE  IsStrictPrefix(s, t) <=> Len(s) < Len(t) /\ \A i \in 1..Len(s) : s[i] = t[i]
<1>1. s \in Seq(Words \X Nat) /\ t \in Seq(Words \X Nat) /\ Len(s) \in Nat /\ Len(t) \in Nat
  BY DEF Paths
<1>2. (\A i \in 1..Len(s) : s[i] = t[i]) /\ Len(s) = Len(t) => s = t
  BY <1>1, SeqEqual
<1>3. s = t => Len(s) = Len(t)
  OBVIOUS
<1>4. Len(s) < Len(t) <=> Len(s) <= Len(t) /\ Len(s) # Len(t)
  BY <1>1
<1>. QED BY <1>2, <1>3, <1>4, PrefixIs, Zenon DEF IsStrictPrefix

\* The names of a path inside a directory.
LEMMA RelIs ==
    ASSUME NEW root \in Paths, NEW p \in Paths, Len(root) <= Len(p)
    PROVE  /\ Rel(root, p) \in Paths /\ Len(Rel(root, p)) = Len(p) - Len(root)
           /\ \A i \in 1..Len(Rel(root, p)) : Rel(root, p)[i] = p[Len(root) + i]
<1>. DEFINE r == SubSeq(p, Len(root) + 1, Len(p))
<1>1. p \in Seq(Words \X Nat) /\ Len(root) \in Nat /\ Len(p) \in Nat
  BY DEF Paths
<1>2. r \in Seq(Words \X Nat) /\ Len(r) = Len(p) - Len(root) /\ \A i \in 1..Len(r) : r[i] = p[Len(root) + i]
  BY <1>1
<1>. QED BY <1>2 DEF Rel, Paths

\* A path under one directory, and the same path under another of its length.
LEMMA Rebased ==
    ASSUME NEW b \in Paths, NEW root \in Paths, NEW q \in Paths, Len(b) = Len(root), IsPrefix(root, q)
    PROVE  /\ b \o Rel(root, q) \in Paths /\ Len(b \o Rel(root, q)) = Len(q)
           /\ \A k \in 1..Len(root) : (b \o Rel(root, q))[k] = b[k]
           /\ \A k \in Len(root) + 1..Len(q) : (b \o Rel(root, q))[k] = q[k]
           /\ Rel(b, b \o Rel(root, q)) = Rel(root, q) /\ root \o Rel(b, b \o Rel(root, q)) = q
<1>. DEFINE r == SubSeq(q, Len(root) + 1, Len(q))
            w == b \o r
<1>1. Len(root) <= Len(q) /\ \A i \in 1..Len(root) : root[i] = q[i]
  BY PrefixIs
<1>2. /\ b \in Seq(Words \X Nat) /\ q \in Seq(Words \X Nat) /\ Len(root) \in Nat /\ Len(q) \in Nat
      /\ Len(b) \in Nat
  BY DEF Paths
<1>3. r \in Seq(Words \X Nat) /\ Len(r) = Len(q) - Len(root) /\ \A i \in 1..Len(r) : r[i] = q[Len(root) + i]
  BY <1>1, <1>2
<1>4. Rel(root, q) = r
  BY DEF Rel
<1>. HIDE DEF r
<1>5. /\ w \in Seq(Words \X Nat) /\ Len(w) = Len(b) + Len(r)
      /\ \A i \in 1..Len(b) + Len(r) : w[i] = IF i <= Len(b) THEN b[i] ELSE r[i - Len(b)]
  BY <1>2, <1>3, ConcatProperties
<1>. HIDE DEF w
<1>6. Len(w) = Len(q)
  BY <1>2, <1>3, <1>5
<1>7. ASSUME NEW k \in 1..Len(root) PROVE w[k] = b[k]
  <2>1. k \in 1..Len(b) + Len(r) /\ k <= Len(b)
    BY <1>1, <1>2, <1>3
  <2>. QED BY <1>5, <2>1
<1>8. ASSUME NEW k \in Len(root) + 1..Len(q) PROVE w[k] = q[k]
  <2>. DEFINE j == k - Len(root)
  <2>1. j \in 1..Len(r) /\ Len(root) + j = k /\ k \in 1..Len(b) + Len(r) /\ ~(k <= Len(b))
    BY <1>2, <1>3
  <2>2. w[k] = r[j]
    BY <1>5, <2>1
  <2>. HIDE DEF j
  <2>3. r[j] = q[Len(root) + j]
    BY <1>3, <2>1
  <2>. QED BY <2>1, <2>2, <2>3
<1>9. Rel(b, w) = r
  <2>. DEFINE v == SubSeq(w, Len(b) + 1, Len(w))
  <2>1. v \in Seq(Words \X Nat) /\ Len(v) = Len(w) - Len(b) /\ \A i \in 1..Len(v) : v[i] = w[Len(b) + i]
    <3>1. w \in Seq(Words \X Nat) /\ Len(w) \in Nat /\ Len(b) \in Nat /\ Len(b) <= Len(w)
      BY <1>1, <1>2, <1>5, <1>6
    <3>. QED BY <3>1
  <2>. HIDE DEF v
  <2>2. Len(v) = Len(r)
    BY <1>2, <1>3, <1>5, <2>1
  <2>3. ASSUME NEW i \in 1..Len(v) PROVE v[i] = r[i]
    <3>1. Len(root) + i \in Len(root) + 1..Len(q)
      BY <1>2, <1>3, <2>2
    <3>. QED BY <1>3, <1>8, <2>1, <2>2, <2>3, <3>1
  <2>4. v = r
    BY <1>3, <2>1, <2>2, <2>3, SeqEqual
  <2>. QED BY <2>4 DEF Rel, v
<1>10. root \o r = q
  BY <1>4, RelBack
<1>. QED BY <1>4, <1>5, <1>6, <1>7, <1>8, <1>9, <1>10 DEF Paths, w

\* Where a path carries the plain name of a docroot, nothing around it has
\* been renamed.
LEMMA PlainStays ==
    ASSUME WebTyped, PlainTargets, NEW p \in Paths, NEW q \in Paths, Relocated(p, q),
           NEW root \in Paths, Plain(root), IsPrefix(root, q)
    PROVE  /\ IsPrefix(root, p) /\ SubSeq(p, 1, Len(root)) = root
           /\ \A k \in 1..Len(root) : p[k] = q[k]
<1>1. /\ p \in Seq(Words \X Nat) /\ q \in Seq(Words \X Nat) /\ root \in Seq(Words \X Nat)
      /\ Len(p) \in Nat /\ Len(root) \in Nat /\ Len(q) = Len(p) /\ DOMAIN p = 1..Len(p)
  BY DEF Paths, Relocated
<1>2. Len(root) <= Len(p) /\ \A k \in 1..Len(root) : root[k] = q[k]
  BY <1>1, PrefixIs
<1>3. ASSUME NEW k \in 1..Len(root) PROVE p[k] = q[k]
  <2>1. k \in DOMAIN p /\ k \in 1..Len(p) /\ k \in 1..Len(q)
    BY <1>1, <1>2
  <2>0. p[k] \in Words \X Nat /\ q[k] \in Words \X Nat /\ q[k][2] = 0
    BY <1>1, <1>2, <2>1 DEF Plain
  <2>2. CASE q[k][1] = p[k][1] /\ Bared(SubSeq(p, 1, k))
    <3>1. PICK j \in Actionable : To(j) = SubSeq(p, 1, k)
      BY <2>2 DEF Bared, To
    <3>2. Len(SubSeq(p, 1, k)) = k /\ SubSeq(p, 1, k)[k] = p[k]
      <4>1. k \in Nat /\ 1 <= k /\ k <= Len(p)
        BY <1>1, <2>1
      <4>. QED BY <1>1, <4>1
    <3>3. p[k][2] = 0
      <4>1. k \in 1..Len(To(j))
        BY <2>1, <3>1, <3>2
      <4>. QED BY <3>1, <3>2, <4>1, TargetIs DEF Plain
    <3>. QED BY <2>0, <2>2, <3>3
  <2>. QED BY <2>1, <2>2 DEF Relocated
<1>4. SubSeq(p, 1, Len(root)) = root
  <2>1. SubSeq(p, 1, Len(root)) = [k \in 1..Len(root) |-> p[k]]
    BY <1>1, <1>2
  <2>2. root = [k \in 1..Len(root) |-> root[k]]
    BY <1>1
  <2>. QED BY <1>2, <1>3, <2>1, <2>2
<1>. QED BY <1>1, <1>2, <1>3, <1>4, PrefixIs

\* Put aside once more, a file is still at its relocated path.
LEMMA RelocatedAgain ==
    ASSUME WebTyped, PlainTargets, NEW p \in Paths, NEW q \in Paths, Relocated(p, q),
           NEW i \in Actionable, listed[i] = "bare", IsStrictPrefix(To(i), q), NEW n \in Nat
    PROVE  Relocated(p, BakName(To(i), n) \o Rel(To(i), q))
<1>. DEFINE root == To(i)
            b == BakName(root, n)
            w == b \o Rel(root, q)
<1>1. root \in Paths /\ root # <<>> /\ Plain(root)
  BY TargetIs
<1>2. IsPrefix(root, q)
  BY DEF IsStrictPrefix
<1>3. /\ b \in Paths /\ Len(b) = Len(root) /\ Len(root) \in Nat \ {0}
      /\ \A k \in 1..Len(root) - 1 : b[k] = root[k]
      /\ b[Len(root)] = <<root[Len(root)][1], n>>
  BY <1>1, BakNames
<1>4. SubSeq(p, 1, Len(root)) = root /\ IsPrefix(root, p) /\ \A k \in 1..Len(root) : p[k] = q[k]
  BY <1>1, <1>2, PlainStays
<1>5. \A k \in 1..Len(root) : root[k] = p[k]
  BY <1>1, <1>4, PrefixIs
<1>. HIDE DEF root, b
<1>6. Len(w) = Len(q) /\ (\A k \in 1..Len(root) : w[k] = b[k]) /\ \A k \in Len(root) + 1..Len(q) : w[k] = q[k]
  BY <1>1, <1>2, <1>3, Rebased
<1>7. Len(q) = Len(p) /\ DOMAIN p = 1..Len(p) /\ Len(p) \in Nat
  BY DEF Relocated, Paths
<1>8. Bared(root)
  BY DEF Bared, To, root
<1>9. ASSUME NEW k \in DOMAIN p PROVE w[k] = p[k] \/ (w[k][1] = p[k][1] /\ Bared(SubSeq(p, 1, k)))
  <2>1. CASE k \in Len(root) + 1..Len(q)
    BY <1>6, <2>1 DEF Relocated
  <2>2. CASE k \in 1..Len(root) - 1
    <3>1. k \in 1..Len(root)
      BY <1>3, <2>2
    <3>. QED BY <1>3, <1>5, <1>6, <2>2, <3>1
  <2>3. CASE k = Len(root)
    <3>1. k \in 1..Len(root)
      BY <1>3, <2>3
    <3>2. w[k] = <<root[k][1], n>>
      BY <1>3, <1>6, <2>3, <3>1
    <3>3. w[k][1] = p[k][1]
      BY <1>5, <3>1, <3>2
    <3>. QED BY <1>4, <1>8, <2>3, <3>3
  <2>4. k \in 1..Len(root) - 1 \/ k = Len(root) \/ k \in Len(root) + 1..Len(q)
    BY <1>3, <1>7
  <2>. QED BY <2>1, <2>2, <2>3, <2>4, Zenon
<1>10. Len(w) = Len(p)
  BY <1>6, <1>7
<1>. QED BY <1>9, <1>10 DEF Relocated, root, b

\* What a docroot with files on its source takes may be taken.
LEMMA ReplacedBy ==
    ASSUME WebTyped, PlainTargets, NEW p \in Paths, NEW q \in Paths, Relocated(p, q),
           NEW i \in Actionable, listed[i] = "files", IsStrictPrefix(To(i), q), ~Kept(To(i), q)
    PROVE  Replaced(p)
<1>. DEFINE root == To(i)
            k == Len(root) + 1
<1>1. root \in Paths /\ Plain(root)
  BY TargetIs
<1>2. IsPrefix(root, q) /\ Len(root) < Len(q)
  BY <1>1, StrictIs DEF IsStrictPrefix
<1>3. IsPrefix(root, p) /\ \A j \in 1..Len(root) : p[j] = q[j]
  BY <1>1, <1>2, PlainStays
<1>4. Len(q) = Len(p) /\ DOMAIN p = 1..Len(p) /\ Len(p) \in Nat /\ Len(root) \in Nat
  BY <1>1 DEF Relocated, Paths
<1>5. IsStrictPrefix(root, p)
  <2>1. \A j \in 1..Len(root) : root[j] = p[j]
    BY <1>1, <1>3, PrefixIs
  <2>. QED BY <1>1, <1>2, <1>4, <2>1, StrictIs
<1>6. k \in DOMAIN p
  BY <1>2, <1>4
<1>7. q[k] = p[k] \/ Bared(SubSeq(p, 1, k))
  BY <1>6 DEF Relocated
<1>8. q[k] = p[k] => ~Kept(root, p)
  BY DEF Kept
<1>. QED BY <1>5, <1>7, <1>8 DEF Replaced, To

\* What was listed of the docroots stays on record.
OnRecord ==
    /\ UNCHANGED start /\ Actionable' = Actionable
    /\ \A i \in Actionable : listed[i] \in {"bare", "files"} => listed'[i] = listed[i]

\* With it, what may have become of a file stays so.
LEMMA StillOnRecord ==
    ASSUME OnRecord
    PROVE  /\ \A r : Bared(r) => Bared(r)'
           /\ \A p, q : Relocated(p, q) => Relocated(p, q)'
           /\ \A p : Replaced(p) => Replaced(p)'
           /\ \A p : before'[p] = before[p] /\ WrittenInBared(p) => WrittenInBared(p)'
<1>1. \A r : Bared(r) => Bared(r)'
  BY DEF OnRecord, Bared
<1>2. \A p, q : Relocated(p, q) => Relocated(p, q)'
  BY <1>1 DEF Relocated
<1>3. ASSUME NEW p, Replaced(p) PROVE Replaced(p)'
  <2>1. PICK i \in Actionable : /\ listed[i] = "files" /\ IsStrictPrefix(start.items[i].to, p)
                                /\ ~Kept(start.items[i].to, p) \/ Bared(SubSeq(p, 1, Len(start.items[i].to) + 1))
    BY <1>3 DEF Replaced
  <2>2. i \in Actionable' /\ listed'[i] = "files" /\ start' = start
    BY <2>1 DEF OnRecord
  <2>3. Kept(start.items[i].to, p)' <=> Kept(start.items[i].to, p)
    BY <2>2 DEF Kept
  <2>. QED BY <1>1, <2>1, <2>2, <2>3 DEF Replaced
<1>4. ASSUME NEW p, before'[p] = before[p], WrittenInBared(p) PROVE WrittenInBared(p)'
  <2>1. PICK i \in Actionable : Bared(start.items[i].to) /\ IsStrictPrefix(start.items[i].to, p)
    BY <1>4 DEF WrittenInBared
  <2>2. i \in Actionable' /\ start' = start /\ Bared(start.items[i].to)'
    BY <1>1, <2>1 DEF OnRecord
  <2>. QED BY <1>4, <2>1, <2>2 DEF WrittenInBared
<1>. QED BY <1>1, <1>2, <1>3, <1>4

-----------------------------------------------------------------------------
(* What the web flow may take: the invariant                               *)

\* Names inside a docroot that is not in one of its system entries.
Rels == {r \in Paths : r # <<>> /\ r[1] \notin System}

\* What was listed: nothing of the docroots that are still to come, and of the
\* one at work what its step requires.
Booked ==
    /\ listed \in [DOMAIN start.items -> {"no", "bare", "files"}]
    /\ pc \in DomainSteps \cup {"gate", "docroot"} => \A i \in DOMAIN start.items : i >= at => listed[i] = "no"
    /\ pc \in CopySteps => \A i \in DOMAIN start.items : i > at => listed[i] = "no"
    /\ pc = "aside" => at \in Actionable /\ listed[at] = "bare"
    /\ pc = "wipe" => at \in Actionable /\ listed[at] = "files"
    /\ pc = "send" => at \in Actionable /\ listed[at] \in {"bare", "files"}
    /\ unsent \subseteq Rels /\ parcel \subseteq Rels

FiniteTrees ==
    /\ DOMAIN live \subseteq Paths /\ DOMAIN before \subseteq Paths
    /\ IsFiniteSet(DOMAIN site) /\ IsFiniteSet(DOMAIN live) /\ IsFiniteSet(unsent) /\ IsFiniteSet(parcel)

\* An owner's file is never forgotten, and his later bodies are one body.
Remembered == \A p \in DOMAIN start.live : start.live[p] = "v2" => p \in DOMAIN before /\ before[p] = "v2"

\* While directories are sent to a docroot whose content was put aside, nothing
\* that counts lies in their way.
Away(q) == pc = "send" /\ listed[at] = "bare" => ~(IsStrictPrefix(To(at), q) /\ ~Kept(To(at), q))

AccountedFor(p) ==
    \/ \E q \in DOMAIN live : live[q] = before[p] /\ Relocated(p, q) /\ Away(q)
    \/ Replaced(p)
    \/ WrittenInBared(p)

OwnFiles == {p \in DOMAIN before : before[p] # "dir"}

Accounted == \A p \in OwnFiles : AccountedFor(p)

KeptInv == Booked /\ FiniteTrees /\ Remembered /\ Accounted

\* The next docroot, or the verification.
LEMMA NextDocrootBooks ==
    ASSUME WebTyped, Booked, pc \in {"docroot", "aside", "wipe", "send"}, NEW fails, NextDocroot(fails),
           UNCHANGED <<start, listed>>
    PROVE  Booked'
<1>1. /\ unsent' = {} /\ parcel' = {}
      /\ IF at < Len(start.items) THEN at' = at + 1 /\ pc' = "docroot" ELSE at' = 1 /\ pc' = "manifest"
  BY DEF NextDocroot
<1>2. pc \in CopySteps /\ DOMAIN start.items \subseteq Nat /\ at \in Nat
  BY ItemsAre DEF CopySteps, WebTyped
<1>3. \A i \in DOMAIN start.items : i > at => listed[i] = "no"
  BY <1>2 DEF Booked
<1>4. pc' = "docroot" => \A i \in DOMAIN start.items : i >= at' => listed[i] = "no"
  BY <1>1, <1>2, <1>3
<1>. QED BY <1>1, <1>2, <1>4 DEF Booked, CopySteps, DomainSteps

\* The steps of the copy keep the books.
LEMMA CopyBooks ==
    ASSUME WebTyped, Booked,
           Preflight \/ PassOver \/ ListDocroot \/ PutAside \/ EmptyDest \/ NextParcel \/ SendParcel \/ ParcelFails
    PROVE  Booked' /\ OnRecord
<1>1. UNCHANGED start /\ UNCHANGED domainVars
  BY DEF Preflight, PassOver, ListDocroot, PutAside, EmptyDest, NextParcel, SendParcel, ParcelFails
<1>2. Actionable' = Actionable
  BY <1>1, StillActionable DEF domainVars
<1>3. DOMAIN start.items \subseteq Nat /\ at \in DOMAIN start.items
  BY ItemsAre DEF WebTyped
<1>4. CASE Preflight
  <2>1. pc = "gate" /\ pc' \in {"manifest", "docroot"} /\ UNCHANGED <<listed, at, unsent, parcel>>
    BY <1>4 DEF Preflight, Parcels
  <2>2. Booked'
    BY <1>1, <2>1 DEF Booked, DomainSteps, CopySteps
  <2>. QED BY <1>1, <1>2, <2>1, <2>2 DEF OnRecord
<1>5. CASE PassOver
  <2>1. pc = "docroot" /\ UNCHANGED listed /\ \E fails : NextDocroot(fails)
    BY <1>5 DEF PassOver
  <2>. QED BY <1>1, <1>2, <2>1, NextDocrootBooks DEF OnRecord
<1>6. CASE ListDocroot
  <2>1. pc = "docroot" /\ at \in Actionable /\ at \in DOMAIN start.items
    BY <1>3, <1>6 DEF ListDocroot
  <2>2. CASE UNCHANGED listed /\ NextDocroot(TRUE)
    BY <1>1, <1>2, <2>1, <2>2, NextDocrootBooks DEF OnRecord
  <2>3. CASE ~(UNCHANGED listed /\ NextDocroot(TRUE))
    <3>. DEFINE v == View(Item.from, site)
                sent == {r \in DOMAIN v : Safe(r)}
    <3>1. /\ unsent' = sent /\ pc' = Prepare(Only(v, sent)) /\ UNCHANGED <<at, parcel>>
          /\ listed' = [listed EXCEPT ![at] = IF Regular(Only(v, sent)) = {} THEN "bare" ELSE "files"]
      BY <1>6, <2>3 DEF ListDocroot
    <3>2. \/ pc' = "aside" /\ listed' = [listed EXCEPT ![at] = "bare"]
          \/ pc' = "wipe" /\ listed' = [listed EXCEPT ![at] = "files"]
      BY <3>1 DEF Prepare
    <3>3. sent \subseteq Rels
      <4>1. ASSUME NEW r \in DOMAIN v PROVE r \in Rels
        <5>1. PICK p \in Entries(Item.from, site) : r = Rel(Item.from, p)
          BY <4>1 DEF View
        <5>2. p \in Paths /\ IsStrictPrefix(Item.from, p) /\ ~Kept(Item.from, p)
          BY <5>1 DEF Entries, Under, WebTyped
        <5>7. Item.from \in Paths
          BY <2>1, ItemsAre DEF Item
        <5>3. Len(Item.from) < Len(p) /\ Len(p) \in Nat /\ Len(Item.from) \in Nat /\ p \in Seq(Words \X Nat)
          <6>1. Len(Item.from) < Len(p)
            BY <5>2, <5>7, StrictIs
          <6>. QED BY <5>2, <5>7, <6>1 DEF Paths
        <5>8. Len(Item.from) <= Len(p)
          BY <5>3
        <5>4. r \in Paths /\ Len(r) = Len(p) - Len(Item.from) /\ \A i \in 1..Len(r) : r[i] = p[Len(Item.from) + i]
          BY <5>1, <5>2, <5>7, <5>8, RelIs
        <5>5. Len(r) # 0 /\ r[1] = p[Len(Item.from) + 1]
          BY <5>3, <5>4
        <5>6. r # <<>>
          BY <5>5, EmptySeq
        <5>. QED BY <5>2, <5>4, <5>5, <5>6 DEF Rels, Kept
      <4>. QED BY <4>1
    <3>. HIDE DEF sent, v
    <3>4. /\ \A i \in DOMAIN start.items : i >= at => listed[i] = "no"
          /\ listed \in [DOMAIN start.items -> {"no", "bare", "files"}] /\ parcel \subseteq Rels
      BY <2>1 DEF Booked
    <3>5. listed' \in [DOMAIN start.items -> {"no", "bare", "files"}]
          /\ (\A i \in DOMAIN start.items : i # at => listed'[i] = listed[i])
          /\ listed'[at] = IF pc' = "aside" THEN "bare" ELSE "files"
      BY <2>1, <3>2, <3>4
    <3>6. \A i \in DOMAIN start.items : i > at => listed'[i] = "no"
      BY <1>3, <3>4, <3>5
    <3>7. OnRecord
      <4>1. \A i \in Actionable : i \in DOMAIN start.items
        BY ItemsAre
      <4>2. listed[at] = "no"
        BY <1>3, <2>1, <3>4
      <4>. QED BY <1>1, <1>2, <3>5, <4>1, <4>2 DEF OnRecord
    <3>8. Booked'
      BY <1>1, <1>2, <2>1, <3>1, <3>2, <3>3, <3>4, <3>5, <3>6 DEF Booked, DomainSteps, CopySteps
    <3>. QED BY <3>7, <3>8
  <2>. QED BY <2>2, <2>3, Zenon
<1>7. CASE PutAside \/ EmptyDest
  <2>1. pc \in {"aside", "wipe"} /\ UNCHANGED listed /\ (Sending \/ \E fails : NextDocroot(fails))
    BY <1>7 DEF PutAside, EmptyDest
  <2>2. CASE \E fails : NextDocroot(fails)
    BY <1>1, <1>2, <2>1, <2>2, NextDocrootBooks DEF OnRecord
  <2>3. CASE pc' = "send" /\ UNCHANGED <<at, Parcels>>
    <3>1. Booked'
      BY <1>1, <1>2, <2>1, <2>3 DEF Booked, DomainSteps, CopySteps, Parcels
    <3>. QED BY <1>1, <1>2, <2>1, <3>1 DEF OnRecord
  <2>4. Sending => (\E fails : NextDocroot(fails)) \/ (pc' = "send" /\ UNCHANGED <<at, Parcels>>)
    BY DEF Sending
  <2>. QED BY <2>1, <2>2, <2>3, <2>4, Zenon
<1>8. CASE NextParcel
  <2>1. pc = "send" /\ UNCHANGED <<listed, at, pc>> /\ parcel' \subseteq unsent /\ unsent' \subseteq unsent
    BY <1>8 DEF NextParcel
  <2>2. Booked'
    BY <1>1, <1>2, <2>1 DEF Booked, DomainSteps, CopySteps
  <2>. QED BY <1>1, <1>2, <2>1, <2>2 DEF OnRecord
<1>9. CASE SendParcel \/ ParcelFails
  <2>1. /\ pc = "send" /\ UNCHANGED listed
        /\ \/ \E fails : NextDocroot(fails)
           \/ UNCHANGED <<pc, at, unsent>> /\ parcel' \in {{}, parcel}
    BY <1>9 DEF SendParcel, ParcelFails
  <2>2. CASE \E fails : NextDocroot(fails)
    BY <1>1, <1>2, <2>1, <2>2, NextDocrootBooks DEF OnRecord
  <2>3. CASE UNCHANGED <<pc, at, unsent>> /\ parcel' \in {{}, parcel}
    <3>1. Booked'
      BY <1>1, <1>2, <2>1, <2>3 DEF Booked, DomainSteps, CopySteps
    <3>. QED BY <1>1, <1>2, <2>1, <3>1 DEF OnRecord
  <2>. QED BY <2>1, <2>2, <2>3
<1>. QED BY <1>4, <1>5, <1>6, <1>7, <1>8, <1>9

-----------------------------------------------------------------------------
(* What the web flow may take: trees                                       *)

\* Writing into a tree keeps the files that are not written.
LEMMA OverlayIs ==
    ASSUME NEW t, NEW new
    PROVE  /\ DOMAIN Overlay(t, new) \subseteq DOMAIN new \cup DOMAIN t
           /\ \A q \in DOMAIN t : q \notin DOMAIN new /\ t[q] # "dir"
                => q \in DOMAIN Overlay(t, new) /\ Overlay(t, new)[q] = t[q]
           /\ \A q \in DOMAIN new : new[q] # "dir" => q \in DOMAIN Overlay(t, new) /\ Overlay(t, new)[q] = new[q]
           /\ \A q \in DOMAIN Overlay(t, new) : q \notin DOMAIN new => Overlay(t, new)[q] = t[q]
<1>. DEFINE f == [p \in DOMAIN new \cup DOMAIN t |-> IF p \in DOMAIN new THEN new[p] ELSE t[p]]
            D == {p \in DOMAIN f : f[p] = "dir" => Under(p, f) = {}}
<1>1. Overlay(t, new) = [p \in D |-> f[p]]
  BY DEF Overlay, Normal, Only
<1>2. D \subseteq DOMAIN new \cup DOMAIN t
  OBVIOUS
<1>3. \A p \in DOMAIN new \cup DOMAIN t : f[p] # "dir" => p \in D
  OBVIOUS
<1>4. \A p \in DOMAIN new \cup DOMAIN t : f[p] = IF p \in DOMAIN new THEN new[p] ELSE t[p]
  OBVIOUS
<1>. HIDE DEF D, f
<1>. QED BY <1>1, <1>2, <1>3, <1>4

\* One leaf more.
LEMMA LeafIs == ASSUME NEW p, NEW x PROVE DOMAIN Leaf(p, x) = {p} /\ Leaf(p, x)[p] = x
  BY DEF Leaf

\* Making a directory takes no file.
LEMMA MkdirIs ==
    ASSUME NEW t, NEW root \in Paths
    PROVE  /\ DOMAIN Mkdir(root, t) \subseteq {root} \cup DOMAIN t
           /\ \A q \in DOMAIN t : t[q] # "dir" => q \in DOMAIN Mkdir(root, t) /\ Mkdir(root, t)[q] = t[q]
<1>1. IsPrefix(root, root)
  <2>1. Len(root) \in Nat
    BY DEF Paths
  <2>. QED BY <2>1, PrefixIs
<1>2. ~Exists(root, t) => root \notin DOMAIN t
  BY <1>1 DEF Exists
<1>3. CASE Exists(root, t)
  BY <1>3 DEF Mkdir
<1>4. CASE ~Exists(root, t)
  <2>1. Mkdir(root, t) = Overlay(t, Leaf(root, "dir"))
    BY <1>4 DEF Mkdir
  <2>. DEFINE leaf == Leaf(root, "dir")
  <2>2. DOMAIN leaf = {root}
    BY LeafIs
  <2>. HIDE DEF leaf
  <2>3. /\ DOMAIN Overlay(t, leaf) \subseteq DOMAIN leaf \cup DOMAIN t
        /\ \A q \in DOMAIN t : q \notin DOMAIN leaf /\ t[q] # "dir"
             => q \in DOMAIN Overlay(t, leaf) /\ Overlay(t, leaf)[q] = t[q]
    BY OverlayIs
  <2>. QED BY <1>2, <1>4, <2>1, <2>2, <2>3 DEF leaf
<1>. QED BY <1>3, <1>4

\* Removing paths takes no other file.
LEMMA WithoutIs ==
    ASSUME NEW t, NEW ps, NEW root \in Paths
    PROVE  /\ DOMAIN Without(t, ps, root) \subseteq {root} \cup DOMAIN t
           /\ \A q \in DOMAIN t \ ps : t[q] # "dir" => q \in DOMAIN Without(t, ps, root) /\ Without(t, ps, root)[q] = t[q]
<1>. DEFINE u == Only(t, DOMAIN t \ ps)
<1>1. DOMAIN u = DOMAIN t \ ps /\ \A q \in DOMAIN t \ ps : u[q] = t[q]
  BY DEF Only
<1>. HIDE DEF u
<1>2. Without(t, ps, root) = Mkdir(root, u)
  BY DEF Without, u
<1>. QED BY <1>1, <1>2, MkdirIs

\* The image of a finite set is finite.
LEMMA ImageFinite ==
    ASSUME NEW S, IsFiniteSet(S), NEW f, DOMAIN f = S
    PROVE  IsFiniteSet({f[x] : x \in S})
<1>. DEFINE T == {f[x] : x \in S}
            g == [x \in S |-> f[x]]
<1>1. g \in [S -> T] /\ \A y \in T : \E x \in S : g[x] = y
  OBVIOUS
<1>. HIDE DEF T, g
<1>2. g \in Surjection(S, T)
  BY <1>1 DEF Surjection
<1>3. IsFiniteSet(T)
  BY <1>2, FS_Surjection
<1>. QED BY <1>3 DEF T

\* A tree with a path more is finite.
LEMMA OneMore ==
    ASSUME NEW S, IsFiniteSet(S), NEW x, NEW T, T \subseteq {x} \cup S
    PROVE  IsFiniteSet(T)
<1>1. IsFiniteSet(S \cup {x})
  BY FS_AddElement
<1>2. T \in SUBSET (S \cup {x})
  OBVIOUS
<1>. QED BY <1>1, <1>2, FS_Subset

\* What a listing shows is finite.
LEMMA ViewFinite ==
    ASSUME NEW t, IsFiniteSet(DOMAIN t), NEW root
    PROVE  IsFiniteSet(DOMAIN View(root, t))
<1>. DEFINE E == Entries(root, t)
            f == [p \in E |-> Rel(root, p)]
<1>1. IsFiniteSet(E)
  <2>1. E \subseteq DOMAIN t
    BY DEF Entries, Under
  <2>. QED BY <2>1, FS_Subset
<1>2. DOMAIN f = E /\ {f[p] : p \in E} = {Rel(root, p) : p \in E}
  OBVIOUS
<1>3. IsFiniteSet({f[p] : p \in E})
  <2>. HIDE DEF f, E
  <2>. QED BY <1>1, <1>2, ImageFinite
<1>4. DOMAIN View(root, t) = {Rel(root, p) : p \in E}
  BY DEF View
<1>. QED BY <1>2, <1>3, <1>4

\* What an extraction writes is finite, and inside the docroot.
LEMMA ExtractedIs ==
    ASSUME NEW rs \in SUBSET Rels, NEW torn \in SUBSET Rels, IsFiniteSet(rs \cup torn),
           Item.to \in Paths, IsFiniteSet(DOMAIN live), DOMAIN live \subseteq Paths
    PROVE  /\ DOMAIN Extracted(rs, torn) \subseteq Paths /\ IsFiniteSet(DOMAIN Extracted(rs, torn))
           /\ \A q \in DOMAIN live : live[q] # "dir" =>
                 \/ q \in DOMAIN Extracted(rs, torn) /\ Extracted(rs, torn)[q] = live[q]
                 \/ IsStrictPrefix(Item.to, q) /\ ~Kept(Item.to, q)
<1>. DEFINE to == Item.to
            S == rs \cup torn
            new == [p \in {to \o r : r \in S} |->
                      IF Rel(to, p) \in torn THEN "torn" ELSE EntryOf(Rel(to, p))]
            base == Mkdir(to, live)
            N == {to \o r : r \in S}
<1>1. Extracted(rs, torn) = Overlay(base, new) /\ DOMAIN new = N
  BY DEF Extracted
<1>2. ASSUME NEW r \in S PROVE to \o r \in Paths /\ IsStrictPrefix(to, to \o r) /\ ~Kept(to, to \o r)
  <2>1. r \in Seq(Words \X Nat) /\ r # <<>> /\ r[1] \notin System /\ to \in Seq(Words \X Nat)
    BY DEF Rels, Paths
  <2>2. Len(r) \in Nat \ {0} /\ Len(to) \in Nat
    BY <2>1, EmptySeq
  <2>3. /\ to \o r \in Seq(Words \X Nat) /\ Len(to \o r) = Len(to) + Len(r)
        /\ \A i \in 1..Len(to) + Len(r) : (to \o r)[i] = IF i <= Len(to) THEN to[i] ELSE r[i - Len(to)]
    BY <2>1, ConcatProperties
  <2>. DEFINE w == to \o r
  <2>. HIDE DEF w
  <2>4. w \in Paths /\ Len(to) < Len(w) /\ \A i \in 1..Len(to) : to[i] = w[i]
    <3>1. w \in Paths /\ Len(to) < Len(w)
      BY <2>2, <2>3 DEF w, Paths
    <3>2. ASSUME NEW i \in 1..Len(to) PROVE to[i] = w[i]
      <4>1. i \in 1..Len(to) + Len(r) /\ i <= Len(to)
        BY <2>2
      <4>. QED BY <2>3, <4>1 DEF w
    <3>. QED BY <3>1, <3>2
  <2>5. w[Len(to) + 1] = r[1]
    <3>1. Len(to) + 1 \in 1..Len(to) + Len(r) /\ ~(Len(to) + 1 <= Len(to)) /\ (Len(to) + 1) - Len(to) = 1
      BY <2>2
    <3>. QED BY <2>3, <3>1 DEF w
  <2>6. IsStrictPrefix(to, w)
    BY <2>4, StrictIs
  <2>7. ~Kept(to, w)
    BY <2>1, <2>5 DEF Kept
  <2>. QED BY <2>4, <2>6, <2>7 DEF w
<1>3. IsFiniteSet(N)
  <2>. DEFINE f == [r \in S |-> to \o r]
  <2>1. DOMAIN f = S /\ {f[r] : r \in S} = N
    OBVIOUS
  <2>. HIDE DEF f, S, N
  <2>2. IsFiniteSet({f[r] : r \in S})
    BY <2>1, ImageFinite DEF S
  <2>. QED BY <2>1, <2>2
<1>4. /\ DOMAIN base \subseteq {to} \cup DOMAIN live
      /\ \A q \in DOMAIN live : live[q] # "dir" => q \in DOMAIN base /\ base[q] = live[q]
  BY MkdirIs
<1>5. \A q \in N : q \in Paths /\ IsStrictPrefix(to, q) /\ ~Kept(to, q)
  BY <1>2
<1>. HIDE DEF new, base, N, S
<1>6. /\ DOMAIN Overlay(base, new) \subseteq N \cup DOMAIN base
      /\ \A q \in DOMAIN base : q \notin N /\ base[q] # "dir"
           => q \in DOMAIN Overlay(base, new) /\ Overlay(base, new)[q] = base[q]
  BY <1>1, OverlayIs
<1>7. IsFiniteSet(DOMAIN Overlay(base, new))
  <2>1. IsFiniteSet(DOMAIN base)
    BY <1>4, OneMore
  <2>2. IsFiniteSet(N \cup DOMAIN base)
    BY <1>3, <2>1, FS_Union
  <2>. QED BY <1>6, <2>2, FS_Subset
<1>8. DOMAIN Overlay(base, new) \subseteq Paths
  BY <1>4, <1>5, <1>6
<1>9. ASSUME NEW q \in DOMAIN live, live[q] # "dir", q \notin N
      PROVE  q \in DOMAIN Overlay(base, new) /\ Overlay(base, new)[q] = live[q]
  BY <1>4, <1>6, <1>9
<1>. QED BY <1>1, <1>5, <1>7, <1>8, <1>9

-----------------------------------------------------------------------------
(* What the web flow may take: its steps                                   *)

\* A step keeps every file accounted for, if it leaves each one where it counts,
\* moves it aside, or replaces it.
LEMMA FilesStay ==
    ASSUME OnRecord, UNCHANGED before, Accounted,
           ASSUME NEW p \in OwnFiles, NEW q \in DOMAIN live, live[q] = before[p], Relocated(p, q), Away(q)
           PROVE  \/ \E w \in DOMAIN live' : live'[w] = before[p] /\ Relocated(p, w) /\ Away(w)'
                  \/ Replaced(p)
    PROVE  Accounted'
<1>1. OwnFiles' = OwnFiles
  BY DEF OwnFiles
<1>2. ASSUME NEW p \in OwnFiles PROVE AccountedFor(p)'
  <2>1. CASE \E q \in DOMAIN live : live[q] = before[p] /\ Relocated(p, q) /\ Away(q)
    <3>1. \/ \E w \in DOMAIN live' : live'[w] = before[p] /\ Relocated(p, w) /\ Away(w)'
          \/ Replaced(p)
      BY <2>1
    <3>. QED BY <3>1, StillOnRecord DEF AccountedFor
  <2>2. CASE Replaced(p) \/ WrittenInBared(p)
    BY <2>2, StillOnRecord DEF AccountedFor
  <2>. QED BY <2>1, <2>2 DEF Accounted, AccountedFor
<1>. QED BY <1>1, <1>2 DEF Accounted

\* Steps of the copy that touch neither site.
LEMMA CalmCopyKept ==
    ASSUME WebTyped, KeptInv, Preflight \/ PassOver \/ ListDocroot \/ NextParcel
    PROVE  KeptInv'
<1>1. Booked' /\ OnRecord
  BY CopyBooks DEF KeptInv
<1>2. UNCHANGED <<start, site, live>> /\ UNCHANGED before
  BY DEF Preflight, PassOver, ListDocroot, NextParcel, webSites
<1>3. pc' # "send" \/ UNCHANGED <<start, pc, at, listed>>
  BY DEF Preflight, PassOver, ListDocroot, NextParcel, NextDocroot, Prepare
<1>4. IsFiniteSet(unsent') /\ IsFiniteSet(parcel')
  <2>0. IsFiniteSet({}) /\ IsFiniteSet(DOMAIN site) /\ IsFiniteSet(unsent) /\ IsFiniteSet(parcel)
    BY FS_EmptySet DEF KeptInv, FiniteTrees
  <2>1. CASE unsent' = {} /\ parcel' = {}
    BY <2>0, <2>1
  <2>2. CASE unsent' \in SUBSET unsent /\ parcel' \in (SUBSET unsent) \cup {parcel}
    BY <2>0, <2>2, FS_Subset
  <2>3. CASE unsent' \in SUBSET (DOMAIN View(Item.from, site)) /\ parcel' = parcel
    BY <2>0, <2>3, ViewFinite, FS_Subset
  <2>4. \/ unsent' = {} /\ parcel' = {}
        \/ unsent' \in SUBSET unsent /\ parcel' \in (SUBSET unsent) \cup {parcel}
        \/ unsent' \in SUBSET (DOMAIN View(Item.from, site)) /\ parcel' = parcel
    <3>1. CASE Preflight \/ PassOver
      BY <3>1 DEF Preflight, PassOver, NextDocroot, Parcels
    <3>2. CASE ListDocroot
      BY <3>2 DEF ListDocroot, NextDocroot
    <3>3. CASE NextParcel
      BY <3>3 DEF NextParcel
    <3>. QED BY <3>1, <3>2, <3>3
  <2>. QED BY <2>1, <2>2, <2>3, <2>4
<1>5. FiniteTrees' /\ Remembered'
  BY <1>2, <1>4 DEF KeptInv, FiniteTrees, Remembered
<1>6. \A q : Away(q) => Away(q)'
  BY <1>2, <1>3 DEF Away, Kept, To
<1>7. ASSUME NEW p \in OwnFiles, NEW q \in DOMAIN live, live[q] = before[p], Relocated(p, q), Away(q)
      PROVE  \/ \E w \in DOMAIN live' : live'[w] = before[p] /\ Relocated(p, w) /\ Away(w)'
             \/ Replaced(p)
  BY <1>2, <1>6, <1>7
<1>8. Accounted'
  BY <1>1, <1>2, <1>7, FilesStay, Zenon DEF KeptInv
<1>. QED BY <1>1, <1>5, <1>8 DEF KeptInv

\* OwnFiles of the destination's owners have paths.
LEMMA FilePaths ==
    ASSUME FiniteTrees
    PROVE  (\A p \in OwnFiles : p \in Paths /\ before[p] # "dir") /\ \A q \in DOMAIN live : q \in Paths
  BY DEF FiniteTrees, OwnFiles

\* Emptying the destination takes what the source replaces.
LEMMA EmptyDestKept ==
    ASSUME WebTyped, PlainTargets, KeptInv, EmptyDest
    PROVE  KeptInv'
<1>. DEFINE to == Item.to
<1>1. Booked' /\ OnRecord
  BY CopyBooks DEF KeptInv
<1>2. /\ UNCHANGED <<start, site, listed>> /\ UNCHANGED before /\ pc = "wipe"
      /\ Sending \/ NextDocroot(TRUE)
      /\ \E gone \in SUBSET Entries(to, live) : live' = Without(live, gone, to)
  BY DEF EmptyDest
<1>3. at \in Actionable /\ listed[at] = "files" /\ to \in Paths /\ to = To(at)
  BY <1>2, TargetIs DEF KeptInv, Booked, Item, To
<1>4. PICK gone \in SUBSET Entries(to, live) : live' = Without(live, gone, to)
  BY <1>2
<1>5. /\ DOMAIN live' \subseteq {to} \cup DOMAIN live
      /\ \A q \in DOMAIN live \ gone : live[q] # "dir" => q \in DOMAIN live' /\ live'[q] = live[q]
  BY <1>3, <1>4, WithoutIs
<1>6. (unsent' = {} /\ parcel' = {}) \/ UNCHANGED <<unsent, parcel>>
  BY <1>2 DEF Sending, NextDocroot, Parcels
<1>7. IsFiniteSet(unsent') /\ IsFiniteSet(parcel')
  BY <1>6, FS_EmptySet DEF KeptInv, FiniteTrees
<1>8. IsFiniteSet(DOMAIN live') /\ DOMAIN live' \subseteq Paths
  BY <1>3, <1>5, OneMore DEF KeptInv, FiniteTrees
<1>9. FiniteTrees' /\ Remembered'
  BY <1>2, <1>7, <1>8 DEF KeptInv, FiniteTrees, Remembered
<1>10. \A q : Away(q)'
  <2>1. pc' = "send" => at' = at
    BY <1>2 DEF Sending, NextDocroot
  <2>. QED BY <1>2, <1>3, <2>1 DEF Away
<1>11. ASSUME NEW p \in OwnFiles, NEW q \in DOMAIN live, live[q] = before[p], Relocated(p, q), Away(q)
       PROVE  \/ \E w \in DOMAIN live' : live'[w] = before[p] /\ Relocated(p, w) /\ Away(w)'
              \/ Replaced(p)
  <2>1. p \in Paths /\ q \in Paths /\ live[q] # "dir"
    BY <1>11, FilePaths DEF KeptInv
  <2>2. CASE q \in gone
    <3>1. IsStrictPrefix(to, q) /\ ~Kept(to, q)
      BY <2>2 DEF Entries, Under
    <3>. QED BY <1>3, <1>11, <2>1, <3>1, ReplacedBy
  <2>3. CASE q \notin gone
    BY <1>5, <1>10, <1>11, <2>1, <2>3
  <2>. QED BY <2>2, <2>3
<1>12. Accounted'
  BY <1>1, <1>2, <1>11, FilesStay, Zenon DEF KeptInv
<1>. QED BY <1>1, <1>9, <1>12 DEF KeptInv

\* A rename takes the paths to a free name, with what they are, and leaves the
\* others.
LEMMA MovedIs ==
    ASSUME FiniteTrees, NEW root \in Paths, root # <<>>, NEW ps \in SUBSET Under(root, live)
    PROVE  /\ DOMAIN Moved(root, ps) \subseteq Paths /\ IsFiniteSet(DOMAIN Moved(root, ps))
           /\ \A q \in DOMAIN live : q \notin ps /\ live[q] # "dir"
                => q \in DOMAIN Moved(root, ps) /\ Moved(root, ps)[q] = live[q]
           /\ \E n \in Nat \ {0} : \A q \in ps : live[q] # "dir" =>
                 LET w == BakName(root, n) \o Rel(root, q) IN
                 w \in DOMAIN Moved(root, ps) /\ Moved(root, ps)[w] = live[q]
<1>1. DOMAIN live \subseteq Paths /\ IsFiniteSet(DOMAIN live)
  BY DEF FiniteTrees
<1>2. PICK n \in Nat \ {0} : BakOf(root) = BakName(root, n) /\ ~Exists(BakName(root, n), live)
  BY <1>1, BakIsFree
<1>. DEFINE b == BakName(root, n)
            N == {b \o Rel(root, p) : p \in ps}
            new == [q \in N |-> live[root \o Rel(b, q)]]
            rest == Only(live, DOMAIN live \ ps)
            moved1 == Overlay(rest, new)
<1>3. Moved(root, ps) = Mkdir(root, moved1)
  BY <1>2 DEF Moved
<1>4. b \in Paths /\ Len(b) = Len(root) /\ Len(root) \in Nat
  BY BakNames
<1>5. ASSUME NEW p \in ps
      PROVE  /\ p \in DOMAIN live /\ p \in Paths /\ b \o Rel(root, p) \in Paths /\ IsPrefix(b, b \o Rel(root, p))
             /\ root \o Rel(b, b \o Rel(root, p)) = p
  <2>1. p \in DOMAIN live /\ p \in Paths /\ IsPrefix(root, p)
    BY <1>1 DEF Under, IsStrictPrefix
  <2>. HIDE DEF b
  <2>. DEFINE w == b \o Rel(root, p)
  <2>2. /\ w \in Paths /\ Len(w) = Len(p) /\ root \o Rel(b, w) = p
        /\ \A k \in 1..Len(root) : w[k] = b[k]
    BY <1>4, <2>1, Rebased
  <2>. HIDE DEF w
  <2>3. Len(root) <= Len(p)
    BY <2>1, PrefixIs
  <2>4. IsPrefix(b, w)
    BY <1>4, <2>2, <2>3, PrefixIs
  <2>. QED BY <2>1, <2>2, <2>4 DEF w
<1>6. \A q \in DOMAIN live : q \notin N
  BY <1>2, <1>5 DEF Exists
<1>7. IsFiniteSet(N)
  <2>. DEFINE f == [p \in ps |-> b \o Rel(root, p)]
  <2>1. DOMAIN f = ps /\ {f[p] : p \in ps} = N
    OBVIOUS
  <2>2. IsFiniteSet(ps)
    <3>1. ps \in SUBSET DOMAIN live
      BY <1>5
    <3>. QED BY <1>1, <3>1, FS_Subset
  <2>. HIDE DEF f, N
  <2>3. IsFiniteSet({f[p] : p \in ps})
    BY <2>1, <2>2, ImageFinite
  <2>. QED BY <2>1, <2>3
<1>8. DOMAIN new = N /\ \A p \in ps : new[b \o Rel(root, p)] = live[p]
  BY <1>5
<1>9. DOMAIN rest = DOMAIN live \ ps /\ \A q \in DOMAIN live \ ps : rest[q] = live[q]
  BY DEF Only
<1>10. N \subseteq Paths
  BY <1>5
<1>11. \A p \in ps : b \o Rel(root, p) \in N
  OBVIOUS
<1>. HIDE DEF N, new, rest, moved1, b
<1>12. /\ DOMAIN moved1 \subseteq DOMAIN new \cup DOMAIN rest
       /\ \A q \in DOMAIN rest : q \notin DOMAIN new /\ rest[q] # "dir" => q \in DOMAIN moved1 /\ moved1[q] = rest[q]
       /\ \A q \in DOMAIN new : new[q] # "dir" => q \in DOMAIN moved1 /\ moved1[q] = new[q]
  BY OverlayIs DEF moved1
<1>13. /\ DOMAIN Mkdir(root, moved1) \subseteq {root} \cup DOMAIN moved1
       /\ \A q \in DOMAIN moved1 : moved1[q] # "dir"
             => q \in DOMAIN Mkdir(root, moved1) /\ Mkdir(root, moved1)[q] = moved1[q]
  BY MkdirIs
<1>14. IsFiniteSet(DOMAIN moved1) /\ DOMAIN moved1 \subseteq Paths
  <2>1. DOMAIN moved1 \in SUBSET (N \cup DOMAIN live)
    BY <1>8, <1>9, <1>12
  <2>2. IsFiniteSet(N \cup DOMAIN live)
    BY <1>1, <1>7, FS_Union
  <2>. QED BY <1>1, <1>10, <2>1, <2>2, FS_Subset
<1>15. IsFiniteSet(DOMAIN Mkdir(root, moved1)) /\ DOMAIN Mkdir(root, moved1) \subseteq Paths
  BY <1>13, <1>14, OneMore
<1>16. ASSUME NEW q \in DOMAIN live, q \notin ps, live[q] # "dir"
       PROVE  q \in DOMAIN Mkdir(root, moved1) /\ Mkdir(root, moved1)[q] = live[q]
  <2>1. q \in DOMAIN rest /\ q \notin DOMAIN new /\ rest[q] = live[q]
    BY <1>6, <1>8, <1>9, <1>16
  <2>2. q \in DOMAIN moved1 /\ moved1[q] = live[q]
    BY <1>12, <1>16, <2>1
  <2>. QED BY <1>13, <1>16, <2>2
<1>17. ASSUME NEW q \in ps, live[q] # "dir"
       PROVE  b \o Rel(root, q) \in DOMAIN Mkdir(root, moved1) /\ Mkdir(root, moved1)[b \o Rel(root, q)] = live[q]
  <2>. DEFINE w == b \o Rel(root, q)
  <2>1. w \in DOMAIN new /\ new[w] = live[q]
    BY <1>8, <1>11
  <2>. HIDE DEF w
  <2>2. w \in DOMAIN moved1 /\ moved1[w] = live[q]
    BY <1>12, <1>17, <2>1
  <2>3. w \in DOMAIN Mkdir(root, moved1) /\ Mkdir(root, moved1)[w] = live[q]
    BY <1>13, <1>17, <2>2
  <2>. QED BY <2>3 DEF w
<1>. QED BY <1>3, <1>15, <1>16, <1>17 DEF b

\* Putting a docroot aside takes no file: its content is under the free name,
\* and out of the way of what is sent.
LEMMA PutAsideKept ==
    ASSUME WebTyped, PlainTargets, KeptInv, PutAside
    PROVE  KeptInv'
<1>. DEFINE root == Item.to
            content == Entries(root, live)
<1>1. Booked' /\ OnRecord
  BY CopyBooks DEF KeptInv
<1>2. /\ UNCHANGED <<start, site, listed>> /\ UNCHANGED before /\ pc = "aside"
      /\ \/ /\ live' = IF content = {} THEN Mkdir(root, live) ELSE Moved(root, content)
            /\ Sending
         \/ NextDocroot(TRUE) /\ live' \in {live, Mkdir(root, live), Moved(root, content), Moved(root, Under(root, live))}
  BY DEF PutAside
<1>3. at \in Actionable /\ listed[at] = "bare" /\ root \in Paths /\ root # <<>> /\ Plain(root) /\ root = To(at)
  BY <1>2, TargetIs DEF KeptInv, Booked, Item, To
<1>4. FiniteTrees
  BY DEF KeptInv
<1>5. (unsent' = {} /\ parcel' = {}) \/ UNCHANGED <<unsent, parcel>>
  BY <1>2 DEF Sending, NextDocroot, Parcels
<1>6. pc' = "send" => at' = at /\ live' = IF content = {} THEN Mkdir(root, live) ELSE Moved(root, content)
  BY <1>2 DEF Sending, NextDocroot
<1>7. content \in SUBSET Under(root, live) /\ Under(root, live) \in SUBSET Under(root, live)
  BY DEF Entries
<1>. HIDE DEF root, content
<1>8. \/ live' = live /\ pc' # "send"
      \/ live' = Mkdir(root, live) /\ (pc' = "send" => content = {})
      \/ \E ps \in SUBSET Under(root, live) : live' = Moved(root, ps) /\ (pc' = "send" => ps = content)
  <2>1. CASE pc' = "send"
    BY <1>6, <1>7, <2>1
  <2>2. CASE pc' # "send"
    BY <1>2, <1>7, <2>2
  <2>. QED BY <2>1, <2>2
<1>9. IsFiniteSet(DOMAIN live') /\ DOMAIN live' \subseteq Paths
  <2>1. IsFiniteSet(DOMAIN Mkdir(root, live)) /\ DOMAIN Mkdir(root, live) \subseteq Paths
    BY <1>3, <1>4, MkdirIs, OneMore DEF FiniteTrees
  <2>. QED BY <1>3, <1>4, <1>8, <2>1, MovedIs DEF FiniteTrees
<1>10. IsFiniteSet(unsent') /\ IsFiniteSet(parcel')
  BY <1>4, <1>5, FS_EmptySet DEF FiniteTrees
<1>11. FiniteTrees' /\ Remembered'
  BY <1>2, <1>4, <1>9, <1>10 DEF KeptInv, FiniteTrees, Remembered
<1>12. ASSUME NEW q \in DOMAIN live, q \notin content PROVE Away(q)'
  <2>1. ~(IsStrictPrefix(root, q) /\ ~Kept(root, q))
    BY <1>12 DEF content, Entries, Under
  <2>2. pc' = "send" => To(at)' = root
    BY <1>2, <1>3, <1>6 DEF To
  <2>. QED BY <2>1, <2>2 DEF Away, Kept
<1>13. ASSUME NEW p \in OwnFiles, NEW q \in DOMAIN live, live[q] = before[p], Relocated(p, q), Away(q)
       PROVE  \/ \E w \in DOMAIN live' : live'[w] = before[p] /\ Relocated(p, w) /\ Away(w)'
              \/ Replaced(p)
  <2>1. p \in Paths /\ q \in Paths /\ live[q] # "dir"
    BY <1>4, <1>13, FilePaths
  <2>2. pc' # "send" => \A w : Away(w)'
    BY DEF Away
  <2>3. CASE (live' = live /\ pc' # "send") \/ (live' = Mkdir(root, live) /\ (pc' = "send" => content = {}))
    <3>1. q \in DOMAIN live' /\ live'[q] = live[q]
      BY <1>3, <2>1, <2>3, MkdirIs
    <3>2. Away(q)'
      <4>1. CASE pc' = "send"
        <5>1. q \notin content
          BY <2>3, <4>1
        <5>. QED BY <1>12, <5>1
      <4>. QED BY <2>2, <4>1
    <3>. QED BY <1>13, <3>1, <3>2
  <2>4. CASE \E ps \in SUBSET Under(root, live) : live' = Moved(root, ps) /\ (pc' = "send" => ps = content)
    <3>1. PICK ps \in SUBSET Under(root, live) : live' = Moved(root, ps) /\ (pc' = "send" => ps = content)
      BY <2>4
    <3>2. CASE q \notin ps
      <4>1. q \in DOMAIN live' /\ live'[q] = live[q]
        BY <1>3, <1>4, <2>1, <3>1, <3>2, MovedIs
      <4>2. Away(q)'
        BY <1>12, <2>2, <3>1, <3>2
      <4>. QED BY <1>13, <4>1, <4>2
    <3>3. CASE q \in ps
      <4>1. PICK n \in Nat \ {0} : \A x \in ps : live[x] # "dir" =>
                 LET w == BakName(root, n) \o Rel(root, x) IN
                 w \in DOMAIN Moved(root, ps) /\ Moved(root, ps)[w] = live[x]
        BY <1>3, <1>4, MovedIs
      <4>6. PICK w : w = BakName(root, n) \o Rel(root, q)
        OBVIOUS
      <4>2. w \in DOMAIN live' /\ live'[w] = live[q]
        BY <2>1, <3>1, <3>3, <4>1, <4>6
      <4>3. IsStrictPrefix(root, q)
        BY <3>3 DEF Under
      <4>4. Relocated(p, w)
        BY <1>3, <1>13, <2>1, <4>3, <4>6, RelocatedAgain
      <4>5. Away(w)'
        <5>1. /\ BakName(root, n) \in Paths /\ Len(BakName(root, n)) = Len(root) /\ Len(root) \in Nat \ {0}
              /\ BakName(root, n)[Len(root)] = <<root[Len(root)][1], n>>
          BY <1>3, BakNames
        <5>2. w \in Paths /\ w[Len(root)] = <<root[Len(root)][1], n>>
          <6>1. IsPrefix(root, q)
            BY <4>3 DEF IsStrictPrefix
          <6>2. Len(root) \in 1..Len(root)
            BY <5>1
          <6>3. w \in Paths /\ \A k \in 1..Len(root) : w[k] = BakName(root, n)[k]
            BY <1>3, <2>1, <4>6, <5>1, <6>1, Rebased
          <6>. QED BY <5>1, <6>2, <6>3
        <5>3. root[Len(root)][2] = 0
          BY <1>3, <5>1 DEF Plain
        <5>4. ~IsStrictPrefix(root, w)
          <6>1. Len(root) \in 1..Len(root)
            BY <5>1
          <6>. SUFFICES ASSUME IsStrictPrefix(root, w) PROVE FALSE
            OBVIOUS
          <6>2. root[Len(root)] = w[Len(root)]
            BY <1>3, <5>2, <6>1, StrictIs
          <6>. QED BY <5>2, <5>3, <6>2
        <5>5. pc' = "send" => To(at)' = root
          BY <1>2, <1>3, <1>6 DEF To
        <5>. QED BY <5>4, <5>5 DEF Away
      <4>. QED BY <1>13, <4>2, <4>4, <4>5
    <3>. QED BY <3>2, <3>3
  <2>. QED BY <1>8, <2>3, <2>4
<1>14. Accounted'
  BY <1>1, <1>2, <1>13, FilesStay, Zenon DEF KeptInv
<1>. QED BY <1>1, <1>11, <1>14 DEF KeptInv

\* An attempt of a batch overwrites only what the source replaces: while
\* directories are sent to a docroot that was put aside, nothing lies in their
\* way.
LEMMA SendKept ==
    ASSUME WebTyped, PlainTargets, KeptInv, SendParcel \/ ParcelFails
    PROVE  KeptInv'
<1>1. Booked' /\ OnRecord
  BY CopyBooks DEF KeptInv
<1>2. /\ UNCHANGED <<start, site, listed>> /\ UNCHANGED before /\ pc = "send"
      /\ \E rs, torn \in SUBSET parcel : live' = Extracted(rs, torn)
  <2>1. Found(parcel) \subseteq parcel
    BY DEF Found
  <2>2. CASE SendParcel
    BY <2>2 DEF SendParcel
  <2>3. CASE ParcelFails
    <3>1. \E arrived \in SUBSET Found(parcel) : \E torn \in SUBSET Found(parcel) : live' = Extracted(arrived, torn)
      <4>1. CASE live' = Extracted(Found(parcel), {})
        BY <4>1
      <4>2. CASE \E arrived \in SUBSET Found(parcel) :
                 \E torn \in {{}} \cup {{r} : r \in {f \in Found(parcel) \ arrived : EntryOf(f) \in Bodies}} :
                    live' = Extracted(arrived, torn)
        BY <4>2
      <4>. QED BY <2>3, <4>1, <4>2 DEF ParcelFails
    <3>. QED BY <2>1, <2>3, <3>1 DEF ParcelFails
  <2>. QED BY <2>2, <2>3
<1>3. at \in Actionable /\ listed[at] \in {"bare", "files"} /\ Item.to \in Paths /\ Item.to = To(at)
  BY <1>2, TargetIs DEF KeptInv, Booked, Item, To
<1>4. FiniteTrees /\ parcel \subseteq Rels
  BY DEF KeptInv, Booked
<1>5. PICK rs \in SUBSET parcel, torn \in SUBSET parcel : live' = Extracted(rs, torn)
  BY <1>2
<1>6. rs \in SUBSET Rels /\ torn \in SUBSET Rels /\ IsFiniteSet(rs \cup torn)
  <2>1. rs \cup torn \in SUBSET parcel
    OBVIOUS
  <2>. QED BY <1>4, <2>1, FS_Subset DEF FiniteTrees
<1>7. /\ DOMAIN live' \subseteq Paths /\ IsFiniteSet(DOMAIN live')
      /\ \A q \in DOMAIN live : live[q] # "dir" =>
            \/ q \in DOMAIN live' /\ live'[q] = live[q]
            \/ IsStrictPrefix(To(at), q) /\ ~Kept(To(at), q)
  BY <1>3, <1>4, <1>5, <1>6, ExtractedIs DEF FiniteTrees
<1>8. \/ pc' # "send" /\ unsent' = {} /\ parcel' = {}
      \/ UNCHANGED <<pc, at, unsent>> /\ parcel' \in {{}, parcel}
  BY DEF SendParcel, ParcelFails, NextDocroot
<1>9. FiniteTrees' /\ Remembered'
  <2>1. IsFiniteSet(unsent') /\ IsFiniteSet(parcel')
    BY <1>4, <1>8, FS_EmptySet DEF FiniteTrees
  <2>. QED BY <1>2, <1>4, <1>7, <2>1 DEF KeptInv, FiniteTrees, Remembered
<1>10. \A q : Away(q) => Away(q)'
  BY <1>2, <1>8 DEF Away, Kept, To
<1>11. ASSUME NEW p \in OwnFiles, NEW q \in DOMAIN live, live[q] = before[p], Relocated(p, q), Away(q)
       PROVE  \/ \E w \in DOMAIN live' : live'[w] = before[p] /\ Relocated(p, w) /\ Away(w)'
              \/ Replaced(p)
  <2>1. p \in Paths /\ q \in Paths /\ live[q] # "dir"
    BY <1>4, <1>11, FilePaths
  <2>2. CASE q \in DOMAIN live' /\ live'[q] = live[q]
    BY <1>10, <1>11, <2>2
  <2>3. CASE IsStrictPrefix(To(at), q) /\ ~Kept(To(at), q)
    <3>1. listed[at] = "files"
      BY <1>2, <1>3, <1>11, <2>3 DEF Away
    <3>. QED BY <1>3, <1>11, <2>1, <2>3, <3>1, ReplacedBy
  <2>. QED BY <1>7, <2>1, <2>2, <2>3
<1>12. Accounted'
  BY <1>1, <1>2, <1>11, FilesStay, Zenon DEF KeptInv
<1>. QED BY <1>1, <1>9, <1>12 DEF KeptInv

\* Steps that touch neither the destination nor the books.
LEMMA ElsewhereKept ==
    ASSUME WebTyped, KeptInv, UNCHANGED <<start, live, before, listed, unsent, parcel, seen, failed, blocked>>,
           UNCHANGED <<pc, at>> \/ pc' \notin DomainSteps \cup CopySteps,
           IsFiniteSet(DOMAIN site')
    PROVE  KeptInv'
<1>1. Actionable' = Actionable
  BY StillActionable
<1>2. OnRecord
  BY <1>1 DEF OnRecord
<1>3. Booked'
  BY <1>1 DEF KeptInv, Booked, CopySteps
<1>4. FiniteTrees' /\ Remembered'
  BY DEF KeptInv, FiniteTrees, Remembered
<1>5. \A q : Away(q) => Away(q)'
  BY DEF Away, Kept, To, CopySteps
<1>6. ASSUME NEW p \in OwnFiles, NEW q \in DOMAIN live, live[q] = before[p], Relocated(p, q), Away(q)
      PROVE  \/ \E w \in DOMAIN live' : live'[w] = before[p] /\ Relocated(p, w) /\ Away(w)'
             \/ Replaced(p)
  BY <1>5, <1>6
<1>7. UNCHANGED before
  OBVIOUS
<1>8. Accounted'
  BY <1>2, <1>6, <1>7, FilesStay, Zenon DEF KeptInv
<1>. QED BY <1>3, <1>4, <1>8 DEF KeptInv

\* The verification, and an interrupt.
LEMMA VerifyKept ==
    ASSUME WebTyped, KeptInv,
           SourceManifest \/ DestManifest \/ SourceNames \/ DestNames \/ SourceBodies \/ DestBodies \/ WebInterrupt
    PROVE  KeptInv'
<1>1. UNCHANGED <<start, site, live, before, listed, unsent, parcel, seen, failed, blocked>>
  BY DEF SourceManifest, DestManifest, SourceNames, DestNames, SourceBodies, DestBodies, WebInterrupt,
         VerifyFrame, webSites, webFlow, Parcels, domainVars
<1>2. pc' \in VerifySteps \cup {"done"}
  BY DEF SourceManifest, DestManifest, SourceNames, DestNames, SourceBodies, DestBodies, WebInterrupt,
         Verdict, Read, Go, ContentGate, VerifySteps
<1>3. IsFiniteSet(DOMAIN site')
  BY <1>1 DEF KeptInv, FiniteTrees
<1>. QED BY <1>1, <1>2, <1>3, ElsewhereKept DEF VerifySteps, DomainSteps, CopySteps

\* What the source's owners do is not about the destination.
LEMMA SourceEditKept ==
    ASSUME WebTyped, KeptInv, WebEdit, UNCHANGED <<live, before>>, IsFiniteSet(DOMAIN site')
    PROVE  KeptInv'
  BY ElsewhereKept DEF WebEdit, webFlow, domainVars

\* The domain step comes before anything was listed, so every file is where it
\* was.
LEMMA DomainsKept ==
    ASSUME TokenInv, WebTyped, KeptInv, WebDomains
    PROVE  KeptInv'
<1>1. /\ UNCHANGED <<start, site, live, before, listed, unsent, parcel, at>> /\ pc \in DomainSteps
      /\ pc' \in DomainSteps \cup {"gate", "done"}
  BY DomainMoves DEF WebDomains, webFlow, webSites
<1>2. at = 1 /\ DOMAIN start.items = 1..Len(start.items) /\ Actionable \subseteq DOMAIN start.items
  BY <1>1, ItemsAre DEF WebTyped
<1>3. \A i \in DOMAIN start.items : listed[i] = "no"
  BY <1>1, <1>2 DEF KeptInv, Booked
<1>4. Booked'
  BY <1>1, <1>2, <1>3 DEF KeptInv, Booked, DomainSteps, CopySteps
<1>5. FiniteTrees' /\ Remembered'
  BY <1>1 DEF KeptInv, FiniteTrees, Remembered
<1>6. ASSUME NEW p \in OwnFiles PROVE AccountedFor(p)'
  <2>1. \A r : ~Bared(r)
    BY <1>2, <1>3 DEF Bared
  <2>2. ~Replaced(p) /\ ~WrittenInBared(p)
    BY <1>2, <1>3, <2>1 DEF Replaced, WrittenInBared
  <2>3. AccountedFor(p)
    BY DEF KeptInv, Accounted
  <2>4. PICK q \in DOMAIN live : live[q] = before[p] /\ Relocated(p, q)
    BY <2>2, <2>3 DEF AccountedFor
  <2>5. Relocated(p, q)'
    BY <2>1, <2>4 DEF Relocated
  <2>6. Away(q)'
    BY <1>1 DEF Away, DomainSteps
  <2>. QED BY <1>1, <2>4, <2>5, <2>6 DEF AccountedFor
<1>7. Accounted'
  BY <1>1, <1>6 DEF Accounted, OwnFiles
<1>. QED BY <1>4, <1>5, <1>7 DEF KeptInv

\* A docroot of the destination and a file at its top have plain names.
LEMMA UploadIs ==
    ASSUME WebTyped, PlainTargets, NEW i \in DOMAIN start.items, NEW w \in Words
    PROVE  LET p == To(i) \o <<Name(w)>> IN p \in Paths /\ Plain(p)
<1>. DEFINE to == To(i)
            one == <<Name(w)>>
            p == to \o one
<1>1. to \in Seq(Words \X Nat) /\ \A k \in DOMAIN to : to[k][2] = 0
  BY ItemsAre DEF To, Paths, PlainTargets, WebTyped
<1>2. one \in Seq(Words \X Nat) /\ Len(one) = 1 /\ one[1] = <<w, 0>>
  BY DEF Name
<1>. HIDE DEF to, one
<1>3. Len(to) \in Nat /\ DOMAIN to = 1..Len(to)
  BY <1>1
<1>4. /\ p \in Seq(Words \X Nat) /\ Len(p) = Len(to) + Len(one)
      /\ \A k \in 1..Len(to) + Len(one) : p[k] = IF k <= Len(to) THEN to[k] ELSE one[k - Len(to)]
  BY <1>1, <1>2, ConcatProperties
<1>. HIDE DEF p
<1>5. ASSUME NEW k \in 1..Len(p) PROVE p[k][2] = 0
  <2>1. k \in 1..Len(to) + Len(one) /\ k \in Nat
    BY <1>2, <1>3, <1>4
  <2>2. CASE k <= Len(to)
    <3>1. p[k] = to[k]
      BY <1>4, <2>1, <2>2
    <3>2. k \in DOMAIN to
      BY <1>3, <2>1, <2>2
    <3>. QED BY <1>1, <3>1, <3>2
  <2>3. CASE ~(k <= Len(to))
    <3>1. k - Len(to) = 1
      BY <1>2, <1>3, <2>1, <2>3
    <3>. QED BY <1>2, <1>4, <2>1, <2>3, <3>1
  <2>. QED BY <2>2, <2>3
<1>. QED BY <1>4, <1>5 DEF Plain, Paths, p, to, one

\* An upload hides no file that is accounted for: it can only lie at a plain
\* path, which is the place of no other file, and where directories are being
\* sent its loss is the one that was announced.
LEMMA LiveWriteKept ==
    ASSUME WebTyped, PlainTargets, KeptInv, NEW u \in Paths, Plain(u), LiveWrite(u)
    PROVE  KeptInv'
<1>1. /\ UNCHANGED <<start, site, listed, unsent, parcel, at, pc>> /\ UNCHANGED domainVars
      /\ live' = Overlay(live, Leaf(u, "v2")) /\ before' = Overlay(before, Leaf(u, "v2"))
  BY DEF LiveWrite, WebEdit, webFlow
<1>2. Actionable' = Actionable
  BY <1>1, StillActionable DEF domainVars
<1>3. OnRecord /\ Booked'
  BY <1>1, <1>2 DEF OnRecord, KeptInv, Booked
<1>. DEFINE leaf == Leaf(u, "v2")
<1>4. DOMAIN leaf = {u} /\ leaf[u] = "v2"
  BY LeafIs
<1>. HIDE DEF leaf
<1>5. live' = Overlay(live, leaf) /\ before' = Overlay(before, leaf)
  BY <1>1 DEF leaf
<1>6. /\ DOMAIN live' \subseteq {u} \cup DOMAIN live /\ u \in DOMAIN live' /\ live'[u] = "v2"
      /\ \A q \in DOMAIN live : q # u /\ live[q] # "dir" => q \in DOMAIN live' /\ live'[q] = live[q]
  BY <1>4, <1>5, OverlayIs
<1>7. /\ DOMAIN before' \subseteq {u} \cup DOMAIN before /\ u \in DOMAIN before' /\ before'[u] = "v2"
      /\ \A q \in DOMAIN before : q # u /\ before[q] # "dir" => q \in DOMAIN before' /\ before'[q] = before[q]
      /\ \A q \in DOMAIN before' : q # u => before'[q] = before[q]
  BY <1>4, <1>5, OverlayIs
<1>8. FiniteTrees'
  <2>1. IsFiniteSet(DOMAIN live')
    BY <1>6, OneMore DEF KeptInv, FiniteTrees
  <2>. QED BY <1>1, <1>6, <1>7, <2>1 DEF KeptInv, FiniteTrees
<1>9. Remembered'
  <2>. SUFFICES ASSUME NEW p \in DOMAIN start.live, start.live[p] = "v2" PROVE p \in DOMAIN before' /\ before'[p] = "v2"
    BY <1>1 DEF Remembered
  <2>1. p \in DOMAIN before /\ before[p] = "v2"
    BY DEF KeptInv, Remembered
  <2>. QED BY <1>7, <2>1
<1>10. \A q : Away(q) => Away(q)'
  BY <1>1 DEF Away, Kept, To
<1>11. \A p, q : Relocated(p, q) => Relocated(p, q)'
  BY <1>3, StillOnRecord
<1>12. ASSUME NEW p \in OwnFiles, before'[p] = before[p], p # u \/ ~Away(u) PROVE AccountedFor(p)'
  <2>0. FiniteTrees /\ p \in Paths /\ before[p] # "dir"
    BY FilePaths DEF KeptInv
  <2>1. CASE \E q \in DOMAIN live : live[q] = before[p] /\ Relocated(p, q) /\ Away(q)
    <3>1. PICK q \in DOMAIN live : live[q] = before[p] /\ Relocated(p, q) /\ Away(q)
      BY <2>1
    <3>2. q \in Paths
      BY <2>0, FilePaths
    <3>3. q # u
      <4>. SUFFICES ASSUME q = u PROVE FALSE
        OBVIOUS
      <4>1. p # u
        BY <1>12, <3>1
      <4>2. u \in Seq(Words \X Nat) /\ Len(u) \in Nat /\ p \in Seq(Words \X Nat) /\ Len(p) = Len(u)
        BY <2>0, <3>1 DEF Paths, Relocated
      <4>3. IsPrefix(u, u)
        BY <4>2, PrefixIs
      <4>4. \A k \in 1..Len(u) : p[k] = u[k]
        BY <2>0, <3>1, <4>3, PlainStays
      <4>5. p = u
        BY <4>2, <4>4, SeqEqual
      <4>. QED BY <4>1, <4>5
    <3>4. q \in DOMAIN live' /\ live'[q] = before'[p]
      BY <1>6, <1>12, <2>0, <3>1, <3>3
    <3>. QED BY <1>10, <1>11, <3>1, <3>4 DEF AccountedFor
  <2>2. CASE Replaced(p) \/ WrittenInBared(p)
    BY <1>3, <1>12, <2>2, StillOnRecord DEF AccountedFor
  <2>. QED BY <2>1, <2>2 DEF KeptInv, Accounted, AccountedFor
<1>13. ASSUME u \in OwnFiles' PROVE AccountedFor(u)'
  <2>1. CASE Away(u)
    <3>1. Relocated(u, u)
      BY DEF Relocated
    <3>. QED BY <1>6, <1>7, <1>10, <1>11, <2>1, <3>1 DEF AccountedFor
  <2>2. CASE ~Away(u)
    <3>1. pc = "send" /\ listed[at] = "bare" /\ IsStrictPrefix(To(at), u)
      BY <2>2 DEF Away
    <3>2. at \in Actionable
      BY <3>1 DEF KeptInv, Booked
    <3>3. CASE u \in DOMAIN start.live /\ start.live[u] = "v2"
      <4>1. u \in DOMAIN before /\ before[u] = "v2"
        BY <3>3 DEF KeptInv, Remembered
      <4>2. u \in OwnFiles /\ before'[u] = before[u]
        BY <1>7, <4>1 DEF OwnFiles
      <4>. QED BY <1>12, <2>2, <4>2
    <3>4. CASE ~(u \in DOMAIN start.live /\ start.live[u] = "v2")
      <4>1. u \notin DOMAIN start.live \/ start.live[u] # before'[u]
        BY <1>7, <3>4
      <4>2. PICK j \in Actionable : j = at
        BY <3>2
      <4>3. j \in Actionable' /\ start' = start /\ IsStrictPrefix(start.items[j].to, u)
        BY <1>1, <1>2, <3>1, <4>2 DEF To
      <4>4. Bared(start.items[j].to)'
        BY <1>1, <3>1, <4>2, <4>3 DEF Bared
      <4>5. WrittenInBared(u)'
        BY <4>1, <4>3, <4>4 DEF WrittenInBared
      <4>. QED BY <4>5 DEF AccountedFor
    <3>. QED BY <3>3, <3>4
  <2>. QED BY <2>1, <2>2
<1>14. ASSUME NEW p \in OwnFiles' PROVE AccountedFor(p)'
  <2>1. CASE p = u
    BY <1>13, <1>14, <2>1
  <2>2. CASE p # u
    <3>1. p \in OwnFiles /\ before'[p] = before[p]
      BY <1>7, <1>14, <2>2 DEF OwnFiles
    <3>. QED BY <1>12, <2>2, <3>1
  <2>. QED BY <2>1, <2>2
<1>. QED BY <1>3, <1>8, <1>9, <1>14 DEF KeptInv, Accounted

\* What the owners of the two sites do.
LEMMA OwnersKept ==
    ASSUME WebTyped, PlainTargets, KeptInv, WebOwners
    PROVE  KeptInv'
<1>0. IsFiniteSet(DOMAIN site)
  BY DEF KeptInv, FiniteTrees
<1>1. PICK i \in DOMAIN start.items :
        LET it == start.items[i] IN
        \/ SiteWrite(it.from \o <<Name("index")>>) \/ SiteWrite(it.from \o <<Name("new")>>)
        \/ SiteDelete(it.from \o <<Name("index")>>)
        \/ SiteVanish(it.from) \/ SiteLock(it.from)
        \/ it.to # <<>> /\ (LiveWrite(it.to \o <<Name("index")>>) \/ LiveWrite(it.to \o <<Name("new")>>))
  BY DEF WebOwners
<1>. DEFINE from == start.items[i].from
            path(w) == To(i) \o <<Name(w)>>
<1>2. /\ \/ \E p : SiteWrite(p)
         \/ \E p : SiteDelete(p)
         \/ SiteVanish(from) \/ SiteLock(from)
         \/ LiveWrite(path("index")) \/ LiveWrite(path("new"))
  BY <1>1, Zenon DEF from, To
<1>3. /\ path("index") \in Paths /\ Plain(path("index"))
      /\ path("new") \in Paths /\ Plain(path("new"))
  <2>1. "index" \in Words /\ "new" \in Words
    BY WebSyncAssumption
  <2>. QED BY <2>1, UploadIs
<1>. HIDE DEF from, path
<1>4. ASSUME NEW p, SiteWrite(p) PROVE KeptInv'
  <2>1. WebEdit /\ site' = Overlay(site, Leaf(p, "v2")) /\ UNCHANGED <<live, before>>
    BY <1>4 DEF SiteWrite
  <2>2. DOMAIN site' \subseteq {p} \cup DOMAIN site
    <3>. DEFINE leaf == Leaf(p, "v2")
    <3>1. DOMAIN leaf = {p}
      BY LeafIs
    <3>. HIDE DEF leaf
    <3>2. DOMAIN Overlay(site, leaf) \subseteq DOMAIN leaf \cup DOMAIN site
      BY OverlayIs
    <3>. QED BY <2>1, <3>1, <3>2 DEF leaf
  <2>. QED BY <1>0, <2>1, <2>2, OneMore, SourceEditKept
<1>5. ASSUME NEW p, SiteDelete(p) PROVE KeptInv'
  <2>1. WebEdit /\ site' = Without(site, {p}, Front(p)) /\ UNCHANGED <<live, before>>
    BY <1>5 DEF SiteDelete
  <2>2. DOMAIN site' \subseteq {Front(p)} \cup DOMAIN site
    <3>. DEFINE u == Only(site, DOMAIN site \ {p})
                leaf == Leaf(Front(p), "dir")
    <3>1. DOMAIN u = DOMAIN site \ {p} /\ DOMAIN leaf = {Front(p)}
      BY LeafIs DEF Only
    <3>. HIDE DEF u, leaf
    <3>2. DOMAIN Overlay(u, leaf) \subseteq DOMAIN leaf \cup DOMAIN u
      BY OverlayIs
    <3>3. site' = IF Exists(Front(p), u) THEN u ELSE Overlay(u, leaf)
      BY <2>1 DEF Without, Mkdir, u, leaf
    <3>. QED BY <3>1, <3>2, <3>3
  <2>. QED BY <1>0, <2>1, <2>2, OneMore, SourceEditKept
<1>6. ASSUME SiteVanish(from) PROVE KeptInv'
  <2>1. WebEdit /\ site' = Only(site, {p \in DOMAIN site : ~IsPrefix(from, p)}) /\ UNCHANGED <<live, before>>
    BY <1>6 DEF SiteVanish
  <2>2. DOMAIN site' \in SUBSET (DOMAIN site)
    BY <2>1 DEF Only
  <2>3. IsFiniteSet(DOMAIN site')
    BY <1>0, <2>2, FS_Subset
  <2>. QED BY <2>1, <2>3, SourceEditKept
<1>7. ASSUME SiteLock(from) PROVE KeptInv'
  <2>1. WebEdit /\ site' = site /\ UNCHANGED <<live, before>>
    BY <1>7 DEF SiteLock
  <2>. QED BY <1>0, <2>1, SourceEditKept
<1>. QED BY <1>2, <1>3, <1>4, <1>5, <1>6, <1>7, LiveWriteKept

-----------------------------------------------------------------------------
(* What the web flow may take: the theorem                                 *)

\* Nothing was taken yet.
LEMMA KeptInit == WebInit => KeptInv
<1>. SUFFICES ASSUME WebInit PROVE KeptInv
  OBVIOUS
<1>1. /\ start \in WebStarts /\ site = start.site /\ live = start.live /\ before = start.live
      /\ pc = "domains" /\ unsent = {} /\ parcel = {} /\ listed = [i \in DOMAIN start.items |-> "no"]
  BY DEF WebInit
<1>2. IsTree(site) /\ IsTree(live)
  BY <1>1, WebSyncAssumption DEF IsWebStart
<1>3. FiniteTrees
  BY <1>1, <1>2, FS_EmptySet DEF IsTree, FiniteTrees
<1>4. Booked
  BY <1>1 DEF Booked, CopySteps
<1>5. Remembered
  BY <1>1 DEF Remembered
<1>6. \A p : Relocated(p, p) /\ Away(p)
  BY <1>1 DEF Relocated, Away
<1>7. Accounted
  BY <1>1, <1>6 DEF Accounted, OwnFiles, AccountedFor
<1>. QED BY <1>3, <1>4, <1>5, <1>7 DEF KeptInv

\* Every step of a web run keeps the destination's files accounted for.
LEMMA KeptNext ==
    ASSUME TokenInv, WebTyped, PlainTargets, KeptInv, WebDomains \/ WebPast
    PROVE  KeptInv'
  BY DomainsKept, CalmCopyKept, EmptyDestKept, PutAsideKept, SendKept, VerifyKept, OwnersKept, Zenon DEF WebPast

\* What is accounted for is where it was, under -bak names, replaced by the
\* source's files, or written into a docroot that was put aside.
LEMMA AccountedMeansKept == KeptInv => SourceDecides
<1>. SUFFICES ASSUME KeptInv, NEW p \in OwnFiles PROVE Remains(p) \/ Replaced(p) \/ WrittenInBared(p)
  BY DEF SourceDecides, OwnFiles
<1>1. AccountedFor(p)
  BY DEF KeptInv, Accounted
<1>. QED BY <1>1 DEF AccountedFor, Remains

\* The web flow takes nothing but what the source replaces, for any trees,
\* docroots inside each other, backups of docroots inside backups, failures
\* half-way and uploads at any moment: as long as no docroot of the plan bears
\* the name of a -bak directory, a file of the destination stays where it is,
\* or is found under -bak directories of docroots without files on the source,
\* unless the source of a docroot around it had a file.
THEOREM OnlyTheSourceTakes == ASSUME PlainTargets PROVE ApplySpec => []SitesKept
<1>. DEFINE I == TokenInv /\ (doFile => WebInv /\ KeptInv)
<1>1. ApplyInit => I
  BY InitTokens, WebInitInv, KeptInit DEF ApplyInit
<1>2. I /\ [ApplyNext]_applyVars => I'
  <2>. SUFFICES ASSUME I, [ApplyNext]_applyVars PROVE I'
    OBVIOUS
  <2>1. TokenInv'
    BY NextTokens
  <2>2. doFile' = doFile
    BY StepKinds DEF applyVars
  <2>3. ASSUME doFile PROVE WebInv' /\ KeptInv'
    <3>1. WebInv /\ KeptInv /\ TokenInv /\ WebTyped
      BY <2>3 DEF WebInv
    <3>2. UNCHANGED applyVars \/ WebDomains \/ WebPast
      BY <2>3, StepKinds, Zenon
    <3>3. ASSUME UNCHANGED applyVars PROVE KeptInv'
      <4>1. /\ UNCHANGED <<start, live, before, listed, unsent, parcel, seen, failed, blocked>>
            /\ UNCHANGED <<pc, at>> /\ UNCHANGED site
        BY <3>3 DEF applyVars, vars, webVars, webFlow, webSites, flow, domainVars
      <4>2. IsFiniteSet(DOMAIN site')
        BY <3>1, <4>1 DEF KeptInv, FiniteTrees
      <4>. QED BY <3>1, <4>1, <4>2, ElsewhereKept
    <3>. QED BY <3>1, <3>2, <3>3, WebNextInv, WebStutterInv, KeptNext
  <2>. QED BY <2>1, <2>2, <2>3
<1>3. I => SitesKept
  BY AccountedMeansKept DEF SitesKept
<1>. QED BY <1>1, <1>2, <1>3, PTL DEF ApplySpec
=============================================================================
