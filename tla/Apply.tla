------------------------------- MODULE Apply --------------------------------
(***************************************************************************)
(* `--apply` (migrate/apply.go): the domain step, and after it the flow    *)
(* that the flags select, the mailbox of a domain (MailSync) or the        *)
(* docroots of an account (WebSync).  Both start from what the domain step *)
(* left behind: the domain is in the destination's list, failed, or        *)
(* blocked.                                                                *)
(***************************************************************************)
EXTENDS MailSync, WebSync

VARIABLE doFile    \* --file: the docroots; otherwise --mail

mailVars  == <<src, dest, aside, account, opts, Plan, proven, result, kind, ghosts, edits>>
applyVars == <<vars, webVars, doFile>>

\* The state of a flow that is not selected.
NoMail ==
    /\ src = Empty /\ dest = Empty /\ aside = <<>> /\ account = FALSE
    /\ opts = [mode |-> "delta", check |-> "default", entry |-> "ok"]
    /\ todo = {} /\ control = {} /\ batch = {} /\ tries = 0 /\ rescans = 0
    /\ proven = [bak |-> FALSE, count |-> 0] /\ result = "none" /\ kind = "none"
    /\ stable = {} /\ moved = FALSE /\ renumbered = {} /\ calm = FALSE /\ edits = 0

NoWeb ==
    /\ start = <<>> /\ site = <<>> /\ live = <<>> /\ before = <<>> /\ locked = {}
    /\ at = 1 /\ unsent = {} /\ parcel = {} /\ attempt = 0 /\ manifest = NoManifest
    /\ webFailed = FALSE /\ webDiff = FALSE /\ notes = {} /\ listed = <<>>
    /\ late = FALSE /\ quiet = FALSE /\ webEdits = 0

ApplyInit == \/ doFile = FALSE /\ Init /\ NoWeb
             \/ doFile = TRUE /\ WebInit /\ NoMail

ApplyNext ==
    /\ UNCHANGED doFile
    /\ \/ ~doFile /\ Next /\ UNCHANGED webVars
       \/ doFile /\ WebNext /\ UNCHANGED mailVars

ApplySpec == ApplyInit /\ [][ApplyNext]_applyVars

-----------------------------------------------------------------------------
(* Properties.                                                             *)

\* A clean exit of the mail flow: see CleanMeansSynced (applyOutcome, verify).
MailSynced == ~doFile => CleanMeansSynced

\* A clean exit of the web flow: see CleanMeansMirrored (applyOutcome,
\* verifyWebFiles).
SitesMirrored == doFile => CleanMeansMirrored

\* What a run of the web flow may take from the destination: see SourceDecides
\* (CopyDocroot, backupDest, emptyDest).
SitesKept == doFile => SourceDecides

\* An undisturbed run of either flow ends cleanly when it started where it can
\* succeed (applyOutcome).
UndisturbedIsClean == IF doFile THEN QuietIsClean ELSE CalmIsClean
=============================================================================
