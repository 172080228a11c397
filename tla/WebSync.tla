------------------------------ MODULE WebSync -------------------------------
(***************************************************************************)
(* `--apply --file`: the docroots of an account, after their domains       *)
(* (module ApplyDomains).  migrate/apply_webfiles.go, domain_type_issues.go *)
(* and the package webfiles: the plan and the preflight of its targets, a  *)
(* copy that lists the source, empties the destination or puts it aside,   *)
(* and streams batches with retries, and the verification by manifests and *)
(* content fingerprints that decides the exit.  Both sites are live.       *)
(*                                                                         *)
(* A side is one tree, because docroots lie inside each other: a function  *)
(* from the paths of files, links and empty directories.  A name is a pair *)
(* of a word and the number of its -bak suffix, zero for none.             *)
(***************************************************************************)
EXTENDS ApplyDomains, SequencesExt

CONSTANTS
    Words,           \* the words that names are made of
    WebStarts,       \* situations that a run may find, see IsWebStart
    WebRetries,      \* TransferRetries of the bridge
    MaxWebEdits      \* bound on the owners' edits

Name(w) == <<w, 0>>
Public == <<Name("public_html")>>
System == {Name("cgi-bin")}     \* systemExcludes
Odd    == Name("odd")           \* a name that validate.RelPath refuses

\* "v1" and "v2" are files of one size, "torn" is a file cut short.
Bodies == {"v1", "v2", "torn"}
Leaves == Bodies \cup {"link", "dir"}
Types  == {"main", "addon", "sub", "parked"}

Paths  == Seq(Words \X Nat)

\* One domain of the plan: its docroots (<<>>: the destination lists none) and
\* its types; twins: two entries of the destination answer to its name.
ItemType == [from : Paths, to : Paths, st : Types, dt : Types, ct : Types \cup {"other"},
             twins : {"none", "docroots", "domains"}]
IsItem(it) == it \in ItemType /\ it.from # <<>> /\ (it.twins # "none" => it.to = <<>>)

IsTree(t) == /\ DOMAIN t \subseteq Paths /\ IsFiniteSet(DOMAIN t)
             /\ \A p \in DOMAIN t : t[p] \in Leaves
             /\ \A p, q \in DOMAIN t : ~IsStrictPrefix(p, q)

\* The domain step is about the item `which`.
IsWebStart(s) ==
    /\ s.items \in Seq(ItemType) /\ \A i \in DOMAIN s.items : IsItem(s.items[i])
    /\ s.which \in DOMAIN s.items
    /\ IsTree(s.site) /\ IsTree(s.live) /\ \E p \in DOMAIN s.live : IsPrefix(Public, p)
    /\ s.facts \in DomainFacts /\ s.hosted \in BOOLEAN
    /\ s.deep \in BOOLEAN /\ s.big \in BOOLEAN /\ s.huge \in BOOLEAN /\ s.tools \in BOOLEAN

ASSUME WebSyncAssumption ==
    /\ \A s \in WebStarts : IsWebStart(s)
    /\ {"index", "new"} \subseteq Words
    /\ WebRetries \in Nat \ {0} /\ MaxWebEdits \in Nat

VARIABLES
    start,       \* the plan and the options: a member of WebStarts
    site, live,  \* the trees of the source and of the destination
    locked,      \* directories of the source that cannot be entered
    at,          \* the item at work
    unsent,      \* listed paths that are still to be sent
    parcel,      \* the batch on its way, empty between batches
    attempt,
    manifest,    \* what the verification read of the source: [ok, view]
    webFailed, webDiff,   \* the counters of applyWebFiles and verifyWebFiles, as flags
    notes,       \* items whose content was not byte-verified
    listed,      \* what the last listing of an item showed
    before,      \* the destination's tree, as its owners left it
    late,        \* an owner wrote while the verification ran
    quiet,       \* nothing interfered, and the run started where it can succeed
    webEdits

webFlow  == <<at, unsent, parcel, attempt, manifest, webFailed, webDiff, notes, listed>>
webSites == <<site, live, locked, before, late, webEdits>>
webVars  == <<start, webFlow, webSites, quiet>>

-----------------------------------------------------------------------------
(* Trees.                                                                  *)

Under(root, t) == {p \in DOMAIN t : IsStrictPrefix(root, p)}
Exists(root, t) == \E p \in DOMAIN t : IsPrefix(root, p)
Kept(root, p) == p[Len(root) + 1] \in System
Entries(root, t) == {p \in Under(root, t) : ~Kept(root, p)}
Rel(root, p) == SubSeq(p, Len(root) + 1, Len(p))

\* What `find` prints of a docroot: the system entries at its top are pruned.
View(root, t) == [r \in {Rel(root, p) : p \in Entries(root, t)} |-> t[root \o r]]

Only(t, ps) == [p \in ps |-> t[p]]
Normal(t) == Only(t, {p \in DOMAIN t : t[p] = "dir" => Under(p, t) = {}})
Leaf(p, x) == [q \in {p} |-> x]
Overlay(t, new) == Normal([p \in DOMAIN new \cup DOMAIN t |-> IF p \in DOMAIN new THEN new[p] ELSE t[p]])
Mkdir(root, t) == IF Exists(root, t) THEN t ELSE Overlay(t, Leaf(root, "dir"))
Without(t, ps, root) == Mkdir(root, Only(t, DOMAIN t \ ps))

Item == start.items[at]
Safe(r) == \A k \in DOMAIN r : r[k] # Odd

\* A docroot that cannot be entered, one with a part that cannot, and what the
\* fingerprints read of it.  Inside a directory that cannot be entered nothing
\* seems to exist.
Absent(root) == ~Exists(root, site) \/ \E l \in locked : IsStrictPrefix(l, root)
Barred(root) == \E l \in locked : IsPrefix(l, root)
Partial(root) == \E l \in locked : IsPrefix(root, l)
Readable(root) == View(root, Only(site, {p \in DOMAIN site : ~Barred(p)}))

-----------------------------------------------------------------------------
(* The plan.                                                               *)

Unavailable(i) == i = start.which /\ (failed \/ blocked)
There(i) == i # start.which \/ seen

Expected(st) == IF st = "sub" THEN "sub" ELSE "addon"

\* classifyDomainTypeIssue, for a destination that has the domain once.
Mistyped(it) ==
    LET hasDoc == it.to # <<>> IN
    /\ ~(it.st = "main" /\ it.dt = "main" /\ hasDoc /\ it.ct = "main")
    /\ \/ it.dt # Expected(it.st)
       \/ it.dt \in {"main", "parked"}
       \/ hasDoc /\ (it.ct # it.dt \/ it.ct \in {"main", "parked"})

TypeIssue(i) == There(i) /\ (start.items[i].twins = "domains" \/ Mistyped(start.items[i]))

\* BuildPlan: no docroot to copy into.
NoTarget(i) == ~There(i) \/ start.items[i].to = <<>>
\* ... which is a failure when the destination has the domain.
InstantFail(i) == NoTarget(i) /\ There(i)

Actionable == {i \in DOMAIN start.items : ~Unavailable(i) /\ ~NoTarget(i) /\ ~TypeIssue(i)}

\* AllowDestPublicHTMLRoot and the containment guard.
AllowRoot(it) == it.st = "main" /\ it.ct = "main"
GuardPasses(it) == IsPrefix(Public, it.to) /\ (it.to = Public => AllowRoot(it))

\* ValidateDestTargets: a target that the guard refuses, or that two items share.
TargetIssue(i) ==
    \/ ~GuardPasses(start.items[i])
    \/ \E j \in Actionable \ {i} : start.items[j].to = start.items[i].to

\* A run that can succeed: every docroot has a target of its own and content,
\* and a docroot inside another one lies at the same place on both sides.
WebConvergable(s) ==
    /\ s.hosted \/ (s.facts.inventory /\ (s.facts.kind = "addon" => s.facts.label = "free"))
    /\ s.tools /\ ~s.huge
    /\ \A i \in DOMAIN s.items :
          LET it == s.items[i] IN
          /\ it.to # <<>> /\ it.twins = "none" /\ ~Mistyped(it) /\ GuardPasses(it)
          /\ \E r \in DOMAIN View(it.from, s.site) : s.site[it.from \o r] # "dir"
          /\ \A r \in DOMAIN View(it.from, s.site) : Safe(r)
          /\ \A j \in DOMAIN s.items \ {i} :
                /\ s.items[j].to # it.to
                /\ IsStrictPrefix(it.to, s.items[j].to) =>
                      /\ IsStrictPrefix(it.from, s.items[j].from)
                      /\ Rel(it.to, s.items[j].to) = Rel(it.from, s.items[j].from)

NoManifest == [ok |-> FALSE, view |-> <<>>]

WebInit ==
    /\ start \in WebStarts
    /\ site = start.site /\ live = start.live /\ before = start.live /\ locked = {}
    /\ facts = start.facts /\ hosted = start.hosted /\ tokens = {}
    /\ seen = FALSE /\ failed = FALSE /\ blocked = FALSE
    /\ cancelled = FALSE /\ unrevoked = FALSE
    /\ pc = "domains" /\ exit = "none" /\ faults = 0
    /\ at = 1 /\ unsent = {} /\ parcel = {} /\ attempt = 0 /\ manifest = NoManifest
    /\ webFailed = FALSE /\ webDiff = FALSE /\ notes = {}
    /\ listed = [i \in DOMAIN start.items |-> "no"]
    /\ late = FALSE /\ quiet = WebConvergable(start) /\ webEdits = 0

-----------------------------------------------------------------------------
(* The copy.                                                               *)

CopySteps   == {"gate", "docroot", "aside", "wipe", "send"}
VerifySteps == {"manifest", "against", "names", "namesagainst", "bodies", "bodiesagainst"}
WebSteps == CopySteps \cup VerifySteps

WebFault == UseFault /\ quiet' = FALSE
NoWebFault == UNCHANGED <<faults, quiet>>
Reading == <<manifest, webDiff, notes>>
Parcels == <<unsent, parcel, attempt>>

\* The next docroot, and after the last one the verification.
NextDocroot(fails) ==
    /\ webFailed' = (webFailed \/ fails)
    /\ unsent' = {} /\ parcel' = {} /\ attempt' = 0
    /\ IF at < Len(start.items) THEN at' = at + 1 /\ pc' = "docroot"
       ELSE at' = 1 /\ pc' = "manifest"

\* One target that is refused, or that cannot be resolved, and nothing is copied.
Preflight ==
    /\ pc = "gate"
    /\ LET refused == \E i \in Actionable : TargetIssue(i) IN
       \/ /\ NoWebFault /\ webFailed' = refused
          /\ pc' = IF refused THEN "manifest" ELSE "docroot"
       \/ /\ Actionable # {} /\ WebFault /\ webFailed' = TRUE /\ pc' = "manifest"
    /\ UNCHANGED <<start, webSites, at, Parcels, Reading, listed, exit, domainVars>>

PassOver ==
    /\ pc = "docroot" /\ at \notin Actionable
    /\ NextDocroot(~Unavailable(at) /\ (TypeIssue(at) \/ InstantFail(at)))
    /\ NoWebFault
    /\ UNCHANGED <<start, webSites, Reading, listed, exit, domainVars>>

Regular(v) == {r \in DOMAIN v : v[r] # "dir"}

PrepareAlways(v) == "wipe"

\* What becomes of the destination's content: it is removed only for a source
\* that has a file to put in its place.
Prepare(v) == IF Regular(v) = {} THEN "aside" ELSE "wipe"

\* listSrcFiles.  A docroot that cannot be entered or read is an error, and
\* names that are not safe are left out.
ListDocroot ==
    /\ pc = "docroot" /\ at \in Actionable
    /\ LET v == View(Item.from, site)
           sent == {r \in DOMAIN v : Safe(r)}
       IN  \/ /\ ~Absent(Item.from) /\ ~Barred(Item.from) /\ ~Partial(Item.from)
              /\ unsent' = sent /\ pc' = Prepare(Only(v, sent)) /\ NoWebFault
              /\ listed' = [listed EXCEPT ![at] = IF Regular(Only(v, sent)) = {} THEN "bare" ELSE "files"]
              /\ UNCHANGED <<at, parcel, attempt, webFailed>>
           \/ /\ Absent(Item.from) \/ Barred(Item.from) \/ Partial(Item.from)
              /\ NextDocroot(TRUE) /\ NoWebFault /\ UNCHANGED listed
           \/ WebFault /\ NextDocroot(TRUE) /\ UNCHANGED listed
    /\ UNCHANGED <<start, webSites, Reading, exit, domainVars>>

Sending == IF unsent = {} THEN NextDocroot(FALSE)
           ELSE pc' = "send" /\ UNCHANGED <<at, Parcels, webFailed>>

\* The first free <docroot>-bak name.
BakOf(root) ==
    LET name(n) == Front(root) \o <<<<Last(root)[1], n>>>>
        free == {n \in 1 .. Cardinality(DOMAIN live) + 1 : ~Exists(name(n), live)}
    IN  name(CHOOSE n \in free : \A k \in free : n <= k)

Moved(root, ps) ==
    Mkdir(root, Overlay(Only(live, DOMAIN live \ ps),
                        [q \in {BakOf(root) \o Rel(root, p) : p \in ps} |->
                            live[root \o Rel(BakOf(root), q)]]))

\* backupDest: public_html itself is never renamed; the system entries are moved
\* back.  A failure comes before the rename, or before they are back, or is a
\* lost answer.
PutAside ==
    /\ pc = "aside"
    /\ LET root == Item.to
           content == Entries(root, live)
       IN  \/ /\ root # Public /\ NoWebFault
              /\ live' = IF content = {} THEN Mkdir(root, live) ELSE Moved(root, content)
              /\ Sending
           \/ root = Public /\ NoWebFault /\ NextDocroot(TRUE) /\ UNCHANGED live
           \/ /\ root # Public /\ WebFault /\ NextDocroot(TRUE)
              /\ live' \in {live} \cup (IF content = {} THEN {Mkdir(root, live)}
                                        ELSE {Moved(root, content), Moved(root, Under(root, live))})
    /\ UNCHANGED <<start, site, locked, before, late, webEdits, Reading, listed, exit, domainVars>>

\* emptyDest, once for all batches.  What could not be removed is an error.
EmptyDest ==
    /\ pc = "wipe"
    /\ \/ /\ NoWebFault /\ live' = Without(live, Entries(Item.to, live), Item.to) /\ Sending
       \/ /\ WebFault /\ NextDocroot(TRUE)
          /\ \E gone \in SUBSET Entries(Item.to, live) : live' = Without(live, gone, Item.to)
    /\ UNCHANGED <<start, site, locked, before, late, webEdits, Reading, listed, exit, domainVars>>

\* SplitBatches.
NextParcel ==
    /\ pc = "send" /\ parcel = {}
    /\ \E b \in SUBSET unsent \ {{}} : parcel' = b /\ unsent' = unsent \ b
    /\ attempt' = 0 /\ NoWebFault
    /\ UNCHANGED <<start, webSites, at, Reading, webFailed, listed, pc, exit, domainVars>>

\* The listed paths that the source's tar still finds, and their entries.
Found(rs) == IF Barred(Item.from) THEN {}
             ELSE {r \in rs : Exists(Item.from \o r, site) /\ ~Barred(Item.from \o r)}
EntryOf(r) == IF Item.from \o r \in DOMAIN site THEN site[Item.from \o r] ELSE "dir"

\* tar -x into the docroot, which is made if it is missing.
Extracted(rs, torn) ==
    Overlay(Mkdir(Item.to, live),
            [p \in {Item.to \o r : r \in rs \cup torn} |->
                IF Rel(Item.to, p) \in torn THEN "torn" ELSE EntryOf(Rel(Item.to, p))])

SendParcel ==
    /\ pc = "send" /\ parcel # {} /\ Found(parcel) = parcel
    /\ live' = Extracted(parcel, {}) /\ NoWebFault
    /\ IF unsent = {} THEN NextDocroot(FALSE)
       ELSE parcel' = {} /\ attempt' = 0 /\ UNCHANGED <<pc, at, unsent, webFailed>>
    /\ UNCHANGED <<start, site, locked, before, late, webEdits, Reading, listed, exit, domainVars>>

\* An attempt fails: because of a path that is gone, after the others were
\* sent, or because the stream breaks or stalls.  RetryBatch repeats it.
ParcelFails ==
    /\ pc = "send" /\ parcel # {}
    /\ \/ Found(parcel) # parcel /\ live' = Extracted(Found(parcel), {}) /\ NoWebFault
       \/ /\ WebFault
          /\ \E arrived \in SUBSET Found(parcel) :
             \E torn \in {{}} \cup {{r} : r \in {f \in Found(parcel) \ arrived : EntryOf(f) \in Bodies}} :
                live' = Extracted(arrived, torn)
    /\ IF attempt + 1 < WebRetries THEN attempt' = attempt + 1 /\ UNCHANGED <<pc, at, unsent, parcel, webFailed>>
       ELSE NextDocroot(TRUE)
    /\ UNCHANGED <<start, site, locked, before, late, webEdits, Reading, listed, exit, domainVars>>

-----------------------------------------------------------------------------
(* The verification.                                                       *)

\* Type, size and link target of every path.
Meta(v) == [r \in DOMAIN v |-> IF v[r] \in {"v1", "v2"} THEN "file" ELSE v[r]]

\* The verdict on a docroot; after the last one applyOutcome.
Verdict(hard, noted) ==
    LET diff == webDiff \/ hard
        noteds == IF noted THEN notes \cup {at} ELSE notes
        end == at = Len(start.items)
    IN  /\ webDiff' = diff /\ notes' = noteds /\ manifest' = NoManifest
        /\ at' = IF end THEN at ELSE at + 1
        /\ pc' = IF end THEN "done" ELSE "manifest"
        /\ exit' = IF ~end THEN exit
                   ELSE IF diff \/ webFailed \/ failed \/ blocked THEN "issues"
                   ELSE IF noteds # {} THEN "noted" ELSE "clean"

Read(step, v) == /\ pc' = step /\ manifest' = [ok |-> TRUE, view |-> v]
                 /\ UNCHANGED <<at, webDiff, notes, exit>>
Go(step) == pc' = step /\ UNCHANGED <<manifest, at, webDiff, notes, exit>>

VerifyFrame == UNCHANGED <<start, webSites, Parcels, webFailed, listed, domainVars>>

\* A manifest above DeepByteCap is not hashed.
Hashing == start.deep /\ ~start.huge

\* GetManifest of the source.  A docroot that was not copied, and one that is
\* absent or empty, are not compared.
SourceManifest ==
    /\ pc = "manifest"
    /\ LET v == View(Item.from, site) IN
       \/ at \notin Actionable /\ Verdict(FALSE, FALSE) /\ NoWebFault
       \/ /\ at \in Actionable /\ NoWebFault
          /\ IF Absent(Item.from) THEN Verdict(FALSE, FALSE)
             ELSE IF Barred(Item.from) \/ Partial(Item.from) \/ \E r \in DOMAIN v : ~Safe(r)
                  THEN Verdict(TRUE, FALSE)
             ELSE IF v = <<>> THEN Verdict(FALSE, FALSE)
             ELSE Read("against", v)
       \/ at \in Actionable /\ WebFault /\ Verdict(TRUE, FALSE)
    /\ VerifyFrame

DiffLosses(s, d) == \/ \E r \in DOMAIN s : r \notin DOMAIN d \/ Meta(s)[r] # Meta(d)[r]
                    \/ Hashing /\ ~start.big /\ ~start.tools

\* DiffManifests: nothing missing, extra, of another type, size or target, and
\* with hashes no other body.
DiffManifests(s, d) == Meta(s) # Meta(d) \/ (Hashing /\ ~start.big /\ (s # d \/ ~start.tools))

\* After a clean comparison: the content gate of the default tier, and of a
\* docroot above the manifest cap.
ContentGate == IF start.deep /\ ~start.big THEN Verdict(FALSE, start.huge)
               ELSE IF start.huge THEN Verdict(FALSE, TRUE) ELSE Go("bodies")

DestManifest ==
    /\ pc = "against"
    /\ \/ /\ NoWebFault
          /\ IF start.big THEN Go("names")
             ELSE IF DiffManifests(manifest.view, View(Item.to, live)) THEN Verdict(TRUE, FALSE)
             ELSE ContentGate
       \/ WebFault /\ Verdict(TRUE, FALSE)
    /\ VerifyFrame

\* verifyWebFallback above the manifest cap: both sides are read again.
SourceNames ==
    /\ pc = "names"
    /\ \/ /\ NoWebFault
          /\ IF Barred(Item.from) \/ Absent(Item.from) \/ ~start.tools THEN Verdict(TRUE, FALSE)
             ELSE Read("namesagainst", Readable(Item.from))
       \/ WebFault /\ Verdict(TRUE, FALSE)
    /\ VerifyFrame

DestNames ==
    /\ pc = "namesagainst"
    /\ \/ /\ NoWebFault
          /\ IF Meta(manifest.view) # Meta(View(Item.to, live)) THEN Verdict(TRUE, FALSE) ELSE ContentGate
       \/ WebFault /\ Verdict(TRUE, FALSE)
    /\ VerifyFrame

\* verifyWebContentDigest: the source's fingerprint, if there is one.
SourceBodies ==
    /\ pc = "bodies"
    /\ \/ /\ NoWebFault
          /\ IF Barred(Item.from) \/ Absent(Item.from) \/ ~start.tools
             THEN pc' = "bodiesagainst" /\ manifest' = NoManifest /\ UNCHANGED <<at, webDiff, notes, exit>>
             ELSE Read("bodiesagainst", Readable(Item.from))
       \/ WebFault /\ Verdict(TRUE, FALSE)
    /\ VerifyFrame

\* Fingerprints that differ are a hard difference; one that is missing is a note.
DestBodies ==
    /\ pc = "bodiesagainst"
    /\ \/ /\ NoWebFault
          /\ IF ~manifest.ok \/ ~Exists(Item.to, live) THEN Verdict(FALSE, TRUE)
             ELSE Verdict(manifest.view # View(Item.to, live), FALSE)
       \/ WebFault /\ Verdict(TRUE, FALSE)
    /\ VerifyFrame

\* Ctrl-C: the run ends with the context's error.
WebInterrupt ==
    /\ pc \in WebSteps /\ WebFault /\ pc' = "done" /\ exit' = "issues"
    /\ UNCHANGED <<start, webSites, webFlow, domainVars>>

-----------------------------------------------------------------------------
(* The owners of the two sites.                                            *)

WebEdit == /\ pc \in WebSteps /\ webEdits < MaxWebEdits /\ webEdits' = webEdits + 1
           /\ quiet' = FALSE /\ late' = (late \/ pc \in VerifySteps)
           /\ UNCHANGED <<start, webFlow, pc, exit, faults, domainVars>>

\* A file of the source is rewritten with the same size, added or deleted.
SiteWrite(p) ==
    /\ WebEdit /\ ~Barred(p)
    /\ p \in DOMAIN site => site[p] = "v1"
    /\ site' = Overlay(site, Leaf(p, "v2"))
    /\ UNCHANGED <<live, locked, before>>

SiteDelete(p) ==
    /\ p \in DOMAIN site /\ site[p] # "dir"
    /\ WebEdit /\ site' = Without(site, {p}, Front(p))
    /\ UNCHANGED <<live, locked, before>>

\* A docroot of the source is removed, or loses its permissions.
SiteVanish(root) ==
    /\ Exists(root, site)
    /\ WebEdit /\ site' = Only(site, {p \in DOMAIN site : ~IsPrefix(root, p)})
    /\ UNCHANGED <<live, locked, before>>

SiteLock(root) ==
    /\ Exists(root, site) /\ root \notin locked
    /\ WebEdit /\ locked' = locked \cup {root}
    /\ UNCHANGED <<site, live, before>>

\* Somebody uploads a file to the destination.
LiveWrite(p) ==
    /\ Exists(Front(p), live) /\ Under(p, live) = {}
    /\ p \in DOMAIN live => live[p] = "v1"
    /\ WebEdit /\ live' = Overlay(live, Leaf(p, "v2")) /\ before' = Overlay(before, Leaf(p, "v2"))
    /\ UNCHANGED <<site, locked>>

WebDomains ==
    /\ ApplyDomain
    /\ quiet' = (quiet /\ faults' = faults)
    /\ UNCHANGED <<start, webFlow, webSites>>

WebTool == \/ WebDomains \/ Preflight \/ PassOver \/ ListDocroot \/ PutAside \/ EmptyDest
           \/ NextParcel \/ SendParcel \/ ParcelFails
           \/ SourceManifest \/ DestManifest \/ SourceNames \/ DestNames
           \/ SourceBodies \/ DestBodies \/ WebInterrupt

WebOwners ==
    \E i \in DOMAIN start.items :
       LET it == start.items[i] IN
       \/ SiteWrite(it.from \o <<Name("index")>>) \/ SiteWrite(it.from \o <<Name("new")>>)
       \/ SiteDelete(it.from \o <<Name("index")>>)
       \/ SiteVanish(it.from) \/ SiteLock(it.from)
       \/ it.to # <<>> /\ (LiveWrite(it.to \o <<Name("index")>>) \/ LiveWrite(it.to \o <<Name("new")>>))

WebNext == WebTool \/ WebOwners

-----------------------------------------------------------------------------
(* Properties.                                                             *)

\* A clean exit means that every docroot which the run targeted is a mirror of
\* its source, in its bodies too unless the report notes them, although docroots
\* lie inside each other, copies are cut short and repeated, and the owners write
\* until the verification begins (CopyDocroot, verifyWebFiles).
CleanMeansMirrored ==
    exit \in {"clean", "noted"} /\ ~late =>
        \A i \in Actionable :
           LET it == start.items[i]
               s == View(it.from, site)
               d == View(it.to, live)
           IN  ~Absent(it.from) /\ s # <<>> =>
                  Meta(s) = Meta(d) /\ (i \notin notes => s = d)

\* A docroot whose source had no file, so that its content was to be put aside.
Bared(root) == \E i \in Actionable : listed[i] = "bare" /\ start.items[i].to = root

\* q is the path p, but for the -bak suffixes of such docroots around it.
Relocated(p, q) ==
    /\ Len(q) = Len(p)
    /\ \A k \in DOMAIN p : q[k] = p[k] \/ (q[k][1] = p[k][1] /\ Bared(SubSeq(p, 1, k)))

\* The source of a docroot around p had a file; p is not in one of its system
\* entries, unless that entry is a docroot that was put aside.
Replaced(p) ==
    \E i \in Actionable :
       LET root == start.items[i].to IN
       /\ listed[i] = "files" /\ IsStrictPrefix(root, p)
       /\ ~Kept(root, p) \/ Bared(SubSeq(p, 1, Len(root) + 1))

\* An owner wrote p during the run, in a docroot that was put aside.
WrittenInBared(p) ==
    /\ p \notin DOMAIN start.live \/ start.live[p] # before[p]
    /\ \E i \in Actionable : Bared(start.items[i].to) /\ IsStrictPrefix(start.items[i].to, p)

Remains(p) == \E q \in DOMAIN live : live[q] = before[p] /\ Relocated(p, q)

\* The destination loses only what the source replaces: a file of it stays
\* where it is, or is found under -bak directories, one for every docroot around
\* it whose source had no file, unless the source of a docroot around it had one.
\* What an owner writes during the run into a docroot without files on the source
\* may give way to a directory of the source (listSrcFiles' "refusing to touch
\* the destination", CopyDocroot's "the destination is NOT wiped").
SourceDecides ==
    \A p \in {q \in DOMAIN before : before[q] # "dir"} :
       Remains(p) \/ Replaced(p) \/ WrittenInBared(p)

\* An undisturbed run ends cleanly when every docroot has content and a target of
\* its own.
QuietIsClean == exit # "none" /\ quiet => exit = "clean"
=============================================================================
