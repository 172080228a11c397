----------------------------- MODULE HostConfig -----------------------------
(***************************************************************************)
(* host.yaml and the form of the web UI that writes it (internal/webui:    *)
(* saveConfig, writeValidatedConfig and the sweep of New; internal/config: *)
(* Load and validate).                                                     *)
(*                                                                         *)
(* A save loads the present file to inherit its passwords, writes a        *)
(* candidate to a temporary file, lets the CLI's own loader judge it and   *)
(* renames it into place.  Saves are HTTP requests and may overlap.        *)
(***************************************************************************)
EXTENDS Naturals

CONSTANTS
    Saves,      \* the POST /config requests of a behaviour
    Passwords,  \* passwords an operator may type
    MaxEdits,   \* bound on the edits of host.yaml by hand
    Blank       \* an empty field, and the absence of a file

Ends == {"src", "dest"}

\* ip, user, port and timeout are present and in range, or are not.
Hosts   == [endpoint : BOOLEAN, pass : Passwords \cup {Blank}, key : BOOLEAN]
Configs == [src : Hosts, dest : Hosts]
Forms   == [Ends -> [endpoint : BOOLEAN, pass : Passwords \cup {Blank}]]

ASSUME ConfigAssumption ==
    /\ Blank \notin Passwords /\ Blank \notin Configs
    /\ Saves \cap Configs = {}
    /\ MaxEdits \in Nat

VARIABLES
    host,    \* host.yaml
    tmp,     \* the contents of the temporary files, by name
    up,      \* the UI process is running
    form,    \* what each save submits
    loaded,  \* the file each save has read
    saving,  \* where its handler is
    typed,   \* history: the last password a completed save or an edit set
    overlap, \* history: something changed the file, or loaded it, while a save was at work
    edits    \* how often the operator has edited the file by hand

configVars == <<host, tmp, up, form, loaded, saving, typed, overlap, edits>>

-----------------------------------------------------------------------------
(* config.Load                                                             *)

\* validate: an endpoint, and exactly one of a password and a private key.
ValidHost(h) == h.endpoint /\ (h.pass # Blank <=> ~h.key)

\* A destination with nothing in it is the source-only mode.
NoHost == [endpoint |-> FALSE, pass |-> Blank, key |-> FALSE]

ValidConfig(c) == ValidHost(c.src) /\ (ValidHost(c.dest) \/ c.dest = NoHost)

ConfigInit ==
    /\ host = Blank
    /\ tmp = [s \in Saves |-> Blank]
    /\ up = TRUE
    /\ form \in [Saves -> {f \in Forms : f["src"].endpoint}]
    /\ loaded = [s \in Saves |-> Blank]
    /\ saving = [s \in Saves |-> "idle"]
    /\ typed = [e \in Ends |-> Blank]
    /\ overlap = FALSE
    /\ edits = 0

-----------------------------------------------------------------------------
(* A save                                                                  *)

AtWork == {r \in Saves : saving[r] \in {"write", "validate", "rename"}}

\* The zero Config when there is no file.
Load(s) ==
    /\ up /\ saving[s] = "idle"
    /\ loaded' = [loaded EXCEPT ![s] = host]
    /\ saving' = [saving EXCEPT ![s] = "write"]
    /\ overlap' = (overlap \/ AtWork # {})
    /\ UNCHANGED <<host, tmp, up, form, typed, edits>>

\* parseHost: the form knows no private keys.  The port and
\* the timeout are always filled in, so a destination is never left out.
ParseHost(f, prev) ==
    [endpoint |-> f.endpoint,
     pass     |-> IF f.pass = Blank THEN prev ELSE f.pass,
     key      |-> FALSE]

Candidate(s) ==
    LET prev(e) == IF loaded[s] = Blank THEN Blank ELSE loaded[s][e].pass IN
    [src  |-> ParseHost(form[s]["src"], prev("src")),
     dest |-> ParseHost(form[s]["dest"], prev("dest"))]

\* Mutant: every save writes the same temporary file.
TmpNameShared(s) == CHOOSE t \in Saves : TRUE

\* os.CreateTemp
TmpName(s) == s

WriteTmp(s) ==
    /\ saving[s] = "write"
    /\ tmp' = [tmp EXCEPT ![TmpName(s)] = Candidate(s)]
    /\ saving' = [saving EXCEPT ![s] = "validate"]
    /\ UNCHANGED <<host, up, form, loaded, typed, overlap, edits>>

\* config.Load of the temporary file; a refused candidate is removed.  The
\* zero destination of ValidConfig cannot be written by the form.
Validate(s) ==
    LET c == tmp[TmpName(s)] IN
    /\ saving[s] = "validate"
    /\ IF c # Blank /\ ValidHost(c.src) /\ ValidHost(c.dest)
       THEN saving' = [saving EXCEPT ![s] = "rename"] /\ UNCHANGED tmp
       ELSE saving' = [saving EXCEPT ![s] = "done"] /\ tmp' = [tmp EXCEPT ![TmpName(s)] = Blank]
    /\ UNCHANGED <<host, up, form, loaded, typed, overlap, edits>>

\* A rename without its file fails, and nothing changes.
Rename(s) ==
    /\ saving[s] = "rename"
    /\ host' = IF tmp[TmpName(s)] = Blank THEN host ELSE tmp[TmpName(s)]
    /\ tmp' = [tmp EXCEPT ![TmpName(s)] = Blank]
    /\ typed' = [e \in Ends |-> IF form[s][e].pass = Blank THEN typed[e] ELSE form[s][e].pass]
    /\ saving' = [saving EXCEPT ![s] = "done"]
    /\ UNCHANGED <<up, form, loaded, overlap, edits>>

-----------------------------------------------------------------------------
(* The rest of the world                                                   *)

\* host.yaml is meant to be edited by hand too: the operator moves one host
\* from its password to a private key.
Edit(e) ==
    /\ host # Blank /\ edits < MaxEdits
    /\ host' = [host EXCEPT ![e] = [endpoint |-> TRUE, pass |-> Blank, key |-> TRUE]]
    /\ typed' = [typed EXCEPT ![e] = Blank]
    /\ edits' = edits + 1
    /\ overlap' = (overlap \/ AtWork # {})
    /\ UNCHANGED <<tmp, up, form, loaded, saving>>

Kill ==
    /\ up
    /\ up' = FALSE
    /\ saving' = [s \in Saves |-> IF saving[s] = "idle" THEN "idle" ELSE "done"]
    /\ UNCHANGED <<host, tmp, form, loaded, typed, overlap, edits>>

\* New sweeps host.yaml.*.tmp.
Restart ==
    /\ ~up
    /\ up' = TRUE
    /\ tmp' = [s \in Saves |-> Blank]
    /\ UNCHANGED <<host, form, loaded, saving, typed, overlap, edits>>

ConfigNext ==
    \/ \E s \in Saves : Load(s) \/ WriteTmp(s) \/ Validate(s) \/ Rename(s)
    \/ \E e \in Ends : Edit(e)
    \/ Kill
    \/ Restart

ConfigSpec == ConfigInit /\ [][ConfigNext]_configVars

-----------------------------------------------------------------------------
(* Properties                                                              *)

\* Every variable holds values of its kind.
ConfigTyped ==
    /\ host \in Configs \cup {Blank}
    /\ tmp \in [Saves -> Configs \cup {Blank}]
    /\ up \in BOOLEAN
    /\ form \in [Saves -> Forms]
    /\ loaded \in [Saves -> Configs \cup {Blank}]
    /\ saving \in [Saves -> {"idle", "write", "validate", "rename", "done"}]
    /\ typed \in [Ends -> Passwords \cup {Blank}]
    /\ overlap \in BOOLEAN /\ edits \in Nat

\* However saves overlap and whenever the UI dies, host.yaml is a file that the
\* CLI's loader accepts: no save renames what another one wrote.
HostAlwaysLoads == host # Blank => ValidConfig(host)

\* No candidate, with its passwords, stays on disk: while the UI runs, a
\* temporary file belongs to a save in flight.
NoCredentialLingers ==
    up => \A s \in Saves : tmp[s] # Blank => saving[s] \in {"validate", "rename"}

\* A password is the last one that a completed save or an edit gave its host,
\* as long as nothing happened to the file while a save was at work: blank
\* fields inherit, refused and killed saves leave no trace.
PasswordsInherited ==
    host # Blank /\ ~overlap => \A e \in Ends : host[e].pass = typed[e]

\* The file is sound whenever the UI dies and however saves overlap: it loads,
\* its passwords are the operator's, and no copy of them is left behind
\* (saveConfig, writeValidatedConfig, New).
ConfigSound == ConfigTyped /\ HostAlwaysLoads /\ PasswordsInherited /\ NoCredentialLingers
=============================================================================
