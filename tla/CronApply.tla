------------------------------ MODULE CronApply ------------------------------
(***************************************************************************)
(* `inventory cron-plan`, `cron apply`, its rollback and `cron verify`     *)
(* (accountinventory/cronplan.go, cmd/.../cron_apply_cmd.go and            *)
(* cron_verify_cmd.go).  `crontab -` replaces the whole crontab, so the    *)
(* apply reads it, appends to it and installs the result, while its owner  *)
(* goes on editing.  The files are those of the session's directory.       *)
(***************************************************************************)
EXTENDS Naturals, Sequences, SequencesExt, FiniteSets

CONSTANTS
    Names,        \* numbers: commands as redacted, and names of variables
    Rests,        \* schedules with the redacted part, values of variables
    SourceTabs,   \* what the source's crontab may hold
    DestTabs,     \* what the destination's may hold at the start
    OwnerLines,   \* lines that the owner adds, removes or comments out
    MaxEdits, MaxRuns, MaxFaults,   \* bounds
    Missing       \* a file that is absent or torn

\* A job (on is FALSE for one that is commented out) or a variable.  home
\* tells whose home directory its command names.
Lines == [kind : {"job", "env"}, name : Names, home : {"source", "dest", "none"},
          rest : Rests, on : BOOLEAN]

ASSUME CronApplyAssumption ==
    /\ Names \subseteq Nat
    /\ SourceTabs \subseteq Seq(Lines) /\ DestTabs \subseteq Seq(Lines)
    /\ OwnerLines \subseteq Lines
    /\ MaxEdits \in Nat /\ MaxRuns \in Nat /\ MaxFaults \in Nat

VARIABLES
    tab,      \* the destination's crontab
    source,   \* the source's
    plan,     \* cron_apply_plan.json: a sequence of ops
    backup,   \* cron_backup.json: the crontab that the apply read
    report,   \* cron_apply_report.json: the result of its creates
    pc,
    current,  \* the crontab as the run read it
    result,   \* what the run found out about its install
    late,     \* lines that the owner touched after the run's reading
    touched,  \* the owner edited after the last install
    seen,     \* the crontab that the plan was made from, if both were readable
    edits, runs, faults

files  == <<plan, backup, report>>
locals == <<pc, current, result>>
bounds == <<edits, runs, faults>>
vars   == <<tab, source, files, locals, late, touched, seen, bounds>>

Init ==
    /\ tab \in DestTabs /\ source \in SourceTabs
    /\ plan = <<>> /\ backup = Missing /\ report = Missing
    /\ pc = "idle" /\ current = <<>> /\ result = "none"
    /\ late = {} /\ touched = FALSE /\ seen = Missing
    /\ edits = 0 /\ runs = 0 /\ faults = 0

Fault == faults < MaxFaults /\ faults' = faults + 1

\* The members of S in the order R: the k-th is the one with k - 1 before it.
Arranged(S, R) ==
    [k \in 1..Cardinality(S) |-> CHOOSE x \in S : Cardinality({y \in S : <<y, x>> \in R}) = k - 1]

\* The lines of s at the places ks.
Picked(s, ks) ==
    LET at == Arranged(ks, {p \in ks \X ks : p[1] < p[2]}) IN [k \in DOMAIN at |-> s[at[k]]]

\* crontab -e.
OwnerEdit(l) ==
    /\ edits < MaxEdits /\ edits' = edits + 1
    /\ \/ ~ Contains(tab, l) /\ tab' = Append(tab, l) /\ late' = late \cup {l}
       \/ Contains(tab, l) /\ tab' = Picked(tab, {k \in DOMAIN tab : tab[k] # l}) /\ late' = late \cup {l}
       \/ /\ Contains(tab, l) /\ l.kind = "job" /\ l.on
          /\ LET off == [l EXCEPT !.on = FALSE] IN
             /\ tab' = [k \in DOMAIN tab |-> IF tab[k] = l THEN off ELSE tab[k]]
             /\ late' = late \cup {l, off}
    /\ touched' = TRUE
    /\ UNCHANGED <<source, files, locals, seen, runs, faults>>

-----------------------------------------------------------------------------
(* BuildCronPlan                                                           *)

\* Jobs match by the hash of the redacted command, variables by name.
Key(l)       == IF l.kind = "job" THEN <<"job", l.name, l.home>> ELSE <<"env", l.name, "none">>
Matches(t, l) == {k \in DOMAIN t : Key(t[k]) = Key(l)}

\* The first job, or the last variable, of the destination with that key.
Match(t, l) ==
    LET ks == Matches(t, l) IN
    t[CHOOSE k \in ks : \A j \in ks : IF l.kind = "job" THEN k <= j ELSE k >= j]

adaptCronPath(l) == [l EXCEPT !.home = IF l.home = "source" THEN "dest" ELSE l.home]

PlanOp(l, dest) ==
    IF l.kind = "job" /\ ~l.on THEN [action |-> "manual", line |-> l]
    ELSE IF Matches(dest, l) = {}
    THEN [action |-> "create", line |-> IF l.kind = "job" THEN adaptCronPath(l) ELSE l]
    ELSE IF Match(dest, l) = l THEN [action |-> "skip", line |-> l]
    ELSE [action |-> "manual", line |-> l]

\* Of two commands that differ only in the home directory they name.
Place == [dest |-> 1, none |-> 2, source |-> 3]

KeyBefore(l, m) == IF l.name = m.name THEN Place[l.home] < Place[m.home] ELSE l.name < m.name

\* Mutant: jobs before variables.
JobsFirst(l, m) == IF l.kind = m.kind THEN KeyBefore(l, m) ELSE l.kind = "job"

\* Variables before jobs, in the order of their keys.
Before(l, m) == IF l.kind = m.kind THEN KeyBefore(l, m) ELSE l.kind = "env"

\* The first line of every key.
Firsts(t) == {k \in DOMAIN t : \A j \in Matches(t, t[k]) : k <= j}

\* The first source line of every key gets an op.
BuildCronPlan(src, dest) ==
    LET at == Arranged(Firsts(src), {p \in Firsts(src) \X Firsts(src) : Before(src[p[1]], src[p[2]])})
    IN  [k \in DOMAIN at |-> PlanOp(src[at[k]], dest)]

\* A crontab that could not be read makes an empty plan.
MakePlan ==
    /\ pc = "idle" /\ runs < MaxRuns /\ runs' = runs + 1
    /\ \/ plan' = BuildCronPlan(source, tab) /\ seen' = tab /\ UNCHANGED faults
       \/ plan' = <<>> /\ seen' = Missing /\ Fault
    /\ UNCHANGED <<tab, source, backup, report, locals, late, touched, edits>>

-----------------------------------------------------------------------------
(* runCronApplyWrites                                                      *)

Creates == Picked(plan, {k \in DOMAIN plan : plan[k].action = "create"})
NewLines == [k \in DOMAIN Creates |-> Creates[k].line]

\* Without a create the report is written and no connection is made.  The
\* guard against a stale plan compares PlanTimeDestCrontab, which no plan has:
\* it never refuses.
ReadCrontab ==
    /\ pc = "idle" /\ runs < MaxRuns /\ runs' = runs + 1
    /\ plan # <<>>
    /\ \/ /\ Creates = <<>>
          /\ pc' = "report"
          /\ UNCHANGED <<current, late, faults>>
       \/ /\ Creates # <<>>
          /\ pc' = "backup" /\ current' = tab /\ late' = {}
          /\ UNCHANGED faults
       \/ /\ Creates # <<>> /\ Fault
          /\ UNCHANGED <<pc, current, late>>
    /\ UNCHANGED <<tab, source, files, result, touched, seen, edits>>

WriteBackup ==
    /\ pc = "backup"
    /\ \/ backup' = current /\ pc' = "install" /\ UNCHANGED faults
       \/ Fault /\ backup' \in {backup, Missing} /\ pc' = "idle"
    /\ UNCHANGED <<tab, source, plan, report, current, result, late, touched, seen, edits, runs>>

\* Mutant: the text is made anew from the jobs and variables that were parsed.
MergedParsed == Picked(current, {k \in DOMAIN current : current[k].on}) \o NewLines

Merged == current \o NewLines

\* crontab - is carried out or not; an error tells nothing.
Install(content, next, failed) ==
    \E effect, ok \in BOOLEAN :
        /\ ok => effect
        /\ IF effect THEN tab' = content /\ touched' = FALSE ELSE UNCHANGED <<tab, touched>>
        /\ IF ok THEN pc' = next /\ UNCHANGED <<result, faults>>
                 ELSE pc' = failed /\ result' = "failed" /\ Fault

InstallMerged ==
    /\ pc = "install"
    /\ Install(Merged, "verify", "report")
    /\ UNCHANGED <<source, files, current, late, seen, edits, runs>>

\* A line is there if the text has it, commented out or not.
HasText(t, l) == \E k \in DOMAIN t : [t[k] EXCEPT !.on = TRUE] = [l EXCEPT !.on = TRUE]

VerifyAfter ==
    /\ pc = "verify"
    /\ \/ /\ result' = IF \A k \in DOMAIN NewLines : HasText(tab, NewLines[k]) THEN "applied" ELSE "failed"
          /\ UNCHANGED faults
       \/ Fault /\ result' = "failed"
    /\ pc' = "report"
    /\ UNCHANGED <<tab, source, files, current, late, touched, seen, edits, runs>>

finishCronReport ==
    /\ pc = "report"
    /\ \/ report' = result /\ UNCHANGED faults
       \/ Fault /\ report' \in {report, Missing}
    /\ pc' = "idle" /\ current' = <<>> /\ result' = "none"
    /\ UNCHANGED <<tab, source, plan, backup, late, touched, seen, edits, runs>>

-----------------------------------------------------------------------------
(* verifyCronPlan                                                          *)

\* A manual op is not clean.
Clean(p, t) == \A k \in DOMAIN p : p[k].action # "manual" /\ HasText(t, p[k].line)

-----------------------------------------------------------------------------
(* runCronRollback: the backup is installed, whatever the crontab holds    *)

StartRollback ==
    /\ pc = "idle" /\ runs < MaxRuns /\ runs' = runs + 1
    /\ backup # Missing
    /\ pc' = "restore"
    /\ UNCHANGED <<tab, source, files, current, result, late, touched, seen, edits, faults>>

RestoreBackup ==
    /\ pc = "restore"
    /\ Install(backup, "rverify", "rreport")
    /\ UNCHANGED <<source, files, current, late, seen, edits, runs>>

VerifyRestore ==
    /\ pc = "rverify"
    /\ \/ result' = (IF tab = backup THEN "applied" ELSE "failed") /\ UNCHANGED faults
       \/ Fault /\ result' = "failed"
    /\ pc' = "rreport"
    /\ UNCHANGED <<tab, source, files, current, late, touched, seen, edits, runs>>

EndRollback ==
    /\ pc = "rreport"
    /\ pc' = "idle" /\ result' = "none"
    /\ UNCHANGED <<tab, source, files, current, late, touched, seen, bounds>>

Crash ==
    /\ pc # "idle" /\ Fault
    /\ backup' \in (IF pc = "backup" THEN {backup, Missing} ELSE {backup})
    /\ report' \in (IF pc = "report" THEN {report, Missing} ELSE {report})
    /\ pc' = "idle" /\ current' = <<>> /\ result' = "none"
    /\ UNCHANGED <<tab, source, plan, late, touched, seen, edits, runs>>

Next ==
    \/ MakePlan \/ ReadCrontab \/ WriteBackup \/ InstallMerged \/ VerifyAfter \/ finishCronReport
    \/ StartRollback \/ RestoreBackup \/ VerifyRestore \/ EndRollback \/ Crash
    \/ \E l \in OwnerLines : OwnerEdit(l)

Spec == Init /\ [][Next]_vars

-----------------------------------------------------------------------------
TypeOK ==
    /\ tab \in Seq(Lines) /\ source \in Seq(Lines) /\ current \in Seq(Lines)
    /\ plan \in Seq([action : {"create", "skip", "manual"}, line : Lines])
    /\ backup = Missing \/ backup \in Seq(Lines)
    /\ report = Missing \/ report \in {"none", "applied", "failed"}
    /\ pc \in {"idle", "backup", "install", "verify", "report", "restore", "rverify", "rreport"}
    /\ result \in {"none", "applied", "failed"}
    /\ late \subseteq Lines /\ touched \in BOOLEAN /\ (seen = Missing \/ seen \in Seq(Lines))
    /\ edits \in 0..MaxEdits /\ runs \in 0..MaxRuns /\ faults \in 0..MaxFaults

\* An apply loses no line of the crontab, whatever plan it follows and however
\* old that is, but those touched between its reading and its install.
OwnerLinesKept ==
    [][pc = "install" /\ edits' = edits =>
         \A k \in DOMAIN tab : tab[k] \in late \/ Contains(tab', tab[k])]_vars

\* As long as nobody edited the crontab after the last install, a rollback
\* only takes lines off its end.
RollbackOnlyRemoves == backup # Missing /\ ~touched => IsPrefix(backup, tab)

\* The only definition of a variable in the source, if it precedes every job.
Defines(l) ==
    /\ l.kind = "env" /\ Contains(source, l)
    /\ Cardinality(Matches(source, l)) = 1
    /\ \A k \in DOMAIN source : source[k].kind = "job" =>
          \E j \in DOMAIN source : j < k /\ source[j] = l

\* The value of a variable for the line at k.
InEffect(t, k, name) ==
    LET at == {j \in 1..(k - 1) : t[j].kind = "env" /\ t[j].name = name} IN
    IF at = {} THEN Missing ELSE t[CHOOSE j \in at : \A i \in at : i <= j].rest

\* A job that was created finds the variables that it had at the source,
\* except those left to the operator, if the crontab was as the plan saw it.
EnvironmentCarriedOver ==
    pc = "report" /\ result = "applied" /\ current = seen /\ ~touched =>
        \A k \in DOMAIN tab : k > Len(current) /\ tab[k].kind = "job" =>
            \A l \in Range(source) :
                Defines(l) /\ (\E o \in DOMAIN plan : plan[o].line = l /\ plan[o].action # "manual")
                => InEffect(tab, k, l.name) = l.rest

\* A clean verification of a plan that was made from two readable crontabs:
\* the first line of every key of the source is in the destination's text.
CleanMeansMigrated ==
    seen # Missing /\ Clean(plan, tab) =>
        \A k \in Firsts(source) : HasText(tab, source[k]) \/ HasText(tab, adaptCronPath(source[k]))

\* The crontab is sound: created jobs keep their variables, a rollback takes
\* off what the tool appended, and a clean verification means that the source's
\* lines are there (runCronApplyWrites, runCronRollback, verifyCronPlan).
CrontabSound ==
    TypeOK /\ EnvironmentCarriedOver /\ RollbackOnlyRemoves /\ CleanMeansMigrated
=============================================================================
