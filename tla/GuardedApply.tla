---------------------------- MODULE GuardedApply ----------------------------
(***************************************************************************)
(* What an apply command with a backup promises the owner of the settings  *)
(* it writes: nothing is changed without a backup, a change is to the      *)
(* planned value, and an undo concerns what the tool itself wrote and      *)
(* brings back what the backup holds.                                      *)
(***************************************************************************)
EXTENDS Naturals

CONSTANTS
    Items, Contents,
    Restorable,  \* items that can be put back from the backup alone
    None

VARIABLES
    live,     \* the settings
    edits,    \* how often somebody else changed one
    want,     \* the planned values, None where nothing is planned
    saved,    \* what the backup says to put back, None without a backup
    written,  \* items that the tool has written since it last took a backup
    undo      \* items that a rollback may touch, None if the report is lost

vars == <<live, edits, want, saved, written, undo>>

Init ==
    /\ live \in [Items -> Contents] /\ edits = 0
    /\ want = [i \in Items |-> None]
    /\ saved = None
    /\ written = {} /\ undo = None

\* Anybody may change a setting.
Edit ==
    /\ \E i \in Items, v \in Contents : live' = [live EXCEPT ![i] = v]
    /\ edits' = edits + 1
    /\ UNCHANGED <<want, saved, written, undo>>

Plan ==
    /\ want' \in [Items -> Contents \cup {None}]
    /\ UNCHANGED <<live, edits, saved, written, undo>>

\* The backup is replaced, or is lost: what is written is counted from here.
Save ==
    /\ saved' \in [Items -> Contents] \cup {None}
    /\ written' = {}
    /\ UNCHANGED <<live, edits, want, undo>>

Write(i) ==
    /\ saved # None
    /\ want[i] # None
    /\ live' = [live EXCEPT ![i] = want[i]]
    /\ written' = written \cup {i}
    /\ UNCHANGED <<edits, want, saved, undo>>

\* The report names the writes that a rollback undoes, or is lost.
Report ==
    /\ undo' = None \/ undo' \subseteq written
    /\ UNCHANGED <<live, edits, want, saved, written>>

Undo(i) ==
    /\ saved # None
    /\ i \in IF undo = None THEN Restorable ELSE undo
    /\ live' = [live EXCEPT ![i] = saved[i]]
    /\ UNCHANGED <<edits, want, saved, written, undo>>

Next == Edit \/ Plan \/ Save \/ Report \/ \E i \in Items : Write(i) \/ Undo(i)

Spec == Init /\ [][Next]_vars
=============================================================================
