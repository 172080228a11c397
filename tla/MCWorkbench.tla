----------------------------- MODULE MCWorkbench -----------------------------
(***************************************************************************)
(* Small instances of Workbench for TLC.                                   *)
(***************************************************************************)
EXTENDS Workbench, TLC

CONSTANTS r1, r2, r3

Symmetry == Permutations({r1, r2, r3})

TwoAreas  == {"email", "cron"}
SomeScopes == {{"email"}, {"email", "cron"}}

Ask(kinds, targets, areas, scopes) ==
    [kind : kinds, to : targets, force : BOOLEAN, area : areas, scope : scopes]

\* Operators change status and scope and attach artifacts while actions run.
Everything ==
    Ask({"set"}, {"ready_for_cutover", "blocked"}, {"email"}, {{"email"}})
      \cup [kind : {"attach", "apply", "migrate"}, to : {"draft"}, force : {FALSE}, area : {"email"},
            scope : {{"email"}}]
      \cup [kind : {"scope"}, to : {"draft"}, force : {FALSE}, area : {"email"}, scope : SomeScopes]
      \cup [kind : {"verify"}, to : {"draft"}, force : {FALSE}, area : TwoAreas,
            scope : {{"email"}}]

=============================================================================
