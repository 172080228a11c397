---------------------------- MODULE MCCronApply ----------------------------
EXTENDS CronApply

Job(n, home, rest, on) == [kind |-> "job", name |-> n, home |-> home, rest |-> rest, on |-> on]
Env(n, value)          == [kind |-> "env", name |-> n, home |-> "none", rest |-> value, on |-> TRUE]

\* A job in the account's home directory, one that is the same on both sides,
\* one with two schedules, a disabled one, and two that the adapted home makes
\* the same command; one or two variables.
MCSourceTabs == {<<Env(1, "a"), Job(1, "source", "a", TRUE), Job(2, "none", "a", TRUE)>>,
                 <<Env(1, "a"), Env(2, "b"), Job(1, "source", "b", TRUE)>>,
                 <<Job(1, "source", "a", TRUE), Job(1, "dest", "b", TRUE)>>,
                 <<Job(2, "none", "b", TRUE), Job(2, "none", "a", TRUE), Job(3, "none", "a", FALSE)>>}

MCDestTabs == {<<>>,
               <<Env(1, "a"), Job(2, "none", "a", TRUE)>>,
               <<Env(1, "b"), Job(3, "dest", "b", TRUE), Env(1, "a")>>}

MCOwnerLines == {Job(2, "none", "a", TRUE), Job(3, "dest", "b", TRUE), Env(1, "a")}
=============================================================================
