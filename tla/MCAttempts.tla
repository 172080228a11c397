----------------------------- MODULE MCAttempts -----------------------------
(***************************************************************************)
(* Small instances of Attempts for TLC.                                    *)
(***************************************************************************)
EXTENDS Attempts, TLC

CONSTANTS w1, w2, s1, s2, r1, r2

TwoWorkers == (s1 :> w1) @@ (s2 :> w2)
=============================================================================
