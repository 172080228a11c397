---------------------------- MODULE MCHostConfig ----------------------------
(***************************************************************************)
(* Small instances of HostConfig for TLC.                                  *)
(***************************************************************************)
EXTENDS HostConfig, TLC

CONSTANTS s1, s2, s3, p, q

Symmetry == Permutations({s1, s2, s3}) \cup Permutations({p, q})
=============================================================================
