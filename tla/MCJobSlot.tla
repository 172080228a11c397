------------------------------ MODULE MCJobSlot ------------------------------
(***************************************************************************)
(* A small instance of JobSlot for TLC: two requests that ask for the      *)
(* slot, of any kind, and one page view.                                   *)
(***************************************************************************)
EXTENDS JobSlot

CONSTANTS q1, q2, q3

MCOffered == [q \in {q1, q2, q3} |-> IF q = q3 THEN {"view"} ELSE RequestKinds \ {"view"}]
=============================================================================
