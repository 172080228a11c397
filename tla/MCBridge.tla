------------------------------ MODULE MCBridge ------------------------------
(* Archives longer than a window, the four attempts of the code.           *)
EXTENDS Bridge
=============================================================================
