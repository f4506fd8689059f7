------------------------------ MODULE MCHealth ------------------------------
(* Health for TLC. *)
EXTENDS Health
=============================================================================
