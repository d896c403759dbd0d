------------------------------ MODULE MCStack ------------------------------
(* Bounds for TLC: one row, three backups on two days of which one is kept. *)
EXTENDS Stack
=============================================================================
