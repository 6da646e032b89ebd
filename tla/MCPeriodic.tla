----------------------------- MODULE MCPeriodic -----------------------------
(* Small instances of Periodic for TLC: the constants are in the configs. *)
EXTENDS Periodic
=============================================================================
