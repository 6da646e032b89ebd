---------------------------- MODULE MCMySQLLock ----------------------------
(* Small instances of MySQLLock for TLC: the constants are in the configs. *)
EXTENDS MySQLLock
=============================================================================
