----------------------------- MODULE MCDaemonTasks -----------------------------
(***************************************************************************)
(* Instances of DaemonTasks for TLC.                                       *)
(***************************************************************************)
EXTENDS DaemonTasks

CONSTANTS t1, t2
=============================================================================
