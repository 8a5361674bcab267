--------------------------- MODULE MCKernelSessions ---------------------------
(***************************************************************************)
(* Instances of KernelSessions for TLC.                                    *)
(***************************************************************************)
EXTENDS KernelSessions

CONSTANTS k1, k2, k3
=============================================================================
