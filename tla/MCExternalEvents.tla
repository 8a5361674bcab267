--------------------------- MODULE MCExternalEvents ---------------------------
(***************************************************************************)
(* Instances of ExternalEvents for TLC.                                    *)
(***************************************************************************)
EXTENDS ExternalEvents

CONSTANTS e1, e2
=============================================================================
