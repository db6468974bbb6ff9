--------------------------- MODULE MCScannerPool ---------------------------
(***************************************************************************)
(* Instances of ScannerPool for TLC.                                       *)
(***************************************************************************)
EXTENDS ScannerPool

CONSTANTS w1, w2, c1, c2

MCWorkers == {w1, w2}
MCCallers == {c1, c2}
MCOutcomes == {"clean", "blocked"}
=============================================================================
