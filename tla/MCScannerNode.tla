--------------------------- MODULE MCScannerNode ---------------------------
(* Instances of ScannerNode for TLC.                                       *)
EXTENDS ScannerNode

CONSTANTS j1, j2, d1, d2
=============================================================================
