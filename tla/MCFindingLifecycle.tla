------------------------- MODULE MCFindingLifecycle -------------------------
(* Instances of FindingLifecycle for TLC.                                  *)
EXTENDS FindingLifecycle

CONSTANTS f1, f2, t1, t2
=============================================================================
