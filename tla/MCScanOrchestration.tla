------------------------ MODULE MCScanOrchestration ------------------------
(* Instances of ScanOrchestration for TLC.                                 *)
EXTENDS ScanOrchestration, TLC

CONSTANTS s1, s2, b1, b2

\* Scans are interchangeable wherever no liveness property is checked.
ScanSymmetry == Permutations({s1, s2})

\* So are the backend processes: any of them may own any scan.
ReplicaSymmetry == Permutations({b1, b2})

\* No guard and no property but TypeOK reads what was archived: states that differ
\* only in it are explored once.
WithoutArchive ==
    <<rowVars, mailVars, countVars, pc, runVars, bundle, status, nodeVars, catalog,
      slots, procVars>>
=============================================================================
