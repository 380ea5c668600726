---------------------------- MODULE NodeContract ----------------------------
(***************************************************************************)
(* What the backend relies on when it talks to a scanner node, and what    *)
(* ScanOrchestration assumes of it: jobs that are accepted against the     *)
(* active bundle, end once, are forgotten, and a bundle that never changes *)
(* while a job runs.                                                       *)
(***************************************************************************)
EXTENDS Integers, FiniteSets

CONSTANTS
    Jobs,       \* node-local scan ids
    Bundles,    \* bundle digests
    NoBundle,   \* the node holds none yet
    Limit       \* the largest concurrency limit the backend sends

VARIABLES
    job,        \* none, running, complete, failed, cancelled, gone
    bundle,     \* the digest a running job was accepted with
    tree        \* the digest the node reports

vars == <<job, bundle, tree>>

Ended       == {"complete", "failed", "cancelled"}
RunningJobs == {j \in Jobs : job[j] = "running"}

Init ==
    /\ job = [j \in Jobs |-> "none"]
    /\ bundle = [j \in Jobs |-> NoBundle]
    /\ tree \in Bundles \cup {NoBundle}

\* A job is accepted below the limit and only for the digest the node holds.
Accept(j) ==
    /\ job[j] = "none"
    /\ Cardinality(RunningJobs) < Limit
    /\ tree \in Bundles
    /\ bundle' = [bundle EXCEPT ![j] = tree]
    /\ job' = [job EXCEPT ![j] = "running"]
    /\ UNCHANGED tree

\* It ends once; a cancelled job never reads complete or failed.
End(j) ==
    /\ job[j] = "running"
    /\ \E result \in Ended : job' = [job EXCEPT ![j] = result]
    /\ bundle' = [bundle EXCEPT ![j] = NoBundle]
    /\ UNCHANGED tree

\* It is forgotten only after it ended.
Forget ==
    /\ \E expired \in SUBSET {j \in Jobs : job[j] \in Ended} :
          job' = [j \in Jobs |-> IF j \in expired THEN "gone" ELSE job[j]]
    /\ UNCHANGED <<bundle, tree>>

\* A bundle is activated only while no job runs.
Activate ==
    /\ RunningJobs = {}
    /\ tree' \in Bundles
    /\ UNCHANGED <<job, bundle>>

\* A restart forgets every job and recovers a digest from the volume.
Restart ==
    /\ job' = [j \in Jobs |-> IF job[j] = "none" THEN "none" ELSE "gone"]
    /\ bundle' = [j \in Jobs |-> NoBundle]
    /\ tree' \in Bundles \cup {NoBundle}

Next ==
    \/ \E j \in Jobs : Accept(j) \/ End(j)
    \/ Forget \/ Activate \/ Restart

Spec == Init /\ [][Next]_vars
=============================================================================
