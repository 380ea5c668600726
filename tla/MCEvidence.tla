----------------------------- MODULE MCEvidence -----------------------------
(***************************************************************************)
(* Instances for TLC of the lifecycle of findings and of the parts that    *)
(* bring it evidence or take it away: endpoint traces, scan bundles and    *)
(* retention.  The modules share no variable; a behaviour takes the steps  *)
(* of one of them, so that their state spaces add up.                      *)
(***************************************************************************)
EXTENDS FindingLifecycle, Retention, ScanBundles, TraceCoverage, TLC

CONSTANTS f1, t1

VARIABLE focus

\* The replicas run the same code.
Replicas == Permutations(Sweepers) \cup Permutations(Servers)

MCPolicies ==
    {[enabled |-> TRUE, days |-> 1, adhoc |-> TRUE], [enabled |-> TRUE, days |-> 2, adhoc |-> FALSE],
     [enabled |-> FALSE, days |-> 1, adhoc |-> FALSE], [enabled |-> TRUE, days |-> 0, adhoc |-> FALSE]}

At(host, port, scheme) == [host |-> host, port |-> port, scheme |-> scheme]
Nowhere == At("", 0, "")
Event(template, type, address, input, error) ==
    [kind |-> "event", template |-> template, type |-> type,
     address |-> address, input |-> input, error |-> error]
Noise(kind) == [Event("?", "tcp", Nowhere, Nowhere, "absent") EXCEPT !.kind = kind]

\* One endpoint in two spellings, one known by its input only, a third pair that
\* is one too many; a failed and an unmapped request, a host without a port, a
\* port that is none, a record without a status, and lines that are no record.
MCLines ==
    {Event("x", "http", At("a", 80, ""), Nowhere, "none"),
     Event("x", "http", At("a", 0, "http"), Nowhere, "none"),
     Event("x", "ssl", At("a", 70000, ""), At("b", 0, ""), "none"),
     Event("y", "dns", At("a", 0, ""), Nowhere, "none"),
     Event("y", "tcp", At("a", 80, ""), Nowhere, "failed"),
     Event("?", "tcp", At("a", 80, ""), Nowhere, "none"),
     Event("x", "tcp", At("a", 0, ""), Nowhere, "none"),
     Event("x", "http", At("a", 0, "http"), Nowhere, "absent"),
     Noise("malformed"), Noise("oversized"), Noise("blank")}

EvidenceInit ==
    /\ focus \in {"lifecycle", "retention", "bundles", "trace"}
    /\ Init /\ RetentionInit /\ BundlesInit /\ TraceInit

EvidenceNext ==
    /\ UNCHANGED focus
    /\ \/ focus = "lifecycle" /\ Next /\ UNCHANGED <<retentionVars, bundleVars, traceVars>>
       \/ focus = "retention" /\ RetentionNext /\ UNCHANGED <<vars, bundleVars, traceVars>>
       \/ focus = "bundles" /\ BundlesNext /\ UNCHANGED <<vars, retentionVars, traceVars>>
       \/ focus = "trace" /\ TraceNext /\ UNCHANGED <<vars, retentionVars, bundleVars>>

EvidenceSpec ==
    EvidenceInit /\ [][EvidenceNext]_<<focus, vars, retentionVars, bundleVars, traceVars>>
=============================================================================
