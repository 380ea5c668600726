----------------------------- MODULE ScanBundles -----------------------------
(***************************************************************************)
(* Scan bundles: the export of a scan that may still be running, in two    *)
(* reads, and imports of what was downloaded on several replicas of        *)
(* another instance.  What an import does to lifecycle rows is in          *)
(* FindingLifecycle.                                                       *)
(***************************************************************************)
EXTENDS Integers, FiniteSets

CONSTANTS
    Records,      \* the findings of the exported scan
    Servers,      \* replicas of the importing instance, one import slot each
    OwnId,        \* the id of the exported scan
    FreshIds,     \* ids an import may mint
    MaxFindings,  \* ScanBundleMaxFindings
    MaxDownloads, \* bound: files that differ
    NoLocal, NoImport

ASSUME BundleConstants ==
    /\ {MaxFindings, MaxDownloads} \subseteq Nat
    /\ IsFiniteSet(Records)
    /\ OwnId \notin FreshIds

LocalIds == FreshIds \cup {OwnId}

VARIABLES
    origin,    \* the exported scan: state, the findings ingested so far
    export,    \* the handler between its two reads
    bundles,   \* downloads; torn is history: the scan was deleted between the reads
    import,    \* per replica: the request that holds the import slot
    local      \* scans of the importing instance that came from a bundle

bundleVars == <<origin, export, bundles, import, local>>

NotExporting == [at |-> "idle", state |-> "none", torn |-> FALSE]

BundlesInit ==
    /\ origin = [state |-> "running", found |-> {}]
    /\ export = NotExporting /\ bundles = {}
    /\ import = [v \in Servers |-> NoImport]
    /\ local = [i \in LocalIds |-> NoLocal]

-----------------------------------------------------------------------------
(* The exporting instance                                                  *)

IngestRecord(f) ==
    /\ origin.state = "running"
    /\ origin' = [origin EXCEPT !.found = @ \cup {f}]
    /\ UNCHANGED <<export, bundles, import, local>>

\* A scan completes with all its findings and fails (or is cancelled) with any.
EndOrigin(result) ==
    /\ origin.state = "running"
    /\ result = "complete" => origin.found = Records
    /\ origin' = [origin EXCEPT !.state = result]
    /\ UNCHANGED <<export, bundles, import, local>>

\* The occurrences go with the row.
DeleteOrigin ==
    /\ origin.state \in {"complete", "failed"}
    /\ origin' = [state |-> "gone", found |-> {}]
    /\ export' = [export EXCEPT !.torn = export.at # "idle"]
    /\ UNCHANGED <<bundles, import, local>>

\* ExportScanBundle, first the row ...
ExportRow ==
    /\ export.at = "idle" /\ origin.state # "gone" /\ Cardinality(bundles) < MaxDownloads
    /\ export' = [at |-> "findings", state |-> origin.state, torn |-> FALSE]
    /\ UNCHANGED <<origin, bundles, import, local>>

\* ... then its findings; the download may break off.
ExportFindings(cut) ==
    /\ export.at = "findings"
    /\ bundles' = bundles \cup
          {[state |-> export.state, found |-> origin.found, torn |-> export.torn, cut |-> cut]}
    /\ export' = NotExporting
    /\ UNCHANGED <<origin, import, local>>

-----------------------------------------------------------------------------
(* The importing instance                                                  *)

\* tryAcquireScanBundleImport: a second request on the same replica gets 429.
BeginImport(v, b, id) ==
    /\ import[v] = NoImport
    /\ import' = [import EXCEPT ![v] = [at |-> "check", bundle |-> b, id |-> id]]
    /\ UNCHANGED <<origin, export, bundles, local>>

\* decodeScanBundleUpload and Validate.
Decodable(b) == ~b.cut /\ Cardinality(b.found) <= MaxFindings

\* The upload is read and validated; conflict=error looks for the id, a minted
\* one is not looked for.
CheckConflict(v) ==
    /\ import[v] # NoImport /\ import[v].at = "check"
    /\ Decodable(import[v].bundle)
    /\ import[v].id = OwnId => local[OwnId] = NoLocal
    /\ import' = [import EXCEPT ![v].at = "insert"]
    /\ UNCHANGED <<origin, export, bundles, local>>

\* Mutant: the state is taken over.
StateAsExported(b) == b.state

\* Nobody would ever drive an imported scan.
ImportedState(b) == IF b.state = "running" THEN "failed" ELSE b.state

\* The transaction commits; the primary key has the last word.
ImportScanBundle(v) ==
    /\ import[v] # NoImport /\ import[v].at = "insert"
    /\ local[import[v].id] = NoLocal
    /\ LET b == import[v].bundle IN
       local' = [local EXCEPT ![import[v].id] =
                    [state |-> ImportedState(b), found |-> b.found, torn |-> b.torn]]
    /\ import' = [import EXCEPT ![v] = NoImport]
    /\ UNCHANGED <<origin, export, bundles>>

\* Every refusal and every failure gives the slot back and leaves nothing.
ImportRefused(v) ==
    /\ import[v] # NoImport
    /\ import' = [import EXCEPT ![v] = NoImport]
    /\ UNCHANGED <<origin, export, bundles, local>>

DeleteLocal(i) ==
    /\ local[i] # NoLocal
    /\ local' = [local EXCEPT ![i] = NoLocal]
    /\ UNCHANGED <<origin, export, bundles, import>>

BundlesNext ==
    \/ \E f \in Records : IngestRecord(f)
    \/ \E result \in {"complete", "failed"} : EndOrigin(result)
    \/ DeleteOrigin \/ ExportRow
    \/ \E cut \in BOOLEAN : ExportFindings(cut)
    \/ \E v \in Servers :
          \/ \E b \in bundles, id \in LocalIds : BeginImport(v, b, id)
          \/ CheckConflict(v) \/ ImportScanBundle(v) \/ ImportRefused(v)
    \/ \E i \in LocalIds : DeleteLocal(i)

BundlesSpec == BundlesInit /\ [][BundlesNext]_bundleVars

-----------------------------------------------------------------------------
(* Properties                                                              *)

\* An imported scan that counts as complete, and so as evidence of absence, has
\* every finding of the scan it came from, although the export reads row and
\* findings one after the other while the scan runs; all other imports are
\* terminal and prove nothing.  The exception: the scan was deleted between the
\* two reads (ExportScanBundle, ImportScanBundle).
ImportedCompleteIsWhole ==
    \A i \in LocalIds : local[i] # NoLocal =>
        /\ local[i].state \in {"complete", "failed"}
        /\ local[i].state = "complete" /\ ~local[i].torn => local[i].found = Records
=============================================================================
