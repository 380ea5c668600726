-------------------------- MODULE ScanOrchestration --------------------------
(***************************************************************************)
(* The backend's scan orchestration: one goroutine per submitted scan      *)
(* (Orchestrator.run), the scans and scan_notification_outbox tables it    *)
(* shares with the cancel, delete and startup paths, one scanner node and  *)
(* the template bundle that node holds.                                    *)
(*                                                                         *)
(* Every database statement, node request and object-store write of the    *)
(* goroutine is a step of its own, so another actor can run between any    *)
(* two of them.  The node is what the backend sees of it through its HTTP  *)
(* interface; its inside is the subject of ScannerNode.                    *)
(***************************************************************************)
EXTENDS Integers, FiniteSets

CONSTANTS
    Scans,       \* identities of the scans the users and the scheduler submit
    Replicas,    \* backend processes sharing the database
    Limit,       \* scanner_nodes.max_concurrent_scans of the node
    MaxCatalog,  \* bound: versions the template catalog goes through
    PerScan,     \* records in the result stream of a complete scan
    Archiving,   \* whether an object store is configured
    Faults       \* what the environment may do, a subset of FaultKinds

FaultKinds == {"crash",    \* a backend process dies and is started again
               "db",       \* a statement fails, applied or not, past its retries
               "net",      \* a node request or its response is lost
               "node",     \* the scanner node restarts and forgets its jobs
               "store",    \* an object-store request fails
               "stream",   \* a record cannot be projected, or a quota is exceeded
               "expire"}   \* the run context reaches its deadline

ASSUME OrchestrationConstants ==
    /\ IsFiniteSet(Scans)
    /\ Limit \in Nat \ {0}
    /\ MaxCatalog \in Nat \ {0}
    /\ PerScan \in Nat
    /\ Archiving \in BOOLEAN
    /\ Faults \subseteq FaultKinds

Kinds    == {"digest", "failed"}
Live     == {"queued", "running"}
Terminal == {"complete", "failed", "cancelled"}
Rows     == Live \cup Terminal
Commits  == 1 .. MaxCatalog

\* Where the goroutine of a scan stands in Orchestrator.run.
Running  == {"dial", "topup", "idle", "sync", "start", "markrun", "abort",
             "abortfail", "abortdel", "poll", "record", "logkey", "ingest", "count",
             "counterr", "archive", "rawkey", "complete", "fail", "failclean", "notifydigest",
             "notifyfailed", "notifyfailedclean", "cleanup"}
Phases   == Running \cup {"none", "done", "dead"}

VARIABLES
    state,     \* scans.state, or "absent" / "deleted" when there is no row
    nodeRow,   \* scans.node_id was recorded
    nodeId,    \* scans.node_scan_id was recorded
    outbox,    \* scan_notification_outbox: kind, scan -> none, pending, claimed
    mails,     \* kind, scan -> mails handed to SMTP
    ingested,  \* occurrence rows of the scan in the findings table
    skipped,   \* scans.skipped_finding_count
    reads,     \* records the ingest under way has read from the stream
    skips,     \* records of them it has skipped
    objects,   \* archived objects of the scan in the bucket
    keys,      \* object keys recorded on the scan row
    pc,        \* the goroutine's phase
    owner,     \* the replica whose process runs the goroutine
    expired,   \* the goroutine's run context is past its deadline
    commit,    \* spec.Templates.TemplatesCommit, resolved at submission
    bundle,    \* the catalog version a push in flight carries
    status,    \* the terminal node status pollToDone returned
    job,       \* the node's job: none, running, complete, failed, cancelled, gone
    tree,      \* the bundle digest active on the node (0: none yet)
    catalog,   \* the version of the template catalog in the database
    slots,     \* dispatchAdmission.active of each replica, for this node
    signals,   \* cancel requests on their way: <<replica, scan>>
    proc,      \* replica: down, sweep, list, drain, up
    refs,      \* unclaimed outbox rows a starting replica still has to send
    dist       \* replica -> catalog version its distributor is pushing, or 0

vars == <<state, nodeRow, nodeId, outbox, mails, ingested, skipped, reads, skips,
          objects, keys, pc, owner, expired, commit, bundle, status, job, tree,
          catalog, slots, signals, proc, refs, dist>>

rowVars   == <<state, nodeRow, nodeId>>
mailVars  == <<outbox, mails>>
countVars == <<ingested, skipped, reads, skips>>
dataVars  == <<countVars, objects, keys>>
runVars   == <<owner, expired, commit>>
nodeVars  == <<job, tree>>
procVars  == <<signals, proc, refs, dist>>

\* The tables, the goroutines, the node and the processes keep their types; in
\* particular a goroutine only leaves the polling with a terminal node status
\* and never ingests or skips more records than the node holds.
TypeOK ==
    /\ state \in [Scans -> Rows \cup {"absent", "deleted"}]
    /\ nodeRow \in [Scans -> BOOLEAN]
    /\ nodeId \in [Scans -> BOOLEAN]
    /\ outbox \in [Kinds -> [Scans -> {"none", "pending", "claimed"}]]
    /\ mails \in [Kinds -> [Scans -> Nat]]
    /\ ingested \in [Scans -> 0 .. PerScan]
    /\ skipped \in [Scans -> 0 .. PerScan]
    /\ reads \in [Scans -> 0 .. PerScan]
    /\ skips \in [Scans -> 0 .. PerScan]
    /\ objects \in [Scans -> SUBSET {"log", "raw"}]
    /\ keys \in [Scans -> SUBSET {"log", "raw"}]
    /\ pc \in [Scans -> Phases]
    /\ owner \in [Scans -> Replicas]
    /\ expired \in [Scans -> BOOLEAN]
    /\ commit \in [Scans -> Commits]
    /\ bundle \in [Scans -> Commits]
    /\ status \in [Scans -> Terminal \cup {"none"}]
    /\ job \in [Scans -> Terminal \cup {"none", "running", "gone"}]
    /\ tree \in Commits \cup {0}
    /\ catalog \in Commits
    /\ slots \in [Replicas -> Nat]
    /\ signals \subseteq Replicas \X Scans
    /\ proc \in [Replicas -> {"down", "sweep", "list", "drain", "up"}]
    /\ refs \in [Replicas -> SUBSET (Kinds \X Scans)]
    /\ dist \in [Replicas -> Commits \cup {0}]

Init ==
    /\ state = [s \in Scans |-> "absent"]
    /\ nodeRow = [s \in Scans |-> FALSE]
    /\ nodeId = [s \in Scans |-> FALSE]
    /\ outbox = [k \in Kinds |-> [s \in Scans |-> "none"]]
    /\ mails = [k \in Kinds |-> [s \in Scans |-> 0]]
    /\ ingested = [s \in Scans |-> 0]
    /\ skipped = [s \in Scans |-> 0]
    /\ reads = [s \in Scans |-> 0]
    /\ skips = [s \in Scans |-> 0]
    /\ objects = [s \in Scans |-> {}]
    /\ keys = [s \in Scans |-> {}]
    /\ pc = [s \in Scans |-> "none"]
    /\ owner \in [Scans -> Replicas]
    /\ expired = [s \in Scans |-> FALSE]
    /\ commit = [s \in Scans |-> 1]
    /\ bundle = [s \in Scans |-> 1]
    /\ status = [s \in Scans |-> "none"]
    /\ job = [s \in Scans |-> "none"]
    /\ tree = 0
    /\ catalog = 1
    /\ slots = [b \in Replicas |-> 0]
    /\ signals = {}
    /\ proc = [b \in Replicas |-> "down"]
    /\ refs = [b \in Replicas |-> {}]
    /\ dist = [b \in Replicas |-> 0]

-----------------------------------------------------------------------------
(* Helpers                                                                 *)

Exists(s)   == state[s] \in Rows
NetMayFail  == "net" \in Faults
DBMayFail   == "db" \in Faults

\* A statement or request made with the run context of scan s can fail, and
\* must fail once that context is past its deadline.
StmtFails(s) == expired[s] \/ DBMayFail
CallFails(s) == expired[s] \/ NetMayFail

Goto(s, phase) == pc' = [pc EXCEPT ![s] = phase]

\* The goroutine returns: its locals are gone and its deferred release gives
\* the slot back.
Return(s) ==
    /\ Goto(s, "done")
    /\ slots' = [slots EXCEPT ![owner[s]] = IF @ > 0 THEN @ - 1 ELSE 0]
    /\ expired' = [expired EXCEPT ![s] = FALSE]
    /\ bundle' = [bundle EXCEPT ![s] = 1]
    /\ status' = [status EXCEPT ![s] = "none"]

\* The goroutine goes on.
Continue(s, phase) == Goto(s, phase) /\ UNCHANGED <<slots, expired, bundle, status>>

\* Store.NodeHasActiveScan.
NodeHasActiveScan == \E s \in Scans : state[s] = "running" /\ nodeRow[s]

\* Mutant: the push trusts the database's idle check instead of the tree's lock.
NodeBusyByRows == NodeHasActiveScan

\* The node's side of a bundle push: activation takes the tree's exclusive
\* lock with TryLock, and every running job holds it shared.
NodeBusy == \E s \in Scans : job[s] = "running"

\* The node's side of a cancel and of a delete.
NodeCancel(s) == job' = [job EXCEPT ![s] = IF @ = "running" THEN "cancelled" ELSE @]
NodeDelete(s) == job' = [job EXCEPT ![s] = IF @ \in Terminal THEN "gone" ELSE @]

\* INSERT INTO scan_notification_outbox ... ON CONFLICT DO NOTHING.
Insert(k, s) ==
    outbox' = [outbox EXCEPT ![k][s] = IF @ = "none" THEN "pending" ELSE @]

-----------------------------------------------------------------------------
(* Submission                                                              *)

\* Mutant: admission compares after the increment.
SubmitOverLimit(b, s) ==
    /\ proc[b] = "up"
    /\ state[s] = "absent" /\ owner[s] = b
    /\ slots[b] <= Limit
    /\ slots' = [slots EXCEPT ![b] = @ + 1]
    /\ state' = [state EXCEPT ![s] = "queued"]
    /\ commit' = [commit EXCEPT ![s] = catalog]
    /\ Goto(s, "dial")
    /\ UNCHANGED <<nodeRow, nodeId, mailVars, dataVars, owner, expired, bundle,
                   status, nodeVars, catalog, procVars>>

\* Submit: the admission slot, then CreateScan, then the goroutine.  A full
\* node, an unhealthy one or a failed insert leave nothing behind.
Submit(b, s) ==
    /\ proc[b] = "up"
    /\ state[s] = "absent" /\ owner[s] = b
    /\ slots[b] < Limit
    /\ slots' = [slots EXCEPT ![b] = @ + 1]
    /\ state' = [state EXCEPT ![s] = "queued"]
    /\ commit' = [commit EXCEPT ![s] = catalog]
    /\ Goto(s, "dial")
    /\ UNCHANGED <<nodeRow, nodeId, mailVars, dataVars, owner, expired, bundle,
                   status, nodeVars, catalog, procVars>>

-----------------------------------------------------------------------------
(* The goroutine: Orchestrator.run                                         *)

\* clientForNode, then SetScanNode, which is only logged when it fails.
Dial(s) ==
    /\ pc[s] = "dial"
    /\ \/ /\ ~ expired[s]
          /\ nodeRow' = [nodeRow EXCEPT ![s] = Exists(s)]
          /\ Goto(s, "topup")
       \/ /\ StmtFails(s)
          /\ \E phase \in {"topup", "fail"} : Goto(s, phase)
          /\ UNCHANGED nodeRow
    /\ UNCHANGED <<state, nodeId, mailVars, dataVars, runVars, bundle, status,
                   nodeVars, catalog, slots, procVars>>

\* ensureTemplateBundle up to the loop: the selected templates may have been
\* edited since the last recorded push (stale), and the node reports the digest
\* it really holds.
EnsureTemplateBundle(s) ==
    /\ pc[s] = "topup"
    /\ \/ /\ ~ expired[s]
          /\ \E stale \in BOOLEAN :
                Goto(s, IF ~ stale /\ tree = commit[s] THEN "start" ELSE "idle")
       \/ /\ StmtFails(s) \/ CallFails(s)
          /\ Goto(s, "fail")
    /\ UNCHANGED <<rowVars, mailVars, dataVars, runVars, bundle, status,
                   nodeVars, catalog, slots, procVars>>

\* The loop's idle check.  A busy node is waited out; the wait ends with the
\* node idle or with the run context.
WaitIdle(s) ==
    /\ pc[s] = "idle"
    /\ \/ /\ ~ expired[s] /\ ~ NodeHasActiveScan
          /\ bundle' = [bundle EXCEPT ![s] = catalog]
          /\ Goto(s, "sync")
       \/ /\ StmtFails(s)
          /\ Goto(s, "fail")
          /\ UNCHANGED bundle
    /\ UNCHANGED <<rowVars, mailVars, dataVars, runVars, status, nodeVars,
                   catalog, slots, procVars>>

\* SyncNode: the push is refused with 409 while a job runs and the loop goes
\* round again; a node that activated another version fails the scan.
SyncNode(s) ==
    /\ pc[s] = "sync"
    /\ \/ /\ ~ expired[s] /\ NodeBusy
          /\ Goto(s, "idle")
          /\ UNCHANGED tree
       \/ /\ ~ expired[s] /\ ~ NodeBusy
          /\ tree' = bundle[s]
          /\ Goto(s, IF bundle[s] = commit[s] THEN "start" ELSE "fail")
       \/ /\ CallFails(s)
          /\ \/ UNCHANGED tree
             \/ NetMayFail /\ ~ NodeBusy /\ tree' = bundle[s]
          /\ Goto(s, "fail")
    /\ UNCHANGED <<rowVars, mailVars, dataVars, runVars, bundle, status, job,
                   catalog, slots, procVars>>

\* Runner.Start as the backend sees it: 429 at capacity, 400 when the active
\* tree is not the requested one.
NodeFull       == Cardinality({s \in Scans : job[s] = "running"}) >= Limit
NodeAccepts(s) == ~ NodeFull /\ tree = commit[s]

\* Mutant: the capacity retry does not watch the run context.
StartScanForever(s) ==
    /\ pc[s] = "start"
    /\ \/ /\ NodeAccepts(s)
          /\ job' = [job EXCEPT ![s] = "running"]
          /\ Goto(s, "markrun")
       \/ /\ ~ NodeFull /\ tree # commit[s]
          /\ Goto(s, "fail")
          /\ UNCHANGED job
    /\ UNCHANGED <<rowVars, mailVars, dataVars, runVars, bundle, status, tree,
                   catalog, slots, procVars>>

\* startScanWithRetry: 429 is retried until the run context ends (no step is
\* enabled while the node is full); a lost response leaves a job behind.
StartScan(s) ==
    /\ pc[s] = "start"
    /\ \/ /\ ~ expired[s] /\ NodeAccepts(s)
          /\ job' = [job EXCEPT ![s] = "running"]
          /\ Goto(s, "markrun")
       \/ /\ ~ expired[s] /\ ~ NodeFull /\ tree # commit[s]
          /\ Goto(s, "fail")
          /\ UNCHANGED job
       \/ /\ CallFails(s)
          /\ \/ UNCHANGED job
             \/ NetMayFail /\ NodeAccepts(s) /\ job' = [job EXCEPT ![s] = "running"]
          /\ Goto(s, "fail")
    /\ UNCHANGED <<rowVars, mailVars, dataVars, runVars, bundle, status, tree,
                   catalog, slots, procVars>>

\* Mutant: a cancel that won is answered with the delete alone.
MarkRunningNoAbort(s) ==
    /\ pc[s] = "markrun"
    /\ \/ /\ state[s] = "queued"
          /\ state' = [state EXCEPT ![s] = "running"]
          /\ nodeId' = [nodeId EXCEPT ![s] = TRUE]
          /\ Goto(s, "poll")
       \/ /\ state[s] # "queued"
          /\ Goto(s, "cleanup")
          /\ UNCHANGED <<state, nodeId>>
    /\ UNCHANGED <<nodeRow, mailVars, dataVars, runVars, bundle, status,
                   nodeVars, catalog, slots, procVars>>

\* MarkRunning moves only a queued row.  A cancel that won while the scan was
\* queued, or a statement error, sends the goroutine to abortNodeScan.
MarkRunning(s) ==
    /\ pc[s] = "markrun"
    /\ \/ /\ ~ expired[s] /\ state[s] = "queued"
          /\ state' = [state EXCEPT ![s] = "running"]
          /\ nodeId' = [nodeId EXCEPT ![s] = TRUE]
          /\ Goto(s, "poll")
       \/ /\ ~ expired[s] /\ state[s] # "queued"
          /\ Goto(s, "abort")
          /\ UNCHANGED <<state, nodeId>>
       \/ /\ StmtFails(s)
          /\ \/ UNCHANGED <<state, nodeId>>
             \/ /\ DBMayFail /\ state[s] = "queued"
                /\ state' = [state EXCEPT ![s] = "running"]
                /\ nodeId' = [nodeId EXCEPT ![s] = TRUE]
          /\ Goto(s, "abortfail")
    /\ UNCHANGED <<nodeRow, mailVars, dataVars, runVars, bundle, status,
                   nodeVars, catalog, slots, procVars>>

\* abortNodeScan: the cancel and then the delete, both on a detached context.
AbortNodeScan(s) ==
    /\ \/ pc[s] = "abort" /\ Goto(s, "cleanup")
       \/ pc[s] = "abortfail" /\ Goto(s, "abortdel")
    /\ \/ NodeCancel(s)
       \/ NetMayFail /\ UNCHANGED job
    /\ UNCHANGED <<rowVars, mailVars, dataVars, runVars, bundle, status, tree,
                   catalog, slots, procVars>>

AbortDelete(s) ==
    /\ pc[s] = "abortdel"
    /\ \/ NodeDelete(s)
       \/ NetMayFail /\ UNCHANGED job
    /\ Goto(s, "fail")
    /\ UNCHANGED <<rowVars, mailVars, dataVars, runVars, bundle, status, tree,
                   catalog, slots, procVars>>

\* Mutant: any readable status ends the polling.
PollOnce(s) ==
    /\ pc[s] = "poll"
    /\ status' = [status EXCEPT ![s] = job[s]]
    /\ Goto(s, "record")
    /\ UNCHANGED <<rowVars, mailVars, dataVars, runVars, bundle, nodeVars,
                   catalog, slots, procVars>>

\* Mutant: polling has no budget.
PollForever(s) ==
    /\ pc[s] = "poll"
    /\ job[s] \in Terminal
    /\ status' = [status EXCEPT ![s] = job[s]]
    /\ Goto(s, "record")
    /\ UNCHANGED <<rowVars, mailVars, dataVars, runVars, bundle, nodeVars,
                   catalog, slots, procVars>>

\* pollToDone: unreadable answers (a 404 too) are polled again until the budget
\* is used up, which exceeds what the node may take for the scan.
PollToDone(s) ==
    /\ pc[s] = "poll"
    /\ \/ /\ ~ expired[s] /\ job[s] \in Terminal
          /\ status' = [status EXCEPT ![s] = job[s]]
          /\ Goto(s, "record")
       \/ /\ job[s] = "gone" \/ CallFails(s)
          /\ Goto(s, "fail")
          /\ UNCHANGED status
    /\ UNCHANGED <<rowVars, mailVars, dataVars, runVars, bundle, nodeVars,
                   catalog, slots, procVars>>

\* A cancelled node run is not ingested; a failed one is, best effort.
AfterRecord(s) == Goto(s, IF status[s] = "cancelled" THEN "cleanup" ELSE "ingest")
AfterIngest(s) == Goto(s, IF status[s] = "complete" THEN "complete" ELSE "failclean")

\* SetScanVersions, SetScanDiscovered and SetScanCoverage (columns that no
\* property here reads), then archiveLog's upload of the node's log.
RecordStatus(s) ==
    /\ pc[s] = "record"
    /\ \/ /\ Archiving /\ ~ expired[s] /\ job[s] # "gone"
          /\ objects' = [objects EXCEPT ![s] = @ \cup {"log"}]
          /\ Goto(s, "logkey")
       \/ /\ ~ Archiving \/ CallFails(s) \/ job[s] = "gone" \/ "store" \in Faults
          /\ AfterRecord(s)
          /\ UNCHANGED objects
    /\ UNCHANGED <<rowVars, mailVars, countVars, keys, runVars, bundle, status,
                   nodeVars, catalog, slots, procVars>>

\* SetScanLogObject / SetScanRawObject: an UPDATE that matches no row when the
\* scan was deleted, and is only logged when it fails.
RecordKey(s) ==
    /\ \/ pc[s] = "logkey" /\ AfterRecord(s)
       \/ pc[s] = "rawkey" /\ AfterIngest(s)
    /\ \/ /\ ~ expired[s]
          /\ keys' = [keys EXCEPT ![s] =
                 IF Exists(s) THEN @ \cup {IF pc[s] = "logkey" THEN "log" ELSE "raw"}
                              ELSE @]
       \/ StmtFails(s) /\ UNCHANGED keys
    /\ UNCHANGED <<rowVars, mailVars, countVars, objects, runVars, bundle, status,
                   nodeVars, catalog, slots, procVars>>

\* The next record of the result stream arrives.
NextRecord(s) ==
    /\ pc[s] = "ingest"
    /\ ~ expired[s] /\ job[s] # "gone"
    /\ reads[s] < PerScan
    /\ reads' = [reads EXCEPT ![s] = @ + 1]

\* One record of the result stream: a transaction that needs the scan row.
IngestFinding(s) ==
    /\ NextRecord(s)
    /\ Exists(s)
    /\ ingested' = [ingested EXCEPT ![s] = @ + 1]
    /\ UNCHANGED <<rowVars, mailVars, skipped, skips, objects, keys, pc, runVars,
                   bundle, status, nodeVars, catalog, slots, procVars>>

\* An oversized or unparseable record, or one prepareOccurrence refuses before
\* any statement (FindingRecordError), is skipped and counted; the stream goes on.
SkipFinding(s) ==
    /\ "stream" \in Faults
    /\ NextRecord(s)
    /\ skips' = [skips EXCEPT ![s] = @ + 1]
    /\ UNCHANGED <<rowVars, mailVars, ingested, skipped, objects, keys, pc, runVars,
                   bundle, status, nodeVars, catalog, slots, procVars>>

\* What follows a whole stream, and a broken one: records that were skipped are
\* recorded on the scan in either case.
AfterStream(s) == IF Archiving THEN Goto(s, "archive") ELSE AfterIngest(s)
EndStream(s)   == IF skips[s] > 0 THEN Goto(s, "count") ELSE AfterStream(s)
BreakStream(s) == Goto(s, IF skips[s] > 0 THEN "counterr" ELSE "failclean")

\* The stream ends: a complete run's after its last record, a failed one's
\* anywhere.
IngestEnd(s) ==
    /\ pc[s] = "ingest"
    /\ ~ expired[s] /\ job[s] # "gone"
    /\ \/ status[s] = "complete" /\ reads[s] = PerScan
       \/ status[s] = "failed"
    /\ EndStream(s)
    /\ reads' = [reads EXCEPT ![s] = 0]
    /\ UNCHANGED <<rowVars, mailVars, ingested, skipped, skips, objects, keys, runVars,
                   bundle, status, nodeVars, catalog, slots, procVars>>

\* Every other error of the stream or of a record ends the ingest: a failed
\* statement, a lost or forgotten stream, a record whose scan is deleted, a quota.
IngestError(s) ==
    /\ pc[s] = "ingest"
    /\ \/ StmtFails(s) \/ CallFails(s) \/ job[s] = "gone" \/ "stream" \in Faults
       \/ ~ Exists(s) /\ reads[s] < PerScan
    /\ BreakStream(s)
    /\ reads' = [reads EXCEPT ![s] = 0]
    /\ UNCHANGED <<rowVars, mailVars, ingested, skipped, skips, objects, keys, runVars,
                   bundle, status, nodeVars, catalog, slots, procVars>>

\* Store.SetScanSkippedFindingCount: an UPDATE that matches no row when the scan
\* was deleted.
WriteSkipped(s) ==
    skipped' = [skipped EXCEPT ![s] = IF Exists(s) THEN skips[s] ELSE @]

\* Mutant: the count is best effort, as the other columns of the scan are.
RecordSkippedBestEffort(s) ==
    /\ \/ pc[s] = "count" /\ AfterStream(s)
       \/ pc[s] = "counterr" /\ Goto(s, "failclean")
    /\ \/ ~ expired[s] /\ WriteSkipped(s)
       \/ StmtFails(s) /\ UNCHANGED skipped
    /\ skips' = [skips EXCEPT ![s] = 0]
    /\ UNCHANGED <<rowVars, mailVars, ingested, reads, objects, keys, runVars, bundle,
                   status, nodeVars, catalog, slots, procVars>>

\* The count of the skipped records is written before anything else happens.
\* After a whole stream its failure is fatal to the scan, after a broken one it is
\* only logged.
RecordSkipped(s) ==
    /\ \/ /\ pc[s] = "count" /\ ~ expired[s]
          /\ WriteSkipped(s)
          /\ AfterStream(s)
       \/ /\ pc[s] = "counterr" /\ ~ expired[s]
          /\ WriteSkipped(s)
          /\ Goto(s, "failclean")
       \/ /\ pc[s] \in {"count", "counterr"} /\ StmtFails(s)
          /\ UNCHANGED skipped \/ (DBMayFail /\ WriteSkipped(s))
          /\ Goto(s, "failclean")
    /\ skips' = [skips EXCEPT ![s] = 0]
    /\ UNCHANGED <<rowVars, mailVars, ingested, reads, objects, keys, runVars, bundle,
                   status, nodeVars, catalog, slots, procVars>>

\* archiveRaw's upload of the stream, best effort.
ArchiveRaw(s) ==
    /\ pc[s] = "archive"
    /\ \/ /\ ~ expired[s]
          /\ objects' = [objects EXCEPT ![s] = @ \cup {"raw"}]
          /\ Goto(s, "rawkey")
       \/ /\ expired[s] \/ "store" \in Faults
          /\ AfterIngest(s)
          /\ UNCHANGED objects
    /\ UNCHANGED <<rowVars, mailVars, countVars, keys, runVars, bundle, status,
                   nodeVars, catalog, slots, procVars>>

\* Mutant: MarkComplete without its guard on the state.
WriteCompleteAlways(s) ==
    IF Exists(s)
    THEN state' = [state EXCEPT ![s] = "complete"] /\ Insert("digest", s)
    ELSE UNCHANGED <<state, outbox>>

\* Store.MarkComplete: any row but a cancelled one, the digest in the same
\* statement.
WriteComplete(s) ==
    IF state[s] \in Rows \ {"cancelled"}
    THEN state' = [state EXCEPT ![s] = "complete"] /\ Insert("digest", s)
    ELSE UNCHANGED <<state, outbox>>

\* Mutant: the outbox insert does not depend on the update's RETURNING.
WriteFailedAlways(s) ==
    IF Exists(s)
    THEN /\ state' = [state EXCEPT ![s] = IF @ \in Live THEN "failed" ELSE @]
         /\ Insert("failed", s)
    ELSE UNCHANGED <<state, outbox>>

\* Store.MarkFailed: only a row that is not terminal yet.
WriteFailed(s) ==
    IF state[s] \in Live
    THEN state' = [state EXCEPT ![s] = "failed"] /\ Insert("failed", s)
    ELSE UNCHANGED <<state, outbox>>

\* retryWrite around MarkComplete; after the last attempt the error is logged.
MarkComplete(s) ==
    /\ pc[s] = "complete"
    /\ \/ ~ expired[s] /\ WriteComplete(s) /\ Goto(s, "notifydigest")
       \/ /\ StmtFails(s)
          /\ UNCHANGED <<state, outbox>> \/ (DBMayFail /\ WriteComplete(s))
          /\ Goto(s, "cleanup")
    /\ UNCHANGED <<nodeRow, nodeId, mails, dataVars, runVars, bundle, status,
                   nodeVars, catalog, slots, procVars>>

\* failScan: retryWrite around MarkFailed.  "failclean" is the call after which
\* the goroutine still deletes the node's job.
FailScan(s) ==
    /\ \/ pc[s] = "fail"
       \/ pc[s] = "failclean"
    /\ \/ /\ ~ expired[s] /\ WriteFailed(s)
          /\ Continue(s, IF pc[s] = "fail" THEN "notifyfailed" ELSE "notifyfailedclean")
       \/ /\ StmtFails(s)
          /\ UNCHANGED <<state, outbox>> \/ (DBMayFail /\ WriteFailed(s))
          /\ IF pc[s] = "fail" THEN Return(s) ELSE Continue(s, "cleanup")
    /\ UNCHANGED <<nodeRow, nodeId, mails, dataVars, owner, commit, nodeVars,
                   catalog, procVars>>

\* ScanNotifier.Notify: whoever claims the pending row is the only one to send
\* it, and a send that fails or is muted is never tried again.
Notify(k, s) ==
    \/ /\ outbox[k][s] = "pending"
       /\ outbox' = [outbox EXCEPT ![k][s] = "claimed"]
       /\ \E n \in {0, 1} : mails' = [mails EXCEPT ![k][s] = @ + n]
    \/ /\ outbox[k][s] # "pending" \/ DBMayFail
       /\ UNCHANGED mailVars

NotifyScan(s) ==
    /\ \/ /\ pc[s] = "notifydigest" /\ Notify("digest", s)
          /\ Continue(s, "cleanup")
       \/ /\ pc[s] = "notifyfailedclean" /\ Notify("failed", s)
          /\ Continue(s, "cleanup")
       \/ pc[s] = "notifyfailed" /\ Notify("failed", s) /\ Return(s)
    /\ UNCHANGED <<rowVars, dataVars, owner, commit, nodeVars, catalog, procVars>>

\* cleanupNodeScan: the node refuses (409) to delete a job that still runs.
CleanupNodeScan(s) ==
    /\ pc[s] = "cleanup"
    /\ \/ NodeDelete(s)
       \/ NetMayFail /\ UNCHANGED job
    /\ Return(s)
    /\ UNCHANGED <<rowVars, mailVars, dataVars, owner, commit, tree, catalog,
                   procVars>>

\* The deadline of the run context passes.  The budget covers the queueing, the
\* node's run and the ingest, so it is not used up before the first wait.
Expire(s) ==
    /\ "expire" \in Faults
    /\ pc[s] \in Running \ {"dial", "topup"} /\ ~ expired[s]
    /\ expired' = [expired EXCEPT ![s] = TRUE]
    /\ UNCHANGED <<rowVars, mailVars, dataVars, pc, owner, commit, bundle, status,
                   nodeVars, catalog, slots, procVars>>

Run(s) ==
    \/ Dial(s) \/ EnsureTemplateBundle(s) \/ WaitIdle(s) \/ SyncNode(s)
    \/ StartScan(s) \/ MarkRunning(s) \/ AbortNodeScan(s) \/ AbortDelete(s)
    \/ PollToDone(s) \/ RecordStatus(s) \/ RecordKey(s) \/ IngestFinding(s)
    \/ SkipFinding(s) \/ IngestEnd(s) \/ IngestError(s) \/ RecordSkipped(s)
    \/ ArchiveRaw(s) \/ MarkComplete(s) \/ FailScan(s) \/ NotifyScan(s)
    \/ CleanupNodeScan(s)

-----------------------------------------------------------------------------
(* The API handlers and the retention sweeper                              *)

\* handleCancelScan: CancelScan is the authority; the node is signalled by a
\* goroutine of its own, and only when the row names a node scan.
CancelScan(b, s) ==
    /\ proc[b] = "up"
    /\ state[s] \in Live
    /\ state' = [state EXCEPT ![s] = "cancelled"]
    /\ signals' = IF nodeId[s] THEN signals \cup {<<b, s>>} ELSE signals
    /\ UNCHANGED <<nodeRow, nodeId, mailVars, dataVars, pc, runVars, bundle,
                   status, nodeVars, catalog, slots, proc, refs, dist>>

SignalNodeCancel(b, s) ==
    /\ <<b, s>> \in signals
    /\ signals' = signals \ {<<b, s>>}
    /\ \/ NodeCancel(s)
       \/ NetMayFail /\ UNCHANGED job
    /\ UNCHANGED <<rowVars, mailVars, dataVars, pc, runVars, bundle, status, tree,
                   catalog, slots, proc, refs, dist>>

\* handleDeleteScan and the retention sweeper: a terminal row goes, its
\* occurrences and outbox rows cascade, and the objects whose keys it recorded
\* are purged, best effort.
DeleteScan(b, s) ==
    /\ proc[b] = "up"
    /\ state[s] \in Terminal
    /\ state' = [state EXCEPT ![s] = "deleted"]
    /\ nodeRow' = [nodeRow EXCEPT ![s] = FALSE]
    /\ nodeId' = [nodeId EXCEPT ![s] = FALSE]
    /\ outbox' = [k \in Kinds |-> [outbox[k] EXCEPT ![s] = "none"]]
    /\ ingested' = [ingested EXCEPT ![s] = 0]
    /\ skipped' = [skipped EXCEPT ![s] = 0]
    /\ keys' = [keys EXCEPT ![s] = {}]
    /\ \/ objects' = [objects EXCEPT ![s] = @ \ keys[s]]
       \/ "store" \in Faults /\ UNCHANGED objects
    /\ UNCHANGED <<mails, reads, skips, pc, runVars, bundle, status, nodeVars,
                   catalog, slots, procVars>>

-----------------------------------------------------------------------------
(* Template distribution                                                   *)

\* TemplateDistributor.distribute and the admin's sync-now: the idle check and
\* the catalog read, and later the push.
Distribute(b) ==
    /\ proc[b] = "up" /\ dist[b] = 0
    /\ ~ NodeHasActiveScan
    /\ dist' = [dist EXCEPT ![b] = catalog]
    /\ UNCHANGED <<rowVars, mailVars, dataVars, pc, runVars, bundle, status,
                   nodeVars, catalog, slots, signals, proc, refs>>

PushBundle(b) ==
    /\ dist[b] # 0
    /\ dist' = [dist EXCEPT ![b] = 0]
    /\ \/ ~ NodeBusy /\ tree' = dist[b]
       \/ (NodeBusy \/ NetMayFail) /\ UNCHANGED tree
    /\ UNCHANGED <<rowVars, mailVars, dataVars, pc, runVars, bundle, status, job,
                   catalog, slots, signals, proc, refs>>

\* A template sync, import or edit gives the catalog another digest.
ChangeCatalog ==
    /\ catalog < MaxCatalog
    /\ catalog' = catalog + 1
    /\ UNCHANGED <<rowVars, mailVars, dataVars, pc, runVars, bundle, status,
                   nodeVars, slots, procVars>>

-----------------------------------------------------------------------------
(* A backend process stops and starts                                      *)

\* The process dies with its goroutines, their locals, its admission counts
\* and its requests in flight.
Crash(b) ==
    /\ "crash" \in Faults
    /\ proc[b] # "down"
    /\ proc' = [proc EXCEPT ![b] = "down"]
    /\ pc' = [s \in Scans |-> IF owner[s] = b /\ pc[s] \in Running THEN "dead" ELSE pc[s]]
    /\ expired' = [s \in Scans |-> IF owner[s] = b THEN FALSE ELSE expired[s]]
    /\ bundle' = [s \in Scans |-> IF owner[s] = b THEN 1 ELSE bundle[s]]
    /\ status' = [s \in Scans |-> IF owner[s] = b THEN "none" ELSE status[s]]
    /\ reads' = [s \in Scans |-> IF owner[s] = b THEN 0 ELSE reads[s]]
    /\ skips' = [s \in Scans |-> IF owner[s] = b THEN 0 ELSE skips[s]]
    /\ slots' = [slots EXCEPT ![b] = 0]
    /\ signals' = {x \in signals : x[1] # b}
    /\ refs' = [refs EXCEPT ![b] = {}]
    /\ dist' = [dist EXCEPT ![b] = 0]
    /\ UNCHANGED <<rowVars, mailVars, ingested, skipped, objects, keys, owner, commit,
                   nodeVars, catalog>>

StartBackend(b) ==
    /\ proc[b] = "down"
    /\ proc' = [proc EXCEPT ![b] = "sweep"]
    /\ UNCHANGED <<rowVars, mailVars, dataVars, pc, runVars, bundle, status,
                   nodeVars, catalog, slots, signals, refs, dist>>

\* Mutant: the sweep forgets the rows that were still queued.
FailOrphanedRunning(b) ==
    /\ proc[b] = "sweep"
    /\ proc' = [proc EXCEPT ![b] = "list"]
    /\ state' = [s \in Scans |-> IF state[s] = "running" THEN "failed" ELSE state[s]]
    /\ outbox' = [outbox EXCEPT !["failed"] =
           [s \in Scans |-> IF state[s] = "running" /\ @[s] = "none"
                            THEN "pending" ELSE @[s]]]
    /\ UNCHANGED <<nodeRow, nodeId, mails, dataVars, pc, runVars, bundle, status,
                   nodeVars, catalog, slots, signals, refs, dist>>

\* Every row still queued or running is failed; an error is only logged.
FailOrphanedScans(b) ==
    /\ proc[b] = "sweep"
    /\ proc' = [proc EXCEPT ![b] = "list"]
    /\ \/ /\ state' = [s \in Scans |-> IF state[s] \in Live THEN "failed" ELSE state[s]]
          /\ outbox' = [outbox EXCEPT !["failed"] =
                 [s \in Scans |-> IF state[s] \in Live /\ @[s] = "none"
                                  THEN "pending" ELSE @[s]]]
       \/ DBMayFail /\ UNCHANGED <<state, outbox>>
    /\ UNCHANGED <<nodeRow, nodeId, mails, dataVars, pc, runVars, bundle, status,
                   nodeVars, catalog, slots, signals, refs, dist>>

\* NotifyUnclaimed lists the pending rows once (an error is only logged) and then
\* claims them one by one; the HTTP server and the scheduler start after it.
ListUnclaimed(b) ==
    /\ proc[b] = "list"
    /\ proc' = [proc EXCEPT ![b] = "drain"]
    /\ \/ refs' = [refs EXCEPT ![b] = {x \in Kinds \X Scans : outbox[x[1]][x[2]] = "pending"}]
       \/ DBMayFail /\ UNCHANGED refs
    /\ UNCHANGED <<rowVars, mailVars, dataVars, pc, runVars, bundle, status,
                   nodeVars, catalog, slots, signals, dist>>

NotifyUnclaimed(b, k, s) ==
    /\ proc[b] = "drain" /\ <<k, s>> \in refs[b]
    /\ refs' = [refs EXCEPT ![b] = @ \ {<<k, s>>}]
    /\ Notify(k, s)
    /\ UNCHANGED <<rowVars, dataVars, pc, runVars, bundle, status, nodeVars,
                   catalog, slots, signals, proc, dist>>

Serve(b) ==
    /\ proc[b] = "drain" /\ refs[b] = {}
    /\ proc' = [proc EXCEPT ![b] = "up"]
    /\ UNCHANGED <<rowVars, mailVars, dataVars, pc, runVars, bundle, status,
                   nodeVars, catalog, slots, signals, refs, dist>>

Boot(b) ==
    \/ StartBackend(b) \/ FailOrphanedScans(b) \/ ListUnclaimed(b) \/ Serve(b)
    \/ \E k \in Kinds, s \in Scans : NotifyUnclaimed(b, k, s)

-----------------------------------------------------------------------------
(* The scanner node, as far as the backend can tell                        *)

NodeFinish(s) ==
    /\ job[s] = "running"
    /\ \E result \in {"complete", "failed"} : job' = [job EXCEPT ![s] = result]
    /\ UNCHANGED <<rowVars, mailVars, dataVars, pc, runVars, bundle, status, tree,
                   catalog, slots, procVars>>

NodeReap(s) ==
    /\ job[s] \in Terminal
    /\ job' = [job EXCEPT ![s] = "gone"]
    /\ UNCHANGED <<rowVars, mailVars, dataVars, pc, runVars, bundle, status, tree,
                   catalog, slots, procVars>>

NodeRestart ==
    /\ "node" \in Faults
    /\ \E s \in Scans : job[s] = "running"
    /\ job' = [s \in Scans |-> IF job[s] = "none" THEN "none" ELSE "gone"]
    /\ UNCHANGED <<rowVars, mailVars, dataVars, pc, runVars, bundle, status, tree,
                   catalog, slots, procVars>>

-----------------------------------------------------------------------------

Next ==
    \/ \E b \in Replicas, s \in Scans :
          Submit(b, s) \/ CancelScan(b, s) \/ SignalNodeCancel(b, s) \/ DeleteScan(b, s)
    \/ \E s \in Scans : Run(s) \/ Expire(s) \/ NodeFinish(s) \/ NodeReap(s)
    \/ \E b \in Replicas : Distribute(b) \/ PushBundle(b) \/ Crash(b) \/ Boot(b)
    \/ ChangeCatalog \/ NodeRestart

Spec == Init /\ [][Next]_vars

\* The Go scheduler runs every goroutine that can run, a stopped process is
\* started again by its supervisor, and a deadline passes.
BackendFairness ==
    /\ \A s \in Scans : WF_vars(Run(s)) /\ WF_vars(Expire(s))
    /\ \A b \in Replicas : WF_vars(Boot(b)) /\ WF_vars(PushBundle(b))
    /\ \A b \in Replicas, s \in Scans : WF_vars(SignalNodeCancel(b, s))

\* The node kills a run at its timeout.
NodeFairness == \A s \in Scans : WF_vars(NodeFinish(s))

BackendSpec == Spec /\ BackendFairness
FairSpec    == BackendSpec /\ NodeFairness

-----------------------------------------------------------------------------
(* Properties                                                              *)

Driven(s) == pc[s] \in Running

\* The scans whose goroutine runs in replica b.
Mine(b) == {s \in Scans : owner[s] = b /\ Driven(s)}

\* dispatchAdmission never leaks or double-frees: on every path through
\* Orchestrator.run, error paths and crashes included, a replica holds exactly
\* one slot for each of its goroutines, and never more than the node's limit.
SlotsExact ==
    \A b \in Replicas :
        /\ slots[b] = Cardinality(Mine(b))
        /\ slots[b] <= Limit

\* No push, periodic or pre-dispatch, swaps the template tree under a running
\* job: the tree a job runs with is the one its scan was resolved against.
TreeMatchesRunningJobs ==
    \A s \in Scans : job[s] = "running" => tree = commit[s]

\* A complete scan accounts for every record the node produced: what is not
\* among its occurrences is counted on its row, so no reader takes a lossy scan for
\* a whole one.  No poll, fetch, failed statement, crash or deletion in between lets
\* MarkComplete run after a truncated ingest or without the count.
CompleteMeansIngested ==
    \A s \in Scans : state[s] = "complete" => ingested[s] + skipped[s] = PerScan

\* The outbox says what happened to the scan: a digest row exactly for a
\* complete scan, a failed row exactly for a failed one, none for a cancelled
\* one (MarkComplete, MarkFailed and FailOrphanedScans write both together).
OutboxMatchesOutcome ==
    \A s \in Scans :
        /\ outbox["digest"][s] # "none" <=> state[s] = "complete"
        /\ outbox["failed"][s] # "none" <=> state[s] = "failed"

\* Whatever claims race - the goroutine, the drain of a restarted process - a
\* scan is mailed about at most once, and about one outcome only.
OneMailPerScan ==
    \A s \in Scans : mails["digest"][s] + mails["failed"][s] <= 1

\* The mail a user gets is the one about how the scan ended, and the only one.
MailIsExact == OutboxMatchesOutcome /\ OneMailPerScan

\* A queued or running row always has somebody who will end it: its goroutine,
\* or the orphan sweep of a process that has not finished starting.
LiveRowHasDriver ==
    \A s \in Scans :
        state[s] \in Live =>
            Driven(s) \/ (pc[s] = "dead" /\ proc[owner[s]] \in {"down", "sweep"})

\* The orphan sweep only fails scans whose goroutine is gone.
OrphansHaveNoDriver ==
    [][\A b \in Replicas, s \in Scans :
          /\ proc[b] = "sweep" /\ proc'[b] = "list"
          /\ state[s] \in Live /\ state'[s] = "failed"
          => ~ Driven(s)]_vars

\* A terminal row keeps its state until it is deleted: a late MarkRunning,
\* MarkComplete or MarkFailed never revives or relabels it.
TerminalIsFinal ==
    [][\A s \in Scans :
          state[s] \in Terminal => state'[s] \in {state[s], "deleted"}]_vars

\* Nobody takes an outcome back, and the start-up sweep gives one only to a scan
\* that has no goroutine left to give another.
OutcomesHold == TerminalIsFinal /\ OrphansHaveNoDriver

\* A cancelled row stays cancelled, whichever replicas are involved.
CancelledIsFinal ==
    [][\A s \in Scans :
          state[s] = "cancelled" => state'[s] \in {"cancelled", "deleted"}]_vars

\* Every goroutine returns and gives its slot back, whatever the node does.
GoroutinesEnd == \A s \in Scans : Driven(s) ~> ~ Driven(s)

\* From some point on every replica is up (with no crashes, it is from its start).
CrashesEnd == \A b \in Replicas : <>[](proc[b] = "up")

\* Every submitted scan reaches a terminal state, also one whose process died
\* under it, once a process stays up.
EventuallyTerminal ==
    CrashesEnd => \A s \in Scans : state[s] \in Live ~> state[s] \notin Live

\* Every pending notification is claimed (or goes with its scan), by the goroutine
\* that wrote it or by the drain of the next process.
PendingIsClaimed ==
    CrashesEnd =>
        \A s \in Scans, k \in Kinds : outbox[k][s] = "pending" ~> outbox[k][s] # "pending"

\* Once a process stays up every scan ends and is reported.
EventuallyReported == EventuallyTerminal /\ PendingIsClaimed

\* Cancelling a scan stops its node job even if the job would never end by
\* itself: through the signal when the row names the node scan, through
\* abortNodeScan when the cancel beat MarkRunning.
CancelReachesNode ==
    \A s \in Scans :
        state[s] = "cancelled" /\ job[s] = "running" ~> job[s] # "running"
=============================================================================
