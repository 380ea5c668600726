---------------------- MODULE ScanOrchestrationProofs ----------------------
(* Proofs about ScanOrchestration, for any scans, replicas, limit, catalog *)
(* and faults.                                                             *)
EXTENDS ScanOrchestration, FiniteSetTheorems, TLAPS

-----------------------------------------------------------------------------
(* Type correctness                                                        *)

LEMMA ConstantTypes ==
    /\ Limit \in Nat /\ MaxCatalog \in Nat /\ PerScan \in Nat
    /\ 1 \in Commits
    /\ \A n \in Commits : n \in Nat /\ n # 0
    /\ Commits \subseteq Nat
  BY OrchestrationConstants DEF Commits

USE DEF Kinds, Live, Terminal, Rows, Running, Phases, countVars

LEMMA InitType == Init => TypeOK
  BY ConstantTypes DEF Init, TypeOK

LEMMA GotoType ==
    ASSUME TypeOK, NEW s \in Scans, NEW phase \in Phases, Goto(s, phase)
    PROVE  pc' \in [Scans -> Phases]
  BY DEF TypeOK, Goto

LEMMA ReturnType ==
    ASSUME TypeOK, NEW s \in Scans, Return(s)
    PROVE  /\ pc' \in [Scans -> Phases]
           /\ slots' \in [Replicas -> Nat]
           /\ expired' \in [Scans -> BOOLEAN]
           /\ bundle' \in [Scans -> Commits]
           /\ status' \in [Scans -> Terminal \cup {"none"}]
  BY ConstantTypes DEF TypeOK, Return, Goto

LEMMA NotifyType ==
    ASSUME TypeOK, NEW k \in Kinds, NEW s \in Scans, Notify(k, s)
    PROVE  /\ outbox' \in [Kinds -> [Scans -> {"none", "pending", "claimed"}]]
           /\ mails' \in [Kinds -> [Scans -> Nat]]
  <1>1. CASE /\ outbox' = [outbox EXCEPT ![k][s] = "claimed"]
             /\ \E n \in {0, 1} : mails' = [mails EXCEPT ![k][s] = @ + n]
    <2>1. PICK n \in {0, 1} : mails' = [mails EXCEPT ![k][s] = @ + n]
      BY <1>1
    <2>2. mails[k] \in [Scans -> Nat] /\ outbox[k] \in [Scans -> {"none", "pending", "claimed"}]
      BY DEF TypeOK
    <2>3. [mails[k] EXCEPT ![s] = mails[k][s] + n] \in [Scans -> Nat]
      BY <2>2
    <2>4. mails' = [mails EXCEPT ![k] = [mails[k] EXCEPT ![s] = mails[k][s] + n]]
      BY <2>1
    <2>. QED
      BY <1>1, <2>2, <2>3, <2>4 DEF TypeOK
  <1>2. CASE UNCHANGED mailVars
    BY <1>2 DEF TypeOK, mailVars
  <1>. QED
    BY <1>1, <1>2 DEF Notify

LEMMA InsertType ==
    ASSUME TypeOK, NEW k \in Kinds, NEW s \in Scans, Insert(k, s)
    PROVE  outbox' \in [Kinds -> [Scans -> {"none", "pending", "claimed"}]]
  BY DEF TypeOK, Insert

LEMMA WriteType ==
    ASSUME TypeOK, NEW s \in Scans,
           \/ WriteComplete(s) \/ WriteFailed(s) \/ UNCHANGED <<state, outbox>>
    PROVE  /\ state' \in [Scans -> Rows \cup {"absent", "deleted"}]
           /\ outbox' \in [Kinds -> [Scans -> {"none", "pending", "claimed"}]]
  <1>1. CASE UNCHANGED <<state, outbox>>
    BY <1>1 DEF TypeOK
  <1>2. CASE Insert("digest", s) /\ state' = [state EXCEPT ![s] = "complete"]
    BY <1>2, InsertType DEF TypeOK
  <1>3. CASE Insert("failed", s) /\ state' = [state EXCEPT ![s] = "failed"]
    BY <1>3, InsertType DEF TypeOK
  <1>. QED
    BY <1>1, <1>2, <1>3 DEF WriteComplete, WriteFailed

LEMMA SubmitType ==
    ASSUME TypeOK, NEW b \in Replicas, NEW s \in Scans, Submit(b, s)
    PROVE  TypeOK'
  BY ConstantTypes DEF TypeOK, Submit, Goto,
     rowVars, mailVars, dataVars, runVars, nodeVars, procVars

LEMMA EnsureTemplateBundleType ==
    ASSUME TypeOK, NEW s \in Scans, EnsureTemplateBundle(s)
    PROVE  TypeOK'
  BY ConstantTypes DEF TypeOK, EnsureTemplateBundle, Goto,
     rowVars, mailVars, dataVars, runVars, nodeVars, procVars

LEMMA WaitIdleType ==
    ASSUME TypeOK, NEW s \in Scans, WaitIdle(s)
    PROVE  TypeOK'
  <1>1. pc' \in [Scans -> Phases]
    BY GotoType DEF WaitIdle
  <1>2. bundle' \in [Scans -> Commits]
    BY DEF TypeOK, WaitIdle
  <1>. QED
    BY <1>1, <1>2 DEF TypeOK, WaitIdle, rowVars, mailVars, dataVars, runVars, nodeVars, procVars

LEMMA SyncNodeType ==
    ASSUME TypeOK, NEW s \in Scans, SyncNode(s)
    PROVE  TypeOK'
  BY ConstantTypes DEF TypeOK, SyncNode, Goto,
     rowVars, mailVars, dataVars, runVars, nodeVars, procVars

LEMMA StartScanType ==
    ASSUME TypeOK, NEW s \in Scans, StartScan(s)
    PROVE  TypeOK'
  BY ConstantTypes DEF TypeOK, StartScan, Goto,
     rowVars, mailVars, dataVars, runVars, nodeVars, procVars

LEMMA MarkRunningType ==
    ASSUME TypeOK, NEW s \in Scans, MarkRunning(s)
    PROVE  TypeOK'
  BY ConstantTypes DEF TypeOK, MarkRunning, Goto,
     rowVars, mailVars, dataVars, runVars, nodeVars, procVars

LEMMA AbortNodeScanType ==
    ASSUME TypeOK, NEW s \in Scans, AbortNodeScan(s)
    PROVE  TypeOK'
  BY ConstantTypes DEF TypeOK, AbortNodeScan, Goto, NodeCancel,
     rowVars, mailVars, dataVars, runVars, nodeVars, procVars

LEMMA AbortDeleteType ==
    ASSUME TypeOK, NEW s \in Scans, AbortDelete(s)
    PROVE  TypeOK'
  BY ConstantTypes DEF TypeOK, AbortDelete, Goto, NodeDelete,
     rowVars, mailVars, dataVars, runVars, nodeVars, procVars

LEMMA PollToDoneType ==
    ASSUME TypeOK, NEW s \in Scans, PollToDone(s)
    PROVE  TypeOK'
  BY ConstantTypes DEF TypeOK, PollToDone, Goto,
     rowVars, mailVars, dataVars, runVars, nodeVars, procVars

LEMMA RecordStatusType ==
    ASSUME TypeOK, NEW s \in Scans, RecordStatus(s)
    PROVE  TypeOK'
  <1>1. objects' \in [Scans -> SUBSET {"log", "raw"}]
    <2>1. objects[s] \cup {"log"} \in SUBSET {"log", "raw"}
      BY DEF TypeOK
    <2>2. \/ objects' = [objects EXCEPT ![s] = objects[s] \cup {"log"}]
          \/ objects' = objects
      BY DEF RecordStatus
    <2>. QED
      BY <2>1, <2>2 DEF TypeOK
  <1>2. pc' \in [Scans -> Phases]
    BY DEF TypeOK, RecordStatus, Goto, AfterRecord
  <1>. QED
    BY <1>1, <1>2 DEF TypeOK, RecordStatus, rowVars, mailVars, dataVars, runVars, nodeVars, procVars

LEMMA RecordKeyType ==
    ASSUME TypeOK, NEW s \in Scans, RecordKey(s)
    PROVE  TypeOK'
  <1>1. keys' \in [Scans -> SUBSET {"log", "raw"}]
    <2>1. \A x \in {"log", "raw"} : keys[s] \cup {x} \in SUBSET {"log", "raw"}
      BY DEF TypeOK
    <2>2. \/ keys' = keys
          \/ keys' = [keys EXCEPT ![s] = keys[s]]
          \/ \E x \in {"log", "raw"} : keys' = [keys EXCEPT ![s] = keys[s] \cup {x}]
      BY DEF RecordKey
    <2>. QED
      BY <2>1, <2>2 DEF TypeOK
  <1>2. pc' \in [Scans -> Phases]
    BY DEF TypeOK, RecordKey, Goto, AfterRecord, AfterIngest
  <1>. QED
    BY <1>1, <1>2 DEF TypeOK, RecordKey, rowVars, mailVars, dataVars, runVars, nodeVars, procVars

\* The phases before the result stream is opened, and after all that is read of it.
Unread == {"none", "dial", "topup", "idle", "sync", "start", "markrun", "abort",
           "abortfail", "abortdel", "poll", "record", "logkey"}

\* The ingest's count of the records it has read is the number it has ingested and
\* skipped, as long as the scan they belong to is there.
StreamAt(s) ==
    /\ state[s] = "absent" => pc[s] = "none"
    /\ pc[s] \in Unread => /\ ingested[s] = 0 /\ skipped[s] = 0
                           /\ reads[s] = 0 /\ skips[s] = 0
    /\ pc[s] = "ingest" => /\ skipped[s] = 0
                           /\ ingested[s] + skips[s] <= reads[s]
                           /\ Exists(s) => ingested[s] + skips[s] = reads[s]

StreamInv == \A s \in Scans : StreamAt(s)

LEMMA NextRecordType ==
    ASSUME TypeOK, StreamInv, NEW s \in Scans, NextRecord(s)
    PROVE  /\ reads' \in [Scans -> 0 .. PerScan]
           /\ ingested[s] + 1 \in 0 .. PerScan
           /\ skips[s] + 1 \in 0 .. PerScan
  <1>1. reads[s] \in 0 .. PerScan /\ ingested[s] \in 0 .. PerScan /\ skips[s] \in 0 .. PerScan
    BY DEF TypeOK
  <1>2. pc[s] = "ingest" /\ reads[s] < PerScan /\ reads' = [reads EXCEPT ![s] = reads[s] + 1]
    BY DEF NextRecord
  <1>3. ingested[s] + skips[s] <= reads[s]
    BY <1>2 DEF StreamInv, StreamAt
  <1>4. reads[s] + 1 \in 0 .. PerScan
    BY <1>1, <1>2, ConstantTypes
  <1>. QED
    BY <1>1, <1>2, <1>3, <1>4, ConstantTypes DEF TypeOK

LEMMA IngestFindingType ==
    ASSUME TypeOK, StreamInv, NEW s \in Scans, IngestFinding(s)
    PROVE  TypeOK'
  <1>1. NextRecord(s) /\ ingested' = [ingested EXCEPT ![s] = ingested[s] + 1]
    BY DEF IngestFinding
  <1>2. reads' \in [Scans -> 0 .. PerScan] /\ ingested' \in [Scans -> 0 .. PerScan]
    BY <1>1, NextRecordType DEF TypeOK
  <1>. QED
    BY <1>2 DEF TypeOK, IngestFinding, rowVars, mailVars, runVars, nodeVars, procVars

LEMMA SkipFindingType ==
    ASSUME TypeOK, StreamInv, NEW s \in Scans, SkipFinding(s)
    PROVE  TypeOK'
  <1>1. NextRecord(s) /\ skips' = [skips EXCEPT ![s] = skips[s] + 1]
    BY DEF SkipFinding
  <1>2. reads' \in [Scans -> 0 .. PerScan] /\ skips' \in [Scans -> 0 .. PerScan]
    BY <1>1, NextRecordType DEF TypeOK
  <1>. QED
    BY <1>2 DEF TypeOK, SkipFinding, rowVars, mailVars, runVars, nodeVars, procVars

LEMMA IngestEndType ==
    ASSUME TypeOK, NEW s \in Scans, IngestEnd(s)
    PROVE  TypeOK'
  <1>1. reads' \in [Scans -> 0 .. PerScan]
    BY ConstantTypes DEF TypeOK, IngestEnd
  <1>2. pc' \in [Scans -> Phases]
    BY GotoType DEF IngestEnd, EndStream, AfterStream, AfterIngest
  <1>. QED
    BY <1>1, <1>2 DEF TypeOK, IngestEnd, rowVars, mailVars, runVars, nodeVars, procVars

LEMMA IngestErrorType ==
    ASSUME TypeOK, NEW s \in Scans, IngestError(s)
    PROVE  TypeOK'
  <1>1. reads' \in [Scans -> 0 .. PerScan]
    BY ConstantTypes DEF TypeOK, IngestError
  <1>2. pc' \in [Scans -> Phases]
    BY GotoType DEF IngestError, BreakStream
  <1>. QED
    BY <1>1, <1>2 DEF TypeOK, IngestError, rowVars, mailVars, runVars, nodeVars, procVars

LEMMA RecordSkippedType ==
    ASSUME TypeOK, NEW s \in Scans, RecordSkipped(s)
    PROVE  TypeOK'
  <1>1. skips' \in [Scans -> 0 .. PerScan]
    BY ConstantTypes DEF TypeOK, RecordSkipped
  <1>2. skipped' \in [Scans -> 0 .. PerScan]
    <2>1. WriteSkipped(s) \/ skipped' = skipped
      BY DEF RecordSkipped
    <2>. QED
      BY <2>1 DEF TypeOK, WriteSkipped
  <1>3. pc' \in [Scans -> Phases]
    BY GotoType DEF RecordSkipped, AfterStream, AfterIngest
  <1>. QED
    BY <1>1, <1>2, <1>3 DEF TypeOK, RecordSkipped, rowVars, mailVars, runVars, nodeVars, procVars

LEMMA ArchiveRawType ==
    ASSUME TypeOK, NEW s \in Scans, ArchiveRaw(s)
    PROVE  TypeOK'
  <1>1. objects' \in [Scans -> SUBSET {"log", "raw"}]
    <2>1. objects[s] \cup {"raw"} \in SUBSET {"log", "raw"}
      BY DEF TypeOK
    <2>2. \/ objects' = [objects EXCEPT ![s] = objects[s] \cup {"raw"}]
          \/ objects' = objects
      BY DEF ArchiveRaw
    <2>. QED
      BY <2>1, <2>2 DEF TypeOK
  <1>2. pc' \in [Scans -> Phases]
    BY GotoType DEF ArchiveRaw, AfterIngest
  <1>. QED
    BY <1>1, <1>2 DEF TypeOK, ArchiveRaw, rowVars, mailVars, runVars, nodeVars, procVars

LEMMA CancelScanType ==
    ASSUME TypeOK, NEW b \in Replicas, NEW s \in Scans, CancelScan(b, s)
    PROVE  TypeOK'
  BY ConstantTypes DEF TypeOK, CancelScan,
     rowVars, mailVars, dataVars, runVars, nodeVars, procVars

LEMMA SignalNodeCancelType ==
    ASSUME TypeOK, NEW b \in Replicas, NEW s \in Scans, SignalNodeCancel(b, s)
    PROVE  TypeOK'
  <1>1. job' \in [Scans -> Terminal \cup {"none", "running", "gone"}]
    BY DEF TypeOK, SignalNodeCancel, NodeCancel
  <1>. QED
    BY <1>1 DEF TypeOK, SignalNodeCancel, rowVars, mailVars, dataVars, runVars, nodeVars, procVars

LEMMA DistributeType ==
    ASSUME TypeOK, NEW b \in Replicas, Distribute(b)
    PROVE  TypeOK'
  BY ConstantTypes DEF TypeOK, Distribute,
     rowVars, mailVars, dataVars, runVars, nodeVars, procVars

LEMMA PushBundleType ==
    ASSUME TypeOK, NEW b \in Replicas, PushBundle(b)
    PROVE  TypeOK'
  BY ConstantTypes DEF TypeOK, PushBundle,
     rowVars, mailVars, dataVars, runVars, nodeVars, procVars

LEMMA CrashType ==
    ASSUME TypeOK, NEW b \in Replicas, Crash(b)
    PROVE  TypeOK'
  <1>1. /\ pc' \in [Scans -> Phases]
        /\ expired' \in [Scans -> BOOLEAN]
        /\ status' \in [Scans -> Terminal \cup {"none"}]
    BY DEF TypeOK, Crash
  <1>2. /\ bundle' \in [Scans -> Commits]
        /\ reads' \in [Scans -> 0 .. PerScan]
        /\ skips' \in [Scans -> 0 .. PerScan]
    BY ConstantTypes DEF TypeOK, Crash
  <1>3. /\ slots' \in [Replicas -> Nat]
        /\ signals' \subseteq Replicas \X Scans
        /\ proc' \in [Replicas -> {"down", "sweep", "list", "drain", "up"}]
        /\ refs' \in [Replicas -> SUBSET (Kinds \X Scans)]
        /\ dist' \in [Replicas -> Commits \cup {0}]
    BY DEF TypeOK, Crash
  <1>. QED
    BY <1>1, <1>2, <1>3 DEF TypeOK, Crash, rowVars, mailVars, nodeVars

LEMMA StartBackendType ==
    ASSUME TypeOK, NEW b \in Replicas, StartBackend(b)
    PROVE  TypeOK'
  BY ConstantTypes DEF TypeOK, StartBackend,
     rowVars, mailVars, dataVars, runVars, nodeVars, procVars

LEMMA ListUnclaimedType ==
    ASSUME TypeOK, NEW b \in Replicas, ListUnclaimed(b)
    PROVE  TypeOK'
  <1>1. refs' \in [Replicas -> SUBSET (Kinds \X Scans)]
    <2>. DEFINE pending == {x \in Kinds \X Scans : outbox[x[1]][x[2]] = "pending"}
    <2>1. pending \in SUBSET (Kinds \X Scans)
      OBVIOUS
    <2>. HIDE DEF pending
    <2>2. refs' = [refs EXCEPT ![b] = pending] \/ refs' = refs
      BY DEF ListUnclaimed, pending
    <2>. QED
      BY <2>1, <2>2 DEF TypeOK
  <1>. QED
    BY <1>1 DEF TypeOK, ListUnclaimed, rowVars, mailVars, dataVars, runVars, nodeVars, procVars

LEMMA ServeType ==
    ASSUME TypeOK, NEW b \in Replicas, Serve(b)
    PROVE  TypeOK'
  BY ConstantTypes DEF TypeOK, Serve,
     rowVars, mailVars, dataVars, runVars, nodeVars, procVars

LEMMA NodeFinishType ==
    ASSUME TypeOK, NEW s \in Scans, NodeFinish(s)
    PROVE  TypeOK'
  BY ConstantTypes DEF TypeOK, NodeFinish,
     rowVars, mailVars, dataVars, runVars, nodeVars, procVars

LEMMA NodeReapType ==
    ASSUME TypeOK, NEW s \in Scans, NodeReap(s)
    PROVE  TypeOK'
  BY ConstantTypes DEF TypeOK, NodeReap,
     rowVars, mailVars, dataVars, runVars, nodeVars, procVars

LEMMA ExpireType ==
    ASSUME TypeOK, NEW s \in Scans, Expire(s)
    PROVE  TypeOK'
  BY ConstantTypes DEF TypeOK, Expire,
     rowVars, mailVars, dataVars, runVars, nodeVars, procVars

LEMMA ChangeCatalogType == TypeOK /\ ChangeCatalog => TypeOK'
  BY ConstantTypes DEF TypeOK, ChangeCatalog, Commits, rowVars, mailVars, dataVars, runVars, nodeVars, procVars

LEMMA NodeRestartType == TypeOK /\ NodeRestart => TypeOK'
  BY DEF TypeOK, NodeRestart, rowVars, mailVars, dataVars, runVars, nodeVars, procVars

LEMMA DialType ==
    ASSUME TypeOK, NEW s \in Scans, Dial(s)
    PROVE  TypeOK'
  <1>1. nodeRow' \in [Scans -> BOOLEAN]
    <2>1. Exists(s) \in BOOLEAN
      BY DEF Exists
    <2>2. nodeRow' = [nodeRow EXCEPT ![s] = Exists(s)] \/ nodeRow' = nodeRow
      BY DEF Dial
    <2>. QED
      BY <2>1, <2>2, Zenon DEF TypeOK
  <1>2. pc' \in [Scans -> Phases]
    BY GotoType DEF Dial
  <1>. QED
    BY <1>1, <1>2 DEF TypeOK, Dial, rowVars, mailVars, dataVars, runVars, nodeVars, procVars

LEMMA MarkCompleteType ==
    ASSUME TypeOK, NEW s \in Scans, MarkComplete(s)
    PROVE  TypeOK'
  <1>1. WriteComplete(s) \/ UNCHANGED <<state, outbox>>
    BY DEF MarkComplete
  <1>2. pc' \in [Scans -> Phases]
    BY DEF TypeOK, MarkComplete, Goto
  <1>. QED
    BY <1>1, <1>2, WriteType DEF TypeOK, MarkComplete, rowVars, mailVars, dataVars, runVars, nodeVars, procVars

LEMMA FailScanType ==
    ASSUME TypeOK, NEW s \in Scans, FailScan(s)
    PROVE  TypeOK'
  <1>1. WriteFailed(s) \/ UNCHANGED <<state, outbox>>
    BY DEF FailScan
  <1>2. /\ pc' \in [Scans -> Phases]
        /\ slots' \in [Replicas -> Nat]
        /\ expired' \in [Scans -> BOOLEAN]
        /\ bundle' \in [Scans -> Commits]
        /\ status' \in [Scans -> Terminal \cup {"none"}]
    <2>1. CASE Return(s)
      BY <2>1, ReturnType
    <2>2. CASE \E phase \in Phases : Continue(s, phase)
      BY <2>2 DEF TypeOK, Continue, Goto
    <2>. QED
      BY <2>1, <2>2 DEF FailScan
  <1>. QED
    BY <1>1, <1>2, WriteType DEF TypeOK, FailScan, rowVars, mailVars, dataVars, runVars, nodeVars, procVars

LEMMA NotifyScanType ==
    ASSUME TypeOK, NEW s \in Scans, NotifyScan(s)
    PROVE  TypeOK'
  <1>1. \E k \in Kinds : Notify(k, s)
    BY DEF NotifyScan
  <1>2. /\ pc' \in [Scans -> Phases]
        /\ slots' \in [Replicas -> Nat]
        /\ expired' \in [Scans -> BOOLEAN]
        /\ bundle' \in [Scans -> Commits]
        /\ status' \in [Scans -> Terminal \cup {"none"}]
    <2>1. CASE Return(s)
      BY <2>1, ReturnType
    <2>2. CASE Continue(s, "cleanup")
      BY <2>2 DEF TypeOK, Continue, Goto
    <2>. QED
      BY <2>1, <2>2 DEF NotifyScan
  <1>. QED
    BY <1>1, <1>2, NotifyType DEF TypeOK, NotifyScan, rowVars, mailVars, dataVars, runVars, nodeVars, procVars

LEMMA CleanupNodeScanType ==
    ASSUME TypeOK, NEW s \in Scans, CleanupNodeScan(s)
    PROVE  TypeOK'
  <1>1. Return(s)
    BY DEF CleanupNodeScan
  <1>. QED
    BY <1>1, ReturnType DEF TypeOK, CleanupNodeScan, NodeDelete, rowVars, mailVars, dataVars, runVars, nodeVars, procVars

LEMMA DeleteScanType ==
    ASSUME TypeOK, NEW b \in Replicas, NEW s \in Scans, DeleteScan(b, s)
    PROVE  TypeOK'
  <1>1. objects' \in [Scans -> SUBSET {"log", "raw"}]
    <2>1. objects[s] \ keys[s] \in SUBSET {"log", "raw"}
      BY DEF TypeOK
    <2>2. objects' = [objects EXCEPT ![s] = objects[s] \ keys[s]] \/ objects' = objects
      BY DEF DeleteScan
    <2>. QED
      BY <2>1, <2>2 DEF TypeOK
  <1>2. /\ keys' \in [Scans -> SUBSET {"log", "raw"}]
        /\ ingested' \in [Scans -> 0 .. PerScan]
        /\ skipped' \in [Scans -> 0 .. PerScan]
        /\ outbox' \in [Kinds -> [Scans -> {"none", "pending", "claimed"}]]
    BY ConstantTypes DEF TypeOK, DeleteScan
  <1>. QED
    BY <1>1, <1>2 DEF TypeOK, DeleteScan, rowVars, mailVars, dataVars, runVars, nodeVars, procVars

LEMMA FailOrphanedScansType ==
    ASSUME TypeOK, NEW b \in Replicas, FailOrphanedScans(b)
    PROVE  TypeOK'
  <1>1. outbox' \in [Kinds -> [Scans -> {"none", "pending", "claimed"}]]
    BY DEF TypeOK, FailOrphanedScans
  <1>2. state' \in [Scans -> Rows \cup {"absent", "deleted"}]
    BY DEF TypeOK, FailOrphanedScans
  <1>. QED
    BY <1>1, <1>2 DEF TypeOK, FailOrphanedScans, rowVars, mailVars, dataVars, runVars, nodeVars, procVars

LEMMA NotifyUnclaimedType ==
    ASSUME TypeOK, NEW b \in Replicas, NEW k \in Kinds, NEW s \in Scans,
           NotifyUnclaimed(b, k, s)
    PROVE  TypeOK'
  <1>1. refs' \in [Replicas -> SUBSET (Kinds \X Scans)]
    BY DEF TypeOK, NotifyUnclaimed
  <1>2. Notify(k, s)
    BY DEF NotifyUnclaimed
  <1>. QED
    BY <1>1, <1>2, NotifyType DEF TypeOK, NotifyUnclaimed, rowVars, mailVars, dataVars, runVars, nodeVars, procVars

LEMMA NextType == TypeOK /\ StreamInv /\ [Next]_vars => TypeOK'
  <1>. SUFFICES ASSUME TypeOK, StreamInv, [Next]_vars
                PROVE  TypeOK'
    OBVIOUS
  <1>1. ASSUME NEW s \in Scans, Run(s)
        PROVE  TypeOK'
    BY <1>1, DialType, EnsureTemplateBundleType, WaitIdleType, SyncNodeType,
       StartScanType, MarkRunningType, AbortNodeScanType, AbortDeleteType,
       PollToDoneType, RecordStatusType, RecordKeyType, IngestFindingType,
       SkipFindingType, IngestEndType, IngestErrorType, RecordSkippedType,
       ArchiveRawType, MarkCompleteType, FailScanType, NotifyScanType,
       CleanupNodeScanType DEF Run
  <1>2. ASSUME NEW b \in Replicas, Boot(b)
        PROVE  TypeOK'
    BY <1>2, StartBackendType, FailOrphanedScansType, ListUnclaimedType,
       ServeType, NotifyUnclaimedType DEF Boot
  <1>3. CASE UNCHANGED vars
    BY <1>3 DEF TypeOK, vars
  <1>. QED
    BY <1>1, <1>2, <1>3, SubmitType, CancelScanType, SignalNodeCancelType,
       DeleteScanType, ExpireType, NodeFinishType, NodeReapType, DistributeType,
       PushBundleType, CrashType, ChangeCatalogType, NodeRestartType DEF Next

-----------------------------------------------------------------------------
(* What a step may do to the state column                                  *)

StateMoves(s) ==
    \/ state'[s] = state[s]
    \/ state[s] = "absent" /\ state'[s] = "queued"
    \/ state[s] = "queued" /\ state'[s] = "running"
    \/ state[s] \in Live /\ state'[s] \in {"failed", "cancelled"}
    \/ /\ state[s] \in Rows \ {"cancelled"} /\ pc[s] = "complete"
       /\ state'[s] = "complete"
    \/ state[s] \in Terminal /\ state'[s] = "deleted"

LEMMA WriteMoves ==
    ASSUME TypeOK, NEW r \in Scans, NEW s \in Scans,
           \/ pc[r] = "complete" /\ WriteComplete(r)
           \/ WriteFailed(r) \/ UNCHANGED state
    PROVE  StateMoves(s)
  BY DEF TypeOK, WriteComplete, WriteFailed, StateMoves

\* The column only moves along the arrows of StateMoves, whatever the number of
\* replicas and whichever statements fail.
LEMMA StateMovesOnly ==
    ASSUME TypeOK, [Next]_vars, NEW s \in Scans
    PROVE  StateMoves(s)
  <1>1. ASSUME NEW r \in Scans, Run(r)
        PROVE  StateMoves(s)
    <2>1. CASE MarkRunning(r)
      BY <2>1 DEF TypeOK, MarkRunning, StateMoves
    <2>2. CASE MarkComplete(r) \/ FailScan(r)
      BY <2>2, WriteMoves DEF MarkComplete, FailScan
    <2>3. CASE ~ (MarkRunning(r) \/ MarkComplete(r) \/ FailScan(r))
      <3>1. UNCHANGED state
        BY <1>1, <2>3 DEF Run, Dial, EnsureTemplateBundle, WaitIdle, SyncNode,
           StartScan, AbortNodeScan, AbortDelete, PollToDone, RecordStatus, RecordKey,
           IngestFinding, SkipFinding, IngestEnd, IngestError, RecordSkipped, ArchiveRaw,
           NotifyScan, CleanupNodeScan, rowVars
      <3>. QED
        BY <3>1 DEF StateMoves
    <2>. QED
      BY <2>1, <2>2, <2>3
  <1>2. ASSUME NEW b \in Replicas, Boot(b)
        PROVE  StateMoves(s)
    <2>1. CASE FailOrphanedScans(b)
      BY <2>1 DEF TypeOK, FailOrphanedScans, StateMoves
    <2>2. CASE ~ FailOrphanedScans(b)
      BY <1>2, <2>2 DEF Boot, StartBackend, ListUnclaimed, NotifyUnclaimed, Serve,
         rowVars, StateMoves
    <2>. QED
      BY <2>1, <2>2
  <1>3. ASSUME NEW b \in Replicas, NEW r \in Scans,
               Submit(b, r) \/ CancelScan(b, r) \/ DeleteScan(b, r)
        PROVE  StateMoves(s)
    BY <1>3 DEF TypeOK, Submit, CancelScan, DeleteScan, StateMoves
  <1>4. ASSUME UNCHANGED state
        PROVE  StateMoves(s)
    BY <1>4 DEF StateMoves
  <1>5. CASE UNCHANGED vars
    BY <1>5, <1>4 DEF vars
  <1>6. CASE ChangeCatalog \/ NodeRestart
    BY <1>6, <1>4 DEF ChangeCatalog, NodeRestart, rowVars
  <1>7. CASE \E r \in Scans : Expire(r) \/ NodeFinish(r) \/ NodeReap(r)
    BY <1>7, <1>4 DEF Expire, NodeFinish, NodeReap, rowVars
  <1>8. CASE \E b \in Replicas : Distribute(b) \/ PushBundle(b) \/ Crash(b)
    BY <1>8, <1>4 DEF Distribute, PushBundle, Crash, rowVars
  <1>9. CASE \E b \in Replicas, r \in Scans : SignalNodeCancel(b, r)
    BY <1>9, <1>4 DEF SignalNodeCancel, rowVars
  <1>. QED
    BY <1>1, <1>2, <1>3, <1>5, <1>6, <1>7, <1>8, <1>9 DEF Next

-----------------------------------------------------------------------------
(* What the ingest has read                                                *)

\* A step of one goroutine is no concern of the others.
LEMMA RunOthers ==
    ASSUME TypeOK, NEW r \in Scans, Run(r)
    PROVE  /\ UNCHANGED <<signals, proc, owner>>
           /\ \A s \in Scans \ {r} :
                 /\ pc'[s] = pc[s] /\ state'[s] = state[s] /\ job'[s] = job[s]
                 /\ status'[s] = status[s] /\ expired'[s] = expired[s]
                 /\ ingested'[s] = ingested[s] /\ skipped'[s] = skipped[s]
                 /\ reads'[s] = reads[s] /\ skips'[s] = skips[s]
  <1>. USE DEF TypeOK, Goto, rowVars, mailVars, dataVars, runVars, nodeVars, procVars
  <1>1. CASE \/ Dial(r) \/ EnsureTemplateBundle(r) \/ WaitIdle(r) \/ SyncNode(r)
             \/ StartScan(r) \/ MarkRunning(r)
    BY <1>1 DEF Dial, EnsureTemplateBundle, WaitIdle, SyncNode, StartScan, MarkRunning
  <1>2. CASE AbortNodeScan(r) \/ AbortDelete(r) \/ PollToDone(r)
    BY <1>2 DEF AbortNodeScan, AbortDelete, PollToDone, NodeCancel, NodeDelete
  <1>3. CASE RecordStatus(r) \/ RecordKey(r) \/ ArchiveRaw(r)
    BY <1>3 DEF RecordStatus, RecordKey, ArchiveRaw, AfterRecord, AfterIngest
  <1>7. CASE IngestFinding(r) \/ SkipFinding(r)
    BY <1>7 DEF IngestFinding, SkipFinding, NextRecord
  <1>8. CASE IngestEnd(r) \/ IngestError(r)
    BY <1>8 DEF IngestEnd, IngestError, EndStream, AfterStream, BreakStream, AfterIngest
  <1>9. CASE RecordSkipped(r)
    BY <1>9 DEF RecordSkipped, WriteSkipped, AfterStream, AfterIngest
  <1>4. CASE MarkComplete(r)
    BY <1>4 DEF MarkComplete, WriteComplete
  <1>5. CASE FailScan(r)
    BY <1>5 DEF FailScan, WriteFailed, Return, Continue
  <1>6. CASE NotifyScan(r) \/ CleanupNodeScan(r)
    BY <1>6 DEF NotifyScan, CleanupNodeScan, Return, Continue, NodeDelete
  <1>. QED
    BY <1>1, <1>2, <1>3, <1>4, <1>5, <1>6, <1>7, <1>8, <1>9 DEF Run

\* The goroutine opens the stream once, and its counts follow what it reads.
LEMMA RunStream ==
    ASSUME TypeOK, StreamInv, NEW r \in Scans, Run(r)
    PROVE  StreamInv'
  <1>1. \A s \in Scans \ {r} : StreamAt(s)'
    BY RunOthers DEF StreamInv, StreamAt, Exists
  <1>2. StreamAt(r) /\ pc[r] # "none"
    BY DEF StreamInv, Run, Dial, EnsureTemplateBundle, WaitIdle, SyncNode, StartScan,
       MarkRunning, AbortNodeScan, AbortDelete, PollToDone, RecordStatus, RecordKey,
       IngestFinding, SkipFinding, NextRecord, IngestEnd, IngestError, RecordSkipped,
       ArchiveRaw, MarkComplete, FailScan, NotifyScan, CleanupNodeScan
  <1>3. state'[r] # "absent"
    BY <1>2, StateMovesOnly DEF StreamAt, StateMoves, Next
  <1>4. Exists(r)' => Exists(r)
    BY <1>2, StateMovesOnly DEF StreamAt, StateMoves, Next, Exists
  <1>5. StreamAt(r)'
    <2>. USE DEF TypeOK, Goto, StreamAt, Unread, rowVars, mailVars, dataVars
    <2>1. CASE \/ Dial(r) \/ EnsureTemplateBundle(r) \/ WaitIdle(r) \/ SyncNode(r)
               \/ StartScan(r) \/ MarkRunning(r) \/ AbortNodeScan(r) \/ AbortDelete(r)
               \/ PollToDone(r)
      <3>1. pc[r] \in Unread /\ pc'[r] # "ingest" /\ UNCHANGED countVars
        BY <2>1 DEF Dial, EnsureTemplateBundle, WaitIdle, SyncNode, StartScan, MarkRunning,
           AbortNodeScan, AbortDelete, PollToDone
      <3>. QED
        BY <1>2, <1>3, <3>1
    <2>2. CASE RecordStatus(r) \/ RecordKey(r) \/ ArchiveRaw(r)
      <3>1. /\ UNCHANGED countVars
            /\ \/ pc[r] \in Unread
               \/ pc'[r] \notin Unread \cup {"ingest"}
        BY <2>2 DEF RecordStatus, RecordKey, ArchiveRaw, AfterRecord, AfterIngest
      <3>2. ingested[r] \in Int /\ skips[r] \in Int /\ reads[r] \in Int
        OBVIOUS
      <3>. QED
        BY <1>2, <1>3, <3>1, <3>2
    <2>3. CASE IngestFinding(r)
      <3>1. /\ pc' = pc /\ skips' = skips /\ skipped' = skipped /\ Exists(r)
            /\ pc[r] = "ingest" /\ ingested'[r] = ingested[r] + 1 /\ reads'[r] = reads[r] + 1
        BY <2>3 DEF IngestFinding, NextRecord
      <3>2. ingested[r] \in Int /\ skips[r] \in Int /\ reads[r] \in Int
        OBVIOUS
      <3>. QED
        BY <1>2, <1>3, <3>1, <3>2
    <2>4. CASE SkipFinding(r)
      <3>1. /\ pc' = pc /\ ingested' = ingested /\ skipped' = skipped
            /\ pc[r] = "ingest" /\ skips'[r] = skips[r] + 1 /\ reads'[r] = reads[r] + 1
        BY <2>4 DEF SkipFinding, NextRecord
      <3>2. ingested[r] \in Int /\ skips[r] \in Int /\ reads[r] \in Int
        OBVIOUS
      <3>. QED
        BY <1>2, <1>3, <1>4, <3>1, <3>2
    <2>5. CASE \/ IngestEnd(r) \/ IngestError(r) \/ RecordSkipped(r) \/ MarkComplete(r)
               \/ FailScan(r) \/ NotifyScan(r) \/ CleanupNodeScan(r)
      <3>1. pc'[r] \notin Unread \cup {"ingest"}
        BY <2>5 DEF IngestEnd, IngestError, RecordSkipped, EndStream, BreakStream, AfterStream,
           AfterIngest, MarkComplete, FailScan, NotifyScan, CleanupNodeScan, Continue, Return
      <3>. QED
        BY <1>3, <3>1
    <2>. QED
      BY <2>1, <2>2, <2>3, <2>4, <2>5 DEF Run
  <1>. QED
    BY <1>1, <1>5 DEF StreamInv

LEMMA StreamStep ==
    ASSUME TypeOK, StreamInv, [Next]_vars
    PROVE  StreamInv'
  <1>. USE DEF TypeOK, StreamInv, StreamAt, Exists, rowVars, mailVars, dataVars, runVars
  <1>1. ASSUME NEW r \in Scans, Run(r)
        PROVE  StreamInv'
    BY <1>1, RunStream
  <1>2. ASSUME NEW b \in Replicas, NEW r \in Scans, Submit(b, r)
        PROVE  StreamInv'
    BY <1>2 DEF Submit, Goto, Unread
  <1>3. ASSUME NEW b \in Replicas, NEW r \in Scans, DeleteScan(b, r)
        PROVE  StreamInv'
    <2>1. /\ pc' = pc /\ reads' = reads /\ skips' = skips
          /\ state[r] # "absent" /\ state'[r] = "deleted"
          /\ ingested'[r] = 0 /\ skipped'[r] = 0
          /\ \A s \in Scans \ {r} : /\ state'[s] = state[s] /\ ingested'[s] = ingested[s]
                                    /\ skipped'[s] = skipped[s]
      BY <1>3 DEF DeleteScan
    <2>2. ASSUME NEW s \in Scans
          PROVE  StreamAt(s)'
      <3>1. ingested[s] \in Nat /\ skips[s] \in Nat /\ reads[s] \in Nat
        BY ConstantTypes
      <3>. QED
        BY <2>1, <3>1
    <2>. QED
      BY <2>2
  <1>4. ASSUME UNCHANGED countVars, UNCHANGED pc,
               \A s \in Scans : /\ state'[s] = "absent" => state[s] = "absent"
                                /\ state'[s] \in Rows => state[s] \in Rows
        PROVE  StreamInv'
    BY <1>4
  <1>5. ASSUME NEW b \in Replicas, NEW r \in Scans, CancelScan(b, r) \/ SignalNodeCancel(b, r)
        PROVE  StreamInv'
    BY <1>4, <1>5 DEF CancelScan, SignalNodeCancel
  <1>6. ASSUME NEW b \in Replicas, Boot(b)
        PROVE  StreamInv'
    <2>1. CASE FailOrphanedScans(b)
      BY <1>4, <2>1 DEF FailOrphanedScans
    <2>2. CASE ~ FailOrphanedScans(b)
      <3>1. UNCHANGED <<countVars, pc, state>>
        BY <1>6, <2>2 DEF Boot, StartBackend, ListUnclaimed, NotifyUnclaimed, Serve
      <3>. QED
        BY <1>4, <3>1
    <2>. QED
      BY <2>1, <2>2
  <1>7. CASE \/ \E r \in Scans : Expire(r) \/ NodeFinish(r) \/ NodeReap(r)
             \/ \E b \in Replicas : Distribute(b) \/ PushBundle(b)
             \/ ChangeCatalog \/ NodeRestart \/ UNCHANGED vars
    <2>1. UNCHANGED <<countVars, pc, state>>
      BY <1>7 DEF Expire, NodeFinish, NodeReap, Distribute, PushBundle, ChangeCatalog,
         NodeRestart, vars
    <2>. QED
      BY <1>4, <2>1
  <1>8. ASSUME NEW b \in Replicas, Crash(b)
        PROVE  StreamInv'
    <2>1. /\ UNCHANGED <<state, ingested, skipped>>
          /\ \A s \in Scans :
                \/ owner[s] # b /\ pc'[s] = pc[s] /\ reads'[s] = reads[s] /\ skips'[s] = skips[s]
                \/ owner[s] = b /\ reads'[s] = 0 /\ skips'[s] = 0
                   /\ pc'[s] = IF pc[s] \in Running THEN "dead" ELSE pc[s]
      BY <1>8 DEF Crash
    <2>2. ASSUME NEW s \in Scans
          PROVE  StreamAt(s)'
      <3>1. CASE owner[s] # b
        BY <2>1, <3>1
      <3>2. CASE owner[s] = b
        <4>1. pc'[s] \in {"none", "done", "dead"}
          BY <2>1, <3>2
        <4>2. pc'[s] = "none" => pc[s] = "none"
          BY <2>1, <3>2
        <4>3. pc[s] = "none" => pc'[s] = "none"
          BY <2>1, <3>2
        <4>. QED
          BY <2>1, <3>2, <4>1, <4>2, <4>3 DEF Unread
      <3>. QED
        BY <3>1, <3>2
    <2>. QED
      BY <2>2
  <1>. QED
    BY <1>1, <1>2, <1>3, <1>5, <1>6, <1>7, <1>8 DEF Next

LEMMA StreamInit == Init => StreamInv
  BY ConstantTypes DEF Init, StreamInv, StreamAt, Unread

LEMMA AlwaysStream == Spec => [](TypeOK /\ StreamInv)
  BY InitType, NextType, StreamInit, StreamStep, PTL DEF Spec

\* Every variable keeps its type: in particular the admission counters stay
\* natural numbers, and no phase or status outside the code's is ever reached.
THEOREM TypeCorrect == Spec => []TypeOK
  BY AlwaysStream, PTL

\* A cancelled scan is never revived or relabelled, whatever replicas, crashes,
\* lost requests and failing statements are involved: MarkRunning, MarkComplete,
\* MarkFailed and the orphan sweep all leave the row alone.
THEOREM CancelledStaysCancelled == Spec => CancelledIsFinal
  <1>1. TypeOK /\ [Next]_vars
        => [\A s \in Scans :
               state[s] = "cancelled" => state'[s] \in {"cancelled", "deleted"}]_vars
    BY StateMovesOnly DEF StateMoves
  <1>. QED
    BY <1>1, TypeCorrect, PTL DEF Spec, CancelledIsFinal

-----------------------------------------------------------------------------
(* The template tree under a running job                                   *)

\* A scan that was never submitted has neither goroutine nor job.
Fresh == \A s \in Scans : state[s] = "absent" => pc[s] = "none" /\ job[s] = "none"

LEMMA FreshStep ==
    ASSUME TypeOK, Fresh, [Next]_vars
    PROVE  Fresh'
  <1>. USE DEF TypeOK, Fresh, rowVars, runVars, nodeVars, procVars
  <1>1. ASSUME NEW r \in Scans, Run(r)
        PROVE  Fresh'
    <2>1. /\ pc[r] \in Running
          /\ \A s \in Scans \ {r} : pc'[s] = pc[s] /\ job'[s] = job[s]
      BY <1>1, RunOthers DEF Run, Dial, EnsureTemplateBundle, WaitIdle, SyncNode,
         StartScan, MarkRunning, AbortNodeScan, AbortDelete, PollToDone, RecordStatus,
         RecordKey, IngestFinding, SkipFinding, NextRecord, IngestEnd, IngestError,
         RecordSkipped, ArchiveRaw, MarkComplete, FailScan, NotifyScan, CleanupNodeScan
    <2>. QED
      BY <2>1, StateMovesOnly DEF StateMoves
  <1>2. ASSUME NEW b \in Replicas, Boot(b)
        PROVE  Fresh'
    <2>1. pc' = pc /\ job' = job
      BY <1>2 DEF Boot, StartBackend, FailOrphanedScans, ListUnclaimed,
         NotifyUnclaimed, Serve
    <2>. QED
      BY <2>1, StateMovesOnly DEF StateMoves
  <1>3. ASSUME NEW b \in Replicas, NEW r \in Scans,
               \/ Submit(b, r) \/ CancelScan(b, r) \/ SignalNodeCancel(b, r)
               \/ DeleteScan(b, r)
        PROVE  Fresh'
    BY <1>3 DEF Submit, CancelScan, SignalNodeCancel, DeleteScan, Goto, NodeCancel
  <1>4. ASSUME NEW r \in Scans, Expire(r) \/ NodeFinish(r) \/ NodeReap(r)
        PROVE  Fresh'
    BY <1>4 DEF Expire, NodeFinish, NodeReap
  <1>5. ASSUME NEW b \in Replicas, Distribute(b) \/ PushBundle(b) \/ Crash(b)
        PROVE  Fresh'
    <2>1. CASE Crash(b)
      <3>1. /\ \A s \in Scans : pc[s] = "none" => pc'[s] = "none"
            /\ job' = job /\ state' = state
        BY <2>1 DEF Crash
      <3>. QED
        BY <3>1
    <2>2. CASE Distribute(b) \/ PushBundle(b)
      BY <2>2 DEF Distribute, PushBundle
    <2>. QED
      BY <1>5, <2>1, <2>2
  <1>6. CASE ChangeCatalog \/ NodeRestart
    BY <1>6 DEF ChangeCatalog, NodeRestart
  <1>7. CASE UNCHANGED vars
    BY <1>7 DEF vars
  <1>. QED
    BY <1>1, <1>2, <1>3, <1>4, <1>5, <1>6, <1>7 DEF Next

LEMMA TreeStep ==
    ASSUME TypeOK, Fresh, TreeMatchesRunningJobs, [Next]_vars
    PROVE  TreeMatchesRunningJobs'
  <1>. USE DEF TypeOK, TreeMatchesRunningJobs, rowVars, runVars, nodeVars, procVars
  <1>1. ASSUME NEW r \in Scans, Run(r)
        PROVE  TreeMatchesRunningJobs'
    <2>1. CASE SyncNode(r)
      BY <2>1 DEF SyncNode, NodeBusy
    <2>2. CASE StartScan(r)
      BY <2>2 DEF StartScan, NodeAccepts
    <2>3. CASE AbortNodeScan(r) \/ AbortDelete(r) \/ CleanupNodeScan(r)
      BY <2>3 DEF AbortNodeScan, AbortDelete, CleanupNodeScan, NodeCancel, NodeDelete
    <2>4. CASE UNCHANGED <<job, tree, commit>>
      BY <2>4
    <2>. QED
      BY <1>1, <2>1, <2>2, <2>3, <2>4 DEF Run, Dial, EnsureTemplateBundle, WaitIdle,
         MarkRunning, PollToDone, RecordStatus, RecordKey, IngestFinding, SkipFinding,
         IngestEnd, IngestError, RecordSkipped, ArchiveRaw, MarkComplete, FailScan,
         NotifyScan
  <1>2. ASSUME NEW b \in Replicas, Boot(b)
        PROVE  TreeMatchesRunningJobs'
    BY <1>2 DEF Boot, StartBackend, FailOrphanedScans, ListUnclaimed,
       NotifyUnclaimed, Serve
  <1>3. ASSUME NEW b \in Replicas, NEW r \in Scans, Submit(b, r)
        PROVE  TreeMatchesRunningJobs'
    BY <1>3 DEF Submit, Fresh
  <1>4. ASSUME NEW b \in Replicas, NEW r \in Scans,
               CancelScan(b, r) \/ SignalNodeCancel(b, r) \/ DeleteScan(b, r)
        PROVE  TreeMatchesRunningJobs'
    BY <1>4 DEF CancelScan, SignalNodeCancel, DeleteScan, NodeCancel
  <1>5. ASSUME NEW r \in Scans, Expire(r) \/ NodeFinish(r) \/ NodeReap(r)
        PROVE  TreeMatchesRunningJobs'
    BY <1>5 DEF Expire, NodeFinish, NodeReap
  <1>6. ASSUME NEW b \in Replicas, Distribute(b) \/ PushBundle(b) \/ Crash(b)
        PROVE  TreeMatchesRunningJobs'
    BY <1>6 DEF Distribute, PushBundle, Crash, NodeBusy
  <1>7. CASE ChangeCatalog \/ NodeRestart
    BY <1>7 DEF ChangeCatalog, NodeRestart
  <1>8. CASE UNCHANGED vars
    BY <1>8 DEF vars
  <1>. QED
    BY <1>1, <1>2, <1>3, <1>4, <1>5, <1>6, <1>7, <1>8 DEF Next

LEMMA FreshInit == Init => Fresh /\ TreeMatchesRunningJobs
  BY DEF Init, Fresh, TreeMatchesRunningJobs

LEMMA AlwaysFresh == Spec => []Fresh
  BY TypeCorrect, FreshInit, FreshStep, PTL DEF Spec

\* No bundle push, by the distributor, by an admin or by the pre-dispatch top-up,
\* replaces the tree a running job was resolved against, for any number of scans,
\* replicas and catalog versions and with requests lost at any point.
THEOREM TreeIsStable == Spec => []TreeMatchesRunningJobs
  BY TypeCorrect, AlwaysFresh, FreshInit, TreeStep, PTL DEF Spec

-----------------------------------------------------------------------------
(* Admission slots                                                         *)

LEMMA MineFinite ==
    ASSUME NEW b
    PROVE  IsFiniteSet(Mine(b)) /\ Cardinality(Mine(b)) \in Nat
  BY OrchestrationConstants, FS_Subset, FS_CardinalityType DEF Mine

\* A goroutine's step keeps it running, with the slots untouched, or is its
\* return, which gives one slot of its replica back.
LEMMA RunSlots ==
    ASSUME TypeOK, NEW r \in Scans, Run(r)
    PROVE  /\ pc[r] \in Running /\ owner' = owner
           /\ \A s \in Scans \ {r} : pc'[s] = pc[s]
           /\ \/ pc'[r] \in Running /\ slots' = slots
              \/ pc'[r] = "done" /\ slots' = [slots EXCEPT ![owner[r]] =
                                                  IF @ > 0 THEN @ - 1 ELSE 0]
  <1>. USE DEF TypeOK, runVars, Goto
  <1>1. CASE FailScan(r)
    BY <1>1 DEF FailScan, Continue, Return
  <1>2. CASE NotifyScan(r)
    BY <1>2 DEF NotifyScan, Continue, Return
  <1>3. CASE CleanupNodeScan(r)
    BY <1>3 DEF CleanupNodeScan, Return
  <1>4. CASE \/ Dial(r) \/ EnsureTemplateBundle(r) \/ WaitIdle(r) \/ SyncNode(r)
             \/ StartScan(r) \/ MarkRunning(r) \/ AbortNodeScan(r) \/ AbortDelete(r)
    BY <1>4 DEF Dial, EnsureTemplateBundle, WaitIdle, SyncNode, StartScan, MarkRunning,
       AbortNodeScan, AbortDelete
  <1>5. CASE \/ PollToDone(r) \/ RecordStatus(r) \/ RecordKey(r) \/ ArchiveRaw(r)
             \/ MarkComplete(r)
    BY <1>5 DEF PollToDone, RecordStatus, RecordKey, ArchiveRaw, MarkComplete,
       AfterRecord, AfterIngest
  <1>6. CASE \/ IngestFinding(r) \/ SkipFinding(r) \/ IngestEnd(r) \/ IngestError(r)
             \/ RecordSkipped(r)
    BY <1>6 DEF IngestFinding, SkipFinding, NextRecord, IngestEnd, IngestError,
       RecordSkipped, EndStream, BreakStream, AfterStream, AfterIngest
  <1>. QED
    BY <1>1, <1>2, <1>3, <1>4, <1>5, <1>6 DEF Run

LEMMA SameSlots ==
    ASSUME SlotsExact, slots' = slots, \A b \in Replicas : Mine(b)' = Mine(b)
    PROVE  SlotsExact'
  BY DEF SlotsExact

LEMMA SlotsStep ==
    ASSUME TypeOK, Fresh, SlotsExact, [Next]_vars
    PROVE  SlotsExact'
  <1>. USE DEF TypeOK
  <1>1. ASSUME NEW r \in Scans, Run(r)
        PROVE  SlotsExact'
    <2>1. CASE pc'[r] \in Running /\ slots' = slots
      <3>1. \A b \in Replicas : Mine(b)' = Mine(b)
        BY <1>1, <2>1, RunSlots DEF Mine, Driven
      <3>. QED
        BY <3>1, <2>1, SameSlots
    <2>2. CASE /\ pc'[r] = "done"
               /\ slots' = [slots EXCEPT ![owner[r]] = IF @ > 0 THEN @ - 1 ELSE 0]
      <3>1. r \in Mine(owner[r])
        BY <1>1, RunSlots DEF Mine, Driven
      <3>2. Mine(owner[r])' = Mine(owner[r]) \ {r}
        BY <1>1, <2>2, RunSlots DEF Mine, Driven
      <3>3. \A b \in Replicas \ {owner[r]} : Mine(b)' = Mine(b)
        BY <1>1, <2>2, RunSlots DEF Mine, Driven
      <3>4. Cardinality(Mine(owner[r])') = Cardinality(Mine(owner[r])) - 1
        <4>1. Cardinality(Mine(owner[r]) \ {r}) = Cardinality(Mine(owner[r])) - 1
          BY <3>1, MineFinite, FS_RemoveElement
        <4>. QED
          BY <4>1, <3>2
      <3>5. Cardinality(Mine(owner[r])') \in Nat
        BY <3>2, MineFinite, FS_Subset, FS_CardinalityType
      <3>6. slots[owner[r]] = Cardinality(Mine(owner[r])) /\ slots[owner[r]] <= Limit
        BY DEF SlotsExact
      <3>7. /\ slots'[owner[r]] = Cardinality(Mine(owner[r])')
            /\ slots'[owner[r]] <= Limit
        BY <2>2, <3>4, <3>5, <3>6, MineFinite, ConstantTypes
      <3>8. \A b \in Replicas \ {owner[r]} :
               slots'[b] = Cardinality(Mine(b)') /\ slots'[b] <= Limit
        BY <2>2, <3>3 DEF SlotsExact
      <3>. QED
        BY <3>7, <3>8, <1>1, RunSlots DEF SlotsExact
    <2>. QED
      BY <1>1, <2>1, <2>2, RunSlots
  <1>2. ASSUME NEW b \in Replicas, NEW r \in Scans, Submit(b, r)
        PROVE  SlotsExact'
    <2>1. r \notin Mine(b) /\ Mine(b)' = Mine(b) \cup {r}
      BY <1>2 DEF Submit, Goto, Mine, Driven, Fresh
    <2>2. \A a \in Replicas \ {b} : Mine(a)' = Mine(a)
      BY <1>2 DEF Submit, Goto, Mine, Driven
    <2>3. Cardinality(Mine(b)') = Cardinality(Mine(b)) + 1
      <3>1. Cardinality(Mine(b) \cup {r}) = Cardinality(Mine(b)) + 1
        BY <2>1, MineFinite, FS_AddElement
      <3>. QED
        BY <3>1, <2>1
    <2>4. slots[b] = Cardinality(Mine(b)) /\ slots[b] < Limit
      BY <1>2 DEF SlotsExact, Submit
    <2>5. slots'[b] = Cardinality(Mine(b)') /\ slots'[b] <= Limit
      BY <1>2, <2>3, <2>4, ConstantTypes DEF Submit
    <2>6. \A a \in Replicas \ {b} : slots'[a] = Cardinality(Mine(a)') /\ slots'[a] <= Limit
      BY <1>2, <2>2 DEF Submit, SlotsExact
    <2>. QED
      BY <2>5, <2>6 DEF SlotsExact
  <1>3. ASSUME NEW b \in Replicas, Crash(b)
        PROVE  SlotsExact'
    <2>1. Mine(b)' = {}
      BY <1>3 DEF Crash, Mine, Driven
    <2>2. \A a \in Replicas \ {b} : Mine(a)' = Mine(a)
      BY <1>3 DEF Crash, Mine, Driven
    <2>3. slots'[b] = Cardinality(Mine(b)') /\ slots'[b] <= Limit
      BY <1>3, <2>1, FS_EmptySet, ConstantTypes DEF Crash
    <2>4. \A a \in Replicas \ {b} : slots'[a] = Cardinality(Mine(a)') /\ slots'[a] <= Limit
      BY <1>3, <2>2 DEF Crash, SlotsExact
    <2>. QED
      BY <2>3, <2>4 DEF SlotsExact
  <1>4. ASSUME slots' = slots, pc' = pc, owner' = owner
        PROVE  SlotsExact'
    BY <1>4, SameSlots DEF Mine, Driven
  <1>5. ASSUME NEW b \in Replicas, NEW r \in Scans,
               CancelScan(b, r) \/ SignalNodeCancel(b, r) \/ DeleteScan(b, r)
        PROVE  SlotsExact'
    BY <1>4, <1>5 DEF CancelScan, SignalNodeCancel, DeleteScan, runVars
  <1>6. ASSUME NEW r \in Scans, Expire(r) \/ NodeFinish(r) \/ NodeReap(r)
        PROVE  SlotsExact'
    BY <1>4, <1>6 DEF Expire, NodeFinish, NodeReap, runVars
  <1>7. ASSUME NEW b \in Replicas, Distribute(b) \/ PushBundle(b) \/ Boot(b)
        PROVE  SlotsExact'
    BY <1>4, <1>7 DEF Distribute, PushBundle, Boot, StartBackend, FailOrphanedScans,
       ListUnclaimed, NotifyUnclaimed, Serve, runVars
  <1>8. CASE ChangeCatalog \/ NodeRestart
    BY <1>4, <1>8 DEF ChangeCatalog, NodeRestart, runVars
  <1>9. CASE UNCHANGED vars
    BY <1>4, <1>9 DEF vars
  <1>. QED
    BY <1>1, <1>2, <1>3, <1>5, <1>6, <1>7, <1>8, <1>9 DEF Next

LEMMA SlotsInit == Init => SlotsExact
  <1>. SUFFICES ASSUME Init
                PROVE  SlotsExact
    OBVIOUS
  <1>1. \A b \in Replicas : Mine(b) = {}
    BY DEF Init, Mine, Driven
  <1>2. \A b \in Replicas : slots[b] = 0
    BY DEF Init
  <1>3. Cardinality({}) = 0 /\ 0 <= Limit
    BY FS_EmptySet, ConstantTypes
  <1>. QED
    BY <1>1, <1>2, <1>3 DEF SlotsExact

\* For any node limit, any number of scans and replicas and on every path through
\* Orchestrator.run, a replica holds exactly one admission slot for each of its
\* goroutines and never more than the limit: acquire and the deferred release pair
\* up, also across a crash.
THEOREM SlotsAreExact == Spec => []SlotsExact
  BY TypeCorrect, AlwaysFresh, SlotsInit, SlotsStep, PTL DEF Spec
-----------------------------------------------------------------------------
(* Who ends a live row                                                     *)

\* No statement of the database fails for good and no run context expires.
Reliable == Faults \cap {"db", "expire"} = {}

\* Someone has written how the scan ended.
Over(s) == state[s] \notin Live \cup {"absent"}

\* The phases before MarkRunning has moved the row.
Waiting == {"dial", "topup", "idle", "sync", "start", "markrun"}

\* The phases a goroutine reaches only after an outcome is written.
Closing == {"abort", "cleanup", "notifydigest", "notifyfailed", "notifyfailedclean", "done"}

\* What tells of a cancel or of the end of a goroutine tells of a row that is
\* not live, and a goroutine that died leaves its row to the next sweep.
DriverAt(s) ==
    /\ ~ expired[s]
    /\ pc[s] \notin {"abortfail", "abortdel"}
    /\ pc[s] = "none" => state[s] = "absent"
    /\ pc[s] \in Waiting => state[s] # "running"
    /\ pc[s] \in Closing => Over(s)
    /\ job[s] = "cancelled" => Over(s)
    /\ status[s] = "cancelled" => Over(s)
    /\ \A b \in Replicas : <<b, s>> \in signals => Over(s)
    /\ pc[s] = "dead" => Over(s) \/ proc[owner[s]] \in {"down", "sweep"}

DriverInv == \A s \in Scans : DriverAt(s)

\* An outcome that is written stays written.
LEMMA OverStays ==
    ASSUME TypeOK, [Next]_vars, NEW s \in Scans, Over(s)
    PROVE  Over(s)'
  BY StateMovesOnly DEF StateMoves, Over, Live, Terminal, Rows

LEMMA RunDriver ==
    ASSUME Reliable, TypeOK, Fresh, DriverInv, NEW r \in Scans, Run(r)
    PROVE  DriverInv'
  <1>1. ~ StmtFails(r) /\ ~ expired[r] /\ ~ DBMayFail /\ DriverAt(r) /\ pc[r] \in Running
    BY DEF Reliable, DriverInv, DriverAt, StmtFails, DBMayFail, Run, Dial, EnsureTemplateBundle,
       WaitIdle, SyncNode, StartScan, MarkRunning, AbortNodeScan, AbortDelete, PollToDone,
       RecordStatus, RecordKey, IngestFinding, SkipFinding, NextRecord, IngestEnd, IngestError,
       RecordSkipped, ArchiveRaw, MarkComplete, FailScan, NotifyScan, CleanupNodeScan, Running
  <1>2. UNCHANGED <<signals, proc, owner>>
    BY RunOthers
  <1>3. \A s \in Scans \ {r} : DriverAt(s)'
    BY RunOthers DEF DriverInv, DriverAt, Over
  <1>4. state[r] # "absent"
    BY <1>1 DEF Fresh, Running
  <1>5. Over(r) => Over(r)'
    BY OverStays DEF Next
  <1>6. DriverAt(r)'
    <2>. USE DEF TypeOK, Goto, DriverAt, Closing, Waiting, rowVars, runVars, nodeVars
    <2>1. CASE Dial(r) \/ EnsureTemplateBundle(r) \/ WaitIdle(r)
      BY <1>1, <1>2, <2>1 DEF Dial, EnsureTemplateBundle, WaitIdle, Over
    <2>2. CASE SyncNode(r) \/ StartScan(r)
      BY <1>1, <1>2, <2>2 DEF SyncNode, StartScan, Over
    <2>3. CASE MarkRunning(r)
      <3>1. CASE state[r] = "queued"
        BY <1>1, <1>2, <2>3, <3>1 DEF MarkRunning, Over, Live
      <3>2. CASE state[r] # "queued"
        BY <1>1, <1>2, <1>4, <2>3, <3>2 DEF MarkRunning, Over, Live
      <3>. QED
        BY <3>1, <3>2
    <2>4. CASE AbortNodeScan(r) \/ AbortDelete(r)
      BY <1>1, <1>2, <2>4 DEF AbortNodeScan, AbortDelete, NodeCancel, Over
    <2>5. CASE PollToDone(r)
      BY <1>1, <1>2, <2>5 DEF PollToDone, Over
    <2>6. CASE RecordStatus(r) \/ RecordKey(r) \/ ArchiveRaw(r)
      BY <1>1, <1>2, <2>6 DEF RecordStatus, RecordKey, ArchiveRaw, AfterRecord, AfterIngest, Over
    <2>7. CASE \/ IngestFinding(r) \/ SkipFinding(r) \/ IngestEnd(r) \/ IngestError(r)
               \/ RecordSkipped(r)
      BY <1>1, <1>2, <2>7 DEF IngestFinding, SkipFinding, NextRecord, IngestEnd, IngestError,
         RecordSkipped, EndStream, BreakStream, AfterStream, AfterIngest, Over
    <2>8. CASE MarkComplete(r)
      BY <1>1, <1>2, <1>4, <2>8 DEF MarkComplete, WriteComplete, Over, Live, Rows, Terminal
    <2>9. CASE FailScan(r)
      BY <1>1, <1>2, <1>4, <2>9 DEF FailScan, WriteFailed, Continue, Over, Live
    <2>10. CASE NotifyScan(r)
      BY <1>1, <1>2, <2>10 DEF NotifyScan, Continue, Return, Over
    <2>11. CASE CleanupNodeScan(r)
      BY <1>1, <1>2, <2>11 DEF CleanupNodeScan, NodeDelete, Return, Over
    <2>. QED
      BY <2>1, <2>2, <2>3, <2>4, <2>5, <2>6, <2>7, <2>8, <2>9, <2>10, <2>11 DEF Run
  <1>. QED
    BY <1>3, <1>6 DEF DriverInv

LEMMA DriverStep ==
    ASSUME Reliable, TypeOK, Fresh, DriverInv, [Next]_vars
    PROVE  DriverInv'
  <1>. USE DEF TypeOK, rowVars, runVars, nodeVars, procVars
  <1>1. ASSUME NEW r \in Scans, Run(r)
        PROVE  DriverInv'
    BY <1>1, RunDriver
  <1>2. \A s \in Scans : Over(s) => Over(s)'
    BY OverStays
  <1>3. ASSUME NEW b \in Replicas, Boot(b)
        PROVE  DriverInv'
    <2>1. CASE FailOrphanedScans(b)
      <3>1. \A s \in Scans : state'[s] = IF state[s] \in Live THEN "failed" ELSE state[s]
        BY <2>1 DEF FailOrphanedScans, Reliable, DBMayFail
      <3>2. UNCHANGED <<pc, expired, status, job, signals, owner>>
        BY <2>1 DEF FailOrphanedScans
      <3>. QED
        BY <1>2, <3>1, <3>2 DEF DriverInv, DriverAt, Over, Live, Fresh, Waiting
    <2>2. CASE ~ FailOrphanedScans(b)
      <3>1. UNCHANGED <<state, pc, expired, status, job, signals, owner>>
        BY <1>3, <2>2 DEF Boot, StartBackend, ListUnclaimed, NotifyUnclaimed, Serve
      <3>2. /\ proc' = proc \/ \E p : proc' = [proc EXCEPT ![b] = p]
            /\ proc'[b] = "sweep" \/ proc[b] \notin {"down", "sweep"}
        <4>1. CASE StartBackend(b)
          BY <4>1 DEF StartBackend
        <4>2. CASE ListUnclaimed(b) \/ Serve(b)
          BY <4>2 DEF ListUnclaimed, Serve
        <4>3. CASE \E k \in Kinds, s \in Scans : NotifyUnclaimed(b, k, s)
          BY <4>3 DEF NotifyUnclaimed
        <4>. QED
          BY <1>3, <2>2, <4>1, <4>2, <4>3 DEF Boot
      <3>3. \A c \in Replicas : proc[c] \in {"down", "sweep"} => proc'[c] \in {"down", "sweep"}
        BY <3>2
      <3>. QED
        BY <3>1, <3>3 DEF DriverInv, DriverAt, Over
    <2>. QED
      BY <2>1, <2>2
  <1>4. ASSUME NEW b \in Replicas, NEW r \in Scans, Submit(b, r)
        PROVE  DriverInv'
    <2>1. /\ state[r] = "absent" /\ state' = [state EXCEPT ![r] = "queued"]
          /\ pc' = [pc EXCEPT ![r] = "dial"]
          /\ UNCHANGED <<expired, status, job, signals, proc, owner>>
      BY <1>4 DEF Submit, Goto
    <2>2. \A s \in Scans \ {r} : DriverAt(s)'
      BY <2>1 DEF DriverInv, DriverAt, Over
    <2>3. DriverAt(r)'
      BY <2>1 DEF DriverInv, DriverAt, Over, Waiting, Closing
    <2>. QED
      BY <2>2, <2>3 DEF DriverInv
  <1>5. ASSUME NEW b \in Replicas, NEW r \in Scans, CancelScan(b, r) \/ DeleteScan(b, r)
        PROVE  DriverInv'
    <2>1. /\ UNCHANGED <<pc, expired, status, job, proc, owner>>
          /\ \A s \in Scans \ {r} : state'[s] = state[s]
          /\ state[r] # "absent" /\ Over(r)' /\ state'[r] # "running"
          /\ \A c \in Replicas, s \in Scans \ {r} : <<c, s>> \in signals' => <<c, s>> \in signals
      BY <1>5 DEF CancelScan, DeleteScan, Over, Live, Terminal
    <2>. QED
      BY <1>2, <2>1 DEF DriverInv, DriverAt, Over
  <1>6. ASSUME NEW b \in Replicas, NEW r \in Scans, SignalNodeCancel(b, r)
        PROVE  DriverInv'
    BY <1>6 DEF SignalNodeCancel, NodeCancel, DriverInv, DriverAt, Over
  <1>7. ASSUME NEW r \in Scans, Expire(r) \/ NodeFinish(r) \/ NodeReap(r)
        PROVE  DriverInv'
    BY <1>7 DEF Expire, NodeFinish, NodeReap, Reliable, DriverInv, DriverAt, Over
  <1>8. ASSUME NEW b \in Replicas, Crash(b)
        PROVE  DriverInv'
    <2>1. /\ UNCHANGED <<state, job, owner>>
          /\ proc' = [proc EXCEPT ![b] = "down"]
          /\ \A s \in Scans :
                /\ pc'[s] = IF owner[s] = b /\ pc[s] \in Running THEN "dead" ELSE pc[s]
                /\ expired'[s] = IF owner[s] = b THEN FALSE ELSE expired[s]
                /\ status'[s] = IF owner[s] = b THEN "none" ELSE status[s]
          /\ \A x \in signals' : x \in signals
      BY <1>8 DEF Crash
    <2>2. ASSUME NEW s \in Scans
          PROVE  DriverAt(s)'
      <3>. USE DEF DriverAt, Over
      <3>1. DriverAt(s) /\ (Over(s)' <=> Over(s)) /\ owner'[s] = owner[s]
        BY <2>1 DEF DriverInv
      <3>2. CASE owner[s] = b /\ pc[s] \in Running
        <4>1. pc'[s] = "dead" /\ owner[s] \in Replicas /\ proc'[owner[s]] = "down"
          BY <2>1, <3>2
        <4>. QED
          BY <2>1, <3>1, <3>2, <4>1 DEF Waiting, Closing
      <3>3. CASE ~ (owner[s] = b /\ pc[s] \in Running)
        <4>1. pc'[s] = pc[s]
          BY <2>1, <3>3
        <4>2. pc[s] = "dead" => Over(s) \/ proc'[owner[s]] \in {"down", "sweep"}
          BY <2>1, <3>1
        <4>. QED
          BY <2>1, <3>1, <4>1, <4>2
      <3>. QED
        BY <3>2, <3>3
    <2>. QED
      BY <2>2 DEF DriverInv
  <1>9. CASE \/ \E b \in Replicas : Distribute(b) \/ PushBundle(b)
             \/ ChangeCatalog \/ UNCHANGED vars
    <2>1. UNCHANGED <<state, pc, expired, status, job, signals, proc, owner>>
      BY <1>9 DEF Distribute, PushBundle, ChangeCatalog, vars
    <2>. QED
      BY <2>1 DEF DriverInv, DriverAt, Over
  <1>10. CASE NodeRestart
    BY <1>10 DEF NodeRestart, DriverInv, DriverAt, Over
  <1>. QED
    BY <1>1, <1>3, <1>4, <1>5, <1>6, <1>7, <1>8, <1>9, <1>10 DEF Next

LEMMA DriverInit == Init => DriverInv
  BY DEF Init, DriverInv, DriverAt, Over, Waiting, Closing, Live

\* As long as the database answers and no run context expires, a queued or
\* running row has its goroutine, or a process on its way up whose sweep will
\* fail it: whatever processes and nodes restart, requests are lost, users
\* cancel and delete, with any number of replicas (Orchestrator.run,
\* FailOrphanedScans).
THEOREM LiveRowsAreDriven ==
    ASSUME Reliable
    PROVE  Spec => []LiveRowHasDriver
  <1>1. TypeOK /\ Fresh /\ DriverInv => LiveRowHasDriver
    BY DEF TypeOK, Fresh, DriverInv, DriverAt, LiveRowHasDriver, Driven, Over, Closing, Live, Phases
  <1>2. DriverInv /\ TypeOK /\ Fresh /\ [Next]_vars => DriverInv'
    BY DriverStep, Reliable
  <1>. QED
    BY <1>1, <1>2, DriverInit, TypeCorrect, AlwaysFresh, PTL DEF Spec
=============================================================================
