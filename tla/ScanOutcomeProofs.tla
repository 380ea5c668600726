------------------------- MODULE ScanOutcomeProofs -------------------------
(* Proofs about the outcome of a scan in the deployment the orphan sweep   *)
(* is written for, one backend replica: what its row, its outbox rows, its *)
(* occurrences and its mails say.                                          *)
EXTENDS ScanOrchestrationProofs

SingleReplica == \A a, b \in Replicas : a = b

\* The phases before the goroutine has written an outcome.
Early == Running \ {"notifydigest", "notifyfailed", "notifyfailedclean", "cleanup"}

\* A goroutine runs in a process that is up.
UpInv == \A s \in Scans : Driven(s) => proc[owner[s]] = "up"

\* Until the goroutine has written an outcome nobody has, but for a cancel (and
\* a deletion after it).
OpenInv ==
    \A s \in Scans : pc[s] \in Early => state[s] \in Live \cup {"cancelled", "deleted"}

\* A row whose mail went out is claimed, or gone with its scan.
MailInv ==
    \A s \in Scans, k \in Kinds :
        mails[k][s] > 0 => outbox[k][s] = "claimed" \/ state[s] = "deleted"

\* Past the end of a complete stream every record is in or among the skipped, and
\* past the recording of their number it is on the scan's row.
IngestInv ==
    \A s \in Scans :
        /\ pc[s] = "complete" => status[s] = "complete"
        /\ pc[s] = "count" /\ status[s] = "complete"
           => ingested[s] + skips[s] = PerScan \/ state[s] = "deleted"
        /\ pc[s] \in {"archive", "rawkey", "complete"} /\ status[s] = "complete"
           => ingested[s] + skipped[s] = PerScan \/ state[s] = "deleted"

USE DEF Kinds, Live, Terminal, Rows, Running, Phases, Early, Driven, countVars

-----------------------------------------------------------------------------

LEMMA UpStep ==
    ASSUME TypeOK, UpInv, [Next]_vars
    PROVE  UpInv'
  <1>. USE DEF TypeOK, UpInv
  <1>1. ASSUME NEW r \in Scans, Run(r)
        PROVE  UpInv'
    <2>1. proc' = proc
      BY <1>1, RunOthers
    <2>. QED
      BY <1>1, <2>1, RunSlots
  <1>2. ASSUME NEW b \in Replicas, Boot(b)
        PROVE  UpInv'
    <2>1. pc' = pc /\ owner' = owner
      BY <1>2 DEF Boot, StartBackend, FailOrphanedScans, ListUnclaimed,
         NotifyUnclaimed, Serve, runVars
    <2>2. /\ proc[b] # "up"
          /\ \A a \in Replicas \ {b} : proc'[a] = proc[a]
      <3>1. CASE \E k \in Kinds, s \in Scans : NotifyUnclaimed(b, k, s)
        BY <3>1 DEF NotifyUnclaimed
      <3>2. CASE StartBackend(b) \/ ListUnclaimed(b) \/ Serve(b)
        BY <3>2 DEF StartBackend, ListUnclaimed, Serve
      <3>3. CASE FailOrphanedScans(b)
        BY <3>3 DEF FailOrphanedScans
      <3>. QED
        BY <1>2, <3>1, <3>2, <3>3 DEF Boot
    <2>. QED
      BY <2>1, <2>2
  <1>3. ASSUME NEW b \in Replicas, NEW r \in Scans, Submit(b, r)
        PROVE  UpInv'
    BY <1>3 DEF Submit, Goto, procVars
  <1>4. ASSUME NEW b \in Replicas, NEW r \in Scans,
               CancelScan(b, r) \/ SignalNodeCancel(b, r) \/ DeleteScan(b, r)
        PROVE  UpInv'
    BY <1>4 DEF CancelScan, SignalNodeCancel, DeleteScan, runVars, procVars
  <1>5. ASSUME NEW r \in Scans, Expire(r) \/ NodeFinish(r) \/ NodeReap(r)
        PROVE  UpInv'
    BY <1>5 DEF Expire, NodeFinish, NodeReap, runVars, procVars
  <1>6. ASSUME NEW b \in Replicas, Distribute(b) \/ PushBundle(b)
        PROVE  UpInv'
    BY <1>6 DEF Distribute, PushBundle, runVars, procVars
  <1>7. ASSUME NEW b \in Replicas, Crash(b)
        PROVE  UpInv'
    <2>1. /\ owner' = owner
          /\ \A a \in Replicas \ {b} : proc'[a] = proc[a]
          /\ \A s \in Scans : Driven(s)' => Driven(s) /\ owner[s] # b
      BY <1>7 DEF Crash
    <2>. QED
      BY <2>1
  <1>8. CASE ChangeCatalog \/ NodeRestart
    BY <1>8 DEF ChangeCatalog, NodeRestart, runVars, procVars
  <1>9. CASE UNCHANGED vars
    BY <1>9 DEF vars
  <1>. QED
    BY <1>1, <1>2, <1>3, <1>4, <1>5, <1>6, <1>7, <1>8, <1>9 DEF Next

LEMMA AlwaysUp == Spec => []UpInv
  <1>1. Init => UpInv
    BY DEF Init, UpInv
  <1>. QED
    BY <1>1, UpStep, TypeCorrect, PTL DEF Spec

\* With one replica the startup sweep never fails a scan whose goroutine still
\* runs: FailOrphanedScans runs before the process serves, and the goroutines of
\* the previous process are gone.
THEOREM SweepSparesDrivenScans ==
    ASSUME SingleReplica
    PROVE  Spec => OrphansHaveNoDriver
  <1>1. TypeOK /\ UpInv /\ [Next]_vars
        => [\A b \in Replicas, s \in Scans :
              /\ proc[b] = "sweep" /\ proc'[b] = "list"
              /\ state[s] \in Live /\ state'[s] = "failed"
              => ~ Driven(s)]_vars
    BY SingleReplica DEF TypeOK, UpInv, SingleReplica
  <1>. QED
    BY <1>1, AlwaysUp, TypeCorrect, PTL DEF Spec, OrphansHaveNoDriver

-----------------------------------------------------------------------------
(* What each kind of step does to the rows, pointwise                      *)

LEMMA InsertEffect ==
    ASSUME TypeOK, NEW k \in Kinds, NEW r \in Scans, Insert(k, r)
    PROVE  \A j \in Kinds, s \in Scans :
              outbox'[j][s] = IF j = k /\ s = r /\ outbox[k][r] = "none"
                              THEN "pending" ELSE outbox[j][s]
  BY DEF TypeOK, Insert

LEMMA NotifyEffect ==
    ASSUME TypeOK, NEW k \in Kinds, NEW r \in Scans, Notify(k, r)
    PROVE  /\ \A j \in Kinds, s \in Scans :
                 j # k \/ s # r => /\ outbox'[j][s] = outbox[j][s]
                                   /\ mails'[j][s] = mails[j][s]
           /\ \/ outbox'[k][r] = outbox[k][r] /\ mails'[k][r] = mails[k][r]
              \/ /\ outbox[k][r] = "pending" /\ outbox'[k][r] = "claimed"
                 /\ mails'[k][r] \in {mails[k][r], mails[k][r] + 1}
  <1>1. CASE UNCHANGED mailVars
    BY <1>1 DEF mailVars
  <1>2. CASE /\ outbox[k][r] = "pending"
             /\ outbox' = [outbox EXCEPT ![k][r] = "claimed"]
             /\ \E n \in {0, 1} : mails' = [mails EXCEPT ![k][r] = @ + n]
    <2>1. PICK n \in {0, 1} : mails' = [mails EXCEPT ![k][r] = @ + n]
      BY <1>2
    <2>2. mails[k][r] \in Nat
      BY DEF TypeOK
    <2>3. mails'[k][r] = mails[k][r] + n
      BY <2>1 DEF TypeOK
    <2>4. \A j \in Kinds, s \in Scans : j # k \/ s # r => mails'[j][s] = mails[j][s]
      BY <2>1 DEF TypeOK
    <2>5. outbox'[k][r] = "claimed"
      BY <1>2 DEF TypeOK
    <2>6. \A j \in Kinds, s \in Scans : j # k \/ s # r => outbox'[j][s] = outbox[j][s]
      BY <1>2 DEF TypeOK
    <2>. QED
      BY <1>2, <2>2, <2>3, <2>4, <2>5, <2>6
  <1>. QED
    BY <1>1, <1>2 DEF Notify

LEMMA WriteCompleteEffect ==
    ASSUME TypeOK, NEW r \in Scans, WriteComplete(r)
    PROVE  /\ \A s \in Scans \ {r} : state'[s] = state[s]
           /\ \A k \in Kinds, s \in Scans :
                 k # "digest" \/ s # r => outbox'[k][s] = outbox[k][s]
           /\ IF state[r] \in Rows \ {"cancelled"}
              THEN /\ state'[r] = "complete"
                   /\ outbox'["digest"][r] = IF outbox["digest"][r] = "none"
                                             THEN "pending" ELSE outbox["digest"][r]
              ELSE state'[r] = state[r] /\ outbox'["digest"][r] = outbox["digest"][r]
  <1>1. CASE state[r] \in Rows \ {"cancelled"}
    <2>1. Insert("digest", r) /\ state' = [state EXCEPT ![r] = "complete"]
      BY <1>1 DEF WriteComplete
    <2>. QED
      BY <1>1, <2>1, InsertEffect DEF TypeOK
  <1>2. CASE state[r] \notin Rows \ {"cancelled"}
    BY <1>2 DEF WriteComplete
  <1>. QED
    BY <1>1, <1>2

LEMMA WriteFailedEffect ==
    ASSUME TypeOK, NEW r \in Scans, WriteFailed(r)
    PROVE  /\ \A s \in Scans \ {r} : state'[s] = state[s]
           /\ \A k \in Kinds, s \in Scans :
                 k # "failed" \/ s # r => outbox'[k][s] = outbox[k][s]
           /\ IF state[r] \in Live
              THEN /\ state'[r] = "failed"
                   /\ outbox'["failed"][r] = IF outbox["failed"][r] = "none"
                                             THEN "pending" ELSE outbox["failed"][r]
              ELSE state'[r] = state[r] /\ outbox'["failed"][r] = outbox["failed"][r]
  <1>1. CASE state[r] \in Live
    <2>1. Insert("failed", r) /\ state' = [state EXCEPT ![r] = "failed"]
      BY <1>1 DEF WriteFailed
    <2>. QED
      BY <1>1, <2>1, InsertEffect DEF TypeOK
  <1>2. CASE state[r] \notin Live
    BY <1>2 DEF WriteFailed
  <1>. QED
    BY <1>1, <1>2

LEMMA SweepEffect ==
    ASSUME TypeOK, NEW b \in Replicas, FailOrphanedScans(b)
    PROVE  /\ proc[b] = "sweep" /\ UNCHANGED <<pc, mails, status, countVars>>
           /\ \/ UNCHANGED <<state, outbox>>
              \/ \A s \in Scans :
                    /\ outbox'["digest"][s] = outbox["digest"][s]
                    /\ state'[s] = IF state[s] \in Live THEN "failed" ELSE state[s]
                    /\ outbox'["failed"][s] =
                          IF state[s] \in Live /\ outbox["failed"][s] = "none"
                          THEN "pending" ELSE outbox["failed"][s]
  <1>1. proc[b] = "sweep" /\ UNCHANGED <<pc, mails, status, countVars>>
    BY DEF FailOrphanedScans, dataVars
  <1>2. CASE UNCHANGED <<state, outbox>>
    BY <1>1, <1>2
  <1>3. CASE /\ state' = [s \in Scans |-> IF state[s] \in Live THEN "failed" ELSE state[s]]
             /\ outbox' = [outbox EXCEPT !["failed"] =
                    [s \in Scans |-> IF state[s] \in Live /\ @[s] = "none"
                                     THEN "pending" ELSE @[s]]]
    BY <1>1, <1>3 DEF TypeOK
  <1>. QED
    BY <1>2, <1>3 DEF FailOrphanedScans

LEMMA DeleteEffect ==
    ASSUME TypeOK, NEW b \in Replicas, NEW r \in Scans, DeleteScan(b, r)
    PROVE  /\ UNCHANGED <<pc, mails, status, skips>>
           /\ state[r] \in Terminal /\ state'[r] = "deleted"
           /\ \A k \in Kinds : outbox'[k][r] = "none"
           /\ \A s \in Scans \ {r} : /\ state'[s] = state[s]
                                     /\ ingested'[s] = ingested[s]
                                     /\ skipped'[s] = skipped[s]
                                     /\ \A k \in Kinds : outbox'[k][s] = outbox[k][s]
  BY DEF TypeOK, DeleteScan

\* With one replica, a sweep finds no goroutine.
LEMMA SweepAlone ==
    ASSUME SingleReplica, TypeOK, UpInv, NEW b \in Replicas, FailOrphanedScans(b)
    PROVE  \A s \in Scans : ~ Driven(s)
  BY SweepEffect DEF SingleReplica, TypeOK, UpInv

-----------------------------------------------------------------------------
(* The inductive invariant                                                 *)

OutcomeInv ==
    /\ OpenInv
    /\ OutboxMatchesOutcome
    /\ MailInv
    /\ OneMailPerScan
    /\ IngestInv
    /\ CompleteMeansIngested

OutcomeVars == <<state, outbox, mails, ingested, skipped, skips, status, pc>>

\* The steps of the goroutine that write neither the row nor its outbox.
PlainRun(r) ==
    \/ Dial(r) \/ EnsureTemplateBundle(r) \/ WaitIdle(r) \/ SyncNode(r)
    \/ StartScan(r) \/ AbortNodeScan(r) \/ AbortDelete(r) \/ PollToDone(r)
    \/ RecordStatus(r) \/ RecordKey(r) \/ IngestEnd(r) \/ IngestError(r)
    \/ ArchiveRaw(r) \/ CleanupNodeScan(r)

LEMMA PlainRunEffect ==
    ASSUME TypeOK, StreamInv, NEW r \in Scans, PlainRun(r)
    PROVE  /\ UNCHANGED <<state, outbox, mails, ingested, skipped, skips>>
           /\ \A s \in Scans \ {r} : pc'[s] = pc[s] /\ status'[s] = status[s]
           /\ pc'[r] \in Early => pc[r] \in Early
           /\ pc'[r] = "count" /\ status'[r] = "complete"
              => ingested[r] + skips[r] = PerScan \/ state[r] = "deleted"
           /\ pc'[r] = "complete" => status'[r] = "complete"
           /\ pc'[r] \in {"archive", "rawkey", "complete"} /\ status'[r] = "complete"
              => \/ ingested[r] + skipped[r] = PerScan \/ state[r] = "deleted"
                 \/ pc[r] \in {"archive", "rawkey"} /\ status[r] = "complete"
  <1>. USE DEF TypeOK, Goto
  <1>1. CASE \/ Dial(r) \/ EnsureTemplateBundle(r) \/ WaitIdle(r) \/ SyncNode(r)
             \/ StartScan(r) \/ AbortNodeScan(r) \/ AbortDelete(r)
    BY <1>1 DEF Dial, EnsureTemplateBundle, WaitIdle, SyncNode, StartScan,
       AbortNodeScan, AbortDelete, rowVars, mailVars, dataVars
  <1>2. CASE PollToDone(r) \/ RecordStatus(r)
    BY <1>2 DEF PollToDone, RecordStatus, AfterRecord, rowVars, mailVars, dataVars
  <1>3. CASE IngestError(r)
    BY <1>3 DEF IngestError, BreakStream, rowVars, mailVars
  <1>4. CASE RecordKey(r)
    BY <1>4 DEF RecordKey, AfterRecord, AfterIngest, rowVars, mailVars
  <1>5. CASE ArchiveRaw(r)
    BY <1>5 DEF ArchiveRaw, AfterIngest, rowVars, mailVars
  <1>6. CASE IngestEnd(r)
    <2>1. /\ pc[r] = "ingest" /\ status' = status /\ skips[r] \in Nat
          /\ UNCHANGED <<state, outbox, mails, ingested, skipped, skips>>
          /\ EndStream(r)
          /\ status[r] = "complete" => reads[r] = PerScan
      BY <1>6, ConstantTypes DEF IngestEnd, rowVars, mailVars
    <2>2. status[r] = "complete" => ingested[r] + skips[r] = PerScan \/ state[r] = "deleted"
      BY <2>1 DEF StreamInv, StreamAt, Exists
    <2>3. skipped[r] = 0 /\ ingested[r] \in Nat
      BY <2>1, ConstantTypes DEF StreamInv, StreamAt
    <2>4. CASE skips[r] > 0
      BY <2>1, <2>2, <2>4 DEF EndStream
    <2>5. CASE skips[r] = 0
      <3>1. status[r] = "complete" => ingested[r] + skipped[r] = PerScan \/ state[r] = "deleted"
        BY <2>2, <2>3, <2>5
      <3>2. AfterStream(r)
        BY <2>1, <2>5 DEF EndStream
      <3>. QED
        BY <2>1, <3>1, <3>2 DEF AfterStream, AfterIngest
    <2>. QED
      BY <2>1, <2>4, <2>5
  <1>7. CASE CleanupNodeScan(r)
    BY <1>7 DEF CleanupNodeScan, Return, rowVars, mailVars, dataVars
  <1>. QED
    BY <1>1, <1>2, <1>3, <1>4, <1>5, <1>6, <1>7 DEF PlainRun

LEMMA PlainRunStep ==
    ASSUME TypeOK, StreamInv, OutcomeInv, NEW r \in Scans, PlainRun(r)
    PROVE  OutcomeInv'
  <1>1. OpenInv'
    BY PlainRunEffect DEF OutcomeInv, OpenInv
  <1>2. IngestInv'
    BY PlainRunEffect DEF OutcomeInv, IngestInv
  <1>3. OutboxMatchesOutcome' /\ MailInv' /\ OneMailPerScan' /\ CompleteMeansIngested'
    BY PlainRunEffect DEF OutcomeInv, OutboxMatchesOutcome, MailInv, OneMailPerScan,
       CompleteMeansIngested
  <1>. QED
    BY <1>1, <1>2, <1>3 DEF OutcomeInv

\* One record more, ingested or skipped, of a stream that is still being read.
LEMMA RecordStep ==
    ASSUME TypeOK, OutcomeInv, NEW r \in Scans, IngestFinding(r) \/ SkipFinding(r)
    PROVE  OutcomeInv'
  <1>1. /\ UNCHANGED <<state, outbox, mails, status, pc, skipped>> /\ pc[r] = "ingest"
        /\ \A s \in Scans \ {r} : ingested'[s] = ingested[s] /\ skips'[s] = skips[s]
    BY DEF IngestFinding, SkipFinding, NextRecord, rowVars, mailVars, TypeOK
  <1>2. OpenInv' /\ OutboxMatchesOutcome' /\ MailInv' /\ OneMailPerScan'
    BY <1>1 DEF OutcomeInv, OpenInv, OutboxMatchesOutcome, MailInv, OneMailPerScan
  <1>3. IngestInv' /\ CompleteMeansIngested'
    BY <1>1 DEF OutcomeInv, OpenInv, IngestInv, CompleteMeansIngested
  <1>. QED
    BY <1>2, <1>3 DEF OutcomeInv

LEMMA RecordSkippedStep ==
    ASSUME TypeOK, StreamInv, OutcomeInv, NEW r \in Scans, RecordSkipped(r)
    PROVE  OutcomeInv'
  <1>1. /\ UNCHANGED <<state, outbox, mails, status, ingested>>
        /\ pc[r] \in {"count", "counterr"}
        /\ \A s \in Scans \ {r} : /\ pc'[s] = pc[s] /\ skips'[s] = skips[s]
                                  /\ skipped'[s] = skipped[s]
    BY DEF RecordSkipped, WriteSkipped, AfterStream, AfterIngest, Goto, rowVars, mailVars, TypeOK
  <1>2. OpenInv' /\ OutboxMatchesOutcome' /\ MailInv' /\ OneMailPerScan'
    BY <1>1 DEF OutcomeInv, OpenInv, OutboxMatchesOutcome, MailInv, OneMailPerScan
  <1>3. state[r] \in Live \cup {"cancelled", "deleted"}
    BY <1>1 DEF OutcomeInv, OpenInv
  <1>4. CompleteMeansIngested'
    BY <1>1, <1>3 DEF OutcomeInv, CompleteMeansIngested
  <1>5. pc'[r] # "count"
    BY <1>1 DEF RecordSkipped, AfterStream, AfterIngest, Goto, TypeOK
  <1>6. pc'[r] = "complete" => status[r] = "complete"
    BY <1>1 DEF RecordSkipped, AfterStream, AfterIngest, Goto, TypeOK
  <1>7. ASSUME pc'[r] # "failclean", status[r] = "complete"
        PROVE  ingested[r] + skipped'[r] = PerScan \/ state[r] = "deleted"
    <2>1. pc[r] = "count" /\ WriteSkipped(r)
      BY <1>1, <1>7 DEF RecordSkipped, Goto, TypeOK
    <2>2. ingested[r] + skips[r] = PerScan \/ state[r] = "deleted"
      BY <1>7, <2>1 DEF OutcomeInv, IngestInv
    <2>3. CASE Exists(r)
      <3>1. skipped'[r] = skips[r]
        BY <2>1, <2>3 DEF WriteSkipped, TypeOK
      <3>. QED
        BY <2>2, <3>1
    <2>4. CASE ~ Exists(r)
      BY <1>3, <2>4 DEF Exists
    <2>. QED
      BY <2>3, <2>4
  <1>8. IngestInv'
    <2>1. ASSUME NEW s \in Scans, s # r
          PROVE  /\ pc'[s] = pc[s] /\ skips'[s] = skips[s] /\ skipped'[s] = skipped[s]
                 /\ ingested'[s] = ingested[s] /\ status'[s] = status[s] /\ state'[s] = state[s]
      BY <1>1, <2>1
    <2>. QED
      BY <1>1, <1>5, <1>6, <1>7, <2>1 DEF OutcomeInv, IngestInv
  <1>. QED
    BY <1>2, <1>4, <1>8 DEF OutcomeInv

LEMMA MarkRunningStep ==
    ASSUME TypeOK, OutcomeInv, NEW r \in Scans, MarkRunning(r)
    PROVE  OutcomeInv'
  <1>1. /\ UNCHANGED <<outbox, mails, countVars, status>>
        /\ pc[r] \in Early /\ pc'[r] \notin {"count", "archive", "rawkey", "complete"}
        /\ \A s \in Scans \ {r} : pc'[s] = pc[s]
    BY DEF MarkRunning, Goto, mailVars, dataVars, TypeOK
  <1>2. /\ \A s \in Scans \ {r} : state'[s] = state[s]
        /\ \/ state'[r] = state[r]
           \/ state[r] = "queued" /\ state'[r] = "running"
    <2>1. \/ state' = state
          \/ state[r] = "queued" /\ state' = [state EXCEPT ![r] = "running"]
      BY DEF MarkRunning
    <2>. QED
      BY <2>1 DEF TypeOK
  <1>3. OpenInv' /\ IngestInv'
    BY <1>1, <1>2 DEF OutcomeInv, OpenInv, IngestInv
  <1>4. OutboxMatchesOutcome' /\ MailInv' /\ OneMailPerScan' /\ CompleteMeansIngested'
    BY <1>1, <1>2 DEF OutcomeInv, OutboxMatchesOutcome, MailInv, OneMailPerScan,
       CompleteMeansIngested
  <1>. QED
    BY <1>3, <1>4 DEF OutcomeInv

LEMMA MarkCompleteStep ==
    ASSUME TypeOK, OutcomeInv, NEW r \in Scans, MarkComplete(r)
    PROVE  OutcomeInv'
  <1>1. /\ UNCHANGED <<mails, countVars, status>>
        /\ pc[r] = "complete" /\ pc'[r] \notin Early
        /\ \A s \in Scans \ {r} : pc'[s] = pc[s]
    BY DEF MarkComplete, Goto, dataVars, TypeOK
  <1>2. WriteComplete(r) \/ UNCHANGED <<state, outbox>>
    BY DEF MarkComplete
  <1>3. state[r] \in Live \cup {"cancelled", "deleted"}
    BY <1>1 DEF OutcomeInv, OpenInv
  <1>4. ingested[r] + skipped[r] = PerScan \/ state[r] = "deleted"
    BY <1>1 DEF OutcomeInv, IngestInv
  <1>5. CASE UNCHANGED <<state, outbox>>
    BY <1>1, <1>5 DEF OutcomeInv, OpenInv, OutboxMatchesOutcome, MailInv, OneMailPerScan,
       IngestInv, CompleteMeansIngested
  <1>6. CASE WriteComplete(r)
    <2>1. OpenInv' /\ IngestInv'
      BY <1>1, <1>6, WriteCompleteEffect DEF OutcomeInv, OpenInv, IngestInv
    <2>2. CompleteMeansIngested'
      BY <1>1, <1>3, <1>4, <1>6, WriteCompleteEffect DEF OutcomeInv, CompleteMeansIngested
    <2>3. OutboxMatchesOutcome'
      BY <1>3, <1>6, WriteCompleteEffect DEF OutcomeInv, OutboxMatchesOutcome
    <2>4. MailInv' /\ OneMailPerScan'
      BY <1>1, <1>3, <1>6, WriteCompleteEffect DEF OutcomeInv, MailInv, OneMailPerScan
    <2>. QED
      BY <2>1, <2>2, <2>3, <2>4 DEF OutcomeInv
  <1>. QED
    BY <1>2, <1>5, <1>6

LEMMA FailScanStep ==
    ASSUME TypeOK, OutcomeInv, NEW r \in Scans, FailScan(r)
    PROVE  OutcomeInv'
  <1>1. /\ UNCHANGED <<mails, countVars>>
        /\ pc'[r] \notin Early
        /\ \A s \in Scans \ {r} : pc'[s] = pc[s] /\ status'[s] = status[s]
    BY DEF FailScan, Continue, Return, Goto, dataVars, TypeOK
  <1>2. WriteFailed(r) \/ UNCHANGED <<state, outbox>>
    BY DEF FailScan
  <1>3. CASE UNCHANGED <<state, outbox>>
    BY <1>1, <1>3 DEF OutcomeInv, OpenInv, OutboxMatchesOutcome, MailInv, OneMailPerScan,
       IngestInv, CompleteMeansIngested
  <1>4. CASE WriteFailed(r)
    <2>1. OpenInv' /\ IngestInv'
      BY <1>1, <1>4, WriteFailedEffect DEF OutcomeInv, OpenInv, IngestInv
    <2>2. CompleteMeansIngested'
      BY <1>1, <1>4, WriteFailedEffect DEF OutcomeInv, CompleteMeansIngested
    <2>3. OutboxMatchesOutcome'
      BY <1>4, WriteFailedEffect DEF OutcomeInv, OutboxMatchesOutcome
    <2>4. MailInv' /\ OneMailPerScan'
      BY <1>1, <1>4, WriteFailedEffect DEF OutcomeInv, MailInv, OneMailPerScan
    <2>. QED
      BY <2>1, <2>2, <2>3, <2>4 DEF OutcomeInv
  <1>. QED
    BY <1>2, <1>3, <1>4

\* A claim, by the goroutine or by the drain of a starting process.
LEMMA ClaimStep ==
    ASSUME TypeOK, OutcomeInv, NEW k \in Kinds, NEW r \in Scans, Notify(k, r),
           state' = state
    PROVE  OutboxMatchesOutcome' /\ MailInv' /\ OneMailPerScan'
  <1>. DEFINE other == IF k = "digest" THEN "failed" ELSE "digest"
  <1>1. OutboxMatchesOutcome'
    BY NotifyEffect DEF OutcomeInv, OutboxMatchesOutcome
  <1>2. MailInv'
    BY NotifyEffect DEF OutcomeInv, MailInv, TypeOK
  <1>3. ASSUME outbox[k][r] = "pending"
        PROVE  mails[k][r] = 0 /\ mails[other][r] = 0
    <2>1. state[r] \in {"complete", "failed"} /\ outbox[other][r] = "none"
      BY <1>3 DEF OutcomeInv, OutboxMatchesOutcome
    <2>2. mails[k][r] \in Nat /\ mails[other][r] \in Nat
      BY DEF TypeOK
    <2>. QED
      BY <1>3, <2>1, <2>2 DEF OutcomeInv, MailInv
  <1>4. OneMailPerScan'
    <2>1. ASSUME NEW s \in Scans
          PROVE  mails'["digest"][s] + mails'["failed"][s] <= 1
      <3>1. mails["digest"][s] + mails["failed"][s] <= 1
        BY DEF OutcomeInv, OneMailPerScan
      <3>2. CASE \A j \in Kinds : mails'[j][s] = mails[j][s]
        BY <3>1, <3>2
      <3>3. CASE s = r /\ outbox[k][r] = "pending"
        <4>1. mails'[other][r] = 0
          BY <1>3, <3>3, NotifyEffect
        <4>2. mails'[k][r] \in {0, 1}
          BY <1>3, <3>3, NotifyEffect
        <4>. QED
          BY <3>3, <4>1, <4>2
      <3>. QED
        BY <3>2, <3>3, NotifyEffect
    <2>. QED
      BY <2>1 DEF OneMailPerScan
  <1>. QED
    BY <1>1, <1>2, <1>4

LEMMA NotifyScanStep ==
    ASSUME TypeOK, OutcomeInv, NEW r \in Scans, NotifyScan(r)
    PROVE  OutcomeInv'
  <1>1. /\ UNCHANGED <<state, countVars>>
        /\ pc'[r] \notin Early
        /\ \A s \in Scans \ {r} : pc'[s] = pc[s] /\ status'[s] = status[s]
    BY DEF NotifyScan, Continue, Return, Goto, rowVars, dataVars, TypeOK
  <1>2. \E k \in Kinds : Notify(k, r)
    BY DEF NotifyScan
  <1>3. OpenInv' /\ IngestInv' /\ CompleteMeansIngested'
    BY <1>1 DEF OutcomeInv, OpenInv, IngestInv, CompleteMeansIngested
  <1>. QED
    BY <1>1, <1>2, <1>3, ClaimStep DEF OutcomeInv

LEMMA SweepStep ==
    ASSUME SingleReplica, TypeOK, UpInv, OutcomeInv, NEW b \in Replicas,
           FailOrphanedScans(b)
    PROVE  OutcomeInv'
  <1>1. UNCHANGED <<pc, mails, status, countVars>>
    BY SweepEffect
  <1>2. OpenInv' /\ IngestInv'
    BY <1>1, SweepAlone DEF OpenInv, IngestInv
  <1>3. CompleteMeansIngested'
    BY <1>1, SweepEffect DEF OutcomeInv, CompleteMeansIngested
  <1>4. OutboxMatchesOutcome'
    BY SweepEffect DEF OutcomeInv, OutboxMatchesOutcome
  <1>5. MailInv' /\ OneMailPerScan'
    BY <1>1, SweepEffect DEF OutcomeInv, MailInv, OneMailPerScan
  <1>. QED
    BY <1>2, <1>3, <1>4, <1>5 DEF OutcomeInv

LEMMA DeleteStep ==
    ASSUME TypeOK, OutcomeInv, NEW b \in Replicas, NEW r \in Scans, DeleteScan(b, r)
    PROVE  OutcomeInv'
  <1>1. OpenInv' /\ IngestInv'
    BY DeleteEffect DEF OutcomeInv, OpenInv, IngestInv
  <1>2. CompleteMeansIngested' /\ OutboxMatchesOutcome'
    BY DeleteEffect DEF OutcomeInv, CompleteMeansIngested, OutboxMatchesOutcome
  <1>3. MailInv' /\ OneMailPerScan'
    BY DeleteEffect DEF OutcomeInv, MailInv, OneMailPerScan
  <1>. QED
    BY <1>1, <1>2, <1>3 DEF OutcomeInv

LEMMA SubmitStep ==
    ASSUME TypeOK, OutcomeInv, NEW b \in Replicas, NEW r \in Scans, Submit(b, r)
    PROVE  OutcomeInv'
  <1>1. /\ UNCHANGED <<outbox, mails, countVars, status>>
        /\ state[r] = "absent" /\ state'[r] = "queued" /\ pc'[r] = "dial"
        /\ \A s \in Scans \ {r} : state'[s] = state[s] /\ pc'[s] = pc[s]
    BY DEF Submit, Goto, mailVars, dataVars, TypeOK
  <1>2. OpenInv' /\ IngestInv'
    BY <1>1 DEF OutcomeInv, OpenInv, IngestInv
  <1>3. OutboxMatchesOutcome' /\ MailInv' /\ OneMailPerScan' /\ CompleteMeansIngested'
    BY <1>1 DEF OutcomeInv, OutboxMatchesOutcome, MailInv, OneMailPerScan,
       CompleteMeansIngested
  <1>. QED
    BY <1>2, <1>3 DEF OutcomeInv

LEMMA CancelStep ==
    ASSUME TypeOK, OutcomeInv, NEW b \in Replicas, NEW r \in Scans, CancelScan(b, r)
    PROVE  OutcomeInv'
  <1>1. /\ UNCHANGED <<outbox, mails, countVars, status, pc>>
        /\ state[r] \in Live /\ state'[r] = "cancelled"
        /\ \A s \in Scans \ {r} : state'[s] = state[s]
    BY DEF CancelScan, mailVars, dataVars, TypeOK
  <1>2. OpenInv' /\ IngestInv'
    BY <1>1 DEF OutcomeInv, OpenInv, IngestInv
  <1>3. OutboxMatchesOutcome' /\ MailInv' /\ OneMailPerScan' /\ CompleteMeansIngested'
    BY <1>1 DEF OutcomeInv, OutboxMatchesOutcome, MailInv, OneMailPerScan,
       CompleteMeansIngested
  <1>. QED
    BY <1>2, <1>3 DEF OutcomeInv

LEMMA CrashStep ==
    ASSUME TypeOK, OutcomeInv, NEW b \in Replicas, Crash(b)
    PROVE  OutcomeInv'
  <1>1. /\ UNCHANGED <<state, outbox, mails, ingested, skipped>>
        /\ \A s \in Scans : /\ pc'[s] = pc[s] \/ pc'[s] = "dead"
                            /\ pc'[s] \in Running => /\ status'[s] = status[s]
                                                     /\ skips'[s] = skips[s]
    BY DEF Crash, rowVars, mailVars, dataVars, TypeOK
  <1>2. OpenInv' /\ IngestInv'
    BY <1>1 DEF OutcomeInv, OpenInv, IngestInv
  <1>3. OutboxMatchesOutcome' /\ MailInv' /\ OneMailPerScan' /\ CompleteMeansIngested'
    BY <1>1 DEF OutcomeInv, OutboxMatchesOutcome, MailInv, OneMailPerScan,
       CompleteMeansIngested
  <1>. QED
    BY <1>2, <1>3 DEF OutcomeInv

LEMMA DrainStep ==
    ASSUME TypeOK, OutcomeInv, NEW b \in Replicas, NEW k \in Kinds, NEW r \in Scans,
           NotifyUnclaimed(b, k, r)
    PROVE  OutcomeInv'
  <1>1. UNCHANGED <<state, countVars, status, pc>> /\ Notify(k, r)
    BY DEF NotifyUnclaimed, rowVars, dataVars
  <1>2. OpenInv' /\ IngestInv' /\ CompleteMeansIngested'
    BY <1>1 DEF OutcomeInv, OpenInv, IngestInv, CompleteMeansIngested
  <1>. QED
    BY <1>1, <1>2, ClaimStep DEF OutcomeInv

LEMMA UnchangedStep ==
    ASSUME OutcomeInv, UNCHANGED OutcomeVars
    PROVE  OutcomeInv'
  BY DEF OutcomeInv, OutcomeVars, OpenInv, OutboxMatchesOutcome, MailInv,
     OneMailPerScan, IngestInv, CompleteMeansIngested

LEMMA OutcomeStep ==
    ASSUME SingleReplica, TypeOK, StreamInv, UpInv, OutcomeInv, [Next]_vars
    PROVE  OutcomeInv'
  <1>. USE DEF rowVars, mailVars, dataVars
  <1>1. ASSUME NEW r \in Scans, Run(r)
        PROVE  OutcomeInv'
    BY <1>1, PlainRunStep, RecordStep, RecordSkippedStep, MarkRunningStep,
       MarkCompleteStep, FailScanStep, NotifyScanStep DEF Run, PlainRun
  <1>2. ASSUME NEW b \in Replicas, Boot(b)
        PROVE  OutcomeInv'
    <2>1. CASE StartBackend(b) \/ ListUnclaimed(b) \/ Serve(b)
      <3>1. UNCHANGED OutcomeVars
        BY <2>1 DEF StartBackend, ListUnclaimed, Serve, OutcomeVars
      <3>. QED
        BY <3>1, UnchangedStep
    <2>. QED
      BY <1>2, <2>1, SweepStep, DrainStep DEF Boot
  <1>3. ASSUME NEW b \in Replicas, NEW r \in Scans, SignalNodeCancel(b, r)
        PROVE  UNCHANGED OutcomeVars
    BY <1>3 DEF SignalNodeCancel, OutcomeVars
  <1>4. ASSUME NEW r \in Scans, Expire(r) \/ NodeFinish(r) \/ NodeReap(r)
        PROVE  UNCHANGED OutcomeVars
    BY <1>4 DEF Expire, NodeFinish, NodeReap, OutcomeVars
  <1>5. ASSUME NEW b \in Replicas, Distribute(b) \/ PushBundle(b)
        PROVE  UNCHANGED OutcomeVars
    BY <1>5 DEF Distribute, PushBundle, OutcomeVars
  <1>6. ASSUME ChangeCatalog \/ NodeRestart
        PROVE  UNCHANGED OutcomeVars
    BY <1>6 DEF ChangeCatalog, NodeRestart, OutcomeVars
  <1>7. ASSUME UNCHANGED vars
        PROVE  UNCHANGED OutcomeVars
    BY <1>7 DEF vars, OutcomeVars
  <1>. QED
    BY <1>1, <1>2, <1>3, <1>4, <1>5, <1>6, <1>7, UnchangedStep, SubmitStep, CancelStep,
       DeleteStep, CrashStep DEF Next

LEMMA OutcomeInit == Init => OutcomeInv
  BY DEF Init, OutcomeInv, OpenInv, OutboxMatchesOutcome, MailInv, OneMailPerScan,
     IngestInv, CompleteMeansIngested

LEMMA AlwaysOutcome ==
    ASSUME SingleReplica
    PROVE  Spec => []OutcomeInv
  <1>1. OutcomeInv /\ TypeOK /\ StreamInv /\ UpInv /\ [Next]_vars => OutcomeInv'
    BY OutcomeStep, SingleReplica
  <1>. QED
    BY <1>1, OutcomeInit, AlwaysStream, AlwaysUp, PTL DEF Spec

\* With one replica, and whatever crashes, lost requests, expired contexts and
\* failing statements happen, the outbox records exactly the outcome of every scan.
THEOREM OutboxIsExact ==
    ASSUME SingleReplica
    PROVE  Spec => []OutboxMatchesOutcome
  <1>1. OutcomeInv => OutboxMatchesOutcome
    BY DEF OutcomeInv
  <1>. QED
    BY <1>1, AlwaysOutcome, SingleReplica, PTL

\* With one replica nobody is mailed twice about a scan, whoever claims the rows.
THEOREM AtMostOneMail ==
    ASSUME SingleReplica
    PROVE  Spec => []OneMailPerScan
  <1>1. OutcomeInv => OneMailPerScan
    BY DEF OutcomeInv
  <1>. QED
    BY <1>1, AlwaysOutcome, SingleReplica, PTL

\* With one replica, and for any number of records, a complete scan accounts for
\* all of them: what is not among its occurrences is counted on its row, whatever
\* requests are lost, statements fail and records cannot be projected.
THEOREM CompleteIsWhole ==
    ASSUME SingleReplica
    PROVE  Spec => []CompleteMeansIngested
  <1>1. OutcomeInv => CompleteMeansIngested
    BY DEF OutcomeInv
  <1>. QED
    BY <1>1, AlwaysOutcome, SingleReplica, PTL

\* With one replica a terminal row keeps its state until it is deleted: no late
\* write of a goroutine and no sweep relabels it.
THEOREM OutcomeIsFinal ==
    ASSUME SingleReplica
    PROVE  Spec => TerminalIsFinal
  <1>1. TypeOK /\ OutcomeInv /\ [Next]_vars
        => [\A s \in Scans :
               state[s] \in Terminal => state'[s] \in {state[s], "deleted"}]_vars
    BY StateMovesOnly DEF StateMoves, OutcomeInv, OpenInv
  <1>. QED
    BY <1>1, AlwaysOutcome, TypeCorrect, SingleReplica, PTL DEF Spec, TerminalIsFinal

\* With one replica the mail about a scan is about its outcome, and the only one.
THEOREM MailsStayExact ==
    ASSUME SingleReplica
    PROVE  Spec => []MailIsExact
  BY OutboxIsExact, AtMostOneMail, PTL DEF MailIsExact

\* With one replica no outcome is taken back, by a late write or by the sweep.
THEOREM OutcomesStay ==
    ASSUME SingleReplica
    PROVE  Spec => OutcomesHold
  BY OutcomeIsFinal, SweepSparesDrivenScans DEF OutcomesHold
=============================================================================
