---------------------------- MODULE ScannerNode ----------------------------
(***************************************************************************)
(* A scanner node: the run goroutine of each scan, the handlers that start,*)
(* cancel and delete scans, the reaper, the template tree with its lock,   *)
(* and the restart of the node's process.                                  *)
(*                                                                         *)
(* A step is what one goroutine does between two points where another can  *)
(* interfere: a lock, a file operation, the end of a subprocess.  Progress *)
(* snapshots, versions and file contents are left out.                     *)
(***************************************************************************)
EXTENDS Integers, FiniteSets

CONSTANTS
    Jobs,       \* ids that Start hands out, each once
    Bundles,    \* digests of the bundles the backend pushes
    NoBundle,   \* no tree, no marker
    Limits,     \* concurrency limits the backend may send with a scan
    Faults      \* a subset of {"crash", "disk"}

ASSUME NodeConstants ==
    /\ IsFiniteSet(Jobs)
    /\ NoBundle \notin Bundles
    /\ Limits \subseteq Nat \ {0}
    /\ Limits # {} /\ \E most \in Limits : \A l \in Limits : l <= most
    /\ Faults \subseteq {"crash", "disk"}

Ended    == {"complete", "failed", "cancelled"}

\* Where the request handler (Starting) and then the goroutine of a job stand.
Starting  == {"lock", "mkdir", "publish"}
Process   == {"discover", "nuclei"}   \* naabu or nuclei is alive
Reading   == {"mkdir", "publish", "setup", "drain", "unlock"} \cup Process
Holding   == Starting \cup Reading \cup {"finish", "release"}
Positions == Holding \cup {"none", "end", "dead"}

VARIABLES
    at,         \* position of the job's handler or goroutine
    status,     \* job.status.State
    tracked,    \* ids in Runner.scans
    requested,  \* job.cancelRequested
    stopped,    \* the job's context is cancelled
    dirs,       \* work directories on disk
    removing,   \* ids dropped from Runner.scans whose directory is about to go
    wanted,     \* spec.Templates.TemplatesCommit, while the request or the run needs it
    active,     \* scanAdmission.active
    push,       \* the activation in progress: none, or its step
    pushed,     \* the digest it activates
    digest,     \* bundleStore.digest
    marker,     \* active.digest on disk
    tree,       \* the digest of the manifest in active/ on disk
    whole       \* every file that manifest lists is there

jobVars  == <<status, tracked, requested, stopped>>
diskVars == <<dirs, removing>>
treeVars == <<push, pushed, digest, marker, tree, whole>>
vars     == <<at, jobVars, diskVars, wanted, active, treeVars>>

\* The runner's maps, counters and locks keep their types; the slot count never
\* goes below zero.
TypeOK ==
    /\ at \in [Jobs -> Positions]
    /\ status \in [Jobs -> Ended \cup {"none", "running"}]
    /\ tracked \subseteq Jobs
    /\ requested \subseteq Jobs
    /\ stopped \subseteq Jobs
    /\ dirs \subseteq Jobs
    /\ removing \subseteq Jobs
    /\ wanted \in [Jobs -> Bundles \cup {NoBundle}]
    /\ active \in Nat
    /\ push \in {"none", "removing", "removed", "renamed"}
    /\ pushed \in Bundles \cup {NoBundle}
    /\ digest \in Bundles \cup {NoBundle}
    /\ marker \in Bundles \cup {NoBundle}
    /\ tree \in Bundles \cup {NoBundle}
    /\ whole \in BOOLEAN

Init ==
    /\ at = [j \in Jobs |-> "none"]
    /\ status = [j \in Jobs |-> "none"]
    /\ tracked = {} /\ requested = {} /\ stopped = {}
    /\ dirs = {} /\ removing = {}
    /\ wanted = [j \in Jobs |-> NoBundle]
    /\ active = 0
    /\ push = "none" /\ pushed = NoBundle
    /\ digest = NoBundle /\ marker = NoBundle /\ tree = NoBundle /\ whole = TRUE

Goto(j, position) == at' = [at EXCEPT ![j] = position]

-----------------------------------------------------------------------------
(* Start                                                                   *)

\* scanAdmission.acquire with the limit the request carries; at capacity the
\* request is refused and nothing changes.
Acquire(j, d) ==
    /\ at[j] = "none"
    /\ \E limit \in Limits : active < limit
    /\ active' = active + 1
    /\ wanted' = [wanted EXCEPT ![j] = d]
    /\ Goto(j, "lock")
    /\ UNCHANGED <<jobVars, diskVars, treeVars>>

\* Mutant: the scan trusts the digest the backend checked before.
LockTemplatesUnchecked(j) ==
    /\ at[j] = "lock" /\ push = "none"
    /\ Goto(j, "mkdir")
    /\ UNCHANGED <<jobVars, diskVars, wanted, active, treeVars>>

\* lockTemplates waits for an activation to end, then needs a readable manifest
\* whose digest is both the recorded one and the requested one.
LockTemplates(j) ==
    /\ at[j] = "lock" /\ push = "none"
    /\ tree = digest /\ digest = wanted[j]
    /\ Goto(j, "mkdir")
    /\ UNCHANGED <<jobVars, diskVars, wanted, active, treeVars>>

\* Mutant: the refusal forgets the slot.
RefuseKeepingSlot(j) ==
    /\ \/ at[j] = "lock" /\ push = "none" /\ (tree # digest \/ digest # wanted[j])
       \/ at[j] = "mkdir" /\ "disk" \in Faults
    /\ wanted' = [wanted EXCEPT ![j] = NoBundle]
    /\ Goto(j, "none")
    /\ UNCHANGED <<jobVars, diskVars, active, treeVars>>

\* scanAdmission.release.
Released == IF active > 0 THEN active - 1 ELSE 0

\* Start's error paths: no such bundle, or no work directory.
Refuse(j) ==
    /\ \/ at[j] = "lock" /\ push = "none" /\ (tree # digest \/ digest # wanted[j])
       \/ at[j] = "mkdir" /\ "disk" \in Faults
    /\ active' = Released
    /\ wanted' = [wanted EXCEPT ![j] = NoBundle]
    /\ Goto(j, "none")
    /\ UNCHANGED <<jobVars, diskVars, treeVars>>

MakeDir(j) ==
    /\ at[j] = "mkdir"
    /\ dirs' = dirs \cup {j}
    /\ Goto(j, "publish")
    /\ UNCHANGED <<jobVars, removing, wanted, active, treeVars>>

\* The job enters Runner.scans as running and its goroutine starts.
Publish(j) ==
    /\ at[j] = "publish"
    /\ tracked' = tracked \cup {j}
    /\ status' = [status EXCEPT ![j] = "running"]
    /\ Goto(j, "setup")
    /\ UNCHANGED <<requested, stopped, diskVars, wanted, active, treeVars>>

-----------------------------------------------------------------------------
(* The goroutine: Runner.run                                               *)

\* job.fail and job.complete: once a cancel was requested they change nothing.
Result(j, result) ==
    status' = IF j \in requested THEN status ELSE [status EXCEPT ![j] = result]

\* A return before any result, taken when the context is cancelled.
Abandon(j) == j \in stopped /\ Goto(j, "unlock") /\ UNCHANGED status

\* The version probe, which has a timeout, the log, the target list and, without
\* a discovery pass, the coverage pipe.
Setup(j) ==
    /\ at[j] = "setup"
    /\ \/ Abandon(j)
       \/ "disk" \in Faults /\ Result(j, "failed") /\ Goto(j, "unlock")
       \/ /\ j \notin stopped
          /\ \E next \in {"discover", "nuclei"} : Goto(j, next)
          /\ UNCHANGED status
    /\ UNCHANGED <<tracked, requested, stopped, diskVars, wanted, active, treeVars>>

\* Mutant: naabu runs without a timeout.
DiscoverForever(j) ==
    /\ at[j] = "discover"
    /\ Abandon(j)
    /\ UNCHANGED <<tracked, requested, stopped, diskVars, wanted, active, treeVars>>

\* naabu ends by itself, at its timeout or killed: an error fails the scan, no
\* live port completes it, and otherwise nuclei is started.
Discover(j) ==
    /\ at[j] = "discover"
    /\ \/ Abandon(j)
       \/ /\ j \notin stopped
          /\ \/ \E result \in {"failed", "complete"} : Result(j, result) /\ Goto(j, "unlock")
             \/ Goto(j, "nuclei") /\ UNCHANGED status
    /\ UNCHANGED <<tracked, requested, stopped, diskVars, wanted, active, treeVars>>

\* nuclei ends by itself, at its timeout or killed.
Nuclei(j) ==
    /\ at[j] = "nuclei"
    /\ \/ Abandon(j)
       \/ j \notin stopped /\ Goto(j, "drain") /\ UNCHANGED status
    /\ UNCHANGED <<tracked, requested, stopped, diskVars, wanted, active, treeVars>>

\* The coverage reducer ends or is given up after its timeout; nuclei's exit
\* code decides.  A context cancelled meanwhile may or may not be noticed.
Drain(j) ==
    /\ at[j] = "drain"
    /\ \/ Abandon(j)
       \/ \E result \in {"failed", "complete"} : Result(j, result) /\ Goto(j, "unlock")
    /\ UNCHANGED <<tracked, requested, stopped, diskVars, wanted, active, treeVars>>

\* The deferred calls, last one first: unlockTemplates, finish, releaseScan.
Unlock(j) ==
    /\ at[j] = "unlock"
    /\ wanted' = [wanted EXCEPT ![j] = NoBundle]
    /\ Goto(j, "finish")
    /\ UNCHANGED <<jobVars, diskVars, active, treeVars>>

\* job.finish publishes a requested cancellation.
Finish(j) ==
    /\ at[j] = "finish"
    /\ status' = IF j \in requested THEN [status EXCEPT ![j] = "cancelled"] ELSE status
    /\ Goto(j, "release")
    /\ UNCHANGED <<tracked, requested, stopped, diskVars, wanted, active, treeVars>>

Release(j) ==
    /\ at[j] = "release"
    /\ active' = Released
    /\ Goto(j, "end")
    /\ UNCHANGED <<jobVars, diskVars, wanted, treeVars>>

Run(j) ==
    \/ Setup(j) \/ Discover(j) \/ Nuclei(j) \/ Drain(j)
    \/ Unlock(j) \/ Finish(j) \/ Release(j)

StartSteps(j) == LockTemplates(j) \/ Refuse(j) \/ MakeDir(j) \/ Publish(j)

-----------------------------------------------------------------------------
(* Cancel, delete, reap                                                    *)

\* Mutant: the cancel is published at once.
CancelPublishing(j) ==
    /\ j \in tracked /\ status[j] = "running" /\ j \notin requested
    /\ requested' = requested \cup {j}
    /\ status' = [status EXCEPT ![j] = "cancelled"]
    /\ UNCHANGED <<at, tracked, stopped, diskVars, wanted, active, treeVars>>

\* Runner.Cancel marks the job under its lock; only a running job is marked.
Cancel(j) ==
    /\ j \in tracked /\ status[j] = "running" /\ j \notin requested
    /\ requested' = requested \cup {j}
    /\ UNCHANGED <<at, status, tracked, stopped, diskVars, wanted, active, treeVars>>

\* It then cancels the job's context and waits, at most ten seconds, for done.
CancelContext(j) ==
    /\ j \in requested \ stopped
    /\ stopped' = stopped \cup {j}
    /\ UNCHANGED <<at, status, tracked, requested, diskVars, wanted, active, treeVars>>

\* job.terminalAndFinished (done is closed by finish).
TerminalAndFinished(j) ==
    /\ status[j] \in Ended
    /\ status[j] = "cancelled" => at[j] \in {"release", "end"}

\* DeleteScan and cleanupExpired drop the record, and then, without the lock,
\* remove the directory; the retention time is any time after the end.
DropJob(j) ==
    /\ j \in tracked /\ TerminalAndFinished(j)
    /\ tracked' = tracked \ {j}
    /\ removing' = removing \cup {j}
    /\ UNCHANGED <<at, status, requested, stopped, dirs, wanted, active, treeVars>>

RemoveDir(j) ==
    /\ j \in removing
    /\ removing' = removing \ {j}
    /\ dirs' \in {dirs \ {j}} \cup (IF "disk" \in Faults THEN {dirs} ELSE {})
    /\ UNCHANGED <<at, jobVars, wanted, active, treeVars>>

\* cleanupOrphanedDirs: an untracked directory older than the retention time,
\* which a directory between MkdirAll and its publication never is.
SweepOrphans(j) ==
    /\ j \in dirs \ tracked
    /\ at[j] # "publish"
    /\ dirs' = dirs \ {j}
    /\ UNCHANGED <<at, jobVars, removing, wanted, active, treeVars>>

-----------------------------------------------------------------------------
(* The template tree                                                       *)

Readers == {j \in Jobs : at[j] \in Reading}

\* Mutant: activation only excludes other activations.
LockTreeAnyway(d) ==
    /\ push = "none"
    /\ push' = "removing" /\ pushed' = d
    /\ whole' = (tree = NoBundle)
    /\ UNCHANGED <<at, jobVars, diskVars, wanted, active, digest, marker, tree>>

\* bundleStore.apply after verification: TryLock fails while a scan holds the
\* tree, and the push is refused.  Otherwise RemoveAll starts on the old tree,
\* in directory order: the manifest may well be the last file to go.
LockTree(d) ==
    /\ push = "none" /\ Readers = {}
    /\ push' = "removing" /\ pushed' = d
    /\ whole' = (tree = NoBundle)
    /\ UNCHANGED <<at, jobVars, diskVars, wanted, active, digest, marker, tree>>

\* What the marker may hold when writing it is cut short (os.WriteFile truncates).
Interrupted == IF push = "renamed" THEN {marker, NoBundle} ELSE {marker}

\* activate: the old tree is gone, the new one is renamed into place, the marker
\* is written and the digest in memory follows.  A file operation that fails
\* ends the activation where it stands.
ActivateStep ==
    /\ \/ /\ push = "removing" /\ push' = "removed"
          /\ tree' = NoBundle /\ whole' = TRUE /\ UNCHANGED <<digest, marker>>
       \/ /\ push = "removed" /\ push' = "renamed"
          /\ tree' = pushed /\ UNCHANGED <<digest, marker, whole>>
       \/ /\ push = "renamed" /\ push' = "none"
          /\ marker' = pushed /\ digest' = pushed /\ UNCHANGED <<tree, whole>>
       \/ /\ push # "none" /\ "disk" \in Faults
          /\ push' = "none" /\ marker' \in Interrupted
          /\ UNCHANGED <<digest, tree, whole>>
    /\ pushed' = IF push' = "none" THEN NoBundle ELSE pushed
    /\ UNCHANGED <<at, jobVars, diskVars, wanted, active>>

-----------------------------------------------------------------------------

\* The node's container ends, the subprocesses with it, and starts again on the
\* same volume: the digest comes from the marker, every work directory is swept.
Restart ==
    /\ "crash" \in Faults
    /\ at' = [j \in Jobs |-> IF at[j] \in Starting \cup {"none"} THEN "none" ELSE "dead"]
    /\ status' = [j \in Jobs |-> "none"]
    /\ tracked' = {} /\ requested' = {} /\ stopped' = {}
    /\ removing' = {}
    /\ dirs' \in IF "disk" \in Faults THEN SUBSET dirs ELSE {{}}
    /\ active' = 0
    /\ wanted' = [j \in Jobs |-> NoBundle]
    /\ push' = "none" /\ pushed' = NoBundle
    /\ marker' \in Interrupted
    /\ digest' = marker'
    /\ UNCHANGED <<tree, whole>>

Next ==
    \/ \E j \in Jobs : \/ \E d \in Bundles : Acquire(j, d)
                       \/ StartSteps(j) \/ Run(j)
                       \/ Cancel(j) \/ CancelContext(j)
                       \/ DropJob(j) \/ RemoveDir(j) \/ SweepOrphans(j)
    \/ \E d \in Bundles : LockTree(d)
    \/ ActivateStep \/ Restart

Spec == Init /\ [][Next]_vars

\* The run goroutine goes on whenever it can: its subprocesses end, because each
\* has a timeout, and its file operations return.  Nothing else needs to be fair.
Fairness == \A j \in Jobs : WF_vars(Run(j))

FairSpec == Spec /\ Fairness

-----------------------------------------------------------------------------
(* Properties                                                              *)

\* On every path through Start and run, refusals, cancels and restarts
\* included, the admission count is the number of scans that hold a slot.
SlotsExact == active = Cardinality({j \in Jobs : at[j] \in Holding})

\* Whatever pushes, failed activations and restarts happen, nuclei and naabu
\* run with the tree their scan was resolved against, and no activation touches
\* it until they are gone.
TreeUnderProcess == \A j \in Jobs : at[j] \in Process => tree = wanted[j]

\* A swap that was cut short is noticed before a scan runs on what it left: the
\* selected template files are there ("The digest marker is written last so a
\* crash mid-swap is detectable").
ProcessHasItsFiles == \A j \in Jobs : at[j] \in Process => whole

\* No delete, reap or sweep removes the work directory of a scan whose
\* subprocess is alive ("so the backend never races a live Nuclei/naabu process
\* against a directory removal").
DirUnderProcess == \A j \in Jobs : at[j] \in Process => j \in dirs

\* A live subprocess keeps the files it works on.
FilesUnderProcess == TypeOK /\ TreeUnderProcess /\ DirUnderProcess

\* A scan that reads cancelled has stopped: no subprocess, and the tree is free
\* ("Status cannot observe cancelled before the run is fully finished").
CancelledMeansStopped ==
    \A j \in Jobs : status[j] = "cancelled" => at[j] \in {"release", "end"}

\* Every started scan comes to its end and reads a result, or the node restarts.
ScansEnd == \A j \in Jobs : at[j] = "setup" ~>
                at[j] = "dead" \/ (at[j] = "end" /\ status[j] \in Ended)

\* The job as the backend counts on it.  A scan whose cancel was requested counts
\* as cancelled from then on: that is how it will end.
Promised(j) ==
    IF at[j] \in Starting \cup {"none"} THEN "none"
    ELSE IF j \notin tracked THEN "gone"
    ELSE IF j \in requested THEN "cancelled" ELSE status[j]

Contract == INSTANCE NodeContract WITH
    Limit  <- CHOOSE most \in Limits : \A l \in Limits : l <= most,
    tree   <- digest,
    job    <- [j \in Jobs |-> Promised(j)],
    bundle <- [j \in Jobs |-> IF Promised(j) = "running" THEN wanted[j] ELSE NoBundle]

\* The node with its locks, files and goroutines behaves as ScanOrchestration
\* assumes: accepts only its own bundle below the limit, ends a scan once, and
\* swaps no bundle under a running scan.
ImplementsContract == Contract!Spec
=============================================================================
