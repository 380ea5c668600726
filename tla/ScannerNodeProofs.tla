-------------------------- MODULE ScannerNodeProofs --------------------------
(* Proofs about ScannerNode, for any scans, bundles, limits and faults: the *)
(* safety of the node and its refinement of NodeContract.                   *)
EXTENDS ScannerNode, FiniteSetTheorems, TLAPS

\* The positions of a goroutine that has no result yet.
Working == {"setup", "discover", "nuclei", "drain"}

\* A request that was not published yet has left no trace in the runner's maps.
UnpublishedIsUnknown ==
    \A j \in Jobs : at[j] \in Starting \cup {"none"} =>
        /\ status[j] = "none"
        /\ j \notin tracked /\ j \notin requested /\ j \notin stopped /\ j \notin removing

\* A goroutine without a result has its record and its directory.
WorkingIsTracked ==
    \A j \in Jobs :
        /\ at[j] = "publish" => j \in dirs
        /\ at[j] \in Working =>
              /\ j \in tracked /\ j \in dirs /\ j \notin removing
              /\ status[j] = "running"

\* What the record of a scan tells of its goroutine.
RecordsFit ==
    /\ \A j \in Jobs :
          /\ j \in tracked => status[j] # "none"
          /\ status[j] = "running" /\ at[j] \notin Working => j \in requested
          /\ status[j] = "cancelled" => at[j] \in {"release", "end"}
    /\ stopped \subseteq requested

\* The template lock: a scan that holds it keeps activations out, and the tree,
\* the recorded digest and the scan's digest agree until it lets go.
TreeFits ==
    /\ push # "none" => pushed \in Bundles
    /\ \A j \in Jobs :
          /\ at[j] \in Reading \cup {"lock"} => wanted[j] \in Bundles
          /\ at[j] \in Reading =>
                push = "none" /\ tree = wanted[j] /\ digest = wanted[j]

NodeInv == TypeOK /\ UnpublishedIsUnknown /\ WorkingIsTracked /\ RecordsFit /\ TreeFits

-----------------------------------------------------------------------------
(* The inductive invariant                                                 *)

USE DEF Ended, Starting, Process, Reading, Holding, Positions, Working

LEMMA InitNode == Init => NodeInv
  BY DEF Init, NodeInv, TypeOK, UnpublishedIsUnknown, WorkingIsTracked, RecordsFit, TreeFits

LEMMA InterruptedType ==
    ASSUME TypeOK
    PROVE  Interrupted \subseteq Bundles \cup {NoBundle}
  BY DEF TypeOK, Interrupted

LEMMA StartNode ==
    ASSUME NodeInv, NEW j \in Jobs,
           (\E d \in Bundles : Acquire(j, d)) \/ StartSteps(j)
    PROVE  NodeInv'
  <1> USE DEF NodeInv, TypeOK, Goto, jobVars, diskVars, treeVars
  <1>1. CASE \E d \in Bundles : Acquire(j, d)
    BY <1>1 DEF Acquire, UnpublishedIsUnknown, WorkingIsTracked, RecordsFit, TreeFits
  <1>2. CASE LockTemplates(j)
    BY <1>2 DEF LockTemplates, UnpublishedIsUnknown, WorkingIsTracked, RecordsFit, TreeFits
  <1>3. CASE Refuse(j)
    BY <1>3 DEF Refuse, Released, UnpublishedIsUnknown, WorkingIsTracked, RecordsFit, TreeFits
  <1>4. CASE MakeDir(j)
    BY <1>4 DEF MakeDir, UnpublishedIsUnknown, WorkingIsTracked, RecordsFit, TreeFits
  <1>5. CASE Publish(j)
    BY <1>5 DEF Publish, UnpublishedIsUnknown, WorkingIsTracked, RecordsFit, TreeFits
  <1>. QED
    BY <1>1, <1>2, <1>3, <1>4, <1>5 DEF StartSteps

LEMMA RunNode ==
    ASSUME NodeInv, NEW j \in Jobs, Run(j)
    PROVE  NodeInv'
  <1> USE DEF NodeInv, TypeOK, Goto, jobVars, diskVars, treeVars,
              UnpublishedIsUnknown, WorkingIsTracked, RecordsFit, TreeFits
  <1>1. CASE Setup(j)
    BY <1>1 DEF Setup, Abandon, Result
  <1>2. CASE Discover(j)
    BY <1>2 DEF Discover, Abandon, Result
  <1>3. CASE Nuclei(j)
    BY <1>3 DEF Nuclei, Abandon, Result
  <1>4. CASE Drain(j)
    BY <1>4 DEF Drain, Abandon, Result
  <1>5. CASE Unlock(j)
    BY <1>5 DEF Unlock
  <1>6. CASE Finish(j)
    BY <1>6 DEF Finish
  <1>7. CASE Release(j)
    BY <1>7 DEF Release, Released
  <1>. QED
    BY <1>1, <1>2, <1>3, <1>4, <1>5, <1>6, <1>7 DEF Run

LEMMA RecordNode ==
    ASSUME NodeInv, NEW j \in Jobs,
           \/ Cancel(j) \/ CancelContext(j)
           \/ DropJob(j) \/ RemoveDir(j) \/ SweepOrphans(j)
    PROVE  NodeInv'
  <1> USE DEF NodeInv, TypeOK, jobVars, diskVars, treeVars,
              UnpublishedIsUnknown, WorkingIsTracked, RecordsFit, TreeFits
  <1>1. CASE Cancel(j)
    BY <1>1 DEF Cancel
  <1>2. CASE CancelContext(j)
    BY <1>2 DEF CancelContext
  <1>3. CASE DropJob(j)
    BY <1>3 DEF DropJob, TerminalAndFinished
  <1>4. CASE RemoveDir(j)
    BY <1>4 DEF RemoveDir
  <1>5. CASE SweepOrphans(j)
    BY <1>5 DEF SweepOrphans
  <1>. QED
    BY <1>1, <1>2, <1>3, <1>4, <1>5

LEMMA TreeNode ==
    ASSUME NodeInv, (\E d \in Bundles : LockTree(d)) \/ ActivateStep \/ Restart
    PROVE  NodeInv'
  <1> USE DEF NodeInv, TypeOK, jobVars, diskVars, treeVars,
              UnpublishedIsUnknown, WorkingIsTracked, RecordsFit, TreeFits
  <1>1. CASE \E d \in Bundles : LockTree(d)
    BY <1>1 DEF LockTree, Readers
  <1>2. CASE ActivateStep
    BY <1>2, InterruptedType DEF ActivateStep
  <1>3. CASE Restart
    BY <1>3, InterruptedType DEF Restart
  <1>. QED
    BY <1>1, <1>2, <1>3

LEMMA NodeStep == NodeInv /\ [Next]_vars => NodeInv'
  <1> SUFFICES ASSUME NodeInv, [Next]_vars PROVE NodeInv'
    OBVIOUS
  <1>1. CASE UNCHANGED vars
    BY <1>1 DEF vars, jobVars, diskVars, treeVars, NodeInv, TypeOK,
       UnpublishedIsUnknown, WorkingIsTracked, RecordsFit, TreeFits
  <1>2. CASE Next
    BY <1>2, StartNode, RunNode, RecordNode, TreeNode DEF Next
  <1>. QED
    BY <1>1, <1>2

LEMMA NodeInvariant == Spec => []NodeInv
  BY InitNode, NodeStep, PTL DEF Spec

\* A live naabu or nuclei process keeps the tree it was resolved against and its
\* work directory, whatever pushes, deletions, sweeps, failing file operations
\* and restarts happen (lockTemplates, bundleStore.apply, Runner.Delete).
THEOREM FilesStayUnderProcess == Spec => []FilesUnderProcess
  <1>1. NodeInv => FilesUnderProcess
    BY DEF NodeInv, WorkingIsTracked, TreeFits,
       FilesUnderProcess, TreeUnderProcess, DirUnderProcess
  <1>. QED
    BY <1>1, NodeInvariant, PTL

\* A status that reads cancelled is published only after the goroutine let go of
\* its process and of the tree (job.finish), for any scans and faults.
THEOREM CancelledHasStopped == Spec => []CancelledMeansStopped
  <1>1. NodeInv => CancelledMeansStopped
    BY DEF NodeInv, RecordsFit, CancelledMeansStopped
  <1>. QED
    BY <1>1, NodeInvariant, PTL

-----------------------------------------------------------------------------
(* Admission slots                                                         *)

Holders == {j \in Jobs : at[j] \in Holding}

\* The largest limit the backend sends.
Most == CHOOSE most \in Limits : \A l \in Limits : l <= most

\* The count is exact and no request was admitted above the largest limit.
SlotInv == active = Cardinality(Holders) /\ active <= Most

LEMMA MostIsLargest == Most \in Nat /\ \A l \in Limits : l \in Nat /\ l <= Most
  BY NodeConstants DEF Most

LEMMA HoldersFinite == IsFiniteSet(Holders) /\ Cardinality(Holders) \in Nat
  BY NodeConstants, FS_Subset, FS_CardinalityType DEF Holders

LEMMA SlotKept ==
    ASSUME SlotInv, Holders' = Holders, active' = active
    PROVE  SlotInv'
  BY DEF SlotInv

LEMMA SlotTaken ==
    ASSUME SlotInv, NEW j, j \notin Holders, Holders' = Holders \cup {j},
           active' = active + 1, NEW limit \in Limits, active < limit
    PROVE  SlotInv'
  <1>1. Cardinality(Holders \cup {j}) = Cardinality(Holders) + 1
    BY HoldersFinite, FS_AddElement
  <1>. QED
    BY <1>1, HoldersFinite, MostIsLargest DEF SlotInv

LEMMA SlotGiven ==
    ASSUME SlotInv, NEW j, j \in Holders, Holders' = Holders \ {j}, active' = Released
    PROVE  SlotInv'
  <1>1. Cardinality(Holders \ {j}) = Cardinality(Holders) - 1
    BY HoldersFinite, FS_RemoveElement
  <1>2. Cardinality(Holders \ {j}) \in Nat
    BY HoldersFinite, FS_Subset, FS_CardinalityType
  <1>. QED
    BY <1>1, <1>2, HoldersFinite, MostIsLargest DEF SlotInv, Released

LEMMA SlotInit == Init => SlotInv
  <1> SUFFICES ASSUME Init PROVE SlotInv
    OBVIOUS
  <1>1. Holders = {}
    BY DEF Init, Holders
  <1>. QED
    BY <1>1, FS_EmptySet, MostIsLargest DEF Init, SlotInv

LEMMA SlotStep ==
    ASSUME TypeOK, SlotInv, [Next]_vars
    PROVE  SlotInv'
  <1> USE DEF TypeOK, Goto, jobVars, diskVars, treeVars
  <1>1. ASSUME NEW j \in Jobs, NEW d \in Bundles, Acquire(j, d)
        PROVE  SlotInv'
    <2>1. j \notin Holders /\ Holders' = Holders \cup {j}
      BY <1>1 DEF Acquire, Holders
    <2>. QED
      BY <1>1, <2>1, SlotTaken DEF Acquire
  <1>2. ASSUME NEW j \in Jobs, Refuse(j) \/ Release(j)
        PROVE  SlotInv'
    <2>1. j \in Holders /\ Holders' = Holders \ {j}
      BY <1>2 DEF Refuse, Release, Holders
    <2>. QED
      BY <1>2, <2>1, SlotGiven DEF Refuse, Release
  <1>3. ASSUME NEW j \in Jobs, LockTemplates(j) \/ MakeDir(j) \/ Publish(j)
        PROVE  SlotInv'
    <2>1. Holders' = Holders
      BY <1>3 DEF LockTemplates, MakeDir, Publish, Holders
    <2>. QED
      BY <1>3, <2>1, SlotKept DEF LockTemplates, MakeDir, Publish
  <1>4. ASSUME NEW j \in Jobs,
               Setup(j) \/ Discover(j) \/ Nuclei(j) \/ Drain(j) \/ Unlock(j) \/ Finish(j)
        PROVE  SlotInv'
    <2>1. Holders' = Holders
      BY <1>4 DEF Setup, Discover, Nuclei, Drain, Unlock, Finish, Abandon, Holders
    <2>. QED
      BY <1>4, <2>1, SlotKept DEF Setup, Discover, Nuclei, Drain, Unlock, Finish
  <1>5. ASSUME NEW j \in Jobs,
               \/ Cancel(j) \/ CancelContext(j)
               \/ DropJob(j) \/ RemoveDir(j) \/ SweepOrphans(j)
        PROVE  SlotInv'
    BY <1>5, SlotKept DEF Cancel, CancelContext, DropJob, RemoveDir, SweepOrphans, Holders
  <1>6. ASSUME (\E d \in Bundles : LockTree(d)) \/ ActivateStep \/ UNCHANGED vars
        PROVE  SlotInv'
    BY <1>6, SlotKept DEF LockTree, ActivateStep, vars, Holders
  <1>7. CASE Restart
    <2>1. Holders' = {}
      BY <1>7 DEF Restart, Holders
    <2>. QED
      BY <1>7, <2>1, FS_EmptySet, MostIsLargest DEF Restart, SlotInv
  <1>. QED
    BY <1>1, <1>2, <1>3, <1>4, <1>5, <1>6, <1>7 DEF Next, StartSteps, Run

LEMMA SlotInvariant == Spec => [](NodeInv /\ SlotInv)
  <1>1. NodeInv => TypeOK
    BY DEF NodeInv
  <1>. QED
    BY <1>1, NodeInvariant, SlotInit, SlotStep, PTL DEF Spec

\* acquire and release pair up on every path through Start and run, refusals,
\* cancels, failing file operations and restarts included: the admission count is
\* the number of scans that hold a slot, for any limits.
THEOREM NodeSlotsAreExact == Spec => []SlotsExact
  <1>1. SlotInv => SlotsExact
    BY DEF SlotInv, SlotsExact, Holders
  <1>. QED
    BY <1>1, SlotInvariant, PTL

-----------------------------------------------------------------------------
(* The node implements NodeContract                                        *)

\* NodeContract counts with the same operator.
LEMMA SameCardinality == \A S : Contract!Cardinality(S) = Cardinality(S)
  BY Zenon DEF Contract!Cardinality, Contract!IsFiniteSet, Cardinality, IsFiniteSet

\* A scan the backend counts as running has a goroutine that works.
LEMMA RunningWorks ==
    ASSUME NodeInv, NEW j \in Jobs, Promised(j) = "running"
    PROVE  at[j] \in Working /\ j \in tracked /\ j \notin requested /\ status[j] = "running"
  BY DEF Promised, NodeInv, TypeOK, RecordsFit

\* A step that changes no promise, no bundle of a running scan and not the digest
\* is invisible to the backend.
LEMMA Invisible ==
    ASSUME \A j \in Jobs : Promised(j)' = Promised(j),
           \A j \in Jobs : Promised(j) = "running" => wanted'[j] = wanted[j],
           digest' = digest
    PROVE  UNCHANGED Contract!vars
  BY DEF Contract!vars

LEMMA StartImplements ==
    ASSUME NodeInv, NEW j \in Jobs,
           \/ \E d \in Bundles : Acquire(j, d)
           \/ LockTemplates(j) \/ Refuse(j) \/ MakeDir(j)
    PROVE  UNCHANGED Contract!vars
  <1> USE DEF NodeInv, TypeOK, Goto, jobVars, diskVars, treeVars
  <1>1. /\ at[j] \in Starting \cup {"none"} /\ at'[j] \in Starting \cup {"none"}
        /\ \A i \in Jobs \ {j} : at'[i] = at[i] /\ wanted'[i] = wanted[i]
        /\ UNCHANGED <<status, tracked, requested, digest>>
    BY DEF Acquire, LockTemplates, Refuse, MakeDir
  <1>2. \A i \in Jobs : Promised(i)' = Promised(i)
    BY <1>1 DEF Promised
  <1>3. Promised(j) = "none"
    BY <1>1 DEF Promised
  <1>. QED
    BY <1>1, <1>2, <1>3, Invisible

LEMMA PublishImplements ==
    ASSUME NodeInv, SlotInv, NEW j \in Jobs, Publish(j)
    PROVE  Contract!Accept(j)
  <1> USE DEF NodeInv, TypeOK, Goto, jobVars, diskVars, treeVars
  <1>1. Promised(j) = "none" /\ Promised(j)' = "running"
    BY DEF Publish, Promised, UnpublishedIsUnknown
  <1>2. \A i \in Jobs \ {j} : Promised(i)' = Promised(i)
    BY DEF Publish, Promised
  <1>3. Cardinality(Contract!RunningJobs) < Most
    <2>1. Contract!RunningJobs \subseteq Holders \ {j}
      BY <1>1, RunningWorks DEF Contract!RunningJobs, Holders
    <2>2. j \in Holders
      BY DEF Publish, Holders
    <2>3. /\ IsFiniteSet(Holders \ {j})
          /\ Cardinality(Holders \ {j}) = Cardinality(Holders) - 1
      BY <2>2, HoldersFinite, FS_RemoveElement
    <2>4. /\ Cardinality(Contract!RunningJobs) \in Nat
          /\ Cardinality(Contract!RunningJobs) <= Cardinality(Holders \ {j})
      BY <2>1, <2>3, FS_Subset, FS_CardinalityType
    <2>. QED
      BY <2>3, <2>4, HoldersFinite, MostIsLargest DEF SlotInv
  <1>4. digest = wanted[j] /\ digest \in Bundles
    BY DEF Publish, TreeFits
  <1> DEFINE job    == [i \in Jobs |-> Promised(i)]
             bundle == [i \in Jobs |-> IF Promised(i) = "running" THEN wanted[i] ELSE NoBundle]
  <1>5. job[j] = "none" /\ job' = [job EXCEPT ![j] = "running"]
    BY <1>1, <1>2
  <1>6. bundle' = [bundle EXCEPT ![j] = digest] /\ digest' = digest
    BY <1>1, <1>2, <1>4 DEF Publish
  <1>7. Contract!Cardinality(Contract!RunningJobs)
            < (CHOOSE most \in Limits : \A l \in Limits : l <= most)
    BY <1>3, SameCardinality DEF Most
  <1>. QED
    BY <1>4, <1>5, <1>6, <1>7, Zenon DEF Contract!Accept

\* The two ways a goroutine's step looks from outside.
LEMMA RunImplements ==
    ASSUME NodeInv, NEW j \in Jobs, Run(j)
    PROVE  Contract!End(j) \/ UNCHANGED Contract!vars
  <1> USE DEF NodeInv, TypeOK, Goto, jobVars, diskVars, treeVars
  <1>1. /\ at[j] \notin Starting \cup {"none"} /\ at'[j] \notin Starting \cup {"none"}
        /\ \A i \in Jobs \ {j} :
              at'[i] = at[i] /\ wanted'[i] = wanted[i] /\ status'[i] = status[i]
        /\ UNCHANGED <<tracked, requested, digest>>
    BY DEF Run, Setup, Discover, Nuclei, Drain, Unlock, Finish, Release, Abandon, Result
  <1>2. \A i \in Jobs \ {j} : Promised(i)' = Promised(i)
    BY <1>1 DEF Promised
  <1>3. CASE j \in requested \/ status'[j] = status[j]
    <2>1. Promised(j)' = Promised(j)
      BY <1>1, <1>3 DEF Promised
    <2>2. Promised(j) = "running" => wanted'[j] = wanted[j]
      BY RunningWorks DEF Run, Setup, Discover, Nuclei, Drain, Unlock, Finish, Release
    <2>. QED
      BY <1>1, <1>2, <2>1, <2>2, Invisible
  <1>4. CASE j \notin requested /\ status'[j] # status[j]
    <2>1. at[j] \in Working /\ status'[j] \in Ended
      BY <1>4 DEF Run, Setup, Discover, Nuclei, Drain, Unlock, Finish, Release, Abandon, Result
    <2>2. Promised(j) = "running" /\ Promised(j)' = status'[j]
      BY <1>1, <1>4, <2>1 DEF Promised, WorkingIsTracked
    <2>. QED
      BY <1>1, <1>2, <2>1, <2>2 DEF Contract!End, Contract!Ended
  <1>. QED
    BY <1>3, <1>4

LEMMA RecordImplements ==
    ASSUME NodeInv, NEW j \in Jobs,
           \/ Cancel(j) \/ CancelContext(j)
           \/ DropJob(j) \/ RemoveDir(j) \/ SweepOrphans(j)
    PROVE  Contract!End(j) \/ Contract!Forget \/ UNCHANGED Contract!vars
  <1> USE DEF NodeInv, TypeOK, jobVars, diskVars, treeVars
  <1>1. CASE Cancel(j)
    <2>1. Promised(j) = "running" /\ Promised(j)' = "cancelled"
      BY <1>1 DEF Cancel, Promised, UnpublishedIsUnknown
    <2>2. \A i \in Jobs \ {j} : Promised(i)' = Promised(i)
      BY <1>1 DEF Cancel, Promised
    <2>. QED
      BY <1>1, <2>1, <2>2 DEF Cancel, Contract!End, Contract!Ended
  <1>2. CASE CancelContext(j) \/ RemoveDir(j) \/ SweepOrphans(j)
    BY <1>2, Invisible DEF CancelContext, RemoveDir, SweepOrphans, Promised
  <1>3. CASE DropJob(j)
    <2>1. Promised(j) \in Ended /\ Promised(j)' = "gone"
      BY <1>3 DEF DropJob, TerminalAndFinished, Promised, UnpublishedIsUnknown
    <2>2. \A i \in Jobs \ {j} : Promised(i)' = Promised(i)
      BY <1>3 DEF DropJob, Promised
    <2>3. {j} \in SUBSET {i \in Jobs : Promised(i) \in Ended}
      BY <2>1
    <2>. QED
      BY <1>3, <2>1, <2>2, <2>3 DEF DropJob, Contract!Forget, Contract!Ended
  <1>. QED
    BY <1>1, <1>2, <1>3

LEMMA TreeImplements ==
    ASSUME NodeInv, (\E d \in Bundles : LockTree(d)) \/ ActivateStep
    PROVE  Contract!Activate \/ UNCHANGED Contract!vars
  <1> USE DEF NodeInv, TypeOK, jobVars, diskVars, treeVars
  <1>1. \A i \in Jobs : Promised(i)' = Promised(i) /\ wanted'[i] = wanted[i]
    BY DEF LockTree, ActivateStep, Promised
  <1>2. CASE digest' = digest
    BY <1>1, <1>2, Invisible
  <1>3. CASE digest' # digest
    <2>1. push # "none" /\ digest' = pushed /\ pushed \in Bundles
      BY <1>3 DEF LockTree, ActivateStep, TreeFits
    <2>2. Contract!RunningJobs = {}
      BY <2>1, RunningWorks DEF Contract!RunningJobs, TreeFits
    <2>. QED
      BY <1>1, <2>1, <2>2 DEF Contract!Activate
  <1>. QED
    BY <1>2, <1>3

LEMMA RestartImplements ==
    ASSUME NodeInv, Restart
    PROVE  Contract!Restart
  <1> USE DEF NodeInv, TypeOK
  <1>1. \A j \in Jobs : Promised(j)' = IF Promised(j) = "none" THEN "none" ELSE "gone"
    BY DEF Restart, Promised, RecordsFit
  <1>2. digest' \in Bundles \cup {NoBundle}
    BY InterruptedType DEF Restart
  <1>. QED
    BY <1>1, <1>2 DEF Contract!Restart

\* The node with its locks, files and goroutines behaves as ScanOrchestration
\* assumes, for any scans, bundles, limits and faults: a scan is accepted only for
\* the digest the node holds and below the largest limit, it ends once, a
\* requested cancel is never overtaken by another result, and no bundle is
\* swapped under a scan the backend counts as running.
THEOREM NodeImplementsContract == Spec => ImplementsContract
  <1>1. Init => Contract!Init
    BY DEF Init, Contract!Init, Promised
  <1>2. ASSUME NodeInv, SlotInv, [Next]_vars
        PROVE  [Contract!Next]_(Contract!vars)
    <2>1. CASE UNCHANGED vars
      BY <2>1, Invisible DEF vars, jobVars, treeVars, Promised
    <2>2. CASE Next
      BY <1>2, <2>2, StartImplements, PublishImplements, RunImplements, RecordImplements,
         TreeImplements, RestartImplements DEF Next, StartSteps, Contract!Next
    <2>. QED
      BY <1>2, <2>1, <2>2
  <1>. QED
    BY <1>1, <1>2, SlotInvariant, PTL DEF Spec, ImplementsContract, Contract!Spec
=============================================================================
