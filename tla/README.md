# A TLA+ model of the security centre

The repository is a control plane for the Nuclei scanner: a backend (API, database, scheduler, one
goroutine per scan) drives scanner nodes over HTTP, ingests their results into PostgreSQL and derives
from them a deduplicated lifecycle of every finding. This directory models the parts of it whose
correctness depends on interleavings, failures and history, checks them with TLC on small instances, and
proves the main results with TLAPS for every instance.

## Inventory of the system

| Part | State | Operations | Hard because of |
|---|---|---|---|
| Scan orchestration (`internal/backend/orchestrator.go`, `admission.go`) | goroutine locals, per-process slot counts, the run context | `Submit`, `run` and what it calls, cancel, delete, sweep at start-up | every statement can fail, the context expires, the process dies, users cancel and delete at any moment |
| Scan rows and outbox (`internal/store/store.go`, `notify.go`) | `scans`, `scan_notification_outbox` | `MarkRunning`, `MarkComplete`, `MarkFailed`, `CancelScan`, `DeleteScan`, `FailOrphanedScans`, claims | guarded updates that race; claim-then-send |
| Template distribution (`distributor.go`, `templatebundle.go`) | bundle version recorded per node, catalog digest | periodic push, pre-dispatch top-up | idle check, catalog read and push are separate |
| Finding lifecycle (`internal/store/lifecycle.go`, `lifecycle_repair.go`, `store.go`) | `findings`, `finding_lifecycle`, coverage columns | `IngestFinding`, `MarkComplete`, `ImportScanBundle`, `DeleteScan`, `DeleteTarget`, `SetDisposition` | scans overlap and end out of order; counters kept incrementally and recomputed after deletions |
| Scan bundles (`scanbundle.go` of backend and store) | one import slot per process | export in two reads, decode, conflict check, import transaction | the scan changes between the reads; replicas import one bundle at once; evidence is trusted or not |
| Scanner node (`internal/scanner/runner.go`, `bundle.go`, `admission.go`) | jobs, slots, work directories, the template tree | start, cancel, delete, reap, bundle activation, restart | status published before locks are released; crash in the middle of a swap |
| Endpoint coverage (`scanner/coverage.go`, `runner.go`) | the pairs reduced so far | reduce the trace, publish, give up | the reducer runs beside nuclei and may be late, broken or full |
| Template catalog (`template_syncer.go`, `templatesyncsource.go`, `store/templates.go`) | catalog rows, sync source, run rows, one worktree per replica | sync, request, switch of the source, preview, apply | replicas sync concurrently, requests arrive during a sync, processes die in one |
| Template sets and archives (`store/templateset*.go`, `templatearchive.go`, `templateimport.go`) | sets, members, exclusions | edit, resolve, export, plan, import | a resolution and an import read several times what others change |
| Scheduler (`scheduler.go`, `store/schedules.go`) | `schedules` | tick, dispatch, record, edit | dispatch and bookkeeping are two writes |
| Node registry (`nodes.go`, `nodes_http.go`, `store/nodes.go`) | `scanner_nodes` | create, merging update, delete, seed, select | rows are checked against each other and merged from earlier reads |
| Node health (`health.go`) | last answer per node | poll cycle, prune, verdict | stale verdicts, nodes that leave during a cycle |
| Login and sessions (`auth*.go`, `sessions.go`, `csrf.go`, `store/auth.go`) | pending flows, sessions, client buckets | admit, take, create, evict, revoke, log out | caps shared by replicas, headers that are missing |
| Retention (`retention.go`, `store/settings.go`) | the policy | tick, list, delete | lists grow old while they are worked off |
| Mail, queries, exports, CRUD, object store, SPA, configuration | see `PROJECT.json` | | mostly single statements, text or external services |

Interaction: a scan enters through `Submit` (API or scheduler), is bound to one node, waits for that
node's template tree, runs there, and is polled; its results are ingested record by record into the
lifecycle; its terminal write also writes the outbox row the mailer claims. Cancels and deletes come from
API handlers and the retention sweeper and share only the database with the goroutine. What a complete scan
proves absent comes from the trace its node reduced; bundles carry scans, and with them evidence, between
instances. Administrators change nodes, template sets and the template source beside all this.

What makes each part correct, in one line each: a terminal scan never changes; a complete scan is whole;
slots are neither leaked nor freed twice; no tree is swapped under a job; one mail per scan; every
scan ends; the lifecycle row of a finding is what the retained scans say; only complete, in-scope evidence
closes a finding; new and fixed are announced once; what counts as covered was reached; retention leaves every
target a scan; every due schedule is served once; a dead node gets no scan and a live one does; caps on logins
and sessions hold; the catalog becomes that of its source. The `hazards` of `PROJECT.json` list where each of
these could go wrong.

## Modules

`ScanOrchestration` models orchestration, scan rows, outbox and template distribution together, because
their bugs are in the gaps between them. `pc[s]` is the position of the goroutine of scan `s` in
`Orchestrator.run`; every database statement, node request and object-store write is one step.

| Code | Definition |
|---|---|
| `Orchestrator.Submit` | `Submit` (admission slot, `CreateScan`, goroutine start) |
| `clientForNode`, `SetScanNode` | `Dial` |
| `ensureTemplateBundle`, `SyncNode` | `EnsureTemplateBundle`, `WaitIdle`, `SyncNode` |
| `startScanWithRetry` | `StartScan` (429: the step is not enabled until the node has room or the context ends) |
| `MarkRunning` and `abortNodeScan` | `MarkRunning`, `AbortNodeScan`, `AbortDelete` |
| `pollToDone` | `PollToDone` |
| `archiveLog` | `RecordStatus`, `RecordKey` |
| `ingest` with `scanFindingLinesWithDetails` | `IngestFinding`, `SkipFinding` (a record that is oversized, unparseable or a `FindingRecordError`), `IngestEnd`, `IngestError` |
| `SetScanSkippedFindingCount`, `archiveRaw` | `RecordSkipped` (fatal after a whole stream, only logged after a broken one), `ArchiveRaw` |
| `MarkComplete`, `failScan`, `notifyScan`, `cleanupNodeScan` | the actions of the same names |
| `handleCancelScan`, `SignalNodeCancel`, `DeleteScan` | `CancelScan`, `SignalNodeCancel`, `DeleteScan` |
| `distribute`, `pushTo` | `Distribute`, `PushBundle` |
| `main` up to serving | `StartBackend`, `FailOrphanedScans`, `ListUnclaimed`, `NotifyUnclaimed`, `Serve` |
| the node's HTTP interface | `NodeBusy`, `NodeFull`, `NodeAccepts`, `NodeCancel`, `NodeDelete`, `NodeFinish`, `NodeReap`, `NodeRestart` |

The constant `Faults` says what may go wrong: lost requests (`net`), failing statements, applied or not
(`db`), a process crash (`crash`), a node restart (`node`), a failing object store (`store`), records that cannot
be projected or exceed a quota (`stream`) and an expired run context (`expire`). After its deadline every statement and request that uses the run context fails;
the cancel and delete requests of the clean-up use a detached context in the code and in the model.

`FindingLifecycle` models the evidence side. A scan is an integer, its place in the `(created_at, id)`
order the SQL compares; a lifecycle row is a record of its first, last and covering scan, the number of
mitigations and whether a disposition mutes it. One transaction is one step. `MarkComplete` is a single
statement in the code and one step here, although READ COMMITTED would let a row change between the
statement's snapshot and its row locks.

| Code | Definition |
|---|---|
| `ingestFindingOccurrence` (the `ON CONFLICT` clause) | `Upsert`, used by `Ingest` and `Import` |
| `SetScanCoverage`, `SetScanSkippedFindingCount` | `Record`, `EndIngest` |
| the CTEs of `MarkComplete` | `Candidates`, `Advances`, `Status`, `Digest`, `MarkComplete` |
| `ImportScanBundle`, `applyScanCoverage` | `Import`, `ImportCovers` |
| `computeLifecycleTimeline` | `Timeline`; its loop is `WalkStep` and `TimesMitigated` |
| `repairLifecycleFindings`, `DeleteScan` | `Covering`, `Affected`, `DeleteScan` |
| foreign keys | `Unpoint` (set null), and `Ingest`, which fails once its target is gone |
| `lcDetectionExpr` | `Detection` |

The repair step uses the closed form `Timeline`; that the code's loop computes the same number is checked
separately (`LoopCountsComebacks`).

`ScannerNode` models one node below its HTTP interface: `Start` and the run goroutine of each scan, cancel,
delete and reaping, the work directories, the shared and exclusive lock on the template tree, and the
activation of a bundle file operation by file operation. `at[j]` is the position of a scan's handler or
goroutine; a step ends where another goroutine can interfere.

| Code | Definition |
|---|---|
| `scanAdmission.acquire`, `release` | `Acquire`, `Released` |
| `Runner.Start` | `LockTemplates`, `Refuse` (all error paths), `MakeDir`, `Publish` |
| `Runner.run` | `Setup`, `Discover`, `Nuclei`, `Drain`, then its deferred calls `Unlock`, `Finish`, `Release` |
| `job.fail`, `job.complete` | `Result` |
| `Runner.Cancel` | `Cancel` (the mark, under the job's lock) and `CancelContext` |
| `DeleteScan`, `cleanupExpired` | `DropJob` (the record) and `RemoveDir` (the directory, without the lock) |
| `cleanupOrphanedDirs` | `SweepOrphans`; at start-up, part of `Restart` |
| `bundleStore.apply`, `activate` | `LockTree`, `ActivateStep` (remove, rename, marker and digest) |
| `NewRunner`, `newBundleStore` | `Restart` |

The tree on disk is the digest of its manifest and whether every file of that manifest is there (`whole`),
since `RemoveAll` takes files in directory order and a crash can stop it anywhere. The constant `Faults`
allows restarts (`crash`) and failing file operations (`disk`).

`NodeContract` is the abstract specification of a node: a job is accepted below the limit and only for the
bundle the node holds, ends once, is forgotten only after its end, and the bundle changes only while no job
runs. These are the assumptions `ScanOrchestration` builds into its node actions. `ScannerNode` refines it
(`ImplementsContract`) with `digest` as the contract's tree and a job counted as cancelled from the moment
the cancel is marked: the code guarantees from then on that it will read nothing else.

The smaller modules each model one service. They share no state with each other or with the scans beyond
what is named here.

`TraceCoverage`: nuclei writes lines, the reducer takes them one by one, the run publishes.

| Code | Definition |
|---|---|
| `nucleiTraceEvent`, `EndpointKey`, `defaultEndpointPort` | `Line`, `EndpointKey`, `DefaultEndpointPort`: host and port, a missing port from scheme or protocol; the spelling of hosts is normalised already |
| `coveredEndpointsFromTrace` | `ProcessLine` with `Counts`, `Succeeds`, `Mapped`, `Grown`, `Overflows`; `ReachEOF`, `ReadFails`, `Reduced` |
| the `select` of `Runner.run` and `setCoverage` | `SetCoverage`, `DrainTimeout`, `KillScan` |

`ScanBundles`: an export is two reads (`ExportRow`, `ExportFindings`) beside a scan that ingests, ends or is
deleted; an import takes the slot of its replica, decodes, looks for the id and inserts (`BeginImport`,
`CheckConflict`, `ImportScanBundle`, `ImportRefused`). A bundle file is its state, its findings and whether
it was cut off. What an import does to lifecycle rows is `Import` of `FindingLifecycle`.

`Retention`: a sweep reads the policy (`BeginSweep`), lists what is due (`ListScans`, `ScansForRetention`) and
deletes the list one by one (`SweepScan`, `SkipScan`), beside `UpdateSettings`, new, ended and imported scans
and `DeleteByHand`. A scan is the day it was created on; purging its archived objects is best effort and
left out.

`Scheduler`: `Tick` takes the due rows as snapshots, `Submit` and its failures dispatch the first,
`RecordScheduleRun` (or `RecordFails`) writes it back; handlers edit, disable, delete and run schedules between
any two steps, and the process may restart. A cadence is a value and a `next_run_at` the cadence it was computed
from.

`NodeHealth`: `BeginPoll` takes a tick, `ListNodes` lists, `PollAnswers` and `PollFails` poll node by node, `Prune`
ends a cycle; `Healthy` and `Dispatchable` are the verdict a dispatch asks for. Time is counted in units smaller
than the interval, because the nodes of a cycle are polled at different moments. `Pass` lets it go by whatever
the cycle is doing: neither the list nor the number of polls is bounded, so a cycle may last any number of
intervals. The ticker's channel holds one tick (`ticked`), which a loop that is late takes when its cycle ends; further
ticks are dropped. `late` remembers for which nodes a tick has found a cycle running since they last answered.

`AuthSessions`: `Login`, `Admit`, `CreateAuthFlow` and `Callback`, `TakeAuthFlow`, `Exchange`, `LockSubject`,
`CreateSession` are the statements of a login on any replica; `Logout`, `Revoke`, `RevokeOne`, the sweeps and
expiry happen in between. `LogoutAllowed` decides from the headers a browser sends. `LoginAdmission` is the
limiter before it: `ClientKey` from the proxy headers, `Request` against the bucket table.

`NodeRegistry`: `HandleCreateNode`, `HandleUpdateNode` (the read and the merge) and `UpdateScannerNode` (the write
under the table lock), `DeleteScannerNode`, `SeedScannerNodes`, `SelectNode`. A range is a block of addresses,
a certificate and a key are numbers that belong together when they are equal. A target of a scan is an address, a
block or a host name; `TargetIP` reduces a block to the address it is written with, as `targetIP` does.

`TemplateSync`: the loop of each replica (`Wake`, `ReadSource`, `LockWorktree`, `TemplateSnapshot`,
`CheckConflict`, `ApplyUpstreamTemplates`, `FailTemplateSync`), the switch of the source (`BeginSwitch`, `Probe`,
`UpdateTemplateSyncSource`, `RequestSync`), run rows and their reaping, custom templates, crashes and failing
calls. Git, the walk of the worktree and the parser are one step that yields the latest release.

`TemplateSets`: edits of sets, members and exclusions, the reads of `resolveConfigSpec` (`BeginResolve` to
`Dispatch`), exports, import plans (`PlanWrites`) and their transaction (`ApplyTemplateImport`), and the
preview's counts (`TemplateSetsLosingMembers`, `TemplateSetsRegainingMembers`). A template is its owner, its
state and its content; archive formats and size limits are left out.

`MCScanOrchestration`, `MCFindingLifecycle` and `MCScannerNode` only add model values and symmetry.
`MCControlPlane` (`Scheduler`, `NodeHealth`, `AuthSessions`, `LoginAdmission`), `MCConfiguration`
(`NodeRegistry`, `TemplateSync`, `TemplateSets`) and `MCEvidence` (`FindingLifecycle`, `Retention`, `ScanBundles`,
`TraceCoverage`) put modules that share no variable into one run: the variable `focus` says at the start whose
steps a behaviour takes, so that the state spaces add up instead of multiplying. Nothing is lost by that, since no
module reads what another one writes.

Theorems are in modules of their own: `ScanOrchestrationProofs` and `ScanOutcomeProofs`, `ScannerNodeProofs`,
`FindingLifecycleProofs`, `EvidenceProofs` (`ScanBundles`, `TraceCoverage`, `Retention`), `ConfigurationProofs`
(`NodeRegistry`, `TemplateSync`, `TemplateSets`) and `ControlPlaneProofs` (`NodeHealth`, `AuthSessions`, `Scheduler`,
`LoginAdmission`); `ListFacts` has the lemmas several of them share.

## Runs

Orchestration. Two scans and a node limit of 1 are enough for the interactions there are: two goroutines
share only the slots, the node's capacity and its tree. `PerScan = 1` tells an ingested scan from a
truncated one; `PerScan = 2` in `orch_replicas` lets one record be skipped and the other ingested or lost; the run
about the end of goroutines needs no records. `MaxCatalog = 2` gives an old and a new template version. Scans are
symmetric except in the runs with liveness properties. The run with two replicas has one scan: the replicas meet
in its row, its node and the distributor, and are symmetric themselves. It archives, and its view leaves out what was
archived (`WithoutArchive`): no guard and neither property reads it.

| Run | Shows |
|---|---|
| `orch_db` | failing statements, expiry and crashes: `TypeOK`, `SlotsExact`, `MailIsExact` (the outbox row says how the scan ended, and one mail goes out), `OutcomesHold` (a terminal row stays, and the sweep spares driven scans) |
| `orch_replicas` | two replicas with their distributors, a changing catalog and every fault but expiry: `TreeMatchesRunningJobs`, `CompleteMeansIngested` (the occurrences and the skipped count on the row of a complete scan add up to the node's stream) |
| `orch_live` | crashes and node restarts at any moment: `LiveRowHasDriver`; once a process stays up, `EventuallyReported` (every scan ends and every pending notification is claimed) |
| `orch_end` | no fairness of the node at all: `GoroutinesEnd`, because the run context expires, and `CancelReachesNode` with a job that would never end |
| `orch_stuck_row` (violation) | an expired context leaves a live row without a driver |

Lifecycle and evidence. One finding suffices: rows of different findings share no column and no condition, they
only share the scans. Three scans give a past, a present and a late one; the run about histories uses four, the
least for a sighting, a proven absence, a return and one more scan. A scan place is used once, so these
runs end when all places are used and deadlock is not checked. `Features` selects what may happen, `Interrupted`
whose own run may fail, be cancelled or be marked complete twice: in `lc_overlap` the scan in the middle of the order,
in `evidence` every one.

| Run | Shows |
|---|---|
| `lc_overlap` | overlapping scans of two scopes, one of them failing, cancelled or completed twice, imports, triage, deleted targets, deletions at any moment: `PointersSound`, `CoveringSound`, `EvidenceAdvances`, and, as long as no scan is deleted, `NewsIsToldOnce` (new once, fixed once) |
| `evidence` | histories of scans one after another, cancelled half way, with skipped records, repeated completions, dispositions and deletions: `HistoryExplainsRow` (the row is what the retained scans say, and the repair's loop computes it), `DigestTellsHistory`; sweepers: `RetentionIsCareful`; bundles: `ImportedCompleteIsWhole`; traces: `CoverageIsProven` |
| `lc_mitigated` (violation) | a failed run's partial ingest makes an observed finding read mitigated |

`HistoryExplainsRow` speaks of scans one after another and of findings whose retained observations are all of
complete scans, because the repair ignores the others.

In `evidence`, two sweepers with a cap of one deletion per list, four days and windows of one and two days give
lists of different age and more due scans than a list takes. Two replicas that import, two findings, two
different downloads and two local ids give every race of an import with itself. Three lines are enough to
exceed a limit of two pairs; the lines are listed in `MCLines`. Replicas are symmetric.

Node. Two scans and two bundles: one scan holds the tree while the other starts, ends or is refused, and an
old and a new bundle are enough for a swap. Limits of 1 and 2 let the limit change between requests.

| Run | Shows |
|---|---|
| `node` | restarts and failing file operations: `SlotsExact`, `FilesUnderProcess` (no swap and no removal under a process), `CancelledMeansStopped`, `ScansEnd`, `ImplementsContract` |
| `node_swap` (violation) | a restart in the middle of `RemoveAll` leaves a manifest and a marker that agree, and scans run on a tree that lacks files |

Services and configuration. Every limit is as small as it can be and still be met: one dispatch per tick and one
admission slot for two schedules, one pending flow and one session for two handlers, a table of two buckets for
three clients. A node is polled every three units, which gives it three moments in a cycle; one node is monitored,
and the others that a cycle has to poll first are the time it takes, which nothing bounds. Two admins edit
three nodes over four addresses, with nested and disjoint ranges; scans name an address, a block within one range,
a block that two nodes share, and a host name. The mirror has two replicas, two sources, a
release that moves a path between ids, one switch and one fault. Two templates, two sets and three
archives meet every branch of the import plan. Counters that only tell histories apart are capped by constants
named `Max...`.

| Run | Shows |
|---|---|
| `control` | `FiresAreExact` (one scan per fire unless its record is lost, at most one after disabling), `SchedulesAreKept` (due schedules are served, edits take effect), `VerdictsAreTimely` (a dead node is not used, one missed poll is bridged unless a cycle outlasts a tick), `RecordsConverge` (records of removed nodes go, recovered nodes are used), `LoginsAreSound` (the cap on flows, single use), `SessionsAreSound` (the cap on sessions, no log-out by other pages), `NoSecondBucket` |
| `config` | `RegistryIsSound` (disjoint ranges, keys that fit), `SelectionIsSound` (no address and no block is taken from the node it lies with, in any order of the targets), `SwitchIsQueued`, `CustomIsNeverReplaced`, `MirrorSettles` (the catalog follows its source, run rows are closed), `SelectionInBundle`, `PreviewForetells`, `ExclusionsOutlastTheCatalog`, `ArchivesAreFaithful` (imports keep to their policy and bring the archive's set, exports of exact sets round-trip) |

The violations are the `findings` of `PROJECT.json`, each with the sentence of the code or the docs it
contradicts.

### Known disagreements that are not runs

Met while modelling; the properties are stated so that they exclude exactly these.

- With overlapping scans the older one can announce as fixed a finding it observed itself: the digest compares
  with `last_seen`, which the newer scan has moved (`store.go:542`; `docs/admin/Operations.md:130`).
- Deleting an older scan while a newer one ingests lets the repair write a `last_seen` that is behind
  (`store.go:1043`, the comment at `:1041`).
- A deletion by hand during a retention sweep can leave a target without a scan: the list was made when the
  deleted scan was the latest (`settings.go:188` "never a target's single most-recent scan").
- A scan deleted between the two reads of its export yields a complete bundle without findings
  (`store/scanbundle.go:118`).
- `setCoverage` stores the empty list for coverage that is unknown (`runner.go:798`); only the warning tells it
  from coverage that is empty.
- The archive of an exclude set carries hashes next to empty YAML, and its own import refuses it
  (`templatearchive.go:140`, the comment at `:138`).
- A set that changes from exclude to exact between two reads of a resolution excludes nothing
  (`http.go:461`).
- `health.go:57` promises to tolerate two missed polls; the moments of the polls only guarantee one. Not even one is
  certain once a cycle outlasts its interval: the list has no timeout and the nodes are polled one after another with
  5 s each (`health.go:91`, `:97`), so six hung nodes fill the default interval of 30 s, and the comment at
  `health.go:50` ("so one hung node can't stall the cycle") only bounds one node. A node that answered before such a
  cycle and misses one poll after it can be older than the TTL although it is alive. `VerdictsAreTimely` leaves out a
  node from the tick that finds a cycle running until the node's next answer (`late`); without that exception the
  run `control` violates it.
- `nodes.go:204` says "Every IP/CIDR target must fall in the same node's ranges; a scan spanning two nodes is
  rejected". `targetIP` (`nodes.go:332`) reduces a CIDR, which `validate.go:252` accepts, to one address, and not to its
  network address but to the one it is written with (`10.0.0.5/8` is `10.0.0.5`). A block that spans the ranges of
  two nodes is therefore dispatched, whole, to the node of that address, and to a catch-all when that address is in no range.
  `SelectionIsSound` speaks of written addresses, and of blocks that lie with one node.
- `docs/ARCHITECTURE.md:350` lets scans in flight "resume from Postgres if the backend restarts" (also `:534`); a
  restart fails them (`FailOrphanedScans`), and so does the model.
- A cancelled row can be deleted while its goroutine still archives; the object it writes afterwards is
  recorded nowhere (`store.go:899`).

### Fairness

`BackendFairness`: a goroutine that can take a step takes one (the Go scheduler), a request in flight
ends, a deadline passes, and a stopped process is started again by its supervisor. It does not say that a
request succeeds. `NodeFairness`: a running job ends, because the node kills it at its timeout; the runs
that do not need this do not assume it. Waiting for an idle node is the loop of `ensureTemplateBundle`:
it ends with the node idle or with the run context, so no step of it is enabled in between. Crashes are
not limited; `EventuallyReported` only speaks of behaviours in which they end
(`CrashesEnd`), since a process that dies during every start never gets to its sweep. On the node only the run
goroutines are fair (`Fairness`): the version probe, naabu and nuclei have timeouts, the coverage
reducer a drain timeout.

`MCControlPlane`: the tickers fire, their goroutines go on, time passes (`SchedFairness`, `HealthFairness`).
Strong fairness is assumed of two things the code cannot decide: a schedule that is tried again and again with a
full admission sometimes finds a free slot, since scans end at moments of their own; and a node that can be reached
is not missed by every poll. `MCConfiguration` (`SyncFairness`): the ticker fires, a goroutine that can run
runs, and a loop that waits for the worktree gets it, because probes only try its lock. Faults are bounded
there. No fairness is assumed of administrators, browsers, nodes or sweepers.

## Proofs

Constants are arbitrary: any finite set of scans, nodes, replicas or handlers, any limits, faults and inputs. What
the theorems assume of them is the `ASSUME` of each module, and every run evaluates it. Besides types, finiteness
and that model values such as `NoNode` are no members, these are: `SeedsAreDisjoint` (start-up refuses a
configuration with overlaps), the shape of archives and their modes, and that ages are told apart beyond the TTL of three intervals
(`HealthConstants`: `MaxAge` is larger).
Targets name an address of their block or none (`TargetsNameAddresses`). Three results need a hypothesis of their own: one replica (`SingleReplica`),
`Reliable`, and scans `OneAfterAnother`.

Each safety theorem has the same three facts: the initial states satisfy an inductive invariant, every action
preserves it (a lemma per action), and it implies the property.

`ScanOrchestrationProofs`
- `TypeCorrect`: `Spec => []TypeOK`, one lemma per action. That the counters stay within the stream needs
  `StreamInv`: while the stream is read, the records ingested and skipped so far are those that were read, as
  long as the scan exists, and before that there are none.
- `CancelledStaysCancelled`: an action property from `TypeOK` alone; every write of `state` excludes
  cancelled rows.
- `TreeIsStable`: `TreeMatchesRunningJobs` is inductive with `TypeOK`: only a push changes the tree, and it
  needs the exclusive lock every running job holds shared; only an accepted start makes a job run, and the
  node accepts only the digest it holds.
- `SlotsAreExact`: the count equals the number of goroutines. Needs that a goroutine's position, its owner
  and the process state go together, so that a crash resets both sides.
- `LiveRowsAreDriven`: a queued or running row has a goroutine, or a process that will sweep it, for any number
  of replicas. `DriverInv` lists what announces an end (a cancel signal, a cancelled job or status, a position
  behind the terminal write) and says that the row is then over; a dead goroutine has an over row or a process that is down
  or has not swept yet. The hypothesis `Reliable` excludes exactly the two faults under which it is false: a statement
  that fails for good (`db`), and the expired run context of `orch_stuck_row`.

`ScanOutcomeProofs` assumes one replica (`SingleReplica`): `FailOrphanedScans` fails every live row, so the
start of a second replica would fail scans the first one drives. The inductive invariant relates the row to the
goroutine's position: a row is live only while its goroutine has not passed its terminal write or the process is
starting; between the end of a whole stream and the terminal write the occurrences and the skipped records, counted
locally until `RecordSkipped` and on the row afterwards, are the whole stream; the outbox row is written together with the
state. From it: `MailsStayExact`, `CompleteIsWhole`, `OutcomesStay`, all under every fault.

`ScannerNodeProofs`
- `FilesStayUnderProcess`, `CancelledHasStopped` from `NodeInv`: `UnpublishedIsUnknown` (a request before its
  publication is in no map), `WorkingIsTracked` (a goroutine without a result has its record and directory, so that no
  sweep takes it for an orphan), `RecordsFit` (which records go with which positions), `TreeFits` (a holder of
  the shared lock keeps activations out, and the tree, the recorded digest and the scan's digest agree).
- `NodeSlotsAreExact`: the count is the number of `Holders`, whatever limit each request brought.
- `NodeImplementsContract`: `Init` maps to the contract's `Init`, and one lemma per action shows a contract step or a
  stutter; `NodeInv` supplies that what the contract calls a running job is one under the lock.

`FindingLifecycleProofs`
- `PointersStaySound`, `CoveringStaysSound` from `LifecycleInv`: `ScansFit` (what a scan's state says of its
  evidence), `UnseenIsBlank`, and per row `Pointed` and `Covered`. The hard step is `DeleteScan`, which recomputes
  the rows it `Affected` and leaves the others: the invariant has to show that the others named no deleted scan.
- `EvidenceOnlyAdvances`: every action moves every row `Forward`, except the two deletions.
- `NewsStaysToldOnce` from `NewsInv`: a digest names only findings whose row covers at least that scan (`ToldIsCovered`),
  so a later completion of an older scan does not advance and says nothing.
- `LoopIsClosedForm`: the loop of `computeLifecycleTimeline` counts the `Comebacks`, for every history. The loop is a
  recursive function, defined as the one that satisfies its equation (`Steps`); `Walked` satisfies the equation, so
  there is one, and a least place where it differs from `Walked` cannot exist (`WalkedStep`).
- `HistoryStaysExplained`, `DigestsTellHistory` assume `OneAfterAnother`: one scope and a scan at a time, as in the
  run `evidence`, with cancellations, repeated completions and deletions, and failures besides. With a second scope the
  closed form is not what the upserts compute: the first sighting in a scope makes earlier scans of that scope
  evidence for the repair, which no upsert has counted. `HistoryInv` gives the three pointers of a row and its counter in
  terms of the scans that observed it or proved it absent (`Observers`, `Evidence`, `Covers`), also while a scan is
  in flight; only a row with observations of failed scans is exempt from the counter and the sightings (`Settled`),
  never from the covering pointer. `OneMoreReturn` is the step of the counter.

`EvidenceProofs`
- `ImportsStayWhole`: the wholeness of a scan is followed from the origin's row through the half-read export, the
  file and the upload of each replica (`BundlesInv`).
- `CoverageStaysProven`: `TraceInv` compares the reducer's set with the pairs of the lines it has read, by position in
  the trace; an overflow is final because the pairs only grow.
- `RetentionStaysCareful`: every anchored target has an `Anchor`, its latest scan, that is on nobody's list, since
  a list never contains a latest scan and scans only appear later. The bound after switching off counts what the
  sweepers may still delete without reading the policy again (`Budget`).

`ConfigurationProofs`
- `RegistryStaysSound` rests on `RegInv`: types, `RowsExclude` (no two rows overlap in the sense of the code's
  test, which only looks at network addresses), `EditsFit` (a merged row waiting to be written has a fitting key)
  and `KeyFitsCertificate`. `SharedAddressOverlaps` shows that of two ranges that share an address, the one that
  starts later starts inside the other, so the test is enough.
- `SelectionStaysSound`: with disjoint ranges at most one row serves the address a target is reduced to, so the scan of
  the rows that `nodeForIP` makes finds the one there is, in whatever order; a node a whole block lies with serves that
  address (`LiesWithItsServer`), so no other can be chosen.
- `CustomStays` is an action property of every step; `SwitchesStayQueued` is inductive with the positions of loop and
  switch (`PerReplica`).
- `SelectionStaysInBundle`, `PreviewStaysRight`, `ExclusionsOutlast` from `SetsInv`: `TablesFit` (the foreign keys
  of sets) and `RequestFits` (what a resolution has read by the statement it is at). The preview's closed form is
  shown equal to what the next sync does to each set.
- `ArchivesStayFaithful`: the loop of the import plan is a recursive function, `LoopRuns` shows that it satisfies its
  equation, and what the plan has written after `i` entries is then a statement about `i` (`PlanSound` for any archive,
  `PlanMirrors` for an export of the rows as they are), proved by counting up. The plan holds on until the
  transaction (`ImportFits`, which only speaks of the request, so no other step disturbs it); the transaction checks
  again what may have changed in between (`Writable`, `SetWritable`).

`ControlPlaneProofs`
- `VerdictsStayTimely` needs `StampsAreHonest` (a stamp is not younger than the last moment the node could be
  reached), `ListedOnly` (only a cycle that has its list has nodes to poll), `NewIsUnknown` and `StampsAreFresh`: how old
  the stamp of a node that is not `late` can be after none and after one missed poll, by the units since the last
  tick and by whether the cycle still has to reach the node (`FreshAt`, `Awaiting`). Neither half is inductive
  without that.
- `LoginsStaySound` needs `TokensInOnePlace` (a state token is in the table, with one handler, or spent) and
  `CountsHold` (the handler with the admission lock has counted at least the flows there are).
- `SessionsStaySound` from `SessInv`: only the holder of the subject's lock adds a live session, and the count it
  read is an upper bound until it commits (`SessionCounts`). That evicting the oldest makes room needs that
  `created_at` orders the ids in use (`BornIsAnOrder`, `OldestLeaves`); the ages are kept as the set of older ids
  of each id. What had expired before stays expired (`ExpiredStays`), so what is not counted is not live.
- `FiresStayExact` from `SchedInv`: a tick holds a schedule once (`BatchFits`), the record of a dispatch is missing only
  between its two statements (`ScansAreRecorded`), and a disabled schedule that was served is in no batch any
  more (`QuietIsOver`).
- `OneBucketEach` from `LimiterInv`: whoever stands behind a client in the table has come since it came
  (`LaterAreOthers`), so an eviction of a client means that as many others came as the table has places; what a client
  was let in for is missing in its bucket (`BucketsFit`). `ClientIsCharged` shows that the key of a request is the
  client it came from, whatever header it sent.

`ListFacts` holds what several of these need of numbers and lists: a nonempty set of numbers has a least element
(by well-foundedness of the lengths of intervals, as induction over an operator is not available), and what
removing, appending and moving an element do to the order of a list. `CountingUp` is the induction the loops
need, stated with a set of numbers in place of an operator.

Only model-checked:
- the liveness properties `EventuallyReported`, `GoroutinesEnd`, `CancelReachesNode`, `ScansEnd`, `SchedulesAreKept`,
  `RecordsConverge`, `MirrorSettles`: the prover has no fairness reasoning.

## Not modelled

The reasons are in `PROJECT.json`: text (rendering, parsing, archive encodings, finding exports and queries),
single-statement CRUD (targets, policies, service accounts), external services (OIDC provider, SMTP, S3, git,
nuclei and naabu themselves), node template validation (a stateless call), the web client, and the row locks
inside one PostgreSQL transaction; a deadlock of two deletions is therefore out of reach.

## Plan

Liveness of retention: a backlog larger than the cap is worked off.
