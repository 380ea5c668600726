---------------------------- MODULE TemplateSync ----------------------------
(***************************************************************************)
(* The mirror of the upstream template repository: the stored source, the  *)
(* sync loop and the source-switch handler of every replica, the run rows, *)
(* and the catalog they write, together with the custom templates.         *)
(*                                                                         *)
(* A template is told apart by its path alone: another path stands for     *)
(* another content.  A source stands for a repository and a ref; upstream  *)
(* publishes the releases of a source one after the other.                 *)
(***************************************************************************)
EXTENDS Integers, Sequences

CONSTANTS
    Replicas,
    Sources,
    Off,           \* the empty repository: upstream sync disabled
    Ids,           \* template ids
    CustomIds,     \* those that custom templates are given
    Releases,      \* per source: its catalogs, each a function from ids to paths
    NoRow,
    MaxSwitches,   \* bound on the source switches
    MaxFaults      \* bound on failing calls and crashes

ASSUME SyncConstants ==
    /\ Off \notin Sources /\ CustomIds \subseteq Ids
    /\ \A s \in Sources : Len(Releases[s]) > 0
    /\ {MaxSwitches, MaxFaults} \subseteq Nat

VARIABLES
    rows,       \* templates: [owner, path, active] per id, or NoRow
    source,     \* app_settings: the stored source
    released,   \* per source: index of the release that a fetch gets
    trigger,    \* per replica: the trigger channel holds a request
    loop,       \* per replica: where its sync loop is
    worktree,   \* per replica: who holds the worktree lock
    switch,     \* per replica: where its handler of a switch is
    orphan,     \* per replica: a run row left at 'running'
    owed,       \* per replica: a switch stored there has not been read since
    switches,
    syncFaults

syncVars == <<rows, source, released, trigger, loop, worktree, switch, orphan,
              owed, switches, syncFaults>>
catalog  == <<rows, source, released>>
bounds   == <<switches, syncFaults>>

AtRest == [at |-> "idle", source |-> Off, snapshot |-> <<>>]
Failed == [AtRest EXCEPT !.at = "fail"]
NoSwitch == [at |-> "idle", next |-> Off]

SyncInit ==
    /\ rows = [t \in Ids |-> NoRow]
    /\ source \in Sources \cup {Off}
    /\ released = [s \in Sources |-> 1]
    /\ trigger = [r \in Replicas |-> FALSE]
    /\ loop = [r \in Replicas |-> AtRest]
    /\ worktree = [r \in Replicas |-> "free"]
    /\ switch = [r \in Replicas |-> NoSwitch]
    /\ orphan = [r \in Replicas |-> "none"]
    /\ owed = [r \in Replicas |-> FALSE]
    /\ switches = 0 /\ syncFaults = 0

Fault == syncFaults < MaxFaults /\ syncFaults' = syncFaults + 1

Goes(r, to) == loop' = [loop EXCEPT ![r] = to]

Owned(t, who) == rows[t] # NoRow /\ rows[t].owner = who

\* What a fetch of s brings now.
Latest(s) == Releases[s][released[s]]

-----------------------------------------------------------------------------
(* The sync loop                                                           *)

\* The process starts, the ticker fires or a request is taken: stale runs are
\* reaped first.
Wake(r) ==
    /\ loop[r].at = "idle"
    /\ Goes(r, [AtRest EXCEPT !.at = "read"])
    /\ trigger' = [trigger EXCEPT ![r] = FALSE]
    /\ orphan' = [q \in Replicas |-> IF orphan[q] = "stale" THEN "none" ELSE orphan[q]]
    /\ UNCHANGED <<catalog, worktree, switch, owed, bounds>>

\* The sync goes on where the reaping fails.
WakeUnreaped(r) ==
    /\ loop[r].at = "idle" /\ Fault
    /\ Goes(r, [AtRest EXCEPT !.at = "read"])
    /\ trigger' = [trigger EXCEPT ![r] = FALSE]
    /\ UNCHANGED <<catalog, worktree, switch, orphan, owed, switches>>

\* GetTemplateSyncSource, and the run row where it is not empty.
ReadSource(r) ==
    /\ loop[r].at = "read"
    /\ owed' = [owed EXCEPT ![r] = FALSE]
    /\ Goes(r, IF source = Off THEN AtRest
               ELSE [at |-> "lock", source |-> source, snapshot |-> <<>>])
    /\ UNCHANGED <<catalog, trigger, worktree, switch, orphan, bounds>>

ReadSourceFails(r) ==
    /\ loop[r].at = "read" /\ Fault
    /\ owed' = [owed EXCEPT ![r] = FALSE]
    /\ Goes(r, AtRest)
    /\ UNCHANGED <<catalog, trigger, worktree, switch, orphan, switches>>

LockWorktree(r) ==
    /\ loop[r].at = "lock" /\ worktree[r] = "free"
    /\ worktree' = [worktree EXCEPT ![r] = "loop"]
    /\ Goes(r, [loop[r] EXCEPT !.at = "fetch"])
    /\ UNCHANGED <<catalog, trigger, switch, orphan, owed, bounds>>

\* Mutant: a ref resolves to the local branch of the first clone.
SnapshotOfFirstClone(r) ==
    /\ loop[r].at = "fetch"
    /\ worktree' = [worktree EXCEPT ![r] = "free"]
    /\ Goes(r, [loop[r] EXCEPT !.at = "plan", !.snapshot = Releases[loop[r].source][1]])
    /\ UNCHANGED <<catalog, trigger, switch, orphan, owed, bounds>>

\* Fetch, checkout and catalog walk of the source that was read.
TemplateSnapshot(r) ==
    /\ loop[r].at = "fetch"
    /\ worktree' = [worktree EXCEPT ![r] = "free"]
    /\ Goes(r, [loop[r] EXCEPT !.at = "plan", !.snapshot = Latest(loop[r].source)])
    /\ UNCHANGED <<catalog, trigger, switch, orphan, owed, bounds>>

\* The repository is unreachable, the ref unknown or the catalog empty; or a
\* statement of the transaction fails and rolls it back.
SyncFails(r) ==
    /\ loop[r].at \in {"fetch", "plan", "apply"} /\ Fault
    /\ worktree' = [worktree EXCEPT ![r] = IF loop[r].at = "fetch" THEN "free" ELSE @]
    /\ Goes(r, Failed)
    /\ UNCHANGED <<catalog, trigger, switch, orphan, owed, switches>>

Shadows(snapshot) == \E t \in DOMAIN snapshot : Owned(t, "custom")

\* ApplyUpstreamTemplates begins: the check for custom templates.
CheckConflict(r) ==
    /\ loop[r].at = "plan"
    /\ Goes(r, IF Shadows(loop[r].snapshot)
                 THEN Failed
                 ELSE [loop[r] EXCEPT !.at = "apply"])
    /\ UNCHANGED <<catalog, trigger, worktree, switch, orphan, owed, bounds>>

\* Mutant: the upsert has no guard on the owner.
UpsertUnguarded(snapshot) ==
    [t \in Ids |->
       IF t \in DOMAIN snapshot
         THEN [owner |-> "upstream", path |-> snapshot[t], active |-> TRUE]
       ELSE IF Owned(t, "upstream") /\ rows[t].active
         THEN [owner |-> "upstream", path |-> t, active |-> FALSE]
       ELSE rows[t]]

\* The upserts, each guarded by the owner, and the tombstones; the path of a
\* tombstone is made from its id.
Upsert(snapshot) ==
    [t \in Ids |->
       IF t \in DOMAIN snapshot /\ ~Owned(t, "custom")
         THEN [owner |-> "upstream", path |-> snapshot[t], active |-> TRUE]
       ELSE IF Owned(t, "upstream") /\ rows[t].active
         THEN [owner |-> "upstream", path |-> t, active |-> FALSE]
       ELSE rows[t]]

\* UNIQUE (source, path), checked at commit.
PathsUnique(R) ==
    \A t, u \in Ids : t # u /\ R[t] # NoRow /\ R[u] # NoRow /\ R[t].owner = R[u].owner
                        => R[t].path # R[u].path

\* The rest of the transaction: the run row is 'success' with it.
ApplyUpstreamTemplates(r) ==
    LET R == Upsert(loop[r].snapshot) IN
    /\ loop[r].at = "apply"
    /\ IF PathsUnique(R)
         THEN rows' = R /\ Goes(r, AtRest)
         ELSE rows' = rows /\ Goes(r, Failed)
    /\ UNCHANGED <<source, released, trigger, worktree, switch, orphan, owed, bounds>>

FailTemplateSync(r) ==
    /\ loop[r].at = "fail"
    /\ Goes(r, AtRest)
    /\ UNCHANGED <<catalog, trigger, worktree, switch, orphan, owed, bounds>>

\* The failure cannot be recorded, as after a timeout: the row stays.
FailIsNotRecorded(r) ==
    /\ loop[r].at = "fail" /\ Fault
    /\ Goes(r, AtRest)
    /\ orphan' = [orphan EXCEPT ![r] = "young"]
    /\ UNCHANGED <<catalog, trigger, worktree, switch, owed, switches>>

\* The process dies; what it had not finished is gone, and Start wakes the loop.
HasRunRow(r) == loop[r].at \in {"lock", "fetch", "plan", "apply", "fail"}

SyncCrash(r) ==
    /\ Fault
    /\ Goes(r, AtRest)
    /\ trigger' = [trigger EXCEPT ![r] = FALSE]
    /\ worktree' = [worktree EXCEPT ![r] = "free"]
    /\ switch' = [switch EXCEPT ![r] = NoSwitch]
    /\ owed' = [owed EXCEPT ![r] = FALSE]
    /\ orphan' = [orphan EXCEPT ![r] = IF HasRunRow(r) THEN "young" ELSE @]
    /\ UNCHANGED <<catalog, switches>>

\* A row outlives syncTimeout.
Age(r) ==
    /\ orphan[r] = "young"
    /\ orphan' = [orphan EXCEPT ![r] = "stale"]
    /\ UNCHANGED <<catalog, trigger, loop, worktree, switch, owed, bounds>>

-----------------------------------------------------------------------------
(* handleUpdateTemplateSyncConfig                                          *)

\* The stored source is read and differs from the candidate.  The probe takes
\* the worktree lock, or the answer is a 503; an empty repository needs none.
BeginSwitch(r, next) ==
    /\ switch[r].at = "idle" /\ next # source /\ switches < MaxSwitches
    /\ next # Off => worktree[r] = "free"
    /\ switch' = [switch EXCEPT ![r] = [at |-> IF next = Off THEN "store" ELSE "probe", next |-> next]]
    /\ worktree' = [worktree EXCEPT ![r] = IF next = Off THEN @ ELSE "probe"]
    /\ switches' = switches + 1
    /\ UNCHANGED <<catalog, trigger, loop, orphan, owed, syncFaults>>

\* The candidate is fetched and walked, and refused where it shadows a custom
\* template.  With the commit of a dry run that still stands it is not walked.
Probe(r, reviewed) ==
    /\ switch[r].at = "probe"
    /\ worktree' = [worktree EXCEPT ![r] = "free"]
    /\ switch' = [switch EXCEPT ![r] = IF ~reviewed /\ Shadows(Latest(@.next)) THEN NoSwitch
                                       ELSE [@ EXCEPT !.at = "store"]]
    /\ UNCHANGED <<catalog, trigger, loop, orphan, owed, bounds>>

\* The candidate cannot be fetched, resolved or stored.
SwitchFails(r) ==
    /\ switch[r].at \in {"probe", "store"}
    /\ worktree' = [worktree EXCEPT ![r] = IF switch[r].at = "probe" THEN "free" ELSE @]
    /\ switch' = [switch EXCEPT ![r] = NoSwitch]
    /\ UNCHANGED <<catalog, trigger, loop, orphan, owed, bounds>>

UpdateTemplateSyncSource(r) ==
    /\ switch[r].at = "store"
    /\ source' = switch[r].next
    /\ owed' = [owed EXCEPT ![r] = switch[r].next # Off]
    /\ switch' = [switch EXCEPT ![r] = IF @.next = Off THEN NoSwitch ELSE [@ EXCEPT !.at = "request"]]
    /\ UNCHANGED <<rows, released, trigger, loop, worktree, orphan, bounds>>

\* Mutant: the channel is unbuffered, and a busy loop does not receive.
RequestSyncUnbuffered(r) ==
    /\ switch[r].at = "request"
    /\ IF loop[r].at = "idle"
         THEN loop' = [loop EXCEPT ![r].at = "read"]
         ELSE UNCHANGED loop
    /\ switch' = [switch EXCEPT ![r] = NoSwitch]
    /\ UNCHANGED <<catalog, trigger, worktree, orphan, owed, bounds>>

\* RequestSync: a request that is already there is enough.
RequestSync(r) ==
    /\ switch[r].at = "request"
    /\ trigger' = [trigger EXCEPT ![r] = TRUE]
    /\ switch' = [switch EXCEPT ![r] = NoSwitch]
    /\ UNCHANGED <<catalog, loop, worktree, orphan, owed, bounds>>

-----------------------------------------------------------------------------
(* Custom templates, and upstream                                          *)

\* The primary key refuses an id that is taken, by whomever.
CreateCustomTemplate(t) ==
    /\ rows[t] = NoRow
    /\ rows' = [rows EXCEPT ![t] = [owner |-> "custom", path |-> t, active |-> TRUE]]
    /\ UNCHANGED <<source, released, trigger, loop, worktree, switch, orphan, owed, bounds>>

DeleteCustomTemplate(t) ==
    /\ Owned(t, "custom")
    /\ rows' = [rows EXCEPT ![t] = NoRow]
    /\ UNCHANGED <<source, released, trigger, loop, worktree, switch, orphan, owed, bounds>>

Publish(s) ==
    /\ released[s] < Len(Releases[s])
    /\ released' = [released EXCEPT ![s] = @ + 1]
    /\ UNCHANGED <<rows, source, trigger, loop, worktree, switch, orphan, owed, bounds>>

LoopStep(r) ==
    \/ ReadSource(r) \/ TemplateSnapshot(r) \/ CheckConflict(r)
    \/ ApplyUpstreamTemplates(r) \/ FailTemplateSync(r)

SwitchStep(r) ==
    (\E reviewed \in BOOLEAN : Probe(r, reviewed)) \/ UpdateTemplateSyncSource(r) \/ RequestSync(r)

SyncNext ==
    \/ \E r \in Replicas :
          \/ Wake(r) \/ WakeUnreaped(r) \/ LoopStep(r) \/ LockWorktree(r) \/ SwitchStep(r)
          \/ ReadSourceFails(r) \/ SyncFails(r) \/ FailIsNotRecorded(r) \/ SyncCrash(r)
          \/ Age(r) \/ SwitchFails(r)
          \/ \E next \in Sources \cup {Off} : BeginSwitch(r, next)
    \/ \E t \in CustomIds : CreateCustomTemplate(t) \/ DeleteCustomTemplate(t)
    \/ \E s \in Sources : Publish(s)

SyncSpec == SyncInit /\ [][SyncNext]_syncVars

-----------------------------------------------------------------------------
(* Properties                                                              *)

\* No sync ever changes a custom template, also not one created between its
\* check and its upsert (ApplyUpstreamTemplates).
CustomIsNeverReplaced ==
    [][\A t \in Ids : Owned(t, "custom") /\ rows'[t] # rows[t] => UNCHANGED loop]_syncVars

\* A switch that was stored is not lost on a loop that is busy or has a request
\* already: it has a run of this replica ahead (RequestSync, #343).
SwitchIsQueued ==
    \A r \in Replicas : owed[r] =>
        trigger[r] \/ switch[r].at = "request" \/ loop[r].at = "read"

Mirrored(s) ==
    \A t \in Ids : IF t \in DOMAIN Latest(s)
                     THEN rows[t] = [owner |-> "upstream", path |-> Latest(s)[t], active |-> TRUE]
                     ELSE rows[t] = NoRow \/ rows[t].owner = "custom" \/ ~rows[t].active

\* Once the source stays and no custom template is in its way, the catalog
\* becomes the catalog of that source and stays it, whatever an old run on
\* another replica applied in between and whatever paths were used before
\* (TemplateSyncer.sync, ApplyUpstreamTemplates).
CatalogFollowsSource ==
    \A s \in Sources :
        <>[](source = s /\ ~Shadows(Latest(s))) => <>[]Mirrored(s)

\* No run row stays 'running' (ReapStaleTemplateSyncRuns).
RunsAreClosed == \A r \in Replicas : []<>(orphan[r] = "none")

\* The mirror and its records settle.
MirrorSettles == CatalogFollowsSource /\ RunsAreClosed
=============================================================================
