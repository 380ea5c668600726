-------------------------- MODULE FindingLifecycle --------------------------
(***************************************************************************)
(* The finding lifecycle: immutable occurrences (findings), the globally   *)
(* deduplicated rows derived from them (finding_lifecycle), the coverage   *)
(* evidence that may close a finding, the digest a completed scan leaves   *)
(* in the outbox, and the repair a scan deletion performs.                 *)
(*                                                                         *)
(* A scan is its place in the (created_at, id) order.  One transaction of  *)
(* the store is one step: IngestFinding, MarkComplete, ImportScanBundle    *)
(* and DeleteScan each commit as a whole.                                  *)
(***************************************************************************)
EXTENDS Integers, FiniteSets

CONSTANTS
    Scans,      \* places in the (created_at, id) order, positive integers
    Findings,   \* dedup keys
    Targets,    \* saved targets; a scan without one is ad hoc
    Features,   \* what happens besides undisturbed runs, a subset of AllFeatures
    Interrupted \* bound: the scans whose own run may fail, be cancelled or be retried

AllFeatures == {"overlap",    \* a scan is submitted while another one is in flight
                "fail",       \* a run fails, possibly after a partial ingest
                "cancel",     \* a user cancels a run
                "skip",       \* malformed records are skipped
                "retry",      \* MarkComplete commits but its answer is lost
                "delete",     \* scans are deleted, by a user or by retention
                "midrun",     \* and that while another scan is in flight
                "triage",     \* analysts set dispositions
                "import",     \* scan bundles are imported
                "target"}     \* targets are deleted

ASSUME LifecycleConstants ==
    /\ Scans \subseteq Nat \ {0}
    /\ IsFiniteSet(Scans)
    /\ Features \subseteq AllFeatures
    /\ Interrupted \subseteq Scans

Null      == 0
ScanRefs  == Scans \cup {Null}
AdHoc     == "ad hoc"
Scopes    == Targets \cup {AdHoc}
Terminal  == {"complete", "failed", "cancelled"}
States    == {"absent", "running", "deleted"} \cup Terminal
Stages    == {"none", "poll", "ingest", "mark", "done"}
Statuses  == {"none", "new", "changed", "fixed"}

\* The scan-derived columns of a finding_lifecycle row, and whether an analyst
\* disposition (false_positive, or accepted and not expired) mutes it.
Columns == [first : ScanRefs, last : ScanRefs, covering : ScanRefs,
            mitigated : Nat, muted : BOOLEAN]
Blank   == [first |-> Null, last |-> Null, covering |-> Null,
            mitigated |-> 0, muted |-> FALSE]

VARIABLES
    state,     \* scans.state ("running" stands for queued as well)
    target,    \* scans.target_id
    scope,     \* the target id the run's goroutine passes to IngestFinding
    trace,     \* scans.covered_endpoints: findings whose template+endpoint was reached
    skipped,   \* scans.skipped_finding_count > 0
    stage,     \* where the scan's goroutine stands
    occ,       \* findings with an occurrence row of the scan
    link,      \* those whose occurrence row has finding_id set
    rows,      \* findings that have a lifecycle row
    lc,        \* the columns of that row
    digest,    \* the digest payload of a completed scan
    targets,   \* targets that exist
    clock      \* the newest creation date so far

vars == <<state, target, scope, trace, skipped, stage, occ, link, rows, lc,
          digest, targets, clock>>

scanVars == <<target, scope, trace, skipped>>

\* The tables keep their types; in particular times_mitigated, which ingest
\* counts up and the repair recomputes, is never negative.
TypeOK ==
    /\ state \in [Scans -> States]
    /\ target \in [Scans -> Scopes]
    /\ scope \in [Scans -> Scopes]
    /\ trace \in [Scans -> SUBSET Findings]
    /\ skipped \in [Scans -> BOOLEAN]
    /\ stage \in [Scans -> Stages]
    /\ occ \in [Scans -> SUBSET Findings]
    /\ link \in [Scans -> SUBSET Findings]
    /\ rows \subseteq Findings
    /\ lc \in [Findings -> Columns]
    /\ digest \in [Scans -> [Findings -> Statuses]]
    /\ targets \subseteq Targets
    /\ clock \in ScanRefs

Silence == [f \in Findings |-> "none"]

Init ==
    /\ state = [s \in Scans |-> "absent"]
    /\ target = [s \in Scans |-> AdHoc]
    /\ scope = [s \in Scans |-> AdHoc]
    /\ trace = [s \in Scans |-> {}]
    /\ skipped = [s \in Scans |-> FALSE]
    /\ stage = [s \in Scans |-> "none"]
    /\ occ = [s \in Scans |-> {}]
    /\ link = [s \in Scans |-> {}]
    /\ rows = {}
    /\ lc = [f \in Findings |-> Blank]
    /\ digest = [s \in Scans |-> Silence]
    /\ targets = Targets
    /\ clock = Null

-----------------------------------------------------------------------------
(* The evidence rules shared by ingest, completion, import and repair      *)

InFlight(s) == stage[s] \notin {"none", "done"}
Exists(s)   == state[s] \notin {"absent", "deleted"}

\* The findings whose absence scan s can prove: none when records were skipped.
\* (An import the operator does not trust stores no trace.)
Claims(s) == IF skipped[s] THEN {} ELSE trace[s]

\* The scopes that have observed f.
ScopesOf(f) == {target[s] : s \in {x \in Scans : f \in link[x]}}

\* Mutant: last_seen follows the order of ingestion.
UpsertAlways(r, s) ==
    [r EXCEPT !.first = IF r.first = Null \/ s < r.first THEN s ELSE @,
              !.last = s,
              !.mitigated = IF /\ r.covering # Null /\ r.last # r.covering
                               /\ r.last # s
                            THEN @ + 1 ELSE @]

\* The ON CONFLICT clause of ingestFindingOccurrence on the row r of a finding
\* observed by scan s; a fresh row is the upsert of a blank one.
Upsert(r, s) ==
    LET incomingNewer         == r.last = Null \/ r.last < s
        incomingOlder         == r.first = Null \/ s < r.first
        incomingAfterCovering == r.covering = Null \/ r.covering < s
    IN  [r EXCEPT !.first = IF incomingOlder THEN s ELSE @,
                  !.last = IF incomingNewer THEN s ELSE @,
                  !.mitigated = IF /\ incomingNewer /\ incomingAfterCovering
                                   /\ r.covering # Null
                                   /\ r.last # r.covering
                                   /\ r.last # s
                                THEN @ + 1 ELSE @]

\* Mutant: a late completion moves the pointer back.
AdvancesAlways(r, s, inScope) == inScope

\* Mutant: a scan closes findings its target never had.
AdvancesAnyScope(r, s, inScope) == r.covering = Null \/ r.covering < s

\* covering_update: completed scan s becomes the covering scan of a candidate r
\* that was observed in the scope of s, unless a newer scan already covers it.
Advances(r, s, inScope) == inScope /\ (r.covering = Null \/ r.covering < s)

\* digest_rows: what completed scan s announces about a finding it now covers.
Status(f, s) ==
    LET prev == lc[f].covering
    IN  CASE lc[f].first = s -> "new"
          [] lc[f].first # s /\ lc[f].last = s /\ prev # Null /\ f \notin link[prev] -> "changed"
          [] lc[f].first # s /\ lc[f].last # s /\ prev # Null /\ f \in link[prev] -> "fixed"
          [] OTHER -> "none"

-----------------------------------------------------------------------------
(* A run                                                                   *)

\* Submit: the row, its target and its place in the order are fixed.
Create(s, t) ==
    /\ s > clock
    /\ "overlap" \in Features \/ \A x \in Scans : ~ InFlight(x)
    /\ t \in targets \cup {AdHoc}
    /\ clock' = s
    /\ state' = [state EXCEPT ![s] = "running"]
    /\ target' = [target EXCEPT ![s] = t]
    /\ scope' = [scope EXCEPT ![s] = t]
    /\ stage' = [stage EXCEPT ![s] = "poll"]
    /\ UNCHANGED <<trace, skipped, occ, link, rows, lc, digest, targets>>

\* SetScanCoverage: the node's request trace.  A statement that fails is only
\* logged and leaves the column NULL; on a deleted row it changes nothing.
Record(s, pairs) ==
    /\ stage[s] = "poll"
    /\ stage' = [stage EXCEPT ![s] = "ingest"]
    /\ trace' = IF Exists(s) THEN [trace EXCEPT ![s] = pairs] ELSE trace
    /\ UNCHANGED <<state, target, scope, skipped, occ, link, rows, lc, digest,
                   targets, clock>>

\* IngestFinding: one occurrence and its lifecycle row.  The foreign key on
\* (scan_id, target_id) rejects it when the target was deleted meanwhile, and
\* the scan's row must still be there; a cancelled row is no obstacle.
Ingest(s, f) ==
    /\ stage[s] = "ingest" /\ Exists(s)
    /\ scope[s] \in {AdHoc, target[s]}
    /\ occ' = [occ EXCEPT ![s] = @ \cup {f}]
    /\ link' = [link EXCEPT ![s] = @ \cup {f}]
    /\ rows' = rows \cup {f}
    /\ lc' = [lc EXCEPT ![f] = Upsert(@, s)]
    /\ UNCHANGED <<state, scanVars, stage, digest, targets, clock>>

\* The end of the stream: the skipped records are counted on the scan row.
EndIngest(s, malformed) ==
    /\ stage[s] = "ingest"
    /\ malformed => "skip" \in Features
    /\ stage' = [stage EXCEPT ![s] = "mark"]
    /\ skipped' = [skipped EXCEPT ![s] = malformed /\ Exists(s)]
    /\ UNCHANGED <<state, target, scope, trace, occ, link, rows, lc, digest,
                   targets, clock>>

\* The digest insert, ON CONFLICT DO NOTHING.
Digest(s, covered) ==
    IF state[s] = "complete" THEN digest[s]
    ELSE [f \in Findings |-> IF f \in covered /\ ~ lc[f].muted THEN Status(f, s) ELSE "none"]

\* Mutant: skipped records do not matter.
CandidatesOfTrace(s) == rows \cap (trace[s] \cup link[s])

\* candidate_lifecycle: what the trace claims and what the scan observed.
Candidates(s) == rows \cap (Claims(s) \cup link[s])

\* MarkComplete: the state, the covering pointers and the digest change
\* together.  A cancelled or deleted row is left alone; a lost answer makes
\* retryWrite run the statement again (bound: once).
MarkComplete(s) ==
    /\ stage[s] = "mark"
    /\ \/ stage' = [stage EXCEPT ![s] = "done"]
       \/ /\ "retry" \in Features /\ s \in Interrupted
          /\ state[s] = "running"
          /\ UNCHANGED stage
    /\ LET covered == {f \in Candidates(s) : Advances(lc[f], s, target[s] \in ScopesOf(f))}
       IN  IF Exists(s) /\ state[s] # "cancelled"
           THEN /\ state' = [state EXCEPT ![s] = "complete"]
                /\ lc' = [f \in Findings |->
                             IF f \in covered THEN [lc[f] EXCEPT !.covering = s] ELSE lc[f]]
                /\ digest' = [digest EXCEPT ![s] = Digest(s, covered)]
           ELSE UNCHANGED <<state, lc, digest>>
    /\ UNCHANGED <<scanVars, occ, link, rows, targets, clock>>

\* The run fails anywhere before MarkComplete: MarkFailed leaves a terminal row
\* alone, and the occurrences ingested so far stay.
Fail(s) ==
    /\ "fail" \in Features /\ s \in Interrupted
    /\ InFlight(s) /\ state[s] # "complete"
    /\ stage' = [stage EXCEPT ![s] = "done"]
    /\ state' = [state EXCEPT ![s] = IF @ = "running" THEN "failed" ELSE @]
    /\ UNCHANGED <<scanVars, occ, link, rows, lc, digest, targets, clock>>

CancelScan(s) ==
    /\ "cancel" \in Features /\ s \in Interrupted
    /\ state[s] = "running"
    /\ state' = [state EXCEPT ![s] = "cancelled"]
    /\ UNCHANGED <<scanVars, stage, occ, link, rows, lc, digest, targets, clock>>

\* The node stopped before it produced anything to ingest.
StopCancelled(s) ==
    /\ stage[s] = "ingest" /\ state[s] \in {"cancelled", "deleted"}
    /\ stage' = [stage EXCEPT ![s] = "done"]
    /\ UNCHANGED <<state, scanVars, occ, link, rows, lc, digest, targets, clock>>

-----------------------------------------------------------------------------
(* Import                                                                  *)

\* applyScanCoverage: whether an imported complete scan s of scope t becomes the
\* covering scan of f, whose row is r after the bundle's own observations.
ImportCovers(f, r, s, t, claimed, observed) ==
    /\ f \in (rows \cap claimed) \cup observed
    /\ Advances(r, s, f \in observed \/ t \in ScopesOf(f))

\* ImportScanBundle: a scan taken from another instance, with its own place in
\* the order, is ingested and, when complete, covers what it observed; its
\* trace is stored and used only when the operator trusts it.  An import writes
\* no digest, and a scan that was in flight when exported arrives as failed.
Import(s, t, result, pairs, trusted, malformed, observed) ==
    /\ "import" \in Features
    /\ state[s] = "absent"
    /\ t \in targets \cup {AdHoc}
    /\ malformed => "skip" \in Features
    /\ state' = [state EXCEPT ![s] = result]
    /\ target' = [target EXCEPT ![s] = t]
    /\ trace' = [trace EXCEPT ![s] = IF trusted THEN pairs ELSE {}]
    /\ skipped' = [skipped EXCEPT ![s] = malformed]
    /\ occ' = [occ EXCEPT ![s] = observed]
    /\ link' = [link EXCEPT ![s] = observed]
    /\ rows' = rows \cup observed
    /\ LET claimed     == IF trusted /\ ~ malformed THEN pairs ELSE {}
           upserted(f) == IF f \in observed THEN Upsert(lc[f], s) ELSE lc[f]
       IN  lc' = [f \in Findings |->
                     IF result = "complete" /\ ImportCovers(f, upserted(f), s, t, claimed, observed)
                     THEN [upserted(f) EXCEPT !.covering = s] ELSE upserted(f)]
    /\ clock' = IF s > clock THEN s ELSE clock
    /\ UNCHANGED <<scope, stage, digest, targets>>

-----------------------------------------------------------------------------
(* Deletion and repair                                                     *)

First(S) == IF S = {} THEN Null ELSE CHOOSE x \in S : \A y \in S : x <= y
Last(S)  == IF S = {} THEN Null ELSE CHOOSE x \in S : \A y \in S : y <= x

\* The observations that follow a covered absence of a finding seen before.
Comebacks(present, covered) ==
    {s \in present : \E before \in present, gap \in covered \ present :
        /\ before < gap /\ gap < s
        /\ \A p \in present : p < s => p < gap}

\* Mutant: the first and last covering scans are taken for observations.
TimelineOfCovered(present, covered, muted) ==
    [first |-> First(covered), last |-> Last(covered), covering |-> Last(covered),
     mitigated |-> Cardinality(Comebacks(present, covered)), muted |-> muted]

\* computeLifecycleTimeline: what the scans that covered a finding say of it.
Timeline(present, covered, muted) ==
    [first |-> First(present), last |-> Last(present), covering |-> Last(covered),
     mitigated |-> Cardinality(Comebacks(present, covered)), muted |-> muted]

\* The complete scans other than gone that repairLifecycleFindings counts as
\* covering f: in a scope that still has an occurrence of f, and observed or
\* claimed by the trace.
Covering(f, gone) ==
    {s \in Scans \ {gone} :
        /\ state[s] = "complete"
        /\ \E x \in Scans \ {gone} : f \in link[x] /\ target[x] = target[s]
        /\ f \in link[s] \cup Claims(s)}

\* Mutant: only the deleted scan's own findings are repaired.
AffectedObserved(s) == rows \cap link[s]

\* The rows DeleteScan repairs: claimed in scope, observed, or pointing at s.
Affected(s) ==
    {f \in rows :
        \/ f \in Claims(s) /\ target[s] \in ScopesOf(f)
        \/ f \in link[s]
        \/ s \in {lc[f].first, lc[f].last, lc[f].covering}}

\* ON DELETE SET NULL on the three scan columns of a lifecycle row.
Unpoint(r, s) ==
    [r EXCEPT !.first = IF @ = s THEN Null ELSE @,
              !.last = IF @ = s THEN Null ELSE @,
              !.covering = IF @ = s THEN Null ELSE @]

\* DeleteScan: the row, its occurrences and its digest go, and the affected
\* lifecycle rows are recomputed, or dropped when no complete scan observed
\* them, which clears finding_id on the occurrences of other scans.
DeleteScan(s) ==
    /\ "delete" \in Features
    /\ "midrun" \in Features \/ \A x \in Scans : ~ InFlight(x)
    /\ state[s] \in Terminal
    /\ state' = [state EXCEPT ![s] = "deleted"]
    /\ trace' = [trace EXCEPT ![s] = {}]
    /\ skipped' = [skipped EXCEPT ![s] = FALSE]
    /\ target' = [target EXCEPT ![s] = AdHoc]
    /\ occ' = [occ EXCEPT ![s] = {}]
    /\ digest' = [digest EXCEPT ![s] = Silence]
    /\ LET present(f) == {x \in Covering(f, s) : f \in link[x]}
           dropped    == {f \in Affected(s) : present(f) = {}}
       IN  /\ rows' = rows \ dropped
           /\ link' = [x \in Scans |-> IF x = s THEN {} ELSE link[x] \ dropped]
           /\ lc' = [f \in Findings |->
                        IF f \in dropped THEN Blank
                        ELSE IF f \in Affected(s)
                        THEN Timeline(present(f), Covering(f, s), lc[f].muted)
                        ELSE Unpoint(lc[f], s)]
    /\ UNCHANGED <<scope, stage, targets, clock>>

\* DeleteTarget: the scans of the target become ad hoc.
DeleteTarget(t) ==
    /\ "target" \in Features
    /\ t \in targets
    /\ targets' = targets \ {t}
    /\ target' = [s \in Scans |-> IF target[s] = t THEN AdHoc ELSE target[s]]
    /\ UNCHANGED <<state, scope, trace, skipped, stage, occ, link, rows, lc,
                   digest, clock>>

\* SetDisposition, and an accepted risk that expires.
SetDisposition(f) ==
    /\ "triage" \in Features
    /\ f \in rows
    /\ lc' = [lc EXCEPT ![f].muted = ~ @]
    /\ UNCHANGED <<state, scanVars, stage, occ, link, rows, digest, targets, clock>>

-----------------------------------------------------------------------------

Run(s) ==
    \/ \E t \in Scopes : Create(s, t)
    \/ \E pairs \in SUBSET Findings : Record(s, pairs)
    \/ \E f \in Findings : Ingest(s, f)
    \/ \E malformed \in BOOLEAN : EndIngest(s, malformed)
    \/ MarkComplete(s) \/ Fail(s) \/ CancelScan(s) \/ StopCancelled(s)

\* An imported scan is over: a cancelled one counts like a failed one.
ImportAny(s) ==
    \E t \in Scopes, result \in {"complete", "failed"}, pairs, observed \in SUBSET Findings,
       trusted, malformed \in BOOLEAN :
        Import(s, t, result, pairs, trusted, malformed, observed)

Next ==
    \/ \E s \in Scans : Run(s) \/ ImportAny(s) \/ DeleteScan(s)
    \/ \E t \in Targets : DeleteTarget(t)
    \/ \E f \in Findings : SetDisposition(f)

Spec == Init /\ [][Next]_vars

-----------------------------------------------------------------------------
(* What the rows say                                                       *)

\* lcDetectionExpr.
Detection(f) ==
    LET r == lc[f]
    IN  CASE r.covering = Null -> "active"
          [] r.covering # Null /\ r.last # r.covering ->
                IF r.mitigated >= 1 THEN "previously_mitigated" ELSE "mitigated"
          [] r.covering # Null /\ r.last = r.covering /\ r.first = r.covering -> "new"
          [] OTHER -> IF r.mitigated >= 1 THEN "resurfaced" ELSE "active"

Mitigated(f) == f \in rows /\ Detection(f) \in {"mitigated", "previously_mitigated"}

\* The body of computeLifecycleTimeline's loop for a covered scan.
WalkStep(seen, present) ==
    [seen EXCEPT !.was = present, !.ever = @ \/ present,
                 !.times = IF present /\ seen.ever /\ ~ seen.was THEN @ + 1 ELSE @]

\* The loop itself: the number of returns counted over the scans up to n.
TimesMitigated(present, covered) ==
    LET walk[n \in 0 .. Last(Scans)] ==
            IF n = 0 THEN [was |-> FALSE, ever |-> FALSE, times |-> 0]
            ELSE IF n \in covered THEN WalkStep(walk[n - 1], n \in present)
            ELSE walk[n - 1]
    IN  walk[Last(Scans)].times

-----------------------------------------------------------------------------
(* Properties                                                              *)

\* A lifecycle row never outlives its evidence: whatever was deleted, its
\* first- and last-seen scans exist, hold an occurrence of the finding, and are
\* in order ("A finding that still exists always has at least one row").
PointersSound ==
    /\ TypeOK
    /\ \A f \in rows :
          /\ lc[f].first \in Scans /\ f \in link[lc[f].first]
          /\ lc[f].last \in Scans /\ f \in link[lc[f].last]
          /\ lc[f].first <= lc[f].last

\* Closure is evidence-driven: the covering scan of a row is complete, either
\* observed the finding or traced its template and endpoint without skipping a
\* record, and belongs to a scope that has observed the finding.  A partial,
\* cancelled, untrusted or foreign scan never becomes evidence.
CoveringSound ==
    \A f \in rows : lc[f].covering # Null =>
        /\ state[lc[f].covering] = "complete"
        /\ f \in link[lc[f].covering] \cup Claims(lc[f].covering)
        /\ target[lc[f].covering] \in ScopesOf(f)

\* Scans finish out of order, but only a deletion moves a row's pointers back:
\* no slower, older scan and no import makes a row forget newer evidence, an
\* older first sighting or a counted mitigation.
EvidenceAdvances ==
    [][\A f \in rows :
          \/ \E s \in Scans : state[s] # "deleted" /\ state'[s] = "deleted"
          \/ /\ f \in rows'
             /\ lc'[f].first <= lc[f].first
             /\ lc'[f].last >= lc[f].last
             /\ lc'[f].covering >= lc[f].covering
             /\ lc'[f].mitigated >= lc[f].mitigated]_vars

\* The incremental upkeep (upsert at ingest, pointer at completion) and the
\* recomputation after a deletion agree: once no run is in flight, every row
\* whose retained observations are of complete scans is what
\* computeLifecycleTimeline derives from the scans that are left, "so every
\* finding's story stays explainable from what's currently visible".
RowIsTimeline ==
    (\A s \in Scans : ~ InFlight(s)) =>
        \A f \in rows :
            LET present == {s \in Scans : f \in link[s]}
            IN  (\A s \in present : state[s] = "complete") =>
                    lc[f] = Timeline(present, Covering(f, Null), lc[f].muted)

\* The loop of computeLifecycleTimeline counts exactly the comebacks.
LoopCountsComebacks ==
    \A f \in Findings :
        LET covered == Covering(f, Null)
            present == {s \in covered : f \in link[s]}
        IN  TimesMitigated(present, covered) = Cardinality(Comebacks(present, covered))

\* A row is explained by the retained scans, and so is its counter, whether the
\* upsert, the completion or the loop of the repair wrote it.
HistoryExplainsRow == RowIsTimeline /\ LoopCountsComebacks

NoneDeleted == \A s \in Scans : state[s] # "deleted"

\* Without deletions a finding is announced as new at most once, although scans
\* overlap, are retried and are imported out of order.
NewOnce ==
    NoneDeleted => \A f \in Findings :
        Cardinality({s \in Scans : digest[s][f] = "new"}) <= 1

\* Without deletions a fix is announced once: between two digests that report a
\* finding fixed, some scan observed it.
FixedOnce ==
    NoneDeleted => \A f \in Findings, s, later \in Scans :
        /\ s < later /\ digest[s][f] = "fixed" /\ digest[later][f] = "fixed"
        => \E x \in Scans : s <= x /\ x < later /\ f \in occ[x]

\* Overlap, retries and imports do not repeat an announcement.
NewsIsToldOnce == NewOnce /\ FixedOnce

\* The covering scan before s: complete, with evidence about a finding that had
\* been seen by then.
Previous(s, f) ==
    Last({c \in Scans : /\ c < s /\ state[c] = "complete"
                        /\ f \in link[c] \cup Claims(c)
                        /\ \E x \in Scans : x <= c /\ f \in link[x]})

\* The digest a completing run writes tells what happened between the covering
\* scans that are retained, whatever failed runs ingested and whatever was
\* deleted in between: new for the first sighting, changed for a return after a
\* proven absence, fixed for a proven absence after a sighting, nothing else,
\* and nothing at all about a finding an analyst muted.
DigestTellsHistory ==
    [][\A s \in Scans, f \in Findings :
          state[s] # "complete" /\ state'[s] = "complete" =>
          LET prev == Previous(s, f)
              told(what) == digest'[s][f] = what
              open == ~ lc[f].muted
          IN  /\ told("new") <=> /\ open /\ f \in link[s]
                                 /\ \A x \in Scans : f \in link[x] => s <= x
              /\ told("changed") <=> /\ open /\ f \in link[s]
                                     /\ prev # Null /\ f \notin link[prev]
              /\ told("fixed") <=> /\ open /\ f \in Claims(s) \ link[s]
                                   /\ prev # Null /\ f \in link[prev]]_vars

\* "mitigated: absent from the latest scan that proved the exact template
\* reached the exact endpoint", once no run is in flight.
MitigatedMeansAbsent ==
    (\A s \in Scans : ~ InFlight(s)) =>
        \A f \in Findings : Mitigated(f) => f \notin link[lc[f].covering]
=============================================================================
