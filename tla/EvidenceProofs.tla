--------------------------- MODULE EvidenceProofs ---------------------------
(***************************************************************************)
(* Proofs about the parts that bring the lifecycle of findings its         *)
(* evidence or take it away, each for every value of its constants: scan   *)
(* bundles, endpoint traces and the retention sweepers.                    *)
(***************************************************************************)
EXTENDS Retention, ScanBundles, TraceCoverage, ListFacts

-----------------------------------------------------------------------------
(* Scan bundles                                                            *)

Bundle == [state : {"running", "complete", "failed"}, found : SUBSET Records,
           torn : BOOLEAN, cut : BOOLEAN]
Import == [at : {"check", "insert"}, bundle : Bundle, id : LocalIds]
Local  == [state : {"running", "complete", "failed"}, found : SUBSET Records, torn : BOOLEAN]

BundlesTypeOK ==
    /\ origin \in [state : {"running", "complete", "failed", "gone"}, found : SUBSET Records]
    /\ export \in [at : {"idle", "findings"}, state : {"none", "running", "complete", "failed"},
                   torn : BOOLEAN]
    /\ bundles \subseteq Bundle
    /\ import \in [Servers -> Import \cup {NoImport}]
    /\ local \in [LocalIds -> Local \cup {NoLocal}]

\* A file that says complete has all findings, or was read around a deletion.
Whole(b) == b.state = "complete" /\ ~b.torn => b.found = Records

OriginWhole == origin.state = "complete" => origin.found = Records

\* A row read as complete is still there for the second read.
ExportWhole ==
    export.at = "findings" =>
        /\ export.state # "none"
        /\ export.state = "complete" /\ ~export.torn => origin.state = "complete"

FilesWhole == \A b \in bundles : Whole(b)

UploadsWhole == \A v \in Servers : import[v] # NoImport => Whole(import[v].bundle)

BundlesInv ==
    /\ BundlesTypeOK /\ OriginWhole /\ ExportWhole /\ FilesWhole /\ UploadsWhole
    /\ ImportedCompleteIsWhole

LEMMA BundlesInitInv == BundlesInit => BundlesInv
  BY DEF BundlesInit, BundlesInv, BundlesTypeOK, OriginWhole, ExportWhole, FilesWhole,
         UploadsWhole, ImportedCompleteIsWhole, NotExporting

\* The exporting side: the scan, and the two reads of it.
LEMMA ExportingKeepsWhole ==
    ASSUME BundlesInv,
           \/ \E f \in Records : IngestRecord(f)
           \/ \E result \in {"complete", "failed"} : EndOrigin(result)
           \/ DeleteOrigin \/ ExportRow
    PROVE  BundlesInv'
  <1>. USE DEF BundlesInv
  <1>1. ASSUME NEW f \in Records, IngestRecord(f) PROVE BundlesInv'
    BY <1>1 DEF IngestRecord, BundlesTypeOK, OriginWhole, ExportWhole, FilesWhole,
                UploadsWhole, ImportedCompleteIsWhole
  <1>2. ASSUME NEW result \in {"complete", "failed"}, EndOrigin(result) PROVE BundlesInv'
    BY <1>2 DEF EndOrigin, BundlesTypeOK, OriginWhole, ExportWhole, FilesWhole,
                UploadsWhole, ImportedCompleteIsWhole
  <1>3. ASSUME DeleteOrigin PROVE BundlesInv'
    BY <1>3 DEF DeleteOrigin, BundlesTypeOK, OriginWhole, ExportWhole, FilesWhole,
                UploadsWhole, ImportedCompleteIsWhole
  <1>4. ASSUME ExportRow PROVE BundlesInv'
    BY <1>4 DEF ExportRow, BundlesTypeOK, OriginWhole, ExportWhole, FilesWhole,
                UploadsWhole, ImportedCompleteIsWhole
  <1>. QED
    BY <1>1, <1>2, <1>3, <1>4

\* The second read takes the findings as they are by now.
LEMMA DownloadIsWhole ==
    ASSUME BundlesInv, NEW cut \in BOOLEAN, ExportFindings(cut)
    PROVE  BundlesInv'
  <1>. DEFINE b == [state |-> export.state, found |-> origin.found, torn |-> export.torn,
                    cut |-> cut]
  <1>1. b \in Bundle
    BY DEF ExportFindings, BundlesInv, BundlesTypeOK, ExportWhole, Bundle
  <1>2. Whole(b)
    BY DEF ExportFindings, BundlesInv, ExportWhole, OriginWhole, Whole
  <1>3. bundles' = bundles \cup {b} /\ export' = NotExporting
        /\ UNCHANGED <<origin, import, local>>
    BY DEF ExportFindings
  <1>. HIDE DEF b
  <1>4. BundlesTypeOK' /\ FilesWhole'
    BY <1>1, <1>2, <1>3 DEF BundlesInv, BundlesTypeOK, FilesWhole, NotExporting
  <1>. QED
    BY <1>3, <1>4 DEF BundlesInv, OriginWhole, ExportWhole, UploadsWhole,
                      ImportedCompleteIsWhole, NotExporting

\* The importing side: a file goes through a replica's slot into the rows.
LEMMA ImportingKeepsWhole ==
    ASSUME BundlesInv, NEW v \in Servers,
           \/ \E b \in bundles, id \in LocalIds : BeginImport(v, b, id)
           \/ CheckConflict(v) \/ ImportScanBundle(v) \/ ImportRefused(v)
    PROVE  BundlesInv'
  <1>1. ASSUME NEW b \in bundles, NEW id \in LocalIds, BeginImport(v, b, id) PROVE BundlesInv'
    <2>1. [at |-> "check", bundle |-> b, id |-> id] \in Import
      BY DEF BundlesInv, BundlesTypeOK, Import
    <2>. QED
      BY <1>1, <2>1 DEF BeginImport, BundlesInv, BundlesTypeOK, OriginWhole, ExportWhole,
                        FilesWhole, UploadsWhole, ImportedCompleteIsWhole
  <1>2. ASSUME CheckConflict(v) PROVE BundlesInv'
    <2>1. import[v] \in Import
      BY <1>2 DEF CheckConflict, BundlesInv, BundlesTypeOK
    <2>2. [import[v] EXCEPT !.at = "insert"] \in Import
          /\ [import[v] EXCEPT !.at = "insert"].bundle = import[v].bundle
      BY <2>1 DEF Import
    <2>. QED
      BY <1>2, <2>2 DEF CheckConflict, BundlesInv, BundlesTypeOK, OriginWhole, ExportWhole,
                        FilesWhole, UploadsWhole, ImportedCompleteIsWhole
  <1>3. ASSUME ImportScanBundle(v) PROVE BundlesInv'
    <2>. DEFINE b == import[v].bundle
                row == [state |-> ImportedState(b), found |-> b.found, torn |-> b.torn]
    <2>1. import[v] \in Import /\ b \in Bundle /\ import[v].id \in LocalIds /\ Whole(b)
      BY <1>3 DEF ImportScanBundle, BundlesInv, BundlesTypeOK, UploadsWhole, Import
    <2>2. row \in Local /\ row.state \in {"complete", "failed"}
          /\ (row.state = "complete" /\ ~row.torn => row.found = Records)
      BY <2>1 DEF Bundle, Local, ImportedState, Whole
    <2>3. local' = [local EXCEPT ![import[v].id] = row]
          /\ import' = [import EXCEPT ![v] = NoImport] /\ UNCHANGED <<origin, export, bundles>>
      BY <1>3 DEF ImportScanBundle
    <2>. HIDE DEF b, row
    <2>. QED
      BY <2>1, <2>2, <2>3 DEF BundlesInv, BundlesTypeOK, OriginWhole, ExportWhole,
                              FilesWhole, UploadsWhole, ImportedCompleteIsWhole
  <1>4. ASSUME ImportRefused(v) PROVE BundlesInv'
    BY <1>4 DEF ImportRefused, BundlesInv, BundlesTypeOK, OriginWhole, ExportWhole,
                FilesWhole, UploadsWhole, ImportedCompleteIsWhole
  <1>. QED
    BY <1>1, <1>2, <1>3, <1>4

LEMMA BundlesStepInv == BundlesInv /\ [BundlesNext]_bundleVars => BundlesInv'
  <1>. SUFFICES ASSUME BundlesInv, [BundlesNext]_bundleVars PROVE BundlesInv'
    OBVIOUS
  <1>1. ASSUME NEW i \in LocalIds, DeleteLocal(i) PROVE BundlesInv'
    BY <1>1 DEF DeleteLocal, BundlesInv, BundlesTypeOK, OriginWhole, ExportWhole,
                FilesWhole, UploadsWhole, ImportedCompleteIsWhole
  <1>2. CASE UNCHANGED bundleVars
    BY <1>2 DEF bundleVars, BundlesInv, BundlesTypeOK, OriginWhole, ExportWhole,
                FilesWhole, UploadsWhole, ImportedCompleteIsWhole
  <1>. QED
    BY <1>1, <1>2, ExportingKeepsWhole, DownloadIsWhole, ImportingKeepsWhole DEF BundlesNext

\* An import never turns part of a scan into evidence of absence, for any number
\* of findings, replicas and ids: an imported scan that counts as complete has
\* every finding of its origin, unless the origin was deleted between the two
\* reads of the export (ExportScanBundle, ImportScanBundle).
THEOREM ImportsStayWhole == BundlesSpec => []ImportedCompleteIsWhole
  <1>1. BundlesInv => ImportedCompleteIsWhole
    BY DEF BundlesInv
  <1>. QED
    BY <1>1, BundlesInitInv, BundlesStepInv, PTL DEF BundlesSpec

-----------------------------------------------------------------------------
(* Endpoint traces                                                         *)

Proves(l) == Succeeds(l) /\ Mapped(l)

\* The pairs that the first lines prove.
Pairs(k) == {PairOf(written[i]) : i \in {j \in 1..k : Proves(written[j])}}

TraceTypeOK ==
    /\ nuclei \in {"running", "exited", "killed"}
    /\ written \in Seq(Lines) /\ read \in 0..Len(written)
    /\ reducer \in {"reading", "eof", "broken", "closed"}
    /\ published \in BOOLEAN

\* What was read so far is all in seen, or it was too much.
SeenIsExact ==
    /\ IsFiniteSet(Pairs(read))
    /\ "overflow" \notin tally => seen = Pairs(read) /\ Cardinality(Pairs(read)) <= MaxPairs
    /\ "overflow" \in tally => Cardinality(Pairs(read)) > MaxPairs

\* A pair comes from a record that was counted in full.
TallyExplains == Pairs(read) # {} => {"record", "decoded", "status"} \subseteq tally

EofIsTheEnd == reducer = "eof" => read = Len(written) /\ nuclei # "running"

Published ==
    /\ published => nuclei = "exited" /\ reducer # "reading"
    /\ coverage = IF published /\ reducer = "eof" /\ Cardinality(Pairs(read)) <= MaxPairs
                  THEN Pairs(read) ELSE {}

TraceInv == TraceTypeOK /\ SeenIsExact /\ TallyExplains /\ EofIsTheEnd /\ Published

LEMMA ProvenByPosition ==
    ASSUME TraceTypeOK
    PROVE  Proven = Pairs(Len(written))
  <1>1. Range(written) = {written[i] : i \in 1..Len(written)}
    BY DEF TraceTypeOK, Range
  <1>. QED
    BY <1>1 DEF Proven, Pairs, Proves

\* One more line adds its pair, if it proves one.
LEMMA NextPair ==
    ASSUME NEW k \in Nat
    PROVE  Pairs(k + 1) = Pairs(k) \cup (IF Proves(written[k + 1]) THEN {PairOf(written[k + 1])} ELSE {})
  <1>1. 1..(k + 1) = (1..k) \cup {k + 1}
    OBVIOUS
  <1>. QED
    BY <1>1 DEF Pairs

LEMMA TraceInitInv == TraceInit => TraceInv
  <1>. SUFFICES ASSUME TraceInit PROVE TraceInv
    OBVIOUS
  <1>1. Pairs(0) = {}
    BY DEF Pairs
  <1>2. Pairs(read) = {} /\ IsFiniteSet({}) /\ Cardinality({}) = 0
    BY <1>1, FS_EmptySet DEF TraceInit
  <1>3. MaxPairs \in Nat
    BY TraceConstants
  <1>4. written \in Seq(Lines) /\ Len(written) = 0
    BY DEF TraceInit
  <1>5. TraceTypeOK
    <2>1. read \in 0..Len(written)
      BY <1>4 DEF TraceInit
    <2>. QED
      BY <1>4, <2>1 DEF TraceInit, TraceTypeOK
  <1>6. SeenIsExact
    <2>1. tally = {} /\ seen = {}
      BY DEF TraceInit
    <2>. QED
      BY <1>2, <1>3, <2>1 DEF SeenIsExact
  <1>. QED
    BY <1>2, <1>5, <1>6 DEF TraceInit, TraceInv, TallyExplains, EofIsTheEnd, Published

\* A line that proves a pair counts as a record, decoded, with a status; no line
\* counts as too many.
LEMMA CountsOfLine ==
    ASSUME NEW l
    PROVE  /\ "overflow" \notin Counts(l)
           /\ Proves(l) => {"record", "decoded", "status"} \subseteq Counts(l)
  BY DEF Counts, Proves, Succeeds

\* The reducer takes a line.
LEMMA ProcessLineKeeps ==
    ASSUME TraceInv, ProcessLine
    PROVE  TraceInv'
  <1>. DEFINE l == written[read + 1]
              P == Pairs(read)
              Q == Pairs(read + 1)
  <1>0. MaxPairs \in Nat
    BY TraceConstants
  <1>1. read \in Nat /\ read + 1 \in 0..Len(written) /\ MaxPairs \in Nat
    <2>1. Len(written) \in Nat /\ read \in 0..Len(written) /\ read < Len(written)
      BY DEF TraceInv, TraceTypeOK, ProcessLine
    <2>. QED
      BY <1>0, <2>1
  <1>2. Q = P \cup (IF Proves(l) THEN {PairOf(l)} ELSE {})
    BY <1>1, NextPair
  <1>3. IsFiniteSet(P) /\ Cardinality(P) \in Nat
    BY FS_CardinalityType DEF TraceInv, SeenIsExact
  <1>4. IsFiniteSet(Q) /\ Cardinality(Q) \in Nat /\ Cardinality(P) <= Cardinality(Q)
    <2>1. IsFiniteSet(P \cup {PairOf(l)})
          /\ Cardinality(P \cup {PairOf(l)}) \in {Cardinality(P), Cardinality(P) + 1}
      BY <1>3, FS_AddElement
    <2>. QED
      BY <1>2, <1>3, <2>1
  <1>5. Pairs(read)' = Q
    BY DEF ProcessLine, Pairs
  <1>6. /\ read' = read + 1 /\ seen' = Grown(l)
        /\ tally' = tally \cup Counts(l) \cup (IF Overflows(l) THEN {"overflow"} ELSE {})
        /\ reducer = "reading" /\ UNCHANGED <<nuclei, written, reducer, coverage, published>>
    BY DEF ProcessLine
  <1>7. TraceTypeOK'
    BY <1>1, <1>6 DEF TraceInv, TraceTypeOK
  <1>8. "overflow" \in tally' <=> "overflow" \in tally \/ Overflows(l)
    BY <1>6, CountsOfLine
  <1>9. SeenIsExact'
    <2>. HIDE DEF l, P, Q
    <2>0. /\ "overflow" \notin tally => seen = P /\ Cardinality(P) <= MaxPairs
          /\ "overflow" \in tally => Cardinality(P) > MaxPairs
      BY DEF TraceInv, SeenIsExact, P
    <2>1. CASE "overflow" \in tally
      BY <1>1, <1>3, <1>4, <1>5, <1>8, <2>0, <2>1 DEF SeenIsExact
    <2>2. CASE "overflow" \notin tally /\ ~Proves(l)
      <3>1. ~Overflows(l) /\ Grown(l) = seen /\ Q = P
        BY <1>2, <2>2 DEF Overflows, Grown, Proves
      <3>. QED
        BY <1>3, <1>5, <1>6, <1>8, <2>0, <2>2, <3>1 DEF SeenIsExact
    <2>3. CASE "overflow" \notin tally /\ Proves(l)
      <3>1. Q = seen \cup {PairOf(l)}
        BY <1>2, <2>0, <2>3
      <3>2. Overflows(l) <=> Cardinality(Q) > MaxPairs
        BY <2>3, <3>1 DEF Overflows, Proves
      <3>3. ~Overflows(l) => Grown(l) = Q
        BY <2>3, <3>1, <3>2 DEF Grown, Proves
      <3>. QED
        BY <1>1, <1>4, <1>5, <1>6, <1>8, <2>3, <3>2, <3>3 DEF SeenIsExact
    <2>. QED
      BY <2>1, <2>2, <2>3
  <1>10. TallyExplains'
    <2>. HIDE DEF l, P, Q
    <2>1. P # {} => {"record", "decoded", "status"} \subseteq tally
      BY DEF TraceInv, TallyExplains, P
    <2>2. Q # {} => P # {} \/ Proves(l)
      BY <1>2
    <2>3. Q # {} => {"record", "decoded", "status"} \subseteq tally'
      BY <1>6, <2>1, <2>2, CountsOfLine
    <2>. QED
      BY <1>5, <2>3 DEF TallyExplains
  <1>11. EofIsTheEnd' /\ Published'
    BY <1>6 DEF TraceInv, EofIsTheEnd, Published
  <1>. QED
    BY <1>7, <1>9, <1>10, <1>11 DEF TraceInv

LEMMA TraceStepInv == TraceInv /\ [TraceNext]_traceVars => TraceInv'
  <1>. SUFFICES ASSUME TraceInv, [TraceNext]_traceVars PROVE TraceInv'
    OBVIOUS
  <1>1. ASSUME UNCHANGED <<written, read>> PROVE Pairs(read)' = Pairs(read)
    BY <1>1 DEF Pairs
  <1>2. ASSUME NEW l \in Lines, WriteLine(l) PROVE TraceInv'
    <2>1. /\ written' \in Seq(Lines) /\ Len(written') = Len(written) + 1
          /\ \A i \in 1..read : written'[i] = written[i]
          /\ read \in 0..Len(written')
      BY <1>2 DEF WriteLine, TraceInv, TraceTypeOK
    <2>2. Pairs(read)' = Pairs(read)
      BY <1>2, <2>1 DEF Pairs, WriteLine
    <2>. QED
      BY <1>2, <2>1, <2>2 DEF WriteLine, TraceInv, TraceTypeOK, SeenIsExact, TallyExplains,
                              EofIsTheEnd, Published
  <1>3. CASE \/ NucleiExits \/ KillScan \/ ReachEOF \/ ReadFails \/ DrainTimeout
             \/ UNCHANGED traceVars
    <2>1. UNCHANGED <<written, read, seen, tally>> /\ Pairs(read)' = Pairs(read)
      BY <1>1, <1>3 DEF NucleiExits, KillScan, ReachEOF, ReadFails, DrainTimeout, traceVars
    <2>2. SeenIsExact' /\ TallyExplains'
      BY <2>1 DEF TraceInv, SeenIsExact, TallyExplains
    <2>3. TraceTypeOK' /\ EofIsTheEnd'
      BY <1>3, <2>1 DEF NucleiExits, KillScan, ReachEOF, ReadFails, DrainTimeout, traceVars,
                        TraceInv, TraceTypeOK, EofIsTheEnd
    <2>4. Published'
      BY <1>3, <2>1 DEF NucleiExits, KillScan, ReachEOF, ReadFails, DrainTimeout, traceVars,
                        TraceInv, TraceTypeOK, Published
    <2>. QED
      BY <2>2, <2>3, <2>4 DEF TraceInv
  <1>4. CASE SetCoverage
    <2>1. MaxPairs \in Nat /\ Cardinality(Pairs(read)) \in Nat
      BY TraceConstants, FS_CardinalityType DEF TraceInv, SeenIsExact
    <2>2. Reduced = IF reducer = "eof" /\ Cardinality(Pairs(read)) <= MaxPairs
                    THEN Pairs(read) ELSE {}
      BY <1>4, <2>1 DEF SetCoverage, Reduced, TraceInv, SeenIsExact, TallyExplains
    <2>3. Pairs(read)' = Pairs(read)
      BY <1>1, <1>4 DEF SetCoverage
    <2>. QED
      BY <1>4, <2>2, <2>3 DEF SetCoverage, TraceInv, TraceTypeOK, SeenIsExact, TallyExplains,
                              EofIsTheEnd, Published
  <1>. QED
    BY <1>2, <1>3, <1>4, ProcessLineKeeps DEF TraceNext

\* The coverage a node publishes is all that its trace proves or nothing, for any
\* trace, manifest and limit: the reducer may be overtaken by nuclei, by the
\* drain timeout and by a cancellation at every line (coveredEndpointsFromTrace).
THEOREM CoverageStaysProven == TraceSpec => []CoverageIsProven
  <1>1. TraceInv => CoverageIsProven
    <2>. SUFFICES ASSUME TraceInv PROVE CoverageIsProven
      OBVIOUS
    <2>1. reducer = "eof" => Proven = Pairs(read)
      BY ProvenByPosition DEF TraceInv, EofIsTheEnd
    <2>. QED
      BY <2>1 DEF TraceInv, Published, CoverageIsProven
  <1>. QED
    BY <1>1, TraceInitInv, TraceStepInv, PTL DEF TraceSpec

-----------------------------------------------------------------------------
(* Retention                                                               *)

KeptScan == [target : SavedTargets \cup {Loose}, ended : BOOLEAN]
Sweep == [at : {"idle", "list", "delete"}, cutoff : Int, adhoc : BOOLEAN, ids : SUBSET Dates]

RetentionTypeOK ==
    /\ kept \in [Dates -> KeptScan \cup {NoScan}]
    /\ policy \in Policy /\ today \in 0..LastDay
    /\ sweep \in [Sweepers -> Sweep]
    /\ anchored \subseteq SavedTargets /\ late \in Nat

\* Nothing is from tomorrow.
Dated ==
    /\ \A d \in Dates : There(d) => d <= today
    /\ \A r \in Sweepers : \A d \in sweep[r].ids : d <= today

\* A sweeper has a list, and a short one, exactly while it deletes.
ListsFit ==
    \A r \in Sweepers : /\ sweep[r].ids # {} <=> sweep[r].at = "delete"
                        /\ Cardinality(sweep[r].ids) <= SweepCap

\* d is the latest scan of the target and on nobody's list.
Anchor(t, d) ==
    /\ d \in OfTarget(t) /\ \A e \in OfTarget(t) : e <= d
    /\ \A r \in Sweepers : d \notin sweep[r].ids

Anchors == \A t \in anchored : \E d \in Dates : Anchor(t, d)

\* What a sweeper may still delete without looking at the policy again.
Pot(r) ==
    IF sweep[r].at = "list" THEN SweepCap
    ELSE IF sweep[r].at = "delete" THEN Cardinality(sweep[r].ids) ELSE 0

Budget == {p \in (1..SweepCap) \X Sweepers : p[1] <= Pot(p[2])}

LateFits ==
    /\ RetentionActive(policy) => late = 0
    /\ late + Cardinality(Budget) <= SweepCap * Cardinality(Sweepers)

RetentionInv == RetentionTypeOK /\ Dated /\ ListsFit /\ Anchors /\ LateFits

LEMMA RetentionNumbers ==
    /\ LastDay \in Nat \ {0} /\ SweepCap \in Nat \ {0} /\ MaxDays \in Nat \ {0}
    /\ IsFiniteSet(Sweepers) /\ IsFiniteSet(Dates) /\ Dates \subseteq Nat
  BY RetentionConstants, FS_Interval DEF Dates

LEMMA ScanIsThere == \A k \in KeptScan : k # NoScan
  BY RetentionConstants DEF KeptScan

-----------------------------------------------------------------------------
(* The budget                                                              *)

LEMMA WholeBudget ==
    /\ IsFiniteSet((1..SweepCap) \X Sweepers)
    /\ Cardinality((1..SweepCap) \X Sweepers) = SweepCap * Cardinality(Sweepers)
  <1>1. IsFiniteSet(1..SweepCap) /\ Cardinality(1..SweepCap) = SweepCap
    BY RetentionNumbers, FS_Interval
  <1>. QED
    BY <1>1, RetentionNumbers, FS_Product

LEMMA BudgetFits ==
    ASSUME NEW B \in SUBSET ((1..SweepCap) \X Sweepers)
    PROVE  /\ IsFiniteSet(B) /\ Cardinality(B) \in Nat
           /\ Cardinality(B) <= SweepCap * Cardinality(Sweepers)
  BY WholeBudget, FS_Subset, FS_CardinalityType

\* Nothing was swept since retention was switched off, or is on.
LEMMA FreshLate ==
    ASSUME late' = 0
    PROVE  LateFits'
  <1>1. Budget' \in SUBSET ((1..SweepCap) \X Sweepers)
    BY DEF Budget
  <1>2. Cardinality(Budget') <= SweepCap * Cardinality(Sweepers) /\ Cardinality(Budget') \in Nat
    BY <1>1, BudgetFits
  <1>. QED
    BY <1>2 DEF LateFits

\* No sweeper may do more than before.
LEMMA ShrinkingBudget ==
    ASSUME RetentionInv, UNCHANGED <<policy, late>>, \A r \in Sweepers : Pot(r)' <= Pot(r),
           RetentionTypeOK'
    PROVE  LateFits'
  <1>1. ASSUME NEW r \in Sweepers PROVE Pot(r) \in Nat /\ Pot(r)' \in Nat
    <2>1. sweep[r].ids \in SUBSET Dates /\ sweep'[r].ids \in SUBSET Dates
      BY DEF RetentionInv, RetentionTypeOK, Sweep
    <2>2. Cardinality(sweep[r].ids) \in Nat /\ Cardinality(sweep'[r].ids) \in Nat
      BY <2>1, RetentionNumbers, FS_Subset, FS_CardinalityType
    <2>. QED
      BY <2>2, RetentionNumbers DEF Pot
  <1>2. Budget' \subseteq Budget
    <2>. SUFFICES ASSUME NEW k \in 1..SweepCap, NEW r \in Sweepers, k <= Pot(r)' PROVE k <= Pot(r)
      BY DEF Budget
    <2>. QED
      BY <1>1, RetentionNumbers
  <1>3. Budget \in SUBSET ((1..SweepCap) \X Sweepers)
    BY DEF Budget
  <1>4. /\ Cardinality(Budget) \in Nat /\ Cardinality(Budget') \in Nat
        /\ Cardinality(Budget') <= Cardinality(Budget)
    BY <1>2, <1>3, BudgetFits, FS_Subset, FS_CardinalityType
  <1>5. SweepCap * Cardinality(Sweepers) \in Nat
    BY WholeBudget, FS_CardinalityType
  <1>. QED
    BY <1>4, <1>5 DEF LateFits, RetentionInv, RetentionTypeOK

\* One scan swept is one less to sweep.
LEMMA SpentBudget ==
    ASSUME RetentionInv, NEW r \in Sweepers, sweep[r].at = "delete",
           NEW d \in sweep[r].ids, sweep' = [sweep EXCEPT ![r] = Rest(r, d)],
           policy' = policy, ~RetentionActive(policy), late' = late + 1
    PROVE  LateFits'
  <1>. DEFINE n == Cardinality(sweep[r].ids)
  <1>1. IsFiniteSet(sweep[r].ids) /\ n \in Nat /\ n <= SweepCap /\ sweep[r] \in Sweep
    <2>1. sweep[r].ids \in SUBSET Dates /\ sweep[r] \in Sweep
      BY DEF RetentionInv, RetentionTypeOK, Sweep
    <2>. QED
      BY <2>1, RetentionNumbers, FS_Subset, FS_CardinalityType DEF RetentionInv, ListsFit
  <1>2. Cardinality(sweep[r].ids \ {d}) = n - 1
    BY <1>1, FS_RemoveElement
  <1>3. n # 0
    <2>1. Cardinality({d}) = 1 /\ {d} \subseteq sweep[r].ids
      BY FS_Singleton
    <2>2. Cardinality({d}) <= n
      BY <1>1, <2>1, FS_Subset
    <2>. QED
      BY <2>1, <2>2
  <1>4. Pot(r) = n /\ Pot(r)' = n - 1
    <2>1. CASE sweep[r].ids = {d}
      <3>1. n = 1
        BY <2>1, FS_Singleton
      <3>2. sweep'[r] = Resting
        BY <2>1 DEF Rest, RetentionInv, RetentionTypeOK
      <3>. QED
        BY <3>1, <3>2 DEF Pot, Resting
    <2>2. CASE sweep[r].ids # {d}
      <3>1. sweep'[r].at = "delete" /\ sweep'[r].ids = sweep[r].ids \ {d}
        BY <1>1, <2>2 DEF Rest, RetentionInv, RetentionTypeOK, Sweep
      <3>. QED
        BY <1>2, <3>1 DEF Pot
    <2>. QED
      BY <2>1, <2>2
  <1>5. \A q \in Sweepers : q # r => Pot(q)' = Pot(q)
    BY DEF Pot, RetentionInv, RetentionTypeOK
  <1>. HIDE DEF n
  <1>6. Budget' = Budget \ {<<n, r>>} /\ <<n, r>> \in Budget
    <2>1. <<n, r>> \in Budget
      BY <1>1, <1>3, <1>4, RetentionNumbers DEF Budget
    <2>2. ASSUME NEW k \in 1..SweepCap, NEW q \in Sweepers
          PROVE  k <= Pot(q)' <=> k <= Pot(q) /\ <<k, q>> # <<n, r>>
      <3>1. CASE q = r
        BY <1>1, <1>4, <3>1, RetentionNumbers
      <3>2. CASE q # r
        BY <1>5, <3>2
      <3>. QED
        BY <3>1, <3>2
    <2>. QED
      BY <2>1, <2>2 DEF Budget
  <1>7. IsFiniteSet(Budget) /\ Cardinality(Budget) \in Nat
    <2>1. Budget \in SUBSET ((1..SweepCap) \X Sweepers)
      BY DEF Budget
    <2>. QED
      BY <2>1, BudgetFits
  <1>8. Cardinality(Budget') = Cardinality(Budget) - 1
    BY <1>6, <1>7, FS_RemoveElement
  <1>9. SweepCap * Cardinality(Sweepers) \in Nat
    BY WholeBudget, FS_CardinalityType
  <1>. QED
    BY <1>7, <1>8, <1>9 DEF LateFits, RetentionInv, RetentionTypeOK

-----------------------------------------------------------------------------
(* Lists                                                                   *)

\* The list of one tick is no longer than the cap: its last entry has fewer than
\* that many before it.
LEMMA OldestFits ==
    ASSUME NEW due \in SUBSET Dates
    PROVE  Oldest(due) \subseteq due /\ Cardinality(Oldest(due)) <= SweepCap
  <1>. DEFINE O == Oldest(due)
  <1>1. O \subseteq due /\ O \subseteq 1..LastDay /\ IsFiniteSet(due) /\ due \subseteq Nat
    BY RetentionNumbers, FS_Subset DEF Oldest, Dates
  <1>2. CASE O = {}
    BY <1>1, <1>2, FS_EmptySet, RetentionNumbers
  <1>3. CASE O # {}
    <2>1. PICK m \in O : \A e \in O : e <= m
      BY <1>1, <1>3, RetentionNumbers, GreatestNumber
    <2>. DEFINE before == {e \in due : e < m}
    <2>2. IsFiniteSet(before) /\ Cardinality(before) \in Nat /\ Cardinality(before) < SweepCap
      <3>1. Cardinality(before) < SweepCap
        BY <2>1 DEF Oldest
      <3>2. before \subseteq due
        OBVIOUS
      <3>. QED
        BY <1>1, <3>1, <3>2, FS_Subset, FS_CardinalityType
    <2>3. O \subseteq before \cup {m}
      BY <1>1, <2>1
    <2>. HIDE DEF before, O
    <2>4. IsFiniteSet(before \cup {m})
          /\ Cardinality(before \cup {m}) \in {Cardinality(before), Cardinality(before) + 1}
      BY <2>2, FS_AddElement
    <2>5. Cardinality(O) <= Cardinality(before \cup {m}) /\ Cardinality(O) \in Nat
          /\ Cardinality(before \cup {m}) \in Nat
      BY <2>3, <2>4, FS_Subset, FS_CardinalityType
    <2>6. Cardinality(O) <= SweepCap
      BY <2>2, <2>4, <2>5, RetentionNumbers
    <2>. QED
      BY <1>1, <2>6 DEF O
  <1>. QED
    BY <1>2, <1>3

LEMMA FirstIsListed ==
    ASSUME RetentionInv, NEW r \in Sweepers, sweep[r].at = "delete"
    PROVE  (CHOOSE d \in sweep[r].ids : \A e \in sweep[r].ids : d <= e) \in sweep[r].ids
  <1>1. sweep[r].ids \in SUBSET Nat /\ sweep[r].ids # {}
    BY RetentionNumbers DEF RetentionInv, RetentionTypeOK, Sweep, ListsFit
  <1>2. \E d \in sweep[r].ids : \A e \in sweep[r].ids : d <= e
    BY <1>1, LeastNumber
  <1>. QED
    BY <1>2

LEMMA HasLatest ==
    ASSUME NEW S \in SUBSET Dates, S # {}
    PROVE  \E d \in S : \A e \in S : e <= d
  BY RetentionNumbers, GreatestNumber DEF Dates

\* What is left of a list.
LEMMA RestOfList ==
    ASSUME RetentionInv, NEW r \in Sweepers, sweep[r].at = "delete", NEW d \in sweep[r].ids
    PROVE  /\ Rest(r, d) \in Sweep /\ Rest(r, d).ids = sweep[r].ids \ {d}
           /\ Rest(r, d).ids # {} <=> Rest(r, d).at = "delete"
           /\ Rest(r, d).at \in {"idle", "delete"}
           /\ Cardinality(Rest(r, d).ids) <= Cardinality(sweep[r].ids)
           /\ Cardinality(Rest(r, d).ids) \in Nat
  <1>1. sweep[r] \in Sweep
    BY DEF RetentionInv, RetentionTypeOK
  <1>2. IsFiniteSet(sweep[r].ids)
    BY <1>1, RetentionNumbers, FS_Subset DEF Sweep
  <1>3. Rest(r, d) \in Sweep /\ Rest(r, d).ids = sweep[r].ids \ {d}
        /\ (Rest(r, d).ids # {} <=> Rest(r, d).at = "delete")
        /\ Rest(r, d).at \in {"idle", "delete"}
    <2>1. CASE sweep[r].ids = {d}
      BY <2>1 DEF Rest, Resting, Sweep
    <2>2. CASE sweep[r].ids # {d}
      <3>1. Rest(r, d) = [sweep[r] EXCEPT !.ids = @ \ {d}]
        BY <2>2 DEF Rest
      <3>2. Rest(r, d) \in Sweep /\ Rest(r, d).ids = sweep[r].ids \ {d}
            /\ Rest(r, d).at = "delete"
        BY <1>1, <3>1 DEF Sweep
      <3>. QED
        BY <2>2, <3>2
    <2>. QED
      BY <2>1, <2>2
  <1>. QED
    BY <1>2, <1>3, FS_Subset, FS_CardinalityType

\* Lists get shorter and scans of the target fewer, but not this one.
LEMMA AnchorSurvives ==
    ASSUME NEW t, NEW m, Anchor(t, m), \A r \in Sweepers : sweep'[r].ids \subseteq sweep[r].ids,
           OfTarget(t)' \subseteq OfTarget(t), m \in OfTarget(t)'
    PROVE  Anchor(t, m)'
  BY DEF Anchor

-----------------------------------------------------------------------------
(* The sweeper                                                             *)

LEMMA BeginSweepKeeps ==
    ASSUME RetentionInv, NEW r \in Sweepers, BeginSweep(r)
    PROVE  RetentionInv'
  <1>. DEFINE s == [at |-> "list", cutoff |-> today - policy.days,
                    adhoc |-> policy.adhoc, ids |-> {}]
  <1>1. s \in Sweep
    BY DEF RetentionInv, RetentionTypeOK, Policy, Sweep
  <1>2. sweep' = [sweep EXCEPT ![r] = s] /\ UNCHANGED <<kept, policy, today, anchored, late>>
        /\ RetentionActive(policy) /\ s.ids = {} /\ s.at = "list"
    BY DEF BeginSweep
  <1>. HIDE DEF s
  <1>3. RetentionTypeOK'
    BY <1>1, <1>2 DEF RetentionInv, RetentionTypeOK
  <1>4. \A q \in Sweepers : sweep'[q].ids \subseteq sweep[q].ids
    BY <1>2 DEF RetentionInv, RetentionTypeOK
  <1>5. Dated'
    BY <1>2, <1>4 DEF RetentionInv, Dated, There
  <1>6. ListsFit'
    <2>1. Cardinality({}) = 0
      BY FS_EmptySet
    <2>2. Cardinality(s.ids) <= SweepCap
      BY <1>2, <2>1, RetentionNumbers
    <2>. QED
      BY <1>2, <2>2 DEF RetentionInv, RetentionTypeOK, ListsFit
  <1>7. Anchors'
    BY <1>2, <1>4, AnchorSurvives DEF RetentionInv, Anchors, Anchor, OfTarget, There
  <1>8. LateFits'
    BY <1>2, FreshLate DEF RetentionInv, LateFits
  <1>. QED
    BY <1>3, <1>5, <1>6, <1>7, <1>8 DEF RetentionInv

\* The latest scan of a target is on no new list.
LEMMA ListScansKeeps ==
    ASSUME RetentionInv, NEW r \in Sweepers, ListScans(r)
    PROVE  RetentionInv'
  <1>. DEFINE due == ScansForRetention(sweep[r].cutoff, sweep[r].adhoc)
              s == IF due = {} THEN Resting ELSE [sweep[r] EXCEPT !.at = "delete", !.ids = due]
  <1>1. sweep[r] \in Sweep /\ sweep[r].at = "list"
    BY DEF RetentionInv, RetentionTypeOK, ListScans
  <1>2. /\ due \subseteq Dates /\ Cardinality(due) <= SweepCap
        /\ \A d \in due : There(d) /\ (kept[d].target # Loose => d # Latest(kept[d].target))
    <2>. DEFINE all == {d \in Dates :
                          /\ There(d) /\ d < sweep[r].cutoff /\ kept[d].ended
                          /\ IF kept[d].target = Loose THEN sweep[r].adhoc
                             ELSE d # Latest(kept[d].target)}
    <2>1. due = Oldest(all) /\ all \in SUBSET Dates
      BY DEF ScansForRetention
    <2>2. due \subseteq all /\ Cardinality(due) <= SweepCap
      <3>. HIDE DEF all, due
      <3>. QED
        BY <2>1, OldestFits
    <2>. QED
      BY <2>2
  <1>3. sweep' = [sweep EXCEPT ![r] = s] /\ UNCHANGED <<kept, policy, today, anchored, late>>
    BY <1>1 DEF ListScans, RetentionInv, RetentionTypeOK
  <1>. HIDE DEF due
  <1>4. s \in Sweep /\ s.ids = due /\ (s.ids # {} <=> s.at = "delete")
        /\ s.at \in {"idle", "delete"}
    <2>1. CASE due = {}
      BY <2>1 DEF Resting, Sweep
    <2>2. CASE due # {}
      BY <1>1, <1>2, <2>2 DEF Sweep
    <2>. QED
      BY <2>1, <2>2
  <1>. HIDE DEF s
  <1>5. RetentionTypeOK'
    BY <1>3, <1>4 DEF RetentionInv, RetentionTypeOK
  <1>6. Dated'
    BY <1>2, <1>3, <1>4 DEF RetentionInv, RetentionTypeOK, Dated, There
  <1>7. ListsFit'
    BY <1>2, <1>3, <1>4 DEF RetentionInv, RetentionTypeOK, ListsFit
  <1>8. Anchors'
    <2>. SUFFICES ASSUME NEW t \in anchored PROVE \E d \in Dates : Anchor(t, d)'
      BY <1>3 DEF Anchors
    <2>1. PICK m \in Dates : Anchor(t, m)
      BY DEF RetentionInv, Anchors
    <2>2. m = Latest(t)
      <3>1. Latest(t) \in OfTarget(t) /\ \A e \in OfTarget(t) : e <= Latest(t)
        BY <2>1 DEF Anchor, Latest
      <3>2. OfTarget(t) \subseteq Nat /\ m \in OfTarget(t) /\ \A e \in OfTarget(t) : e <= m
        BY <2>1, RetentionNumbers DEF Anchor, OfTarget
      <3>. QED
        BY <3>1, <3>2
    <2>3. kept[m].target = t /\ t # Loose
      BY <2>1, RetentionConstants DEF Anchor, OfTarget, RetentionInv, RetentionTypeOK
    <2>4. m \notin due
      BY <1>2, <2>2, <2>3
    <2>5. OfTarget(t)' = OfTarget(t)
      BY <1>3 DEF OfTarget, There
    <2>6. Anchor(t, m)'
      BY <1>3, <1>4, <2>1, <2>4, <2>5 DEF Anchor, RetentionInv, RetentionTypeOK
    <2>. QED
      BY <2>6
  <1>9. LateFits'
    <2>1. Pot(r) = SweepCap
      BY <1>1 DEF Pot
    <2>2. Pot(r)' <= SweepCap
      BY <1>2, <1>3, <1>4, RetentionNumbers DEF Pot, RetentionInv, RetentionTypeOK
    <2>3. \A q \in Sweepers : q # r => Pot(q)' = Pot(q)
      BY <1>3 DEF Pot, RetentionInv, RetentionTypeOK
    <2>4. \A q \in Sweepers : q # r => Pot(q) \in Nat
      <3>. SUFFICES ASSUME NEW q \in Sweepers PROVE Pot(q) \in Nat
        OBVIOUS
      <3>1. sweep[q].ids \in SUBSET Dates
        BY DEF RetentionInv, RetentionTypeOK, Sweep
      <3>2. Cardinality(sweep[q].ids) \in Nat
        BY <3>1, RetentionNumbers, FS_Subset, FS_CardinalityType
      <3>. QED
        BY <3>2, RetentionNumbers DEF Pot
    <2>5. \A q \in Sweepers : Pot(q)' <= Pot(q)
      BY <2>1, <2>2, <2>3, <2>4
    <2>. QED
      BY <1>3, <1>5, <2>5, ShrinkingBudget
  <1>. QED
    BY <1>5, <1>6, <1>7, <1>8, <1>9 DEF RetentionInv

LEMMA PotIsNumber ==
    ASSUME RetentionTypeOK, NEW r \in Sweepers
    PROVE  Pot(r) \in Nat
  <1>1. sweep[r].ids \in SUBSET Dates
    BY DEF RetentionTypeOK, Sweep
  <1>2. Cardinality(sweep[r].ids) \in Nat
    BY <1>1, RetentionNumbers, FS_Subset, FS_CardinalityType
  <1>. QED
    BY <1>2, RetentionNumbers DEF Pot

\* The first of a list is taken off it; the parts that only know the lists.
LEMMA TakenOff ==
    ASSUME RetentionInv, NEW r \in Sweepers, sweep[r].at = "delete", NEW d \in sweep[r].ids,
           sweep' = [sweep EXCEPT ![r] = Rest(r, d)]
    PROVE  /\ sweep' \in [Sweepers -> Sweep] /\ ListsFit'
           /\ \A q \in Sweepers : sweep'[q].ids \subseteq sweep[q].ids /\ Pot(q)' <= Pot(q)
  <1>1. /\ Rest(r, d) \in Sweep /\ Rest(r, d).ids = sweep[r].ids \ {d}
        /\ Rest(r, d).ids # {} <=> Rest(r, d).at = "delete"
        /\ Rest(r, d).at \in {"idle", "delete"}
        /\ Cardinality(Rest(r, d).ids) <= Cardinality(sweep[r].ids)
        /\ Cardinality(Rest(r, d).ids) \in Nat
    BY RestOfList
  <1>2. sweep \in [Sweepers -> Sweep] /\ ListsFit /\ RetentionTypeOK
    BY DEF RetentionInv, RetentionTypeOK
  <1>3. sweep'[r] = Rest(r, d) /\ \A q \in Sweepers : q # r => sweep'[q] = sweep[q]
    BY <1>2
  <1>4. Cardinality(sweep[r].ids) \in Nat /\ Pot(r) = Cardinality(sweep[r].ids)
    BY <1>2, PotIsNumber DEF Pot
  <1>5. Cardinality(sweep[r].ids) <= SweepCap
    BY <1>2 DEF ListsFit
  <1>6. ListsFit'
    <2>1. Cardinality(Rest(r, d).ids) <= SweepCap
      BY <1>1, <1>4, <1>5, RetentionNumbers
    <2>. QED
      BY <1>1, <1>2, <1>3, <2>1 DEF ListsFit
  <1>7. Pot(r)' <= Pot(r)
    BY <1>1, <1>3, <1>4 DEF Pot
  <1>8. \A q \in Sweepers : q # r => Pot(q)' <= Pot(q)
    <2>. SUFFICES ASSUME NEW q \in Sweepers, q # r PROVE Pot(q)' <= Pot(q)
      OBVIOUS
    <2>1. Pot(q)' = Pot(q)
      BY <1>3 DEF Pot
    <2>. QED
      BY <1>2, <2>1, PotIsNumber
  <1>. QED
    BY <1>1, <1>2, <1>3, <1>6, <1>7, <1>8

\* What is deleted from a list is no anchor.
LEMMA SweepScanKeeps ==
    ASSUME RetentionInv, NEW r \in Sweepers, SweepScan(r)
    PROVE  RetentionInv'
  <1>1. PICK d \in sweep[r].ids : Deleted(d) /\ sweep' = [sweep EXCEPT ![r] = Rest(r, d)]
    BY FirstIsListed DEF SweepScan
  <1>2. /\ sweep[r].at = "delete" /\ UNCHANGED <<policy, today, anchored>>
        /\ late' = IF RetentionActive(policy) THEN 0 ELSE late + 1
        /\ kept' = [kept EXCEPT ![d] = NoScan]
    BY <1>1 DEF SweepScan, Deleted
  <1>3. d \in Dates
    BY DEF RetentionInv, RetentionTypeOK, Sweep
  <1>4. /\ sweep' \in [Sweepers -> Sweep] /\ ListsFit'
        /\ \A q \in Sweepers : sweep'[q].ids \subseteq sweep[q].ids
    BY <1>1, <1>2, TakenOff
  <1>5. RetentionTypeOK'
    BY <1>2, <1>3, <1>4 DEF RetentionInv, RetentionTypeOK
  <1>6. Dated'
    BY <1>2, <1>3, <1>4 DEF RetentionInv, RetentionTypeOK, Dated, There
  <1>7. Anchors'
    <2>. SUFFICES ASSUME NEW t \in anchored PROVE \E m \in Dates : Anchor(t, m)'
      BY <1>2 DEF Anchors
    <2>1. PICK m \in Dates : Anchor(t, m)
      BY DEF RetentionInv, Anchors
    <2>2. m # d
      BY <2>1 DEF Anchor
    <2>3. OfTarget(t)' \subseteq OfTarget(t) /\ m \in OfTarget(t)'
      BY <1>2, <1>3, <2>1, <2>2 DEF Anchor, OfTarget, There, RetentionInv, RetentionTypeOK
    <2>. QED
      BY <1>4, <2>1, <2>3, AnchorSurvives
  <1>8. LateFits'
    <2>1. CASE RetentionActive(policy)
      BY <1>2, <2>1, FreshLate
    <2>2. CASE ~RetentionActive(policy)
      BY <1>1, <1>2, <2>2, SpentBudget
    <2>. QED
      BY <2>1, <2>2
  <1>. QED
    BY <1>4, <1>5, <1>6, <1>7, <1>8 DEF RetentionInv

LEMMA SkipScanKeeps ==
    ASSUME RetentionInv, NEW r \in Sweepers, SkipScan(r)
    PROVE  RetentionInv'
  <1>1. PICK d \in sweep[r].ids : sweep' = [sweep EXCEPT ![r] = Rest(r, d)]
    BY FirstIsListed DEF SkipScan
  <1>2. sweep[r].at = "delete" /\ UNCHANGED <<kept, policy, today, anchored, late>>
    BY DEF SkipScan
  <1>3. /\ sweep' \in [Sweepers -> Sweep] /\ ListsFit'
        /\ \A q \in Sweepers : sweep'[q].ids \subseteq sweep[q].ids /\ Pot(q)' <= Pot(q)
    BY <1>1, <1>2, TakenOff
  <1>4. RetentionTypeOK'
    BY <1>2, <1>3 DEF RetentionInv, RetentionTypeOK
  <1>5. Dated'
    BY <1>2, <1>3 DEF RetentionInv, Dated, There
  <1>6. Anchors'
    BY <1>2, <1>3, AnchorSurvives DEF RetentionInv, Anchors, Anchor, OfTarget, There
  <1>7. LateFits'
    BY <1>2, <1>3, <1>4, ShrinkingBudget
  <1>. QED
    BY <1>3, <1>4, <1>5, <1>6, <1>7 DEF RetentionInv

LEMMA StopSweepKeeps ==
    ASSUME RetentionInv, NEW r \in Sweepers, StopSweep(r)
    PROVE  RetentionInv'
  <1>1. sweep' = [sweep EXCEPT ![r] = Resting] /\ UNCHANGED <<kept, policy, today, anchored, late>>
    BY DEF StopSweep
  <1>2. Resting \in Sweep /\ Resting.ids = {} /\ Resting.at = "idle"
    BY DEF Resting, Sweep
  <1>3. RetentionTypeOK'
    BY <1>1, <1>2 DEF RetentionInv, RetentionTypeOK
  <1>4. /\ \A q \in Sweepers : q # r => sweep'[q] = sweep[q]
        /\ sweep'[r] = Resting
        /\ \A q \in Sweepers : sweep'[q].ids \subseteq sweep[q].ids
    BY <1>1, <1>2 DEF RetentionInv, RetentionTypeOK
  <1>5. Dated'
    BY <1>1, <1>4 DEF RetentionInv, Dated, There
  <1>6. ListsFit'
    <2>1. Cardinality({}) = 0
      BY FS_EmptySet
    <2>2. Cardinality(Resting.ids) <= SweepCap
      BY <1>2, <2>1, RetentionNumbers
    <2>. QED
      BY <1>2, <1>4, <2>2 DEF RetentionInv, ListsFit
  <1>7. Anchors'
    BY <1>1, <1>4, AnchorSurvives DEF RetentionInv, Anchors, Anchor, OfTarget, There
  <1>8. LateFits'
    <2>1. ASSUME NEW q \in Sweepers PROVE Pot(q)' <= Pot(q)
      <3>1. Pot(q) \in Nat
        BY PotIsNumber DEF RetentionInv
      <3>2. CASE q = r
        BY <1>2, <1>4, <3>1, <3>2 DEF Pot
      <3>3. CASE q # r
        <4>1. Pot(q)' = Pot(q)
          BY <1>4, <3>3 DEF Pot
        <4>. QED
          BY <3>1, <4>1
      <3>. QED
        BY <3>2, <3>3
    <2>. QED
      BY <1>1, <1>3, <2>1, ShrinkingBudget
  <1>. QED
    BY <1>3, <1>5, <1>6, <1>7, <1>8 DEF RetentionInv

-----------------------------------------------------------------------------
(* Everybody else                                                          *)

LEMMA SameBudget ==
    ASSUME RetentionInv, UNCHANGED <<policy, late, sweep>>
    PROVE  LateFits'
  <1>1. Budget' = Budget
    BY DEF Budget, Pot
  <1>. QED
    BY <1>1 DEF RetentionInv, LateFits

LEMMA UpdateSettingsKeeps ==
    ASSUME RetentionInv, NEW p \in Policies, UpdateSettings(p)
    PROVE  RetentionInv'
  <1>1. policy' = p /\ UNCHANGED <<kept, today, sweep, anchored>>
        /\ late' = IF RetentionActive(policy) \/ RetentionActive(p) THEN 0 ELSE late
    BY DEF UpdateSettings
  <1>2. RetentionTypeOK' /\ Dated' /\ ListsFit' /\ Anchors'
    BY <1>1, RetentionConstants DEF RetentionInv, RetentionTypeOK, Dated, ListsFit, Anchors,
                                    Anchor, OfTarget, There
  <1>3. CASE RetentionActive(policy) \/ RetentionActive(p)
    BY <1>1, <1>2, <1>3, FreshLate DEF RetentionInv
  <1>4. CASE ~(RetentionActive(policy) \/ RetentionActive(p))
    <2>1. Budget' = Budget
      BY <1>1 DEF Budget, Pot
    <2>2. LateFits'
      BY <1>1, <1>4, <2>1 DEF RetentionInv, LateFits
    <2>. QED
      BY <1>2, <2>2 DEF RetentionInv
  <1>. QED
    BY <1>3, <1>4

\* A scan that starts is the latest, and on nobody's list yet.
LEMMA StartScanKeeps ==
    ASSUME RetentionInv, NEW t \in SavedTargets \cup {Loose}, StartScan(t)
    PROVE  RetentionInv'
  <1>. DEFINE new == today + 1
              scan == [target |-> t, ended |-> FALSE]
  <1>1. scan \in KeptScan /\ scan # NoScan /\ scan.target = t
    BY ScanIsThere DEF KeptScan
  <1>2. /\ new \in Dates /\ today' = new /\ kept' = [kept EXCEPT ![new] = scan]
        /\ anchored' = anchored \cup ({t} \ {Loose}) /\ UNCHANGED <<policy, sweep, late>>
        /\ today \in Nat
    BY RetentionNumbers DEF StartScan, RetentionInv, RetentionTypeOK, Dates
  <1>3. \A d \in Dates : There(d) => d < new
    BY <1>2, RetentionNumbers DEF RetentionInv, Dated
  <1>4. \A r \in Sweepers : new \notin sweep[r].ids
    BY <1>2 DEF RetentionInv, Dated
  <1>. HIDE DEF scan
  <1>5. RetentionTypeOK'
    <2>1. anchored' \subseteq SavedTargets
      BY <1>2 DEF RetentionInv, RetentionTypeOK
    <2>2. today' \in 0..LastDay
      BY <1>2, RetentionNumbers DEF Dates
    <2>3. kept' \in [Dates -> KeptScan \cup {NoScan}]
      BY <1>1, <1>2 DEF RetentionInv, RetentionTypeOK
    <2>. QED
      BY <1>2, <2>1, <2>2, <2>3 DEF RetentionInv, RetentionTypeOK
  <1>. HIDE DEF new
  <1>6. \A d \in Dates : d # new => kept'[d] = kept[d]
    BY <1>2 DEF RetentionInv, RetentionTypeOK
  <1>7. kept'[new] = scan
    BY <1>2 DEF RetentionInv, RetentionTypeOK
  <1>8. Dated'
    <2>1. ASSUME NEW d \in Dates, There(d)' PROVE d <= today'
      <3>1. CASE d = new
        BY <1>2, <3>1, RetentionNumbers
      <3>2. CASE d # new
        <4>1. There(d)
          BY <1>6, <2>1, <3>2 DEF There
        <4>. QED
          BY <1>2, <1>3, <4>1, RetentionNumbers
      <3>. QED
        BY <3>1, <3>2
    <2>2. ASSUME NEW r \in Sweepers, NEW d \in sweep[r].ids PROVE d <= new
      <3>1. d \in Dates /\ d <= today
        BY DEF RetentionInv, RetentionTypeOK, Sweep, Dated
      <3>. QED
        BY <1>2, <3>1, RetentionNumbers DEF new
    <2>. QED
      BY <1>2, <2>1, <2>2 DEF Dated
  <1>9. ListsFit'
    BY <1>2 DEF RetentionInv, ListsFit
  <1>10. Anchors'
    <2>. SUFFICES ASSUME NEW u \in anchored' PROVE \E m \in Dates : Anchor(u, m)'
      BY DEF Anchors
    <2>1. CASE u = t
      <3>1. new \in OfTarget(u)'
        BY <1>1, <1>2, <1>7, <2>1 DEF OfTarget, There
      <3>2. \A e \in OfTarget(u)' : e <= new
        BY <1>2, <1>8 DEF Dated, OfTarget
      <3>. QED
        BY <1>2, <1>4, <3>1, <3>2 DEF Anchor
    <2>2. CASE u # t
      <3>1. u \in anchored
        BY <1>2, <2>2
      <3>2. PICK m \in Dates : Anchor(u, m)
        BY <3>1 DEF RetentionInv, Anchors
      <3>3. m # new
        BY <1>2, <1>3, <3>2, RetentionNumbers DEF Anchor, OfTarget
      <3>4. OfTarget(u)' \subseteq OfTarget(u) /\ m \in OfTarget(u)'
        BY <1>1, <1>6, <1>7, <2>2, <3>2, <3>3 DEF Anchor, OfTarget, There
      <3>. QED
        BY <1>2, <3>2, <3>4, AnchorSurvives
    <2>. QED
      BY <2>1, <2>2
  <1>11. LateFits'
    BY <1>2, SameBudget
  <1>. QED
    BY <1>5, <1>8, <1>9, <1>10, <1>11 DEF RetentionInv

LEMMA EndScanKeeps ==
    ASSUME RetentionInv, NEW d \in Dates, EndScan(d)
    PROVE  RetentionInv'
  <1>1. kept' = [kept EXCEPT ![d].ended = TRUE] /\ UNCHANGED <<policy, today, sweep, anchored, late>>
        /\ kept[d] \in KeptScan
    BY DEF EndScan, There, RetentionInv, RetentionTypeOK
  <1>2. [kept[d] EXCEPT !.ended = TRUE] \in KeptScan
        /\ [kept[d] EXCEPT !.ended = TRUE].target = kept[d].target
    BY <1>1 DEF KeptScan
  <1>3. kept' = [kept EXCEPT ![d] = [kept[d] EXCEPT !.ended = TRUE]]
    BY <1>1 DEF RetentionInv, RetentionTypeOK
  <1>4. RetentionTypeOK'
    BY <1>1, <1>2, <1>3 DEF RetentionInv, RetentionTypeOK
  <1>5. \A e \in Dates : There(e)' = There(e) /\ (There(e) => kept'[e].target = kept[e].target)
    BY <1>1, <1>2, <1>3, ScanIsThere DEF There, RetentionInv, RetentionTypeOK
  <1>6. \A t : OfTarget(t)' = OfTarget(t)
    BY <1>5 DEF OfTarget
  <1>7. Dated' /\ ListsFit' /\ Anchors'
    BY <1>1, <1>5, <1>6 DEF RetentionInv, Dated, ListsFit, Anchors, Anchor
  <1>. QED
    BY <1>1, <1>4, <1>7, SameBudget DEF RetentionInv

\* While nobody holds a list any scan will do.
LEMMA NobodyLists ==
    ASSUME RetentionInv, ~Listing, sweep' = sweep, NEW t, OfTarget(t)' # {}
    PROVE  \E m \in Dates : Anchor(t, m)'
  <1>1. OfTarget(t)' \in SUBSET Dates
    BY DEF OfTarget
  <1>2. PICK m \in OfTarget(t)' : \A e \in OfTarget(t)' : e <= m
    BY <1>1, HasLatest
  <1>3. \A r \in Sweepers : sweep[r].ids = {}
    BY DEF Listing, RetentionInv, ListsFit
  <1>. QED
    BY <1>1, <1>2, <1>3 DEF Anchor

LEMMA ImportScanKeeps ==
    ASSUME RetentionInv, NEW d \in Dates, NEW t \in SavedTargets \cup {Loose}, ImportScan(d, t)
    PROVE  RetentionInv'
  <1>. DEFINE scan == [target |-> t, ended |-> TRUE]
  <1>1. scan \in KeptScan /\ scan # NoScan /\ scan.target = t
    BY ScanIsThere DEF KeptScan
  <1>2. /\ d <= today /\ ~There(d) /\ kept' = [kept EXCEPT ![d] = scan]
        /\ anchored' = IF \E r \in Sweepers : d \in sweep[r].ids THEN anchored \ {t}
                       ELSE IF Listing THEN anchored ELSE anchored \cup ({t} \ {Loose})
        /\ UNCHANGED <<policy, today, sweep, late>>
    BY DEF ImportScan
  <1>. HIDE DEF scan
  <1>3. kept'[d] = scan /\ \A e \in Dates : e # d => kept'[e] = kept[e]
    BY <1>2 DEF RetentionInv, RetentionTypeOK
  <1>4. RetentionTypeOK'
    <2>1. anchored' \subseteq SavedTargets
      BY <1>2 DEF RetentionInv, RetentionTypeOK
    <2>. QED
      BY <1>1, <1>2, <2>1 DEF RetentionInv, RetentionTypeOK
  <1>5. Dated' /\ ListsFit'
    BY <1>2, <1>3 DEF RetentionInv, Dated, ListsFit, There
  <1>6. Anchors'
    <2>. SUFFICES ASSUME NEW u \in anchored' PROVE \E m \in Dates : Anchor(u, m)'
      BY DEF Anchors
    <2>1. OfTarget(t)' = OfTarget(t) \cup {d}
      BY <1>1, <1>3 DEF OfTarget, There
    <2>2. CASE u # t
      <3>1. OfTarget(u)' = OfTarget(u)
        BY <1>1, <1>2, <1>3, <2>2 DEF OfTarget, There
      <3>2. u \in anchored
        BY <1>2, <2>2
      <3>. QED
        BY <1>2, <3>1, <3>2 DEF RetentionInv, Anchors, Anchor
    <2>3. CASE u = t /\ ~Listing
      BY <1>2, <2>1, <2>3, NobodyLists
    <2>4. CASE u = t /\ Listing
      <3>1. u \in anchored /\ \A r \in Sweepers : d \notin sweep[r].ids
        BY <1>2, <2>4
      <3>2. PICK m \in Dates : Anchor(t, m)
        BY <2>4, <3>1 DEF RetentionInv, Anchors
      <3>3. CASE d <= m
        BY <1>2, <2>1, <2>4, <3>2, <3>3 DEF Anchor
      <3>4. CASE ~(d <= m)
        <4>1. \A e \in OfTarget(t)' : e <= d
          BY <2>1, <3>2, <3>4, RetentionNumbers DEF Anchor, OfTarget
        <4>. QED
          BY <1>2, <2>1, <2>4, <3>1, <4>1 DEF Anchor
      <3>. QED
        BY <3>3, <3>4
    <2>. QED
      BY <2>2, <2>3, <2>4
  <1>. QED
    BY <1>2, <1>4, <1>5, <1>6, SameBudget DEF RetentionInv

LEMMA DeleteByHandKeeps ==
    ASSUME RetentionInv, NEW d \in Dates, DeleteByHand(d)
    PROVE  RetentionInv'
  <1>. DEFINE t == kept[d].target
  <1>1. /\ There(d) /\ kept' = [kept EXCEPT ![d] = NoScan]
        /\ anchored' = IF Listing \/ OfTarget(t) = {d} THEN anchored \ {t} ELSE anchored
        /\ UNCHANGED <<policy, today, sweep, late>>
    BY DEF DeleteByHand, Deleted
  <1>. HIDE DEF t
  <1>2. kept'[d] = NoScan /\ \A e \in Dates : e # d => kept'[e] = kept[e]
    BY <1>1 DEF RetentionInv, RetentionTypeOK
  <1>3. RetentionTypeOK'
    BY <1>1 DEF RetentionInv, RetentionTypeOK
  <1>4. Dated' /\ ListsFit'
    BY <1>1, <1>2 DEF RetentionInv, Dated, ListsFit, There
  <1>5. Anchors'
    <2>. SUFFICES ASSUME NEW u \in anchored' PROVE \E m \in Dates : Anchor(u, m)'
      BY DEF Anchors
    <2>1. OfTarget(u)' = OfTarget(u) \ {d}
      BY <1>2 DEF OfTarget, There
    <2>2. PICK m \in Dates : Anchor(u, m)
      BY <1>1 DEF RetentionInv, Anchors
    <2>3. CASE u # t
      <3>1. OfTarget(u)' = OfTarget(u)
        BY <2>1, <2>3 DEF OfTarget, t
      <3>. QED
        BY <1>1, <2>2, <3>1 DEF Anchor
    <2>4. CASE u = t
      <3>1. ~Listing /\ OfTarget(u) # {d}
        BY <1>1, <2>4
      <3>2. d \in OfTarget(u)
        BY <1>1, <2>4 DEF OfTarget, t
      <3>. QED
        BY <1>1, <2>1, <3>1, <3>2, NobodyLists
    <2>. QED
      BY <2>3, <2>4
  <1>. QED
    BY <1>1, <1>3, <1>4, <1>5, SameBudget DEF RetentionInv

LEMMA DayPassesKeeps ==
    ASSUME RetentionInv, DayPasses
    PROVE  RetentionInv'
  <1>1. today' = today + 1 /\ UNCHANGED <<kept, policy, sweep, anchored, late>>
        /\ today' \in 0..LastDay /\ today \in Nat
    BY RetentionNumbers DEF DayPasses, RetentionInv, RetentionTypeOK
  <1>2. RetentionTypeOK'
    BY <1>1 DEF RetentionInv, RetentionTypeOK
  <1>3. Dated'
    <2>1. \A d \in Dates : d <= today => d <= today'
      BY <1>1, RetentionNumbers
    <2>2. \A r \in Sweepers : sweep[r].ids \subseteq Dates
      BY DEF RetentionInv, RetentionTypeOK, Sweep
    <2>. QED
      BY <1>1, <2>1, <2>2 DEF RetentionInv, Dated, There
  <1>4. ListsFit' /\ Anchors'
    BY <1>1 DEF RetentionInv, ListsFit, Anchors, Anchor, OfTarget, There
  <1>. QED
    BY <1>1, <1>2, <1>3, <1>4, SameBudget DEF RetentionInv

-----------------------------------------------------------------------------
(* The theorem                                                             *)

LEMMA RetentionInitInv == RetentionInit => RetentionInv
  <1>. SUFFICES ASSUME RetentionInit PROVE RetentionInv
    OBVIOUS
  <1>1. Resting \in Sweep /\ Resting.ids = {} /\ Resting.at = "idle"
    BY DEF Resting, Sweep
  <1>2. RetentionTypeOK
    BY <1>1, RetentionNumbers DEF RetentionInit, RetentionTypeOK, Policy
  <1>3. \A r \in Sweepers : sweep[r] = Resting
    BY DEF RetentionInit
  <1>4. Dated /\ Anchors
    BY <1>1, <1>3 DEF RetentionInit, Dated, There, Anchors
  <1>5. ListsFit
    <2>1. Cardinality({}) = 0
      BY FS_EmptySet
    <2>. QED
      BY <1>1, <1>3, <2>1, RetentionNumbers DEF ListsFit
  <1>6. LateFits
    <2>1. late = 0 /\ Budget \in SUBSET ((1..SweepCap) \X Sweepers)
      BY DEF RetentionInit, Budget
    <2>2. Cardinality(Budget) \in Nat /\ Cardinality(Budget) <= SweepCap * Cardinality(Sweepers)
      BY <2>1, BudgetFits
    <2>. QED
      BY <2>1, <2>2 DEF LateFits
  <1>. QED
    BY <1>2, <1>4, <1>5, <1>6 DEF RetentionInv

LEMMA RetentionStepInv == RetentionInv /\ [RetentionNext]_retentionVars => RetentionInv'
  <1>. SUFFICES ASSUME RetentionInv, [RetentionNext]_retentionVars PROVE RetentionInv'
    OBVIOUS
  <1>1. CASE UNCHANGED retentionVars
    BY <1>1, SameBudget DEF retentionVars, RetentionInv, RetentionTypeOK, Dated, ListsFit, Anchors,
                            Anchor, OfTarget, There
  <1>. QED
    BY <1>1, BeginSweepKeeps, ListScansKeeps, SweepScanKeeps, SkipScanKeeps, StopSweepKeeps,
       UpdateSettingsKeeps, StartScanKeeps, ImportScanKeeps, DeleteByHandKeeps, EndScanKeeps,
       DayPassesKeeps DEF RetentionNext

\* Retention is careful, for any calendar, number of sweepers, policies and cap:
\* a target keeps a scan to compare with, whatever lists the sweepers hold, and
\* after retention is switched off every sweeper deletes one list at most.
THEOREM RetentionStaysCareful == RetentionSpec => []RetentionIsCareful
  <1>1. RetentionInv => RetentionIsCareful
    <2>. SUFFICES ASSUME RetentionInv PROVE RetentionIsCareful
      OBVIOUS
    <2>1. AnchorStays
      BY DEF RetentionInv, Anchors, Anchor, AnchorStays
    <2>2. Budget \in SUBSET ((1..SweepCap) \X Sweepers)
      BY DEF Budget
    <2>3. Cardinality(Budget) \in Nat /\ late \in Nat /\ SweepCap * Cardinality(Sweepers) \in Nat
      BY <2>2, BudgetFits, WholeBudget, FS_CardinalityType DEF RetentionInv, RetentionTypeOK
    <2>4. DisablingStopsTheSweep
      BY <2>3 DEF RetentionInv, LateFits, DisablingStopsTheSweep
    <2>. QED
      BY <2>1, <2>4 DEF RetentionIsCareful
  <1>. QED
    BY <1>1, RetentionInitInv, RetentionStepInv, PTL DEF RetentionSpec
=============================================================================
