----------------------- MODULE FindingLifecycleProofs -----------------------
(***************************************************************************)
(* Proofs about FindingLifecycle.  For any scans, findings, targets and    *)
(* features: what rows point at, what covers them, what digests repeat,    *)
(* and what the loop of the repair counts.  For scans that run one after   *)
(* another: how the rows and the digests follow from the retained scans.   *)
(***************************************************************************)
EXTENDS FindingLifecycle, FiniteSetTheorems, TLAPS

Facts == INSTANCE ListFacts

\* Where a scan stands: a place in the order is used once, a complete scan no
\* longer ingests, and a scan that is gone has no occurrences.
ScansFit ==
    \A s \in Scans :
        /\ state[s] # "absent" => s <= clock
        /\ state[s] = "absent" => stage[s] = "none"
        /\ state[s] = "complete" => stage[s] \in {"none", "mark", "done"}
        /\ link[s] \subseteq occ[s] \cap rows
        /\ ~ Exists(s) => link[s] = {} /\ occ[s] = {}

\* A finding without a row has blank columns.
UnseenIsBlank == \A f \in Findings \ rows : lc[f] = Blank

\* The scans a row points at exist, hold the finding, and are in order.
Pointed(f) ==
    /\ lc[f].first \in Scans /\ f \in link[lc[f].first]
    /\ lc[f].last \in Scans /\ f \in link[lc[f].last]
    /\ lc[f].first <= lc[f].last

\* The covering scan of a row is complete evidence of a scope that saw it.
Covered(f) ==
    lc[f].covering # Null =>
        /\ state[lc[f].covering] = "complete"
        /\ f \in link[lc[f].covering] \cup Claims(lc[f].covering)
        /\ target[lc[f].covering] \in ScopesOf(f)

LifecycleInv ==
    /\ TypeOK /\ ScansFit /\ UnseenIsBlank
    /\ \A f \in rows : Pointed(f) /\ Covered(f)

-----------------------------------------------------------------------------
(* The evidence rules                                                      *)

LEMMA ScansAreNumbers == Scans \subseteq Nat /\ 0 \notin Scans /\ ScanRefs \subseteq Nat
  BY LifecycleConstants DEF ScanRefs, Null

\* Strict inclusion of finite sets is well founded, so some set is minimal.
LEMMA SmallestSet ==
    ASSUME NEW T \in SUBSET SUBSET Scans, T # {}
    PROVE  \E I \in T : \A J \in T : ~(J \subseteq I /\ J # I)
  <1>1. IsWellFoundedOn(StrictSubsetOrdering(Scans), FiniteSubsetsOf(Scans))
    BY FS_StrictSubsetOrderingWellFounded
  <1>2. FiniteSubsetsOf(Scans) = SUBSET Scans
    BY LifecycleConstants, FS_FiniteSubsetsOfFinite
  <1>3. PICK I \in T : \A J \in T : ~(<<J, I>> \in StrictSubsetOrdering(Scans))
    BY <1>1, <1>2, WFMin
  <1>. QED
    BY <1>3 DEF StrictSubsetOrdering

\* The scan with the fewest before it is the first ...
LEMMA FirstIsLeast ==
    ASSUME NEW S \in SUBSET Scans, S # {}
    PROVE  First(S) \in S /\ \A s \in S : First(S) <= s
  <1>. DEFINE Before(x) == {s \in S : s < x}
              T == {Before(x) : x \in S}
  <1>1. T \in SUBSET SUBSET Scans /\ T # {}
    OBVIOUS
  <1>2. PICK x \in S : \A y \in S : ~(Before(y) \subseteq Before(x) /\ Before(y) # Before(x))
    <2>1. PICK I \in T : \A J \in T : ~(J \subseteq I /\ J # I)
      <3>. HIDE DEF T
      <3>. QED
        BY <1>1, SmallestSet
    <2>2. PICK x \in S : I = Before(x)
      OBVIOUS
    <2>3. \A y \in S : Before(y) \in T
      OBVIOUS
    <2>. HIDE DEF Before, T
    <2>. QED
      BY <2>1, <2>2, <2>3
  <1>3. ASSUME NEW y \in S PROVE x <= y
    <2>1. x \in Nat /\ y \in Nat /\ S \subseteq Nat
      BY ScansAreNumbers
    <2>2. y < x => (\A s \in S : s < y => s < x) /\ ~(y < y)
      BY <2>1
    <2>3. ~(y < x)
      BY <1>2, <2>2
    <2>. QED
      BY <2>1, <2>3
  <1>. QED
    BY <1>3 DEF First

\* ... and the one with the fewest behind it the last.
LEMMA LastIsGreatest ==
    ASSUME NEW S \in SUBSET Scans, S # {}
    PROVE  Last(S) \in S /\ \A s \in S : s <= Last(S)
  <1>. DEFINE Behind(x) == {s \in S : x < s}
              T == {Behind(x) : x \in S}
  <1>1. T \in SUBSET SUBSET Scans /\ T # {}
    OBVIOUS
  <1>2. PICK x \in S : \A y \in S : ~(Behind(y) \subseteq Behind(x) /\ Behind(y) # Behind(x))
    <2>1. PICK I \in T : \A J \in T : ~(J \subseteq I /\ J # I)
      <3>. HIDE DEF T
      <3>. QED
        BY <1>1, SmallestSet
    <2>2. PICK x \in S : I = Behind(x)
      OBVIOUS
    <2>3. \A y \in S : Behind(y) \in T
      OBVIOUS
    <2>. HIDE DEF Behind, T
    <2>. QED
      BY <2>1, <2>2, <2>3
  <1>3. ASSUME NEW y \in S PROVE y <= x
    <2>1. x \in Nat /\ y \in Nat /\ S \subseteq Nat
      BY ScansAreNumbers
    <2>2. x < y => (\A s \in S : y < s => x < s) /\ ~(y < y)
      BY <2>1
    <2>3. ~(x < y)
      BY <1>2, <2>2
    <2>. QED
      BY <2>1, <2>3
  <1>. QED
    BY <1>3 DEF Last

\* What an observation does to the columns of a row.
LEMMA UpsertRow ==
    ASSUME NEW r \in Columns, NEW s \in Scans
    PROVE  /\ Upsert(r, s) \in Columns
           /\ Upsert(r, s).covering = r.covering
           /\ Upsert(r, s).first = IF r.first = Null \/ s < r.first THEN s ELSE r.first
           /\ Upsert(r, s).last = IF r.last = Null \/ r.last < s THEN s ELSE r.last
           /\ Upsert(r, s).mitigated \in {r.mitigated, r.mitigated + 1}
           /\ Upsert(r, s).mitigated >= r.mitigated
  <1>1. /\ r.first \in ScanRefs /\ r.last \in ScanRefs /\ r.covering \in ScanRefs
        /\ r.mitigated \in Nat /\ r.muted \in BOOLEAN
        /\ s \in ScanRefs
    BY DEF Columns, ScanRefs
  <1> DEFINE first == IF r.first = Null \/ s < r.first THEN s ELSE r.first
             last  == IF r.last = Null \/ r.last < s THEN s ELSE r.last
             times == IF /\ r.last = Null \/ r.last < s
                         /\ r.covering = Null \/ r.covering < s
                         /\ r.covering # Null /\ r.last # r.covering /\ r.last # s
                      THEN r.mitigated + 1 ELSE r.mitigated
  <1>2. Upsert(r, s) = [r EXCEPT !.first = first, !.last = last, !.mitigated = times]
    BY Zenon DEF Upsert
  <1>3. /\ first \in ScanRefs /\ last \in ScanRefs
        /\ times \in {r.mitigated, r.mitigated + 1} /\ times \in Nat /\ times >= r.mitigated
    BY <1>1
  <1>4. PICK a \in ScanRefs, b \in ScanRefs, n \in Nat :
           /\ a = first /\ b = last /\ n \in {r.mitigated, r.mitigated + 1} /\ n >= r.mitigated
           /\ Upsert(r, s) = [r EXCEPT !.first = a, !.last = b, !.mitigated = n]
    BY <1>2, <1>3, Zenon
  <1> HIDE DEF first, last, times
  <1>5. /\ Upsert(r, s) \in Columns
        /\ Upsert(r, s).first = a /\ Upsert(r, s).last = b
        /\ Upsert(r, s).mitigated = n /\ Upsert(r, s).covering = r.covering
    BY <1>4 DEF Columns
  <1>. QED
    BY <1>4, <1>5, Zenon DEF first, last

LEMMA BlankRow == Blank \in Columns
  BY DEF Blank, Columns, ScanRefs, Null

\* What the repair computes from a history with an observation.
LEMMA TimelineRow ==
    ASSUME NEW covered \in SUBSET Scans, NEW present \in SUBSET covered, present # {},
           NEW muted \in BOOLEAN
    PROVE  /\ Timeline(present, covered, muted) \in Columns
           /\ Timeline(present, covered, muted).first \in present
           /\ Timeline(present, covered, muted).last \in present
           /\ Timeline(present, covered, muted).first <= Timeline(present, covered, muted).last
           /\ Timeline(present, covered, muted).covering \in covered
  <1>1. Cardinality(Comebacks(present, covered)) \in Nat
    <2>1. Comebacks(present, covered) \subseteq Scans
      BY DEF Comebacks
    <2>. QED
      BY <2>1, LifecycleConstants, FS_Subset, FS_CardinalityType
  <1>2. /\ First(present) \in present /\ Last(present) \in present
        /\ First(present) <= Last(present) /\ Last(covered) \in covered
    BY FirstIsLeast, LastIsGreatest
  <1>. QED
    BY <1>1, <1>2 DEF Timeline, Columns, ScanRefs

-----------------------------------------------------------------------------
(* The inductive invariant                                                 *)

LEMMA InitLifecycle == Init => LifecycleInv
  <1> SUFFICES ASSUME Init PROVE LifecycleInv
    OBVIOUS
  <1>1. TypeOK
    BY BlankRow DEF Init, TypeOK, States, Terminal, Stages, Statuses, Silence, ScanRefs,
       Scopes
  <1>2. ScansFit /\ UnseenIsBlank
    BY DEF Init, ScansFit, UnseenIsBlank, Exists
  <1>. QED
    BY <1>1, <1>2 DEF Init, LifecycleInv

\* Steps that leave occurrences, rows and columns alone, and complete no scan:
\* complete scans keep their evidence and their scope.
LEMMA KeepsRows ==
    ASSUME LifecycleInv, UNCHANGED <<link, rows, lc>>,
           \A s \in Scans : state[s] = "complete" =>
               state'[s] = "complete" /\ trace'[s] = trace[s] /\ skipped'[s] = skipped[s],
           \A s, x \in Scans : state[s] = "complete" /\ link[x] # {} =>
               (target[s] = target[x] => target'[s] = target'[x])
    PROVE  \A f \in rows' : Pointed(f)' /\ Covered(f)'
  <1> SUFFICES ASSUME NEW f \in rows PROVE Pointed(f)' /\ Covered(f)'
    OBVIOUS
  <1>1. Pointed(f)'
    BY DEF LifecycleInv, Pointed
  <1>2. ASSUME lc[f].covering # Null
        PROVE  /\ state'[lc[f].covering] = "complete"
               /\ f \in link[lc[f].covering] \cup Claims(lc[f].covering)'
               /\ target'[lc[f].covering] \in ScopesOf(f)'
    <2>1. lc[f].covering \in Scans
      BY <1>2 DEF LifecycleInv, TypeOK, Columns, ScanRefs
    <2>2. Claims(lc[f].covering)' = Claims(lc[f].covering)
      BY <1>2, <2>1 DEF LifecycleInv, Covered, Claims
    <2>3. PICK x \in Scans : f \in link[x] /\ target[x] = target[lc[f].covering]
      BY <1>2 DEF LifecycleInv, Covered, ScopesOf
    <2>4. target'[lc[f].covering] \in ScopesOf(f)'
      BY <1>2, <2>1, <2>3 DEF ScopesOf, LifecycleInv, Covered
    <2>. QED
      BY <1>2, <2>1, <2>2, <2>4 DEF LifecycleInv, Covered
  <1>. QED
    BY <1>1, <1>2 DEF Covered

LEMMA RunKeeps ==
    ASSUME LifecycleInv, NEW s \in Scans,
           \/ \E t \in Scopes : Create(s, t)
           \/ \E pairs \in SUBSET Findings : Record(s, pairs)
           \/ \E malformed \in BOOLEAN : EndIngest(s, malformed)
           \/ Fail(s) \/ CancelScan(s) \/ StopCancelled(s)
    PROVE  LifecycleInv'
  <1> USE DEF LifecycleInv
  <1> USE ScansAreNumbers
  <1>1. TypeOK' /\ ScansFit' /\ UnseenIsBlank'
    <2> USE DEF TypeOK, ScansFit, UnseenIsBlank, Exists, States, Terminal, Stages, scanVars
    <2>1. CASE \E t \in Scopes : Create(s, t)
      BY <2>1 DEF Create, ScanRefs
    <2>2. CASE \E pairs \in SUBSET Findings : Record(s, pairs)
      BY <2>2 DEF Record
    <2>3. CASE \E malformed \in BOOLEAN : EndIngest(s, malformed)
      BY <2>3 DEF EndIngest
    <2>4. CASE Fail(s)
      BY <2>4 DEF Fail, InFlight
    <2>5. CASE CancelScan(s)
      BY <2>5 DEF CancelScan
    <2>6. CASE StopCancelled(s)
      BY <2>6 DEF StopCancelled
    <2>. QED
      BY <2>1, <2>2, <2>3, <2>4, <2>5, <2>6
  <1>2. UNCHANGED <<link, rows, lc>>
    BY DEF Create, Record, EndIngest, Fail, CancelScan, StopCancelled
  <1>3. \A x \in Scans : state[x] = "complete" =>
            state'[x] = "complete" /\ trace'[x] = trace[x] /\ skipped'[x] = skipped[x]
    BY DEF Create, Record, EndIngest, Fail, CancelScan, StopCancelled, TypeOK, ScansFit, scanVars
  <1>4. \A x \in Scans : state[x] = "complete" \/ link[x] # {} => target'[x] = target[x]
    BY DEF Create, Record, EndIngest, Fail, CancelScan, StopCancelled, TypeOK, ScansFit,
       Exists, scanVars
  <1>. QED
    <2>1. \A c, x \in Scans : state[c] = "complete" /\ link[x] # {} =>
              (target[c] = target[x] => target'[c] = target'[x])
      BY <1>4
    <2>2. \A f \in rows' : Pointed(f)' /\ Covered(f)'
      BY <1>2, <1>3, <2>1, KeepsRows
    <2>. QED
      BY <1>1, <2>2

LEMMA DeleteTargetKeeps ==
    ASSUME LifecycleInv, NEW t \in Targets, DeleteTarget(t)
    PROVE  LifecycleInv'
  <1>1. TypeOK' /\ ScansFit' /\ UnseenIsBlank'
    BY DEF LifecycleInv, DeleteTarget, TypeOK, ScansFit, UnseenIsBlank, Exists, Scopes
  <1>2. \A s, x \in Scans : target[s] = target[x] => target'[s] = target'[x]
    BY DEF DeleteTarget
  <1>3. \A f \in rows' : Pointed(f)' /\ Covered(f)'
    BY <1>2, KeepsRows DEF DeleteTarget
  <1>. QED
    BY <1>1, <1>3 DEF LifecycleInv

LEMMA SetDispositionKeeps ==
    ASSUME LifecycleInv, NEW f \in Findings, SetDisposition(f)
    PROVE  LifecycleInv'
  <1> USE DEF SetDisposition, scanVars
  <1>1. /\ f \in rows
        /\ \A g \in Findings \ {f} : lc'[g] = lc[g]
        /\ lc'[f] \in Columns
        /\ lc'[f].first = lc[f].first /\ lc'[f].last = lc[f].last
        /\ lc'[f].covering = lc[f].covering
    BY DEF LifecycleInv, TypeOK, Columns
  <1>2. lc' \in [Findings -> Columns]
    BY <1>1 DEF LifecycleInv, TypeOK
  <1>3. TypeOK' /\ ScansFit' /\ UnseenIsBlank'
    BY <1>1, <1>2 DEF LifecycleInv, TypeOK, ScansFit, UnseenIsBlank, Exists
  <1>4. \A g \in rows : Pointed(g)' /\ Covered(g)'
    BY <1>1 DEF LifecycleInv, TypeOK, Pointed, Covered, Claims, ScopesOf
  <1>. QED
    BY <1>3, <1>4 DEF LifecycleInv

\* One observation of f by scan s, with the columns the row of f had before.
LEMMA IngestKeeps ==
    ASSUME LifecycleInv, NEW s \in Scans, NEW f \in Findings, Ingest(s, f)
    PROVE  LifecycleInv'
  <1> USE DEF Ingest, scanVars
  <1>1. /\ \A g \in Findings \ {f} : lc'[g] = lc[g]
        /\ lc'[f] = Upsert(lc[f], s) /\ lc[f] \in Columns
        /\ \A x \in Scans : link[x] \subseteq link'[x]
        /\ f \in link'[s]
    BY DEF LifecycleInv, TypeOK
  <1>2. lc' \in [Findings -> Columns]
    BY <1>1, UpsertRow DEF LifecycleInv, TypeOK
  <1>3. TypeOK' /\ UnseenIsBlank'
    BY <1>1, <1>2 DEF LifecycleInv, TypeOK, UnseenIsBlank
  <1>4. ScansFit'
    BY <1>1 DEF LifecycleInv, TypeOK, ScansFit, Exists
  <1>5. \A g \in Findings : ScopesOf(g) \subseteq ScopesOf(g)'
    BY <1>1 DEF ScopesOf
  <1>6. \A x : Claims(x)' = Claims(x)
    BY DEF Claims
  <1>7. ASSUME NEW g \in rows', g # f
        PROVE  Pointed(g)' /\ Covered(g)'
    <2>1. g \in rows /\ lc'[g] = lc[g] /\ lc[g] \in Columns
      BY <1>1, <1>7 DEF LifecycleInv, TypeOK
    <2>. QED
      BY <1>1, <1>5, <1>6, <2>1 DEF LifecycleInv, TypeOK, Columns, ScanRefs, Pointed, Covered
  <1>8. Pointed(f)'
    <2>1. CASE f \in rows
      BY <1>1, <2>1, UpsertRow, ScansAreNumbers DEF LifecycleInv, Pointed, Null
    <2>2. CASE f \notin rows
      BY <1>1, <2>2, UpsertRow, ScansAreNumbers DEF LifecycleInv, UnseenIsBlank, Blank, Pointed
    <2>. QED
      BY <2>1, <2>2
  <1>9. Covered(f)'
    <2>1. lc'[f].covering = lc[f].covering
      BY <1>1, UpsertRow
    <2>2. CASE f \in rows
      BY <1>1, <1>5, <1>6, <2>1, <2>2 DEF LifecycleInv, TypeOK, Columns, ScanRefs, Covered
    <2>3. CASE f \notin rows
      BY <2>1, <2>3 DEF LifecycleInv, UnseenIsBlank, Blank, Covered
    <2>. QED
      BY <2>2, <2>3
  <1>. QED
    BY <1>3, <1>4, <1>7, <1>8, <1>9 DEF LifecycleInv


\* covering_update writes one column of the rows it covers.
LEMMA CoverRow ==
    ASSUME NEW r \in Columns, NEW s \in Scans, NEW x, x = [r EXCEPT !.covering = s]
    PROVE  /\ x \in Columns /\ x.covering = s
           /\ x.first = r.first /\ x.last = r.last /\ x.mitigated = r.mitigated
  BY DEF Columns, ScanRefs

LEMMA MarkCompleteKeeps ==
    ASSUME LifecycleInv, NEW s \in Scans, MarkComplete(s)
    PROVE  LifecycleInv'
  <1> DEFINE covered == {f \in Candidates(s) : Advances(lc[f], s, target[s] \in ScopesOf(f))}
  <1>1. CASE Exists(s) /\ state[s] # "cancelled"
    <2>1. /\ stage[s] = "mark" /\ stage' \in [Scans -> Stages]
          /\ \A x \in Scans \ {s} : stage'[x] = stage[x]
          /\ stage'[s] \in {"mark", "done"}
          /\ state' = [state EXCEPT ![s] = "complete"]
          /\ lc' = [f \in Findings |->
                       IF f \in covered THEN [lc[f] EXCEPT !.covering = s] ELSE lc[f]]
          /\ digest' = [digest EXCEPT ![s] = Digest(s, covered)]
          /\ UNCHANGED <<target, scope, trace, skipped, occ, link, rows, targets, clock>>
      BY <1>1 DEF MarkComplete, scanVars, LifecycleInv, TypeOK, Stages
    <2>2. covered \subseteq rows /\ covered \subseteq Findings
      BY DEF Candidates, LifecycleInv, TypeOK
    <2>3. \A f \in covered : /\ target[s] \in ScopesOf(f)
                             /\ f \in link[s] \cup Claims(s)
      BY DEF Candidates, Advances
    <2>4. Digest(s, covered) \in [Findings -> Statuses]
      BY DEF Digest, Status, Statuses, LifecycleInv, TypeOK
    <2> HIDE DEF covered
    <2>5. \A f \in Findings :
             /\ lc'[f] \in Columns
             /\ lc'[f].first = lc[f].first /\ lc'[f].last = lc[f].last
             /\ IF f \in covered THEN lc'[f].covering = s ELSE lc'[f] = lc[f]
      BY <2>1, CoverRow DEF LifecycleInv, TypeOK
    <2>6. TypeOK'
      <3>1. lc' \in [Findings -> Columns]
        BY <2>1, <2>5
      <3>2. digest' \in [Scans -> [Findings -> Statuses]]
        BY <2>1, <2>4 DEF LifecycleInv, TypeOK
      <3>. QED
        BY <2>1, <3>1, <3>2 DEF LifecycleInv, TypeOK, States, Terminal
    <2>7. ScansFit' /\ UnseenIsBlank'
      BY <1>1, <2>1, <2>2 DEF LifecycleInv, TypeOK, ScansFit, UnseenIsBlank, Exists
    <2>8. ASSUME NEW f \in rows
          PROVE  Pointed(f)' /\ Covered(f)'
      <3>1. f \in Findings /\ lc[f] \in Columns
        BY DEF LifecycleInv, TypeOK
      <3>2. Pointed(f)'
        BY <2>1, <2>5, <3>1 DEF LifecycleInv, Pointed
      <3>3. ScopesOf(f)' = ScopesOf(f) /\ \A x : Claims(x)' = Claims(x)
        BY <2>1 DEF ScopesOf, Claims
      <3>4. ASSUME f \in covered PROVE Covered(f)'
        <4>1. lc'[f].covering = s /\ state'[s] = "complete"
          BY <2>1, <2>5, <3>1, <3>4 DEF LifecycleInv, TypeOK
        <4>2. f \in link'[s] \cup Claims(s)' /\ target'[s] \in ScopesOf(f)'
          BY <2>1, <2>3, <3>3, <3>4
        <4>. QED
          BY <4>1, <4>2 DEF Covered
      <3>5. ASSUME f \notin covered PROVE Covered(f)'
        <4>1. lc'[f].covering = lc[f].covering
          BY <2>5, <3>1, <3>5
        <4>2. ASSUME lc[f].covering # Null
              PROVE  /\ lc[f].covering \in Scans
                     /\ state[lc[f].covering] = "complete"
                     /\ f \in link[lc[f].covering] \cup Claims(lc[f].covering)
                     /\ target[lc[f].covering] \in ScopesOf(f)
          BY <3>1, <4>2 DEF LifecycleInv, Covered, Columns, ScanRefs
        <4>. QED
          BY <2>1, <3>3, <4>1, <4>2 DEF LifecycleInv, TypeOK, Covered
      <3>. QED
        BY <3>2, <3>4, <3>5
    <2>. QED
      BY <2>1, <2>6, <2>7, <2>8 DEF LifecycleInv
  <1>2. CASE ~ (Exists(s) /\ state[s] # "cancelled")
    <2>1. /\ UNCHANGED <<state, lc, digest, target, scope, trace, skipped, occ, link, rows,
                         targets, clock>>
          /\ stage' \in [Scans -> Stages] /\ stage[s] = "mark"
          /\ \A x \in Scans \ {s} : stage'[x] = stage[x]
          /\ stage'[s] \in {"mark", "done"}
      BY <1>2 DEF MarkComplete, scanVars, LifecycleInv, TypeOK, Stages
    <2>2. TypeOK' /\ ScansFit' /\ UnseenIsBlank'
      BY <2>1 DEF LifecycleInv, TypeOK, ScansFit, UnseenIsBlank, Exists
    <2>. QED
      BY <2>1, <2>2 DEF LifecycleInv, Pointed, Covered, ScopesOf, Claims
  <1>. QED
    BY <1>1, <1>2

LEMMA ImportKeeps ==
    ASSUME LifecycleInv, NEW s \in Scans, NEW t \in Scopes, NEW result \in Terminal,
           NEW pairs \in SUBSET Findings, NEW observed \in SUBSET Findings,
           NEW trusted \in BOOLEAN, NEW malformed \in BOOLEAN,
           Import(s, t, result, pairs, trusted, malformed, observed)
    PROVE  LifecycleInv'
  <1> DEFINE claimed     == IF trusted /\ ~ malformed THEN pairs ELSE {}
             upserted(f) == IF f \in observed THEN Upsert(lc[f], s) ELSE lc[f]
             covers(f)   == /\ result = "complete"
                            /\ ImportCovers(f, upserted(f), s, t, claimed, observed)
  <1>1. /\ state[s] = "absent" /\ state' = [state EXCEPT ![s] = result]
        /\ target' = [target EXCEPT ![s] = t]
        /\ trace' = [trace EXCEPT ![s] = IF trusted THEN pairs ELSE {}]
        /\ skipped' = [skipped EXCEPT ![s] = malformed]
        /\ occ' = [occ EXCEPT ![s] = observed] /\ link' = [link EXCEPT ![s] = observed]
        /\ rows' = rows \cup observed
        /\ lc' = [f \in Findings |-> IF covers(f) THEN [upserted(f) EXCEPT !.covering = s]
                                     ELSE upserted(f)]
        /\ clock' = IF s > clock THEN s ELSE clock
        /\ UNCHANGED <<scope, stage, digest, targets>>
    BY DEF Import
  <1>2. Claims(s)' = claimed /\ \A x \in Scans \ {s} : Claims(x)' = Claims(x)
    BY <1>1 DEF Claims, LifecycleInv, TypeOK
  <1>3. link[s] = {}
    BY <1>1 DEF LifecycleInv, ScansFit, Exists
  <1>4. \A f \in Findings : ScopesOf(f) \subseteq ScopesOf(f)' /\ (f \in observed => t \in ScopesOf(f)')
    BY <1>1, <1>3 DEF ScopesOf, LifecycleInv, TypeOK
  <1>5. \A f \in Findings : upserted(f) \in Columns /\ upserted(f).covering = lc[f].covering
    BY UpsertRow DEF LifecycleInv, TypeOK
  <1>6. \A f \in Findings : covers(f) =>
           /\ f \in observed \/ (f \in rows /\ f \in claimed /\ t \in ScopesOf(f))
           /\ result = "complete"
    BY DEF ImportCovers, Advances
  <1> HIDE DEF claimed, covers
  <1>7. \A f \in Findings :
           /\ lc'[f] \in Columns
           /\ lc'[f].first = upserted(f).first /\ lc'[f].last = upserted(f).last
           /\ IF covers(f) THEN lc'[f].covering = s ELSE lc'[f] = upserted(f)
    BY <1>1, <1>5, CoverRow
  <1>8. TypeOK'
    <2>1. lc' \in [Findings -> Columns]
      BY <1>1, <1>7
    <2>. QED
      BY <1>1, <2>1 DEF LifecycleInv, TypeOK, States, ScanRefs
  <1>9. ScansFit'
    BY <1>1, ScansAreNumbers DEF LifecycleInv, TypeOK, ScansFit, Exists, Terminal
  <1>10. UnseenIsBlank'
    BY <1>1, <1>6 DEF LifecycleInv, TypeOK, UnseenIsBlank
  <1>11. ASSUME NEW f \in rows'
         PROVE  Pointed(f)'
    <2>1. f \in Findings /\ lc[f] \in Columns
      BY <1>1 DEF LifecycleInv, TypeOK
    <2>2. \A x \in Scans \ {s} : link'[x] = link[x]
      BY <1>1 DEF LifecycleInv, TypeOK
    <2>3. CASE f \notin observed
      BY <1>1, <1>3, <1>7, <2>1, <2>2, <2>3 DEF LifecycleInv, Pointed
    <2>4. CASE f \in observed
      <3>1. f \in link'[s]
        BY <1>1, <2>4 DEF LifecycleInv, TypeOK
      <3>2. CASE f \in rows
        <4>1. /\ lc[f].first \in Scans \ {s} /\ f \in link'[lc[f].first]
              /\ lc[f].last \in Scans \ {s} /\ f \in link'[lc[f].last]
              /\ lc[f].first <= lc[f].last
          BY <1>3, <2>2, <3>2 DEF LifecycleInv, Pointed
        <4>2. /\ lc'[f].first = IF s < lc[f].first THEN s ELSE lc[f].first
              /\ lc'[f].last = IF lc[f].last < s THEN s ELSE lc[f].last
          BY <1>7, <2>1, <2>4, <4>1, UpsertRow, ScansAreNumbers DEF Null
        <4>3. lc'[f].first \in Scans /\ f \in link'[lc'[f].first]
          BY <3>1, <4>1, <4>2
        <4>4. lc'[f].last \in Scans /\ f \in link'[lc'[f].last]
          BY <3>1, <4>1, <4>2
        <4>5. lc'[f].first <= lc'[f].last
          <5>1. s \in Nat /\ lc[f].first \in Nat /\ lc[f].last \in Nat
            BY <4>1, ScansAreNumbers
          <5>. QED
            BY <4>1, <4>2, <5>1
        <4>. QED
          BY <4>3, <4>4, <4>5 DEF Pointed
      <3>3. CASE f \notin rows
        BY <1>7, <2>1, <2>4, <3>1, <3>3, UpsertRow, ScansAreNumbers
           DEF LifecycleInv, UnseenIsBlank, Blank, Pointed
      <3>. QED
        BY <3>2, <3>3
    <2>. QED
      BY <2>3, <2>4
  <1>12. ASSUME NEW f \in rows'
         PROVE  Covered(f)'
    <2>1. f \in Findings /\ lc[f] \in Columns
      BY <1>1 DEF LifecycleInv, TypeOK
    <2>2. CASE covers(f)
      <3>1. lc'[f].covering = s /\ state'[s] = "complete" /\ target'[s] = t
        BY <1>1, <1>6, <1>7, <2>1, <2>2 DEF LifecycleInv, TypeOK
      <3>2. f \in link'[s] \cup Claims(s)'
        BY <1>1, <1>2, <1>6, <2>1, <2>2 DEF LifecycleInv, TypeOK
      <3>3. t \in ScopesOf(f)'
        BY <1>4, <1>6, <2>1, <2>2
      <3>. QED
        BY <3>1, <3>2, <3>3 DEF Covered
    <2>3. CASE ~ covers(f)
      <3>1. lc'[f].covering = lc[f].covering
        BY <1>5, <1>7, <2>1, <2>3
      <3>2. CASE f \in rows
        <4>1. ASSUME lc[f].covering # Null
              PROVE  /\ lc[f].covering \in Scans \ {s}
                     /\ state[lc[f].covering] = "complete"
                     /\ f \in link[lc[f].covering] \cup Claims(lc[f].covering)
                     /\ target[lc[f].covering] \in ScopesOf(f)
          BY <1>1, <2>1, <3>2, <4>1 DEF LifecycleInv, Covered, Columns, ScanRefs
        <4>. QED
          BY <1>1, <1>2, <1>4, <2>1, <3>1, <4>1 DEF LifecycleInv, TypeOK, Covered
      <3>3. CASE f \notin rows
        BY <2>1, <3>1, <3>3 DEF LifecycleInv, UnseenIsBlank, Blank, Covered
      <3>. QED
        BY <3>2, <3>3
    <2>. QED
      BY <2>2, <2>3
  <1>. QED
    BY <1>8, <1>9, <1>10, <1>11, <1>12 DEF LifecycleInv


LEMMA DeleteScanKeeps ==
    ASSUME LifecycleInv, NEW s \in Scans, DeleteScan(s)
    PROVE  LifecycleInv'
  <1> DEFINE present(f) == {x \in Covering(f, s) : f \in link[x]}
             dropped    == {f \in Affected(s) : present(f) = {}}
  <1>1. /\ state[s] \in Terminal /\ state' = [state EXCEPT ![s] = "deleted"]
        /\ trace' = [trace EXCEPT ![s] = {}] /\ skipped' = [skipped EXCEPT ![s] = FALSE]
        /\ target' = [target EXCEPT ![s] = AdHoc]
        /\ occ' = [occ EXCEPT ![s] = {}] /\ digest' = [digest EXCEPT ![s] = Silence]
        /\ rows' = rows \ dropped
        /\ link' = [x \in Scans |-> IF x = s THEN {} ELSE link[x] \ dropped]
        /\ lc' = [f \in Findings |->
                     IF f \in dropped THEN Blank
                     ELSE IF f \in Affected(s)
                     THEN Timeline(present(f), Covering(f, s), lc[f].muted)
                     ELSE Unpoint(lc[f], s)]
        /\ UNCHANGED <<scope, stage, targets, clock>>
    BY DEF DeleteScan
  <1>2. Affected(s) \subseteq rows /\ rows \subseteq Findings
    BY DEF Affected, LifecycleInv, TypeOK
  <1>3. \A f \in Affected(s) \ dropped :
           /\ Covering(f, s) \in SUBSET Scans /\ present(f) \in SUBSET Covering(f, s)
           /\ present(f) # {} /\ lc[f].muted \in BOOLEAN
    BY <1>2 DEF Covering, LifecycleInv, TypeOK, Columns
  <1>4. \A f \in Affected(s) \ dropped :
           /\ lc'[f] \in Columns
           /\ lc'[f].first \in present(f) /\ lc'[f].last \in present(f)
           /\ lc'[f].first <= lc'[f].last
           /\ lc'[f].covering \in Covering(f, s)
    BY <1>1, <1>2, <1>3, TimelineRow
  <1>5. \A f \in Findings \ Affected(s) :
           lc[f].first # s /\ lc[f].last # s /\ lc[f].covering # s
    <2>1. \A f \in Findings \ rows : lc[f].first # s /\ lc[f].last # s /\ lc[f].covering # s
      BY ScansAreNumbers DEF LifecycleInv, UnseenIsBlank, Blank, Null
    <2>. QED
      BY <2>1 DEF Affected
  <1>6. \A f \in Findings \ Affected(s) : lc'[f] = lc[f]
    BY <1>1, <1>5 DEF Unpoint, LifecycleInv, TypeOK, Columns
  <1> HIDE DEF dropped
  <1>7. dropped \subseteq Affected(s)
    BY DEF dropped
  <1>8. TypeOK'
    <2>1. lc' \in [Findings -> Columns]
      <3>1. \A f \in dropped : lc'[f] \in Columns
        BY <1>1, <1>2, <1>7, BlankRow
      <3>2. \A f \in Findings : lc'[f] \in Columns
        BY <1>4, <1>6, <3>1 DEF LifecycleInv, TypeOK
      <3>. QED
        BY <1>1, <3>2
    <2>2. Silence \in [Findings -> Statuses]
      BY DEF Silence, Statuses
    <2>. QED
      BY <1>1, <2>1, <2>2 DEF LifecycleInv, TypeOK, States, Scopes
  <1>9. ScansFit'
    BY <1>1 DEF LifecycleInv, TypeOK, ScansFit, Exists, Terminal
  <1>10. UnseenIsBlank'
    BY <1>1, <1>2, <1>6, <1>7 DEF LifecycleInv, UnseenIsBlank
  <1>11. ASSUME NEW f \in rows', f \in Affected(s)
         PROVE  Pointed(f)' /\ Covered(f)'
    <2>1. f \in Affected(s) \ dropped
      BY <1>1, <1>11
    <2>2. \A x \in Covering(f, s) :
             /\ x \in Scans \ {s} /\ state'[x] = "complete"
             /\ f \in link'[x] \cup Claims(x)'
             /\ \E y \in Scans \ {s} : f \in link'[y] /\ target'[y] = target'[x]
      BY <1>1, <2>1 DEF Covering, Claims, LifecycleInv, TypeOK
    <2>3. \A x \in present(f) : x \in Scans /\ f \in link'[x]
      BY <1>1, <2>1 DEF Covering
    <2>4. Pointed(f)'
      BY <1>4, <2>1, <2>3 DEF Pointed
    <2>5. /\ lc'[f].covering \in Scans /\ state'[lc'[f].covering] = "complete"
          /\ f \in link'[lc'[f].covering] \cup Claims(lc[f].covering)'
          /\ target'[lc'[f].covering] \in ScopesOf(f)'
      BY <1>4, <2>1, <2>2 DEF ScopesOf
    <2>. QED
      BY <2>4, <2>5 DEF Covered
  <1>12. ASSUME NEW f \in rows', f \notin Affected(s)
         PROVE  Pointed(f)' /\ Covered(f)'
    <2>1. /\ f \in rows /\ f \in Findings /\ f \notin dropped /\ f \notin link[s]
          /\ lc'[f] = lc[f] /\ lc[f] \in Columns
          /\ lc[f].first # s /\ lc[f].last # s /\ lc[f].covering # s
      BY <1>1, <1>2, <1>5, <1>6, <1>7, <1>12 DEF LifecycleInv, TypeOK, Affected
    <2>2. \A x \in Scans \ {s} :
             /\ f \in link'[x] <=> f \in link[x]
             /\ state'[x] = state[x] /\ target'[x] = target[x] /\ Claims(x)' = Claims(x)
      BY <1>1, <2>1 DEF LifecycleInv, TypeOK, Claims
    <2>3. ScopesOf(f) \subseteq ScopesOf(f)'
      BY <2>1, <2>2 DEF ScopesOf
    <2>4. Pointed(f)'
      BY <2>1, <2>2 DEF LifecycleInv, Pointed
    <2>5. ASSUME lc[f].covering # Null
          PROVE  /\ lc[f].covering \in Scans \ {s}
                 /\ state[lc[f].covering] = "complete"
                 /\ f \in link[lc[f].covering] \cup Claims(lc[f].covering)
                 /\ target[lc[f].covering] \in ScopesOf(f)
      BY <2>1, <2>5 DEF LifecycleInv, Covered, Columns, ScanRefs
    <2>6. Covered(f)'
      BY <2>1, <2>2, <2>3, <2>5 DEF Covered
    <2>. QED
      BY <2>4, <2>6
  <1>. QED
    BY <1>8, <1>9, <1>10, <1>11, <1>12 DEF LifecycleInv

LEMMA StepLifecycle == LifecycleInv /\ [Next]_vars => LifecycleInv'
  <1> SUFFICES ASSUME LifecycleInv, [Next]_vars PROVE LifecycleInv'
    OBVIOUS
  <1>1. CASE UNCHANGED vars
    <2>1. TypeOK' /\ ScansFit' /\ UnseenIsBlank'
      BY <1>1 DEF vars, LifecycleInv, TypeOK, ScansFit, UnseenIsBlank, Exists
    <2>. QED
      BY <1>1, <2>1 DEF vars, LifecycleInv, Pointed, Covered, ScopesOf, Claims
  <1>2. ASSUME NEW s \in Scans, Run(s)
        PROVE  LifecycleInv'
    BY <1>2, RunKeeps, IngestKeeps, MarkCompleteKeeps DEF Run
  <1>3. ASSUME NEW s \in Scans, ImportAny(s)
        PROVE  LifecycleInv'
    BY <1>3, ImportKeeps DEF ImportAny, Terminal
  <1>. QED
    BY <1>1, <1>2, <1>3, DeleteScanKeeps, DeleteTargetKeeps, SetDispositionKeeps DEF Next

LEMMA LifecycleInvariant == Spec => []LifecycleInv
  BY InitLifecycle, StepLifecycle, PTL DEF Spec

\* A lifecycle row never outlives its evidence: in every order of runs, imports,
\* deletions and retries, the scans a row names as first and last seen exist and
\* hold an occurrence of it (ingestFindingOccurrence, repairLifecycleFindings).
THEOREM PointersStaySound == Spec => []PointersSound
  <1>1. LifecycleInv => PointersSound
    BY DEF LifecycleInv, Pointed, PointersSound
  <1>. QED
    BY <1>1, LifecycleInvariant, PTL

\* Only complete evidence of a scope that has seen the finding closes it, for any
\* history: MarkComplete, ImportScanBundle and the repair after DeleteScan agree on
\* what may cover a row, and nothing later takes the evidence away.
THEOREM CoveringStaysSound == Spec => []CoveringSound
  <1>1. LifecycleInv => CoveringSound
    BY DEF LifecycleInv, Covered, CoveringSound
  <1>. QED
    BY <1>1, LifecycleInvariant, PTL


-----------------------------------------------------------------------------
(* Evidence only advances                                                  *)

Deletes == \E s \in Scans : state[s] # "deleted" /\ state'[s] = "deleted"

\* No column of the row of f goes back.
Forward(f) ==
    /\ f \in rows'
    /\ lc'[f].first <= lc[f].first
    /\ lc'[f].last >= lc[f].last
    /\ lc'[f].covering >= lc[f].covering
    /\ lc'[f].mitigated >= lc[f].mitigated

LEMMA RowNumbers ==
    ASSUME LifecycleInv, NEW f \in Findings
    PROVE  /\ lc[f] \in Columns
           /\ lc[f].first \in Nat /\ lc[f].last \in Nat /\ lc[f].covering \in Nat
           /\ lc[f].mitigated \in Nat
           /\ f \in rows => lc[f].first \in Scans /\ lc[f].last \in Scans
  BY ScansAreNumbers DEF LifecycleInv, TypeOK, Columns, Pointed

\* An observation, on a row that exists.
LEMMA UpsertForward ==
    ASSUME LifecycleInv, NEW f \in rows, NEW s \in Scans
    PROVE  /\ Upsert(lc[f], s).first <= lc[f].first
           /\ Upsert(lc[f], s).last >= lc[f].last
           /\ Upsert(lc[f], s).covering = lc[f].covering
           /\ Upsert(lc[f], s).mitigated >= lc[f].mitigated
           /\ Upsert(lc[f], s) \in Columns
           /\ Upsert(lc[f], s).first \in Nat /\ Upsert(lc[f], s).last \in Nat
           /\ Upsert(lc[f], s).mitigated \in Nat
  <1>. DEFINE r == lc[f]
              u == Upsert(r, s)
  <1>1. f \in Findings
    BY DEF LifecycleInv, TypeOK
  <1>2. /\ r \in Columns /\ r.first \in Nat /\ r.last \in Nat /\ r.mitigated \in Nat
        /\ r.first \in Scans /\ r.last \in Scans
    BY <1>1, RowNumbers
  <1>3. s \in Nat /\ Null \notin Scans
    BY ScansAreNumbers DEF Null
  <1>4. /\ u \in Columns /\ u.covering = r.covering
        /\ u.first = IF r.first = Null \/ s < r.first THEN s ELSE r.first
        /\ u.last = IF r.last = Null \/ r.last < s THEN s ELSE r.last
        /\ u.mitigated \in {r.mitigated, r.mitigated + 1}
    <2>. HIDE DEF r
    <2>. QED
      BY <1>2, UpsertRow
  <1>. HIDE DEF r, u
  <1>5. u.first \in Nat /\ u.first <= r.first /\ u.last \in Nat /\ u.last >= r.last
    BY <1>2, <1>3, <1>4
  <1>6. u.mitigated \in Nat /\ u.mitigated >= r.mitigated
    BY <1>2, <1>4
  <1>. QED
    BY <1>4, <1>5, <1>6 DEF r, u

LEMMA StepForward ==
    ASSUME LifecycleInv, Next, ~ Deletes, NEW f \in rows
    PROVE  Forward(f)
  <1>0. f \in Findings
    BY DEF LifecycleInv, TypeOK
  <1>1. ASSUME lc'[f] = lc[f], f \in rows'
        PROVE  Forward(f)
    BY <1>0, <1>1, RowNumbers DEF Forward
  <1>2. ASSUME NEW s \in Scans, NEW g \in Findings, Ingest(s, g)
        PROVE  Forward(f)
    <2>1. f \in rows' /\ (f # g => lc'[f] = lc[f]) /\ (f = g => lc'[f] = Upsert(lc[f], s))
      BY <1>0, <1>2 DEF Ingest, LifecycleInv, TypeOK
    <2>2. CASE f # g
      BY <1>1, <2>1, <2>2
    <2>3. CASE f = g
      BY <1>0, <2>1, <2>3, UpsertForward, RowNumbers DEF Forward
    <2>. QED
      BY <2>2, <2>3
  <1>3. ASSUME NEW s \in Scans, MarkComplete(s)
        PROVE  Forward(f)
    <2>1. /\ f \in rows'
          /\ \/ lc'[f] = lc[f]
             \/ /\ lc'[f] = [lc[f] EXCEPT !.covering = s]
                /\ lc[f].covering = Null \/ lc[f].covering < s
      BY <1>0, <1>3 DEF MarkComplete, Advances
    <2>2. CASE lc'[f] = [lc[f] EXCEPT !.covering = s] /\ (lc[f].covering = Null \/ lc[f].covering < s)
      <3>1. /\ lc'[f].first = lc[f].first /\ lc'[f].last = lc[f].last
            /\ lc'[f].mitigated = lc[f].mitigated /\ lc'[f].covering = s
        BY <1>0, <2>2, CoverRow, RowNumbers
      <3>. QED
        BY <1>0, <2>1, <2>2, <3>1, RowNumbers, ScansAreNumbers DEF Forward, Null
    <2>. QED
      BY <1>1, <2>1, <2>2
  <1>4. ASSUME NEW s \in Scans, ImportAny(s)
        PROVE  Forward(f)
    <2>1. PICK t \in Scopes, result \in {"complete", "failed"}, pairs \in SUBSET Findings,
               observed \in SUBSET Findings, trusted \in BOOLEAN, malformed \in BOOLEAN :
                  Import(s, t, result, pairs, trusted, malformed, observed)
      BY <1>4 DEF ImportAny
    <2> DEFINE u == IF f \in observed THEN Upsert(lc[f], s) ELSE lc[f]
    <2>2. /\ f \in rows'
          /\ \/ lc'[f] = u
             \/ lc'[f] = [u EXCEPT !.covering = s] /\ (u.covering = Null \/ u.covering < s)
      BY <1>0, <2>1 DEF Import, ImportCovers, Advances
    <2>3. /\ u \in Columns /\ u.first <= lc[f].first /\ u.last >= lc[f].last
          /\ u.covering = lc[f].covering /\ u.mitigated >= lc[f].mitigated
      BY <1>0, UpsertForward, RowNumbers
    <2> HIDE DEF u
    <2>4. CASE lc'[f] = u
      BY <1>0, <2>2, <2>3, <2>4, RowNumbers DEF Forward
    <2>5. CASE lc'[f] = [u EXCEPT !.covering = s] /\ (u.covering = Null \/ u.covering < s)
      <3>1. /\ lc'[f].first = u.first /\ lc'[f].last = u.last
            /\ lc'[f].mitigated = u.mitigated /\ lc'[f].covering = s
        BY <2>3, <2>5, CoverRow
      <3>. QED
        BY <1>0, <2>2, <2>3, <2>5, <3>1, RowNumbers, ScansAreNumbers DEF Forward, Null
    <2>. QED
      BY <2>2, <2>4, <2>5
  <1>5. ASSUME NEW s \in Scans, DeleteScan(s)
        PROVE  FALSE
    BY <1>5 DEF DeleteScan, Deletes, Terminal, LifecycleInv, TypeOK
  <1>6. ASSUME NEW g \in Findings, SetDisposition(g)
        PROVE  Forward(f)
    <2>1. /\ f \in rows' /\ lc'[f].first = lc[f].first /\ lc'[f].last = lc[f].last
          /\ lc'[f].covering = lc[f].covering /\ lc'[f].mitigated = lc[f].mitigated
      BY <1>0, <1>6, RowNumbers DEF SetDisposition, LifecycleInv, TypeOK, Columns
    <2>. QED
      BY <1>0, <2>1, RowNumbers DEF Forward
  <1>7. ASSUME NEW s \in Scans,
               \/ \E t \in Scopes : Create(s, t)
               \/ \E pairs \in SUBSET Findings : Record(s, pairs)
               \/ \E malformed \in BOOLEAN : EndIngest(s, malformed)
               \/ Fail(s) \/ CancelScan(s) \/ StopCancelled(s)
        PROVE  Forward(f)
    BY <1>1, <1>7 DEF Create, Record, EndIngest, Fail, CancelScan, StopCancelled
  <1>8. ASSUME NEW t \in Targets, DeleteTarget(t)
        PROVE  Forward(f)
    BY <1>1, <1>8 DEF DeleteTarget
  <1>. QED
    BY <1>2, <1>3, <1>4, <1>5, <1>6, <1>7, <1>8 DEF Next, Run

\* No late scan, retry or import, in whatever order they finish, makes a row
\* forget newer evidence, an older first sighting or a counted mitigation; only a
\* deletion may (ON CONFLICT of ingestFindingOccurrence, covering_update).
THEOREM EvidenceOnlyAdvances == Spec => EvidenceAdvances
  <1>1. ASSUME LifecycleInv, [Next]_vars
        PROVE  [\A f \in rows :
                  \/ \E s \in Scans : state[s] # "deleted" /\ state'[s] = "deleted"
                  \/ /\ f \in rows'
                     /\ lc'[f].first <= lc[f].first
                     /\ lc'[f].last >= lc[f].last
                     /\ lc'[f].covering >= lc[f].covering
                     /\ lc'[f].mitigated >= lc[f].mitigated]_vars
    BY <1>1, StepForward, Zenon DEF Forward, Deletes
  <1>. QED
    BY <1>1, LifecycleInvariant, PTL DEF Spec, EvidenceAdvances


-----------------------------------------------------------------------------
(* Digests do not repeat themselves                                        *)

\* A scan whose digest names a finding is not newer than the covering scan, and
\* one that calls it new is not older than its first sighting.
ToldIsCovered ==
    \A s \in Scans, f \in Findings :
        /\ digest[s][f] # "none" => f \in rows /\ s <= lc[f].covering
        /\ digest[s][f] = "new" => lc[f].first <= s

OneNew ==
    \A f \in Findings : \A s, x \in Scans :
        digest[s][f] = "new" /\ digest[x][f] = "new" => s = x

SeenBetweenFixes ==
    \A f \in Findings : \A s, later \in Scans :
        s < later /\ digest[s][f] = "fixed" /\ digest[later][f] = "fixed" =>
            \E x \in Scans : s <= x /\ x < later /\ f \in occ[x]

NewsInv == NoneDeleted => ToldIsCovered /\ OneNew /\ SeenBetweenFixes

\* What a step may do to the digests: nothing, forget one with its scan, or write
\* the one of a scan that completes.
Writes(s) ==
    /\ \A x \in Scans \ {s} : digest'[x] = digest[x]
    /\ UNCHANGED <<rows, occ, link>>
    /\ \A f \in Findings : digest'[s][f] # "none" =>
          /\ f \in rows /\ lc'[f].first = lc[f].first /\ lc'[f].covering = s
          /\ lc[f].covering = Null \/ lc[f].covering < s
          /\ digest'[s][f] = "new" => lc[f].first = s
          /\ digest'[s][f] = "fixed" => lc[f].covering # Null /\ f \in link[lc[f].covering]

LEMMA MarkCompleteWrites ==
    ASSUME LifecycleInv, NEW s \in Scans, MarkComplete(s)
    PROVE  digest' = digest \/ Writes(s)
  <1> DEFINE covered == {f \in Candidates(s) : Advances(lc[f], s, target[s] \in ScopesOf(f))}
  <1>1. CASE ~ (Exists(s) /\ state[s] # "cancelled")
    BY <1>1 DEF MarkComplete
  <1>2. CASE state[s] = "complete"
    <2>1. digest' = digest \/ digest' = [digest EXCEPT ![s] = digest[s]]
      BY <1>2 DEF MarkComplete, Digest
    <2>. QED
      BY <2>1 DEF LifecycleInv, TypeOK
  <1>3. CASE Exists(s) /\ state[s] # "cancelled" /\ state[s] # "complete"
    <2>1. /\ lc' = [f \in Findings |->
                       IF f \in covered THEN [lc[f] EXCEPT !.covering = s] ELSE lc[f]]
          /\ digest' = [digest EXCEPT ![s] = Digest(s, covered)]
          /\ UNCHANGED <<rows, occ, link>>
      BY <1>3 DEF MarkComplete
    <2>2. \A f \in Findings :
             digest'[s][f] = IF f \in covered /\ ~ lc[f].muted THEN Status(f, s) ELSE "none"
      BY <1>3, <2>1 DEF Digest, LifecycleInv, TypeOK
    <2>3. ASSUME NEW f \in Findings, digest'[s][f] # "none"
          PROVE  /\ f \in rows /\ lc'[f].first = lc[f].first /\ lc'[f].covering = s
                 /\ lc[f].covering = Null \/ lc[f].covering < s
                 /\ digest'[s][f] = "new" => lc[f].first = s
                 /\ digest'[s][f] = "fixed" => lc[f].covering # Null /\ f \in link[lc[f].covering]
      <3>1. f \in covered /\ digest'[s][f] = Status(f, s)
        BY <2>2, <2>3
      <3>2. f \in rows /\ (lc[f].covering = Null \/ lc[f].covering < s)
        BY <3>1 DEF Candidates, Advances
      <3>3. lc'[f].first = lc[f].first /\ lc'[f].covering = s
        BY <2>1, <3>1, CoverRow, RowNumbers
      <3>4. /\ Status(f, s) = "new" => lc[f].first = s
            /\ Status(f, s) = "fixed" => lc[f].covering # Null /\ f \in link[lc[f].covering]
        BY DEF Status
      <3>. QED
        BY <3>1, <3>2, <3>3, <3>4
    <2>4. \A x \in Scans \ {s} : digest'[x] = digest[x]
      BY <2>1 DEF LifecycleInv, TypeOK
    <2>. QED
      BY <2>1, <2>3, <2>4 DEF Writes
  <1>. QED
    BY <1>1, <1>2, <1>3

LEMMA DigestMoves ==
    ASSUME LifecycleInv, Next, ~ Deletes
    PROVE  digest' = digest \/ \E s \in Scans : Writes(s)
  <1>1. ASSUME NEW s \in Scans, DeleteScan(s)
        PROVE  FALSE
    BY <1>1 DEF DeleteScan, Deletes, Terminal, LifecycleInv, TypeOK
  <1>2. ASSUME NEW s \in Scans,
               \/ \E t \in Scopes : Create(s, t)
               \/ \E pairs \in SUBSET Findings : Record(s, pairs)
               \/ \E f \in Findings : Ingest(s, f)
               \/ \E malformed \in BOOLEAN : EndIngest(s, malformed)
               \/ Fail(s) \/ CancelScan(s) \/ StopCancelled(s) \/ ImportAny(s)
        PROVE  digest' = digest
    BY <1>2 DEF Create, Record, Ingest, EndIngest, Fail, CancelScan, StopCancelled,
       ImportAny, Import
  <1>3. ASSUME (\E t \in Targets : DeleteTarget(t)) \/ (\E f \in Findings : SetDisposition(f))
        PROVE  digest' = digest
    BY <1>3 DEF DeleteTarget, SetDisposition
  <1>. QED
    BY <1>1, <1>2, <1>3, MarkCompleteWrites DEF Next, Run

\* Deleted rows stay deleted, so a history without one never had one; and
\* without deletions no occurrence disappears.
LEMMA NoneWasDeleted ==
    ASSUME LifecycleInv, Next, NoneDeleted'
    PROVE  NoneDeleted /\ ~ Deletes /\ \A x \in Scans : occ[x] \subseteq occ'[x]
  <1>1. ~ Deletes
    BY DEF NoneDeleted, Deletes
  <1>2. ASSUME NEW s \in Scans, DeleteScan(s)
        PROVE  FALSE
    BY <1>1, <1>2 DEF DeleteScan, Deletes, Terminal, LifecycleInv, TypeOK
  <1> DEFINE kept == /\ \A x \in Scans : state[x] = "deleted" => state'[x] = "deleted"
                     /\ \A x \in Scans : occ[x] \subseteq occ'[x]
  <1>3. ASSUME NEW s \in Scans, Run(s)
        PROVE  kept
    <2>1. CASE \E t \in Scopes : Create(s, t)
      BY <2>1, ScansAreNumbers DEF Create, LifecycleInv, TypeOK, ScansFit
    <2>2. CASE \E f \in Findings : Ingest(s, f)
      BY <2>2 DEF Ingest, LifecycleInv, TypeOK
    <2>3. CASE \/ \E pairs \in SUBSET Findings : Record(s, pairs)
               \/ \E malformed \in BOOLEAN : EndIngest(s, malformed)
      BY <2>3 DEF Record, EndIngest
    <2>4. CASE MarkComplete(s)
      BY <2>4 DEF MarkComplete, Exists, LifecycleInv, TypeOK
    <2>5. CASE Fail(s) \/ CancelScan(s) \/ StopCancelled(s)
      BY <2>5 DEF Fail, CancelScan, StopCancelled, LifecycleInv, TypeOK
    <2>. QED
      BY <1>3, <2>1, <2>2, <2>3, <2>4, <2>5 DEF Run
  <1>4. ASSUME NEW s \in Scans, ImportAny(s)
        PROVE  kept
    <2>1. state[s] = "absent" /\ \A x \in Scans \ {s} : state'[x] = state[x] /\ occ'[x] = occ[x]
      BY <1>4 DEF ImportAny, Import, LifecycleInv, TypeOK
    <2>2. occ[s] = {}
      BY <2>1 DEF LifecycleInv, ScansFit, Exists
    <2>. QED
      BY <2>1, <2>2
  <1>5. ASSUME (\E t \in Targets : DeleteTarget(t)) \/ (\E f \in Findings : SetDisposition(f))
        PROVE  kept
    BY <1>5 DEF DeleteTarget, SetDisposition
  <1>6. kept
    BY <1>2, <1>3, <1>4, <1>5 DEF Next
  <1>. QED
    BY <1>1, <1>6 DEF NoneDeleted


LEMMA InitNews == Init => NewsInv
  BY DEF Init, NewsInv, ToldIsCovered, OneNew, SeenBetweenFixes, Silence

\* The step of a scan that announces something.
LEMMA WritesNews ==
    ASSUME LifecycleInv, ToldIsCovered, OneNew, SeenBetweenFixes,
           \A f \in rows : Forward(f), LifecycleInv', NEW s \in Scans, Writes(s)
    PROVE  ToldIsCovered' /\ OneNew' /\ SeenBetweenFixes'
  <1>0. rows \subseteq Findings
    BY DEF LifecycleInv, TypeOK
  \* Every finding that was announced before is announced again only by a newer scan.
  <1>1. ASSUME NEW f \in Findings, NEW x \in Scans \ {s},
               digest[x][f] # "none", digest'[s][f] # "none"
        PROVE  lc[f].covering \in Scans /\ x <= lc[f].covering /\ lc[f].covering < s
    <2>1. x <= lc[f].covering
      BY <1>1 DEF ToldIsCovered
    <2>2. lc[f].covering \in ScanRefs
      BY DEF LifecycleInv, TypeOK, Columns
    <2>3. lc[f].covering # Null
      BY <2>1, ScansAreNumbers DEF Null
    <2>4. lc[f].covering < s
      BY <1>1, <2>3 DEF Writes
    <2>. QED
      BY <2>1, <2>2, <2>3, <2>4 DEF ScanRefs
  <1>2. ToldIsCovered'
    <2> SUFFICES ASSUME NEW x \in Scans, NEW f \in Findings
                 PROVE  /\ digest'[x][f] # "none" => f \in rows' /\ x <= lc'[f].covering
                        /\ digest'[x][f] = "new" => lc'[f].first <= x
      BY DEF ToldIsCovered
    <2>1. CASE x = s
      BY <2>1, ScansAreNumbers DEF Writes
    <2>2. CASE x # s /\ digest[x][f] # "none"
      <3>1. /\ f \in rows /\ x <= lc[f].covering
            /\ digest[x][f] = "new" => lc[f].first <= x
            /\ digest'[x] = digest[x]
        BY <2>2 DEF ToldIsCovered, Writes
      <3>2. Forward(f)
        BY <3>1
      <3>3. /\ lc[f].first \in Nat /\ lc[f].covering \in Nat /\ x \in Nat
            /\ lc'[f].first \in Nat /\ lc'[f].covering \in Nat
        BY ScansAreNumbers DEF LifecycleInv, TypeOK, Columns
      <3>. QED
        BY <3>1, <3>2, <3>3 DEF Forward
    <2>3. CASE x # s /\ digest[x][f] = "none"
      BY <2>3 DEF Writes
    <2>. QED
      BY <2>1, <2>2, <2>3
  <1>3. OneNew'
    <2>1. ASSUME NEW f \in Findings, NEW x \in Scans \ {s},
                 digest[x][f] = "new", digest'[s][f] = "new"
          PROVE  FALSE
      <3>1. lc[f].covering \in Scans /\ x <= lc[f].covering /\ lc[f].covering < s
        BY <1>1, <2>1
      <3>2. lc[f].first = s /\ lc[f].first <= x
        BY <2>1 DEF Writes, ToldIsCovered
      <3>3. x \in Nat /\ s \in Nat /\ lc[f].covering \in Nat
        BY <3>1, ScansAreNumbers
      <3>. QED
        BY <3>1, <3>2, <3>3
    <2>. QED
      BY <2>1 DEF OneNew, Writes
  <1>4. SeenBetweenFixes'
    <2> SUFFICES ASSUME NEW f \in Findings, NEW x \in Scans, NEW later \in Scans, x < later,
                        digest'[x][f] = "fixed", digest'[later][f] = "fixed"
                 PROVE  \E y \in Scans : x <= y /\ y < later /\ f \in occ'[y]
      BY DEF SeenBetweenFixes
    <2>1. occ' = occ /\ \A y \in Scans : link[y] \subseteq occ[y]
      BY DEF Writes, LifecycleInv, ScansFit
    <2>2. CASE x # s /\ later # s
      BY <2>1, <2>2 DEF SeenBetweenFixes, Writes
    <2>3. CASE later = s
      <3>1. x # s /\ digest[x][f] = "fixed"
        BY <2>3, ScansAreNumbers DEF Writes
      <3>2. lc[f].covering \in Scans /\ x <= lc[f].covering /\ lc[f].covering < s
        BY <1>1, <2>3, <3>1
      <3>3. f \in link[lc[f].covering]
        BY <2>3 DEF Writes
      <3>. QED
        BY <2>1, <2>3, <3>2, <3>3
    <2>4. CASE x = s
      <3>1. later # s /\ digest[later][f] = "fixed"
        BY <2>4, ScansAreNumbers DEF Writes
      <3>2. lc[f].covering \in Scans /\ later <= lc[f].covering /\ lc[f].covering < s
        BY <1>1, <2>4, <3>1
      <3>3. later \in Nat /\ s \in Nat /\ lc[f].covering \in Nat
        BY <3>2, ScansAreNumbers
      <3>. QED
        BY <2>4, <3>2, <3>3
    <2>. QED
      BY <2>2, <2>3, <2>4
  <1>. QED
    BY <1>2, <1>3, <1>4

LEMMA StepNews == LifecycleInv /\ LifecycleInv' /\ NewsInv /\ [Next]_vars => NewsInv'
  <1> SUFFICES ASSUME LifecycleInv, LifecycleInv', NewsInv, [Next]_vars, NoneDeleted'
               PROVE  ToldIsCovered' /\ OneNew' /\ SeenBetweenFixes'
    BY DEF NewsInv
  <1>1. CASE UNCHANGED vars
    BY <1>1 DEF vars, NewsInv, NoneDeleted, ToldIsCovered, OneNew, SeenBetweenFixes
  <1>2. CASE Next
    <2>1. NoneDeleted /\ ~ Deletes /\ \A x \in Scans : occ[x] \subseteq occ'[x]
      BY <1>2, NoneWasDeleted
    <2>2. ToldIsCovered /\ OneNew /\ SeenBetweenFixes
      BY <2>1 DEF NewsInv
    <2>3. \A f \in rows : Forward(f)
      BY <1>2, <2>1, StepForward
    <2>4. CASE digest' = digest
      <3>1. OneNew' /\ SeenBetweenFixes'
        BY <2>1, <2>2, <2>4 DEF OneNew, SeenBetweenFixes
      <3>2. ASSUME NEW x \in Scans, NEW f \in Findings, digest[x][f] # "none"
            PROVE  /\ f \in rows' /\ x <= lc'[f].covering
                   /\ digest[x][f] = "new" => lc'[f].first <= x
        <4>1. /\ f \in rows /\ x <= lc[f].covering
              /\ digest[x][f] = "new" => lc[f].first <= x
          BY <2>2, <3>2 DEF ToldIsCovered
        <4>2. /\ lc[f].first \in Nat /\ lc[f].covering \in Nat /\ x \in Nat
              /\ lc'[f].first \in Nat /\ lc'[f].covering \in Nat
          BY ScansAreNumbers DEF LifecycleInv, TypeOK, Columns
        <4>. QED
          BY <2>3, <4>1, <4>2 DEF Forward
      <3>3. ToldIsCovered'
        BY <2>4, <3>2 DEF ToldIsCovered
      <3>. QED
        BY <3>1, <3>3
    <2>5. CASE \E s \in Scans : Writes(s)
      BY <2>2, <2>3, <2>5, WritesNews
    <2>. QED
      BY <1>2, <2>1, <2>4, <2>5, DigestMoves
  <1>. QED
    BY <1>1, <1>2

\* As long as no scan is deleted, a finding is announced as new by one digest at
\* most, and as fixed again only after it was seen again, although scans overlap,
\* complete out of order, are retried and imported (digest_rows in MarkComplete).
THEOREM NewsStaysToldOnce == Spec => []NewsIsToldOnce
  <1>1. Spec => []NewsInv
    BY LifecycleInvariant, InitNews, StepNews, PTL DEF Spec
  <1>2. NewsInv => NewsIsToldOnce
    <2> SUFFICES ASSUME NewsInv, NoneDeleted PROVE NewsIsToldOnce
      BY DEF NewsIsToldOnce, NewOnce, FixedOnce
    <2>1. OneNew /\ SeenBetweenFixes
      BY DEF NewsInv
    <2>2. ASSUME NEW f \in Findings
          PROVE  Cardinality({s \in Scans : digest[s][f] = "new"}) <= 1
      <3> DEFINE S == {s \in Scans : digest[s][f] = "new"}
      <3>1. CASE S = {}
        BY <3>1, FS_EmptySet
      <3>2. CASE S # {}
        <4>1. PICK s : S = {s}
          BY <2>1, <3>2 DEF OneNew
        <4>2. Cardinality(S) = 1
          BY <4>1, FS_Singleton
        <4>. QED
          BY <4>2
      <3>. QED
        BY <3>1, <3>2
    <2>3. FixedOnce
      BY <2>1 DEF SeenBetweenFixes, FixedOnce
    <2>. QED
      BY <2>2, <2>3 DEF NewsIsToldOnce, NewOnce
  <1>. QED
    BY <1>1, <1>2, PTL

-----------------------------------------------------------------------------
(* Scans one after another                                                 *)

\* One scope is scanned, one scan at a time, and scans are deleted in between.
\* Runs may fail, be cancelled, skip records and complete twice.
OneAfterAnother ==
    Targets = {} /\ Features \cap {"overlap", "midrun", "import", "target"} = {}

Observers(f) == {x \in Scans : f \in link[x]}

\* The complete scans with evidence about f.
Evidence(f) == {c \in Scans : state[c] = "complete" /\ f \in link[c] \cup Claims(c)}

\* Those among them that come after a sighting.
Covers(f) == {c \in Evidence(f) : \E x \in Observers(f) : x <= c}

\* The scan in flight is the newest there is.
Solo ==
    /\ \A s \in Scans : state[s] = "running" => InFlight(s)
    /\ \A s \in Scans : InFlight(s) => s = clock /\ Exists(s)

CoveringIsLast(f) == lc[f].covering = Last(Covers(f))

\* A row that the scan in flight has observed points at it, and does so as
\* first sighting only if there is no other.
NewestIsLast(f) ==
    \A s \in Scans : InFlight(s) =>
        /\ f \in link[s] => lc[f].last = s
        /\ lc[f].first = s => \A x \in Observers(f) : x = s

\* Every observation is, or may still become, one of a complete scan.
Settled(f) == \A x \in Observers(f) : state[x] = "complete" \/ InFlight(x)

Explained(f) ==
    Settled(f) =>
        /\ lc[f].first = First(Observers(f)) /\ lc[f].last = Last(Observers(f))
        /\ lc[f].mitigated = Cardinality(Comebacks(Observers(f), Evidence(f)))

HistoryInv == Solo /\ \A f \in rows : CoveringIsLast(f) /\ NewestIsLast(f) /\ Explained(f)

\* There is one scope.
LEMMA OneScope ==
    ASSUME OneAfterAnother, LifecycleInv
    PROVE  \A s \in Scans : target[s] = AdHoc /\ scope[s] = AdHoc
  BY DEF OneAfterAnother, LifecycleInv, TypeOK, Scopes

\* What there is of a row is the evidence of scans up to now.
LEMMA RowFacts ==
    ASSUME OneAfterAnother, LifecycleInv, NEW f \in rows
    PROVE  /\ f \in Findings /\ lc[f] \in Columns
           /\ Observers(f) \subseteq Scans /\ Observers(f) # {}
           /\ Evidence(f) \subseteq Scans /\ Covers(f) \subseteq Evidence(f)
           /\ lc[f].first \in Observers(f) /\ lc[f].last \in Observers(f)
           /\ \A x \in Observers(f) \cup Evidence(f) : x <= clock
           /\ AdHoc \in ScopesOf(f)
           /\ Covering(f, Null) = Evidence(f)
  <1>1. f \in Findings /\ lc[f] \in Columns
    BY DEF LifecycleInv, TypeOK
  <1>2. Observers(f) \subseteq Scans /\ Evidence(f) \subseteq Scans /\ Covers(f) \subseteq Evidence(f)
    BY DEF Observers, Evidence, Covers
  <1>3. lc[f].first \in Observers(f) /\ lc[f].last \in Observers(f)
    BY DEF LifecycleInv, Pointed, Observers
  <1>4. \A x \in Observers(f) \cup Evidence(f) : x <= clock
    BY DEF LifecycleInv, ScansFit, Observers, Evidence, Exists
  <1>5. AdHoc \in ScopesOf(f)
    BY <1>3, OneScope DEF ScopesOf, Observers
  <1>6. Covering(f, Null) = Evidence(f)
    <2>1. Scans \ {Null} = Scans
      BY ScansAreNumbers DEF Null
    <2>2. \A s \in Scans : \E x \in Scans : f \in link[x] /\ target[x] = target[s]
      BY <1>3, OneScope DEF Observers
    <2>. QED
      BY <2>1, <2>2 DEF Covering, Evidence
  <1>. QED
    BY <1>1, <1>2, <1>3, <1>4, <1>5, <1>6

\* A row whose evidence and columns stay as they are stays explained.
LEMMA SameRow ==
    ASSUME OneAfterAnother, LifecycleInv, HistoryInv, NEW f \in rows,
           Observers(f)' = Observers(f), Evidence(f)' = Evidence(f),
           \E m \in BOOLEAN : lc'[f] = [lc[f] EXCEPT !.muted = m],
           \A s \in Observers(f) : InFlight(s)' => InFlight(s),
           \A s \in Observers(f) : state'[s] = "complete" => state[s] = "complete" \/ InFlight(s)
    PROVE  CoveringIsLast(f)' /\ NewestIsLast(f)' /\ Explained(f)'
  <1>1. /\ lc'[f].first = lc[f].first /\ lc'[f].last = lc[f].last
        /\ lc'[f].covering = lc[f].covering /\ lc'[f].mitigated = lc[f].mitigated
    BY RowFacts DEF Columns
  <1>2. CoveringIsLast(f) /\ NewestIsLast(f) /\ Explained(f)
    BY DEF HistoryInv
  <1>3. Covers(f)' = Covers(f)
    BY DEF Covers
  <1>4. CoveringIsLast(f)'
    BY <1>1, <1>2, <1>3 DEF CoveringIsLast
  <1>5. NewestIsLast(f)'
    <2>1. lc[f].first \in Observers(f)
      BY RowFacts
    <2>2. \A s \in Scans : f \in link[s] <=> s \in Observers(f)
      BY DEF Observers
    <2>3. \A s \in Scans : f \in link'[s] <=> s \in Observers(f)'
      BY DEF Observers
    <2>. QED
      BY <1>1, <1>2, <2>1, <2>2, <2>3 DEF NewestIsLast
  <1>6. Explained(f)'
    <2>1. Settled(f)' => Settled(f)
      BY DEF Settled
    <2>2. Comebacks(Observers(f), Evidence(f))' = Comebacks(Observers(f), Evidence(f))
      BY DEF Comebacks
    <2>. QED
      BY <1>1, <1>2, <2>1, <2>2 DEF Explained
  <1>. QED
    BY <1>4, <1>5, <1>6

\* One more observation of a finding: the scan is a return if the last evidence
\* before it was an absence.
LEMMA OneMoreReturn ==
    ASSUME NEW s \in Scans, NEW covered \in SUBSET Scans, NEW present \in SUBSET covered,
           present # {}, \A x \in covered : x < s
    PROVE  Comebacks(present \cup {s}, covered) =
               IF Last(present) = Last(covered) THEN Comebacks(present, covered)
               ELSE Comebacks(present, covered) \cup {s}
  <1>1. Scans \subseteq Nat
    BY ScansAreNumbers
  <1>2. /\ Last(present) \in present /\ \A x \in present : x <= Last(present)
        /\ Last(covered) \in covered /\ \A x \in covered : x <= Last(covered)
    BY LastIsGreatest
  <1>. DEFINE p == Last(present)
              c == Last(covered)
  <1>7. /\ p \in Nat /\ c \in Nat /\ p <= c /\ c < s /\ s \in Nat
        /\ \A x \in covered : x \in Nat /\ x <= c
        /\ \A x \in present : x \in Nat /\ x <= p
    BY <1>1, <1>2
  <1>3. ASSUME NEW x \in present
        PROVE  x \in Comebacks(present \cup {s}, covered) <=> x \in Comebacks(present, covered)
    BY <1>1 DEF Comebacks
  <1>4. ASSUME s \in Comebacks(present \cup {s}, covered)
        PROVE  p # c
    <2>1. PICK gap \in covered \ (present \cup {s}) :
             \A x \in present \cup {s} : x < s => x < gap
      BY <1>4 DEF Comebacks
    <2>2. p < gap
      BY <1>2, <1>7, <2>1
    <2>3. gap \in Nat /\ gap <= c
      BY <1>7, <2>1
    <2>. HIDE DEF p, c
    <2>. QED
      BY <1>7, <2>2, <2>3
  <1>5. ASSUME p # c
        PROVE  s \in Comebacks(present \cup {s}, covered)
    <2>1. c \notin present
      <3>. HIDE DEF p, c
      <3>1. c \in present => c <= p
        BY <1>7
      <3>. QED
        BY <1>5, <1>7, <3>1
    <2>2. \A x \in present \cup {s} : x < s => x < c
      <3>. HIDE DEF p, c
      <3>1. p < c
        BY <1>5, <1>7
      <3>2. \A x \in present : x < c
        BY <1>7, <3>1
      <3>3. ~ (s < s)
        BY <1>7
      <3>. QED
        BY <3>2, <3>3
    <2>3. p \in present /\ c \in covered \ (present \cup {s}) /\ p < c
      <3>1. p \in present /\ c \in covered
        BY <1>2
      <3>2. p < c
        <4>. HIDE DEF p, c
        <4>. QED
          BY <1>5, <1>7
      <3>3. c # s
        <4>. HIDE DEF p, c
        <4>. QED
          BY <1>7
      <3>. QED
        BY <2>1, <3>1, <3>2, <3>3
    <2>. HIDE DEF p, c
    <2>. QED
      BY <1>7, <2>2, <2>3 DEF Comebacks
  <1>6. /\ Comebacks(present \cup {s}, covered) \subseteq present \cup {s}
        /\ Comebacks(present, covered) \subseteq present
    BY DEF Comebacks
  <1>. QED
    BY <1>3, <1>4, <1>5, <1>6

\* Evidence that is newer than every observation makes nothing a return.
LEMMA LateEvidence ==
    ASSUME NEW s \in Scans, NEW covered \in SUBSET Scans, NEW present \in SUBSET Scans,
           \A x \in present : x <= s
    PROVE  Comebacks(present, covered \cup {s}) = Comebacks(present, covered)
  <1>1. \A x \in present : ~ (s < x)
    BY ScansAreNumbers
  <1>. QED
    BY <1>1 DEF Comebacks

LEMMA ObserveFact ==
    ASSUME NEW s \in Scans, NEW S \in SUBSET Scans, S # {}, \A x \in S : x < s
    PROVE  First(S \cup {s}) = First(S) /\ Last(S \cup {s}) = s
  <1>1. Scans \subseteq Nat
    BY ScansAreNumbers
  <1>2. First(S) \in S /\ \A x \in S : First(S) <= x
    BY FirstIsLeast
  <1>3. /\ First(S \cup {s}) \in S \cup {s} /\ \A x \in S \cup {s} : First(S \cup {s}) <= x
        /\ Last(S \cup {s}) \in S \cup {s} /\ \A x \in S \cup {s} : x <= Last(S \cup {s})
    BY FirstIsLeast, LastIsGreatest
  <1>4. First(S) \in Nat /\ s \in Nat /\ First(S \cup {s}) \in Nat /\ Last(S \cup {s}) \in Nat
    BY <1>1, <1>2, <1>3
  <1>5. First(S \cup {s}) <= First(S) /\ First(S) < s
    BY <1>2, <1>3
  <1>6. First(S \cup {s}) \in S
    BY <1>3, <1>4, <1>5
  <1>7. First(S) <= First(S \cup {s})
    BY <1>2, <1>6
  <1>8. s <= Last(S \cup {s})
    BY <1>3
  <1>9. Last(S \cup {s}) \in S => Last(S \cup {s}) < s
    OBVIOUS
  <1>. QED
    BY <1>3, <1>4, <1>5, <1>7, <1>8, <1>9

LEMMA Single == ASSUME NEW s \in Scans PROVE First({s}) = s /\ Last({s}) = s
  <1>1. First({s}) \in {s} /\ Last({s}) \in {s}
    BY FirstIsLeast, LastIsGreatest
  <1>. QED
    BY <1>1

\* A run before its completion is no evidence yet.
LEMMA InFlightFacts ==
    ASSUME LifecycleInv, HistoryInv, NEW s \in Scans, InFlight(s)
    PROVE  /\ s = clock /\ Exists(s)
           /\ \A x \in Scans : InFlight(x) => x = s
           /\ stage[s] \in {"poll", "ingest"} => state[s] # "complete"
  BY DEF HistoryInv, Solo, LifecycleInv, ScansFit, InFlight

LEMMA IngestExplains ==
    ASSUME OneAfterAnother, LifecycleInv, HistoryInv,
           NEW s \in Scans, NEW f \in Findings, Ingest(s, f)
    PROVE  CoveringIsLast(f)' /\ NewestIsLast(f)' /\ Explained(f)'
  <1>. DEFINE obs == Observers(f)
              ev  == Evidence(f)
              r   == lc[f]
  <1>1. /\ InFlight(s) /\ state[s] # "complete" /\ s = clock
        /\ \A x \in Scans : InFlight(x) => x = s
    BY InFlightFacts DEF Ingest, InFlight
  <1>2. Observers(f)' = obs \cup {s} /\ obs \subseteq Scans
    BY DEF Ingest, Observers, LifecycleInv, TypeOK
  <1>3. Evidence(f)' = ev /\ ev \subseteq Scans /\ s \notin ev
    BY <1>1 DEF Ingest, Evidence, Claims, scanVars, LifecycleInv, TypeOK
  <1>4. lc'[f] = Upsert(r, s) /\ r \in Columns
    BY DEF Ingest, LifecycleInv, TypeOK
  <1>5. state' = state /\ \A x \in Scans : InFlight(x)' <=> InFlight(x)
    BY DEF Ingest, InFlight
  <1>6. Scans \subseteq Nat /\ Null \notin Scans
    BY ScansAreNumbers DEF Null
  <1>7. \A x \in obs \cup ev : x <= s
    BY <1>1 DEF LifecycleInv, ScansFit, Observers, Evidence, Exists
  <1>8. Covers(f)' = Covers(f) /\ Covers(f) \subseteq ev
    <2>1. ASSUME NEW c \in ev PROVE ~ (s <= c)
      <3>1. c \in Nat /\ s \in Nat /\ c <= s /\ c # s
        BY <1>3, <1>6, <1>7
      <3>. QED
        BY <3>1
    <2>. QED
      BY <1>2, <1>3, <2>1 DEF Covers
  <1>9. CASE f \notin rows
    <2>1. r = Blank /\ obs = {}
      BY <1>9 DEF LifecycleInv, UnseenIsBlank, ScansFit, Observers
    <2>2. /\ lc'[f].first = s /\ lc'[f].last = s /\ lc'[f].covering = Null /\ lc'[f].mitigated = 0
      BY <1>4, <2>1 DEF Upsert, Blank, Null
    <2>3. Covers(f) = {}
      BY <2>1 DEF Covers
    <2>4. CoveringIsLast(f)'
      BY <1>8, <2>2, <2>3 DEF CoveringIsLast, Last
    <2>5. NewestIsLast(f)'
      BY <1>1, <1>2, <1>5, <2>1, <2>2 DEF NewestIsLast
    <2>6. Comebacks({s}, ev) = {}
      <3>1. ASSUME NEW gap \in ev, s < gap, gap < s PROVE FALSE
        <4>1. gap \in Nat /\ s \in Nat
          BY <1>3, <1>6
        <4>. QED
          BY <3>1, <4>1
      <3>. QED
        BY <3>1 DEF Comebacks
    <2>7. Explained(f)'
      <3>1. Comebacks(Observers(f), Evidence(f))' = Comebacks({s}, ev)
        BY <1>2, <1>3, <2>1 DEF Comebacks
      <3>2. First(Observers(f))' = s /\ Last(Observers(f))' = s
        BY <1>2, <2>1, Single DEF First, Last
      <3>3. Cardinality({}) = 0
        BY FS_EmptySet
      <3>. QED
        BY <2>2, <2>6, <3>1, <3>2, <3>3 DEF Explained
    <2>. QED
      BY <2>4, <2>5, <2>7
  <1>10. CASE f \in rows
    <2>1. /\ CoveringIsLast(f) /\ NewestIsLast(f) /\ Explained(f)
          /\ r.first \in obs /\ r.last \in obs /\ obs # {}
      BY <1>10, RowFacts DEF HistoryInv
    <2>2. /\ r.first \in Nat /\ r.last \in Nat /\ s \in Nat
          /\ r.first <= s /\ r.last <= s /\ r.first # Null /\ r.last # Null
      BY <1>2, <1>6, <1>7, <2>1
    <2>3. s \in obs => r.last = s
      BY <1>1, <2>1 DEF NewestIsLast, Observers
    <2>4. CASE s \in obs
      <3>1. lc'[f] = r
        <4>1. r.last # Null /\ ~ (r.last < s) /\ r.first # Null /\ ~ (s < r.first)
          BY <2>2, <2>3, <2>4
        <4>2. Upsert(r, s) = [r EXCEPT !.first = r.first, !.last = r.last, !.mitigated = r.mitigated]
          BY <4>1 DEF Upsert
        <4>. QED
          BY <1>4, <4>2 DEF Columns
      <3>2. rows' = rows
        BY <1>10 DEF Ingest
      <3>3. Observers(f)' = obs
        BY <1>2, <2>4
      <3>4. \E m \in BOOLEAN : lc'[f] = [lc[f] EXCEPT !.muted = m]
        BY <3>1, <1>4 DEF Columns
      <3>5. Evidence(f)' = Evidence(f) /\ Observers(f)' = Observers(f)
        BY <1>3, <3>3
      <3>6. \A x \in Observers(f) : InFlight(x)' => InFlight(x)
        BY <1>2, <1>5
      <3>7. \A x \in Observers(f) : state'[x] = "complete" => state[x] = "complete" \/ InFlight(x)
        BY <1>5
      <3>. HIDE DEF obs, ev, r
      <3>. QED
        BY <1>10, <3>4, <3>5, <3>6, <3>7, SameRow
    <2>5. CASE s \notin obs
      <3>1. ASSUME NEW x \in obs PROVE x < s
        <4>1. x \in Nat /\ s \in Nat /\ x <= s /\ x # s
          BY <1>2, <1>6, <1>7, <2>5
        <4>. QED
          BY <4>1
      <3>2. r.first < s /\ r.last < s
        BY <2>1, <3>1
      <3>3. lc'[f].first = r.first /\ lc'[f].last = s /\ lc'[f].covering = r.covering
        BY <1>4, <2>2, <3>2, UpsertRow
      <3>4. CoveringIsLast(f)'
        <4>1. (Last(Covers(f)))' = Last(Covers(f))
          BY <1>8 DEF Last
        <4>. QED
          BY <2>1, <3>3, <4>1 DEF CoveringIsLast
      <3>5. NewestIsLast(f)'
        BY <1>1, <1>5, <3>2, <3>3, <2>2 DEF NewestIsLast
      <3>6. ASSUME Settled(f)'
            PROVE  /\ lc'[f].first = First(Observers(f))' /\ lc'[f].last = Last(Observers(f))'
                   /\ lc'[f].mitigated = Cardinality(Comebacks(Observers(f), Evidence(f)))'
        <4>1. \A x \in obs : state[x] = "complete"
          BY <1>1, <1>2, <1>5, <2>5, <3>6 DEF Settled
        <4>2. obs \subseteq ev
          BY <4>1, <1>2 DEF Observers, Evidence
        <4>3. r.first = First(obs) /\ r.last = Last(obs) /\ r.mitigated = Cardinality(Comebacks(obs, ev))
          <5>1. Settled(f)
            BY <4>1 DEF Settled
          <5>. QED
            BY <2>1, <5>1 DEF Explained
        <4>4. First(obs \cup {s}) = First(obs) /\ Last(obs \cup {s}) = s
          BY <1>2, <2>1, <3>1, ObserveFact
        <4>5. ASSUME NEW x \in ev PROVE x < s
          <5>1. x \in Nat /\ s \in Nat /\ x <= s /\ x # s
            BY <1>3, <1>6, <1>7
          <5>. QED
            BY <5>1
        <4>6. /\ Last(obs) \in obs /\ \A x \in obs : x <= Last(obs)
              /\ Last(ev) \in ev /\ \A x \in ev : x <= Last(ev)
          BY <1>2, <1>3, <2>1, <4>2, LastIsGreatest
        <4>7. r.covering = Last(ev)
          <5>1. Last(ev) \in Covers(f)
            BY <4>2, <4>6 DEF Covers
          <5>2. Covers(f) \subseteq Scans
            BY <1>3, <1>8
          <5>3. Last(Covers(f)) \in Covers(f) /\ Last(ev) <= Last(Covers(f))
            BY <5>1, <5>2, LastIsGreatest
          <5>4. Last(Covers(f)) \in ev /\ Last(Covers(f)) <= Last(ev)
            BY <1>8, <4>6, <5>3
          <5>5. Last(ev) \in Nat /\ Last(Covers(f)) \in Nat
            BY <1>3, <1>6, <4>6, <5>4
          <5>. QED
            BY <2>1, <5>3, <5>4, <5>5 DEF CoveringIsLast
        <4>8. r.covering # Null /\ r.covering < s /\ r.covering \in Nat
          BY <1>3, <1>6, <4>5, <4>6, <4>7
        <4>9. lc'[f].mitigated = IF r.last # r.covering THEN r.mitigated + 1 ELSE r.mitigated
          BY <1>4, <2>2, <3>2, <4>8 DEF Upsert, Columns
        <4>10. Comebacks(obs \cup {s}, ev) =
                  IF Last(obs) = Last(ev) THEN Comebacks(obs, ev) ELSE Comebacks(obs, ev) \cup {s}
          BY <1>3, <2>1, <4>2, <4>5, OneMoreReturn
        <4>11. IsFiniteSet(Comebacks(obs, ev)) /\ s \notin Comebacks(obs, ev)
          <5>1. Comebacks(obs, ev) \subseteq obs
            BY DEF Comebacks
          <5>. QED
            BY <1>2, <2>5, <5>1, LifecycleConstants, FS_Subset
        <4>12. Cardinality(Comebacks(obs, ev) \cup {s}) = Cardinality(Comebacks(obs, ev)) + 1
          BY <4>11, FS_AddElement
        <4>13. lc'[f].mitigated = Cardinality(Comebacks(obs \cup {s}, ev))
          BY <4>3, <4>7, <4>9, <4>10, <4>12
        <4>14. /\ First(Observers(f))' = First(obs \cup {s})
               /\ Last(Observers(f))' = Last(obs \cup {s})
               /\ Cardinality(Comebacks(Observers(f), Evidence(f)))' = Cardinality(Comebacks(obs \cup {s}, ev))
          BY <1>2, <1>3 DEF First, Last, Comebacks
        <4>. QED
          BY <3>3, <4>3, <4>4, <4>13, <4>14
      <3>. QED
        BY <3>4, <3>5, <3>6 DEF Explained
    <2>. QED
      BY <2>4, <2>5
  <1>. QED
    BY <1>9, <1>10
LEMMA MarkCompleteExplains ==
    ASSUME OneAfterAnother, LifecycleInv, HistoryInv,
           NEW s \in Scans, MarkComplete(s), NEW f \in rows
    PROVE  CoveringIsLast(f)' /\ NewestIsLast(f)' /\ Explained(f)'
  <1>. DEFINE covered == {g \in Candidates(s) : Advances(lc[g], s, target[s] \in ScopesOf(g))}
              obs == Observers(f)
              ev  == Evidence(f)
              r   == lc[f]
  <1>1. /\ InFlight(s) /\ s = clock
        /\ \A x \in Scans : InFlight(x) => x = s
    BY InFlightFacts DEF MarkComplete, InFlight
  <1>2. /\ f \in Findings /\ r \in Columns
        /\ obs \subseteq Scans /\ obs # {} /\ ev \subseteq Scans /\ Covers(f) \subseteq ev
        /\ r.first \in obs /\ r.last \in obs
        /\ \A x \in obs \cup ev : x <= s
        /\ target[s] \in ScopesOf(f)
    BY <1>1, RowFacts, OneScope
  <1>3. CoveringIsLast(f) /\ NewestIsLast(f) /\ Explained(f)
    BY DEF HistoryInv
  <1>4. Scans \subseteq Nat /\ Null \notin Scans
    BY ScansAreNumbers DEF Null
  <1>5. Observers(f)' = obs /\ \A x \in Scans : Claims(x)' = Claims(x)
    BY DEF MarkComplete, Observers, Claims, scanVars
  <1>6. \A x \in Scans : InFlight(x)' => InFlight(x)
    BY <1>1 DEF MarkComplete, InFlight, LifecycleInv, TypeOK
  <1>7. \A c \in Covers(f) : c \in Scans /\ c <= Last(Covers(f))
    BY <1>2, LastIsGreatest
  <1>8. CASE ~ (Exists(s) /\ state[s] # "cancelled")
    <2>1. state' = state /\ lc'[f] = [lc[f] EXCEPT !.muted = lc[f].muted] /\ r.muted \in BOOLEAN
      BY <1>2, <1>8 DEF MarkComplete, Columns
    <2>2. Evidence(f)' = ev
      BY <1>5, <2>1 DEF MarkComplete, Evidence
    <2>. QED
      BY <1>5, <1>6, <2>1, <2>2, <1>2, SameRow
  <1>9. CASE state[s] = "complete"
    <2>1. state' = state
      BY <1>9 DEF MarkComplete, LifecycleInv, TypeOK
    <2>2. f \notin covered
      <3>1. SUFFICES ASSUME f \in covered PROVE FALSE
        OBVIOUS
      <3>2. f \in link[s] \cup Claims(s) /\ (r.covering = Null \/ r.covering < s)
        BY <3>1 DEF Candidates, Advances
      <3>3. s \in Covers(f)
        BY <1>2, <1>9, <3>2 DEF Covers, Evidence
      <3>4. s <= r.covering /\ r.covering \in Scans
        BY <1>2, <1>3, <1>7, <3>3, LastIsGreatest DEF CoveringIsLast
      <3>5. s \in Nat /\ r.covering \in Nat /\ r.covering < s
        BY <1>4, <3>2, <3>4
      <3>. QED
        BY <3>4, <3>5
    <2>3. lc'[f] = [lc[f] EXCEPT !.muted = lc[f].muted] /\ r.muted \in BOOLEAN
      BY <1>2, <1>9, <2>2 DEF MarkComplete, Exists, Columns
    <2>4. Evidence(f)' = ev
      BY <1>5, <2>1 DEF MarkComplete, Evidence
    <2>. QED
      BY <1>2, <1>5, <1>6, <2>1, <2>3, <2>4, SameRow
  <1>10. CASE Exists(s) /\ state[s] # "cancelled" /\ state[s] # "complete"
    <2>1. /\ state' = [state EXCEPT ![s] = "complete"]
          /\ lc'[f] = IF f \in covered THEN [r EXCEPT !.covering = s] ELSE r
          /\ link' = link /\ rows' = rows
      BY <1>2, <1>10 DEF MarkComplete
    <2>2. state'[s] = "complete" /\ \A x \in Scans \ {s} : state'[x] = state[x]
      BY <2>1 DEF LifecycleInv, TypeOK
    <2>3. s \notin ev
      BY <1>10 DEF Evidence
    <2>4. f \in covered <=> f \in link[s] \cup Claims(s)
      <3>1. r.covering = Null \/ r.covering < s
        <4>1. CASE Covers(f) = {}
          BY <1>3, <4>1 DEF CoveringIsLast, Last
        <4>2. CASE Covers(f) # {}
          <5>1. r.covering \in ev
            BY <1>2, <1>3, <4>2, LastIsGreatest DEF CoveringIsLast
          <5>2. r.covering \in Nat /\ s \in Nat /\ r.covering <= s /\ r.covering # s
            BY <1>2, <1>4, <2>3, <5>1
          <5>. QED
            BY <5>2
        <4>. QED
          BY <4>1, <4>2
      <3>. QED
        BY <1>2, <3>1 DEF Candidates, Advances
    <2>5. Evidence(f)' = IF f \in covered THEN ev \cup {s} ELSE ev
      BY <1>5, <2>1, <2>2, <2>4 DEF Evidence
    <2>. HIDE DEF covered
    <2>6. /\ lc'[f].first = r.first /\ lc'[f].last = r.last /\ lc'[f].mitigated = r.mitigated
          /\ lc'[f].covering = IF f \in covered THEN s ELSE r.covering
      BY <1>2, <2>1, CoverRow
    <2>7. CoveringIsLast(f)'
      <3>1. CASE f \in covered
        <4>1. Covers(f)' = Covers(f) \cup {s}
          BY <1>2, <1>5, <2>5, <3>1 DEF Covers
        <4>2. \A c \in Covers(f) : c < s
          BY <1>2, <1>4, <2>3
        <4>3. Last(Covers(f) \cup {s}) = s
          <5>1. CASE Covers(f) = {}
            BY <5>1, Single
          <5>2. CASE Covers(f) # {}
            <6>1. Covers(f) \subseteq Scans
              BY <1>2
            <6>. QED
              BY <4>2, <5>2, <6>1, ObserveFact
          <5>. QED
            BY <5>1, <5>2
        <4>4. Last(Covers(f))' = Last(Covers(f) \cup {s})
          BY <4>1 DEF Last
        <4>. QED
          BY <2>6, <3>1, <4>3, <4>4 DEF CoveringIsLast
      <3>2. CASE f \notin covered
        <4>1. Covers(f)' = Covers(f)
          BY <1>5, <2>5, <3>2 DEF Covers
        <4>2. Last(Covers(f))' = Last(Covers(f))
          BY <4>1 DEF Last
        <4>. QED
          BY <1>3, <2>6, <3>2, <4>2 DEF CoveringIsLast
      <3>. QED
        BY <3>1, <3>2
    <2>8. NewestIsLast(f)'
      BY <1>3, <1>5, <1>6, <2>1, <2>6 DEF NewestIsLast
    <2>9. ASSUME Settled(f)'
          PROVE  /\ lc'[f].first = First(Observers(f))' /\ lc'[f].last = Last(Observers(f))'
                 /\ lc'[f].mitigated = Cardinality(Comebacks(Observers(f), Evidence(f)))'
      <3>1. Settled(f)
        BY <1>1, <1>2, <1>5, <1>6, <2>2, <2>9 DEF Settled
      <3>2. /\ r.first = First(obs) /\ r.last = Last(obs)
            /\ r.mitigated = Cardinality(Comebacks(obs, ev))
        BY <1>3, <3>1 DEF Explained
      <3>3. Comebacks(obs, ev \cup {s}) = Comebacks(obs, ev)
        BY <1>2, LateEvidence
      <3>4. First(Observers(f))' = First(obs) /\ Last(Observers(f))' = Last(obs)
        BY <1>5 DEF First, Last
      <3>5. Comebacks(Observers(f), Evidence(f))' = Comebacks(obs, ev)
        <4>1. CASE f \in covered
          <5>1. Comebacks(Observers(f), Evidence(f))' = Comebacks(obs, ev \cup {s})
            BY <1>5, <2>5, <4>1 DEF Comebacks
          <5>. QED
            BY <3>3, <5>1
        <4>2. CASE f \notin covered
          BY <1>5, <2>5, <4>2 DEF Comebacks
        <4>. QED
          BY <4>1, <4>2
      <3>. QED
        BY <2>6, <3>2, <3>4, <3>5
    <2>. QED
      BY <2>7, <2>8, <2>9 DEF Explained
  <1>. QED
    BY <1>8, <1>9, <1>10

\* The repair recomputes a row from the complete scans that are left, and leaves
\* only those alone that nothing of the deleted scan went into.
LEMMA DeleteScanExplains ==
    ASSUME OneAfterAnother, LifecycleInv, HistoryInv,
           NEW s \in Scans, DeleteScan(s), NEW f \in rows'
    PROVE  CoveringIsLast(f)' /\ NewestIsLast(f)' /\ Explained(f)'
  <1>. DEFINE left    == Covering(f, s)
              present == {x \in Covering(f, s) : f \in link[x]}
  <1>1. \A x \in Scans : ~ InFlight(x) /\ ~ InFlight(x)'
    BY DEF DeleteScan, OneAfterAnother, InFlight
  <1>2. /\ f \in rows /\ f \in Findings /\ lc[f] \in Columns
        /\ f \in Affected(s) => present # {}
    BY DEF DeleteScan, LifecycleInv, TypeOK
  <1>3. /\ state'[s] = "deleted"
        /\ \A x \in Scans \ {s} : state'[x] = state[x] /\ Claims(x)' = Claims(x)
    BY DEF DeleteScan, LifecycleInv, TypeOK, Claims
  <1>4. \A x \in Scans : f \in link'[x] <=> x # s /\ f \in link[x]
    <2>1. f \notin {g \in Affected(s) : {x \in Covering(g, s) : g \in link[x]} = {}}
      BY <1>2
    <2>2. \A x \in Scans : link'[x] = IF x = s THEN {}
             ELSE link[x] \ {g \in Affected(s) : {y \in Covering(g, s) : g \in link[y]} = {}}
      BY DEF DeleteScan
    <2>. QED
      BY <2>1, <2>2
  <1>5. lc'[f] = IF f \in Affected(s) THEN Timeline(present, left, lc[f].muted)
                 ELSE Unpoint(lc[f], s)
    BY <1>2 DEF DeleteScan
  <1>6. Scans \subseteq Nat /\ Null \notin Scans
    BY ScansAreNumbers DEF Null
  <1>7. CASE f \in Affected(s)
    <2>1. present # {} /\ present \subseteq left /\ left \subseteq Scans
      BY <1>2, <1>7 DEF Covering
    <2>2. Evidence(f)' = left
      <3>1. \A x \in Scans : target[x] = AdHoc
        BY OneScope
      <3>2. \E x \in Scans \ {s} : f \in link[x]
        BY <2>1 DEF Covering
      <3>3. left = {x \in Scans \ {s} : state[x] = "complete" /\ f \in link[x] \cup Claims(x)}
        BY <3>1, <3>2 DEF Covering
      <3>4. Evidence(f)' = {x \in Scans \ {s} : state[x] = "complete" /\ f \in link[x] \cup Claims(x)}
        BY <1>3, <1>4 DEF Evidence
      <3>. QED
        BY <3>3, <3>4
    <2>3. Observers(f)' = {x \in Scans \ {s} : f \in link[x]}
      BY <1>4 DEF Observers
    <2>4. /\ lc'[f].first = First(present) /\ lc'[f].last = Last(present)
          /\ lc'[f].covering = Last(left)
          /\ lc'[f].mitigated = Cardinality(Comebacks(present, left))
      BY <1>5, <1>7 DEF Timeline
    <2>5. present \subseteq Observers(f)'
      BY <2>3 DEF Covering
    <2>. HIDE DEF left, present
    <2>6. CoveringIsLast(f)'
      <3>1. /\ Last(left) \in left /\ \A x \in left : x <= Last(left)
        BY <2>1, LastIsGreatest
      <3>2. PICK x \in present : TRUE
        BY <2>1
      <3>3. Last(left) \in Covers(f)' /\ Covers(f)' \subseteq left
        BY <2>1, <2>2, <2>5, <3>1, <3>2 DEF Covers
      <3>4. Covers(f)' \subseteq Scans
        BY <2>1, <3>3
      <3>. DEFINE C == Covers(f)'
      <3>5. Last(C) \in C /\ \A y \in C : y <= Last(C)
        <4>. HIDE DEF C
        <4>. QED
          BY <3>3, <3>4, LastIsGreatest DEF C
      <3>6. Last(C) <= Last(left) /\ Last(left) <= Last(C) /\ Last(C) \in Nat /\ Last(left) \in Nat
        BY <1>6, <2>1, <3>1, <3>3, <3>5
      <3>7. Last(C) = Last(left)
        <4>. HIDE DEF C
        <4>. QED
          BY <3>6
      <3>8. Last(Covers(f))' = Last(C)
        BY DEF Last
      <3>. QED
        BY <2>4, <3>7, <3>8 DEF CoveringIsLast
    <2>7. NewestIsLast(f)'
      BY <1>1 DEF NewestIsLast
    <2>8. ASSUME Settled(f)'
          PROVE  Observers(f)' = present
      <3>1. \A x \in Observers(f)' : state'[x] = "complete" /\ x \in Scans
        BY <1>1, <2>3, <2>8 DEF Settled
      <3>2. \A x \in Observers(f)' : x \in left
        BY <1>4, <2>2, <2>3, <3>1 DEF Evidence
      <3>3. \A x \in Observers(f)' : x \in present
        BY <2>3, <3>2 DEF present, left
      <3>. QED
        BY <2>5, <3>3
    <2>9. Explained(f)'
      <3>1. Observers(f)' = present =>
              /\ First(Observers(f))' = First(present) /\ Last(Observers(f))' = Last(present)
              /\ Cardinality(Comebacks(Observers(f), Evidence(f)))' = Cardinality(Comebacks(present, left))
        BY <2>2 DEF First, Last, Comebacks
      <3>. QED
        BY <2>4, <2>8, <3>1 DEF Explained
    <2>. QED
      BY <2>6, <2>7, <2>9
  <1>8. CASE f \notin Affected(s)
    <2>1. f \notin link[s] /\ f \notin Claims(s) /\ s \notin {lc[f].first, lc[f].last, lc[f].covering}
      <3>1. target[s] \in ScopesOf(f)
        BY <1>2, RowFacts, OneScope
      <3>. QED
        BY <1>2, <1>8, <3>1 DEF Affected
    <2>2. Observers(f)' = Observers(f)
      BY <1>4, <2>1 DEF Observers
    <2>3. Evidence(f)' = Evidence(f)
      BY <1>3, <1>4, <2>1 DEF Evidence
    <2>4. lc'[f] = [lc[f] EXCEPT !.muted = lc[f].muted] /\ lc[f].muted \in BOOLEAN
      BY <1>2, <1>5, <1>8, <2>1 DEF Unpoint, Columns
    <2>5. \A x \in Observers(f) : state'[x] = state[x]
      BY <1>3, <2>1 DEF Observers
    <2>. QED
      BY <1>1, <1>2, <2>2, <2>3, <2>4, <2>5, SameRow DEF Observers
  <1>. QED
    BY <1>7, <1>8

LEMMA SoloStep ==
    ASSUME OneAfterAnother, LifecycleInv, Solo, [Next]_vars
    PROVE  Solo'
  <1>. USE DEF LifecycleInv, TypeOK, Solo, InFlight, Exists, scanVars
  <1>1. ASSUME NEW s \in Scans, NEW t \in Scopes, Create(s, t)
        PROVE  Solo'
    BY <1>1 DEF OneAfterAnother, Create
  <1>2. ASSUME NEW s \in Scans, NEW pairs \in SUBSET Findings, Record(s, pairs)
        PROVE  Solo'
    BY <1>2 DEF Record
  <1>3. ASSUME NEW s \in Scans, NEW f \in Findings, Ingest(s, f)
        PROVE  Solo'
    BY <1>3 DEF Ingest
  <1>4. ASSUME NEW s \in Scans, NEW malformed \in BOOLEAN, EndIngest(s, malformed)
        PROVE  Solo'
    BY <1>4 DEF EndIngest
  <1>5. ASSUME NEW s \in Scans, MarkComplete(s)
        PROVE  Solo'
    <2>1. /\ state' = state \/ state' = [state EXCEPT ![s] = "complete"]
          /\ Exists(s) /\ state[s] # "cancelled" => state' = [state EXCEPT ![s] = "complete"]
          /\ stage' = stage \/ stage' = [stage EXCEPT ![s] = "done"]
          /\ stage[s] = "mark" /\ clock' = clock
      BY <1>5 DEF MarkComplete
    <2>. QED
      BY <2>1
  <1>6. ASSUME NEW s \in Scans, Fail(s) \/ CancelScan(s) \/ StopCancelled(s)
        PROVE  Solo'
    BY <1>6 DEF Fail, CancelScan, StopCancelled
  <1>7. ASSUME NEW s \in Scans, DeleteScan(s)
        PROVE  Solo'
    BY <1>7 DEF OneAfterAnother, DeleteScan
  <1>8. CASE (\E f \in Findings : SetDisposition(f)) \/ UNCHANGED vars
    BY <1>8 DEF SetDisposition, vars
  <1>9. (\A s \in Scans : ~ ImportAny(s)) /\ \A t \in Targets : ~ DeleteTarget(t)
    BY DEF OneAfterAnother, ImportAny, Import, DeleteTarget
  <1>. QED
    BY <1>1, <1>2, <1>3, <1>4, <1>5, <1>6, <1>7, <1>8, <1>9 DEF Next, Run

LEMMA HistoryStep ==
    ASSUME OneAfterAnother, LifecycleInv, HistoryInv, [Next]_vars
    PROVE  HistoryInv'
  <1>. DEFINE Told(f) == CoveringIsLast(f)' /\ NewestIsLast(f)' /\ Explained(f)'
  <1>1. Solo'
    BY SoloStep DEF HistoryInv
  <1>2. \A f \in rows : lc[f].muted \in BOOLEAN /\ lc[f] = [lc[f] EXCEPT !.muted = lc[f].muted]
    BY RowFacts DEF Columns
  <1>3. ASSUME NEW s \in Scans, Run(s), ~ MarkComplete(s), \A f \in Findings : ~ Ingest(s, f)
        PROVE  \A f \in rows' : Told(f)
    <2>1. SUFFICES ASSUME NEW f \in rows'
                   PROVE  Told(f)
      OBVIOUS
    <2>2. /\ UNCHANGED <<link, rows, lc>>
          /\ \A x \in Scans \ {s} : state'[x] = state[x] /\ stage'[x] = stage[x] /\ Claims(x)' = Claims(x)
          /\ state[s] = "complete" => state'[s] = "complete" /\ Claims(s)' = Claims(s)
          /\ state[s] # "complete" => state'[s] # "complete"
          /\ InFlight(s)' => InFlight(s) \/ ~ Exists(s)
      <3>. USE DEF LifecycleInv, TypeOK, ScansFit, InFlight, Exists, Claims, scanVars
      <3>1. CASE \E t \in Scopes : Create(s, t)
        <4>1. PICK t \in Scopes : Create(s, t)
          BY <3>1
        <4>2. state[s] = "absent"
          <5>1. s \in Nat /\ clock \in Nat /\ s > clock
            BY <4>1, ScansAreNumbers DEF Create, ScanRefs, Null
          <5>2. ~ (s <= clock)
            BY <5>1
          <5>. QED
            BY <5>2
        <4>. QED
          BY <4>1, <4>2 DEF Create
      <3>2. CASE \E pairs \in SUBSET Findings : Record(s, pairs)
        BY <3>2 DEF Record
      <3>3. CASE \E malformed \in BOOLEAN : EndIngest(s, malformed)
        BY <3>3 DEF EndIngest
      <3>4. CASE Fail(s) \/ CancelScan(s) \/ StopCancelled(s)
        BY <3>4 DEF Fail, CancelScan, StopCancelled
      <3>. QED
        BY <1>3, <3>1, <3>2, <3>3, <3>4 DEF Run
    <2>3. f \in rows /\ lc'[f] = [lc[f] EXCEPT !.muted = lc[f].muted] /\ lc[f].muted \in BOOLEAN
      BY <1>2, <2>2
    <2>4. Observers(f)' = Observers(f) /\ Evidence(f)' = Evidence(f)
      BY <2>2 DEF Observers, Evidence
    <2>5. ~ Exists(s) => s \notin Observers(f)
      BY DEF LifecycleInv, ScansFit, Exists, Observers
    <2>6. \A x \in Observers(f) : InFlight(x)' => InFlight(x)
      BY <2>2, <2>5 DEF Observers, InFlight
    <2>7. \A x \in Observers(f) : state'[x] = "complete" => state[x] = "complete"
      BY <2>2 DEF Observers
    <2>. QED
      BY <2>3, <2>4, <2>6, <2>7, SameRow
  <1>4. ASSUME NEW s \in Scans, NEW g \in Findings, Ingest(s, g)
        PROVE  \A f \in rows' : Told(f)
    <2>1. SUFFICES ASSUME NEW f \in rows'
                   PROVE  Told(f)
      OBVIOUS
    <2>2. CASE f = g
      BY <1>4, <2>2, IngestExplains
    <2>3. CASE f # g
      <3>1. /\ f \in rows /\ UNCHANGED <<state, stage, trace, skipped>>
            /\ \A x \in Scans : f \in link'[x] <=> f \in link[x]
            /\ lc'[f] = lc[f]
        BY <1>4, <2>3 DEF Ingest, LifecycleInv, TypeOK, scanVars
      <3>2. Observers(f)' = Observers(f) /\ Evidence(f)' = Evidence(f)
        BY <3>1 DEF Observers, Evidence, Claims
      <3>3. \A x \in Observers(f) : InFlight(x)' => InFlight(x)
        BY <3>1 DEF InFlight
      <3>. QED
        BY <1>2, <3>1, <3>2, <3>3, SameRow
    <2>. QED
      BY <2>2, <2>3
  <1>5. ASSUME NEW s \in Scans, MarkComplete(s)
        PROVE  \A f \in rows' : Told(f)
    <2>1. rows' = rows
      BY <1>5 DEF MarkComplete
    <2>. QED
      BY <1>5, <2>1, MarkCompleteExplains
  <1>6. ASSUME NEW s \in Scans, DeleteScan(s)
        PROVE  \A f \in rows' : Told(f)
    BY <1>6, DeleteScanExplains
  <1>7. ASSUME (\E g \in Findings : SetDisposition(g)) \/ UNCHANGED vars
        PROVE  \A f \in rows' : Told(f)
    <2>1. SUFFICES ASSUME NEW f \in rows'
                   PROVE  Told(f)
      OBVIOUS
    <2>2. UNCHANGED <<state, stage, trace, skipped, link, rows>>
      BY <1>7 DEF SetDisposition, vars, scanVars
    <2>3. \E m \in BOOLEAN : lc'[f] = [lc[f] EXCEPT !.muted = m]
      <3>1. f \in rows /\ f \in Findings /\ lc[f] \in Columns
        BY <2>2, RowFacts
      <3>2. CASE UNCHANGED vars
        BY <1>2, <3>1, <3>2 DEF vars
      <3>3. ASSUME NEW g \in Findings, SetDisposition(g)
            PROVE  \E m \in BOOLEAN : lc'[f] = [lc[f] EXCEPT !.muted = m]
        <4>1. lc' = [lc EXCEPT ![g] = [lc[g] EXCEPT !.muted = ~ lc[g].muted]]
          BY <3>3 DEF SetDisposition
        <4>2. CASE f = g
          BY <3>1, <4>1, <4>2 DEF LifecycleInv, TypeOK
        <4>3. CASE f # g
          <5>1. lc'[f] = lc[f]
            BY <3>1, <4>1, <4>3 DEF LifecycleInv, TypeOK
          <5>. QED
            BY <1>2, <2>2, <5>1
        <4>. QED
          BY <4>2, <4>3
      <3>. QED
        BY <1>7, <3>2, <3>3
    <2>4. Observers(f)' = Observers(f) /\ Evidence(f)' = Evidence(f)
      BY <2>2 DEF Observers, Evidence, Claims
    <2>5. \A x \in Observers(f) : InFlight(x)' => InFlight(x)
      BY <2>2 DEF InFlight
    <2>. QED
      BY <2>2, <2>3, <2>4, <2>5, SameRow
  <1>8. (\A s \in Scans : ~ ImportAny(s)) /\ \A t \in Targets : ~ DeleteTarget(t)
    BY DEF OneAfterAnother, ImportAny, Import, DeleteTarget
  <1>9. \A f \in rows' : Told(f)
    BY <1>3, <1>4, <1>5, <1>6, <1>7, <1>8 DEF Next, Run
  <1>. QED
    BY <1>1, <1>9 DEF HistoryInv

LEMMA HistoryInit == Init => HistoryInv
  BY DEF Init, HistoryInv, Solo, InFlight

LEMMA HistoryInvariant ==
    ASSUME OneAfterAnother
    PROVE  Spec => []HistoryInv
  <1>1. LifecycleInv /\ HistoryInv /\ [Next]_vars => HistoryInv'
    BY HistoryStep
  <1>. QED
    BY <1>1, HistoryInit, LifecycleInvariant, PTL DEF Spec

-----------------------------------------------------------------------------
(* The loop of the repair                                                  *)

\* The loop as a function of how far it has come.
Steps(walk, present, covered) ==
    [n \in 0 .. Last(Scans) |->
        IF n = 0 THEN [was |-> FALSE, ever |-> FALSE, times |-> 0]
        ELSE IF n \in covered THEN WalkStep(walk[n - 1], n \in present)
        ELSE walk[n - 1]]

ReturnsUpTo(n, present, covered) == {c \in Comebacks(present, covered) : c <= n}

\* What the loop has found after n: whether the last covered scan saw the
\* finding, whether any did, and the returns so far.
Walked(n, present, covered) ==
    [was   |-> \E p \in present : p <= n /\ \A g \in covered : g <= n => g <= p,
     ever  |-> \E p \in present : p <= n,
     times |-> Cardinality(ReturnsUpTo(n, present, covered))]

LEMMA LastScan == Last(Scans) \in Nat /\ \A s \in Scans : s <= Last(Scans)
  <1>1. CASE Scans = {}
    BY <1>1 DEF Last, Null
  <1>2. CASE Scans # {}
    BY <1>2, LastIsGreatest, ScansAreNumbers
  <1>. QED
    BY <1>1, <1>2

LEMMA WalkStepFields ==
    ASSUME NEW was, NEW ever, NEW times, NEW sees, NEW ever2, NEW times2,
           ever2 = (ever \/ sees), times2 = IF sees /\ ever /\ ~ was THEN times + 1 ELSE times
    PROVE  WalkStep([was |-> was, ever |-> ever, times |-> times], sees)
             = [was |-> sees, ever |-> ever2, times |-> times2]
  <1>. DEFINE r == [was |-> was, ever |-> ever, times |-> times]
  <1>1. r.was = was /\ r.ever = ever /\ r.times = times
    OBVIOUS
  <1>2. WalkStep(r, sees) =
          [r EXCEPT !.was = sees, !.ever = r.ever \/ sees,
                    !.times = IF sees /\ r.ever /\ ~ r.was THEN r.times + 1 ELSE r.times]
    BY Zenon DEF WalkStep
  <1>3. WalkStep(r, sees) =
          [r EXCEPT !.was = sees, !.ever = ever \/ sees,
                    !.times = IF sees /\ ever /\ ~ was THEN times + 1 ELSE times]
    BY <1>1, <1>2, Zenon
  <1>4. WalkStep(r, sees) = [r EXCEPT !.was = sees, !.ever = ever2, !.times = times2]
    BY <1>3, Zenon
  <1>. QED
    BY <1>4

\* Equivalent truth values are equal.
LEMMA SameTruth == ASSUME NEW A \in BOOLEAN, NEW B \in BOOLEAN, A <=> B PROVE A = B
  OBVIOUS

LEMMA WalkedStep ==
    ASSUME NEW covered \in SUBSET Scans, NEW present \in SUBSET covered, NEW n \in Nat, n > 0
    PROVE  Walked(n, present, covered) =
             IF n \in covered THEN WalkStep(Walked(n - 1, present, covered), n \in present)
             ELSE Walked(n - 1, present, covered)
  <1>. DEFINE m == n - 1
              R(k) == ReturnsUpTo(k, present, covered)
              was(k) == \E p \in present : p <= k /\ \A g \in covered : g <= k => g <= p
              ever(k) == \E p \in present : p <= k
  <1>1. /\ m \in Nat /\ covered \subseteq Nat /\ present \subseteq Nat /\ present \subseteq covered
        /\ \A x \in Nat : x <= n <=> x <= m \/ x = n
        /\ \A x \in Nat : x < n <=> x <= m
        /\ ~ (n <= m)
    BY ScansAreNumbers
  <1>2. Comebacks(present, covered) \subseteq present
    BY DEF Comebacks
  <1>3. IsFiniteSet(R(m)) /\ n \notin R(m)
    <2>1. R(m) \subseteq Scans
      BY <1>2 DEF ReturnsUpTo
    <2>2. IsFiniteSet(R(m))
      BY <2>1, LifecycleConstants, FS_Subset
    <2>3. n \notin R(m)
      BY <1>1 DEF ReturnsUpTo
    <2>. QED
      BY <2>2, <2>3
  <1>4. R(n) = IF n \in Comebacks(present, covered) THEN R(m) \cup {n} ELSE R(m)
    BY <1>1, <1>2 DEF ReturnsUpTo
  <1>5. CASE n \notin covered
    <2>1. n \notin present
      BY <1>1, <1>5
    <2>2. was(n) = was(m) /\ ever(n) = ever(m)
      <3>1. was(n) <=> was(m)
        BY <1>1, <1>5, <2>1
      <3>2. ever(n) <=> ever(m)
        BY <1>1, <2>1
      <3>. QED
        BY <3>1, <3>2
    <2>3. R(n) = R(m)
      BY <1>2, <1>4, <2>1
    <2>. QED
      BY <1>5, <2>2, <2>3 DEF Walked
  <1>6. CASE n \in covered
    <2>1. was(n) <=> n \in present
      <3>1. ASSUME n \in present PROVE was(n)
        BY <1>1, <3>1
      <3>2. ASSUME was(n) PROVE n \in present
        <4>1. PICK p \in present : p <= n /\ \A g \in covered : g <= n => g <= p
          BY <3>2
        <4>2. n <= p
          BY <1>1, <1>6, <4>1
        <4>3. p = n
          BY <1>1, <4>1, <4>2
        <4>. QED
          BY <4>3
      <3>. QED
        BY <3>1, <3>2
    <2>2. ever(n) <=> ever(m) \/ n \in present
      BY <1>1
    <2>3. n \in Comebacks(present, covered) <=> n \in present /\ ever(m) /\ ~ was(m)
      <3>1. ASSUME n \in Comebacks(present, covered)
            PROVE  n \in present /\ ever(m) /\ ~ was(m)
        <4>1. PICK before \in present, gap \in covered \ present :
                 before < gap /\ gap < n /\ \A p \in present : p < n => p < gap
          BY <3>1 DEF Comebacks
        <4>2. before <= m /\ gap <= m
          BY <1>1, <4>1
        <4>3. ASSUME NEW p \in present, p <= m, \A g \in covered : g <= m => g <= p
              PROVE  FALSE
          <5>1. p < gap /\ gap <= p
            BY <1>1, <4>1, <4>2, <4>3
          <5>. QED
            BY <1>1, <5>1
        <4>. QED
          BY <1>2, <3>1, <4>2, <4>3
      <3>2. ASSUME n \in present, ever(m), ~ was(m)
            PROVE  n \in Comebacks(present, covered)
        <4>. DEFINE S == {p \in present : p <= m}
        <4>1. S # {} /\ S \subseteq Scans
          BY <3>2
        <4>2. Last(S) \in S /\ \A p \in S : p <= Last(S)
          <5>. HIDE DEF S
          <5>. QED
            BY <4>1, LastIsGreatest
        <4>3. PICK gap \in covered : gap <= m /\ ~ (gap <= Last(S))
          BY <3>2, <4>2
        <4>4. Last(S) \in present /\ Last(S) < gap /\ gap < n
          <5>1. Last(S) \in present /\ Last(S) \in Nat /\ gap \in Nat
            BY <1>1, <4>2, <4>3
          <5>2. gap < n
            BY <1>1, <4>3, <5>1
          <5>3. Last(S) < gap
            <6>. HIDE DEF S
            <6>. QED
              BY <4>3, <5>1
          <5>. QED
            BY <5>1, <5>2, <5>3
        <4>5. gap \notin present
          BY <4>2, <4>3
        <4>6. ASSUME NEW p \in present, p < n PROVE p < gap
          <5>1. p <= Last(S) /\ p \in Nat /\ Last(S) \in Nat /\ gap \in Nat
            BY <1>1, <4>2, <4>6
          <5>. HIDE DEF S
          <5>. QED
            BY <4>4, <5>1
        <4>. QED
          BY <3>2, <4>4, <4>5, <4>6 DEF Comebacks
      <3>. QED
        BY <3>1, <3>2
    <2>4. Cardinality(R(m) \cup {n}) = Cardinality(R(m)) + 1
      BY <1>3, FS_AddElement
    <2>5. Cardinality(R(n)) = IF n \in present /\ ever(m) /\ ~ was(m)
                              THEN Cardinality(R(m)) + 1 ELSE Cardinality(R(m))
      BY <1>4, <2>3, <2>4
    <2>. DEFINE w == Walked(m, present, covered)
    <2>7. was(n) = (n \in present)
      <3>1. was(n) \in BOOLEAN /\ (n \in present) \in BOOLEAN
        OBVIOUS
      <3>. HIDE DEF was
      <3>. QED
        BY <2>1, <3>1, SameTruth, Zenon
    <2>8. ever(n) = (ever(m) \/ n \in present)
      <3>1. ever(n) \in BOOLEAN /\ (ever(m) \/ n \in present) \in BOOLEAN
        OBVIOUS
      <3>. HIDE DEF ever
      <3>. QED
        BY <2>2, <3>1, SameTruth, Zenon
    <2>9. w = [was |-> was(m), ever |-> ever(m), times |-> Cardinality(R(m))]
      BY DEF Walked
    <2>10. Walked(n, present, covered) = [was |-> was(n), ever |-> ever(n), times |-> Cardinality(R(n))]
      BY DEF Walked
    <2>11. WalkStep(w, n \in present) =
             [was |-> n \in present, ever |-> ever(n), times |-> Cardinality(R(n))]
      <3>. DEFINE sees == n \in present
                  was1 == was(m)
                  ever1 == ever(m)
                  ever2 == ever(n)
                  times1 == Cardinality(R(m))
                  times2 == Cardinality(R(n))
      <3>1. w = [was |-> was1, ever |-> ever1, times |-> times1]
        BY <2>9
      <3>2. ever2 = (ever1 \/ sees)
        BY <2>8
      <3>3. times2 = IF sees /\ ever1 /\ ~ was1 THEN times1 + 1 ELSE times1
        BY <2>5
      <3>. HIDE DEF w, sees, was1, ever1, ever2, times1, times2
      <3>4. WalkStep([was |-> was1, ever |-> ever1, times |-> times1], sees)
              = [was |-> sees, ever |-> ever2, times |-> times2]
        BY <3>2, <3>3, WalkStepFields
      <3>. QED
        BY <3>1, <3>4 DEF sees, ever2, times2
    <2>12. WalkStep(w, n \in present) = Walked(n, present, covered)
      <3>. HIDE DEF w, was, ever, R, m
      <3>. QED
        BY <2>7, <2>10, <2>11, Zenon
    <2>. QED
      BY <1>6, <2>12
  <1>. QED
    BY <1>5, <1>6

\* computeLifecycleTimeline: the loop over the covering scans counts exactly the
\* observations that follow a covered absence of a finding seen before, for every
\* set of covering scans and every set of observing ones among them.
THEOREM LoopIsClosedForm ==
    ASSUME NEW covered \in SUBSET Scans, NEW present \in SUBSET covered
    PROVE  TimesMitigated(present, covered) = Cardinality(Comebacks(present, covered))
  <1>. DEFINE N == Last(Scans)
              closed == [n \in 0..N |-> Walked(n, present, covered)]
              walk == CHOOSE w : w = Steps(w, present, covered)
  <1>1. N \in Nat /\ \A s \in Scans : s <= N
    BY LastScan
  <1>2. TimesMitigated(present, covered) = walk[N].times
    BY DEF TimesMitigated, Steps
  <1>3. Walked(0, present, covered) = [was |-> FALSE, ever |-> FALSE, times |-> 0]
    <2>1. \A p \in present : ~ (p <= 0)
      BY LifecycleConstants
    <2>2. ReturnsUpTo(0, present, covered) = {}
      BY <2>1 DEF ReturnsUpTo, Comebacks
    <2>. QED
      BY <2>1, <2>2, FS_EmptySet DEF Walked
  <1>4. closed = Steps(closed, present, covered)
    <2>1. ASSUME NEW n \in 0..N
          PROVE  closed[n] = Steps(closed, present, covered)[n]
      <3>1. CASE n = 0
        BY <1>3, <3>1, <1>1 DEF Steps
      <3>2. CASE n # 0
        <4>1. n \in Nat /\ n > 0 /\ n - 1 \in 0..N
          BY <1>1, <3>2
        <4>2. closed[n] = Walked(n, present, covered) /\ closed[n - 1] = Walked(n - 1, present, covered)
          BY <4>1
        <4>3. Steps(closed, present, covered)[n] =
                IF n \in covered THEN WalkStep(closed[n - 1], n \in present) ELSE closed[n - 1]
          BY <3>2 DEF Steps
        <4>. QED
          BY <4>1, <4>2, <4>3, WalkedStep
      <3>. QED
        BY <3>1, <3>2
    <2>. QED
      BY <2>1 DEF Steps
  <1>5. walk = Steps(walk, present, covered)
    <2>. HIDE DEF closed
    <2>. QED
      BY <1>4
  <1>. HIDE DEF walk
  <1>6. \A n \in 0..N : walk[n] = Walked(n, present, covered)
    <2>. DEFINE Bad == {n \in 0..N : walk[n] # Walked(n, present, covered)}
    <2>1. SUFFICES ASSUME Bad # {} PROVE FALSE
      OBVIOUS
    <2>2. PICK n \in Bad : \A k \in Bad : n <= k
      <3>1. Bad \in SUBSET Nat
        OBVIOUS
      <3>. HIDE DEF Bad
      <3>. QED
        BY <2>1, <3>1, Facts!LeastNumber
    <2>3. walk[n] = Steps(walk, present, covered)[n]
      BY <1>5
    <2>4. CASE n = 0
      BY <1>1, <1>3, <2>2, <2>3, <2>4 DEF Steps
    <2>5. CASE n # 0
      <3>1. n \in Nat /\ n > 0 /\ n - 1 \in 0..N /\ ~ (n <= n - 1)
        BY <1>1, <2>5
      <3>2. walk[n - 1] = Walked(n - 1, present, covered)
        BY <2>2, <3>1
      <3>3. walk[n] = IF n \in covered THEN WalkStep(walk[n - 1], n \in present) ELSE walk[n - 1]
        BY <2>3, <2>5 DEF Steps
      <3>. QED
        BY <2>2, <3>1, <3>2, <3>3, WalkedStep
    <2>. QED
      BY <2>4, <2>5
  <1>7. ReturnsUpTo(N, present, covered) = Comebacks(present, covered)
    BY <1>1 DEF ReturnsUpTo, Comebacks
  <1>8. N \in 0..N
    BY <1>1
  <1>9. walk[N] = Walked(N, present, covered)
    <2>. HIDE DEF N
    <2>. QED
      BY <1>6, <1>8
  <1>10. Walked(N, present, covered).times = Cardinality(ReturnsUpTo(N, present, covered))
    BY DEF Walked
  <1>. HIDE DEF N
  <1>. QED
    BY <1>2, <1>7, <1>9, <1>10

-----------------------------------------------------------------------------
(* What the retained scans tell                                            *)

\* For any number of findings and scans that run one after another in one scope,
\* whatever fails, is cancelled, skipped, completed twice, muted or deleted: once
\* nothing runs, a row whose observations are of complete scans is what
\* computeLifecycleTimeline derives from the scans that are left, and its loop
\* counts the comebacks.
THEOREM HistoryStaysExplained ==
    ASSUME OneAfterAnother
    PROVE  Spec => []HistoryExplainsRow
  <1>1. ASSUME LifecycleInv, HistoryInv
        PROVE  RowIsTimeline
    <2>1. SUFFICES ASSUME \A s \in Scans : ~ InFlight(s), NEW f \in rows,
                          \A s \in Observers(f) : state[s] = "complete"
                   PROVE  lc[f] = Timeline(Observers(f), Covering(f, Null), lc[f].muted)
      BY DEF RowIsTimeline, Observers
    <2>. DEFINE obs == Observers(f)
                ev  == Evidence(f)
    <2>2. /\ lc[f] \in Columns /\ Covering(f, Null) = ev
          /\ obs \subseteq Scans /\ obs # {} /\ ev \subseteq Scans /\ Covers(f) \subseteq ev
      BY <1>1, RowFacts
    <2>3. obs \subseteq ev
      BY <2>1 DEF Observers, Evidence
    <2>4. /\ lc[f].first = First(obs) /\ lc[f].last = Last(obs)
          /\ lc[f].mitigated = Cardinality(Comebacks(obs, ev))
          /\ lc[f].covering = Last(Covers(f))
      BY <1>1, <2>1 DEF HistoryInv, Explained, Settled, CoveringIsLast
    <2>5. Last(Covers(f)) = Last(ev)
      <3>1. ev # {}
        BY <2>2, <2>3
      <3>2. Last(ev) \in ev /\ \A x \in ev : x <= Last(ev)
        BY <2>2, <3>1, LastIsGreatest
      <3>3. Last(ev) \in Covers(f)
        BY <2>2, <2>3, <3>2 DEF Covers
      <3>4. Last(Covers(f)) \in Covers(f) /\ Last(ev) <= Last(Covers(f))
        BY <2>2, <3>3, LastIsGreatest
      <3>5. Last(Covers(f)) <= Last(ev) /\ Last(ev) \in Nat /\ Last(Covers(f)) \in Nat
        BY <2>2, <3>2, <3>4, ScansAreNumbers
      <3>. QED
        BY <3>4, <3>5
    <2>. HIDE DEF obs, ev
    <2>6. lc[f] = [first |-> lc[f].first, last |-> lc[f].last, covering |-> lc[f].covering,
                   mitigated |-> lc[f].mitigated, muted |-> lc[f].muted]
      BY <2>2 DEF Columns
    <2>. QED
      BY <2>2, <2>4, <2>5, <2>6 DEF Timeline, obs
  <1>2. LoopCountsComebacks
    <2>1. ASSUME NEW f \in Findings
          PROVE  LET covered == Covering(f, Null)
                     present == {s \in covered : f \in link[s]}
                 IN  TimesMitigated(present, covered) = Cardinality(Comebacks(present, covered))
      <3>. DEFINE covered == Covering(f, Null)
                  present == {s \in covered : f \in link[s]}
      <3>1. covered \in SUBSET Scans
        BY DEF Covering
      <3>2. present \in SUBSET covered
        OBVIOUS
      <3>. HIDE DEF covered, present
      <3>3. TimesMitigated(present, covered) = Cardinality(Comebacks(present, covered))
        BY <3>1, <3>2, LoopIsClosedForm
      <3>. QED
        BY <3>3 DEF present, covered
    <2>. QED
      BY <2>1 DEF LoopCountsComebacks
  <1>3. LifecycleInv /\ HistoryInv => HistoryExplainsRow
    BY <1>1, <1>2 DEF HistoryExplainsRow
  <1>. QED
    BY <1>3, LifecycleInvariant, HistoryInvariant, PTL

\* In such a history a digest tells what happened between the covering scans:
\* new for the first sighting, changed for a return after a proven absence, fixed
\* for a proven absence after a sighting, nothing else and nothing muted, although
\* runs failed half way and scans were deleted (digest_rows in MarkComplete).
THEOREM DigestsTellHistory ==
    ASSUME OneAfterAnother
    PROVE  Spec => DigestTellsHistory
  <1>. DEFINE Tells(s, f) ==
                LET prev == Previous(s, f)
                    told(what) == digest'[s][f] = what
                    open == ~ lc[f].muted
                IN  /\ told("new") <=> /\ open /\ f \in link[s]
                                       /\ \A x \in Scans : f \in link[x] => s <= x
                    /\ told("changed") <=> /\ open /\ f \in link[s]
                                           /\ prev # Null /\ f \notin link[prev]
                    /\ told("fixed") <=> /\ open /\ f \in Claims(s) \ link[s]
                                         /\ prev # Null /\ f \in link[prev]
  <1>1. ASSUME LifecycleInv, HistoryInv, [Next]_vars, NEW s \in Scans, NEW f \in Findings,
               state[s] # "complete", state'[s] = "complete"
        PROVE  Tells(s, f)
    <2>1. MarkComplete(s)
      <3>1. (\A x \in Scans : ~ ImportAny(x)) /\ \A t \in Targets : ~ DeleteTarget(t)
        BY DEF OneAfterAnother, ImportAny, Import, DeleteTarget
      <3>2. ASSUME NEW x \in Scans, Run(x), ~ MarkComplete(x)
            PROVE  state'[s] # "complete"
        BY <1>1, <3>2 DEF Run, Create, Record, Ingest, EndIngest, Fail, CancelScan, StopCancelled,
           LifecycleInv, TypeOK
      <3>3. ASSUME NEW x \in Scans, MarkComplete(x), x # s
            PROVE  state'[s] # "complete"
        BY <1>1, <3>3 DEF MarkComplete, LifecycleInv, TypeOK
      <3>4. ASSUME NEW x \in Scans, DeleteScan(x)
            PROVE  state'[s] # "complete"
        BY <1>1, <3>4 DEF DeleteScan, LifecycleInv, TypeOK
      <3>5. ASSUME (\E g \in Findings : SetDisposition(g)) \/ UNCHANGED vars
            PROVE  state'[s] # "complete"
        BY <1>1, <3>5 DEF SetDisposition, vars
      <3>. QED
        BY <1>1, <3>1, <3>2, <3>3, <3>4, <3>5 DEF Next
    <2>. DEFINE covered == {g \in Candidates(s) : Advances(lc[g], s, target[s] \in ScopesOf(g))}
    <2>2. /\ InFlight(s) /\ s = clock
          /\ Exists(s) /\ state[s] # "cancelled"
      <3>1. InFlight(s) /\ s = clock
        BY <1>1, <2>1, InFlightFacts DEF MarkComplete, InFlight
      <3>. QED
        BY <1>1, <2>1, <3>1 DEF MarkComplete
    <2>3. digest'[s][f] = IF f \in covered /\ ~ lc[f].muted THEN Status(f, s) ELSE "none"
      BY <1>1, <2>1, <2>2 DEF MarkComplete, Digest, LifecycleInv, TypeOK
    <2>. HIDE DEF covered
    <2>4. Scans \subseteq Nat /\ Null \notin Scans
      BY ScansAreNumbers DEF Null
    <2>5. CASE f \notin rows
      <3>1. f \notin covered /\ \A x \in Scans : f \notin link[x]
        BY <1>1, <2>5 DEF covered, Candidates, LifecycleInv, ScansFit
      <3>2. Previous(s, f) = Null
        BY <3>1 DEF Previous, Last
      <3>. QED
        BY <2>3, <3>1, <3>2
    <2>6. CASE f \in rows
      <3>. DEFINE obs == Observers(f)
                  prev == Previous(s, f)
                  r == lc[f]
      <3>1. /\ r \in Columns /\ obs \subseteq Scans /\ Covers(f) \subseteq Evidence(f)
            /\ Evidence(f) \subseteq Scans /\ r.first \in obs /\ r.last \in obs
            /\ \A x \in obs \cup Evidence(f) : x <= s
            /\ target[s] \in ScopesOf(f)
        BY <1>1, <2>2, <2>6, RowFacts, OneScope
      <3>2. CoveringIsLast(f) /\ NewestIsLast(f)
        BY <1>1, <2>6 DEF HistoryInv
      <3>3. s \notin Evidence(f)
        BY <1>1 DEF Evidence
      <3>4. r.covering = prev
        <4>1. \A c \in Evidence(f) : c < s
          <5>1. ASSUME NEW c \in Evidence(f) PROVE c < s
            <6>1. c \in Nat /\ s \in Nat /\ c <= s /\ c # s
              BY <2>4, <3>1, <3>3
            <6>. QED
              BY <6>1
          <5>. QED
            BY <5>1
        <4>2. Covers(f) = {c \in Scans : /\ c < s /\ state[c] = "complete"
                                         /\ f \in link[c] \cup Claims(c)
                                         /\ \E x \in Scans : x <= c /\ f \in link[x]}
          BY <4>1 DEF Covers, Evidence, Observers
        <4>. QED
          BY <3>2, <4>2 DEF CoveringIsLast, Previous
      <3>5. prev # Null => /\ prev \in Scans /\ prev < s
                           /\ \E x \in obs : x <= prev
        <4>1. ASSUME prev # Null PROVE prev \in Covers(f)
          <5>1. Covers(f) # {}
            BY <3>2, <3>4, <4>1 DEF CoveringIsLast, Last
          <5>. QED
            BY <3>1, <3>2, <3>4, <5>1, LastIsGreatest DEF CoveringIsLast
        <4>2. ASSUME NEW c \in Covers(f)
              PROVE  c \in Scans /\ c < s /\ \E x \in obs : x <= c
          <5>1. c \in Nat /\ s \in Nat /\ c <= s /\ c # s
            BY <2>4, <3>1, <3>3
          <5>2. c < s
            BY <5>1
          <5>. QED
            BY <3>1, <5>2 DEF Covers
        <4>. QED
          BY <4>1, <4>2
      <3>6. f \in covered <=> f \in link[s] \cup Claims(s)
        BY <2>6, <3>1, <3>4, <3>5 DEF covered, Candidates, Advances
      <3>7. r.last = s <=> f \in link[s]
        BY <2>2, <3>1, <3>2 DEF NewestIsLast, Observers
      <3>8. r.first = s <=> f \in link[s] /\ \A x \in Scans : f \in link[x] => s <= x
        <4>1. ASSUME r.first = s
              PROVE  f \in link[s] /\ \A x \in Scans : f \in link[x] => s <= x
          <5>1. \A x \in obs : x = s
            BY <2>2, <3>2, <4>1 DEF NewestIsLast
          <5>. QED
            BY <2>4, <3>1, <4>1, <5>1 DEF Observers
        <4>2. ASSUME f \in link[s], \A x \in Scans : f \in link[x] => s <= x
              PROVE  r.first = s
          <5>1. s <= r.first /\ r.first <= s /\ r.first \in Nat
            BY <2>4, <3>1, <4>2 DEF Observers
          <5>. QED
            BY <2>4, <5>1
        <4>. QED
          BY <4>1, <4>2
      <3>9. prev # Null => r.first # s
        <4>1. ASSUME prev # Null, r.first = s PROVE FALSE
          <5>1. PICK x \in obs : x <= prev
            BY <3>5, <4>1
          <5>2. s <= x /\ x <= prev /\ prev < s
            BY <3>5, <3>8, <4>1, <5>1 DEF Observers
          <5>3. x \in Nat /\ prev \in Nat /\ s \in Nat
            BY <2>4, <3>1, <3>5, <4>1
          <5>. HIDE DEF prev
          <5>. QED
            BY <5>2, <5>3
        <4>. QED
          BY <4>1
      <3>. DEFINE d == digest'[s][f]
      <3>10. d = IF f \in covered /\ ~ r.muted THEN
                   CASE r.first = s -> "new"
                     [] r.first # s /\ r.last = s /\ prev # Null /\ f \notin link[prev] -> "changed"
                     [] r.first # s /\ r.last # s /\ prev # Null /\ f \in link[prev] -> "fixed"
                     [] OTHER -> "none"
                 ELSE "none"
        BY <2>3, <3>4 DEF Status
      <3>11. d = "new" <=> f \in covered /\ ~ r.muted /\ r.first = s
        BY <3>10
      <3>12. d = "changed" <=> /\ f \in covered /\ ~ r.muted /\ r.first # s /\ r.last = s
                               /\ prev # Null /\ f \notin link[prev]
        BY <3>10
      <3>13. d = "fixed" <=> /\ f \in covered /\ ~ r.muted /\ r.first # s /\ r.last # s
                             /\ prev # Null /\ f \in link[prev]
        BY <3>10
      <3>. HIDE DEF d, prev
      <3>14. d = "new" <=> /\ ~ r.muted /\ f \in link[s]
                           /\ \A x \in Scans : f \in link[x] => s <= x
        BY <3>6, <3>8, <3>11
      <3>15. d = "changed" <=> ~ r.muted /\ f \in link[s] /\ prev # Null /\ f \notin link[prev]
        BY <3>6, <3>7, <3>9, <3>12
      <3>16. d = "fixed" <=> ~ r.muted /\ f \in Claims(s) \ link[s] /\ prev # Null /\ f \in link[prev]
        BY <3>6, <3>7, <3>9, <3>13
      <3>. QED
        BY <3>14, <3>15, <3>16 DEF d, prev
    <2>. QED
      BY <2>5, <2>6
  <1>2. LifecycleInv /\ HistoryInv /\ [Next]_vars =>
           [\A s \in Scans, f \in Findings :
               state[s] # "complete" /\ state'[s] = "complete" => Tells(s, f)]_vars
    BY <1>1
  <1>. QED
    BY <1>2, LifecycleInvariant, HistoryInvariant, PTL DEF Spec, DigestTellsHistory
=============================================================================
