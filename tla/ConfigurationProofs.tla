------------------------ MODULE ConfigurationProofs ------------------------
(***************************************************************************)
(* Proofs about what administrators configure, each for every value of its *)
(* constants: scanner nodes, the template source with its mirror, template *)
(* sets.                                                                   *)
(***************************************************************************)
EXTENDS NodeRegistry, TemplateSync, TemplateSets, ListFacts


-----------------------------------------------------------------------------
(* Overlap                                                                 *)

\* The check that compares network addresses does not depend on the side.
LEMMA OverlapSymmetric ==
    ASSUME NEW A, NEW B
    PROVE  Overlap(A, B) <=> Overlap(B, A)
  BY DEF Overlap

\* Two ranges that hold one address: the one that starts later starts inside the
\* other, so comparing network addresses (lockAndCheckOverlap) is enough.
LEMMA SharedAddressOverlaps ==
    ASSUME NEW A \in SUBSET [lo : Nat, size : Nat], NEW B \in SUBSET [lo : Nat, size : Nat],
           NEW t \in Nat,
           \E c \in A : Covers(c, t), \E c \in B : Covers(c, t)
    PROVE  Overlap(A, B)
  <1>1. PICK a \in A : Covers(a, t)
    OBVIOUS
  <1>2. PICK b \in B : Covers(b, t)
    OBVIOUS
  <1>3. a.lo \in Nat /\ a.size \in Nat /\ b.lo \in Nat /\ b.size \in Nat
    OBVIOUS
  <1>4. Covers(a, b.lo) \/ Covers(b, a.lo)
    BY <1>1, <1>2, <1>3 DEF Covers
  <1>. QED
    BY <1>4 DEF Overlap

-----------------------------------------------------------------------------
(* The inductive invariant                                                 *)

\* The key is that of the certificate, or there is none.
KeyFits(row) == UsableTLS(row) \/ row.key = 0

RegTypeOK ==
    /\ nodes \in [NodeIds -> NodeRow \cup {NoNode}]
    /\ \A a \in Admins : edits[a] # NoNode => edits[a].id \in NodeIds /\ edits[a].row \in NodeRow
    /\ DOMAIN edits = Admins

\* No two rows overlap in the sense of the check itself.
RowsExclude ==
    \A m, n \in Registered : m # n => ~Overlap(nodes[m].cidrs, nodes[n].cidrs)

\* What a handler is about to write has been validated as merged.
EditsFit == \A a \in Admins : edits[a] # NoNode => KeyFits(edits[a].row)

RegInv == RegTypeOK /\ RowsExclude /\ EditsFit /\ KeyFitsCertificate

-----------------------------------------------------------------------------
(* Writes                                                                  *)

\* Writing one row that overlaps no other keeps the rows disjoint.
LEMMA WriteExcludes ==
    ASSUME RegTypeOK, RowsExclude, NEW n \in NodeIds, NEW row \in NodeRow,
           ~OverlapsOther(n, row.cidrs), nodes' = [nodes EXCEPT ![n] = row]
    PROVE  RowsExclude'
  <1>. SUFFICES ASSUME NEW i \in Registered', NEW j \in Registered', i # j
                PROVE  ~Overlap(nodes'[i].cidrs, nodes'[j].cidrs)
    BY DEF RowsExclude
  <1>1. CASE i = n
    <2>1. j \in Registered \ {n} /\ nodes'[j] = nodes[j] /\ nodes'[i] = row
      BY <1>1 DEF RegTypeOK, Registered
    <2>. QED
      BY <2>1 DEF OverlapsOther
  <1>2. CASE j = n
    <2>1. i \in Registered \ {n} /\ nodes'[i] = nodes[i] /\ nodes'[j] = row
      BY <1>2 DEF RegTypeOK, Registered
    <2>. QED
      BY <2>1, OverlapSymmetric DEF OverlapsOther
  <1>3. CASE i # n /\ j # n
    <2>1. /\ i \in Registered /\ nodes'[i] = nodes[i]
          /\ j \in Registered /\ nodes'[j] = nodes[j]
      BY <1>3 DEF RegTypeOK, Registered
    <2>. QED
      BY <2>1 DEF RowsExclude
  <1>. QED
    BY <1>1, <1>2, <1>3

\* Writing one row whose key fits keeps every key fitting.
LEMMA WriteFits ==
    ASSUME RegTypeOK, KeyFitsCertificate, NEW n \in NodeIds, NEW row \in NodeRow,
           KeyFits(row), nodes' = [nodes EXCEPT ![n] = row]
    PROVE  KeyFitsCertificate'
  BY DEF RegTypeOK, KeyFitsCertificate, KeyFits, Registered, UsableTLS

LEMMA RegInitInv == RegInit => RegInv
  BY DEF RegInit, RegInv, RegTypeOK, RowsExclude, EditsFit, KeyFitsCertificate, Registered

LEMMA CreateNodeInv ==
    ASSUME RegInv, NEW n \in NodeIds, NEW p \in Payloads, HandleCreateNode(n, p)
    PROVE  RegInv'
  <1>. USE DEF RegInv
  <1>1. p \in NodeRow
    BY RegistryConstants
  <1>2. nodes' = [nodes EXCEPT ![n] = p] /\ ~OverlapsOther(n, p.cidrs) /\ edits' = edits
    BY DEF HandleCreateNode, CreateScannerNode
  <1>3. KeyFits(p)
    BY <1>1 DEF HandleCreateNode, ValidTLS, KeyFits, UsableTLS, NodeRow
  <1>4. RegTypeOK'
    BY <1>1, <1>2 DEF RegTypeOK
  <1>5. EditsFit'
    BY <1>2 DEF EditsFit
  <1>. QED
    BY <1>1, <1>2, <1>3, <1>4, <1>5, WriteExcludes, WriteFits

\* The merged row: without a certificate no key, and a key that is there was
\* compared with the certificate it is stored with.
LEMMA MergeNodeInv ==
    ASSUME RegInv, NEW a \in Admins, NEW n \in NodeIds, NEW p \in Payloads, HandleUpdateNode(a, n, p)
    PROVE  RegInv'
  <1>. USE DEF RegInv
  <1>. DEFINE row == EffectiveNodeForUpdate(nodes[n], p)
  <1>1. p \in NodeRow /\ nodes[n] \in NodeRow
    BY RegistryConstants DEF HandleUpdateNode, Registered, RegTypeOK
  <1>2. row \in NodeRow
    BY <1>1 DEF EffectiveNodeForUpdate, NodeRow
  <1>3. row.cert = 0 => row.key = 0
    BY <1>1 DEF EffectiveNodeForUpdate, NodeRow
  <1>4. /\ ValidTLS(row, FALSE) /\ nodes' = nodes
        /\ edits' = [edits EXCEPT ![a] = [id |-> n, row |-> row]]
    BY DEF HandleUpdateNode
  <1>5. KeyFits(row)
    BY <1>2, <1>3, <1>4 DEF ValidTLS, KeyFits, UsableTLS, NodeRow
  <1>. HIDE DEF row
  <1>6. \A b \in Admins : edits'[b] # NoNode =>
            \/ b = a /\ edits'[b] = [id |-> n, row |-> row]
            \/ edits'[b] = edits[b] /\ edits[b] # NoNode
    BY <1>4 DEF RegTypeOK
  <1>7. RegTypeOK'
    BY <1>2, <1>4, <1>6 DEF RegTypeOK
  <1>8. EditsFit'
    BY <1>5, <1>6 DEF EditsFit
  <1>9. RowsExclude' /\ KeyFitsCertificate'
    BY <1>4 DEF RowsExclude, KeyFitsCertificate, Registered
  <1>. QED
    BY <1>7, <1>8, <1>9

LEMMA UpdateNodeInv ==
    ASSUME RegInv, NEW a \in Admins, UpdateScannerNode(a)
    PROVE  RegInv'
  <1>. USE DEF RegInv
  <1>. DEFINE n == edits[a].id
              row == edits[a].row
  <1>1. n \in NodeIds /\ row \in NodeRow /\ KeyFits(row)
    BY DEF UpdateScannerNode, RegTypeOK, EditsFit
  <1>2. edits' = [edits EXCEPT ![a] = NoNode]
    BY DEF UpdateScannerNode
  <1>3. EditsFit'
    BY <1>2 DEF EditsFit, RegTypeOK
  <1>4. CASE n \in Registered /\ ~OverlapsOther(n, row.cidrs)
    <2>1. nodes' = [nodes EXCEPT ![n] = row]
      BY <1>4 DEF UpdateScannerNode
    <2>2. RegTypeOK'
      BY <1>1, <1>2, <2>1 DEF RegTypeOK
    <2>. HIDE DEF n, row
    <2>. QED
      BY <1>1, <1>3, <1>4, <2>1, <2>2, WriteExcludes, WriteFits
  <1>5. CASE ~(n \in Registered /\ ~OverlapsOther(n, row.cidrs))
    <2>1. nodes' = nodes
      BY <1>5 DEF UpdateScannerNode
    <2>. QED
      BY <1>2, <1>3, <2>1 DEF RegTypeOK, RowsExclude, KeyFitsCertificate, Registered
  <1>. QED
    BY <1>4, <1>5

LEMMA DeleteNodeInv ==
    ASSUME RegInv, NEW n \in NodeIds, DeleteScannerNode(n)
    PROVE  RegInv'
  <1>. USE DEF RegInv
  <1>1. nodes' = [nodes EXCEPT ![n] = NoNode] /\ edits' = edits
    BY DEF DeleteScannerNode
  <1>2. \A m \in Registered' : m \in Registered /\ nodes'[m] = nodes[m]
    BY <1>1 DEF Registered, RegTypeOK
  <1>3. RegTypeOK' /\ EditsFit'
    BY <1>1 DEF RegTypeOK, EditsFit
  <1>. QED
    BY <1>2, <1>3 DEF RowsExclude, KeyFitsCertificate, UsableTLS

\* Entries that are written together exclude each other by validateNodeConfig,
\* and each was compared with the stored rows.
LEMMA SeedNodesInv ==
    ASSUME RegInv, SeedScannerNodes
    PROVE  RegInv'
  <1>. USE DEF RegInv
  <1>. DEFINE Seeded(m) == m \in DOMAIN Seeds /\ nodes[m] = NoNode /\ ~OverlapsOther(m, Seeds[m].cidrs)
  <1>1. /\ nodes' = [m \in NodeIds |-> IF Seeded(m) THEN Seeds[m] ELSE nodes[m]]
        /\ edits' = edits
    BY DEF SeedScannerNodes
  <1>2. \A m \in Registered' : \/ Seeded(m) /\ nodes'[m] = Seeds[m]
                               \/ ~Seeded(m) /\ m \in Registered /\ nodes'[m] = nodes[m]
    BY <1>1 DEF Registered
  <1>3. RegTypeOK' /\ EditsFit'
    BY <1>1, RegistryConstants DEF RegTypeOK, EditsFit
  <1>4. ASSUME NEW i \in Registered', NEW j \in Registered', i # j
        PROVE  ~Overlap(nodes'[i].cidrs, nodes'[j].cidrs)
    <2>1. CASE Seeded(i) /\ Seeded(j)
      BY <1>2, <1>4, <2>1, SeedsAreDisjoint DEF ValidateNodeConfig
    <2>2. CASE Seeded(i) /\ ~Seeded(j)
      BY <1>2, <1>4, <2>2 DEF OverlapsOther
    <2>3. CASE ~Seeded(i) /\ Seeded(j)
      BY <1>2, <1>4, <2>3, OverlapSymmetric DEF OverlapsOther
    <2>4. CASE ~Seeded(i) /\ ~Seeded(j)
      BY <1>2, <1>4, <2>4 DEF RowsExclude
    <2>. QED
      BY <2>1, <2>2, <2>3, <2>4
  <1>5. KeyFitsCertificate'
    BY <1>2 DEF KeyFitsCertificate, UsableTLS
  <1>. QED
    BY <1>3, <1>4, <1>5 DEF RowsExclude

LEMMA StopBackendInv ==
    ASSUME RegInv, StopBackend
    PROVE  RegInv'
  BY DEF RegInv, StopBackend, RegTypeOK, RowsExclude, EditsFit, KeyFitsCertificate, Registered

LEMMA RegStep == RegInv /\ [RegNext]_regVars => RegInv'
  <1>. SUFFICES ASSUME RegInv, [RegNext]_regVars PROVE RegInv'
    OBVIOUS
  <1>1. CASE \E n \in NodeIds, p \in Payloads : HandleCreateNode(n, p)
    BY <1>1, CreateNodeInv
  <1>2. CASE \E n \in NodeIds, p \in Payloads, a \in Admins : HandleUpdateNode(a, n, p)
    BY <1>2, MergeNodeInv
  <1>3. CASE \E n \in NodeIds : DeleteScannerNode(n)
    BY <1>3, DeleteNodeInv
  <1>4. CASE \E a \in Admins : UpdateScannerNode(a)
    BY <1>4, UpdateNodeInv
  <1>5. CASE SeedScannerNodes
    BY <1>5, SeedNodesInv
  <1>6. CASE StopBackend
    BY <1>6, StopBackendInv
  <1>7. CASE UNCHANGED regVars
    BY <1>7 DEF RegInv, regVars, RegTypeOK, RowsExclude, EditsFit, KeyFitsCertificate, Registered
  <1>. QED
    BY <1>1, <1>2, <1>3, <1>4, <1>5, <1>6, <1>7 DEF RegNext

LEMMA RegInvariant == RegSpec => []RegInv
  BY RegInitInv, RegStep, PTL DEF RegSpec

-----------------------------------------------------------------------------
(* Theorems                                                                *)

\* The rows exclude each other in the sense of the check, and the check sees
\* every address two ranges share.
LEMMA InvDisjoint == RegInv => RangesDisjoint
  <1>. SUFFICES ASSUME RegInv, NEW t \in Addresses, NEW m \in Registered, NEW n \in Registered, m # n,
                       \E c \in nodes[m].cidrs : Covers(c, t), \E c \in nodes[n].cidrs : Covers(c, t)
                PROVE  FALSE
    BY DEF RangesDisjoint
  <1>1. nodes[m].cidrs \in SUBSET [lo : Nat, size : Nat] /\ nodes[n].cidrs \in SUBSET [lo : Nat, size : Nat]
    BY DEF RegInv, RegTypeOK, Registered, NodeRow
  <1>2. t \in Nat
    BY RegistryConstants
  <1>3. Overlap(nodes[m].cidrs, nodes[n].cidrs)
    BY <1>1, <1>2, SharedAddressOverlaps
  <1>. QED
    BY <1>3 DEF RegInv, RowsExclude

\* No address is ever served by two nodes.
THEOREM RangesStayDisjoint == RegSpec => []RangesDisjoint
  BY InvDisjoint, RegInvariant, PTL

\* A key that is stored belongs to the certificate next to it, although
\* handlers merge rows they read before others wrote them.
THEOREM KeysStayFitting == RegSpec => []KeyFitsCertificate
  BY RegInvariant, PTL DEF RegInv

\* The registry stays sound, for any interleaving of handlers and seeds.
THEOREM RegistryStaysSound == RegSpec => []RegistryIsSound
  BY RangesStayDisjoint, KeysStayFitting, PTL DEF RegistryIsSound

-----------------------------------------------------------------------------
(* The choice of a node                                                    *)

\* The first of some numbers is one of them, and the least.
LEMMA FirstOfNumbers ==
    ASSUME NEW S \in SUBSET Nat, S # {}
    PROVE  First(S) \in S /\ \A m \in S : First(S) <= m
  BY LeastNumber DEF First

\* At most one node serves a target, and nodeForIP finds it.
LEMMA MatchIsTheServer ==
    ASSUME RangesDisjoint, NEW t \in Targets
    PROVE  /\ Serving(TargetIP(t)) = {} => Match(t) = NoNode
           /\ Serving(TargetIP(t)) # {} => Match(t) # NoNode /\ Serving(TargetIP(t)) = {Match(t)}
  <1>. DEFINE ip == TargetIP(t)
  <1>1. ip = NoNode \/ ip \in Addresses
    BY TargetsNameAddresses DEF TargetIP
  <1>2. \A m, n \in Serving(ip) : m = n
    BY <1>1 DEF RangesDisjoint, Serving
  <1>3. Serving(ip) \in SUBSET Nat /\ NoNode \notin Serving(ip)
    BY RegistryConstants DEF Serving, Registered
  <1>4. Match(t) = IF Serving(ip) = {} THEN NoNode ELSE First(Serving(ip))
    BY DEF Match, NodeForIP
  <1>. HIDE DEF ip
  <1>5. Serving(ip) # {} => First(Serving(ip)) \in Serving(ip)
    BY <1>3, FirstOfNumbers
  <1>6. /\ Serving(ip) = {} => Match(t) = NoNode
        /\ Serving(ip) # {} => Match(t) # NoNode /\ Serving(ip) = {Match(t)}
    BY <1>2, <1>3, <1>4, <1>5
  <1>. QED
    BY <1>6 DEF ip

\* The node a target lies with serves the address the target is reduced to.
LEMMA LiesWithItsServer ==
    ASSUME NEW t \in Targets, NEW n, LiesWith(t, n)
    PROVE  n \in Serving(TargetIP(t))
  BY TargetsNameAddresses DEF LiesWith, TargetIP

\* What selectNode makes of the nodes that its two targets match.
Combined(a, b) ==
    IF a = NoNode THEN IF b = NoNode THEN DefaultNode ELSE b
    ELSE IF b \in {a, NoNode} THEN a ELSE NoNode

LEMMA SelectNodeOfPair ==
    ASSUME NEW s, NEW t
    PROVE  SelectNode(<<s, t>>) = Combined(Match(s), Match(t))
  <1>. DEFINE M == Matching(<<s, t>>)
              F(i) == Match(<<s, t>>[i])
  <1>1. F(1) = Match(s) /\ F(2) = Match(t)
    OBVIOUS
  <1>2. M = {i \in {1, 2} : F(i) # NoNode}
    BY DEF Matching
  <1>3. SelectNode(<<s, t>>) = IF M = {} THEN DefaultNode
                               ELSE IF \A i \in M : F(i) = F(First(M)) THEN F(First(M)) ELSE NoNode
    BY DEF SelectNode
  <1>. HIDE DEF M, F
  <1>4. M # {} => First(M) \in M /\ \A m \in M : First(M) <= m
    <2>1. M \in SUBSET Nat
      BY <1>2
    <2>. QED
      BY <2>1, FirstOfNumbers
  <1>5. CASE F(1) = NoNode /\ F(2) = NoNode
    BY <1>1, <1>2, <1>3, <1>5 DEF Combined
  <1>6. CASE F(1) = NoNode /\ F(2) # NoNode
    <2>1. M = {2}
      BY <1>2, <1>6
    <2>. QED
      BY <1>1, <1>3, <1>4, <1>6, <2>1 DEF Combined
  <1>7. CASE F(1) # NoNode
    <2>1. 1 \in M /\ M \subseteq {1, 2} /\ (2 \in M <=> F(2) # NoNode)
      BY <1>2, <1>7
    <2>2. First(M) = 1
      <3>1. First(M) \in {1, 2} /\ First(M) <= 1
        BY <1>4, <2>1
      <3>. QED
        BY <3>1
    <2>3. (\A i \in M : F(i) = F(1)) <=> F(2) \in {F(1), NoNode}
      BY <1>7, <2>1
    <2>. QED
      BY <1>1, <1>3, <1>7, <2>1, <2>2, <2>3 DEF Combined
  <1>. QED
    BY <1>5, <1>6, <1>7

LEMMA CountOwners ==
    /\ Cardinality({}) = 0
    /\ \A a : Cardinality({a}) = 1
    /\ \A a, b : a # b => Cardinality({a, b}) = 2
  <1>1. Cardinality({}) = 0
    BY FS_EmptySet
  <1>2. \A a : IsFiniteSet({a}) /\ Cardinality({a}) = 1
    BY FS_Singleton
  <1>3. ASSUME NEW a, NEW b, a # b PROVE Cardinality({a, b}) = 2
    <2>1. Cardinality({a} \cup {b}) = Cardinality({a}) + 1
      BY <1>2, <1>3, FS_AddElement
    <2>2. {a, b} = {a} \cup {b} /\ Cardinality({a}) = 1
      BY <1>2
    <2>3. 1 + 1 = 2
      OBVIOUS
    <2>. QED
      BY <2>1, <2>2, <2>3, Zenon
  <1>. QED
    BY <1>1, <1>2, <1>3

\* The node of a scan serves the written address of every target where some node serves
\* it, written addresses of two nodes get none, a scan nobody serves the first catch-all,
\* and no scan takes a block from the node it lies with (selectNode, targetIP).
THEOREM SelectionStaysSound == RegSpec => []SelectionIsSound
  <1>1. RangesDisjoint => SelectionIsSound
    <2>. SUFFICES ASSUME RangesDisjoint, NEW s \in Targets, NEW t \in Targets
                  PROVE
        LET chosen == SelectNode(<<s, t>>)
            owners == Serving(TargetIP(s)) \cup Serving(TargetIP(t))
        IN  /\ Cardinality(owners) > 1 => chosen = NoNode
            /\ Cardinality(owners) = 1 => chosen \in owners
            /\ owners = {} => chosen = DefaultNode
            /\ chosen # NoNode => \A n \in Registered \ {chosen} : ~LiesWith(s, n) /\ ~LiesWith(t, n)
      BY DEF SelectionIsSound
    <2>. DEFINE S == Serving(TargetIP(s))
                T == Serving(TargetIP(t))
                owners == S \cup T
                a == Match(s)
                b == Match(t)
    <2>1. SelectNode(<<s, t>>) = Combined(a, b)
      BY SelectNodeOfPair
    <2>2. /\ S = {} => a = NoNode
          /\ S # {} => a # NoNode /\ S = {a}
          /\ T = {} => b = NoNode
          /\ T # {} => b # NoNode /\ T = {b}
      BY MatchIsTheServer
    <2>3. \A n \in Registered : (LiesWith(s, n) => n \in S) /\ (LiesWith(t, n) => n \in T)
      BY LiesWithItsServer
    <2>4. owners = S \cup T
      OBVIOUS
    <2>. HIDE DEF owners, a, b, S, T
    <2>5. Cardinality(owners) > 1 => Combined(a, b) = NoNode
      <3>1. Cardinality(owners) > 1 => S # {} /\ T # {} /\ a # b
        <4>1. owners = {} \/ owners = {a} \/ owners = {b} \/ owners = {a, b}
          BY <2>4, <2>2
        <4>2. ~(0 > 1) /\ ~(1 > 1)
          OBVIOUS
        <4>3. Cardinality(owners) > 1 => owners # {} /\ owners # {a} /\ owners # {b}
          BY <4>2, CountOwners, Zenon
        <4>. QED
          BY <2>4, <2>2, <4>3
      <3>. QED
        BY <2>2, <3>1 DEF Combined
    <2>6. Cardinality(owners) = 1 => Combined(a, b) \in owners
      <3>1. Cardinality(owners) = 1 => owners # {} /\ ~(a # b /\ owners = {a, b})
        <4>1. 0 # 1 /\ 2 # 1
          OBVIOUS
        <4>2. owners = {} => Cardinality(owners) = 0
          BY CountOwners, Zenon
        <4>3. a # b /\ owners = {a, b} => Cardinality(owners) = 2
          <5>1. a # b => Cardinality({a, b}) = 2
            BY CountOwners
          <5>. QED
            BY <5>1
        <4>. QED
          BY <4>1, <4>2, <4>3, Zenon
      <3>. QED
        BY <2>4, <2>2, <3>1 DEF Combined
    <2>7. owners = {} => Combined(a, b) = DefaultNode
      BY <2>4, <2>2 DEF Combined
    <2>8. Combined(a, b) # NoNode =>
              \A n \in Registered \ {Combined(a, b)} : ~LiesWith(s, n) /\ ~LiesWith(t, n)
      BY <2>2, <2>3 DEF Combined
    <2>. QED
      BY <2>1, <2>5, <2>6, <2>7, <2>8 DEF owners, S, T
  <1>. QED
    BY <1>1, RangesStayDisjoint, PTL


-----------------------------------------------------------------------------
(* Custom templates                                                        *)

\* The guard of the upsert keeps a custom row, whatever the snapshot has.
LEMMA UpsertKeepsCustom ==
    ASSUME NEW snapshot, NEW t \in Ids, Owned(t, "custom")
    PROVE  Upsert(snapshot)[t] = rows[t]
  BY DEF Upsert, Owned

\* No sync changes a custom template, also not one created between the check
\* and the upsert: the rows of custom templates only change in steps that are
\* not steps of a sync loop.
THEOREM CustomStays == SyncSpec => CustomIsNeverReplaced
  <1>1. ASSUME [SyncNext]_syncVars, NEW t \in Ids, Owned(t, "custom"), rows'[t] # rows[t]
        PROVE  UNCHANGED loop
    <2>1. CASE \E r \in Replicas : ApplyUpstreamTemplates(r)
      <3>1. PICK r \in Replicas : ApplyUpstreamTemplates(r)
        BY <2>1
      <3>2. rows' = Upsert(loop[r].snapshot) \/ rows' = rows
        BY <3>1 DEF ApplyUpstreamTemplates
      <3>. QED
        BY <1>1, <3>2, UpsertKeepsCustom
    <2>2. CASE \E x \in CustomIds : CreateCustomTemplate(x) \/ DeleteCustomTemplate(x)
      BY <2>2 DEF CreateCustomTemplate, DeleteCustomTemplate
    <2>3. CASE /\ ~\E r \in Replicas : ApplyUpstreamTemplates(r)
               /\ ~\E x \in CustomIds : CreateCustomTemplate(x) \/ DeleteCustomTemplate(x)
      <3>1. rows' = rows
        BY <1>1, <2>3
        DEF SyncNext, syncVars, catalog, LoopStep, SwitchStep, Wake, WakeUnreaped, LockWorktree,
            ReadSource, TemplateSnapshot, CheckConflict, FailTemplateSync, Probe,
            UpdateTemplateSyncSource, RequestSync, ReadSourceFails, SyncFails, FailIsNotRecorded,
            SyncCrash, Age, SwitchFails, BeginSwitch, Publish
      <3>. QED
        BY <1>1, <3>1
    <2>. QED
      BY <2>1, <2>2, <2>3
  <1>2. [SyncNext]_syncVars =>
            [\A t \in Ids : Owned(t, "custom") /\ rows'[t] # rows[t] => UNCHANGED loop]_syncVars
    BY <1>1
  <1>. QED
    BY <1>2, PTL DEF SyncSpec, CustomIsNeverReplaced

-----------------------------------------------------------------------------
(* Requests for a sync                                                     *)

PerReplica ==
    /\ owed \in [Replicas -> BOOLEAN] /\ trigger \in [Replicas -> BOOLEAN]
    /\ loop = [r \in Replicas |-> loop[r]]
    /\ switch \in [Replicas -> [at : {"idle", "probe", "store", "request"}, next : Sources \cup {Off}]]

QueueInv == PerReplica /\ SwitchIsQueued

LEMMA InitQueue == SyncInit => QueueInv
  BY DEF SyncInit, QueueInv, PerReplica, SwitchIsQueued, NoSwitch

\* The loop goes on after it has read the source.
LEMMA LoopQueue ==
    ASSUME QueueInv, NEW r \in Replicas,
           \/ LockWorktree(r) \/ TemplateSnapshot(r) \/ CheckConflict(r) \/ ApplyUpstreamTemplates(r)
           \/ FailTemplateSync(r) \/ FailIsNotRecorded(r) \/ SyncFails(r)
    PROVE  QueueInv'
  <1>. USE DEF QueueInv, Goes
  <1>1. /\ UNCHANGED <<owed, trigger, switch>> /\ loop[r].at # "read"
        /\ loop' = [loop EXCEPT ![r] = loop'[r]]
    BY DEF PerReplica, LockWorktree, TemplateSnapshot, CheckConflict, ApplyUpstreamTemplates,
           FailTemplateSync, FailIsNotRecorded, SyncFails
  <1>. QED
    BY <1>1 DEF PerReplica, SwitchIsQueued

\* The loop wakes, taking a request with it, and reads the source.
LEMMA WakeQueue ==
    ASSUME QueueInv, NEW r \in Replicas,
           Wake(r) \/ WakeUnreaped(r) \/ ReadSource(r) \/ ReadSourceFails(r)
    PROVE  QueueInv'
  <1>. USE DEF QueueInv, Goes
  <1>1. CASE Wake(r) \/ WakeUnreaped(r)
    <2>1. /\ UNCHANGED <<owed, switch>> /\ trigger' = [trigger EXCEPT ![r] = FALSE]
          /\ loop' = [loop EXCEPT ![r] = [AtRest EXCEPT !.at = "read"]]
      BY <1>1 DEF Wake, WakeUnreaped
    <2>2. [AtRest EXCEPT !.at = "read"].at = "read"
      BY DEF AtRest
    <2>. QED
      BY <2>1, <2>2 DEF PerReplica, SwitchIsQueued
  <1>2. CASE ReadSource(r) \/ ReadSourceFails(r)
    <2>1. /\ UNCHANGED <<trigger, switch>> /\ owed' = [owed EXCEPT ![r] = FALSE]
          /\ loop' = [loop EXCEPT ![r] = loop'[r]]
      BY <1>2 DEF ReadSource, ReadSourceFails, PerReplica
    <2>. QED
      BY <2>1 DEF PerReplica, SwitchIsQueued
  <1>. QED
    BY <1>1, <1>2

\* The handler of a switch stores it and then requests a sync.
LEMMA SwitchQueue ==
    ASSUME QueueInv, NEW r \in Replicas,
           \/ \E next \in Sources \cup {Off} : BeginSwitch(r, next)
           \/ SwitchStep(r) \/ SwitchFails(r)
    PROVE  QueueInv'
  <1>. USE DEF QueueInv
  <1>1. CASE UpdateTemplateSyncSource(r)
    <2>1. /\ owed' = [owed EXCEPT ![r] = switch[r].next # Off] /\ UNCHANGED <<trigger, loop>>
          /\ switch' = [switch EXCEPT ![r] = IF switch[r].next = Off THEN NoSwitch
                                             ELSE [switch[r] EXCEPT !.at = "request"]]
          /\ switch[r].at = "store"
      BY <1>1 DEF UpdateTemplateSyncSource
    <2>2. PerReplica'
      BY <2>1 DEF PerReplica, NoSwitch
    <2>3. [switch[r] EXCEPT !.at = "request"].at = "request"
      BY DEF PerReplica
    <2>. QED
      BY <2>1, <2>2, <2>3 DEF PerReplica, SwitchIsQueued
  <1>2. CASE RequestSync(r)
    <2>1. /\ trigger' = [trigger EXCEPT ![r] = TRUE] /\ UNCHANGED <<owed, loop>>
          /\ switch' = [switch EXCEPT ![r] = NoSwitch]
      BY <1>2 DEF RequestSync
    <2>. QED
      BY <2>1 DEF PerReplica, SwitchIsQueued, NoSwitch
  <1>3. CASE \/ \E next \in Sources \cup {Off} : BeginSwitch(r, next)
             \/ \E reviewed \in BOOLEAN : Probe(r, reviewed)
             \/ SwitchFails(r)
    <2>1. /\ UNCHANGED <<owed, trigger, loop>> /\ switch[r].at # "request"
          /\ switch' = [switch EXCEPT ![r] = switch'[r]]
          /\ switch'[r] \in [at : {"idle", "probe", "store", "request"}, next : Sources \cup {Off}]
      BY <1>3 DEF BeginSwitch, Probe, SwitchFails, PerReplica, NoSwitch
    <2>. QED
      BY <2>1 DEF PerReplica, SwitchIsQueued
  <1>. QED
    BY <1>1, <1>2, <1>3 DEF SwitchStep

LEMMA CrashQueue ==
    ASSUME QueueInv, NEW r \in Replicas, SyncCrash(r)
    PROVE  QueueInv'
  <1>1. /\ loop' = [loop EXCEPT ![r] = AtRest] /\ trigger' = [trigger EXCEPT ![r] = FALSE]
        /\ switch' = [switch EXCEPT ![r] = NoSwitch] /\ owed' = [owed EXCEPT ![r] = FALSE]
    BY DEF SyncCrash, Goes
  <1>. QED
    BY <1>1 DEF QueueInv, PerReplica, SwitchIsQueued, NoSwitch

LEMMA OtherQueue ==
    ASSUME QueueInv, UNCHANGED <<owed, trigger, loop, switch>>
    PROVE  QueueInv'
  BY DEF QueueInv, PerReplica, SwitchIsQueued

LEMMA StepQueue == QueueInv /\ [SyncNext]_syncVars => QueueInv'
  <1>. SUFFICES ASSUME QueueInv, [SyncNext]_syncVars PROVE QueueInv'
    OBVIOUS
  <1>1. CASE \E r \in Replicas :
                \/ LockWorktree(r) \/ LoopStep(r) \/ FailIsNotRecorded(r) \/ SyncFails(r)
    BY <1>1, LoopQueue, WakeQueue DEF LoopStep
  <1>2. CASE \E r \in Replicas : Wake(r) \/ WakeUnreaped(r) \/ ReadSourceFails(r)
    BY <1>2, WakeQueue
  <1>3. CASE \E r \in Replicas : \/ \E next \in Sources \cup {Off} : BeginSwitch(r, next)
                                 \/ SwitchStep(r) \/ SwitchFails(r)
    BY <1>3, SwitchQueue
  <1>4. CASE \E r \in Replicas : SyncCrash(r)
    BY <1>4, CrashQueue
  <1>5. CASE \/ \E r \in Replicas : Age(r)
             \/ \E t \in CustomIds : CreateCustomTemplate(t) \/ DeleteCustomTemplate(t)
             \/ \E s \in Sources : Publish(s)
             \/ UNCHANGED syncVars
    BY <1>5, OtherQueue DEF Age, CreateCustomTemplate, DeleteCustomTemplate, Publish, syncVars
  <1>. QED
    BY <1>1, <1>2, <1>3, <1>4, <1>5 DEF SyncNext

\* A stored switch always has a run of its replica ahead that will read it,
\* wherever the loop was when it was requested.
THEOREM SwitchesStayQueued == SyncSpec => []SwitchIsQueued
  <1>1. QueueInv => SwitchIsQueued
    BY DEF QueueInv
  <1>. QED
    BY <1>1, InitQueue, StepQueue, PTL DEF SyncSpec

-----------------------------------------------------------------------------
(* Template sets                                                           *)

\* A row has an owner; only what upstream dropped is inactive.
RowFits(r) ==
    /\ r = [owner |-> r.owner, active |-> r.active, body |-> r.body]
    /\ r.owner \in {"custom", "upstream"} /\ r.active \in BOOLEAN
    /\ r.owner = "custom" => r.active

\* Exclusions come with mode exclude only.
SetRow ==
    {s \in [mode : Modes, members : SUBSET TemplateIds, exclusions : SUBSET TemplateIds] :
        /\ s.mode # "exclude" => s.exclusions = {}
        /\ s.mode # "exact" => s.members = {}}

\* The foreign keys: members are rows.
SetFits(n) == sets[n] \in SetRow /\ sets[n].members \subseteq Existing(templates)

TablesFit ==
    /\ DOMAIN templates = TemplateIds /\ DOMAIN sets = SetNames
    /\ templates = [t \in TemplateIds |-> templates[t]] /\ sets = [n \in SetNames |-> sets[n]]
    /\ \A t \in TemplateIds : templates[t] # NoTemplate => RowFits(templates[t])
    /\ \A n \in SetNames : sets[n] # NoSet => SetFits(n)

\* A selection by list is not empty once it has been read, and the set of an
\* import has the mode its archive gave it.
RequestFits ==
    /\ request.at \in {"mode", "entries"} \cup Modes => DOMAIN request = {"at", "set", "mode", "picked"}
    /\ request.at \in {"supported", "exclusions"} => DOMAIN request = {"at", "set", "mode", "bundle", "picked"}
    /\ request.at = "entries" => request.mode \in Modes
    /\ request.at = "entries" /\ request.mode = "exact" => request.picked # {}
    /\ request.at \in Modes => request.mode = "exact"
    /\ request.at = "mode" => request.mode = "exact" /\ request.set \in SetNames
    /\ request.at = "apply" => request.set = NoWrite \/ request.set.mode \in Modes

SetsInv == TablesFit /\ RequestFits /\ SelectionInBundle

\* A write of the catalog that keeps every row that is there keeps the sets.
LEMMA CatalogKeepsSets ==
    ASSUME TablesFit, Existing(templates) \subseteq Existing(templates'),
           templates' = [t \in TemplateIds |-> templates'[t]], sets' = sets,
           \A t \in TemplateIds : templates'[t] # NoTemplate => RowFits(templates'[t])
    PROVE  TablesFit'
  <1>1. DOMAIN templates' = TemplateIds
    OBVIOUS
  <1>. QED
    BY <1>1 DEF TablesFit, SetFits

\* A write of one set whose members are rows.
LEMMA WriteKeepsSets ==
    ASSUME TablesFit, templates' = templates, NEW n \in SetNames, NEW row,
           row = NoSet \/ (row \in SetRow /\ row.members \subseteq Existing(templates)),
           sets' = [sets EXCEPT ![n] = row]
    PROVE  TablesFit'
  BY DEF TablesFit, SetFits, Existing

LEMMA RowsAreRows ==
    /\ \A b : RowFits([owner |-> "custom", active |-> TRUE, body |-> b])
    /\ \A b : RowFits([owner |-> "upstream", active |-> TRUE, body |-> b])
    /\ \A b : [owner |-> "custom", active |-> TRUE, body |-> b] # NoTemplate
    /\ \A b : [owner |-> "upstream", active |-> TRUE, body |-> b] # NoTemplate
    /\ \A r : RowFits(r) => r # NoTemplate
  BY DEF RowFits, NoTemplate

LEMMA CreateCustomInv ==
    ASSUME TablesFit, NEW t \in TemplateIds, NEW b \in Bodies, CreateCustom(t, b)
    PROVE  TablesFit'
  BY CatalogKeepsSets, RowsAreRows DEF CreateCustom, TablesFit, Existing

LEMMA UpdateCustomInv ==
    ASSUME TablesFit, NEW t \in TemplateIds, NEW b \in Bodies, UpdateCustom(t, b)
    PROVE  TablesFit'
  <1>1. RowFits([templates[t] EXCEPT !.body = b])
    BY DEF UpdateCustom, IsOwned, TablesFit, RowFits
  <1>2. templates' = [templates EXCEPT ![t] = [templates[t] EXCEPT !.body = b]] /\ sets' = sets
    BY DEF UpdateCustom
  <1>3. \A x \in TemplateIds : templates'[x] = IF x = t THEN [templates[t] EXCEPT !.body = b] ELSE templates[x]
    BY <1>2 DEF TablesFit
  <1>4. Existing(templates) \subseteq Existing(templates')
    BY <1>1, <1>3, RowsAreRows DEF Existing
  <1>. QED
    BY <1>1, <1>2, <1>3, <1>4, CatalogKeepsSets DEF TablesFit

\* A deleted row leaves the sets it was a member of.
LEMMA DeleteCustomInv ==
    ASSUME TablesFit, NEW t \in TemplateIds, DeleteCustom(t)
    PROVE  /\ TablesFit'
           /\ \A n \in SetNames : sets[n] # NoSet =>
                 sets'[n].exclusions = sets[n].exclusions /\ sets[n].members \ sets'[n].members \subseteq {t}
  <1>1. /\ templates' = [templates EXCEPT ![t] = NoTemplate]
        /\ DOMAIN sets' = SetNames
        /\ \A n \in SetNames : /\ sets[n] = NoSet => sets'[n] = NoSet
                               /\ sets[n] # NoSet => sets'[n] = [sets[n] EXCEPT !.members = @ \ {t}]
    BY DEF DeleteCustom
  <1>2. \A x \in TemplateIds : templates'[x] = IF x = t THEN NoTemplate ELSE templates[x]
    BY <1>1 DEF TablesFit
  <1>3. Existing(templates') = Existing(templates) \ {t}
    BY <1>2 DEF Existing
  <1>4. ASSUME NEW n \in SetNames, sets[n] # NoSet
        PROVE  /\ sets'[n] \in SetRow /\ sets'[n].members = sets[n].members \ {t}
               /\ sets'[n].exclusions = sets[n].exclusions
    BY <1>1, <1>4 DEF TablesFit, SetFits, SetRow
  <1>5. DOMAIN templates' = TemplateIds
        /\ \A x \in TemplateIds : templates'[x] # NoTemplate => RowFits(templates'[x])
    BY <1>1, <1>2 DEF TablesFit
  <1>6. templates' = [x \in TemplateIds |-> templates'[x]] /\ sets' = [n \in SetNames |-> sets'[n]]
    BY <1>1 DEF TablesFit, DeleteCustom
  <1>7. \A n \in SetNames : sets'[n] # NoSet => SetFits(n)'
    BY <1>1, <1>3, <1>4 DEF TablesFit, SetFits
  <1>. QED
    BY <1>1, <1>4, <1>5, <1>6, <1>7 DEF TablesFit

LEMMA FlaggedRow ==
    ASSUME NEW r, NEW flag, r = [owner |-> r.owner, active |-> r.active, body |-> r.body]
    PROVE  [r EXCEPT !.active = flag] = [owner |-> r.owner, active |-> flag, body |-> r.body]
  OBVIOUS

\* A sync keeps every row that is there.
LEMMA SyncedFits ==
    ASSUME TablesFit, NEW S \in Snapshots
    PROVE  /\ Existing(templates) \subseteq Existing(Synced(S))
           /\ DOMAIN Synced(S) = TemplateIds
           /\ \A t \in TemplateIds : Synced(S)[t] # NoTemplate => RowFits(Synced(S)[t])
  <1>1. ASSUME NEW t \in TemplateIds
        PROVE  \/ RowFits(Synced(S)[t])
               \/ templates[t] = NoTemplate /\ Synced(S)[t] = NoTemplate
    <2>1. CASE t \in DOMAIN S
      BY <2>1, RowsAreRows DEF Synced
    <2>2. CASE t \notin DOMAIN S /\ IsOwned(t, "upstream")
      <3>1. RowFits(templates[t]) /\ templates[t].owner = "upstream"
        BY <2>2 DEF IsOwned, TablesFit
      <3>2. RowFits([templates[t] EXCEPT !.active = FALSE])
        <4>. DEFINE r == templates[t]
                    q == [owner |-> r.owner, active |-> FALSE, body |-> r.body]
        <4>1. [r EXCEPT !.active = FALSE] = q
          <5>1. r = [owner |-> r.owner, active |-> r.active, body |-> r.body]
            BY <3>1 DEF RowFits
          <5>. HIDE DEF r
          <5>. QED
            BY <5>1, FlaggedRow, Zenon
        <4>2. RowFits(q)
          BY <3>1 DEF RowFits
        <4>. QED
          BY <4>1, <4>2
      <3>. QED
        BY <2>2, <3>2 DEF Synced
    <2>3. CASE t \notin DOMAIN S /\ ~IsOwned(t, "upstream")
      BY <2>3 DEF Synced, TablesFit
    <2>. QED
      BY <2>1, <2>2, <2>3
  <1>2. DOMAIN Synced(S) = TemplateIds
    BY DEF Synced
  <1>. QED
    BY <1>1, <1>2, RowsAreRows DEF Existing

LEMMA SyncInv ==
    ASSUME TablesFit, NEW S \in Snapshots, Sync(S)
    PROVE  TablesFit'
  <1>1. templates' = [t \in TemplateIds |-> templates'[t]]
    BY DEF Sync, Synced
  <1>. QED
    BY <1>1, SyncedFits, CatalogKeepsSets DEF Sync

LEMMA EditSetInv ==
    ASSUME TablesFit, NEW n \in SetNames, NEW M \in SUBSET TemplateIds, NEW mode \in Modes,
           NEW replace \in BOOLEAN,
           \/ CreateTemplateSet(n, mode, M) \/ UpdateTemplateSet(n, mode, replace, M)
           \/ DeleteTemplateSet(n) \/ EditMembers(n, M) \/ ReplaceTemplateSetExclusions(n, M)
    PROVE  TablesFit' /\ templates' = templates
  <1>1. CASE CreateTemplateSet(n, mode, M)
    <2>1. NewSet(mode, M) \in SetRow /\ NewSet(mode, M).members \subseteq Existing(templates)
      BY <1>1 DEF NewSet, SetRow, CreateTemplateSet, ValidExclusions
    <2>. QED
      BY <1>1, <2>1, WriteKeepsSets DEF CreateTemplateSet
  <1>2. CASE UpdateTemplateSet(n, mode, replace, M)
    <2>. DEFINE row == [mode |-> mode,
                        members |-> IF mode = "exact" THEN sets[n].members ELSE {},
                        exclusions |-> IF mode = "exclude" /\ ~replace THEN sets[n].exclusions ELSE M]
    <2>1. sets' = [sets EXCEPT ![n] = row] /\ templates' = templates
      BY <1>2 DEF UpdateTemplateSet
    <2>2. row \in SetRow /\ row.members \subseteq Existing(templates)
      <3>1. /\ sets[n] \in SetRow /\ sets[n].members \subseteq Existing(templates)
            /\ mode # "exclude" => M = {}
        BY <1>2 DEF UpdateTemplateSet, ValidExclusions, TablesFit, SetFits
      <3>2. sets[n].members \subseteq TemplateIds /\ sets[n].exclusions \subseteq TemplateIds
        BY <3>1 DEF SetRow
      <3>. QED
        BY <3>1, <3>2 DEF SetRow
    <2>. HIDE DEF row
    <2>. QED
      BY <2>1, <2>2, WriteKeepsSets
  <1>3. CASE DeleteTemplateSet(n)
    <2>1. sets' = [sets EXCEPT ![n] = NoSet] /\ templates' = templates
      BY <1>3 DEF DeleteTemplateSet
    <2>. QED
      BY <2>1, WriteKeepsSets
  <1>4. CASE EditMembers(n, M)
    <2>. DEFINE row == [sets[n] EXCEPT !.members = M]
    <2>1. sets' = [sets EXCEPT ![n] = row] /\ templates' = templates /\ M \subseteq Existing(templates)
      BY <1>4 DEF EditMembers
    <2>2. row \in SetRow /\ row.members = M
      BY <1>4 DEF EditMembers, TablesFit, SetFits, SetRow
    <2>. HIDE DEF row
    <2>. QED
      BY <2>1, <2>2, WriteKeepsSets
  <1>5. CASE ReplaceTemplateSetExclusions(n, M)
    <2>. DEFINE row == [sets[n] EXCEPT !.exclusions = M]
    <2>1. sets' = [sets EXCEPT ![n] = row] /\ templates' = templates
      BY <1>5 DEF ReplaceTemplateSetExclusions
    <2>2. row \in SetRow /\ row.members \subseteq Existing(templates)
      BY <1>5 DEF ReplaceTemplateSetExclusions, TablesFit, SetFits, SetRow
    <2>. HIDE DEF row
    <2>. QED
      BY <2>1, <2>2, WriteKeepsSets
  <1>. QED
    BY <1>1, <1>2, <1>3, <1>4, <1>5

\* The transaction of an import writes rows, and a set only of rows.
LEMMA ApplyInv ==
    ASSUME TablesFit, RequestFits, ApplyTemplateImport
    PROVE  TablesFit'
  <1>. DEFINE R == Imported(request.writes)
              s == request.set
  <1>1. /\ DOMAIN R = TemplateIds /\ R = [t \in TemplateIds |-> R[t]]
        /\ \A t \in TemplateIds : R[t] = templates[t] \/ RowFits(R[t])
    BY RowsAreRows DEF Imported
  <1>. HIDE DEF R
  <1>2. Existing(templates) \subseteq Existing(R)
    BY <1>1, RowsAreRows DEF Existing
  <1>3. CASE templates' = R /\ sets' = sets
    BY <1>1, <1>2, <1>3, CatalogKeepsSets DEF TablesFit
  <1>4. CASE templates' = templates /\ sets' = sets
    BY <1>4 DEF TablesFit, SetFits, Existing
  <1>5. CASE templates' = R /\ s # NoWrite /\ sets' = [sets EXCEPT ![s.name] = WrittenSet(s)] /\ s.named \subseteq Existing(R)
    <2>1. s.mode \in Modes
      BY <1>5 DEF RequestFits, ApplyTemplateImport
    <2>2. s.named \subseteq TemplateIds
      BY <1>5 DEF Existing
    <2>3. WrittenSet(s) \in SetRow /\ WrittenSet(s).members \subseteq Existing(R)
      BY <1>5, <2>1, <2>2 DEF WrittenSet, SetRow
    <2>4. \A n \in SetNames : sets'[n] = sets[n] \/ sets'[n] = WrittenSet(s)
      BY <1>5 DEF TablesFit
    <2>5. DOMAIN sets' = SetNames
      BY <1>5 DEF TablesFit
    <2>6. \A n \in SetNames : sets'[n] # NoSet => SetFits(n)'
      BY <1>2, <1>5, <2>3, <2>4 DEF TablesFit, SetFits
    <2>. QED
      BY <1>1, <1>5, <2>5, <2>6 DEF TablesFit
  <1>. QED
    BY <1>3, <1>4, <1>5 DEF ApplyTemplateImport, SetWritable, R

\* Every step of a resolution leaves the tables alone and ends in a selection
\* that is not empty and lies in the bundle, or in no selection.
LEMMA ResolveInv ==
    ASSUME SetsInv, \/ \E n \in SetNames : BeginResolve(n)
                    \/ ResolveStep
    PROVE  templates' = templates /\ sets' = sets /\ RequestFits' /\ SelectionInBundle' /\ request'.at # "apply"
  <1>. USE DEF SetsInv, Idle, ResolveError, Modes
  <1>1. ASSUME NEW n \in SetNames, BeginResolve(n)
        PROVE  templates' = templates /\ sets' = sets /\ RequestFits' /\ SelectionInBundle' /\ request'.at # "apply"
    <2>1. sets[n].mode \in Modes
      BY <1>1 DEF BeginResolve, TablesFit, SetFits, SetRow
    <2>. QED
      BY <1>1, <2>1 DEF BeginResolve, RequestFits, SelectionInBundle
  <1>2. CASE ReadMode
    <2>1. CASE request' = Idle
      BY <1>2, <2>1 DEF ReadMode, RequestFits, SelectionInBundle
    <2>2. CASE sets[request.set] # NoSet
      <3>1. /\ request.mode = "exact" /\ DOMAIN request = {"at", "set", "mode", "picked"}
            /\ request' = [request EXCEPT !.at = sets[request.set].mode]
        BY <1>2, <2>2 DEF ReadMode, RequestFits
      <3>2. sets[request.set].mode \in Modes
        BY <1>2, <2>2 DEF ReadMode, RequestFits, TablesFit, SetFits, SetRow
      <3>. QED
        BY <1>2, <3>1, <3>2 DEF ReadMode, RequestFits, SelectionInBundle
    <2>. QED
      BY <1>2, <2>1, <2>2 DEF ReadMode
  <1>3. CASE ReadMembers
    <2>1. CASE request' = Idle
      BY <1>3, <2>1 DEF ReadMembers, RequestFits, SelectionInBundle
    <2>2. CASE request' # Idle
      <3>1. /\ request.mode = "exact" /\ DOMAIN request = {"at", "set", "mode", "picked"}
            /\ \E M : M # {} /\ request' = [request EXCEPT !.at = "entries", !.picked = M]
        BY <1>3, <2>2 DEF ReadMembers, RequestFits
      <3>. QED
        BY <1>3, <3>1 DEF ReadMembers, RequestFits, SelectionInBundle
    <2>. QED
      BY <2>1, <2>2
  <1>4. CASE ReadEntries
    <2>1. CASE request' = Idle
      BY <1>4, <2>1 DEF ReadEntries, RequestFits, SelectionInBundle
    <2>2. CASE request' # Idle
      BY <1>4, <2>2 DEF ReadEntries, RequestFits, SelectionInBundle
    <2>. QED
      BY <2>1, <2>2
  <1>5. CASE CheckSupported
    BY <1>5 DEF CheckSupported, RequestFits, SelectionInBundle
  <1>6. CASE Subtract
    <2>1. CASE request' = Idle
      BY <1>6, <2>1 DEF Subtract, RequestFits, SelectionInBundle
    <2>2. CASE request' # Idle
      <3>1. /\ DOMAIN request = {"at", "set", "mode", "bundle", "picked"}
            /\ \E P : P # {} /\ P \subseteq request.bundle /\ request' = [request EXCEPT !.at = "done", !.picked = P]
        BY <1>6, <2>2 DEF Subtract, RequestFits
      <3>. QED
        BY <1>6, <3>1 DEF Subtract, RequestFits, SelectionInBundle
    <2>. QED
      BY <2>1, <2>2
  <1>7. CASE Dispatch
    BY <1>7 DEF Dispatch, RequestFits, SelectionInBundle
  <1>. QED
    BY <1>1, <1>2, <1>3, <1>4, <1>5, <1>6, <1>7 DEF ResolveStep

LEMMA ImportRequestInv ==
    ASSUME SetsInv, NEW a \in Archives, NEW strategy \in Strategies, NEW withSet \in BOOLEAN,
           PlanImport(a, strategy, withSet) \/ ImportRefused \/ ApplyTemplateImport
    PROVE  RequestFits' /\ SelectionInBundle'
  <1>1. CASE PlanImport(a, strategy, withSet)
    <2>1. PICK renamed : request'.set = IF withSet THEN SetWrite(a, strategy, renamed) ELSE NoWrite
      BY <1>1 DEF PlanImport
    <2>2. request'.set = NoWrite \/ request'.set.mode = a.set.mode
      BY <2>1 DEF SetWrite
    <2>3. request'.at = "apply" /\ a.set.mode \in Modes
      BY <1>1, SetConstants DEF PlanImport
    <2>. QED
      BY <2>2, <2>3 DEF RequestFits, SelectionInBundle, Modes
  <1>2. CASE ImportRefused
    BY <1>2 DEF ImportRefused, Idle, RequestFits, SelectionInBundle, Modes
  <1>3. CASE ApplyTemplateImport
    BY <1>3 DEF ApplyTemplateImport, Idle, RequestFits, SelectionInBundle, Modes
  <1>. QED
    BY <1>1, <1>2, <1>3

LEMMA SetsInitInv == SetsInit => SetsInv
  BY DEF SetsInit, Idle, SetsInv, TablesFit, RequestFits, SelectionInBundle, Modes

LEMMA SetsStepInv == SetsInv /\ [SetsNext]_setVars => SetsInv'
  <1>. SUFFICES ASSUME SetsInv, [SetsNext]_setVars PROVE SetsInv'
    OBVIOUS
  <1>. USE DEF SetsInv
  <1>0. request' = request => RequestFits' /\ SelectionInBundle'
    BY DEF RequestFits, SelectionInBundle
  <1>1. CASE \E t \in TemplateIds, b \in Bodies : CreateCustom(t, b) \/ UpdateCustom(t, b)
    BY <1>0, <1>1, CreateCustomInv, UpdateCustomInv DEF CreateCustom, UpdateCustom
  <1>2. CASE \E t \in TemplateIds : DeleteCustom(t)
    BY <1>0, <1>2, DeleteCustomInv DEF DeleteCustom
  <1>3. CASE \E S \in Snapshots : Sync(S)
    BY <1>0, <1>3, SyncInv DEF Sync
  <1>4. ASSUME NEW n \in SetNames, NEW M \in SUBSET TemplateIds, NEW mode \in Modes, NEW replace \in BOOLEAN,
               \/ CreateTemplateSet(n, mode, M) \/ UpdateTemplateSet(n, mode, replace, M)
               \/ DeleteTemplateSet(n) \/ EditMembers(n, M) \/ ReplaceTemplateSetExclusions(n, M)
        PROVE  SetsInv'
    <2>1. TablesFit'
      BY <1>4, EditSetInv
    <2>2. request' = request
      BY <1>4 DEF CreateTemplateSet, UpdateTemplateSet, DeleteTemplateSet, EditMembers, ReplaceTemplateSetExclusions
    <2>. QED
      BY <1>0, <2>1, <2>2
  <1>5. CASE \E n \in Edited, mode \in Modes, M \in SUBSET TemplateIds :
               \/ CreateTemplateSet(n, mode, M)
               \/ \E replace \in BOOLEAN : UpdateTemplateSet(n, mode, replace, M)
    BY <1>4, <1>5, SetConstants
  <1>6. CASE \E n \in Edited, M \in SUBSET TemplateIds :
               ReplaceTemplateSetMembers(n, M) \/ AddTemplateSetMembers(n, M) \/ ReplaceTemplateSetExclusions(n, M)
    <2>1. PICK n \in Edited, M \in SUBSET TemplateIds :
               ReplaceTemplateSetMembers(n, M) \/ AddTemplateSetMembers(n, M) \/ ReplaceTemplateSetExclusions(n, M)
      BY <1>6
    <2>2. n \in SetNames /\ "all" \in Modes
      BY SetConstants DEF Modes
    <2>3. CASE AddTemplateSetMembers(n, M)
      <3>1. EditMembers(n, sets[n].members \cup M) /\ sets[n].members \cup M \in SUBSET TemplateIds
        BY <2>2, <2>3 DEF AddTemplateSetMembers, TablesFit, SetFits, SetRow
      <3>. QED
        BY <1>4, <2>2, <3>1
    <2>4. CASE ReplaceTemplateSetMembers(n, M) \/ ReplaceTemplateSetExclusions(n, M)
      BY <1>4, <2>2, <2>4 DEF ReplaceTemplateSetMembers
    <2>. QED
      BY <2>1, <2>3, <2>4
  <1>7. CASE \E n \in Edited, t \in TemplateIds : RemoveTemplateSetMember(n, t)
    <2>1. PICK n \in Edited, t \in TemplateIds : RemoveTemplateSetMember(n, t)
      BY <1>7
    <2>2. n \in SetNames /\ "all" \in Modes
      BY SetConstants DEF Modes
    <2>3. EditMembers(n, sets[n].members \ {t}) /\ sets[n].members \ {t} \in SUBSET TemplateIds
      BY <2>1, <2>2 DEF RemoveTemplateSetMember, TablesFit, SetFits, SetRow
    <2>. QED
      BY <1>4, <2>2, <2>3
  <1>8. CASE \E n \in SetNames : DeleteTemplateSet(n)
    <2>1. "all" \in Modes /\ {} \in SUBSET TemplateIds
      BY DEF Modes
    <2>. QED
      BY <1>4, <1>8, <2>1
  <1>9. CASE (\E n \in Edited : BeginResolve(n)) \/ ResolveStep
    <2>1. templates' = templates /\ sets' = sets /\ RequestFits' /\ SelectionInBundle'
      BY <1>9, ResolveInv, SetConstants
    <2>. QED
      BY <2>1 DEF TablesFit, SetFits, Existing
  <1>10. CASE \/ \E a \in Archives, strategy \in Strategies, withSet \in BOOLEAN : PlanImport(a, strategy, withSet)
              \/ ImportRefused
    <2>1. RequestFits' /\ SelectionInBundle'
      <3>1. CASE \E a \in Archives, strategy \in Strategies, withSet \in BOOLEAN : PlanImport(a, strategy, withSet)
        BY <3>1, ImportRequestInv
      <3>2. CASE ImportRefused
        BY <3>2 DEF ImportRefused, Idle, RequestFits, SelectionInBundle, Modes
      <3>. QED
        BY <1>10, <3>1, <3>2
    <2>2. templates' = templates /\ sets' = sets
      BY <1>10 DEF PlanImport, ImportRefused
    <2>. QED
      BY <2>1, <2>2 DEF TablesFit, SetFits, Existing
  <1>11. CASE ApplyTemplateImport
    <2>1. RequestFits' /\ SelectionInBundle'
      BY <1>11 DEF ApplyTemplateImport, Idle, RequestFits, SelectionInBundle, Modes
    <2>. QED
      BY <1>11, <2>1, ApplyInv
  <1>12. CASE UNCHANGED setVars
    BY <1>0, <1>12 DEF setVars, TablesFit, SetFits, Existing
  <1>. QED
    BY <1>1, <1>2, <1>3, <1>5, <1>6, <1>7, <1>8, <1>9, <1>10, <1>11, <1>12 DEF SetsNext

LEMMA SetsInvariant == SetsSpec => []SetsInv
  BY SetsInitInv, SetsStepInv, PTL DEF SetsSpec

\* Whatever happens between the reads of a resolution, a scan gets a selection
\* that is not empty and that its bundle contains (resolveConfigSpec).
THEOREM SelectionStaysInBundle == SetsSpec => []SelectionInBundle
  BY SetsInvariant, PTL DEF SetsInv

\* Neither a sync nor a deletion lifts an exclusion, and only a deleted custom
\* template leaves a curated set (ApplyUpstreamTemplates, DeleteCustomTemplate).
THEOREM ExclusionsOutlast == SetsSpec => ExclusionsOutlastTheCatalog
  <1>. DEFINE Kept == \A n \in SetNames :
          sets[n] # NoSet /\ templates' # templates /\ request' = request =>
              /\ sets'[n].exclusions = sets[n].exclusions
              /\ \A t \in sets[n].members \ sets'[n].members : IsOwned(t, "custom")
  <1>1. SetsInv /\ [SetsNext]_setVars => [Kept]_setVars
    <2>. SUFFICES ASSUME SetsInv, SetsNext, templates' # templates, request' = request PROVE Kept
      BY DEF setVars
    <2>1. CASE \E t \in TemplateIds : DeleteCustom(t)
      <3>1. PICK t \in TemplateIds : DeleteCustom(t)
        BY <2>1
      <3>2. IsOwned(t, "custom")
        BY <3>1 DEF DeleteCustom
      <3>. QED
        BY <3>1, <3>2, DeleteCustomInv DEF SetsInv
    <2>2. CASE sets' = sets
      BY <2>2
    <2>3. ~ApplyTemplateImport
      BY DEF ApplyTemplateImport, Idle
    <2>. QED
      BY <2>1, <2>2, <2>3 DEF SetsNext, ResolveStep, CreateCustom, UpdateCustom, Sync, CreateTemplateSet,
         UpdateTemplateSet, ReplaceTemplateSetMembers, AddTemplateSetMembers, RemoveTemplateSetMember, EditMembers,
         ReplaceTemplateSetExclusions, DeleteTemplateSet, BeginResolve, ReadMode, ReadMembers, ReadEntries,
         CheckSupported, Subtract, Dispatch, PlanImport, ImportRefused
  <1>2. SetsSpec => [][Kept]_setVars
    BY <1>1, SetsInvariant, PTL DEF SetsSpec
  <1>. QED
    BY <1>2 DEF ExclusionsOutlastTheCatalog

\* What one sync makes of a row that is there: an inactive one is active again
\* if the release brings it, an active one stays unless upstream dropped it.
LEMMA SyncOfOneRow ==
    ASSUME TablesFit, NEW S \in Snapshots, ~ShadowsCustom(S), NEW t \in Existing(templates)
    PROVE  /\ t \notin Active(templates) => (t \in Restored(S) <=> t \in Active(Synced(S)))
           /\ t \in Active(templates) => (t \in Removed(S) <=> t \notin Active(Synced(S)))
           /\ t \in Restored(S) => t \notin Active(templates)
           /\ t \in Removed(S) => t \in Active(templates)
  <1>1. t \in TemplateIds /\ templates[t] # NoTemplate /\ RowFits(templates[t])
    BY DEF Existing, TablesFit
  <1>2. t \in Active(templates) <=> templates[t].active
    BY <1>1 DEF Active
  <1>3. t \in Restored(S) <=> t \in DOMAIN S /\ templates[t].owner = "upstream" /\ ~templates[t].active
    BY <1>1 DEF Restored, IsOwned
  <1>4. t \in Removed(S) <=> templates[t].owner = "upstream" /\ templates[t].active /\ t \notin DOMAIN S
    BY <1>1 DEF Removed, IsOwned
  <1>5. t \in Active(Synced(S)) <=> t \in DOMAIN S \/ templates[t].owner = "custom"
    <2>1. CASE t \in DOMAIN S
      <3>1. Synced(S)[t] = [owner |-> "upstream", active |-> TRUE, body |-> S[t]]
        BY <1>1, <2>1 DEF Synced
      <3>. QED
        BY <1>1, <2>1, <3>1, RowsAreRows DEF Active
    <2>2. CASE t \notin DOMAIN S /\ templates[t].owner = "upstream"
      <3>1. Synced(S)[t] = [templates[t] EXCEPT !.active = FALSE]
        BY <1>1, <2>2 DEF Synced, IsOwned
      <3>2. ~Synced(S)[t].active
        BY <1>1, <3>1 DEF RowFits
      <3>. QED
        BY <2>2, <3>2 DEF Active
    <2>3. CASE t \notin DOMAIN S /\ templates[t].owner = "custom"
      <3>1. Synced(S)[t] = templates[t]
        BY <1>1, <2>3 DEF Synced, IsOwned
      <3>. QED
        BY <1>1, <2>3, <3>1 DEF Active, RowFits
    <2>. QED
      BY <1>1, <2>1, <2>2, <2>3 DEF RowFits
  <1>6. t \in DOMAIN S => templates[t].owner = "upstream"
    BY <1>1 DEF ShadowsCustom, IsOwned, RowFits
  <1>7. /\ ~templates[t].active => templates[t].owner = "upstream"
        /\ templates[t].owner \in {"custom", "upstream"}
    BY <1>1 DEF RowFits
  <1>. QED
    BY <1>2, <1>3, <1>4, <1>5, <1>6, <1>7

\* The preview of a source tells which curated sets its sync makes scannable
\* again and which it breaks (PreviewSource, ApplyUpstreamTemplates).
THEOREM PreviewStaysRight == SetsSpec => []PreviewForetells
  <1>1. TablesFit => PreviewForetells
    <2>. SUFFICES ASSUME TablesFit, NEW S \in Snapshots, ~ShadowsCustom(S), NEW n \in SetNames,
                         sets[n] # NoSet, sets[n].mode = "exact"
                  PROVE  /\ n \in TemplateSetsRegainingMembers(S)
                               <=> ~Scannable(n, templates) /\ Scannable(n, Synced(S))
                         /\ Scannable(n, templates)
                               => (n \in TemplateSetsLosingMembers(S) <=> ~Scannable(n, Synced(S)))
      BY DEF PreviewForetells
    <2>. DEFINE M == sets[n].members
    <2>1. M \subseteq Existing(templates)
      BY DEF TablesFit, SetFits
    <2>2. \A t \in M : /\ t \notin Active(templates) => (t \in Restored(S) <=> t \in Active(Synced(S)))
                       /\ t \in Active(templates) => (t \in Removed(S) <=> t \notin Active(Synced(S)))
                       /\ t \in Restored(S) => t \notin Active(templates)
                       /\ t \in Removed(S) => t \in Active(templates)
      BY <2>1, SyncOfOneRow
    <2>3. n \in TemplateSetsRegainingMembers(S)
            <=> M \ Active(templates) # {} /\ M \ Active(templates) \subseteq Restored(S) /\ M \cap Removed(S) = {}
      BY DEF TemplateSetsRegainingMembers
    <2>4. n \in TemplateSetsLosingMembers(S) <=> M \cap Removed(S) # {}
      BY DEF TemplateSetsLosingMembers
    <2>5. /\ Scannable(n, templates) <=> M # {} /\ M \subseteq Active(templates)
          /\ Scannable(n, Synced(S)) <=> M # {} /\ M \subseteq Active(Synced(S))
      BY DEF Scannable
    <2>. HIDE DEF M
    <2>. QED
      BY <2>2, <2>3, <2>4, <2>5
  <1>. QED
    BY <1>1, SetsInvariant, PTL DEF SetsInv

-----------------------------------------------------------------------------
(* Portable archives                                                       *)

\* The loop of planPortableTemplateWrites up to entry n, as an equation.
Rounds(plan, a, strategy, n) ==
    [i \in 0..n |-> IF i = 0 THEN NoPlan ELSE PlanEntry(strategy, plan[i - 1], a.entries[i])]

LEMMA LoopRuns ==
    ASSUME NEW a, NEW strategy, Len(a.entries) \in Nat
    PROVE  \E plan : /\ plan = Rounds(plan, a, strategy, Len(a.entries))
                     /\ PlanWrites(a, strategy) = plan[Len(a.entries)]
  <1>. DEFINE N == Len(a.entries)
              Runs(n) == \E plan : plan = Rounds(plan, a, strategy, n)
  <1>1. Runs(0)
    <2>. DEFINE plan == [i \in 0..0 |-> NoPlan]
    <2>1. plan = Rounds(plan, a, strategy, 0)
      BY DEF Rounds
    <2>. QED
      BY <2>1
  <1>2. ASSUME NEW n \in Nat, n > 0, Runs(n - 1)
        PROVE  Runs(n)
    <2>1. PICK g : g = Rounds(g, a, strategy, n - 1)
      BY <1>2
    <2>. DEFINE f == [i \in 0..n |-> IF i = n THEN PlanEntry(strategy, g[n - 1], a.entries[n]) ELSE g[i]]
    <2>2. ASSUME NEW i \in 0..n
          PROVE  f[i] = Rounds(f, a, strategy, n)[i]
      <3>1. Rounds(f, a, strategy, n)[i] =
              IF i = 0 THEN NoPlan ELSE PlanEntry(strategy, f[i - 1], a.entries[i])
        BY DEF Rounds
      <3>2. i # 0 => i - 1 \in 0..n /\ i - 1 # n
        BY <1>2
      <3>3. i # 0 => f[i - 1] = g[i - 1]
        BY <3>2
      <3>4. CASE i = n
        <4>1. f[i] = PlanEntry(strategy, g[i - 1], a.entries[i])
          BY <3>4
        <4>2. i # 0
          BY <1>2, <3>4
        <4>. HIDE DEF f
        <4>. QED
          BY <3>1, <3>3, <4>1, <4>2
      <3>5. CASE i # n
        <4>1. i \in 0..(n - 1)
          BY <1>2, <3>5
        <4>2. f[i] = g[i]
          BY <3>5
        <4>3. g[i] = IF i = 0 THEN NoPlan ELSE PlanEntry(strategy, g[i - 1], a.entries[i])
          BY <2>1, <4>1 DEF Rounds
        <4>. HIDE DEF f
        <4>. QED
          BY <3>1, <3>3, <4>2, <4>3
      <3>. QED
        BY <3>4, <3>5
    <2>3. f = Rounds(f, a, strategy, n)
      <3>1. f = [i \in 0..n |-> f[i]]
        OBVIOUS
      <3>2. Rounds(f, a, strategy, n) = [i \in 0..n |-> Rounds(f, a, strategy, n)[i]]
        BY DEF Rounds
      <3>. HIDE DEF f
      <3>. QED
        BY <2>2, <3>1, <3>2
    <2>. QED
      BY <2>3
  <1>3. Runs(N)
    <2>. DEFINE S == {n \in 0..N : Runs(n)}
    <2>1. 0 \in S
      BY <1>1
    <2>2. ASSUME NEW n \in 1..N, n - 1 \in S
          PROVE  n \in S
      <3>1. n \in Nat /\ n > 0 /\ n \in 0..N /\ Runs(n - 1)
        BY <2>2
      <3>. HIDE DEF Runs
      <3>. QED
        BY <1>2, <3>1
    <2>3. N \in S
      <3>. HIDE DEF S
      <3>. QED
        BY <2>1, <2>2, CountingUp
    <2>. QED
      BY <2>3
  <1>. DEFINE plan == CHOOSE p : p = Rounds(p, a, strategy, N)
  <1>4. plan = Rounds(plan, a, strategy, N)
    BY <1>3
  <1>5. PlanWrites(a, strategy) = plan[N]
    BY DEF PlanWrites, Rounds
  <1>. QED
    BY <1>4, <1>5

\* A plan under construction.
PlanFits(p) ==
    /\ p = [writes |-> p.writes, renamed |-> p.renamed, occupied |-> p.occupied]
    /\ p.renamed = [t \in TemplateIds |-> p.renamed[t]]
    /\ \E S : p.writes \in Seq(S)

\* What writing an entry does to a plan.
WritesOne(p, e, id, over, q) ==
    /\ PlanFits(q)
    /\ q.writes = Append(p.writes, [id |-> id, body |-> e.yaml, over |-> over])
    /\ ToSet(q.writes) = ToSet(p.writes) \cup {[id |-> id, body |-> e.yaml, over |-> over]}
    /\ q.renamed[e.id] = id
    /\ \A t \in TemplateIds : t # e.id => q.renamed[t] = p.renamed[t]

LEMMA WrittenPlan ==
    ASSUME NEW p, PlanFits(p), NEW e, e.id \in TemplateIds, NEW id, NEW over
    PROVE  WritesOne(p, e, id, over, Written(p, e, id, over))
  <1>. SUFFICES ASSUME NEW q, q = Written(p, e, id, over)
                PROVE  WritesOne(p, e, id, over, q)
    OBVIOUS
  <1>. DEFINE w == [id |-> id, body |-> e.yaml, over |-> over]
  <1>1. /\ q.writes = Append(p.writes, w)
        /\ q.renamed = [p.renamed EXCEPT ![e.id] = id]
        /\ q = [writes |-> q.writes, renamed |-> q.renamed, occupied |-> q.occupied]
    BY DEF Written, PlanFits
  <1>. HIDE DEF w
  <1>2. PICK S : p.writes \in Seq(S)
    BY DEF PlanFits
  <1>3. p.writes \in Seq(S \cup {w})
    BY <1>2
  <1>4. /\ q.writes \in Seq(S \cup {w})
        /\ Len(q.writes) = Len(p.writes) + 1
        /\ \A i \in 1..Len(p.writes) : q.writes[i] = p.writes[i]
        /\ q.writes[Len(p.writes) + 1] = w
    BY <1>1, <1>3
  <1>5. ToSet(q.writes) = ToSet(p.writes) \cup {w}
    <2>1. Len(p.writes) \in Nat /\ DOMAIN p.writes = 1..Len(p.writes) /\ DOMAIN q.writes = 1..(Len(p.writes) + 1)
      BY <1>2, <1>4
    <2>2. 1..(Len(p.writes) + 1) = 1..Len(p.writes) \cup {Len(p.writes) + 1}
      BY <2>1
    <2>. QED
      BY <1>4, <2>1, <2>2 DEF ToSet
  <1>6. q.renamed = [t \in TemplateIds |-> q.renamed[t]]
    BY <1>1 DEF PlanFits
  <1>7. q.renamed[e.id] = id /\ \A t \in TemplateIds : t # e.id => q.renamed[t] = p.renamed[t]
    BY <1>1 DEF PlanFits
  <1>. QED
    BY <1>1, <1>4, <1>5, <1>6, <1>7 DEF PlanFits, WritesOne, w

LEMMA EmptyPlan ==
    PlanFits(NoPlan) /\ ToSet(NoPlan.writes) = {} /\ \A t \in TemplateIds : NoPlan.renamed[t] = t
  <1>1. NoPlan.writes = <<>> /\ NoPlan.renamed = [t \in TemplateIds |-> t]
    BY DEF NoPlan
  <1>2. <<>> \in Seq({}) /\ ToSet(<<>>) = {}
    BY DEF ToSet
  <1>. QED
    BY <1>1, <1>2 DEF PlanFits, NoPlan

\* What the policy of an import lets it write over, and that it writes every
\* custom entry when no policy leaves one out.
KeepsPolicy(a, strategy, i, p) ==
    \A w \in ToSet(p.writes) : w.over => strategy = "overwrite" /\ \E k \in 1..i : w.id = a.entries[k].id

LeavesNoneOut(a, strategy) ==
    /\ strategy \in {"overwrite", "rename"}
    /\ \A e \in ToSet(a.entries) : e.owner = "custom" /\ IsOwned(e.id, "upstream") => strategy = "rename"

Carries(p, e) == \E w \in ToSet(p.writes) : w.id = p.renamed[e.id] /\ w.body = e.yaml

CarriesAll(a, strategy, i, p) ==
    LeavesNoneOut(a, strategy) => \A k \in 1..i : a.entries[k].owner = "custom" => Carries(p, a.entries[k])

PlanSound(a, strategy, i, p) ==
    PlanFits(p) /\ KeepsPolicy(a, strategy, i, p) /\ CarriesAll(a, strategy, i, p)

EntrySet == [id : TemplateIds, owner : {"custom", "upstream"}, sha : Bodies, yaml : Bodies]

\* A round that writes.
LEMMA WritingRound ==
    ASSUME NEW a, NEW strategy, NEW i \in Nat, i # 0, i \in 1..Len(a.entries),
           a.entries \in Seq(EntrySet), ValidArchive(a),
           NEW p, PlanSound(a, strategy, i - 1, p), NEW id, NEW over,
           over => strategy = "overwrite" /\ id = a.entries[i].id
    PROVE  PlanSound(a, strategy, i, Written(p, a.entries[i], id, over))
  <1>. DEFINE e == a.entries[i]
              q == Written(p, e, id, over)
              w == [id |-> id, body |-> e.yaml, over |-> over]
  <1>1. e.id \in TemplateIds /\ PlanFits(p)
    <2>1. e \in EntrySet
      OBVIOUS
    <2>. QED
      BY <2>1 DEF EntrySet, PlanSound
  <1>2. /\ PlanFits(q)
        /\ ToSet(q.writes) = ToSet(p.writes) \cup {w}
        /\ q.renamed[e.id] = id
        /\ \A t \in TemplateIds : t # e.id => q.renamed[t] = p.renamed[t]
    <2>1. WritesOne(p, e, id, over, q)
      <3>. HIDE DEF e
      <3>. QED
        BY <1>1, WrittenPlan
    <2>. QED
      BY <2>1 DEF WritesOne
  <1>3. w.id = id /\ w.body = e.yaml /\ w.over = over
    OBVIOUS
  <1>. HIDE DEF q, w
  <1>4. 1..(i - 1) \subseteq 1..i /\ i \in 1..i /\ \A k \in 1..i : k = i \/ k \in 1..(i - 1)
    OBVIOUS
  <1>5. KeepsPolicy(a, strategy, i, q)
    BY <1>2, <1>3, <1>4 DEF KeepsPolicy, PlanSound
  <1>6. ASSUME LeavesNoneOut(a, strategy), NEW k \in 1..i, a.entries[k].owner = "custom"
        PROVE  Carries(q, a.entries[k])
    <2>1. CASE k = i
      BY <1>2, <1>3, <2>1 DEF Carries
    <2>2. CASE k # i
      <3>1. k \in 1..(i - 1) /\ k \in DOMAIN a.entries /\ i \in DOMAIN a.entries
        BY <1>4, <2>2
      <3>2. Carries(p, a.entries[k])
        BY <1>6, <3>1 DEF PlanSound, CarriesAll
      <3>3. a.entries[k].id # e.id
        BY <2>2, <3>1 DEF ValidArchive
      <3>4. a.entries[k].id \in TemplateIds
        <4>1. a.entries[k] \in EntrySet
          BY <3>1
        <4>. QED
          BY <4>1 DEF EntrySet
      <3>5. q.renamed[a.entries[k].id] = p.renamed[a.entries[k].id]
        BY <1>2, <3>3, <3>4
      <3>. QED
        BY <1>2, <3>2, <3>5 DEF Carries
    <2>. QED
      BY <2>1, <2>2
  <1>. QED
    BY <1>2, <1>5, <1>6 DEF PlanSound, CarriesAll, q

\* A round that leaves the plan as it is.
LEMMA IdleRound ==
    ASSUME NEW a, NEW strategy, NEW i \in Nat, i # 0,
           NEW p, PlanSound(a, strategy, i - 1, p),
           LeavesNoneOut(a, strategy) => a.entries[i].owner # "custom"
    PROVE  PlanSound(a, strategy, i, p)
  <1>1. 1..(i - 1) \subseteq 1..i /\ \A k \in 1..i : k = i \/ k \in 1..(i - 1)
    OBVIOUS
  <1>2. KeepsPolicy(a, strategy, i, p)
    BY <1>1 DEF KeepsPolicy, PlanSound
  <1>3. CarriesAll(a, strategy, i, p)
    BY <1>1 DEF CarriesAll, PlanSound
  <1>. QED
    BY <1>2, <1>3 DEF PlanSound

LEMMA PlanFollowsPolicy ==
    ASSUME TablesFit, NEW a, NEW strategy \in Strategies,
           a.entries \in Seq(EntrySet), ValidArchive(a)
    PROVE  PlanSound(a, strategy, Len(a.entries), PlanWrites(a, strategy))
  <1>. DEFINE N == Len(a.entries)
  <1>1. N \in Nat
    OBVIOUS
  <1>2. PICK plan : plan = Rounds(plan, a, strategy, N) /\ PlanWrites(a, strategy) = plan[N]
    <2>. HIDE DEF N
    <2>. QED
      BY <1>1, LoopRuns DEF N
  <1>. DEFINE S == {i \in 0..N : PlanSound(a, strategy, i, plan[i])}
  <1>3. 0 \in S
    <2>1. plan[0] = NoPlan /\ 0 \in 0..N
      BY <1>1, <1>2 DEF Rounds
    <2>2. PlanSound(a, strategy, 0, NoPlan)
      <3>1. PlanFits(NoPlan) /\ ToSet(NoPlan.writes) = {}
        BY EmptyPlan
      <3>2. \A k \in 1..0 : FALSE
        OBVIOUS
      <3>. QED
        BY <3>1, <3>2 DEF PlanSound, KeepsPolicy, CarriesAll
    <2>. QED
      BY <2>1, <2>2
  <1>4. ASSUME NEW i \in 1..N, i - 1 \in S
        PROVE  i \in S
    <2>. DEFINE e == a.entries[i]
                p == plan[i - 1]
    <2>1. i \in Nat /\ i # 0 /\ i \in 0..N /\ i \in 1..Len(a.entries)
      BY <1>1
    <2>2. plan[i] = PlanEntry(strategy, p, e)
      BY <1>2, <2>1 DEF Rounds
    <2>3. PlanSound(a, strategy, i - 1, p)
      BY <1>4
    <2>4. e \in EntrySet /\ e \in ToSet(a.entries)
      BY <2>1 DEF ToSet
    <2>. SUFFICES PlanSound(a, strategy, i, PlanEntry(strategy, p, e))
      BY <2>1, <2>2
    <2>. HIDE DEF N, S, p
    <2>5. CASE e.owner = "upstream"
      <3>1. PlanEntry(strategy, p, e) = p
        BY <2>5 DEF PlanEntry
      <3>. QED
        BY <2>1, <2>3, <2>5, <3>1, IdleRound
    <2>6. CASE e.owner = "custom" /\ templates[e.id] = NoTemplate
      <3>1. PlanEntry(strategy, p, e) = Written(p, e, e.id, FALSE)
        BY <2>6 DEF PlanEntry, IsOwned
      <3>. QED
        BY <2>1, <2>3, <3>1, WritingRound
    <2>7. CASE e.owner = "custom" /\ templates[e.id] # NoTemplate /\ strategy = "rename"
      <3>1. PlanEntry(strategy, p, e) = Written(p, e, NextImported(e.id, p.occupied), FALSE)
        BY <2>7 DEF PlanEntry
      <3>. QED
        BY <2>1, <2>3, <3>1, WritingRound
    <2>8. CASE e.owner = "custom" /\ IsOwned(e.id, "custom") /\ strategy = "overwrite"
      <3>1. PlanEntry(strategy, p, e) = Written(p, e, e.id, TRUE)
        BY <2>8 DEF PlanEntry, IsOwned
      <3>. QED
        BY <2>1, <2>3, <2>8, <3>1, WritingRound
    <2>9. CASE e.owner = "custom" /\ templates[e.id] # NoTemplate /\ strategy # "rename"
                 /\ ~ (IsOwned(e.id, "custom") /\ strategy = "overwrite")
      <3>1. PlanEntry(strategy, p, e) = p
        BY <2>9 DEF PlanEntry
      <3>2. e.id \in TemplateIds
        BY <2>4 DEF EntrySet
      <3>3. IsOwned(e.id, "custom") \/ IsOwned(e.id, "upstream")
        BY <2>9, <3>2 DEF TablesFit, RowFits, IsOwned
      <3>4. ~ LeavesNoneOut(a, strategy)
        BY <2>4, <2>9, <3>3 DEF LeavesNoneOut
      <3>. QED
        BY <2>1, <2>3, <3>1, <3>4, IdleRound
    <2>. QED
      BY <2>4, <2>5, <2>6, <2>7, <2>8, <2>9 DEF EntrySet
  <1>5. N \in S
    <2>. HIDE DEF S, N
    <2>. QED
      BY <1>1, <1>3, <1>4, CountingUp
  <1>. QED
    BY <1>2, <1>5


\* An archive of rows as the catalog holds them.
MirrorsCatalog(a) ==
    \A e \in ToSet(a.entries) :
        /\ e.id \in TemplateIds /\ templates[e.id] # NoTemplate
        /\ e.owner = templates[e.id].owner /\ e.yaml = templates[e.id].body

DistinctIds(W) == \A j, k \in DOMAIN W : W[j].id = W[k].id => j = k

\* Its plan writes over custom rows what they hold.
WritesMirror(a, i, W) ==
    \A w \in ToSet(W) :
        /\ w.over /\ IsOwned(w.id, "custom") /\ w.body = templates[w.id].body
        /\ \E k \in 1..i : w.id = a.entries[k].id

PlanMirrors(a, i, p) ==
    /\ PlanFits(p) /\ \A t \in TemplateIds : p.renamed[t] = t
    /\ WritesMirror(a, i, p.writes) /\ DistinctIds(p.writes)

LEMMA MirrorRound ==
    ASSUME NEW a, NEW i \in Nat, i # 0, i \in 1..Len(a.entries), DOMAIN a.entries = 1..Len(a.entries),
           ValidArchive(a), MirrorsCatalog(a),
           NEW p, PlanMirrors(a, i - 1, p), IsOwned(a.entries[i].id, "custom")
    PROVE  PlanMirrors(a, i, Written(p, a.entries[i], a.entries[i].id, TRUE))
  <1>. DEFINE e == a.entries[i]
              q == Written(p, e, e.id, TRUE)
              w == [id |-> e.id, body |-> e.yaml, over |-> TRUE]
              n == Len(p.writes)
  <1>1. /\ e \in ToSet(a.entries) /\ PlanFits(p)
        /\ e.id \in TemplateIds /\ e.yaml = templates[e.id].body /\ IsOwned(e.id, "custom")
    BY DEF MirrorsCatalog, PlanMirrors, ToSet
  <1>2. WritesOne(p, e, e.id, TRUE, q)
    <2>. HIDE DEF e
    <2>. QED
      BY <1>1, WrittenPlan
  <1>3. w.id = e.id /\ w.body = e.yaml /\ w.over
    OBVIOUS
  <1>4. /\ PlanFits(q) /\ ToSet(q.writes) = ToSet(p.writes) \cup {w}
        /\ q.renamed[e.id] = e.id /\ \A t \in TemplateIds : t # e.id => q.renamed[t] = p.renamed[t]
    BY <1>2 DEF WritesOne
  <1>5. PICK S : p.writes \in Seq(S)
    BY <1>1 DEF PlanFits
  <1>6. q.writes = Append(p.writes, w)
    BY <1>2 DEF WritesOne
  <1>. HIDE DEF q, w
  <1>7. /\ n \in Nat /\ DOMAIN p.writes = 1..n /\ DOMAIN q.writes = 1..(n + 1)
        /\ \A k \in 1..n : q.writes[k] = p.writes[k]
        /\ q.writes[n + 1] = w
    <2>1. p.writes \in Seq(S \cup {w})
      BY <1>5
    <2>. QED
      BY <1>6, <2>1
  <1>8. 1..(i - 1) \subseteq 1..i /\ i \in 1..i
    OBVIOUS
  <1>9. WritesMirror(a, i, q.writes)
    BY <1>1, <1>3, <1>4, <1>8 DEF WritesMirror, PlanMirrors
  <1>10. \A k \in 1..n : p.writes[k].id # e.id
    <2>1. SUFFICES ASSUME NEW k \in 1..n, p.writes[k].id = e.id PROVE FALSE
      OBVIOUS
    <2>2. p.writes[k] \in ToSet(p.writes)
      BY <1>7 DEF ToSet
    <2>3. PICK m \in 1..(i - 1) : p.writes[k].id = a.entries[m].id
      BY <2>2 DEF WritesMirror, PlanMirrors
    <2>4. m \in DOMAIN a.entries /\ i \in DOMAIN a.entries /\ m # i
      OBVIOUS
    <2>. QED
      BY <2>1, <2>3, <2>4 DEF ValidArchive
  <1>11. DistinctIds(q.writes)
    <2>1. SUFFICES ASSUME NEW j \in 1..(n + 1), NEW k \in 1..(n + 1), q.writes[j].id = q.writes[k].id
                   PROVE  j = k
      BY <1>7 DEF DistinctIds
    <2>2. (j = n + 1 \/ j \in 1..n) /\ (k = n + 1 \/ k \in 1..n)
      BY <1>7
    <2>3. DistinctIds(p.writes)
      BY DEF PlanMirrors
    <2>. HIDE DEF n, e
    <2>. QED
      BY <1>3, <1>7, <1>10, <2>1, <2>2, <2>3 DEF DistinctIds
  <1>12. \A t \in TemplateIds : q.renamed[t] = t
    BY <1>4 DEF PlanMirrors
  <1>. QED
    BY <1>4, <1>9, <1>11, <1>12 DEF PlanMirrors, q

LEMMA PlanOfMirror ==
    ASSUME TablesFit, NEW a, DOMAIN a.entries = 1..Len(a.entries), Len(a.entries) \in Nat,
           ValidArchive(a), MirrorsCatalog(a)
    PROVE  PlanMirrors(a, Len(a.entries), PlanWrites(a, "overwrite"))
  <1>. DEFINE N == Len(a.entries)
  <1>2. PICK plan : plan = Rounds(plan, a, "overwrite", N) /\ PlanWrites(a, "overwrite") = plan[N]
    BY LoopRuns
  <1>. DEFINE S == {i \in 0..N : PlanMirrors(a, i, plan[i])}
  <1>3. 0 \in S
    <2>1. plan[0] = NoPlan /\ 0 \in 0..N
      BY <1>2 DEF Rounds
    <2>2. PlanMirrors(a, 0, NoPlan)
      <3>1. PlanFits(NoPlan) /\ ToSet(NoPlan.writes) = {} /\ \A t \in TemplateIds : NoPlan.renamed[t] = t
        BY EmptyPlan
      <3>2. DOMAIN NoPlan.writes = {}
        BY DEF NoPlan
      <3>. QED
        BY <3>1, <3>2 DEF PlanMirrors, WritesMirror, DistinctIds
    <2>. QED
      BY <2>1, <2>2
  <1>4. ASSUME NEW i \in 1..N, i - 1 \in S
        PROVE  i \in S
    <2>. DEFINE e == a.entries[i]
                p == plan[i - 1]
    <2>1. i \in Nat /\ i # 0 /\ i \in 0..N /\ i \in 1..Len(a.entries)
      OBVIOUS
    <2>2. plan[i] = PlanEntry("overwrite", p, e)
      BY <1>2, <2>1 DEF Rounds
    <2>3. PlanMirrors(a, i - 1, p)
      BY <1>4
    <2>4. e \in ToSet(a.entries)
      BY <2>1 DEF ToSet
    <2>5. e.id \in TemplateIds /\ templates[e.id] # NoTemplate /\ e.owner = templates[e.id].owner
      BY <2>4 DEF MirrorsCatalog
    <2>6. e.owner \in {"custom", "upstream"}
      BY <2>5 DEF TablesFit, RowFits
    <2>. SUFFICES PlanMirrors(a, i, PlanEntry("overwrite", p, e))
      BY <2>1, <2>2
    <2>. HIDE DEF N, S, p
    <2>7. CASE e.owner = "upstream"
      <3>1. PlanEntry("overwrite", p, e) = p
        BY <2>7 DEF PlanEntry
      <3>2. 1..(i - 1) \subseteq 1..i
        BY <2>1
      <3>3. WritesMirror(a, i, p.writes)
        BY <2>3, <3>2 DEF PlanMirrors, WritesMirror
      <3>. QED
        BY <2>3, <3>1, <3>3 DEF PlanMirrors
    <2>8. CASE e.owner = "custom"
      <3>1. IsOwned(e.id, "custom")
        BY <2>5, <2>8 DEF IsOwned
      <3>2. PlanEntry("overwrite", p, e) = Written(p, e, e.id, TRUE)
        BY <2>5, <2>8, <3>1 DEF PlanEntry
      <3>. QED
        BY <2>1, <2>3, <3>1, <3>2, MirrorRound
    <2>. QED
      BY <2>6, <2>7, <2>8
  <1>5. N \in S
    <2>. HIDE DEF S
    <2>. QED
      BY <1>3, <1>4, CountingUp
  <1>. QED
    BY <1>2, <1>5


\* What an export of an exact set carries.
LEMMA ExportMirrors ==
    ASSUME TablesFit, NEW n \in SetNames, sets[n] # NoSet, sets[n].mode = "exact",
           NEW a, a = ExportTemplateSet(n)
    PROVE  /\ a.entries \in Seq(ToSet(a.entries))
           /\ MirrorsCatalog(a) /\ ValidArchive(a)
           /\ a.set = [name |-> n, mode |-> "exact", named |-> sets[n].members]
  <1>. DEFINE M == sets[n].members
              Row(t) == [id |-> t, owner |-> templates[t].owner, sha |-> templates[t].body, yaml |-> templates[t].body]
              E == {Row(t) : t \in M}
  <1>1. SetFits(n)
    BY DEF TablesFit
  <1>2. M \subseteq TemplateIds /\ \A t \in M : templates[t] # NoTemplate
    BY <1>1 DEF SetFits, SetRow, Existing
  <1>3. /\ a.entries = SetToSeq(E)
        /\ a.set = [name |-> n, mode |-> "exact", named |-> M]
    BY DEF ExportTemplateSet
  <1>4. IsFiniteSet(E)
    <2>1. IsFiniteSet(M)
      BY <1>2, SetConstants, FS_Subset
    <2>. DEFINE f == [t \in M |-> Row(t)]
    <2>2. f \in Surjection(M, E)
      <3>1. f \in [M -> E]
        OBVIOUS
      <3>2. \A e \in E : \E t \in M : f[t] = e
        OBVIOUS
      <3>. HIDE DEF f, E
      <3>. QED
        BY <3>1, <3>2 DEF Surjection
    <2>. HIDE DEF E, f
    <2>. QED
      BY <2>1, <2>2, FS_Surjection
  <1>5. a.entries \in Seq(E) /\ IsInjective(a.entries) /\ ToSet(a.entries) = E
    <2>. HIDE DEF E
    <2>. QED
      BY <1>3, <1>4, ListOfSet
  <1>6. ASSUME NEW e \in E
        PROVE  /\ e.id \in M /\ e = Row(e.id)
               /\ e.owner = templates[e.id].owner /\ e.sha = templates[e.id].body /\ e.yaml = templates[e.id].body
    OBVIOUS
  <1>7. MirrorsCatalog(a)
    <2>. HIDE DEF E, Row, M
    <2>. QED
      BY <1>2, <1>5, <1>6 DEF MirrorsCatalog
  <1>8. M \subseteq {e.id : e \in E}
    <2>1. \A t \in M : Row(t) \in E /\ Row(t).id = t
      OBVIOUS
    <2>. HIDE DEF E, Row, M
    <2>. QED
      BY <2>1
  <1>9. ASSUME NEW i \in DOMAIN a.entries, NEW j \in DOMAIN a.entries, a.entries[i].id = a.entries[j].id
        PROVE  i = j
    <2>1. a.entries[i] \in E /\ a.entries[j] \in E
      <3>. HIDE DEF E
      <3>. QED
        BY <1>5
    <2>2. a.entries[i] = a.entries[j]
      <3>. HIDE DEF E, Row
      <3>. QED
        BY <1>6, <1>9, <2>1
    <2>. QED
      BY <1>5, <2>2 DEF IsInjective
  <1>10. ValidArchive(a)
    <2>1. \A e \in ToSet(a.entries) : e.yaml = e.sha
      <3>. HIDE DEF E, Row, M
      <3>. QED
        BY <1>5, <1>6
    <2>2. a.set.mode = "exact" /\ a.set.named = M
      BY <1>3
    <2>. HIDE DEF E, Row, M
    <2>. QED
      BY <1>5, <1>8, <1>9, <2>1, <2>2 DEF ValidArchive
  <1>11. a.entries \in Seq(ToSet(a.entries))
    <2>. HIDE DEF E
    <2>. QED
      BY <1>5
  <1>. QED
    BY <1>3, <1>7, <1>10, <1>11

LEMMA MirrorChangesNothing ==
    ASSUME TablesFit, NEW a, NEW i, NEW W, WritesMirror(a, i, W), DistinctIds(W)
    PROVE  Writable(W) /\ Imported(W) = templates
  <1>1. Writable(W)
    BY DEF WritesMirror, DistinctIds, Writable
  <1>2. ASSUME NEW t \in TemplateIds
        PROVE  Imported(W)[t] = templates[t]
    <2>1. CASE \E w \in ToSet(W) : w.id = t
      <3>. DEFINE w == CHOOSE w \in ToSet(W) : w.id = t
      <3>1. w \in ToSet(W) /\ w.id = t
        BY <2>1
      <3>2. IsOwned(t, "custom") /\ w.body = templates[t].body
        BY <3>1 DEF WritesMirror
      <3>3. RowFits(templates[t])
        BY <3>2 DEF TablesFit, IsOwned
      <3>4. templates[t] = [owner |-> "custom", active |-> TRUE, body |-> templates[t].body]
        BY <3>2, <3>3 DEF RowFits, IsOwned
      <3>5. Imported(W)[t] = [owner |-> "custom", active |-> TRUE, body |-> w.body]
        BY <2>1 DEF Imported
      <3>. QED
        BY <3>2, <3>4, <3>5
    <2>2. CASE ~ \E w \in ToSet(W) : w.id = t
      BY <2>2 DEF Imported
    <2>. QED
      BY <2>1, <2>2
  <1>3. Imported(W) = [t \in TemplateIds |-> Imported(W)[t]]
    BY DEF Imported
  <1>4. templates = [t \in TemplateIds |-> templates[t]]
    BY DEF TablesFit
  <1>. QED
    BY <1>1, <1>2, <1>3, <1>4

LEMMA ExportsRoundTrip == TablesFit => ExactSetRoundTrips
  <1>. SUFFICES ASSUME TablesFit, NEW n \in SetNames, sets[n] # NoSet, sets[n].mode = "exact",
                       NEW a, a = ExportTemplateSet(n),
                       NEW plan, plan = PlanWrites(a, "overwrite"),
                       NEW write, write = SetWrite(a, "overwrite", plan.renamed)
                PROVE  /\ ValidArchive(a)
                       /\ Writable(plan.writes) /\ Imported(plan.writes) = templates
                       /\ write.named \subseteq Existing(templates) /\ WrittenSet(write) = sets[n]
    BY DEF ExactSetRoundTrips
  <1>1. /\ a.entries \in Seq(ToSet(a.entries)) /\ MirrorsCatalog(a) /\ ValidArchive(a)
        /\ a.set = [name |-> n, mode |-> "exact", named |-> sets[n].members]
    BY ExportMirrors
  <1>2. PlanMirrors(a, Len(a.entries), plan)
    <2>1. DOMAIN a.entries = 1..Len(a.entries) /\ Len(a.entries) \in Nat
      BY <1>1
    <2>. QED
      BY <1>1, <2>1, PlanOfMirror
  <1>3. Writable(plan.writes) /\ Imported(plan.writes) = templates
    BY <1>2, MirrorChangesNothing DEF PlanMirrors
  <1>4. sets[n] \in SetRow /\ sets[n].members \subseteq Existing(templates)
    BY DEF TablesFit, SetFits
  <1>5. {plan.renamed[t] : t \in sets[n].members} = sets[n].members
    BY <1>2, <1>4 DEF PlanMirrors, Existing
  <1>6. write.mode = "exact" /\ write.named = sets[n].members
    BY <1>1, <1>5 DEF SetWrite
  <1>7. WrittenSet(write) = [mode |-> "exact", members |-> sets[n].members, exclusions |-> {}]
    BY <1>6 DEF WrittenSet
  <1>8. sets[n] = [mode |-> "exact", members |-> sets[n].members, exclusions |-> {}]
    BY <1>4 DEF SetRow
  <1>. QED
    BY <1>1, <1>3, <1>4, <1>6, <1>7, <1>8


\* What an import in flight has planned: it writes over what its policy allows,
\* and its set names the contents of the archive's set.
OverwritesByPolicy ==
    \A w \in ToSet(request.writes) : w.over =>
        request.strategy = "overwrite" /\ w.id \in {e.id : e \in ToSet(request.archive.entries)}

NamesTheArchives ==
    request.set # NoWrite /\ request.strategy # "skip" =>
        \A e \in ToSet(request.archive.entries) :
            e.owner = "custom" /\ e.id \in request.archive.set.named =>
                /\ request.set.mode \in {"exact", "exclude"}
                /\ \E w \in ToSet(request.writes) : w.id \in request.set.named /\ w.body = e.yaml

ImportFits ==
    request.at = "apply" => OverwritesByPolicy /\ NamesTheArchives

LEMMA PlanImportFits ==
    ASSUME TablesFit, NEW a \in Archives, NEW strategy \in Strategies, NEW withSet \in BOOLEAN,
           PlanImport(a, strategy, withSet)
    PROVE  ImportFits'
  <1>. DEFINE p == PlanWrites(a, strategy)
              N == Len(a.entries)
  <1>1. /\ request' = [at |-> "apply", archive |-> a, strategy |-> strategy, writes |-> p.writes,
                       set |-> IF withSet THEN SetWrite(a, strategy, p.renamed) ELSE NoWrite]
        /\ ValidArchive(a)
        /\ withSet => \A e \in ToSet(a.entries) :
                         e.owner = "custom" /\ IsOwned(e.id, "upstream") => strategy = "rename"
    BY DEF PlanImport
  <1>2. a.entries \in Seq(EntrySet) /\ a.set.mode \in Modes
    BY SetConstants DEF EntrySet
  <1>3. PlanSound(a, strategy, N, p)
    BY <1>1, <1>2, PlanFollowsPolicy
  <1>. HIDE DEF p
  <1>4. \A k \in 1..N : a.entries[k] \in ToSet(a.entries)
    BY <1>2 DEF ToSet
  <1>5. \A w \in ToSet(p.writes) : w.over =>
            strategy = "overwrite" /\ w.id \in {e.id : e \in ToSet(a.entries)}
    BY <1>3, <1>4 DEF PlanSound, KeepsPolicy
  <1>6. ASSUME withSet, strategy # "skip", NEW e \in ToSet(a.entries), e.owner = "custom", e.id \in a.set.named
        PROVE  /\ a.set.mode \in {"exact", "exclude"}
               /\ \E w \in ToSet(p.writes) :
                     w.id \in {p.renamed[t] : t \in a.set.named} /\ w.body = e.yaml
    <2>1. LeavesNoneOut(a, strategy)
      BY <1>1, <1>6 DEF LeavesNoneOut, Strategies
    <2>2. PICK k \in 1..N : a.entries[k] = e
      BY <1>2 DEF ToSet
    <2>3. Carries(p, e)
      BY <1>3, <1>6, <2>1, <2>2 DEF PlanSound, CarriesAll
    <2>4. p.renamed[e.id] \in {p.renamed[t] : t \in a.set.named}
      BY <1>6
    <2>5. a.set.mode # "all"
      BY <1>1, <1>6 DEF ValidArchive
    <2>. QED
      BY <1>2, <2>3, <2>4, <2>5 DEF Carries, Modes
  <1>7. ASSUME withSet, request'.set # NoWrite
        PROVE  request'.set.mode = a.set.mode /\ request'.set.named = {p.renamed[t] : t \in a.set.named}
    BY <1>1, <1>7 DEF SetWrite
  <1>8. /\ request'.archive = a /\ request'.strategy = strategy /\ request'.writes = p.writes
        /\ request'.set # NoWrite => withSet
    BY <1>1
  <1>9. OverwritesByPolicy'
    BY <1>5, <1>8 DEF OverwritesByPolicy
  <1>10. NamesTheArchives'
    BY <1>6, <1>7, <1>8 DEF NamesTheArchives
  <1>. QED
    BY <1>9, <1>10 DEF ImportFits

LEMMA ImportStep ==
    ASSUME SetsInv, ImportFits, [SetsNext]_setVars
    PROVE  ImportFits'
  <1>1. request' = request => ImportFits'
    BY DEF ImportFits, OverwritesByPolicy, NamesTheArchives
  <1>2. request'.at # "apply" => ImportFits'
    BY DEF ImportFits
  <1>3. CASE \/ \E t \in TemplateIds, b \in Bodies : CreateCustom(t, b) \/ UpdateCustom(t, b)
             \/ \E t \in TemplateIds : DeleteCustom(t)
             \/ \E S \in Snapshots : Sync(S)
             \/ \E n \in SetNames : DeleteTemplateSet(n)
    BY <1>1, <1>3 DEF CreateCustom, UpdateCustom, DeleteCustom, Sync, DeleteTemplateSet
  <1>4. CASE \/ \E n \in Edited, mode \in Modes, X \in SUBSET TemplateIds :
                   \/ CreateTemplateSet(n, mode, X)
                   \/ \E replace \in BOOLEAN : UpdateTemplateSet(n, mode, replace, X)
             \/ \E n \in Edited, M \in SUBSET TemplateIds :
                   ReplaceTemplateSetMembers(n, M) \/ AddTemplateSetMembers(n, M) \/ ReplaceTemplateSetExclusions(n, M)
             \/ \E n \in Edited, t \in TemplateIds : RemoveTemplateSetMember(n, t)
    BY <1>1, <1>4 DEF CreateTemplateSet, UpdateTemplateSet, ReplaceTemplateSetMembers, AddTemplateSetMembers,
       ReplaceTemplateSetExclusions, RemoveTemplateSetMember, EditMembers
  <1>5. CASE (\E n \in Edited : BeginResolve(n)) \/ ResolveStep
    BY <1>2, <1>5, ResolveInv, SetConstants
  <1>6. CASE \E a \in Archives, strategy \in Strategies, withSet \in BOOLEAN : PlanImport(a, strategy, withSet)
    BY <1>6, PlanImportFits DEF SetsInv
  <1>7. CASE ImportRefused \/ ApplyTemplateImport
    BY <1>2, <1>7 DEF ImportRefused, ApplyTemplateImport, Idle
  <1>8. CASE UNCHANGED setVars
    BY <1>1, <1>8 DEF setVars
  <1>. QED
    BY <1>3, <1>4, <1>5, <1>6, <1>7, <1>8 DEF SetsNext

\* Only the transaction of an import ends the request of one and writes.
LEMMA OnlyApplyCommits ==
    ASSUME SetsInv, [SetsNext]_setVars, request.at = "apply", request'.at = "idle",
           templates' # templates \/ sets' # sets
    PROVE  ApplyTemplateImport
  <1>1. request' # request
    OBVIOUS
  <1>2. CASE \/ \E t \in TemplateIds, b \in Bodies : CreateCustom(t, b) \/ UpdateCustom(t, b)
             \/ \E t \in TemplateIds : DeleteCustom(t)
             \/ \E S \in Snapshots : Sync(S)
             \/ \E n \in SetNames : DeleteTemplateSet(n)
    BY <1>1, <1>2 DEF CreateCustom, UpdateCustom, DeleteCustom, Sync, DeleteTemplateSet
  <1>3. CASE \/ \E n \in Edited, mode \in Modes, X \in SUBSET TemplateIds :
                   \/ CreateTemplateSet(n, mode, X)
                   \/ \E replace \in BOOLEAN : UpdateTemplateSet(n, mode, replace, X)
             \/ \E n \in Edited, M \in SUBSET TemplateIds :
                   ReplaceTemplateSetMembers(n, M) \/ AddTemplateSetMembers(n, M) \/ ReplaceTemplateSetExclusions(n, M)
             \/ \E n \in Edited, t \in TemplateIds : RemoveTemplateSetMember(n, t)
    BY <1>1, <1>3 DEF CreateTemplateSet, UpdateTemplateSet, ReplaceTemplateSetMembers, AddTemplateSetMembers,
       ReplaceTemplateSetExclusions, RemoveTemplateSetMember, EditMembers
  <1>4. CASE \/ (\E n \in Edited : BeginResolve(n)) \/ ResolveStep \/ ImportRefused
             \/ \E a \in Archives, strategy \in Strategies, withSet \in BOOLEAN : PlanImport(a, strategy, withSet)
    <2>1. (\E n \in Edited : BeginResolve(n)) \/ ResolveStep => templates' = templates /\ sets' = sets
      BY ResolveInv, SetConstants
    <2>. QED
      BY <1>4, <2>1 DEF ImportRefused, PlanImport
  <1>5. CASE UNCHANGED setVars
    BY <1>1, <1>5 DEF setVars
  <1>. QED
    BY <1>2, <1>3, <1>4, <1>5 DEF SetsNext

LEMMA CommitKeepsPolicy ==
    ASSUME SetsInv, ImportFits, [SetsNext]_setVars, ImportCommits,
           NEW t \in TemplateIds, templates[t] # NoTemplate, templates'[t] # templates[t]
    PROVE  request.strategy = "overwrite" /\ IsOwned(t, "custom") /\ t \in {e.id : e \in ToSet(request.archive.entries)}
  <1>1. ApplyTemplateImport
    BY OnlyApplyCommits DEF ImportCommits
  <1>2. Writable(request.writes) /\ templates' = Imported(request.writes)
    BY <1>1 DEF ApplyTemplateImport, ImportCommits
  <1>3. PICK w \in ToSet(request.writes) : w.id = t
    BY <1>2 DEF Imported
  <1>4. w.over /\ IsOwned(t, "custom")
    BY <1>2, <1>3 DEF Writable
  <1>. QED
    BY <1>3, <1>4 DEF ImportFits, OverwritesByPolicy, ImportCommits

LEMMA CommitNamesTheArchives ==
    ASSUME SetsInv, ImportFits, [SetsNext]_setVars,
           request.at = "apply", sets' # sets, request'.at = "idle", request.strategy # "skip",
           NEW e \in ToSet(request.archive.entries), e.owner = "custom", e.id \in request.archive.set.named,
           NEW s, s = sets'[request.set.name]
    PROVE  \E t \in s.members \cup s.exclusions :
               templates'[t] = [owner |-> "custom", active |-> TRUE, body |-> e.yaml]
  <1>1. ApplyTemplateImport
    BY OnlyApplyCommits
  <1>. DEFINE W == request.writes
              z == request.set
  <1>2. /\ z # NoWrite /\ sets' = [sets EXCEPT ![z.name] = WrittenSet(z)]
        /\ Writable(W) /\ SetWritable(z, Imported(W)) /\ templates' = Imported(W)
    BY <1>1 DEF ApplyTemplateImport
  <1>3. z.mode \in {"exact", "exclude"} /\ \E w \in ToSet(W) : w.id \in z.named /\ w.body = e.yaml
    BY <1>2 DEF ImportFits, NamesTheArchives
  <1>4. PICK w \in ToSet(W) : w.id \in z.named /\ w.body = e.yaml
    BY <1>3
  <1>5. w.id \in TemplateIds
    BY <1>2, <1>4 DEF SetWritable, Existing
  <1>6. s = WrittenSet(z)
    <2>1. z.name \in SetNames
      <3>1. SUFFICES ASSUME z.name \notin SetNames PROVE sets' = sets
        OBVIOUS
      <3>. QED
        BY <1>2, <3>1 DEF SetsInv, TablesFit
    <2>. QED
      BY <1>2, <2>1 DEF SetsInv, TablesFit
  <1>7. w.id \in s.members \cup s.exclusions
    BY <1>3, <1>4, <1>6 DEF WrittenSet
  <1>8. \A v \in ToSet(W) : v.id = w.id => v = w
    BY <1>2 DEF Writable, ToSet
  <1>9. Imported(W)[w.id] = [owner |-> "custom", active |-> TRUE, body |-> w.body]
    <2>. DEFINE v == CHOOSE v \in ToSet(W) : v.id = w.id
    <2>1. v \in ToSet(W) /\ v.id = w.id
      OBVIOUS
    <2>2. v = w
      BY <1>8, <2>1
    <2>3. Imported(W)[w.id] = [owner |-> "custom", active |-> TRUE, body |-> v.body]
      BY <1>5 DEF Imported
    <2>. QED
      BY <2>2, <2>3
  <1>. QED
    BY <1>2, <1>4, <1>7, <1>9

LEMMA ImportInvariant == SetsSpec => [](SetsInv /\ ImportFits)
  <1>1. SetsInit => ImportFits
    BY DEF SetsInit, Idle, ImportFits
  <1>2. SetsInv /\ ImportFits /\ [SetsNext]_setVars => ImportFits'
    BY ImportStep
  <1>. QED
    BY <1>1, <1>2, SetsInvariant, PTL DEF SetsSpec

\* Archives bring a set over as it was, and nothing else: an export of a curated
\* set is accepted over its own catalog and changes nothing there, and an import
\* changes only the rows its policy lets it change and writes a set of the
\* contents its archive carries, whatever happens between its plan and its
\* transaction (handleExportTemplateSet, applyPortableImport, ApplyTemplateImport).
THEOREM ArchivesStayFaithful == SetsSpec => ArchivesAreFaithful
  <1>. DEFINE Policy == ImportCommits =>
                 \A t \in TemplateIds : templates[t] # NoTemplate /\ templates'[t] # templates[t] =>
                     request.strategy = "overwrite" /\ IsOwned(t, "custom")
                       /\ t \in {e.id : e \in ToSet(request.archive.entries)}
              Names == request.at = "apply" /\ sets' # sets /\ request'.at = "idle" /\ request.strategy # "skip" =>
                 LET s == sets'[request.set.name] IN
                 \A e \in ToSet(request.archive.entries) :
                     e.owner = "custom" /\ e.id \in request.archive.set.named =>
                         \E t \in s.members \cup s.exclusions :
                             templates'[t] = [owner |-> "custom", active |-> TRUE, body |-> e.yaml]
  <1>1. SetsInv /\ ImportFits /\ [SetsNext]_setVars => [Policy]_setVars
    BY CommitKeepsPolicy
  <1>2. SetsInv /\ ImportFits /\ [SetsNext]_setVars => [Names]_setVars
    BY CommitNamesTheArchives
  <1>3. SetsInv => ExactSetRoundTrips
    BY ExportsRoundTrip DEF SetsInv
  <1>4. SetsSpec => [][Policy]_setVars
    BY <1>1, ImportInvariant, PTL DEF SetsSpec
  <1>5. SetsSpec => [][Names]_setVars
    BY <1>2, ImportInvariant, PTL DEF SetsSpec
  <1>6. SetsSpec => []ExactSetRoundTrips
    BY <1>3, SetsInvariant, PTL
  <1>. QED
    BY <1>4, <1>5, <1>6 DEF ArchivesAreFaithful, ImportKeepsPolicy, ImportedSetIsTheArchives
=============================================================================
