------------------------------ MODULE ListFacts ------------------------------
(***************************************************************************)
(* Facts about sets of numbers, counting, lists from which one element is  *)
(* taken, and sets as lists; proofs about several components rest on them. *)
(***************************************************************************)
EXTENDS Integers, Sequences, SequencesExt, FiniteSetTheorems, SequenceTheorems, TLAPS

-----------------------------------------------------------------------------
(* Numbers                                                                 *)

\* A set of numbers has a least one: the shortest of the intervals 1..x.
LEMMA LeastNumber ==
    ASSUME NEW S \in SUBSET Nat, S # {}
    PROVE  \E x \in S : \A y \in S : x <= y
  <1>. DEFINE Below == {1..x : x \in S}
  <1>1. \A x \in S : IsFiniteSet(1..x)
    BY FS_Interval
  <1>2. Below \subseteq FiniteSubsetsOf(Nat) /\ Below # {}
    <2>1. \A x \in S : 1..x \in FiniteSubsetsOf(Nat)
      <3>1. \A x \in S : 1..x \subseteq Nat
        OBVIOUS
      <3>. QED
        BY <1>1, <3>1 DEF FiniteSubsetsOf
    <2>2. PICK x \in S : TRUE
      OBVIOUS
    <2>3. 1..x \in Below
      BY <2>2
    <2>. QED
      BY <2>1, <2>3
  <1>3. IsWellFoundedOn(StrictSubsetOrdering(Nat), FiniteSubsetsOf(Nat))
    BY FS_StrictSubsetOrderingWellFounded
  <1>4. PICK I \in Below : \A J \in Below : ~ (<<J, I>> \in StrictSubsetOrdering(Nat))
    <2>. HIDE DEF Below
    <2>. QED
      BY <1>2, <1>3, WFMin
  <1>5. PICK x \in S : I = 1..x
    BY DEF Below
  <1>6. ASSUME NEW y \in S, ~(x <= y) PROVE FALSE
    <2>1. x \in 1..x /\ x \notin 1..y
      BY <1>6
    <2>2. 1..y \subseteq Nat /\ 1..x \subseteq Nat /\ 1..y \subseteq 1..x /\ 1..y # 1..x
      BY <1>6, <2>1
    <2>3. <<1..y, 1..x>> \in StrictSubsetOrdering(Nat)
      BY <2>2 DEF StrictSubsetOrdering
    <2>. QED
      BY <1>4, <1>5, <2>3
  <1>. QED
    BY <1>6

\* Counting up to N.
LEMMA CountingUp ==
    ASSUME NEW N \in Nat, NEW S, 0 \in S, \A i \in 1..N : i - 1 \in S => i \in S
    PROVE  N \in S
  <1>. DEFINE Bad == {i \in 0..N : i \notin S}
  <1>1. SUFFICES ASSUME Bad # {} PROVE FALSE
    <2>1. N \in 0..N
      OBVIOUS
    <2>. QED
      BY <2>1
  <1>2. PICK n \in Bad : \A k \in Bad : n <= k
    <2>1. Bad \in SUBSET Nat
      OBVIOUS
    <2>. HIDE DEF Bad
    <2>. QED
      BY <1>1, <2>1, LeastNumber
  <1>3. n \in 0..N /\ n \notin S /\ n # 0
    BY <1>2
  <1>4. n \in 1..N /\ n - 1 \in 0..N /\ ~ (n <= n - 1)
    BY <1>3
  <1>5. n - 1 \in S
    BY <1>2, <1>4
  <1>. QED
    BY <1>3, <1>4, <1>5

\* A bounded set of numbers has a greatest one.
LEMMA GreatestNumber ==
    ASSUME NEW n \in Nat, NEW S \in SUBSET (1..n), S # {}
    PROVE  \E x \in S : \A y \in S : y <= x
  <1>. DEFINE T == {n - x : x \in S}
  <1>1. T \in SUBSET Nat /\ T # {}
    <2>1. \A x \in S : n - x \in Nat
      OBVIOUS
    <2>2. PICK x \in S : TRUE
      OBVIOUS
    <2>3. n - x \in T
      BY <2>2
    <2>. QED
      BY <2>1, <2>3
  <1>2. PICK k \in T : \A y \in T : k <= y
    <2>. HIDE DEF T
    <2>. QED
      BY <1>1, LeastNumber
  <1>3. PICK x \in S : k = n - x
    OBVIOUS
  <1>4. \A y \in S : n - x <= n - y
    BY <1>2, <1>3
  <1>. QED
    BY <1>3, <1>4

-----------------------------------------------------------------------------
(* Lists                                                                   *)

\* x stands somewhere before y.
Precedes(s, x, y) == \E i, j \in DOMAIN s : i < j /\ s[i] = x /\ s[j] = y

\* What stands behind the removed place moves up by one.
LEMMA RemoveAtElements ==
    ASSUME NEW X, NEW s \in Seq(X), NEW i \in 1..Len(s)
    PROVE  /\ RemoveAt(s, i) \in Seq(X)
           /\ Len(RemoveAt(s, i)) = Len(s) - 1
           /\ \A k \in 1..(Len(s) - 1) : RemoveAt(s, i)[k] = IF k < i THEN s[k] ELSE s[k + 1]
  <1>. DEFINE a == SubSeq(s, 1, i - 1)
              b == SubSeq(s, i + 1, Len(s))
  <1>1. /\ a \in Seq(X) /\ Len(a) = i - 1
        /\ \A k \in 1..(i - 1) : a[k] = s[k]
    OBVIOUS
  <1>2. /\ b \in Seq(X) /\ Len(b) = Len(s) - i
        /\ \A k \in 1..(Len(s) - i) : b[k] = s[k + i]
    OBVIOUS
  <1>3. RemoveAt(s, i) = a \o b
    BY DEF RemoveAt
  <1>. HIDE DEF a, b
  <1>4. /\ a \o b \in Seq(X) /\ Len(a \o b) = Len(a) + Len(b)
        /\ \A k \in 1..(Len(a) + Len(b)) : (a \o b)[k] = IF k <= Len(a) THEN a[k] ELSE b[k - Len(a)]
    BY <1>1, <1>2, ConcatProperties
  <1>5. Len(s) \in Nat
    OBVIOUS
  <1>6. ASSUME NEW k \in 1..(Len(s) - 1)
        PROVE  (a \o b)[k] = IF k < i THEN s[k] ELSE s[k + 1]
    <2>1. CASE k < i
      BY <2>1, <1>1, <1>2, <1>4, <1>5
    <2>2. CASE ~(k < i)
      <3>1. k - Len(a) \in 1..(Len(s) - i) /\ k - Len(a) + i = k + 1
        BY <2>2, <1>1, <1>2, <1>5
      <3>2. (a \o b)[k] = b[k - Len(a)]
        BY <2>2, <1>1, <1>2, <1>4, <1>5
      <3>3. b[k - Len(a)] = s[k + 1]
        BY <1>2, <3>1
      <3>. QED
        BY <2>2, <3>2, <3>3
    <2>. QED
      BY <2>1, <2>2
  <1>. QED
    BY <1>1, <1>2, <1>3, <1>4, <1>5, <1>6

\* The element is at one place only, so the first place that holds it is it.
LEMMA RemoveFirstIsRemoveAt ==
    ASSUME NEW X, NEW s \in Seq(X), IsInjective(s), NEW i \in 1..Len(s)
    PROVE  RemoveFirst(s, s[i]) = RemoveAt(s, i)
  <1>1. {j \in 1..Len(s) : s[j] = s[i]} = {i}
    BY DEF IsInjective
  <1>2. Min({i}) = i
    BY DEF Min
  <1>3. SelectInSeq(s, LAMBDA v : v = s[i]) = i
    BY <1>1, <1>2 DEF SelectInSeq
  <1>. QED
    BY <1>3 DEF RemoveFirst

\* A list without repetition loses the element, and keeps the others in order.
LEMMA RemoveFirstKeepsOrder ==
    ASSUME NEW X, NEW s \in Seq(X), IsInjective(s), NEW e
    PROVE  LET r == RemoveFirst(s, e) IN
           /\ r \in Seq(X) /\ IsInjective(r) /\ Len(r) <= Len(s)
           /\ e \in ToSet(s) => Len(r) = Len(s) - 1
           /\ e \notin ToSet(s) => r = s
           /\ ToSet(r) = ToSet(s) \ {e}
           /\ \A x, y : Precedes(r, x, y) <=> Precedes(s, x, y) /\ x # e /\ y # e
  <1>. DEFINE r == RemoveFirst(s, e)
  <1>1. CASE ~\E i \in 1..Len(s) : s[i] = e
    <2>1. r = s
      BY <1>1 DEF RemoveFirst
    <2>. QED
      BY <1>1, <2>1 DEF ToSet, Precedes
  <1>2. CASE \E i \in 1..Len(s) : s[i] = e
    <2>1. PICK i \in 1..Len(s) : s[i] = e
      BY <1>2
    <2>2. r = RemoveAt(s, i)
      BY <2>1, RemoveFirstIsRemoveAt
    <2>. DEFINE n == Len(s)
    <2>3. n \in Nat /\ DOMAIN s = 1..n /\ i \in 1..n /\ \A j, k \in 1..n : s[j] = s[k] => j = k
      BY DEF IsInjective
    <2>4. /\ r \in Seq(X) /\ Len(r) = n - 1
          /\ \A k \in 1..(n - 1) : r[k] = IF k < i THEN s[k] ELSE s[k + 1]
      BY <2>2, RemoveAtElements
    <2>5. DOMAIN r = 1..(n - 1)
      BY <2>4
    <2>. HIDE DEF r, n
    <2>6. IsInjective(r)
      BY <2>3, <2>4, <2>5 DEF IsInjective
    \* Every place but the removed one has its element in r.
    <2>7. ASSUME NEW k \in 1..n, k # i
          PROVE  LET m == IF k < i THEN k ELSE k - 1 IN m \in 1..(n - 1) /\ r[m] = s[k]
      <3>1. CASE k < i
        BY <2>3, <2>4, <2>7, <3>1
      <3>2. CASE i < k
        <4>1. k - 1 \in 1..(n - 1) /\ ~(k - 1 < i) /\ k - 1 + 1 = k
          BY <2>3, <3>2
        <4>. QED
          BY <2>3, <2>4, <3>2, <4>1
      <3>. QED
        BY <2>3, <2>7, <3>1, <3>2
    <2>8. \A m \in 1..(n - 1) : \E k \in 1..n : k # i /\ r[m] = s[k] /\ k = IF m < i THEN m ELSE m + 1
      BY <2>3, <2>4
    <2>9. ToSet(r) = ToSet(s) \ {e}
      <3>1. \A m \in 1..(n - 1) : r[m] \in ToSet(s) \ {e}
        BY <2>1, <2>3, <2>8 DEF ToSet
      <3>2. \A k \in 1..n : s[k] # e => \E m \in 1..(n - 1) : r[m] = s[k]
        BY <2>1, <2>7
      <3>3. ToSet(r) = {r[m] : m \in 1..(n - 1)} /\ ToSet(s) = {s[k] : k \in 1..n}
        BY <2>3, <2>5 DEF ToSet
      <3>. QED
        BY <3>1, <3>2, <3>3
    <2>10. ASSUME NEW x, NEW y, Precedes(r, x, y)
           PROVE  Precedes(s, x, y) /\ x # e /\ y # e
      <3>1. PICK p \in 1..(n - 1), q \in 1..(n - 1) : p < q /\ r[p] = x /\ r[q] = y
        BY <2>10, <2>5 DEF Precedes
      <3>2. PICK j \in 1..n : j # i /\ x = s[j] /\ j = IF p < i THEN p ELSE p + 1
        BY <2>8, <3>1
      <3>3. PICK k \in 1..n : k # i /\ y = s[k] /\ k = IF q < i THEN q ELSE q + 1
        BY <2>8, <3>1
      <3>4. j < k
        BY <2>3, <3>1, <3>2, <3>3
      <3>. QED
        BY <2>1, <2>3, <3>2, <3>3, <3>4 DEF Precedes
    <2>11. ASSUME NEW x, NEW y, Precedes(s, x, y), x # e, y # e
           PROVE  Precedes(r, x, y)
      <3>1. PICK j \in 1..n, k \in 1..n : j < k /\ s[j] = x /\ s[k] = y
        BY <2>11, <2>3 DEF Precedes
      <3>2. j # i /\ k # i
        BY <2>1, <2>11, <3>1
      <3>. DEFINE p == IF j < i THEN j ELSE j - 1
                  q == IF k < i THEN k ELSE k - 1
      <3>3. p \in 1..(n - 1) /\ r[p] = x /\ q \in 1..(n - 1) /\ r[q] = y
        BY <2>7, <3>1, <3>2
      <3>4. p < q
        BY <2>3, <3>1, <3>2
      <3>. QED
        BY <2>5, <3>3, <3>4 DEF Precedes
    <2>12. e \in ToSet(s)
      BY <2>1, <2>3 DEF ToSet
    <2>13. n = Len(s)
      BY DEF n
    <2>. QED
      BY <2>3, <2>4, <2>6, <2>9, <2>10, <2>11, <2>12, <2>13 DEF r
  <1>. QED
    BY <1>1, <1>2
\* An element that is new goes behind all others.
LEMMA AppendKeepsOrder ==
    ASSUME NEW X, NEW s \in Seq(X), IsInjective(s), NEW e \in X, e \notin ToSet(s)
    PROVE  LET r == Append(s, e) IN
           /\ r \in Seq(X) /\ IsInjective(r) /\ Len(r) = Len(s) + 1
           /\ ToSet(r) = ToSet(s) \cup {e}
           /\ \A x, y : Precedes(r, x, y) <=> Precedes(s, x, y) \/ (x \in ToSet(s) /\ y = e)
  <1>. DEFINE r == Append(s, e)
              n == Len(s)
  <1>1. /\ r \in Seq(X) /\ Len(r) = n + 1
        /\ \A i \in 1..n : r[i] = s[i]
        /\ r[n + 1] = e
    BY AppendProperties
  <1>2. n \in Nat /\ DOMAIN s = 1..n /\ DOMAIN r = 1..(n + 1)
    BY <1>1
  <1>. HIDE DEF r, n
  <1>3. \A i \in 1..(n + 1) : (i \in 1..n /\ r[i] = s[i]) \/ (i = n + 1 /\ r[i] = e)
    BY <1>1, <1>2
  <1>4. /\ ToSet(s) = {s[i] : i \in 1..n} /\ ToSet(r) = {r[i] : i \in 1..(n + 1)}
        /\ \A i \in 1..n : s[i] # e
    BY <1>2 DEF ToSet
  <1>5. \A i \in 1..n : i \in 1..(n + 1) /\ i < n + 1
    BY <1>2
  <1>6. IsInjective(r)
    BY <1>2, <1>3, <1>4 DEF IsInjective
  <1>7. n + 1 \in 1..(n + 1)
    BY <1>2
  <1>8. ToSet(r) = ToSet(s) \cup {e}
    BY <1>1, <1>3, <1>4, <1>5, <1>7
  <1>9. ASSUME NEW x, NEW y, Precedes(r, x, y)
        PROVE  Precedes(s, x, y) \/ (x \in ToSet(s) /\ y = e)
    <2>1. PICK p \in 1..(n + 1), q \in 1..(n + 1) : p < q /\ r[p] = x /\ r[q] = y
      BY <1>2, <1>9 DEF Precedes
    <2>2. p \in 1..n
      BY <1>2, <2>1
    <2>. QED
      BY <1>2, <1>3, <1>4, <2>1, <2>2 DEF Precedes
  <1>10. ASSUME NEW x, NEW y, Precedes(s, x, y)
         PROVE  Precedes(r, x, y)
    BY <1>1, <1>2, <1>5, <1>10 DEF Precedes
  <1>11. ASSUME NEW x \in ToSet(s)
         PROVE  Precedes(r, x, e)
    BY <1>1, <1>2, <1>4, <1>5, <1>7 DEF Precedes
  <1>. QED
    BY <1>1, <1>6, <1>8, <1>9, <1>10, <1>11 DEF r, n

\* The list without its head.
LEMMA TailKeepsOrder ==
    ASSUME NEW X, NEW s \in Seq(X), IsInjective(s), s # <<>>
    PROVE  LET r == Tail(s) IN
           /\ r \in Seq(X) /\ IsInjective(r) /\ Len(r) = Len(s) - 1
           /\ ToSet(r) = ToSet(s) \ {s[1]}
           /\ \A x, y : Precedes(r, x, y) => Precedes(s, x, y)
  <1>. DEFINE r == Tail(s)
              n == Len(s)
  <1>1. /\ r \in Seq(X) /\ Len(r) = n - 1
        /\ \A i \in 1..(n - 1) : r[i] = s[i + 1]
    BY HeadTailProperties
  <1>2. n \in Nat /\ n > 0 /\ DOMAIN s = 1..n /\ DOMAIN r = 1..(n - 1)
    BY <1>1
  <1>. HIDE DEF r, n
  <1>3. /\ \A i, j \in 1..n : s[i] = s[j] => i = j
        /\ \A i \in 1..(n - 1) : i + 1 \in 1..n /\ i + 1 # 1 /\ i \in Nat
        /\ \A i \in 1..n : i = 1 \/ (i - 1 \in 1..(n - 1) /\ (i - 1) + 1 = i)
        /\ 1 \in 1..n
    BY <1>2 DEF IsInjective
  <1>4. IsInjective(r)
    <2>. SUFFICES ASSUME NEW i \in 1..(n - 1), NEW j \in 1..(n - 1), r[i] = r[j] PROVE i = j
      BY <1>2 DEF IsInjective
    <2>1. i + 1 = j + 1
      BY <1>1, <1>3
    <2>2. i \in Nat /\ j \in Nat
      BY <1>3
    <2>. QED
      BY <2>1, <2>2
  <1>5. /\ ToSet(s) = {s[i] : i \in 1..n} /\ ToSet(r) = {r[i] : i \in 1..(n - 1)}
    BY <1>2 DEF ToSet
  <1>6. \A i \in 1..(n - 1) : r[i] \in ToSet(s) /\ r[i] # s[1]
    BY <1>1, <1>3, <1>5
  <1>7. \A i \in 1..n : s[i] # s[1] => \E j \in 1..(n - 1) : r[j] = s[i]
    <2>. SUFFICES ASSUME NEW i \in 1..n, s[i] # s[1] PROVE \E j \in 1..(n - 1) : r[j] = s[i]
      OBVIOUS
    <2>1. i - 1 \in 1..(n - 1) /\ r[i - 1] = s[i]
      BY <1>1, <1>3
    <2>. QED
      BY <2>1
  <1>8. ToSet(r) = ToSet(s) \ {s[1]}
    BY <1>5, <1>6, <1>7
  <1>9. ASSUME NEW x, NEW y, Precedes(r, x, y)
        PROVE  Precedes(s, x, y)
    <2>1. PICK p \in 1..(n - 1), q \in 1..(n - 1) : p < q /\ r[p] = x /\ r[q] = y
      BY <1>2, <1>9 DEF Precedes
    <2>2. p + 1 < q + 1
      BY <1>3, <2>1
    <2>3. p + 1 \in DOMAIN s /\ q + 1 \in DOMAIN s /\ s[p + 1] = x /\ s[q + 1] = y
      BY <1>1, <1>2, <1>3, <2>1
    <2>. QED
      BY <2>2, <2>3 DEF Precedes
  <1>. QED
    BY <1>1, <1>4, <1>8, <1>9 DEF r, n

\* A finite set as a list: every element once.
LEMMA ListOfSet ==
    ASSUME NEW S, IsFiniteSet(S)
    PROVE  SetToSeq(S) \in Seq(S) /\ IsInjective(SetToSeq(S)) /\ ToSet(SetToSeq(S)) = S
  <1>. DEFINE n == Cardinality(S)
              s == SetToSeq(S)
  <1>1. n \in Nat /\ ExistsBijection(1..n, S)
    BY FS_CardinalityType
  <1>2. \E f \in [1..n -> S] : IsInjective(f)
    BY <1>1 DEF ExistsBijection, Bijection, Injection
  <1>3. s \in [1..n -> S] /\ IsInjective(s)
    BY <1>2 DEF SetToSeq
  <1>4. s \in Injection(1..n, S)
    BY <1>3 DEF Injection
  <1>5. Cardinality(1..n) = Cardinality(S)
    BY <1>1, FS_Interval
  <1>6. s \in Surjection(1..n, S)
    <2>. HIDE DEF s
    <2>. QED
      BY <1>4, <1>5, FS_Injection
  <1>. HIDE DEF s
  <1>7. ToSet(s) = S
    BY <1>3, <1>6 DEF Surjection, ToSet
  <1>8. s \in Seq(S)
    BY <1>1, <1>3
  <1>. QED
    BY <1>3, <1>7, <1>8 DEF s
=============================================================================
