------------------------- MODULE ControlPlaneProofs -------------------------
(***************************************************************************)
(* Proofs about the services around the scans, each for every value of its *)
(* constants: the health of nodes, logins and sessions, the scheduler, the *)
(* login limiter.                                                          *)
(***************************************************************************)
EXTENDS Scheduler, NodeHealth, AuthSessions, LoginAdmission, ListFacts

-----------------------------------------------------------------------------
(* Node health                                                             *)

Ages == {Unknown, Never} \cup 0..MaxAge

HealthTypeOK ==
    /\ registry \in [Monitored -> {"new", "in", "gone"}]
    /\ answering \subseteq Monitored /\ cycle \subseteq Monitored /\ live \subseteq Monitored
    /\ loop \in {"idle", "listing", "polling"} /\ ticked \in BOOLEAN /\ late \subseteq Monitored
    /\ phase \in 0 .. Interval - 1
    /\ age \in [Monitored -> Ages]
    /\ silence \in [Monitored -> 0..MaxAge]
    /\ missed \in [Monitored -> 0..2]

\* A stamp is no younger than the last moment the node could be reached.
StampsAreHonest ==
    \A n \in Monitored :
        /\ n \in answering => silence[n] = 0
        /\ age[n] >= 0 => age[n] >= silence[n]

\* Only a cycle that has its list has nodes to poll.
ListedOnly == loop # "polling" => cycle = {}

\* Before the first cycle that lists it a node has no record.
NewIsUnknown == \A n \in Monitored : registry[n] = "new" => age[n] = Unknown /\ n \notin cycle

\* The cycle under way, or about to begin on a tick that has just come, has not
\* reached the node yet.
Awaiting(n) == loop = "listing" \/ n \in cycle \/ (loop = "idle" /\ ticked /\ phase = 0)

\* How old the stamp of a registered node can be that no overrun has made late: an
\* interval for every missed poll and, until the cycle reaches the node, one more.
FreshAt(n) ==
    /\ missed[n] = 0 /\ ~Awaiting(n) => age[n] <= phase
    /\ missed[n] = 0 => age[n] <= Interval + phase
    /\ missed[n] = 1 /\ ~Awaiting(n) => age[n] <= Interval + phase
    /\ missed[n] = 1 => age[n] <= 2 * Interval + phase

StampsAreFresh ==
    \A n \in Monitored : registry[n] = "in" /\ age[n] >= 0 /\ n \notin late => FreshAt(n)

HealthInv == HealthTypeOK /\ StampsAreHonest /\ ListedOnly /\ NewIsUnknown /\ StampsAreFresh

USE DEF Ages, Never, Unknown

LEMMA HealthInitInv == HealthInit => HealthInv
  <1>. SUFFICES ASSUME HealthInit PROVE HealthInv
    OBVIOUS
  <1>1. \A n \in Monitored : age[n] = Unknown /\ silence[n] = 0 /\ missed[n] = 0
    BY DEF HealthInit
  <1>2. HealthTypeOK
    <2>1. registry \in [Monitored -> {"new", "in", "gone"}]
      BY DEF HealthInit
    <2>2. phase \in 0 .. Interval - 1
      BY HealthConstants DEF HealthInit
    <2>3. age \in [Monitored -> Ages] /\ silence \in [Monitored -> 0..MaxAge] /\ missed \in [Monitored -> 0..2]
      BY HealthConstants DEF HealthInit
    <2>. QED
      BY <2>1, <2>2, <2>3 DEF HealthInit, HealthTypeOK
  <1>3. StampsAreHonest /\ NewIsUnknown /\ StampsAreFresh
    BY <1>1 DEF HealthInit, StampsAreHonest, NewIsUnknown, StampsAreFresh
  <1>4. ListedOnly
    BY DEF HealthInit, ListedOnly
  <1>. QED
    BY <1>2, <1>3, <1>4 DEF HealthInv

LEMMA RegisterInv ==
    ASSUME HealthInv, NEW n \in Monitored, Register(n) \/ Unregister(n)
    PROVE  HealthInv'
  <1>. USE DEF HealthInv
  <1>1. /\ registry' \in [Monitored -> {"new", "in", "gone"}]
        /\ \A m \in Monitored : registry'[m] # registry[m] =>
               registry'[m] = "gone" \/ (registry[m] = "new" /\ registry'[m] = "in")
        /\ \A m \in Monitored : registry'[m] = "new" => registry[m] = "new"
        /\ UNCHANGED <<answering, loop, ticked, cycle, live, phase, age, silence, missed, late>>
    BY DEF HealthTypeOK, Register, Unregister, monitor
  <1>2. HealthTypeOK' /\ StampsAreHonest' /\ ListedOnly' /\ NewIsUnknown'
    BY <1>1 DEF HealthTypeOK, StampsAreHonest, ListedOnly, NewIsUnknown
  <1>3. StampsAreFresh'
    BY <1>1 DEF StampsAreFresh, FreshAt, Awaiting, NewIsUnknown
  <1>. QED
    BY <1>2, <1>3

LEMMA TurnInv ==
    ASSUME HealthInv, NEW n \in Monitored, Turn(n)
    PROVE  HealthInv'
  <1>. USE DEF HealthInv
  <1>1. /\ answering' \subseteq Monitored
        /\ silence' = [silence EXCEPT ![n] = 0]
        /\ \A m \in Monitored : m \in answering' => m = n \/ m \in answering
        /\ UNCHANGED <<registry, loop, ticked, cycle, live, phase, age, missed, late>>
    BY DEF HealthTypeOK, Turn, monitor
  <1>2. HealthTypeOK'
    BY <1>1, HealthConstants DEF HealthTypeOK
  <1>3. StampsAreHonest'
    BY <1>1 DEF StampsAreHonest, HealthTypeOK
  <1>. QED
    BY <1>1, <1>2, <1>3 DEF ListedOnly, NewIsUnknown, StampsAreFresh, FreshAt, Awaiting

LEMMA PassInv ==
    ASSUME HealthInv, Pass
    PROVE  HealthInv'
  <1>. USE HealthConstants DEF HealthInv
  <1>1. /\ phase \in Nat /\ phase < Interval
        /\ phase' = IF phase + 1 = Interval THEN 0 ELSE phase + 1
        /\ ticked => loop # "idle"
        /\ ticked' = (ticked \/ phase' = 0)
        /\ late' = IF phase' = 0 /\ loop # "idle" THEN Monitored ELSE late
        /\ UNCHANGED <<registry, answering, loop, cycle, live, missed>>
    BY DEF Pass, HealthTypeOK, monitor
  <1>2. \A m \in Monitored :
           /\ age'[m] = IF age[m] < 0 \/ age[m] = MaxAge THEN age[m] ELSE age[m] + 1
           /\ silence'[m] = IF m \in answering THEN 0
                            ELSE IF silence[m] = MaxAge THEN silence[m] ELSE silence[m] + 1
    BY DEF Pass, Older, HealthTypeOK
  <1>3. HealthTypeOK'
    <2>1. \A m \in Monitored : age'[m] \in Ages /\ silence'[m] \in 0..MaxAge
      BY <1>2 DEF HealthTypeOK
    <2>2. /\ age' = [m \in Monitored |-> Older(age[m])]
          /\ silence' = [m \in Monitored |-> IF m \in answering THEN 0 ELSE Older(silence[m])]
      BY DEF Pass
    <2>3. age' \in [Monitored -> Ages] /\ silence' \in [Monitored -> 0..MaxAge]
      BY <2>1, <2>2
    <2>. QED
      BY <1>1, <2>3 DEF HealthTypeOK
  <1>4. StampsAreHonest'
    BY <1>1, <1>2 DEF StampsAreHonest, HealthTypeOK
  <1>5. ListedOnly' /\ NewIsUnknown'
    BY <1>1, <1>2 DEF ListedOnly, NewIsUnknown
  <1>6. StampsAreFresh'
    <2>. SUFFICES ASSUME NEW m \in Monitored, registry'[m] = "in", age'[m] >= 0, m \notin late'
                  PROVE  FreshAt(m)'
      BY DEF StampsAreFresh
    <2>1. age[m] \in Int /\ age[m] >= 0 /\ age'[m] <= age[m] + 1
      BY <1>2 DEF HealthTypeOK
    <2>2. age'[m] \in Int /\ registry[m] = "in" /\ missed' = missed
      BY <1>1, <1>2, <2>1 DEF HealthTypeOK
    <2>3. FreshAt(m)
      <3>1. m \notin late
        BY <1>1
      <3>. QED
        BY <2>1, <2>2, <3>1 DEF StampsAreFresh
    <2>4. CASE phase + 1 < Interval
      <3>1. phase' = phase + 1 /\ phase' # 0 /\ ticked' = ticked
        BY <1>1, <2>4 DEF HealthTypeOK
      <3>2. Awaiting(m) => Awaiting(m)'
        BY <1>1, <3>1 DEF Awaiting
      <3>. QED
        BY <1>1, <2>1, <2>2, <2>3, <3>1, <3>2 DEF FreshAt
    <2>5. CASE phase + 1 = Interval
      <3>1. phase' = 0 /\ loop = "idle" /\ ~ticked /\ ticked'
        BY <1>1, <2>5
      <3>2. Awaiting(m)' /\ ~Awaiting(m)
        BY <1>1, <3>1 DEF Awaiting, ListedOnly
      <3>. QED
        BY <1>1, <2>1, <2>2, <2>3, <2>5, <3>1, <3>2 DEF FreshAt
    <2>. QED
      BY <1>1, <2>4, <2>5
  <1>. QED
    BY <1>3, <1>4, <1>5, <1>6

LEMMA BeginInv ==
    ASSUME HealthInv, BeginPoll
    PROVE  HealthInv'
  <1>. USE HealthConstants DEF HealthInv
  <1>1. /\ loop = "idle" /\ ticked /\ loop' = "listing" /\ ticked' = FALSE
        /\ UNCHANGED <<registry, answering, cycle, live, phase, age, silence, missed, late>>
    BY DEF BeginPoll
  <1>2. HealthTypeOK' /\ StampsAreHonest' /\ ListedOnly' /\ NewIsUnknown'
    BY <1>1 DEF HealthTypeOK, StampsAreHonest, ListedOnly, NewIsUnknown
  <1>3. StampsAreFresh'
    BY <1>1 DEF StampsAreFresh, FreshAt, Awaiting, HealthTypeOK
  <1>. QED
    BY <1>2, <1>3

LEMMA ListInv ==
    ASSUME HealthInv, ListNodes \/ PollUnlisted
    PROVE  HealthInv'
  <1>. USE HealthConstants DEF HealthInv
  <1>1. /\ loop = "listing" /\ cycle = {} /\ \A m \in Monitored : Awaiting(m)
        /\ UNCHANGED <<registry, answering, ticked, phase, age, silence, late>>
    BY DEF ListNodes, PollUnlisted, ListedOnly, Awaiting
  <1>2. CASE ListNodes
    <2>1. /\ live' = {m \in Monitored : registry[m] = "in"} /\ cycle' = live'
          /\ loop' = "polling" /\ missed' = missed
      BY <1>2 DEF ListNodes
    <2>2. HealthTypeOK' /\ StampsAreHonest' /\ ListedOnly' /\ NewIsUnknown'
      BY <1>1, <2>1 DEF HealthTypeOK, StampsAreHonest, ListedOnly, NewIsUnknown
    <2>3. StampsAreFresh'
      BY <1>1, <2>1 DEF StampsAreFresh, FreshAt, Awaiting, HealthTypeOK
    <2>. QED
      BY <2>2, <2>3
  <1>3. CASE PollUnlisted
    <2>1. /\ missed' = [m \in Monitored |-> IF registry[m] = "in" /\ missed[m] < 2
                                            THEN missed[m] + 1 ELSE missed[m]]
          /\ loop' = "idle" /\ UNCHANGED <<cycle, live>>
      BY <1>3 DEF PollUnlisted
    <2>2. HealthTypeOK' /\ StampsAreHonest' /\ ListedOnly' /\ NewIsUnknown'
      BY <1>1, <2>1 DEF HealthTypeOK, StampsAreHonest, ListedOnly, NewIsUnknown
    <2>3. StampsAreFresh'
      BY <1>1, <2>1 DEF StampsAreFresh, FreshAt, HealthTypeOK
    <2>. QED
      BY <2>2, <2>3
  <1>. QED
    BY <1>2, <1>3

LEMMA PollInv ==
    ASSUME HealthInv, NEW n \in Monitored, PollNode(n)
    PROVE  HealthInv'
  <1>. USE HealthConstants DEF HealthInv
  <1>1. /\ n \in cycle /\ cycle' = cycle \ {n}
        /\ UNCHANGED <<registry, answering, loop, ticked, live, phase, silence>>
        /\ loop = "polling"
    BY DEF PollNode, PollAnswers, PollFails, ListedOnly
  <1>2. CASE PollAnswers(n)
    <2>1. /\ n \in answering
          /\ age' = [age EXCEPT ![n] = 0] /\ missed' = [missed EXCEPT ![n] = 0]
          /\ late' = late \ {n}
      BY <1>2 DEF PollAnswers
    <2>2. HealthTypeOK'
      BY <1>1, <2>1 DEF HealthTypeOK
    <2>3. StampsAreHonest' /\ ListedOnly' /\ NewIsUnknown'
      BY <1>1, <2>1 DEF HealthTypeOK, StampsAreHonest, ListedOnly, NewIsUnknown
    <2>4. StampsAreFresh'
      BY <1>1, <2>1 DEF StampsAreFresh, FreshAt, Awaiting, HealthTypeOK
    <2>. QED
      BY <2>2, <2>3, <2>4
  <1>3. CASE PollFails(n)
    <2>1. /\ age' = [age EXCEPT ![n] = IF age[n] = Unknown THEN Never ELSE age[n]]
          /\ missed' = [missed EXCEPT ![n] = IF missed[n] = 2 THEN 2 ELSE missed[n] + 1]
          /\ late' = late
      BY <1>3 DEF PollFails
    <2>2. HealthTypeOK'
      BY <1>1, <2>1 DEF HealthTypeOK
    <2>3. StampsAreHonest' /\ ListedOnly' /\ NewIsUnknown'
      BY <1>1, <2>1 DEF HealthTypeOK, StampsAreHonest, ListedOnly, NewIsUnknown
    <2>4. StampsAreFresh'
      BY <1>1, <2>1 DEF StampsAreFresh, FreshAt, Awaiting, HealthTypeOK
    <2>. QED
      BY <2>2, <2>3, <2>4
  <1>. QED
    BY <1>2, <1>3 DEF PollNode

LEMMA PruneInv ==
    ASSUME HealthInv, Prune
    PROVE  HealthInv'
  <1>. USE DEF HealthInv
  <1>1. /\ cycle = {} /\ loop = "polling" /\ loop' = "idle" /\ live' = {}
        /\ age' = [m \in Monitored |-> IF m \in live THEN age[m] ELSE Unknown]
        /\ UNCHANGED <<registry, answering, ticked, cycle, phase, silence, missed, late>>
    BY DEF Prune
  <1>2. \A m \in Monitored : age'[m] = age[m] \/ age'[m] = Unknown
    BY <1>1
  <1>3. HealthTypeOK'
    BY <1>1 DEF HealthTypeOK
  <1>4. StampsAreHonest' /\ ListedOnly' /\ NewIsUnknown'
    BY <1>1, <1>2 DEF StampsAreHonest, ListedOnly, NewIsUnknown
  <1>5. StampsAreFresh'
    BY <1>1, <1>2 DEF StampsAreFresh, FreshAt, Awaiting
  <1>. QED
    BY <1>3, <1>4, <1>5

LEMMA HealthStep == HealthInv /\ [HealthNext]_healthVars => HealthInv'
  <1>. SUFFICES ASSUME HealthInv, [HealthNext]_healthVars PROVE HealthInv'
    OBVIOUS
  <1>1. CASE \E n \in Monitored : Register(n) \/ Unregister(n)
    BY <1>1, RegisterInv
  <1>2. CASE \E n \in Monitored : Turn(n)
    BY <1>2, TurnInv
  <1>3. CASE \E n \in Monitored : PollNode(n)
    BY <1>3, PollInv
  <1>4. CASE Pass
    BY <1>4, PassInv
  <1>5. CASE BeginPoll \/ ListNodes \/ PollUnlisted
    BY <1>5, BeginInv, ListInv
  <1>6. CASE Prune
    BY <1>6, PruneInv
  <1>7. CASE UNCHANGED healthVars
    BY <1>7 DEF HealthInv, healthVars, HealthTypeOK, StampsAreHonest, ListedOnly, NewIsUnknown,
       StampsAreFresh, FreshAt, Awaiting
  <1>. QED
    BY <1>1, <1>2, <1>3, <1>4, <1>5, <1>6, <1>7 DEF HealthNext

LEMMA HealthInvariant == HealthSpec => []HealthInv
  BY HealthInitInv, HealthStep, PTL DEF HealthSpec

-----------------------------------------------------------------------------
(* Theorems                                                                *)

\* A record is stamped only by an answer, so a node that has been silent for
\* longer than the TTL has no stamp within it: no scan is sent to a dead node.
THEOREM DeadNodesAreNotTrusted == HealthSpec => []DeadIsNotTrusted
  <1>1. HealthInv => DeadIsNotTrusted
    BY HealthConstants DEF HealthInv, HealthTypeOK, StampsAreHonest, DeadIsNotTrusted, Dispatchable, Healthy
  <1>. QED
    BY <1>1, HealthInvariant, PTL

\* The TTL of three intervals bridges one missed poll, at whatever moment of its cycles
\* the node is reached and however late a cycle begins, until a tick finds one running.
THEOREM OneMissIsBridged == HealthSpec => []OneMissIsTolerated
  <1>1. HealthInv => OneMissIsTolerated
    BY HealthConstants DEF HealthInv, HealthTypeOK, StampsAreFresh, FreshAt, OneMissIsTolerated, Dispatchable, Healthy
  <1>. QED
    BY <1>1, HealthInvariant, PTL

\* The verdicts are right in time, for any nodes, interval, order of polls and length of
\* the cycles: a dead node is never trusted, and a live one that missed one poll is, as
\* long as no tick has found a cycle running since its last answer.
THEOREM VerdictsStayTimely == HealthSpec => []VerdictsAreTimely
  BY DeadNodesAreNotTrusted, OneMissIsBridged, PTL DEF VerdictsAreTimely


-----------------------------------------------------------------------------
(* Types                                                                   *)

Minting == {"admit", "insert"}
Spent   == {"exchange", "lock", "commit"}
Places  == {"idle", "take"} \cup Minting \cup Spent

HandlerRecord ==
    [at : Places, browser : Browsers \cup {Nobody}, state : States \cup {Nobody},
     life : Nat, tries : Nat, count : Nat,
     subject : Subjects \cup {Nobody}, id : SessionIds \cup {Nobody},
     expired : SUBSET SessionIds]

AuthTypeOK ==
    /\ flows \in [States -> Nat \cup {Nobody}]
    /\ stateCookie \in [Browsers -> States \cup {Nobody}]
    /\ redeemed \in [States -> Nat]
    /\ handler \in [Handlers -> HandlerRecord]
    /\ \A h \in Handlers : handler[h].at # "idle" => handler[h].state \in States

LEMMA Limits ==
    /\ FlowTTL \in Nat /\ SessionTTL \in Nat /\ MaxFlows \in Nat /\ Attempts \in Nat
    /\ Nobody \notin Handlers /\ Nobody \notin States
  BY AuthConstants

LEMMA Counts ==
    /\ \A S \in SUBSET SessionIds : Cardinality(S) \in Nat
    /\ IsFiniteSet(LiveFlows) /\ Cardinality(LiveFlows) \in Nat
  <1>1. LiveFlows \subseteq States
    BY DEF LiveFlows
  <1>. QED
    BY <1>1, AuthConstants, FS_Subset, FS_CardinalityType

LEMMA IdleType == Idle \in HandlerRecord /\ Idle.at = "idle" /\ Idle.state = Nobody
  BY DEF Idle, HandlerRecord, Places

-----------------------------------------------------------------------------
(* A handler moves                                                         *)

\* Replacing the record of one handler.
LEMMA BecomesType ==
    ASSUME AuthTypeOK, NEW h \in Handlers, NEW r \in HandlerRecord,
           r.at # "idle" => r.state \in States, Becomes(h, r)
    PROVE  /\ handler' \in [Handlers -> HandlerRecord]
           /\ \A k \in Handlers : handler'[k].at # "idle" => handler'[k].state \in States
           /\ handler'[h] = r
           /\ \A k \in Handlers : k # h => handler'[k] = handler[k]
  BY DEF AuthTypeOK, Becomes

LEMMA CookieType ==
    ASSUME AuthTypeOK, NEW b, NEW v \in States \cup {Nobody},
           MaySet(stateCookie, b, v) \/ UNCHANGED stateCookie
    PROVE  /\ stateCookie' \in [Browsers -> States \cup {Nobody}]
           /\ \A c \in Browsers : stateCookie'[c] \in {stateCookie[c], v}
  BY DEF AuthTypeOK, MaySet

LEMMA InitAuthType == AuthInit => AuthTypeOK
  BY IdleType DEF AuthInit, AuthTypeOK

-----------------------------------------------------------------------------
(* A state token is spent once                                             *)

\* A token is with the handler that mints it, then in one row, then with the
\* handler that took the row, then in a session: in one place at a time.
TokensInOnePlace ==
    /\ \A h, k \in Handlers : h # k /\ handler[h].at \in Spent /\ handler[k].at \in Spent
                              => handler[h].state # handler[k].state
    /\ \A h \in Handlers : handler[h].at \in Spent \cup Minting =>
          flows[handler[h].state] = Nobody /\ redeemed[handler[h].state] = 0
    /\ \A h \in Handlers : handler[h].at \in Minting =>
          /\ \A k \in Handlers : k # h => handler[k].state # handler[h].state
          /\ \A b \in Browsers : stateCookie[b] # handler[h].state
    /\ \A s \in States : flows[s] # Nobody => redeemed[s] = 0
    /\ \A s \in States : redeemed[s] <= 1

\* The lock of the admission is held from the count to the insert, and nothing
\* but an insert adds a live flow: the count that was read is an upper bound.
CountsHold ==
    /\ \A h \in Handlers : handler[h].at = "insert" =>
          admission = h /\ Cardinality(LiveFlows) <= handler[h].count
    /\ Cardinality(LiveFlows) <= MaxFlows

AuthInv == AuthTypeOK /\ TokensInOnePlace /\ CountsHold

\* Steps that put no token anywhere new: handlers go on with the token they
\* have or end, rows and cookies stay or go.
LEMMA NoTokenMoves ==
    ASSUME AuthTypeOK, TokensInOnePlace, redeemed' = redeemed,
           \A s \in States : flows'[s] # Nobody => flows[s] # Nobody,
           \A b \in Browsers : stateCookie'[b] \in {stateCookie[b], Nobody},
           \A k \in Handlers :
              \/ handler'[k].at = "idle" /\ handler'[k].state = Nobody
              \/ /\ handler'[k].state = handler[k].state
                 /\ \/ handler'[k].at = handler[k].at
                    \/ handler[k].at \in Minting /\ handler'[k].at \in Minting
                    \/ handler[k].at \in Spent /\ handler'[k].at \in Spent
    PROVE  TokensInOnePlace'
  <1>1. \A k \in Handlers :
           /\ handler'[k].at \in Spent => handler[k].at \in Spent /\ handler'[k].state = handler[k].state
           /\ handler'[k].at \in Minting => handler[k].at \in Minting /\ handler'[k].state = handler[k].state
           /\ handler'[k].state = handler[k].state \/ handler'[k].state = Nobody
    BY DEF Spent, Minting
  <1>2. \A k \in Handlers : handler[k].at \in Spent \cup Minting => handler[k].state \in States
    BY DEF AuthTypeOK, Spent, Minting
  <1>. QED
    BY <1>1, <1>2, Limits DEF TokensInOnePlace

\* Steps that add no live flow and let nobody into the admission.
LEMMA NoFlowAdded ==
    ASSUME AuthTypeOK, CountsHold, LiveFlows' \subseteq LiveFlows,
           \A k \in Handlers : handler'[k].at = "insert" =>
              /\ handler[k].at = "insert" /\ handler'[k].count = handler[k].count
              /\ admission' = admission
    PROVE  CountsHold'
  <1>1. Cardinality(LiveFlows') \in Nat /\ Cardinality(LiveFlows') <= Cardinality(LiveFlows)
    BY Counts, FS_Subset, FS_CardinalityType
  <1>2. \A k \in Handlers : handler[k].count \in Nat
    BY DEF AuthTypeOK, HandlerRecord
  <1>. QED
    BY <1>1, <1>2, Counts, Limits DEF CountsHold

LEMMA InitAuth == AuthInit => AuthInv
  <1>. SUFFICES ASSUME AuthInit PROVE AuthInv
    OBVIOUS
  <1>1. AuthTypeOK
    BY InitAuthType
  <1>2. TokensInOnePlace
    BY IdleType DEF AuthInit, TokensInOnePlace, Spent, Minting
  <1>3. LiveFlows = {}
    BY DEF AuthInit, LiveFlows
  <1>4. CountsHold
    BY <1>3, IdleType, FS_EmptySet, Limits DEF AuthInit, CountsHold
  <1>. QED
    BY <1>1, <1>2, <1>4 DEF AuthInv

-----------------------------------------------------------------------------
(* Actions                                                                 *)

\* Steps of one handler that leave the rows of flows alone.
LEMMA LoginInv ==
    ASSUME AuthInv, NEW h \in Handlers, NEW b \in Browsers, NEW s \in States, Login(h, b, s)
    PROVE  AuthInv'
  <1>. USE DEF AuthInv
  <1>. DEFINE r == [Idle EXCEPT !.at = "admit", !.browser = b, !.state = s, !.life = FlowTTL]
  <1>1. r \in HandlerRecord /\ r.at = "admit" /\ r.state = s
    BY IdleType, Limits DEF HandlerRecord, Places, Minting, Idle
  <1>2. /\ Becomes(h, r) /\ redeemed' = [redeemed EXCEPT ![s] = 0]
        /\ flows' = flows /\ stateCookie' = stateCookie /\ admission' = admission
    BY DEF Login
  <1>3. FreshState(s)
    BY DEF Login, Least
  <1>. HIDE DEF r
  <1>4. /\ handler' \in [Handlers -> HandlerRecord]
        /\ \A k \in Handlers : handler'[k].at # "idle" => handler'[k].state \in States
        /\ handler'[h] = r
        /\ \A k \in Handlers : k # h => handler'[k] = handler[k]
    BY <1>1, <1>2, BecomesType
  <1>5. AuthTypeOK'
    BY <1>2, <1>4 DEF AuthTypeOK
  <1>6. TokensInOnePlace'
    <2>1. \A t \in States : redeemed'[t] = IF t = s THEN 0 ELSE redeemed[t]
      BY <1>2 DEF AuthTypeOK
    <2>2. \A k \in Handlers : handler[k].at \in Spent \cup Minting => handler[k].state \in States
      BY DEF AuthTypeOK, Spent, Minting
    <2>3. /\ flows[s] = Nobody /\ \A c \in Browsers : stateCookie[c] # s
          /\ \A k \in Handlers : handler[k].state # s
      BY <1>3 DEF FreshState
    <2>4. \A k \in Handlers : handler'[k].at \in Spent => k # h
      BY <1>1, <1>4 DEF Spent
    <2>. QED
      BY <1>1, <1>2, <1>4, <2>1, <2>2, <2>3, <2>4 DEF TokensInOnePlace, AuthTypeOK
  <1>7. CountsHold'
    BY <1>1, <1>2, <1>4, NoFlowAdded DEF LiveFlows
  <1>. QED
    BY <1>5, <1>6, <1>7

LEMMA CallbackInv ==
    ASSUME AuthInv, NEW h \in Handlers, NEW b \in Browsers, Callback(h, b)
    PROVE  AuthInv'
  <1>. USE DEF AuthInv
  <1>. DEFINE r == [Idle EXCEPT !.at = "take", !.browser = b, !.state = stateCookie[b]]
  <1>1. stateCookie[b] \in States
    BY DEF Callback, AuthTypeOK
  <1>2. r \in HandlerRecord /\ r.at = "take" /\ r.state = stateCookie[b]
    BY <1>1, IdleType DEF HandlerRecord, Places, Idle
  <1>3. /\ Becomes(h, r)
        /\ UNCHANGED <<flows, stateCookie, admission, redeemed>>
    BY DEF Callback
  <1>. HIDE DEF r
  <1>4. /\ handler' \in [Handlers -> HandlerRecord]
        /\ \A k \in Handlers : handler'[k].at # "idle" => handler'[k].state \in States
        /\ handler'[h] = r
        /\ \A k \in Handlers : k # h => handler'[k] = handler[k]
    BY <1>1, <1>2, <1>3, BecomesType
  <1>5. AuthTypeOK'
    BY <1>3, <1>4 DEF AuthTypeOK
  <1>6. TokensInOnePlace'
    <2>1. \A k \in Handlers : handler'[k].at \in Spent \cup Minting => k # h
      BY <1>2, <1>4 DEF Spent, Minting
    <2>. QED
      BY <1>2, <1>3, <1>4, <2>1 DEF TokensInOnePlace
  <1>7. CountsHold'
    BY <1>2, <1>3, <1>4, NoFlowAdded DEF LiveFlows
  <1>. QED
    BY <1>5, <1>6, <1>7

\* Steps of a login or a callback that only move the handler on.
LEMMA AdmitInv ==
    ASSUME AuthInv, NEW h \in Handlers, Admit(h)
    PROVE  AuthInv'
  <1>. USE DEF AuthInv
  <1>. DEFINE r == [handler[h] EXCEPT !.at = "insert", !.tries = 0, !.count = Cardinality(LiveFlows)]
  <1>1. /\ r \in HandlerRecord /\ r.at = "insert" /\ r.state = handler[h].state
        /\ r.count = Cardinality(LiveFlows) /\ handler[h].state \in States
    BY Counts DEF Admit, AuthTypeOK, HandlerRecord, Places, Minting
  <1>2. /\ Becomes(h, r) /\ handler[h].at = "admit" /\ admission = Nobody /\ admission' = h
        /\ UNCHANGED <<flows, stateCookie, redeemed>>
    BY DEF Admit
  <1>. HIDE DEF r
  <1>3. /\ handler' \in [Handlers -> HandlerRecord]
        /\ \A k \in Handlers : handler'[k].at # "idle" => handler'[k].state \in States
        /\ handler'[h] = r
        /\ \A k \in Handlers : k # h => handler'[k] = handler[k]
    BY <1>1, <1>2, BecomesType
  <1>4. AuthTypeOK'
    BY <1>2, <1>3 DEF AuthTypeOK
  <1>5. TokensInOnePlace'
    BY <1>1, <1>2, <1>3, NoTokenMoves DEF Minting
  <1>6. CountsHold'
    <2>1. \A k \in Handlers : handler[k].at # "insert"
      BY <1>2, Limits DEF CountsHold
    <2>2. LiveFlows' = LiveFlows
      BY <1>2 DEF LiveFlows
    <2>. QED
      BY <1>1, <1>2, <1>3, <2>1, <2>2, Counts DEF CountsHold
  <1>. QED
    BY <1>4, <1>5, <1>6

LEMMA BusyInv ==
    ASSUME AuthInv, NEW h \in Handlers, Busy(h)
    PROVE  AuthInv'
  <1>. USE DEF AuthInv
  <1>. DEFINE r == IF handler[h].tries + 1 = Attempts THEN Idle
                   ELSE [handler[h] EXCEPT !.tries = @ + 1]
  <1>1. /\ Becomes(h, r) /\ handler[h].at = "admit"
        /\ UNCHANGED <<flows, stateCookie, redeemed, admission>>
    BY DEF Busy
  <1>2. /\ r \in HandlerRecord
        /\ \/ r.at = "idle" /\ r.state = Nobody
           \/ r.at = "admit" /\ r.state = handler[h].state
        /\ handler[h].state \in States
    BY <1>1, IdleType DEF AuthTypeOK, HandlerRecord
  <1>. HIDE DEF r
  <1>3. /\ handler' \in [Handlers -> HandlerRecord]
        /\ \A k \in Handlers : handler'[k].at # "idle" => handler'[k].state \in States
        /\ handler'[h] = r
        /\ \A k \in Handlers : k # h => handler'[k] = handler[k]
    BY <1>1, <1>2, BecomesType
  <1>4. AuthTypeOK'
    BY <1>1, <1>3 DEF AuthTypeOK
  <1>5. TokensInOnePlace'
    BY <1>1, <1>2, <1>3, NoTokenMoves
  <1>6. CountsHold'
    BY <1>1, <1>2, <1>3, NoFlowAdded DEF LiveFlows
  <1>. QED
    BY <1>4, <1>5, <1>6

\* A handler that ends without a result.
LEMMA EndInv ==
    ASSUME AuthInv, NEW h \in Handlers, FlowLimit(h) \/ Refused(h) \/ Fail(h)
    PROVE  AuthInv'
  <1>. USE DEF AuthInv
  <1>1. /\ Becomes(h, Idle) /\ UNCHANGED <<flows, redeemed>>
        /\ MaySet(stateCookie, handler[h].browser, Nobody) \/ UNCHANGED stateCookie
        /\ admission' = admission \/ admission = h \/ handler[h].at = "insert"
    BY DEF FlowLimit, Refused, Fail, Released, MaySet
  <1>2. /\ handler' \in [Handlers -> HandlerRecord]
        /\ \A k \in Handlers : handler'[k].at # "idle" => handler'[k].state \in States
        /\ handler'[h] = Idle
        /\ \A k \in Handlers : k # h => handler'[k] = handler[k]
    BY <1>1, IdleType, BecomesType
  <1>3. /\ stateCookie' \in [Browsers -> States \cup {Nobody}]
        /\ \A c \in Browsers : stateCookie'[c] \in {stateCookie[c], Nobody}
    BY <1>1, CookieType
  <1>4. AuthTypeOK'
    BY <1>1, <1>2, <1>3 DEF AuthTypeOK
  <1>5. TokensInOnePlace'
    BY <1>1, <1>2, <1>3, IdleType, NoTokenMoves
  <1>6. \A k \in Handlers : handler'[k].at = "insert" =>
              /\ handler[k].at = "insert" /\ handler'[k].count = handler[k].count
              /\ admission' = admission
    BY <1>1, <1>2, IdleType DEF CountsHold
  <1>7. CountsHold'
    BY <1>1, <1>6, NoFlowAdded DEF LiveFlows
  <1>. QED
    BY <1>4, <1>5, <1>7

LEMMA CreateFlowInv ==
    ASSUME AuthInv, NEW h \in Handlers, CreateAuthFlow(h)
    PROVE  AuthInv'
  <1>. USE DEF AuthInv
  <1>. DEFINE s == handler[h].state
  <1>1. /\ s \in States /\ handler[h].life \in Nat /\ handler[h].count \in Nat
        /\ handler[h].at = "insert" /\ handler[h].count < MaxFlows
    BY DEF CreateAuthFlow, AuthTypeOK, HandlerRecord
  <1>2. /\ flows' = [flows EXCEPT ![s] = handler[h].life]
        /\ Becomes(h, Idle) /\ redeemed' = redeemed
        /\ MaySet(stateCookie, handler[h].browser, s)
    BY DEF CreateAuthFlow
  <1>3. /\ handler' \in [Handlers -> HandlerRecord]
        /\ \A k \in Handlers : handler'[k].at # "idle" => handler'[k].state \in States
        /\ handler'[h] = Idle
        /\ \A k \in Handlers : k # h => handler'[k] = handler[k]
    BY <1>2, IdleType, BecomesType
  <1>4. /\ stateCookie' \in [Browsers -> States \cup {Nobody}]
        /\ \A c \in Browsers : stateCookie'[c] \in {stateCookie[c], s}
    BY <1>1, <1>2, CookieType
  <1>5. AuthTypeOK'
    BY <1>1, <1>2, <1>3, <1>4 DEF AuthTypeOK
  <1>6. TokensInOnePlace'
    <2>1. \A k \in Handlers : k # h => handler[k].state # s
      BY <1>1 DEF TokensInOnePlace, Minting
    <2>2. redeemed[s] = 0
      BY <1>1 DEF TokensInOnePlace, Minting
    <2>3. \A t \in States : flows'[t] = IF t = s THEN handler[h].life ELSE flows[t]
      BY <1>2 DEF AuthTypeOK
    <2>4. \A k \in Handlers : handler'[k].at \in Spent \cup Minting =>
             k # h /\ handler[k].state \in States
      BY <1>3, IdleType DEF Spent, Minting, AuthTypeOK
    <2>5. \A k \in Handlers : handler'[k].state # s \/ k = h
      BY <1>3, <2>1
    <2>. HIDE DEF s
    <2>. QED
      BY <1>2, <1>3, <1>4, <2>1, <2>2, <2>3, <2>4, <2>5, IdleType, Limits DEF TokensInOnePlace
  <1>7. CountsHold'
    <2>1. LiveFlows' \subseteq LiveFlows \cup {s}
      BY <1>1, <1>2 DEF LiveFlows, AuthTypeOK
    <2>2. /\ IsFiniteSet(LiveFlows \cup {s})
          /\ Cardinality(LiveFlows \cup {s}) <= Cardinality(LiveFlows) + 1
      BY Counts, FS_AddElement
    <2>3. /\ Cardinality(LiveFlows') \in Nat
          /\ Cardinality(LiveFlows') <= Cardinality(LiveFlows \cup {s})
      BY <2>1, <2>2, FS_Subset, FS_CardinalityType
    <2>4. Cardinality(LiveFlows \cup {s}) \in Nat
      BY <2>2, FS_CardinalityType
    <2>5. Cardinality(LiveFlows) <= handler[h].count
      BY <1>1 DEF CountsHold
    <2>6. Cardinality(LiveFlows') <= MaxFlows
      BY <1>1, <2>2, <2>3, <2>4, <2>5, Counts, Limits
    <2>7. \A k \in Handlers : handler'[k].at # "insert"
      BY <1>1, <1>3, IdleType DEF CountsHold
    <2>. QED
      BY <2>6, <2>7 DEF CountsHold
  <1>. QED
    BY <1>5, <1>6, <1>7

\* The row goes and the handler has its token: nobody else can take it.
LEMMA TakeInv ==
    ASSUME AuthInv, NEW h \in Handlers, TakeAuthFlow(h)
    PROVE  AuthInv'
  <1>. USE DEF AuthInv
  <1>. DEFINE s == handler[h].state
              r == [handler[h] EXCEPT !.at = "exchange"]
  <1>1. s \in States /\ flows[s] # Nobody /\ handler[h].at = "take"
    BY DEF TakeAuthFlow, LiveFlows
  <1>2. /\ flows' = [flows EXCEPT ![s] = Nobody] /\ Becomes(h, r)
        /\ UNCHANGED <<admission, stateCookie, redeemed>>
    BY DEF TakeAuthFlow
  <1>3. r \in HandlerRecord /\ r.at = "exchange" /\ r.state = s
    BY DEF AuthTypeOK, HandlerRecord, Places, Spent
  <1>4. /\ handler' \in [Handlers -> HandlerRecord]
        /\ \A k \in Handlers : handler'[k].at # "idle" => handler'[k].state \in States
        /\ handler'[h] = r
        /\ \A k \in Handlers : k # h => handler'[k] = handler[k]
    BY <1>1, <1>2, <1>3, BecomesType
  <1>5. AuthTypeOK'
    BY <1>1, <1>2, <1>4 DEF AuthTypeOK
  <1>6. TokensInOnePlace'
    <2>1. \A t \in States : flows'[t] = IF t = s THEN Nobody ELSE flows[t]
      BY <1>2 DEF AuthTypeOK
    <2>2. redeemed[s] = 0
      BY <1>1 DEF TokensInOnePlace
    <2>3. \A k \in Handlers : handler[k].at \in Spent \cup Minting =>
             handler[k].state # s /\ handler[k].state \in States
      BY <1>1 DEF TokensInOnePlace, AuthTypeOK, Spent, Minting
    <2>4. \A k \in Handlers : handler'[k].at \in Minting => k # h
      BY <1>3, <1>4 DEF Minting
    <2>. HIDE DEF s, r
    <2>. QED
      BY <1>2, <1>3, <1>4, <2>1, <2>2, <2>3, <2>4 DEF TokensInOnePlace
  <1>7. CountsHold'
    <2>1. LiveFlows' \subseteq LiveFlows
      BY <1>2 DEF LiveFlows, AuthTypeOK
    <2>. QED
      BY <1>2, <1>3, <1>4, <2>1, NoFlowAdded
  <1>. QED
    BY <1>5, <1>6, <1>7

\* A handler that has taken its flow goes on.
LEMMA SpentMovesOn ==
    ASSUME AuthInv, NEW h \in Handlers, NEW r \in HandlerRecord, Becomes(h, r),
           r.state = handler[h].state, r.at \in Spent, handler[h].at \in Spent,
           UNCHANGED <<flows, admission, stateCookie, redeemed>>
    PROVE  AuthInv'
  <1>. USE DEF AuthInv
  <1>1. r.at # "idle" => r.state \in States
    BY DEF AuthTypeOK, Spent
  <1>2. /\ handler' \in [Handlers -> HandlerRecord]
        /\ \A k \in Handlers : handler'[k].at # "idle" => handler'[k].state \in States
        /\ handler'[h] = r
        /\ \A k \in Handlers : k # h => handler'[k] = handler[k]
    BY <1>1, BecomesType
  <1>3. AuthTypeOK'
    BY <1>2 DEF AuthTypeOK
  <1>4. TokensInOnePlace'
    BY <1>2, NoTokenMoves
  <1>5. CountsHold'
    <2>1. r.at # "insert"
      BY DEF Spent
    <2>. QED
      BY <1>2, <2>1, NoFlowAdded DEF LiveFlows
  <1>. QED
    BY <1>3, <1>4, <1>5

LEMMA ExchangeInv ==
    ASSUME AuthInv, NEW h \in Handlers, NEW u \in Subjects, NEW i \in SessionIds, Exchange(h, u, i)
    PROVE  AuthInv'
  <1>. DEFINE r == [handler[h] EXCEPT !.at = "lock", !.subject = u, !.id = i, !.life = SessionTTL,
                                      !.expired = Rows(u) \ Live(u)]
  <1>1. r \in HandlerRecord /\ r.at = "lock" /\ r.state = handler[h].state
    <2>1. handler[h] \in HandlerRecord
      BY DEF AuthInv, AuthTypeOK
    <2>2. Rows(u) \ Live(u) \subseteq SessionIds /\ SessionTTL \in Nat
      BY Limits DEF Rows
    <2>. DEFINE g == handler[h]
                X == Rows(u) \ Live(u)
    <2>3. g \in HandlerRecord /\ X \in SUBSET SessionIds
      BY <2>1, <2>2
    <2>4. r = [g EXCEPT !.at = "lock", !.subject = u, !.id = i, !.life = SessionTTL, !.expired = X]
      OBVIOUS
    <2>. HIDE DEF r, X, g
    <2>5. r \in HandlerRecord /\ r.at = "lock" /\ r.state = g.state
      <3>1. "lock" \in Places
        BY DEF Places, Spent
      <3>. QED
        BY <2>2, <2>3, <2>4, <3>1 DEF HandlerRecord
    <2>. QED
      BY <2>5 DEF g
  <1>2. /\ Becomes(h, r) /\ handler[h].at = "exchange"
        /\ UNCHANGED <<flows, admission, stateCookie, redeemed>>
    BY DEF Exchange
  <1>. HIDE DEF r
  <1>. QED
    BY <1>1, <1>2, SpentMovesOn DEF Spent

LEMMA LockInv ==
    ASSUME AuthInv, NEW h \in Handlers, LockSubject(h)
    PROVE  AuthInv'
  <1>. DEFINE ids == Rows(handler[h].subject) \ handler[h].expired
              r == [handler[h] EXCEPT !.at = "commit", !.count = Cardinality(ids)]
  <1>1. Cardinality(ids) \in Nat
    BY Counts DEF Rows
  <1>2. /\ Becomes(h, r) /\ handler[h].at = "lock"
        /\ UNCHANGED <<flows, admission, stateCookie, redeemed>>
    BY DEF LockSubject
  <1>. HIDE DEF ids
  <1>3. r \in HandlerRecord /\ r.at = "commit" /\ r.state = handler[h].state
    BY <1>1 DEF AuthInv, AuthTypeOK, HandlerRecord, Places, Spent
  <1>. HIDE DEF r
  <1>. QED
    BY <1>2, <1>3, SpentMovesOn DEF Spent

LEMMA CreateSessionInv ==
    ASSUME AuthInv, NEW h \in Handlers, CreateSession(h)
    PROVE  AuthInv'
  <1>. USE DEF AuthInv
  <1>. DEFINE s == handler[h].state
  <1>1. s \in States /\ handler[h].at = "commit"
    BY DEF CreateSession, AuthTypeOK
  <1>2. /\ redeemed' = [redeemed EXCEPT ![s] = @ + 1] /\ Becomes(h, Idle)
        /\ MaySet(stateCookie, handler[h].browser, Nobody)
        /\ UNCHANGED <<flows, admission>>
    BY DEF CreateSession
  <1>3. /\ handler' \in [Handlers -> HandlerRecord]
        /\ \A k \in Handlers : handler'[k].at # "idle" => handler'[k].state \in States
        /\ handler'[h] = Idle
        /\ \A k \in Handlers : k # h => handler'[k] = handler[k]
    BY <1>2, IdleType, BecomesType
  <1>4. /\ stateCookie' \in [Browsers -> States \cup {Nobody}]
        /\ \A c \in Browsers : stateCookie'[c] \in {stateCookie[c], Nobody}
    BY <1>2, CookieType
  <1>5. AuthTypeOK'
    BY <1>1, <1>2, <1>3, <1>4 DEF AuthTypeOK
  <1>6. TokensInOnePlace'
    <2>1. flows[s] = Nobody /\ redeemed[s] = 0
      BY <1>1 DEF TokensInOnePlace, Spent
    <2>2. \A t \in States : redeemed'[t] = IF t = s THEN 1 ELSE redeemed[t]
      BY <1>1, <1>2, <2>1 DEF AuthTypeOK
    <2>3. \A k \in Handlers : k # h /\ handler[k].at \in Spent \cup Minting =>
             handler[k].state # s /\ handler[k].state \in States
      BY <1>1 DEF TokensInOnePlace, AuthTypeOK, Spent, Minting
    <2>4. \A k \in Handlers : handler'[k].at \in Spent \cup Minting => k # h
      BY <1>3, IdleType DEF Spent, Minting
    <2>. HIDE DEF s
    <2>. QED
      BY <1>2, <1>3, <1>4, <2>1, <2>2, <2>3, <2>4, IdleType, Limits DEF TokensInOnePlace
  <1>7. CountsHold'
    BY <1>2, <1>3, IdleType, NoFlowAdded DEF LiveFlows
  <1>. QED
    BY <1>5, <1>6, <1>7

\* Logouts, revocations and sweeps of sessions.
LEMMA SessionsInv ==
    ASSUME AuthInv, UNCHANGED <<flows, admission, handler, stateCookie, redeemed>>
    PROVE  AuthInv'
  BY DEF AuthInv, AuthTypeOK, TokensInOnePlace, CountsHold, LiveFlows

LEMMA ForgetInv ==
    ASSUME AuthInv, NEW b \in Browsers, Forget(b)
    PROVE  AuthInv'
  <1>. USE DEF AuthInv
  <1>1. UNCHANGED <<flows, admission, handler, redeemed>> /\ MaySet(stateCookie, b, Nobody)
    BY DEF Forget, MaySet
  <1>2. /\ stateCookie' \in [Browsers -> States \cup {Nobody}]
        /\ \A c \in Browsers : stateCookie'[c] \in {stateCookie[c], Nobody}
    BY <1>1, CookieType
  <1>3. AuthTypeOK' /\ CountsHold'
    BY <1>1, <1>2 DEF AuthTypeOK, CountsHold, LiveFlows
  <1>. QED
    BY <1>1, <1>2, <1>3, NoTokenMoves

LEMMA SweepFlowsInv ==
    ASSUME AuthInv, SweepFlows
    PROVE  AuthInv'
  <1>. USE DEF AuthInv
  <1>1. /\ flows' = [s \in States |-> IF flows[s] = 0 THEN Nobody ELSE flows[s]]
        /\ UNCHANGED <<admission, handler, stateCookie, redeemed>>
    BY DEF SweepFlows
  <1>2. AuthTypeOK'
    BY <1>1 DEF AuthTypeOK
  <1>3. TokensInOnePlace'
    <2>1. \A s \in States : flows'[s] # Nobody => flows[s] # Nobody
      BY <1>1
    <2>. QED
      BY <1>1, <2>1, NoTokenMoves
  <1>4. LiveFlows' \subseteq LiveFlows
    BY <1>1 DEF LiveFlows
  <1>. QED
    BY <1>1, <1>2, <1>3, <1>4, NoFlowAdded

LEMMA TimeInv ==
    ASSUME AuthInv, TimePasses
    PROVE  AuthInv'
  <1>. USE DEF AuthInv
  <1>1. /\ flows' = [s \in States |-> IF flows[s] = Nobody THEN Nobody ELSE Shorter(flows[s])]
        /\ handler' = [h \in Handlers |-> [handler[h] EXCEPT !.life = Shorter(handler[h].life)]]
        /\ UNCHANGED <<admission, stateCookie, redeemed>>
    BY DEF TimePasses
  <1>2. \A n \in Nat : Shorter(n) \in Nat /\ (Shorter(n) > 0 => n > 0)
    BY DEF Shorter
  <1>3. flows' \in [States -> Nat \cup {Nobody}]
    BY <1>1, <1>2 DEF AuthTypeOK
  <1>4. \A h \in Handlers :
           /\ handler'[h] \in HandlerRecord
           /\ handler'[h].at = handler[h].at /\ handler'[h].state = handler[h].state
           /\ handler'[h].count = handler[h].count
    BY <1>1, <1>2 DEF AuthTypeOK, HandlerRecord
  <1>5. AuthTypeOK'
    BY <1>1, <1>3, <1>4 DEF AuthTypeOK
  <1>6. \A s \in States : flows'[s] # Nobody => flows[s] # Nobody
    BY <1>1
  <1>7. TokensInOnePlace'
    BY <1>1, <1>4, <1>6, NoTokenMoves
  <1>8. LiveFlows' \subseteq LiveFlows
    BY <1>1, <1>2, <1>6 DEF LiveFlows, AuthTypeOK
  <1>. QED
    BY <1>1, <1>4, <1>5, <1>7, <1>8, NoFlowAdded

LEMMA AuthStep == AuthInv /\ [AuthNext]_authVars => AuthInv'
  <1>. SUFFICES ASSUME AuthInv, [AuthNext]_authVars PROVE AuthInv'
    OBVIOUS
  <1>1. CASE \E h \in Handlers : Step(h)
    <2>1. PICK h \in Handlers : Step(h)
      BY <1>1
    <2>. QED
      BY <2>1, LockInv, AdmitInv, BusyInv, EndInv, CreateFlowInv, TakeInv, CreateSessionInv DEF Step
  <1>2. CASE \E h \in Handlers, b \in Browsers : Callback(h, b)
    BY <1>2, CallbackInv
  <1>3. CASE \E h \in Handlers, b \in Browsers, s \in States : Login(h, b, s)
    BY <1>3, LoginInv
  <1>4. CASE \E h \in Handlers, u \in Subjects, i \in SessionIds : Exchange(h, u, i)
    BY <1>4, ExchangeInv
  <1>5. CASE \E b \in Browsers : Forget(b)
    BY <1>5, ForgetInv
  <1>6. CASE \E i \in SessionIds : RevokeOne(i) \/ \E q \in Requests : Logout(i, q)
    BY <1>6, SessionsInv DEF RevokeOne, Revoke, Logout
  <1>7. CASE (\E u \in Subjects : RevokeAll(u)) \/ SweepSessions
    BY <1>7, SessionsInv DEF RevokeAll, Revoke, SweepSessions
  <1>8. CASE SweepFlows
    BY <1>8, SweepFlowsInv
  <1>9. CASE TimePasses
    BY <1>9, TimeInv
  <1>10. CASE UNCHANGED authVars
    BY <1>10, SessionsInv DEF authVars
  <1>. QED
    BY <1>1, <1>2, <1>3, <1>4, <1>5, <1>6, <1>7, <1>8, <1>9, <1>10 DEF AuthNext

LEMMA AuthInvariant == AuthSpec => []AuthInv
  BY InitAuth, AuthStep, PTL DEF AuthSpec

-----------------------------------------------------------------------------
(* Theorems                                                                *)

\* A login leads to at most one session: the token is in one place at a time and
\* does not come back from a session.
THEOREM LoginsAreSingleUse == AuthSpec => []LoginIsSingleUse
  <1>1. AuthInv => LoginIsSingleUse
    BY DEF AuthInv, TokensInOnePlace, LoginIsSingleUse
  <1>. QED
    BY <1>1, AuthInvariant, PTL

\* The cap on pending logins holds at every moment and for any number of
\* handlers: the count that admitted a flow is still a bound when it is stored.
THEOREM FlowsStayBounded == AuthSpec => []FlowsBounded
  <1>1. AuthInv => FlowsBounded
    BY DEF AuthInv, CountsHold, FlowsBounded
  <1>. QED
    BY <1>1, AuthInvariant, PTL

\* Pending logins are bounded and spent once, for any handlers and limits.
THEOREM LoginsStaySound == AuthSpec => []LoginsAreSound
  BY LoginsAreSingleUse, FlowsStayBounded, PTL DEF LoginsAreSound

-----------------------------------------------------------------------------
(* A subject's sessions                                                    *)

\* A login whose transaction has begun.
Opening == {"lock", "commit"}

Session == [subject : Subjects, life : Nat]

SessTypeOK ==
    /\ sessions \in [SessionIds -> Session \cup {Nobody}]
    /\ born \in [SessionIds -> SUBSET SessionIds]
    /\ subjectLock \in [Subjects -> Handlers \cup {Nobody}]
    /\ \A h \in Handlers :
          IF handler[h].at \in Opening
            THEN handler[h].subject \in Subjects /\ handler[h].id \in SessionIds
            ELSE handler[h].id = Nobody /\ handler[h].expired = {}

\* The id of an opened session is nobody else's.
IdsAreFresh ==
    \A h \in Handlers : handler[h].at \in Opening =>
        /\ sessions[handler[h].id] = Nobody
        /\ \A k \in Handlers :
              /\ k # h => handler[k].id # handler[h].id
              /\ handler[h].id \notin handler[k].expired

\* What had expired when a transaction began stays expired.
ExpiredStays ==
    \A h \in Handlers : \A i \in handler[h].expired :
        sessions[i] = Nobody \/ sessions[i].life = 0

\* created_at orders the ids that are in use.
BornIsAnOrder ==
    \A i \in SessionIds :
        /\ born[i] \subseteq Known /\ i \notin born[i]
        /\ \A j \in born[i] : born[j] \subseteq born[i]

\* The lock of the subject is held from the count to the insert: the count
\* that was read is an upper bound.
SessionCounts ==
    \A h \in Handlers : handler[h].at = "commit" =>
        /\ subjectLock[handler[h].subject] = h
        /\ Cardinality(Rows(handler[h].subject) \ handler[h].expired) <= handler[h].count

SessInv ==
    /\ SessTypeOK /\ IdsAreFresh /\ ExpiredStays /\ BornIsAnOrder
    /\ SessionCounts /\ SessionsBounded

LEMMA IdSets ==
    ASSUME NEW S, S \subseteq SessionIds
    PROVE  /\ IsFiniteSet(S) /\ Cardinality(S) \in Nat
           /\ \A T : T \subseteq S => Cardinality(T) <= Cardinality(S) /\ IsFiniteSet(T)
                                      /\ Cardinality(T) \in Nat
  <1>1. IsFiniteSet(SessionIds) /\ IsFiniteSet(S)
    BY AuthConstants, FS_Subset
  <1>. QED
    BY <1>1, FS_Subset, FS_CardinalityType

\* Without the n oldest of a set at most the rest of its number is left.
LEMMA OldestLeaves ==
    ASSUME SessTypeOK, BornIsAnOrder, NEW X, X \subseteq SessionIds, NEW n \in Nat
    PROVE  /\ Oldest(n, X) \subseteq X
           /\ X \ Oldest(n, X) = {} \/ Cardinality(X \ Oldest(n, X)) <= Cardinality(X) - n
  <1>. DEFINE rank(i) == Cardinality(born[i] \cap X)
              surplus == X \ Oldest(n, X)
  <1>1. Oldest(n, X) \subseteq X /\ surplus \subseteq X /\ \A i \in X : i \in surplus <=> ~(rank(i) < n)
    BY DEF Oldest
  <1>2. \A i \in X : rank(i) \in Nat /\ IsFiniteSet(born[i] \cap X)
    <2>1. \A i \in X : born[i] \cap X \subseteq SessionIds
      OBVIOUS
    <2>. QED
      BY <2>1, IdSets
  <1>3. IsFiniteSet(X) /\ Cardinality(X) \in Nat /\ IsFiniteSet(surplus)
    BY <1>1, IdSets
  <1>. HIDE DEF surplus, rank
  <1>4. ASSUME surplus # {} PROVE Cardinality(surplus) <= Cardinality(X) - n
    <2>. DEFINE R == {rank(i) : i \in surplus}
    <2>1. R \subseteq Nat /\ R # {}
      BY <1>1, <1>2, <1>4
    <2>2. PICK r \in R : \A x \in R : r <= x
      <3>. HIDE DEF R
      <3>. QED
        BY <2>1, LeastNumber
    <2>3. PICK m \in surplus : rank(m) = r
      BY <2>2
    <2>4. \A i \in surplus : rank(m) <= rank(i)
      BY <2>2, <2>3
    <2>. DEFINE P == born[m] \cap X
    <2>5. m \in X /\ m \in SessionIds /\ rank(m) = Cardinality(P) /\ IsFiniteSet(P) /\ rank(m) >= n
          /\ rank(m) \in Nat
      BY <1>1, <1>2, <2>3 DEF rank
    <2>6. ASSUME NEW j \in P PROVE j \notin surplus
      <3>1. j \in born[m] /\ j \in X /\ j \in SessionIds
        BY <2>5 DEF SessTypeOK
      <3>2. born[j] \subseteq born[m] /\ j \notin born[j]
        BY <2>5, <3>1 DEF BornIsAnOrder
      <3>3. born[j] \cap X \subseteq P \ {j}
        BY <3>2
      <3>4. IsFiniteSet(P \ {j}) /\ Cardinality(P \ {j}) = Cardinality(P) - 1
        BY <2>5, <2>6, FS_RemoveElement
      <3>5. rank(j) <= Cardinality(P \ {j})
        <4>. HIDE DEF P
        <4>. QED
          BY <3>3, <3>4, FS_Subset DEF rank
      <3>6. rank(j) \in Nat /\ rank(m) \in Nat
        BY <1>2, <2>5, <3>1
      <3>7. rank(j) <= rank(m) - 1
        <4>. HIDE DEF P
        <4>. QED
          BY <2>5, <3>4, <3>5, <3>6
      <3>8. ~(rank(m) <= rank(j))
        BY <3>6, <3>7
      <3>. QED
        BY <2>4, <3>8
    <2>7. surplus \subseteq X \ P
      BY <1>1, <2>6
    <2>8. IsFiniteSet(X \ P) /\ Cardinality(X \ P) = Cardinality(X) - Cardinality(X \cap P)
      BY <1>3, FS_Difference
    <2>9. X \cap P = P
      OBVIOUS
    <2>10. Cardinality(surplus) <= Cardinality(X \ P)
      <3>. HIDE DEF P
      <3>. QED
        BY <2>7, <2>8, FS_Subset
    <2>11. Cardinality(surplus) \in Nat
      BY <1>3, FS_CardinalityType
    <2>. HIDE DEF P
    <2>. QED
      BY <1>3, <2>5, <2>8, <2>9, <2>10, <2>11
  <1>. QED
    BY <1>1, <1>4 DEF surplus

\* Handlers that keep what they have to do with sessions, or have nothing more
\* to do with them.
Same(k) ==
    /\ handler'[k].at = handler[k].at /\ handler'[k].subject = handler[k].subject
    /\ handler'[k].id = handler[k].id /\ handler'[k].expired = handler[k].expired
    /\ handler'[k].count = handler[k].count

Away(k) == handler'[k].at \notin Opening /\ handler'[k].id = Nobody /\ handler'[k].expired = {}

\* Rows that stay as they are, lose life or go.
Fades(i) ==
    \/ sessions'[i] = Nobody
    \/ /\ sessions[i] # Nobody /\ sessions'[i].subject = sessions[i].subject
       /\ sessions[i].life = 0 => sessions'[i].life = 0

LEMMA SessLimits ==
    /\ Nobody \notin SessionIds /\ Nobody \notin Session /\ Nobody \notin Handlers
    /\ MaxSessions \in Nat /\ MaxSessions > 0 /\ SessionTTL \in Nat
  BY AuthConstants DEF Session

\* Removing ids keeps the order.
LEMMA OrderWithout ==
    ASSUME SessTypeOK, BornIsAnOrder, NEW ids, born' = Without(ids), Known \ ids \subseteq Known'
    PROVE  BornIsAnOrder' /\ born' \in [SessionIds -> SUBSET SessionIds]
  <1>1. /\ \A i \in SessionIds : born'[i] = IF i \in ids THEN {} ELSE born[i] \ ids
        /\ born' \in [SessionIds -> SUBSET SessionIds]
    BY DEF Without, SessTypeOK
  <1>2. \A i \in SessionIds : \A j \in born[i] : j \in SessionIds
    BY DEF SessTypeOK
  <1>. QED
    BY <1>1, <1>2 DEF BornIsAnOrder

LEMMA OrderStays ==
    ASSUME SessTypeOK, BornIsAnOrder, born' = born, Known \subseteq Known'
    PROVE  BornIsAnOrder' /\ born' \in [SessionIds -> SUBSET SessionIds]
  BY DEF BornIsAnOrder, SessTypeOK

\* Steps that begin no transaction, count nothing and insert nothing.
LEMMA FadingInv ==
    ASSUME AuthTypeOK, SessInv, \A i \in SessionIds : Fades(i), \A k \in Handlers : Same(k) \/ Away(k),
           sessions' \in [SessionIds -> Session \cup {Nobody}],
           BornIsAnOrder', born' \in [SessionIds -> SUBSET SessionIds],
           subjectLock' \in [Subjects -> Handlers \cup {Nobody}],
           \A k \in Handlers : handler'[k].at = "commit" =>
              subjectLock'[handler[k].subject] = subjectLock[handler[k].subject]
    PROVE  SessInv'
  <1>1. SessTypeOK'
    BY DEF SessInv, SessTypeOK, Same, Away
  <1>2. IdsAreFresh'
    <2>. SUFFICES ASSUME NEW h \in Handlers, handler'[h].at \in Opening
                  PROVE  /\ sessions'[handler'[h].id] = Nobody
                         /\ \A k \in Handlers :
                               /\ k # h => handler'[k].id # handler'[h].id
                               /\ handler'[h].id \notin handler'[k].expired
      BY DEF IdsAreFresh
    <2>1. Same(h) /\ handler[h].at \in Opening /\ handler'[h].id = handler[h].id
      BY DEF Same, Away
    <2>2. handler[h].id \in SessionIds /\ sessions[handler[h].id] = Nobody
      BY <2>1 DEF SessInv, SessTypeOK, IdsAreFresh
    <2>3. sessions'[handler[h].id] = Nobody
      BY <2>2 DEF Fades
    <2>4. ASSUME NEW k \in Handlers
          PROVE  /\ k # h => handler'[k].id # handler'[h].id
                 /\ handler'[h].id \notin handler'[k].expired
      <3>1. /\ k # h => handler[k].id # handler[h].id
            /\ handler[h].id \notin handler[k].expired
        BY <2>1 DEF SessInv, IdsAreFresh
      <3>2. CASE Same(k)
        BY <2>1, <3>1, <3>2 DEF Same
      <3>3. CASE Away(k)
        BY <2>1, <2>2, <3>3, SessLimits DEF Away
      <3>. QED
        BY <3>2, <3>3
    <2>. QED
      BY <2>1, <2>3, <2>4
  <1>3. ExpiredStays'
    <2>. SUFFICES ASSUME NEW h \in Handlers, NEW i \in handler'[h].expired
                  PROVE  sessions'[i] = Nobody \/ sessions'[i].life = 0
      BY DEF ExpiredStays
    <2>1. i \in handler[h].expired
      BY DEF Same, Away
    <2>2. i \in SessionIds
      BY <2>1 DEF AuthTypeOK, HandlerRecord
    <2>3. sessions[i] = Nobody \/ sessions[i].life = 0
      BY <2>1 DEF SessInv, ExpiredStays
    <2>. QED
      BY <2>2, <2>3 DEF Fades
  <1>4. SessionCounts'
    <2>. SUFFICES ASSUME NEW h \in Handlers, handler'[h].at = "commit"
                  PROVE  /\ subjectLock'[handler'[h].subject] = h
                         /\ Cardinality((Rows(handler[h].subject) \ handler[h].expired)') <= handler'[h].count
      BY DEF SessionCounts
    <2>1. Same(h) /\ handler[h].at = "commit" /\ handler'[h].subject = handler[h].subject
          /\ handler'[h].expired = handler[h].expired /\ handler'[h].count = handler[h].count
      BY DEF Same, Away, Opening
    <2>2. subjectLock[handler[h].subject] = h
          /\ Cardinality(Rows(handler[h].subject) \ handler[h].expired) <= handler[h].count
      BY <2>1 DEF SessInv, SessionCounts
    <2>3. (Rows(handler[h].subject) \ handler[h].expired)' \subseteq Rows(handler[h].subject) \ handler[h].expired
      BY <2>1 DEF Rows, Fades
    <2>4. Rows(handler[h].subject) \ handler[h].expired \subseteq SessionIds
      BY DEF Rows
    <2>5. handler[h].count \in Nat
      BY DEF AuthTypeOK, HandlerRecord
    <2>. QED
      BY <2>1, <2>2, <2>3, <2>4, <2>5, IdSets
  <1>5. SessionsBounded'
    <2>. SUFFICES ASSUME NEW u \in Subjects PROVE Cardinality(Live(u)') <= MaxSessions
      BY DEF SessionsBounded
    <2>1. Live(u)' \subseteq Live(u)
      <3>1. \A i \in SessionIds : sessions[i] # Nobody => sessions[i].life \in Nat
        BY DEF SessInv, SessTypeOK, Session
      <3>2. \A i \in SessionIds : sessions'[i] # Nobody => sessions'[i].life \in Nat
        BY DEF Session
      <3>. QED
        BY <3>1, <3>2 DEF Live, Rows, Fades
    <2>2. Live(u) \subseteq SessionIds /\ Cardinality(Live(u)) <= MaxSessions
      BY DEF Live, Rows, SessInv, SessionsBounded
    <2>. QED
      BY <2>1, <2>2, IdSets, SessLimits
  <1>. QED
    BY <1>1, <1>2, <1>3, <1>4, <1>5 DEF SessInv

\* Steps of a login that is not in its transaction, and of cookies and flows.
LEMMA ElsewhereInv ==
    ASSUME AuthTypeOK, SessInv, NEW h \in Handlers, UNCHANGED <<sessions, born, subjectLock>>,
           handler[h].at \notin Opening, Away(h),
           \A k \in Handlers : k # h => handler'[k] = handler[k]
    PROVE  SessInv'
  <1>1. \A i \in SessionIds : Fades(i)
    BY DEF Fades
  <1>2. \A k \in Handlers : k # h => Same(k)
    BY DEF Same
  <1>3. handler'[h].id = handler[h].id
    BY DEF SessInv, SessTypeOK, Away
  <1>4. Known \subseteq Known'
    BY <1>2, <1>3 DEF Known, Same
  <1>5. BornIsAnOrder' /\ born' \in [SessionIds -> SUBSET SessionIds]
    BY <1>4, OrderStays DEF SessInv
  <1>6. sessions' \in [SessionIds -> Session \cup {Nobody}] /\ subjectLock' \in [Subjects -> Handlers \cup {Nobody}]
    BY DEF SessInv, SessTypeOK
  <1>. QED
    BY <1>1, <1>2, <1>5, <1>6, FadingInv

\* Removing rows.
LEMMA GoneInv ==
    ASSUME AuthTypeOK, SessInv, NEW ids, Gone(ids), UNCHANGED <<handler, subjectLock>>
    PROVE  SessInv'
  <1>1. sessions' = [i \in SessionIds |-> IF i \in ids THEN Nobody ELSE sessions[i]]
        /\ born' = Without(ids)
    BY DEF Gone
  <1>2. \A i \in SessionIds : Fades(i)
    BY <1>1 DEF Fades
  <1>3. \A k \in Handlers : Same(k)
    BY DEF Same
  <1>4. Known \ ids \subseteq Known'
    BY <1>1 DEF Known
  <1>5. BornIsAnOrder' /\ born' \in [SessionIds -> SUBSET SessionIds]
    BY <1>1, <1>4, OrderWithout DEF SessInv
  <1>6. sessions' \in [SessionIds -> Session \cup {Nobody}] /\ subjectLock' \in [Subjects -> Handlers \cup {Nobody}]
    BY <1>1 DEF SessInv, SessTypeOK, Released
  <1>. QED
    BY <1>2, <1>3, <1>5, <1>6, FadingInv

LEMMA FailSess ==
    ASSUME AuthTypeOK, SessInv, NEW h \in Handlers, Fail(h)
    PROVE  SessInv'
  <1>1. /\ born' = Without({handler[h].id}) /\ sessions' = sessions
        /\ subjectLock' = [u \in Subjects |-> Released(subjectLock[u], h)]
        /\ Becomes(h, Idle)
    BY DEF Fail
  <1>2. handler'[h] = Idle /\ \A k \in Handlers : k # h => handler'[k] = handler[k]
    BY <1>1 DEF AuthTypeOK, Becomes
  <1>3. Away(h) /\ \A k \in Handlers : k # h => Same(k)
    BY <1>2 DEF Away, Same, Idle, Opening
  <1>4. Known \ {handler[h].id} \subseteq Known'
    BY <1>1, <1>2 DEF Known
  <1>5. BornIsAnOrder' /\ born' \in [SessionIds -> SUBSET SessionIds]
    BY <1>1, <1>4, OrderWithout DEF SessInv
  <1>6. sessions' \in [SessionIds -> Session \cup {Nobody}] /\ subjectLock' \in [Subjects -> Handlers \cup {Nobody}]
    BY <1>1 DEF SessInv, SessTypeOK, Released
  <1>7. \A i \in SessionIds : Fades(i)
    BY <1>1 DEF Fades
  <1>8. ASSUME NEW k \in Handlers, handler'[k].at = "commit"
        PROVE  subjectLock'[handler[k].subject] = subjectLock[handler[k].subject]
    <2>1. k # h /\ handler[k].at = "commit"
      BY <1>2, <1>8 DEF Idle
    <2>2. handler[k].subject \in Subjects /\ subjectLock[handler[k].subject] = k
      BY <2>1 DEF SessInv, SessTypeOK, SessionCounts, Opening
    <2>. QED
      BY <1>1, <2>1, <2>2 DEF Released
  <1>. QED
    BY <1>3, <1>5, <1>6, <1>7, <1>8, FadingInv

LEMMA TimeSess ==
    ASSUME AuthTypeOK, SessInv, TimePasses
    PROVE  SessInv'
  <1>1. /\ sessions' = [i \in SessionIds |-> IF sessions[i] = Nobody THEN Nobody
                                             ELSE [sessions[i] EXCEPT !.life = Shorter(@)]]
        /\ handler' = [h \in Handlers |-> [handler[h] EXCEPT !.life = Shorter(@)]]
        /\ UNCHANGED <<born, subjectLock>>
    BY DEF TimePasses
  <1>2. \A n \in Nat : Shorter(n) \in Nat /\ Shorter(0) = 0
    BY DEF Shorter
  <1>3. ASSUME NEW i \in SessionIds, sessions[i] # Nobody
        PROVE  /\ sessions'[i] \in Session /\ sessions'[i].subject = sessions[i].subject
               /\ sessions'[i].life = Shorter(sessions[i].life)
    <2>1. sessions[i] \in Session
      BY <1>3 DEF SessInv, SessTypeOK
    <2>2. sessions'[i] = [sessions[i] EXCEPT !.life = Shorter(@)]
      BY <1>1, <1>3
    <2>. QED
      BY <1>2, <2>1, <2>2 DEF Session
  <1>4. \A i \in SessionIds : Fades(i)
    BY <1>1, <1>2, <1>3 DEF Fades
  <1>5. \A k \in Handlers : Same(k)
    <2>. SUFFICES ASSUME NEW k \in Handlers PROVE Same(k)
      OBVIOUS
    <2>1. handler[k] \in HandlerRecord /\ handler'[k] = [handler[k] EXCEPT !.life = Shorter(@)]
      BY <1>1 DEF AuthTypeOK
    <2>. QED
      BY <2>1 DEF Same, HandlerRecord
  <1>6. Known \subseteq Known'
    <2>1. \A i \in SessionIds : sessions[i] # Nobody => sessions'[i] # Nobody
      BY <1>3, SessLimits
    <2>. QED
      BY <1>5, <2>1 DEF Known, Same
  <1>7. BornIsAnOrder' /\ born' \in [SessionIds -> SUBSET SessionIds]
    BY <1>1, <1>6, OrderStays DEF SessInv
  <1>8. sessions' \in [SessionIds -> Session \cup {Nobody}] /\ subjectLock' \in [Subjects -> Handlers \cup {Nobody}]
    BY <1>1, <1>3 DEF SessInv, SessTypeOK
  <1>. QED
    BY <1>1, <1>4, <1>5, <1>7, <1>8, FadingInv

\* The steps of a handler outside the transaction.
LEMMA BeforeOpening ==
    ASSUME AuthTypeOK, SessInv, NEW h \in Handlers, NEW r, Becomes(h, r),
           r.at \notin Opening, handler[h].at \notin Opening,
           r.id = handler[h].id \/ r.id = Nobody, r.expired = handler[h].expired \/ r.expired = {},
           UNCHANGED <<sessions, born, subjectLock>>
    PROVE  SessInv'
  <1>1. handler'[h] = r /\ \A k \in Handlers : k # h => handler'[k] = handler[k]
    BY DEF AuthTypeOK, Becomes
  <1>2. handler[h].id = Nobody /\ handler[h].expired = {}
    BY DEF SessInv, SessTypeOK
  <1>3. Away(h)
    BY <1>1, <1>2 DEF Away
  <1>. QED
    BY <1>1, <1>3, ElsewhereInv

LEMMA LoginStepsSess ==
    ASSUME AuthTypeOK, SessInv, NEW h \in Handlers,
           \/ Admit(h) \/ Busy(h) \/ FlowLimit(h) \/ CreateAuthFlow(h)
           \/ TakeAuthFlow(h) \/ Refused(h)
    PROVE  SessInv'
  <1>. USE DEF Opening, Idle
  <1>1. handler[h] \in HandlerRecord
    BY DEF AuthTypeOK
  <1>2. Idle.at = "idle" /\ Idle.id = Nobody /\ Idle.expired = {}
    OBVIOUS
  <1>3. CASE Admit(h)
    <2>. DEFINE r == [handler[h] EXCEPT !.at = "insert", !.tries = 0, !.count = Cardinality(LiveFlows)]
    <2>1. r.at = "insert" /\ r.id = handler[h].id /\ r.expired = handler[h].expired
      BY <1>1 DEF HandlerRecord
    <2>2. Becomes(h, r) /\ handler[h].at = "admit" /\ UNCHANGED <<sessions, born, subjectLock>>
      BY <1>3 DEF Admit
    <2>. HIDE DEF r
    <2>. QED
      BY <2>1, <2>2, BeforeOpening
  <1>4. CASE Busy(h)
    <2>. DEFINE r == [handler[h] EXCEPT !.tries = @ + 1]
    <2>1. r.at = handler[h].at /\ r.id = handler[h].id /\ r.expired = handler[h].expired
      BY <1>1 DEF HandlerRecord
    <2>2. (Becomes(h, r) \/ Becomes(h, Idle)) /\ handler[h].at = "admit" /\ UNCHANGED <<sessions, born, subjectLock>>
      BY <1>4 DEF Busy
    <2>. HIDE DEF r, Idle
    <2>. QED
      BY <1>2, <2>1, <2>2, BeforeOpening
  <1>5. CASE FlowLimit(h) \/ CreateAuthFlow(h)
    <2>1. Becomes(h, Idle) /\ handler[h].at = "insert" /\ UNCHANGED <<sessions, born, subjectLock>>
      BY <1>5 DEF FlowLimit, CreateAuthFlow
    <2>. HIDE DEF Idle
    <2>. QED
      BY <1>2, <2>1, BeforeOpening
  <1>6. CASE TakeAuthFlow(h)
    <2>. DEFINE r == [handler[h] EXCEPT !.at = "exchange"]
    <2>1. r.at = "exchange" /\ r.id = handler[h].id /\ r.expired = handler[h].expired
      BY <1>1 DEF HandlerRecord
    <2>2. Becomes(h, r) /\ handler[h].at = "take" /\ UNCHANGED <<sessions, born, subjectLock>>
      BY <1>6 DEF TakeAuthFlow
    <2>. HIDE DEF r
    <2>. QED
      BY <2>1, <2>2, BeforeOpening
  <1>7. CASE Refused(h)
    <2>1. Becomes(h, Idle) /\ handler[h].at \in {"take", "exchange"} /\ UNCHANGED <<sessions, born, subjectLock>>
      BY <1>7 DEF Refused
    <2>. HIDE DEF Idle
    <2>. QED
      BY <1>2, <2>1, BeforeOpening
  <1>. QED
    BY <1>3, <1>4, <1>5, <1>6, <1>7

LEMMA ArrivalsSess ==
    ASSUME AuthTypeOK, SessInv, NEW h \in Handlers, NEW b \in Browsers,
           Callback(h, b) \/ \E s \in States : Login(h, b, s)
    PROVE  SessInv'
  <1>1. ASSUME Callback(h, b) PROVE SessInv'
    <2>. DEFINE r == [Idle EXCEPT !.at = "take", !.browser = b, !.state = stateCookie[b]]
    <2>1. r.at = "take" /\ r.id = Nobody /\ r.expired = {}
      BY DEF Idle
    <2>2. Becomes(h, r) /\ handler[h].at = "idle" /\ UNCHANGED <<sessions, born, subjectLock>>
      BY <1>1 DEF Callback
    <2>. HIDE DEF r
    <2>. QED
      BY <2>1, <2>2, BeforeOpening DEF Opening
  <1>2. ASSUME NEW s \in States, Login(h, b, s) PROVE SessInv'
    <2>. DEFINE r == [Idle EXCEPT !.at = "admit", !.browser = b, !.state = s, !.life = FlowTTL]
    <2>1. r.at = "admit" /\ r.id = Nobody /\ r.expired = {}
      BY DEF Idle
    <2>2. Becomes(h, r) /\ handler[h].at = "idle" /\ UNCHANGED <<sessions, born, subjectLock>>
      BY <1>2 DEF Login
    <2>. HIDE DEF r
    <2>. QED
      BY <2>1, <2>2, BeforeOpening DEF Opening
  <1>. QED
    BY <1>1, <1>2

\* A transaction begins: its id is new, and what it will see as expired is.
LEMMA ExchangeSess ==
    ASSUME AuthTypeOK, SessInv, NEW h \in Handlers, NEW u \in Subjects, NEW i \in SessionIds,
           Exchange(h, u, i)
    PROVE  SessInv'
  <1>. DEFINE X == Rows(u) \ Live(u)
  <1>1. handler[h] \in HandlerRecord
    BY DEF AuthTypeOK
  <1>2. /\ handler[h].at = "exchange" /\ FreshId(i) /\ born' = [born EXCEPT ![i] = Known]
        /\ handler' = [handler EXCEPT ![h] = [handler[h] EXCEPT
                          !.at = "lock", !.subject = u, !.id = i, !.life = SessionTTL, !.expired = X]]
        /\ UNCHANGED <<sessions, subjectLock>>
    BY DEF Exchange, Least, Becomes
  <1>3. /\ handler'[h].at = "lock" /\ handler'[h].subject = u
        /\ handler'[h].id = i /\ handler'[h].expired = X
        /\ \A k \in Handlers : k # h => handler'[k] = handler[k]
    <2>. HIDE DEF X
    <2>. QED
      BY <1>1, <1>2 DEF AuthTypeOK, HandlerRecord
  <1>4. /\ i \notin Known /\ sessions[i] = Nobody
        /\ \A k \in Handlers : handler[k].id # i /\ i \notin handler[k].expired
    BY <1>2 DEF FreshId, Known
  <1>5. \A j \in X : j \in SessionIds /\ sessions[j] # Nobody /\ sessions[j].life = 0
    BY DEF Rows, Live, SessInv, SessTypeOK, Session
  <1>. HIDE DEF X
  <1>6. SessTypeOK'
    <2>1. Known \subseteq SessionIds
      BY DEF Known
    <2>. QED
      BY <1>2, <1>3, <2>1 DEF SessInv, SessTypeOK, Opening
  <1>7. IdsAreFresh'
    <2>. SUFFICES ASSUME NEW k \in Handlers, handler'[k].at \in Opening, NEW l \in Handlers
                  PROVE  /\ sessions[handler'[k].id] = Nobody
                         /\ l # k => handler'[l].id # handler'[k].id
                         /\ handler'[k].id \notin handler'[l].expired
      BY <1>2 DEF IdsAreFresh
    <2>1. CASE k = h
      BY <1>3, <1>4, <1>5, <2>1
    <2>2. CASE k # h
      <3>1. handler[k].at \in Opening /\ handler'[k] = handler[k]
        BY <1>3, <2>2
      <3>2. /\ sessions[handler[k].id] = Nobody
            /\ l # k => handler[l].id # handler[k].id
            /\ handler[k].id \notin handler[l].expired
        BY <3>1 DEF SessInv, IdsAreFresh
      <3>. QED
        BY <1>3, <1>4, <1>5, <3>1, <3>2
    <2>. QED
      BY <2>1, <2>2
  <1>8. ExpiredStays'
    BY <1>2, <1>3, <1>5 DEF SessInv, ExpiredStays
  <1>9. BornIsAnOrder'
    <2>1. \A j \in SessionIds : born'[j] = IF j = i THEN Known ELSE born[j]
      BY <1>2 DEF SessInv, SessTypeOK
    <2>2. Known \subseteq Known' /\ Known \subseteq SessionIds
      <3>1. handler[h].id = Nobody
        BY <1>2 DEF SessInv, SessTypeOK, Opening
      <3>. QED
        BY <1>2, <1>3, <3>1, SessLimits DEF Known
    <2>. QED
      BY <1>4, <2>1, <2>2 DEF SessInv, BornIsAnOrder
  <1>10. SessionCounts'
    <2>. SUFFICES ASSUME NEW k \in Handlers, handler'[k].at = "commit"
                  PROVE  /\ subjectLock'[handler'[k].subject] = k
                         /\ Cardinality((Rows(handler[k].subject) \ handler[k].expired)') <= handler'[k].count
      BY DEF SessionCounts
    <2>1. k # h /\ handler'[k] = handler[k] /\ handler[k].at = "commit"
      BY <1>3
    <2>2. (Rows(handler[k].subject) \ handler[k].expired)' = Rows(handler[k].subject) \ handler[k].expired
      BY <1>2, <2>1 DEF Rows
    <2>. QED
      BY <1>2, <2>1, <2>2 DEF SessInv, SessionCounts
  <1>11. SessionsBounded'
    BY <1>2 DEF SessInv, SessionsBounded, Live, Rows
  <1>. QED
    BY <1>6, <1>7, <1>8, <1>9, <1>10, <1>11 DEF SessInv

LEMMA LockSess ==
    ASSUME AuthTypeOK, SessInv, NEW h \in Handlers, LockSubject(h)
    PROVE  SessInv'
  <1>. DEFINE n == Cardinality(Rows(handler[h].subject) \ handler[h].expired)
              v == handler[h].subject
  <1>1. handler[h] \in HandlerRecord
    BY DEF AuthTypeOK
  <1>2. /\ handler[h].at = "lock" /\ subjectLock[v] = Nobody
        /\ subjectLock' = [subjectLock EXCEPT ![v] = h]
        /\ handler' = [handler EXCEPT ![h] = [handler[h] EXCEPT !.at = "commit", !.count = n]]
        /\ UNCHANGED <<sessions, born>>
    BY DEF LockSubject, Becomes
  <1>3. n \in Nat
    <2>1. Rows(handler[h].subject) \ handler[h].expired \subseteq SessionIds
      BY DEF Rows
    <2>. QED
      BY <2>1, IdSets
  <1>4. /\ handler'[h].at = "commit" /\ handler'[h].subject = v /\ handler'[h].count = n
        /\ handler'[h].id = handler[h].id /\ handler'[h].expired = handler[h].expired
        /\ \A k \in Handlers : k # h => handler'[k] = handler[k]
    <2>. HIDE DEF n
    <2>. QED
      BY <1>1, <1>2 DEF AuthTypeOK, HandlerRecord
  <1>5. SessTypeOK'
    BY <1>2, <1>4 DEF SessInv, SessTypeOK, Opening
  <1>6. IdsAreFresh'
    <2>1. \A k \in Handlers : /\ handler'[k].id = handler[k].id /\ handler'[k].expired = handler[k].expired
                              /\ handler'[k].at \in Opening => handler[k].at \in Opening
      BY <1>2, <1>4 DEF Opening
    <2>. HIDE DEF v
    <2>. QED
      BY <1>2, <2>1 DEF SessInv, IdsAreFresh
  <1>7. ExpiredStays'
    BY <1>2, <1>4 DEF SessInv, ExpiredStays
  <1>8. BornIsAnOrder'
    <2>1. Known \subseteq Known'
      BY <1>2, <1>4 DEF Known
    <2>. QED
      BY <1>2, <2>1, OrderStays DEF SessInv
  <1>9. SessionCounts'
    <2>. SUFFICES ASSUME NEW k \in Handlers, handler'[k].at = "commit"
                  PROVE  /\ subjectLock'[handler'[k].subject] = k
                         /\ Cardinality((Rows(handler[k].subject) \ handler[k].expired)') <= handler'[k].count
      BY DEF SessionCounts
    <2>1. (Rows(handler[k].subject) \ handler[k].expired)' = Rows(handler[k].subject) \ handler[k].expired
      BY <1>2, <1>4 DEF Rows
    <2>2. CASE k = h
      <3>1. v \in Subjects /\ subjectLock'[v] = h
        BY <1>2 DEF SessInv, SessTypeOK, Opening
      <3>. QED
        BY <1>3, <1>4, <2>1, <2>2, <3>1
    <2>3. CASE k # h
      <3>1. handler'[k] = handler[k] /\ handler[k].at = "commit"
        BY <1>4, <2>3
      <3>2. subjectLock[handler[k].subject] = k
            /\ Cardinality(Rows(handler[k].subject) \ handler[k].expired) <= handler[k].count
        BY <3>1 DEF SessInv, SessionCounts
      <3>3. handler[k].subject # v
        BY <1>2, <3>2, SessLimits
      <3>4. subjectLock'[handler[k].subject] = k
        BY <1>2, <3>2, <3>3
      <3>. QED
        BY <2>1, <3>1, <3>2, <3>4
    <2>. QED
      BY <2>2, <2>3
  <1>10. SessionsBounded'
    BY <1>2 DEF SessInv, SessionsBounded, Live, Rows
  <1>. QED
    BY <1>5, <1>6, <1>7, <1>8, <1>9, <1>10 DEF SessInv

\* The commit: what was counted less the evicted ones and the new session are
\* at most the cap, and no other login of the subject is between its count and
\* its commit.
LEMMA CreateSess ==
    ASSUME AuthTypeOK, SessInv, NEW h \in Handlers, CreateSession(h)
    PROVE  SessInv'
  <1>. DEFINE r == handler[h]
              v == handler[h].subject
              E == Evicted(h)
              X == Rows(handler[h].subject) \ handler[h].expired
              row == [subject |-> handler[h].subject, life |-> handler[h].life]
  <1>1. /\ r \in HandlerRecord /\ r.at = "commit" /\ r.id \in SessionIds /\ v \in Subjects
        /\ sessions[r.id] = Nobody /\ r.count \in Nat /\ r.life \in Nat
        /\ subjectLock[v] = h /\ Cardinality(X) <= r.count
    <2>1. r \in HandlerRecord /\ r.at = "commit"
      BY DEF CreateSession, AuthTypeOK
    <2>2. r.count \in Nat /\ r.life \in Nat
      BY <2>1 DEF HandlerRecord
    <2>3. r.id \in SessionIds /\ v \in Subjects /\ sessions[r.id] = Nobody
      BY <2>1 DEF SessInv, SessTypeOK, IdsAreFresh, Opening
    <2>4. subjectLock[v] = h /\ Cardinality(X) <= r.count
      BY <2>1 DEF SessInv, SessionCounts
    <2>. QED
      BY <2>1, <2>2, <2>3, <2>4
  <1>2. /\ sessions' = [i \in SessionIds |-> IF i = r.id THEN row ELSE IF i \in E THEN Nobody ELSE sessions[i]]
        /\ born' = Without(E) /\ subjectLock' = [subjectLock EXCEPT ![v] = Nobody]
        /\ Becomes(h, Idle)
    BY DEF CreateSession
  <1>3. handler'[h] = Idle /\ \A k \in Handlers : k # h => handler'[k] = handler[k]
    BY <1>2 DEF AuthTypeOK, Becomes
  <1>4. Idle.at = "idle" /\ Idle.id = Nobody /\ Idle.expired = {} /\ "idle" \notin Opening /\ "idle" # "commit"
    BY DEF Idle, Opening
  <1>5. X \subseteq SessionIds /\ Cardinality(X) \in Nat
    <2>1. X \subseteq SessionIds
      BY DEF Rows
    <2>. HIDE DEF X
    <2>. QED
      BY <2>1, IdSets
  <1>6. E = IF r.count >= MaxSessions THEN Oldest(r.count - MaxSessions + 1, X) ELSE {}
    BY DEF Evicted
  <1>7. row \in Session /\ row # Nobody /\ row.subject = v
    <2>1. row \in Session /\ row.subject = v
      BY <1>1 DEF Session
    <2>. HIDE DEF row
    <2>. QED
      BY <2>1, SessLimits
  <1>8. \A i \in E : i \in X
    <2>1. \A n : Oldest(n, X) \subseteq X
      BY DEF Oldest
    <2>. HIDE DEF E, X
    <2>. QED
      BY <1>6, <2>1
  <1>9. r.id \notin X /\ r.id \notin E /\ \A i \in X : sessions[i] # Nobody /\ i \in SessionIds /\ sessions[i].subject = v
    BY <1>1, <1>8 DEF Rows
  <1>10. Cardinality(X \ E) <= MaxSessions - 1
    <2>. HIDE DEF X, E
    <2>1. CASE ~(r.count >= MaxSessions)
      <3>1. E = {} /\ X \ E = X
        BY <1>6, <2>1
      <3>. QED
        BY <1>1, <1>5, <2>1, <3>1, SessLimits
    <2>2. CASE r.count >= MaxSessions
      <3>. DEFINE n == r.count - MaxSessions + 1
      <3>1. n \in Nat /\ E = Oldest(n, X)
        BY <1>1, <1>6, <2>2, SessLimits
      <3>2. X \ E = {} \/ Cardinality(X \ E) <= Cardinality(X) - n
        <4>. HIDE DEF n
        <4>. QED
          BY <1>5, <3>1, OldestLeaves DEF SessInv
      <3>3. Cardinality({}) = 0
        BY FS_EmptySet
      <3>4. CASE X \ E = {}
        BY <3>3, <3>4, SessLimits
      <3>5. CASE Cardinality(X \ E) <= Cardinality(X) - n
        <4>1. Cardinality(X \ E) \in Nat
          BY <1>5, IdSets
        <4>. QED
          BY <1>1, <1>5, <3>5, <4>1, SessLimits
      <3>. QED
        BY <3>2, <3>4, <3>5
    <2>. QED
      BY <2>1, <2>2
  <1>. HIDE DEF E, X, row
  <1>11. \A i \in SessionIds : i # r.id => sessions'[i] \in {sessions[i], Nobody}
    BY <1>2
  <1>12. SessTypeOK'
    <2>1. sessions' \in [SessionIds -> Session \cup {Nobody}]
      BY <1>2, <1>7 DEF SessInv, SessTypeOK
    <2>2. born' \in [SessionIds -> SUBSET SessionIds]
      BY <1>2 DEF Without, SessInv, SessTypeOK
    <2>3. subjectLock' \in [Subjects -> Handlers \cup {Nobody}]
      BY <1>2 DEF SessInv, SessTypeOK
    <2>4. \A k \in Handlers :
             IF handler'[k].at \in Opening
               THEN handler'[k].subject \in Subjects /\ handler'[k].id \in SessionIds
               ELSE handler'[k].id = Nobody /\ handler'[k].expired = {}
      BY <1>3, <1>4 DEF SessInv, SessTypeOK
    <2>. QED
      BY <2>1, <2>2, <2>3, <2>4 DEF SessTypeOK
  <1>13. IdsAreFresh'
    <2>. SUFFICES ASSUME NEW k \in Handlers, handler'[k].at \in Opening, NEW l \in Handlers
                  PROVE  /\ sessions'[handler'[k].id] = Nobody
                         /\ l # k => handler'[l].id # handler'[k].id
                         /\ handler'[k].id \notin handler'[l].expired
      BY DEF IdsAreFresh
    <2>1. k # h /\ handler'[k] = handler[k] /\ handler[k].at \in Opening
      BY <1>3, <1>4
    <2>2. /\ sessions[handler[k].id] = Nobody /\ handler[k].id # r.id /\ handler[k].id \in SessionIds
          /\ l # k => handler[l].id # handler[k].id
          /\ handler[k].id \notin handler[l].expired
      BY <2>1 DEF SessInv, IdsAreFresh, SessTypeOK
    <2>. QED
      BY <1>3, <1>4, <1>11, <2>1, <2>2, SessLimits
  <1>14. ExpiredStays'
    <2>. SUFFICES ASSUME NEW k \in Handlers, NEW i \in handler'[k].expired
                  PROVE  sessions'[i] = Nobody \/ sessions'[i].life = 0
      BY DEF ExpiredStays
    <2>1. k # h /\ i \in handler[k].expired
      BY <1>3, <1>4
    <2>2. i \in SessionIds /\ i # r.id
      BY <1>1, <2>1 DEF AuthTypeOK, HandlerRecord, SessInv, IdsAreFresh, Opening
    <2>. QED
      BY <1>11, <2>1, <2>2 DEF SessInv, ExpiredStays
  <1>15. BornIsAnOrder'
    <2>1. Known \ E \subseteq Known'
      <3>. SUFFICES ASSUME NEW i \in SessionIds, i \notin E, sessions[i] # Nobody \/ \E k \in Handlers : handler[k].id = i
                    PROVE  sessions'[i] # Nobody \/ \E k \in Handlers : handler'[k].id = i
        BY DEF Known
      <3>1. CASE i = r.id
        BY <1>2, <1>7, <3>1
      <3>2. CASE i # r.id
        BY <1>2, <1>3, <3>2
      <3>. QED
        BY <3>1, <3>2
    <2>. QED
      BY <1>2, <2>1, OrderWithout DEF SessInv
  <1>16. SessionCounts'
    <2>. SUFFICES ASSUME NEW k \in Handlers, handler'[k].at = "commit"
                  PROVE  /\ subjectLock'[handler'[k].subject] = k
                         /\ Cardinality((Rows(handler[k].subject) \ handler[k].expired)') <= handler'[k].count
      BY DEF SessionCounts
    <2>1. k # h /\ handler'[k] = handler[k] /\ handler[k].at = "commit"
      BY <1>3, <1>4
    <2>2. subjectLock[handler[k].subject] = k
          /\ Cardinality(Rows(handler[k].subject) \ handler[k].expired) <= handler[k].count
          /\ handler[k].subject \in Subjects /\ handler[k].count \in Nat
      BY <2>1 DEF SessInv, SessionCounts, SessTypeOK, AuthTypeOK, HandlerRecord, Opening
    <2>3. handler[k].subject # v
      BY <1>1, <2>1, <2>2
    <2>4. subjectLock'[handler[k].subject] = k
      BY <1>2, <2>2, <2>3 DEF SessInv, SessTypeOK
    <2>5. (Rows(handler[k].subject) \ handler[k].expired)' \subseteq Rows(handler[k].subject) \ handler[k].expired
      BY <1>2, <1>7, <2>1, <2>3 DEF Rows
    <2>6. Rows(handler[k].subject) \ handler[k].expired \subseteq SessionIds
      BY DEF Rows
    <2>. QED
      BY <2>1, <2>2, <2>4, <2>5, <2>6, IdSets
  <1>17. SessionsBounded'
    <2>. SUFFICES ASSUME NEW u \in Subjects PROVE Cardinality(Live(u)') <= MaxSessions
      BY DEF SessionsBounded
    <2>1. CASE u # v
      <3>1. Live(u)' \subseteq Live(u)
        BY <1>2, <1>7, <2>1 DEF Live, Rows
      <3>2. Live(u) \subseteq SessionIds /\ Cardinality(Live(u)) <= MaxSessions
        BY DEF Live, Rows, SessInv, SessionsBounded
      <3>. QED
        BY <3>1, <3>2, IdSets, SessLimits
    <2>2. CASE u = v
      <3>1. ASSUME NEW i \in Live(u)', i # r.id PROVE i \in X \ E
        <4>1. /\ i \in SessionIds /\ sessions'[i] # Nobody /\ sessions'[i].subject = v /\ sessions'[i].life > 0
          BY <2>2, <3>1 DEF Live, Rows
        <4>2. i \notin E /\ sessions'[i] = sessions[i]
          BY <1>2, <3>1, <4>1
        <4>3. i \notin r.expired
          BY <4>1, <4>2 DEF SessInv, ExpiredStays
        <4>. QED
          BY <4>1, <4>2, <4>3 DEF X, Rows
      <3>2. Live(u)' \subseteq (X \ E) \cup {r.id}
        BY <3>1
      <3>3. IsFiniteSet(X \ E) /\ Cardinality(X \ E) \in Nat /\ (X \ E) \cup {r.id} \subseteq SessionIds
        BY <1>1, <1>5, IdSets
      <3>4. Cardinality((X \ E) \cup {r.id}) = Cardinality(X \ E) + 1
        BY <1>9, <3>3, FS_AddElement
      <3>5. Cardinality(Live(u)') <= Cardinality((X \ E) \cup {r.id}) /\ Cardinality(Live(u)') \in Nat
        BY <3>2, <3>3, IdSets
      <3>. QED
        BY <1>10, <3>3, <3>4, <3>5, SessLimits
    <2>. QED
      BY <2>1, <2>2
  <1>. QED
    BY <1>12, <1>13, <1>14, <1>15, <1>16, <1>17 DEF SessInv

LEMMA SessStart == AuthInit => SessInv
  <1>. SUFFICES ASSUME AuthInit PROVE SessInv
    OBVIOUS
  <1>1. /\ sessions = [i \in SessionIds |-> Nobody] /\ born = [i \in SessionIds |-> {}]
        /\ subjectLock = [u \in Subjects |-> Nobody]
        /\ \A h \in Handlers : handler[h] = Idle
    BY DEF AuthInit
  <1>2. Idle.at = "idle" /\ Idle.id = Nobody /\ Idle.expired = {} /\ "idle" \notin Opening /\ "idle" # "commit"
    BY DEF Idle, Opening
  <1>3. SessTypeOK /\ IdsAreFresh /\ ExpiredStays /\ SessionCounts
    BY <1>1, <1>2 DEF SessTypeOK, IdsAreFresh, ExpiredStays, SessionCounts
  <1>4. BornIsAnOrder
    BY <1>1 DEF BornIsAnOrder
  <1>5. \A u \in Subjects : Live(u) = {}
    BY <1>1 DEF Live, Rows
  <1>6. SessionsBounded
    BY <1>5, FS_EmptySet, SessLimits DEF SessionsBounded
  <1>. QED
    BY <1>3, <1>4, <1>6 DEF SessInv

LEMMA SessStep == AuthInv /\ SessInv /\ [AuthNext]_authVars => SessInv'
  <1>. SUFFICES ASSUME AuthTypeOK, SessInv, [AuthNext]_authVars PROVE SessInv'
    BY DEF AuthInv
  <1>1. CASE \E h \in Handlers : Step(h)
    BY <1>1, LoginStepsSess, LockSess, CreateSess, FailSess DEF Step
  <1>2. CASE \E h \in Handlers, b \in Browsers : Callback(h, b) \/ \E s \in States : Login(h, b, s)
    BY <1>2, ArrivalsSess
  <1>3. CASE \E h \in Handlers, u \in Subjects, i \in SessionIds : Exchange(h, u, i)
    BY <1>3, ExchangeSess
  <1>4. CASE \E i \in SessionIds : RevokeOne(i) \/ \E q \in Requests : Logout(i, q)
    BY <1>4, GoneInv DEF RevokeOne, Revoke, Logout
  <1>5. CASE (\E u \in Subjects : RevokeAll(u)) \/ SweepSessions
    BY <1>5, GoneInv DEF RevokeAll, Revoke, SweepSessions
  <1>6. CASE (\E b \in Browsers : Forget(b)) \/ SweepFlows \/ UNCHANGED authVars
    <2>1. UNCHANGED <<sessions, born, subjectLock, handler>>
      BY <1>6 DEF Forget, SweepFlows, authVars
    <2>2. (\A i \in SessionIds : Fades(i)) /\ \A k \in Handlers : Same(k)
      BY <2>1 DEF Fades, Same
    <2>3. BornIsAnOrder' /\ born' \in [SessionIds -> SUBSET SessionIds]
      BY <2>1, OrderStays DEF SessInv, Known
    <2>. QED
      BY <2>1, <2>2, <2>3, FadingInv DEF SessInv, SessTypeOK
  <1>7. CASE TimePasses
    BY <1>7, TimeSess
  <1>. QED
    BY <1>1, <1>2, <1>3, <1>4, <1>5, <1>6, <1>7 DEF AuthNext

\* Whatever headers a browser sends of a page, the two checks tell a sibling or
\* a foreign one from the application.
LEMMA OriginsAreTold ==
    ASSUME NEW q \in Requests, Sendable(q)
    PROVE  /\ LogoutAllowed(q) => q.site \in {"app", "typed"}
           /\ q.site = "app" /\ (q.method = "POST" \/ q.fetch # "absent") => LogoutAllowed(q)
  <1>1. PICK site \in Sites, m \in {"GET", "POST"}, f \in {"absent"} \cup {FetchSite(x) : x \in Sites} :
           q = [site |-> site, method |-> m, origin |-> IF m = "POST" THEN site ELSE "absent", fetch |-> f]
    BY DEF Requests
  <1>2. /\ q.site = site /\ q.method = m /\ q.fetch = f
        /\ q.origin = IF m = "POST" THEN site ELSE "absent"
    BY <1>1
  <1>3. /\ FetchSite("app") = "same-origin" /\ FetchSite("sibling") = "same-site"
        /\ FetchSite("foreign") = "cross-site" /\ FetchSite("typed") = "none"
    BY DEF FetchSite
  <1>4. f \in {"absent", FetchSite(site)} /\ (m = "POST" => site \in {"app", "sibling"})
    BY <1>2 DEF Sendable
  <1>. HIDE DEF FetchSite
  <1>5. CASE m = "POST"
    BY <1>2, <1>3, <1>4, <1>5 DEF LogoutAllowed, SameOriginRequest
  <1>6. CASE m = "GET"
    BY <1>2, <1>3, <1>4, <1>6 DEF LogoutAllowed, SameOriginRequest, Sites
  <1>. QED
    BY <1>5, <1>6

\* A subject's live sessions stay within the cap, for any logins, logouts,
\* revocations and sweeps that overlap, and no page of another host ends one
\* (CreateSession, sameOriginRequest).
THEOREM SessionsStaySound == AuthSpec => []SessionsAreSound
  <1>1. AuthInv /\ SessInv => SessionsAreSound
    BY OriginsAreTold DEF SessInv, SessionsAreSound, OnlyTheUserLogsOut
  <1>. QED
    BY <1>1, InitAuth, AuthStep, SessStart, SessStep, PTL DEF AuthSpec

-----------------------------------------------------------------------------
(* The scheduler                                                           *)

Snapshot == [id : Schedules, cadence : Stored]

\* A tick takes every schedule at most once, and a snapshot that was submitted
\* has a cadence that parses.
BatchFits ==
    /\ \A i, j \in DOMAIN batch : batch[i].id = batch[j].id => i = j
    /\ submitted => Current.cadence # BadCadence

\* A scan is without its record only between the two steps of one dispatch.
ScansAreRecorded ==
    /\ unexcused \in [Schedules -> 0..1]
    /\ \A s \in Schedules : unexcused[s] = 1 => submitted /\ Current.id = s /\ s \in Present

\* A schedule that was dispatched while disabled waits for nothing more in the
\* batch of this tick, and is not enabled.
QuietIsOver ==
    /\ quiet \in [Schedules -> 0..1]
    /\ \A s \in Present : rows[s].enabled => quiet[s] = 0
    /\ \A s \in Schedules, k \in DOMAIN batch :
          quiet[s] = 1 /\ batch[k].id = s => k = 1 /\ submitted

SchedInv == SchedTypeOK /\ BatchFits /\ ScansAreRecorded /\ QuietIsOver

\* What a write of a row leaves alone, and that it takes the row from the queue.
LEMMA WriteFits ==
    ASSUME SchedInv, NEW s \in Schedules, NEW row \in Row \cup {NoRow}, Write(s, row)
    PROVE  /\ rows' \in [Schedules -> Row \cup {NoRow}] /\ rows' = [rows EXCEPT ![s] = row]
           /\ due' \in Seq(Schedules) /\ IsInjective(due') /\ ToSet(due') \subseteq DueSchedules'
           /\ unexcused' = [unexcused EXCEPT ![s] = 0]
           /\ quiet' \in [Schedules -> 0..1]
           /\ \A x \in Schedules : quiet'[x] = 1 => quiet[x] = 1
           /\ \A x \in Present' : rows'[x].enabled => quiet'[x] = 0
  <1>1. rows' = [rows EXCEPT ![s] = row] /\ due' = RemoveFirst(due, s)
        /\ unexcused' = [unexcused EXCEPT ![s] = 0]
        /\ quiet' = [quiet EXCEPT ![s] = IF row = NoRow \/ row.enabled THEN 0 ELSE @]
    BY DEF Write
  <1>2. due \in Seq(Schedules) /\ IsInjective(due) /\ ToSet(due) \subseteq DueSchedules
        /\ rows \in [Schedules -> Row \cup {NoRow}]
        /\ quiet \in [Schedules -> 0..1] /\ \A x \in Present : rows[x].enabled => quiet[x] = 0
    BY DEF SchedInv, SchedTypeOK, QuietIsOver
  <1>3. due' \in Seq(Schedules) /\ IsInjective(due') /\ ToSet(due') = ToSet(due) \ {s}
    BY <1>1, <1>2, RemoveFirstKeepsOrder
  <1>4. rows' \in [Schedules -> Row \cup {NoRow}] /\ rows'[s] = row
        /\ \A x \in Schedules \ {s} : rows'[x] = rows[x]
    BY <1>1, <1>2
  <1>5. ToSet(due') \subseteq DueSchedules'
    BY <1>2, <1>3, <1>4 DEF DueSchedules, Present
  <1>6. /\ quiet' \in [Schedules -> 0..1]
        /\ \A x \in Schedules \ {s} : quiet'[x] = quiet[x]
        /\ quiet'[s] = IF row = NoRow \/ row.enabled THEN 0 ELSE quiet[s]
    BY <1>1, <1>2
  <1>7. \A x \in Present' : rows'[x].enabled => quiet'[x] = 0
    BY <1>2, <1>4, <1>6 DEF Present
  <1>8. \A x \in Schedules : quiet'[x] = 1 => quiet[x] = 1
    BY <1>6
  <1>. QED
    BY <1>1, <1>3, <1>4, <1>5, <1>6, <1>7, <1>8

LEMMA SchedInitInv == SchedInit => SchedInv
  <1>. SUFFICES ASSUME SchedInit PROVE SchedInv
    OBVIOUS
  <1>1. rows \in [Schedules -> Row \cup {NoRow}]
    <2>1. [enabled |-> TRUE, cadence |-> BadCadence, next |-> BadCadence] \in Row
      BY DEF Row, Stored
    <2>2. rows \in [Schedules -> {NoRow, [enabled |-> TRUE, cadence |-> BadCadence, next |-> BadCadence]}]
      BY DEF SchedInit
    <2>. QED
      BY <2>1, <2>2
  <1>2. due = <<>> /\ batch = <<>> /\ submitted = FALSE /\ admitted = 0 /\ faults = 0
        /\ unexcused = [s \in Schedules |-> 0] /\ quiet = [s \in Schedules |-> 0]
    BY DEF SchedInit
  <1>3. due \in Seq(Schedules) /\ batch \in Seq(Snapshot) /\ Len(batch) <= PerTick
        /\ DOMAIN due = {} /\ DOMAIN batch = {} /\ admitted \in 0..ScanLimit /\ faults \in 0..MaxFaults
    BY <1>2, SchedulerConstants
  <1>4. SchedTypeOK
    BY <1>1, <1>2, <1>3 DEF SchedTypeOK, Snapshot, IsInjective, ToSet
  <1>5. BatchFits
    BY <1>2, <1>3 DEF BatchFits
  <1>6. ScansAreRecorded /\ QuietIsOver
    <2>1. unexcused \in [Schedules -> 0..1] /\ quiet \in [Schedules -> 0..1]
          /\ \A s \in Schedules : unexcused[s] = 0 /\ quiet[s] = 0
      BY <1>2
    <2>2. 0 # 1
      OBVIOUS
    <2>. QED
      BY <1>3, <2>1, <2>2 DEF ScansAreRecorded, QuietIsOver, Present
  <1>. QED
    BY <1>4, <1>5, <1>6 DEF SchedInv

\* A handler writes a row: no scan of the row is unrecorded any more.
LEMMA HandlerInv ==
    ASSUME SchedInv, NEW s \in Schedules, NEW row \in Row \cup {NoRow}, Write(s, row),
           UNCHANGED <<ticker, admitted, faults>>
    PROVE  SchedInv'
  <1>1. batch' = batch /\ submitted' = submitted /\ admitted' = admitted /\ faults' = faults
    BY DEF ticker
  <1>2. SchedTypeOK'
    BY <1>1, WriteFits DEF SchedInv, SchedTypeOK
  <1>3. BatchFits'
    BY <1>1 DEF SchedInv, BatchFits, Current
  <1>4. ScansAreRecorded'
    <2>1. unexcused' = [unexcused EXCEPT ![s] = 0] /\ rows' = [rows EXCEPT ![s] = row]
      BY WriteFits
    <2>2. \A x \in Schedules : unexcused'[x] = 1 => x # s /\ unexcused[x] = 1 /\ rows'[x] = rows[x]
      BY <2>1 DEF SchedInv, SchedTypeOK, ScansAreRecorded
    <2>3. unexcused' \in [Schedules -> 0..1]
      BY <2>1 DEF SchedInv, ScansAreRecorded
    <2>. QED
      BY <1>1, <2>2, <2>3 DEF SchedInv, ScansAreRecorded, Current, Present
  <1>5. QuietIsOver'
    BY <1>1, WriteFits DEF SchedInv, QuietIsOver
  <1>. QED
    BY <1>2, <1>3, <1>4, <1>5 DEF SchedInv

LEMMA HandlersInv ==
    ASSUME SchedInv, NEW s \in Schedules,
           \/ \E c \in Cadences, enabled \in BOOLEAN : CreateSchedule(s, c, enabled)
           \/ \E c \in Cadences, enabled \in {"true", "false", "omitted"} : UpdateSchedule(s, c, enabled)
           \/ DeleteSchedule(s)
    PROVE  SchedInv'
  <1>1. ASSUME NEW c \in Cadences, NEW enabled \in BOOLEAN, CreateSchedule(s, c, enabled)
        PROVE  SchedInv'
    <2>. DEFINE row == [enabled |-> enabled, cadence |-> c, next |-> ScheduleNextRun(c, enabled)]
    <2>1. row \in Row
      BY DEF Row, Stored, ScheduleNextRun
    <2>2. Write(s, row) /\ UNCHANGED <<ticker, admitted, faults>>
      BY <1>1 DEF CreateSchedule
    <2>. HIDE DEF row
    <2>. QED
      BY <2>1, <2>2, HandlerInv
  <1>2. ASSUME NEW c \in Cadences, NEW enabled \in {"true", "false", "omitted"}, UpdateSchedule(s, c, enabled)
        PROVE  SchedInv'
    <2>1. Updated(s, c, c, enabled) \in Row
      <3>1. rows[s] \in Row
        BY <1>2 DEF UpdateSchedule, Present, SchedInv, SchedTypeOK
      <3>. QED
        BY <3>1 DEF Updated, Row, Stored
    <2>2. Write(s, Updated(s, c, c, enabled)) /\ UNCHANGED <<ticker, admitted, faults>>
      BY <1>2 DEF UpdateSchedule
    <2>. QED
      BY <2>1, <2>2, HandlerInv
  <1>3. CASE DeleteSchedule(s)
    BY <1>3, HandlerInv DEF DeleteSchedule
  <1>. QED
    BY <1>1, <1>2, <1>3

\* The rest of the batch, once its head is done with.
LEMMA NextItemFits ==
    ASSUME SchedInv, batch # <<>>, NextItem
    PROVE  /\ batch' \in Seq(Snapshot) /\ Len(batch') <= PerTick
           /\ submitted' = FALSE
           /\ \A i, j \in DOMAIN batch' : batch'[i].id = batch'[j].id => i = j
           /\ \A k \in DOMAIN batch' : batch'[k].id # Current.id /\ k + 1 \in DOMAIN batch /\ batch'[k] = batch[k + 1]
           /\ Current \in Snapshot
  <1>1. batch \in Seq(Snapshot) /\ Len(batch) <= PerTick /\ batch' = Tail(batch) /\ submitted' = FALSE
    BY DEF SchedInv, SchedTypeOK, Snapshot, NextItem
  <1>2. /\ batch' \in Seq(Snapshot) /\ Len(batch') = Len(batch) - 1
        /\ \A k \in 1..Len(batch') : batch'[k] = batch[k + 1]
        /\ Current \in Snapshot /\ Current = batch[1]
    BY <1>1, HeadTailProperties DEF Current
  <1>3. Len(batch) \in Nat /\ DOMAIN batch = 1..Len(batch) /\ DOMAIN batch' = 1..Len(batch') /\ 1 \in DOMAIN batch
    BY <1>1, <1>2
  <1>4. \A k \in DOMAIN batch' : k + 1 \in DOMAIN batch /\ batch'[k] = batch[k + 1] /\ k + 1 # 1
    BY <1>2, <1>3
  <1>5. \A i, j \in DOMAIN batch : batch[i].id = batch[j].id => i = j
    BY DEF SchedInv, BatchFits
  <1>6. \A k \in DOMAIN batch' : batch'[k].id # Current.id
    BY <1>2, <1>3, <1>4, <1>5
  <1>7. \A i, j \in DOMAIN batch' : batch'[i].id = batch'[j].id => i = j
    <2>. SUFFICES ASSUME NEW i \in DOMAIN batch', NEW j \in DOMAIN batch', batch'[i].id = batch'[j].id PROVE i = j
      OBVIOUS
    <2>1. i + 1 = j + 1
      BY <1>4, <1>5
    <2>2. i \in Nat /\ j \in Nat
      BY <1>3
    <2>. QED
      BY <2>1, <2>2
  <1>8. Len(batch') <= PerTick
    BY <1>1, <1>2, <1>3, SchedulerConstants
  <1>. QED
    BY <1>1, <1>2, <1>4, <1>6, <1>7, <1>8

\* The head is done with, no scan is unrecorded, and no schedule is quieter.
LEMMA NextItemInv ==
    ASSUME SchedInv, batch # <<>>, NextItem,
           SchedTypeOK', unexcused' = [s \in Schedules |-> 0],
           quiet' \in [Schedules -> 0..1],
           \A x \in Schedules : quiet'[x] = 1 => quiet[x] = 1,
           \A x \in Present' : rows'[x].enabled => quiet'[x] = 0
    PROVE  SchedInv'
  <1>1. /\ submitted' = FALSE
        /\ \A i, j \in DOMAIN batch' : batch'[i].id = batch'[j].id => i = j
        /\ \A k \in DOMAIN batch' : k + 1 \in DOMAIN batch /\ batch'[k] = batch[k + 1] /\ batch'[k].id # Current.id
    BY NextItemFits
  <1>2. BatchFits'
    BY <1>1 DEF BatchFits
  <1>3. ScansAreRecorded'
    BY <1>1 DEF ScansAreRecorded
  <1>4. ASSUME NEW s \in Schedules, NEW k \in DOMAIN batch', quiet'[s] = 1, batch'[k].id = s
        PROVE  FALSE
    <2>1. k + 1 \in DOMAIN batch /\ batch[k + 1].id = s /\ quiet[s] = 1
      BY <1>1, <1>4
    <2>2. k + 1 = 1 /\ submitted
      BY <2>1 DEF SchedInv, QuietIsOver
    <2>3. batch[1].id = s /\ Current = batch[1]
      BY <2>1, <2>2 DEF Current
    <2>. QED
      BY <1>1, <1>4, <2>3
  <1>5. QuietIsOver'
    BY <1>4 DEF QuietIsOver
  <1>. QED
    BY <1>2, <1>3, <1>5 DEF SchedInv
\* The clock and the admission touch neither rows nor the batch.
LEMMA ClockInv ==
    ASSUME SchedInv,
           \/ \E s \in Schedules : FallsDue(s) \/ RunSchedule(s)
           \/ ScanEnds
    PROVE  SchedInv'
  <1>1. UNCHANGED <<rows, batch, submitted, faults, unexcused, quiet>>
    BY DEF FallsDue, RunSchedule, ScanEnds, ticker, history
  <1>2. admitted' \in 0..ScanLimit
    BY SchedulerConstants DEF FallsDue, RunSchedule, ScanEnds, SchedInv, SchedTypeOK
  <1>3. due' \in Seq(Schedules) /\ IsInjective(due') /\ ToSet(due') \subseteq DueSchedules
    <2>1. CASE due' = due
      BY <2>1 DEF SchedInv, SchedTypeOK
    <2>2. ASSUME NEW s \in Schedules, FallsDue(s)
          PROVE  due' \in Seq(Schedules) /\ IsInjective(due') /\ ToSet(due') \subseteq DueSchedules
      <3>1. due \in Seq(Schedules) /\ IsInjective(due) /\ ToSet(due) \subseteq DueSchedules
            /\ due' = Append(due, s) /\ s \in DueSchedules /\ s \notin ToSet(due)
        BY <2>2 DEF FallsDue, SchedInv, SchedTypeOK
      <3>2. /\ due' \in Seq(Schedules) /\ Len(due') = Len(due) + 1
            /\ \A i \in 1..Len(due) : due'[i] = due[i]
            /\ due'[Len(due) + 1] = s
        BY <3>1, AppendProperties
      <3>3. Len(due) \in Nat /\ DOMAIN due = 1..Len(due) /\ DOMAIN due' = 1..(Len(due) + 1)
        BY <3>1, <3>2
      <3>4. \A i \in DOMAIN due' : (i \in DOMAIN due /\ due'[i] = due[i]) \/ (i = Len(due) + 1 /\ due'[i] = s)
        BY <3>2, <3>3
      <3>5. \A i \in DOMAIN due : due[i] \in ToSet(due)
        BY DEF ToSet
      <3>6. IsInjective(due')
        BY <3>1, <3>4, <3>5 DEF IsInjective
      <3>7. ToSet(due') \subseteq DueSchedules
        BY <3>1, <3>4, <3>5 DEF ToSet
      <3>. QED
        BY <3>2, <3>6, <3>7
    <2>. QED
      BY <2>1, <2>2 DEF RunSchedule, ScanEnds
  <1>4. Present' = Present /\ DueSchedules' = DueSchedules /\ Current' = Current
    BY <1>1 DEF Present, DueSchedules, Current
  <1>5. SchedTypeOK'
    BY <1>1, <1>2, <1>3, <1>4 DEF SchedInv, SchedTypeOK
  <1>. QED
    BY <1>1, <1>4, <1>5 DEF SchedInv, BatchFits, ScansAreRecorded, QuietIsOver

\* The batch of a tick is taken from enabled rows.
LEMMA TickInv ==
    ASSUME SchedInv, Tick
    PROVE  SchedInv'
  <1>. DEFINE cap == CapDueSchedules(due)
  <1>1. /\ batch = <<>> /\ submitted = FALSE
        /\ batch' = [i \in DOMAIN cap |-> [id |-> cap[i], cadence |-> rows[cap[i]].cadence]]
        /\ UNCHANGED <<rows, due, submitted, admitted, faults, unexcused, quiet>>
    BY DEF Tick, history, SchedInv, SchedTypeOK
  <1>2. /\ due \in Seq(Schedules) /\ IsInjective(due) /\ ToSet(due) \subseteq DueSchedules
    BY DEF SchedInv, SchedTypeOK
  <1>3. PICK n \in Nat : n <= PerTick /\ n <= Len(due) /\ cap = SubSeq(due, 1, n)
    <2>1. Len(due) \in Nat /\ PerTick \in Nat
      BY <1>2, SchedulerConstants
    <2>. QED
      BY <2>1 DEF CapDueSchedules
  <1>4. Len(cap) = n /\ DOMAIN cap = 1..n /\ \A i \in 1..n : i \in DOMAIN due /\ cap[i] = due[i]
    BY <1>2, <1>3
  <1>. HIDE DEF cap
  <1>5. \A i \in 1..n : cap[i] \in DueSchedules
    BY <1>2, <1>4 DEF ToSet
  <1>6. \A i \in 1..n : cap[i] \in Schedules /\ rows[cap[i]] \in Row /\ rows[cap[i]].enabled
    BY <1>5 DEF DueSchedules, Present, SchedInv, SchedTypeOK
  <1>7. /\ batch' = [i \in 1..n |-> [id |-> cap[i], cadence |-> rows[cap[i]].cadence]]
        /\ \A i \in 1..n : [id |-> cap[i], cadence |-> rows[cap[i]].cadence] \in Snapshot
    BY <1>1, <1>4, <1>6 DEF Row, Snapshot
  <1>8. batch' \in Seq(Snapshot) /\ Len(batch') = n /\ DOMAIN batch' = 1..n /\ \A i \in 1..n : batch'[i].id = cap[i]
    BY <1>7
  <1>9. SchedTypeOK'
    BY <1>1, <1>3, <1>8 DEF SchedInv, SchedTypeOK, Snapshot, DueSchedules, Present
  <1>10. BatchFits'
    BY <1>1, <1>2, <1>4, <1>8 DEF BatchFits, IsInjective
  <1>11. ScansAreRecorded'
    BY <1>1 DEF SchedInv, ScansAreRecorded
  <1>12. QuietIsOver'
    <2>1. \A i \in 1..n : quiet[cap[i]] = 0
      BY <1>6, <1>5 DEF SchedInv, QuietIsOver, Present, DueSchedules
    <2>. QED
      BY <1>1, <1>8, <2>1 DEF SchedInv, QuietIsOver, Present
  <1>. QED
    BY <1>9, <1>10, <1>11, <1>12 DEF SchedInv

\* What is known of the head while it is dispatched.
LEMMA HeadFits ==
    ASSUME SchedInv, batch # <<>>
    PROVE  /\ Current \in Snapshot /\ 1 \in DOMAIN batch /\ Current = batch[1]
           /\ \A k \in DOMAIN batch : batch[k].id = Current.id => k = 1
           /\ ~submitted => unexcused = [s \in Schedules |-> 0] /\ quiet[Current.id] = 0
  <1>1. batch \in Seq(Snapshot)
    BY DEF SchedInv, SchedTypeOK, Snapshot
  <1>2. Current \in Snapshot /\ 1 \in DOMAIN batch /\ Current = batch[1]
    BY <1>1 DEF Current
  <1>3. \A k \in DOMAIN batch : batch[k].id = Current.id => k = 1
    BY <1>2 DEF SchedInv, BatchFits
  <1>4. ~submitted => unexcused = [s \in Schedules |-> 0]
    BY DEF SchedInv, ScansAreRecorded
  <1>5. ~submitted => quiet[Current.id] = 0
    <2>1. Current.id \in Schedules
      BY <1>2 DEF Snapshot
    <2>2. quiet[Current.id] \in 0..1
      BY <2>1 DEF SchedInv, QuietIsOver
    <2>3. quiet[Current.id] = 1 => submitted
      BY <1>2, <2>1 DEF SchedInv, QuietIsOver
    <2>. QED
      BY <2>2, <2>3
  <1>. QED
    BY <1>2, <1>3, <1>4, <1>5

\* The head is dropped with its row written, or with nothing written.
LEMMA DropInv ==
    ASSUME SchedInv, batch # <<>>, NextItem, faults' \in 0..MaxFaults, admitted' = admitted,
           \/ \E row \in Row \cup {NoRow} : Write(Current.id, row)
           \/ rows' = rows /\ due' = due /\ quiet' = quiet,
           unexcused' = [s \in Schedules |-> 0]
    PROVE  SchedInv'
  <1>1. /\ batch' \in Seq(Snapshot) /\ Len(batch') <= PerTick /\ submitted' = FALSE /\ Current \in Snapshot
    BY NextItemFits
  <1>2. /\ rows' \in [Schedules -> Row \cup {NoRow}]
        /\ due' \in Seq(Schedules) /\ IsInjective(due') /\ ToSet(due') \subseteq DueSchedules'
        /\ quiet' \in [Schedules -> 0..1]
        /\ \A x \in Schedules : quiet'[x] = 1 => quiet[x] = 1
        /\ \A x \in Present' : rows'[x].enabled => quiet'[x] = 0
    <2>1. CASE \E row \in Row \cup {NoRow} : Write(Current.id, row)
      <3>1. PICK row \in Row \cup {NoRow} : Write(Current.id, row)
        BY <2>1
      <3>2. Current.id \in Schedules
        BY <1>1 DEF Snapshot
      <3>. QED
        BY <3>1, <3>2, WriteFits
    <2>2. CASE rows' = rows /\ due' = due /\ quiet' = quiet
      BY <2>2 DEF SchedInv, SchedTypeOK, QuietIsOver, Present, DueSchedules
    <2>. QED
      BY <2>1, <2>2
  <1>3. SchedTypeOK'
    BY <1>1, <1>2 DEF SchedInv, SchedTypeOK, Snapshot
  <1>. QED
    BY <1>2, <1>3, NextItemInv

\* A write of the head's row leaves no scan without a record.
LEMMA WriteRecords ==
    ASSUME SchedInv, batch # <<>>, NEW row \in Row \cup {NoRow}, Write(Current.id, row)
    PROVE  unexcused' = [s \in Schedules |-> 0]
  <1>1. Current.id \in Schedules
    BY HeadFits DEF Snapshot
  <1>2. unexcused' = [unexcused EXCEPT ![Current.id] = 0]
    BY DEF Write
  <1>3. unexcused \in [Schedules -> 0..1] /\ \A s \in Schedules : unexcused[s] = 1 => s = Current.id
    BY DEF SchedInv, ScansAreRecorded
  <1>4. \A s \in Schedules : s # Current.id => unexcused[s] = 0
    BY <1>3
  <1>. QED
    BY <1>1, <1>2, <1>3, <1>4

LEMMA FaultsFit ==
    ASSUME SchedInv, (faults' = faults) \/ StatementFails
    PROVE  faults' \in 0..MaxFaults
  BY SchedulerConstants DEF StatementFails, SchedInv, SchedTypeOK

LEMMA DisableInv ==
    ASSUME SchedInv, DisableBroken
    PROVE  SchedInv'
  <1>1. batch # <<>> /\ NextItem /\ admitted' = admitted /\ Current.cadence = BadCadence
    BY DEF DisableBroken
  <1>2. ~submitted
    BY <1>1 DEF SchedInv, BatchFits
  <1>3. faults' \in 0..MaxFaults
    BY FaultsFit DEF DisableBroken
  <1>4. CASE Current.id \in Present /\ Write(Current.id, Updated(Current.id, BadCadence, NoTime, "false"))
    <2>1. Updated(Current.id, BadCadence, NoTime, "false") \in Row
      BY DEF Updated, Row, Stored
    <2>. QED
      BY <1>1, <1>3, <1>4, <2>1, WriteRecords, DropInv
  <1>5. CASE UNCHANGED <<rows, due, history>>
    <2>1. unexcused' = [s \in Schedules |-> 0]
      BY <1>1, <1>2, <1>5, HeadFits DEF history
    <2>. QED
      BY <1>1, <1>3, <1>5, <2>1, DropInv DEF history
  <1>. QED
    BY <1>4, <1>5 DEF DisableBroken

LEMMA RecordInv ==
    ASSUME SchedInv, RecordScheduleRun
    PROVE  SchedInv'
  <1>1. batch # <<>> /\ NextItem /\ admitted' = admitted /\ faults' \in 0..MaxFaults /\ submitted
    BY DEF RecordScheduleRun, SchedInv, SchedTypeOK
  <1>2. Current \in Snapshot
    BY <1>1, HeadFits
  <1>3. CASE Current.id \in Present
    <2>. DEFINE row == [rows[Current.id] EXCEPT !.next = Current.cadence]
    <2>1. rows[Current.id] \in Row
      BY <1>3 DEF Present, SchedInv, SchedTypeOK
    <2>2. row \in Row
      BY <1>2, <2>1 DEF Row, Snapshot
    <2>3. Write(Current.id, row)
      BY <1>3 DEF RecordScheduleRun
    <2>. HIDE DEF row
    <2>. QED
      BY <1>1, <2>2, <2>3, WriteRecords, DropInv
  <1>4. CASE Current.id \notin Present
    <2>1. UNCHANGED <<rows, due, quiet, unexcused>>
      BY <1>4 DEF RecordScheduleRun, history
    <2>2. unexcused' = [s \in Schedules |-> 0]
      <3>1. unexcused \in [Schedules -> 0..1] /\ \A s \in Schedules : unexcused[s] # 1
        BY <1>4 DEF SchedInv, ScansAreRecorded
      <3>2. \A s \in Schedules : unexcused[s] = 0
        BY <3>1
      <3>. QED
        BY <2>1, <3>1, <3>2
    <2>. QED
      BY <1>1, <2>1, <2>2, DropInv
  <1>. QED
    BY <1>3, <1>4

\* The excuse of a scan whose record is lost.
LEMMA ExcuseAll ==
    ASSUME SchedInv, batch # <<>>, Excuse
    PROVE  unexcused' = [s \in Schedules |-> 0]
  <1>1. Current.id \in Schedules
    BY HeadFits DEF Snapshot
  <1>2. unexcused \in [Schedules -> 0..1] /\ \A s \in Schedules : unexcused[s] = 1 => s = Current.id
    BY DEF SchedInv, ScansAreRecorded
  <1>3. unexcused' = [unexcused EXCEPT ![Current.id] = IF unexcused[Current.id] > 0 THEN unexcused[Current.id] - 1 ELSE 0]
    BY DEF Excuse
  <1>4. \A s \in Schedules : unexcused'[s] = 0
    BY <1>1, <1>2, <1>3
  <1>. QED
    BY <1>2, <1>3, <1>4

LEMMA LostInv ==
    ASSUME SchedInv, RecordFails \/ SubmitRefused
    PROVE  SchedInv'
  <1>1. batch # <<>> /\ NextItem /\ admitted' = admitted /\ rows' = rows /\ due' = due /\ quiet' = quiet
    BY DEF RecordFails, SubmitRefused, Dispatching, history
  <1>2. faults' \in 0..MaxFaults
    BY FaultsFit DEF RecordFails, SubmitRefused
  <1>3. unexcused' = [s \in Schedules |-> 0]
    <2>1. CASE RecordFails
      BY <1>1, <2>1, ExcuseAll DEF RecordFails
    <2>2. CASE SubmitRefused
      BY <1>1, <2>2, HeadFits DEF SubmitRefused, Dispatching, history
    <2>. QED
      BY <2>1, <2>2
  <1>. QED
    BY <1>1, <1>2, <1>3, DropInv

LEMMA SubmitInv ==
    ASSUME SchedInv, Submit \/ SubmitFails
    PROVE  SchedInv'
  <1>1. /\ batch # <<>> /\ ~submitted /\ Current.cadence # BadCadence
        /\ submitted' = TRUE /\ rows' = rows /\ due' = due /\ batch' = batch
    BY DEF Submit, SubmitFails, Dispatching
  <1>2. /\ Current \in Snapshot /\ Current.id \in Schedules
        /\ \A k \in DOMAIN batch : batch[k].id = Current.id => k = 1
        /\ unexcused = [s \in Schedules |-> 0] /\ quiet[Current.id] = 0
    BY <1>1, HeadFits DEF Snapshot
  <1>3. /\ Current' = Current /\ Present' = Present /\ DueSchedules' = DueSchedules
    BY <1>1 DEF Current, Present, DueSchedules
  <1>4. faults' \in 0..MaxFaults /\ admitted' \in 0..ScanLimit
    <2>1. faults' \in 0..MaxFaults
      BY FaultsFit DEF Submit, SubmitFails
    <2>2. admitted' \in 0..ScanLimit
      BY SchedulerConstants DEF Submit, SubmitFails, SchedInv, SchedTypeOK
    <2>. QED
      BY <2>1, <2>2
  <1>5. SchedTypeOK'
    BY <1>1, <1>3, <1>4 DEF SchedInv, SchedTypeOK
  <1>6. BatchFits'
    BY <1>1, <1>3 DEF SchedInv, BatchFits
  <1>7. CASE Submit
    <2>1. /\ Current.id \in Present
          /\ unexcused' = [unexcused EXCEPT ![Current.id] = @ + 1]
          /\ quiet' = [quiet EXCEPT ![Current.id] = IF rows[Current.id].enabled THEN 0 ELSE @ + 1]
      BY <1>7 DEF Submit
    <2>2. /\ unexcused' \in [Schedules -> 0..1]
          /\ \A s \in Schedules : unexcused'[s] = 1 => s = Current.id
      BY <1>2, <2>1
    <2>3. ScansAreRecorded'
      BY <1>1, <1>3, <2>1, <2>2 DEF ScansAreRecorded
    <2>4. /\ quiet \in [Schedules -> 0..1]
          /\ \A s \in Present : rows[s].enabled => quiet[s] = 0
          /\ \A s \in Schedules, k \in DOMAIN batch : quiet[s] = 1 => batch[k].id # s
      BY <1>1 DEF SchedInv, QuietIsOver
    <2>5. /\ quiet' \in [Schedules -> 0..1]
          /\ \A s \in Schedules \ {Current.id} : quiet'[s] = quiet[s]
          /\ rows[Current.id].enabled => quiet'[Current.id] = 0
      BY <1>2, <2>1, <2>4
    <2>6. \A s \in Present : rows[s].enabled => quiet'[s] = 0
      BY <2>4, <2>5 DEF Present
    <2>7. \A s \in Schedules, k \in DOMAIN batch : quiet'[s] = 1 /\ batch[k].id = s => k = 1
      BY <1>2, <2>4, <2>5
    <2>8. QuietIsOver'
      BY <1>1, <1>3, <2>5, <2>6, <2>7 DEF QuietIsOver
    <2>. QED
      BY <1>5, <1>6, <2>3, <2>8 DEF SchedInv
  <1>8. CASE SubmitFails
    <2>1. unexcused' = unexcused /\ quiet' = quiet
      BY <1>8 DEF SubmitFails, history
    <2>2. ScansAreRecorded'
      <3>1. 0 # 1
        OBVIOUS
      <3>. QED
        BY <1>2, <2>1, <3>1 DEF ScansAreRecorded, SchedInv
    <2>3. QuietIsOver'
      BY <1>1, <1>3, <2>1 DEF SchedInv, QuietIsOver
    <2>. QED
      BY <1>5, <1>6, <2>2, <2>3 DEF SchedInv
  <1>. QED
    BY <1>7, <1>8

LEMMA CrashInv ==
    ASSUME SchedInv, CrashRestart
    PROVE  SchedInv'
  <1>1. /\ batch' = <<>> /\ submitted' = FALSE /\ admitted' = 0
        /\ rows' = rows /\ due' = due /\ quiet' = quiet
    BY DEF CrashRestart
  <1>2. faults' \in 0..MaxFaults
    BY FaultsFit DEF CrashRestart
  <1>3. unexcused' = [s \in Schedules |-> 0]
    <2>1. CASE submitted
      <3>1. batch # <<>> /\ Excuse
        BY <2>1 DEF CrashRestart, SchedInv, SchedTypeOK
      <3>. QED
        BY <3>1, ExcuseAll
    <2>2. CASE ~submitted
      BY <2>2 DEF CrashRestart, SchedInv, ScansAreRecorded
    <2>. QED
      BY <2>1, <2>2
  <1>4. batch' \in Seq(Snapshot) /\ Len(batch') <= PerTick /\ DOMAIN batch' = {} /\ 0 \in 0..ScanLimit
    BY <1>1, SchedulerConstants
  <1>5. SchedTypeOK'
    BY <1>1, <1>2, <1>4 DEF SchedInv, SchedTypeOK, Snapshot, DueSchedules, Present
  <1>6. BatchFits' /\ QuietIsOver'
    BY <1>1, <1>4 DEF SchedInv, BatchFits, QuietIsOver, Present
  <1>7. ScansAreRecorded'
    <2>1. 0 # 1
      OBVIOUS
    <2>. QED
      BY <1>3, <2>1 DEF ScansAreRecorded
  <1>. QED
    BY <1>5, <1>6, <1>7 DEF SchedInv

LEMMA SchedStepInv == SchedInv /\ [SchedNext]_schedVars => SchedInv'
  <1>. SUFFICES ASSUME SchedInv, [SchedNext]_schedVars PROVE SchedInv'
    OBVIOUS
  <1>1. CASE \E s \in Schedules :
               \/ \E c \in Cadences, enabled \in BOOLEAN : CreateSchedule(s, c, enabled)
               \/ \E c \in Cadences, enabled \in {"true", "false", "omitted"} : UpdateSchedule(s, c, enabled)
               \/ DeleteSchedule(s)
    BY <1>1, HandlersInv
  <1>2. CASE (\E s \in Schedules : FallsDue(s) \/ RunSchedule(s)) \/ ScanEnds
    BY <1>2, ClockInv
  <1>3. CASE Tick
    BY <1>3, TickInv
  <1>4. CASE Dispatch
    BY <1>4, DisableInv, SubmitInv, RecordInv, LostInv DEF Dispatch
  <1>5. CASE CrashRestart
    BY <1>5, CrashInv
  <1>6. CASE UNCHANGED schedVars
    BY <1>6 DEF schedVars, SchedInv, SchedTypeOK, BatchFits, ScansAreRecorded, QuietIsOver, DueSchedules, Present, Current
  <1>. QED
    BY <1>1, <1>2, <1>3, <1>4, <1>5, <1>6 DEF SchedNext

\* What is due is dispatched once per next_run_at, and a disabled schedule at
\* most once more (Scheduler.tick, RecordScheduleRun).
THEOREM FiresStayExact == SchedSpec => []FiresAreExact
  <1>1. SchedInv => FiresAreExact
    <2>. SUFFICES ASSUME SchedInv PROVE FiresAreExact
      OBVIOUS
    <2>1. \A s \in Schedules : unexcused[s] \in 0..1 /\ quiet[s] \in 0..1
      BY DEF SchedInv, ScansAreRecorded, QuietIsOver
    <2>2. OneScanPerFire /\ DisabledStaysQuiet
      BY <2>1 DEF OneScanPerFire, DisabledStaysQuiet
    <2>. QED
      BY <2>2 DEF SchedInv, FiresAreExact
  <1>. QED
    BY <1>1, SchedInitInv, SchedStepInv, PTL DEF SchedSpec
-----------------------------------------------------------------------------
(* The client of a login                                                   *)

\* A request is charged to the client it came from: the proxies' hops are
\* passed over, and what the client wrote itself stands behind its address.
LEMMA ClientIsCharged ==
    ASSUME NEW c \in Clients, NEW a \in Arrivals(c)
    PROVE  ClientKey(a[1], a[2]) = c
  <1>. DEFINE own == {<<>>} \cup {<<x>> : x \in Keys \cup {Junk}}
  <1>1. Clients \cap Proxies = {} /\ MaxHops \in Nat /\ MaxHops > 1
    BY AdmissionConstants
  <1>2. CASE a[1] = c
    BY <1>1, <1>2 DEF ClientKey
  <1>3. ASSUME NEW p \in Proxies, NEW hops, a[1] = p, a[2] = hops, ForwardedClientIP(hops) = {c}
        PROVE  ClientKey(a[1], a[2]) = c
    BY <1>3 DEF ClientKey
  <1>4. ASSUME NEW p \in Proxies, NEW o \in own, a = <<p, Append(o, c)>>
        PROVE  ClientKey(a[1], a[2]) = c
    <2>. DEFINE hops == Append(o, c)
    <2>1. CASE o = <<>>
      <3>1. hops = <<c>>
        BY <2>1
      <3>2. Len(hops) = 1 /\ hops[1] = c
        BY <3>1
      <3>3. \A k : k \in 1..1 <=> k = 1
        OBVIOUS
      <3>. HIDE DEF hops
      <3>4. ForwardedClientIP(hops) = {c}
        BY <1>1, <3>2, <3>3 DEF ForwardedClientIP
      <3>. QED
        BY <1>3, <1>4, <3>4 DEF hops
    <2>2. ASSUME NEW x, o = <<x>> PROVE ClientKey(a[1], a[2]) = c
      <3>. PICK X : x \in X /\ c \in X
        <4>. WITNESS {x, c}
        <4>. QED
          OBVIOUS
      <3>1. o \in Seq(X) /\ Len(o) = 1
        BY <2>2
      <3>2. Len(hops) = 2 /\ hops[2] = c
        <4>1. 1 + 1 = 2
          OBVIOUS
        <4>2. Len(Append(o, c)) = Len(o) + 1 /\ Append(o, c)[Len(o) + 1] = c
          BY <3>1, AppendProperties
        <4>3. hops = Append(o, c)
          OBVIOUS
        <4>. HIDE DEF hops
        <4>. QED
          BY <3>1, <4>1, <4>2, <4>3
      <3>3. \A k : k \in 1..2 <=> k = 1 \/ k = 2
        OBVIOUS
      <3>. HIDE DEF hops
      <3>4. ForwardedClientIP(hops) = {c}
        BY <1>1, <3>2, <3>3 DEF ForwardedClientIP
      <3>. QED
        BY <1>3, <1>4, <3>4 DEF hops
    <2>. QED
      BY <2>1, <2>2
  <1>5. ASSUME NEW p \in Proxies, NEW q \in Proxies, NEW o \in own, a = <<p, o \o <<c, q>>>>
        PROVE  ClientKey(a[1], a[2]) = c
    <2>. DEFINE hops == o \o <<c, q>>
    <2>0. q \notin Clients
      BY <1>1
    <2>1. CASE o = <<>>
      <3>1. hops = <<c, q>>
        BY <2>1
      <3>2. Len(hops) = 2 /\ hops[1] = c /\ hops[2] = q
        BY <3>1
      <3>3. \A k : k \in 1..2 <=> k = 1 \/ k = 2
        OBVIOUS
      <3>. HIDE DEF hops
      <3>4. ForwardedClientIP(hops) = {c}
        BY <1>1, <2>0, <3>2, <3>3 DEF ForwardedClientIP
      <3>. QED
        BY <1>3, <1>5, <3>4 DEF hops
    <2>2. ASSUME NEW x, o = <<x>> PROVE ClientKey(a[1], a[2]) = c
      <3>1. /\ o \in Seq({x, c, q}) /\ Len(o) = 1
            /\ <<c, q>> \in Seq({x, c, q}) /\ Len(<<c, q>>) = 2 /\ <<c, q>>[1] = c /\ <<c, q>>[2] = q
        BY <2>2
      <3>2. Len(hops) = 3 /\ hops[2] = c /\ hops[3] = q
        <4>1. /\ Len(hops) = Len(o) + Len(<<c, q>>)
              /\ \A i \in 1..(Len(o) + Len(<<c, q>>)) : hops[i] = IF i <= Len(o) THEN o[i] ELSE <<c, q>>[i - Len(o)]
          BY <3>1, ConcatProperties
        <4>2. Len(hops) = 3 /\ \A i \in 1..3 : hops[i] = IF i <= 1 THEN o[i] ELSE <<c, q>>[i - 1]
          <5>. HIDE DEF hops
          <5>. QED
            BY <3>1, <4>1
        <4>3. 2 \in 1..3 /\ 3 \in 1..3 /\ ~(2 <= 1) /\ ~(3 <= 1) /\ 2 - 1 = 1 /\ 3 - 1 = 2
          OBVIOUS
        <4>. HIDE DEF hops
        <4>. QED
          BY <3>1, <4>2, <4>3
      <3>3. \A k : k \in 1..3 <=> k = 1 \/ k = 2 \/ k = 3
        OBVIOUS
      <3>. HIDE DEF hops
      <3>4. ForwardedClientIP(hops) = {c}
        BY <1>1, <2>0, <3>2, <3>3 DEF ForwardedClientIP
      <3>. QED
        BY <1>3, <1>5, <3>4 DEF hops
    <2>. QED
      BY <2>1, <2>2
  <1>6. \/ a \in {c} \X own
        \/ \E p \in Proxies, o \in own : a = <<p, Append(o, c)>>
        \/ \E p \in Proxies, q \in Proxies, o \in own : a = <<p, o \o <<c, q>>>>
    <2>. DEFINE one == {<<p, Append(o, c)>> : p \in Proxies, o \in own}
                Cat(o, q) == o \o <<c, q>>
                two == {<<p, Cat(o, q)>> : p \in Proxies, q \in Proxies, o \in own}
    <2>1. Arrivals(c) = ({c} \X own) \cup one \cup two
      BY DEF Arrivals
    <2>. HIDE DEF own
    <2>2. a \in one => \E p \in Proxies, o \in own : a = <<p, Append(o, c)>>
      OBVIOUS
    <2>3. a \in two => \E p \in Proxies, q \in Proxies, o \in own : a = <<p, o \o <<c, q>>>>
      <3>. HIDE DEF Cat
      <3>1. a \in two => \E p \in Proxies, q \in Proxies, o \in own : a = <<p, Cat(o, q)>>
        OBVIOUS
      <3>. HIDE DEF two
      <3>. QED
        BY <3>1 DEF Cat
    <2>. HIDE DEF one, two
    <2>4. a \in ({c} \X own) \/ a \in one \/ a \in two
      BY <2>1
    <2>. QED
      BY <2>2, <2>3, <2>4
  <1>7. a \in {c} \X own => a[1] = c
    <2>. HIDE DEF own
    <2>. QED
      OBVIOUS
  <1>. QED
    BY <1>2, <1>4, <1>5, <1>6, <1>7

-----------------------------------------------------------------------------
(* The table of buckets                                                    *)

LimiterTypeOK ==
    /\ table \in Seq(Clients) /\ IsInjective(table) /\ Len(table) <= MaxClients
    /\ tokens \in [Keys -> 0..Burst]
    /\ debt \in [Clients -> 0..MaxDebt]
    /\ others \in [Clients -> SUBSET Clients]

\* The table is ordered by the last request: who stands behind a client has come
\* since it came.
LaterAreOthers == \A d \in Clients, x \in Clients : Precedes(table, d, x) => x \in others[d]

\* What a client was let in for is missing in its bucket, and a client without
\* a bucket owes nothing, unless it was crowded out.
BucketsFit ==
    \A d \in Clients \ crowded :
        IF d \in ToSet(table) THEN debt[d] + tokens[d] <= Burst ELSE debt[d] = 0

LimiterInv == LimiterTypeOK /\ LaterAreOthers /\ BucketsFit

\* The table after a request: the client is last, the rest stands as it stood,
\* and who is gone was the stalest of a full table.
LEMMA SeenFits ==
    ASSUME LimiterTypeOK, NEW k \in Clients
    PROVE  /\ Seen(k) \in Seq(Clients) /\ IsInjective(Seen(k)) /\ Len(Seen(k)) <= MaxClients
           /\ k \in ToSet(Seen(k)) /\ ToSet(Seen(k)) \subseteq ToSet(table) \cup {k}
           /\ \A x, y : Precedes(Seen(k), x, y) => x # k /\ (y = k \/ Precedes(table, x, y))
           /\ \A d \in ToSet(table) \ ToSet(Seen(k)) :
                 k \notin ToSet(table) /\ Len(table) = MaxClients /\ d = table[1]
  <1>. DEFINE rest == IF Found(k) THEN RemoveFirst(table, k) ELSE Room(table)
  <1>1. table \in Seq(Clients) /\ IsInjective(table) /\ Len(table) <= MaxClients /\ Len(table) \in Nat
        /\ MaxClients \in Nat /\ MaxClients > 0
    BY AdmissionConstants DEF LimiterTypeOK
  <1>2. Found(k) <=> k \in ToSet(table)
    BY DEF Found, Range, ToSet
  <1>3. /\ rest \in Seq(Clients) /\ IsInjective(rest) /\ Len(rest) < MaxClients /\ Len(rest) \in Nat
        /\ k \notin ToSet(rest) /\ ToSet(rest) \subseteq ToSet(table)
        /\ \A x, y : Precedes(rest, x, y) => Precedes(table, x, y)
        /\ \A d \in ToSet(table) \ ToSet(rest) :
              d = k \/ (k \notin ToSet(table) /\ Len(table) = MaxClients /\ d = table[1])
    <2>1. CASE Found(k)
      <3>1. rest = RemoveFirst(table, k)
        BY <2>1
      <3>. HIDE DEF rest
      <3>2. /\ rest \in Seq(Clients) /\ IsInjective(rest) /\ Len(rest) = Len(table) - 1
            /\ ToSet(rest) = ToSet(table) \ {k}
            /\ \A x, y : Precedes(rest, x, y) => Precedes(table, x, y)
        BY <1>1, <1>2, <2>1, <3>1, RemoveFirstKeepsOrder
      <3>3. Len(rest) \in Nat /\ Len(rest) < MaxClients
        <4>1. Len(rest) \in Nat
          BY <3>2
        <4>. QED
          BY <1>1, <3>2, <4>1
      <3>. QED
        BY <3>2, <3>3
    <2>2. CASE ~Found(k) /\ Len(table) >= MaxClients
      <3>1. rest = Tail(table) /\ table # <<>> /\ Len(table) = MaxClients
        BY <1>1, <2>2 DEF Room
      <3>. HIDE DEF rest
      <3>2. /\ rest \in Seq(Clients) /\ IsInjective(rest) /\ Len(rest) = Len(table) - 1
            /\ ToSet(rest) = ToSet(table) \ {table[1]}
            /\ \A x, y : Precedes(rest, x, y) => Precedes(table, x, y)
        BY <1>1, <3>1, TailKeepsOrder
      <3>3. Len(rest) \in Nat /\ Len(rest) < MaxClients
        BY <1>1, <3>1, <3>2
      <3>. QED
        BY <1>2, <2>2, <3>1, <3>2, <3>3
    <2>3. CASE ~Found(k) /\ ~(Len(table) >= MaxClients)
      <3>1. rest = table
        BY <2>3 DEF Room
      <3>. HIDE DEF rest
      <3>. QED
        BY <1>1, <1>2, <2>3, <3>1
    <2>. QED
      BY <2>1, <2>2, <2>3
  <1>4. Seen(k) = Append(rest, k)
    BY DEF Seen
  <1>. HIDE DEF rest
  <1>5. /\ Seen(k) \in Seq(Clients) /\ IsInjective(Seen(k)) /\ Len(Seen(k)) = Len(rest) + 1
        /\ ToSet(Seen(k)) = ToSet(rest) \cup {k}
        /\ \A x, y : Precedes(Seen(k), x, y) <=> Precedes(rest, x, y) \/ (x \in ToSet(rest) /\ y = k)
    BY <1>3, <1>4, AppendKeepsOrder
  <1>6. \A x, y : Precedes(rest, x, y) => x \in ToSet(rest)
    BY DEF Precedes, ToSet
  <1>7. Len(Seen(k)) <= MaxClients
    BY <1>1, <1>3, <1>5
  <1>. QED
    BY <1>3, <1>5, <1>6, <1>7

\* The stalest client of a full table has seen as many others as the table has
\* places, once a newcomer takes its place.
LEMMA EvictedIsCrowded ==
    ASSUME LimiterTypeOK, LaterAreOthers, NEW c \in Clients, c \notin ToSet(table),
           Len(table) = MaxClients
    PROVE  Cardinality(others[table[1]] \cup {c}) >= MaxClients
  <1>. DEFINE n == MaxClients
              S == others[table[1]] \cup {c}
              f == [i \in 1..n |-> IF i = n THEN c ELSE table[i + 1]]
  <1>1. /\ n \in Nat /\ n > 0 /\ table \in Seq(Clients) /\ DOMAIN table = 1..n
        /\ \A i, j \in 1..n : table[i] = table[j] => i = j
        /\ \A i \in 1..n : table[i] \in Clients /\ table[i] # c
    <2>1. n \in Nat /\ n > 0
      BY AdmissionConstants
    <2>2. table \in Seq(Clients) /\ DOMAIN table = 1..n /\ Len(table) = n
      BY DEF LimiterTypeOK
    <2>. HIDE DEF n
    <2>3. \A i, j \in 1..n : table[i] = table[j] => i = j
      BY <2>2 DEF LimiterTypeOK, IsInjective
    <2>4. \A i \in 1..n : table[i] \in Clients
      BY <2>2
    <2>5. \A i \in 1..n : table[i] # c
      BY <2>2 DEF ToSet
    <2>. QED
      BY <2>1, <2>2, <2>3, <2>4, <2>5
  <1>. HIDE DEF n
  <1>2. \A i \in 1..n : i # n => i + 1 \in 1..n /\ 1 < i + 1 /\ i \in Nat
    BY <1>1
  <1>3. 1 \in 1..n /\ n \in 1..n
    BY <1>1
  <1>4. f \in [1..n -> S]
    <2>1. ASSUME NEW i \in 1..n, i # n PROVE table[i + 1] \in S
      <3>1. Precedes(table, table[1], table[i + 1])
        BY <1>1, <1>2, <1>3, <2>1 DEF Precedes
      <3>. QED
        BY <1>1, <1>2, <1>3, <2>1, <3>1 DEF LaterAreOthers
    <2>. QED
      BY <2>1
  <1>5. \A i, j \in 1..n : f[i] = f[j] => i = j
    <2>. SUFFICES ASSUME NEW i \in 1..n, NEW j \in 1..n, f[i] = f[j] PROVE i = j
      OBVIOUS
    <2>1. CASE i # n /\ j # n
      <3>1. i + 1 = j + 1 /\ i \in Nat /\ j \in Nat
        BY <1>1, <1>2, <2>1
      <3>. QED
        BY <3>1
    <2>2. CASE i = n /\ j # n
      <3>1. table[j + 1] = c /\ j + 1 \in 1..n
        BY <1>2, <2>2
      <3>. QED
        BY <1>1, <3>1
    <2>3. CASE i # n /\ j = n
      <3>1. table[i + 1] = c /\ i + 1 \in 1..n
        BY <1>2, <2>3
      <3>. QED
        BY <1>1, <3>1
    <2>. QED
      BY <2>1, <2>2, <2>3
  <1>6. f \in Injection(1..n, S)
    <2>. HIDE DEF f, S
    <2>. QED
      BY <1>4, <1>5 DEF Injection, IsInjective
  <1>7. IsFiniteSet(S)
    <2>1. S \subseteq Clients
      BY <1>1, <1>3 DEF LimiterTypeOK
    <2>. HIDE DEF S
    <2>. QED
      BY <2>1, FS_Subset, AdmissionConstants
  <1>8. Cardinality(1..n) = n
    BY <1>1, FS_Interval
  <1>9. Cardinality(1..n) <= Cardinality(S)
    <2>. HIDE DEF f, S
    <2>. QED
      BY <1>6, <1>7, FS_Injection
  <1>10. Cardinality(S) \in Nat
    <2>. HIDE DEF S
    <2>. QED
      BY <1>7, FS_CardinalityType
  <1>. QED
    BY <1>1, <1>8, <1>9, <1>10 DEF n

LEMMA LimiterStarts == AdmissionInit => LimiterInv
  <1>. SUFFICES ASSUME AdmissionInit PROVE LimiterInv
    OBVIOUS
  <1>1. /\ table = <<>> /\ tokens = [k \in Keys |-> 0] /\ debt = [c \in Clients |-> 0]
        /\ others = [c \in Clients |-> {}]
    BY DEF AdmissionInit
  <1>2. MaxClients \in Nat /\ Burst \in Nat /\ MaxDebt \in Nat
    BY AdmissionConstants
  <1>3. /\ table \in Seq(Clients) /\ Len(table) = 0 /\ IsInjective(table)
        /\ ToSet(table) = {} /\ \A x, y : ~Precedes(table, x, y)
    BY <1>1 DEF IsInjective, ToSet, Precedes
  <1>4. LimiterTypeOK
    BY <1>1, <1>2, <1>3 DEF LimiterTypeOK
  <1>5. LaterAreOthers
    BY <1>3 DEF LaterAreOthers
  <1>6. BucketsFit
    BY <1>1, <1>3 DEF BucketsFit
  <1>. QED
    BY <1>4, <1>5, <1>6 DEF LimiterInv

LEMMA RequestInv ==
    ASSUME LimiterInv, NEW c \in Clients, NEW a \in Arrivals(c), Request(c, a[1], a[2])
    PROVE  LimiterInv'
  <1>1. ClientKey(a[1], a[2]) = c
    BY ClientIsCharged
  <1>2. /\ table' = Seen(c)
        /\ tokens' = [x \in Keys |-> IF x = c THEN Budget(c) - (IF Allowed(c) THEN 1 ELSE 0)
                                     ELSE IF x \in Range(table') THEN tokens[x] ELSE 0]
        /\ debt' = [debt EXCEPT ![c] = IF Allowed(c) /\ @ < MaxDebt THEN @ + 1 ELSE @]
        /\ others' = [x \in Clients |-> IF x = c THEN {} ELSE others[x] \cup {c}]
        /\ crowded' = (crowded \ {x \in Clients : debt'[x] = 0})
                        \cup {x \in Clients : Cardinality(others'[x]) >= MaxClients}
    BY <1>1 DEF Request
  <1>3. LimiterTypeOK /\ LaterAreOthers /\ BucketsFit
    BY DEF LimiterInv
  <1>4. /\ table' \in Seq(Clients) /\ IsInjective(table') /\ Len(table') <= MaxClients
        /\ c \in ToSet(table') /\ ToSet(table') \subseteq ToSet(table) \cup {c}
        /\ \A x, y : Precedes(table', x, y) => x # c /\ (y = c \/ Precedes(table, x, y))
        /\ \A d \in ToSet(table) \ ToSet(table') :
              c \notin ToSet(table) /\ Len(table) = MaxClients /\ d = table[1]
    BY <1>2, <1>3, SeenFits
  <1>5. /\ Burst \in Nat /\ Burst > 0 /\ MaxDebt \in Nat /\ c \in Keys
        /\ \A d \in Clients : d \in Keys
    BY AdmissionConstants DEF Keys
  <1>6. /\ \A x \in Keys : tokens[x] \in 0..Burst
        /\ \A x \in Clients : debt[x] \in 0..MaxDebt /\ others[x] \subseteq Clients
    BY <1>3 DEF LimiterTypeOK
  <1>7. /\ Budget(c) \in 0..Burst /\ (Allowed(c) <=> Budget(c) > 0)
        /\ c \in ToSet(table) => Budget(c) = tokens[c]
        /\ c \notin ToSet(table) => Budget(c) = Burst
    BY <1>5, <1>6 DEF Budget, Allowed, Found, Range, ToSet
  <1>. HIDE DEF Budget, Allowed
  <1>8. /\ tokens'[c] = Budget(c) - (IF Allowed(c) THEN 1 ELSE 0)
        /\ \A x \in Clients : x # c /\ x \in ToSet(table') => tokens'[x] = tokens[x]
    BY <1>2, <1>5 DEF Range, ToSet
  <1>9. tokens' \in [Keys -> 0..Burst]
    BY <1>2, <1>5, <1>6, <1>7
  <1>10. /\ debt' \in [Clients -> 0..MaxDebt]
         /\ debt'[c] <= debt[c] + (IF Allowed(c) THEN 1 ELSE 0)
         /\ \A x \in Clients : x # c => debt'[x] = debt[x]
    <2>1. debt \in [Clients -> 0..MaxDebt]
      BY <1>3 DEF LimiterTypeOK
    <2>. QED
      BY <1>2, <1>5, <1>6, <2>1
  <1>11. /\ others' \in [Clients -> SUBSET Clients]
         /\ \A x \in Clients : x # c => others'[x] = others[x] \cup {c}
    BY <1>2, <1>6
  <1>12. \A d \in Clients \ crowded' :
            /\ d \in crowded => debt'[d] = 0
            /\ ~(Cardinality(others'[d]) >= MaxClients)
    BY <1>2
  <1>13. LimiterTypeOK'
    BY <1>4, <1>9, <1>10, <1>11 DEF LimiterTypeOK
  <1>14. LaterAreOthers'
    <2>. SUFFICES ASSUME NEW d \in Clients, NEW x \in Clients, Precedes(table', d, x)
                  PROVE  x \in others'[d]
      BY DEF LaterAreOthers
    <2>1. d # c /\ (x = c \/ Precedes(table, d, x))
      BY <1>4
    <2>2. x = c \/ x \in others[d]
      BY <1>3, <2>1 DEF LaterAreOthers
    <2>. QED
      BY <1>11, <2>1, <2>2
  <1>15. BucketsFit'
    <2>. SUFFICES ASSUME NEW d \in Clients \ crowded'
                  PROVE  IF d \in ToSet(table') THEN debt'[d] + tokens'[d] <= Burst ELSE debt'[d] = 0
      BY DEF BucketsFit
    <2>1. d \in Clients /\ d \notin crowded' /\ debt[d] \in 0..MaxDebt /\ tokens[d] \in 0..Burst
          /\ debt'[d] \in 0..MaxDebt /\ tokens'[d] \in 0..Burst
      BY <1>5, <1>6, <1>9, <1>10
    <2>2. d \in crowded => debt'[d] = 0
      BY <1>12
    <2>3. d \notin crowded => IF d \in ToSet(table) THEN debt[d] + tokens[d] <= Burst ELSE debt[d] = 0
      BY <1>3 DEF BucketsFit
    <2>4. CASE d \in crowded
      BY <1>5, <2>1, <2>2, <2>4
    <2>5. CASE d \notin crowded /\ d = c
      <3>1. CASE c \in ToSet(table)
        BY <1>4, <1>5, <1>7, <1>8, <1>10, <2>1, <2>3, <2>5, <3>1
      <3>2. CASE c \notin ToSet(table)
        BY <1>4, <1>5, <1>7, <1>8, <1>10, <2>1, <2>3, <2>5, <3>2
      <3>. QED
        BY <3>1, <3>2
    <2>6. CASE d \notin crowded /\ d # c /\ d \in ToSet(table')
      BY <1>4, <1>8, <1>10, <2>3, <2>6
    <2>7. CASE d \notin crowded /\ d # c /\ d \notin ToSet(table')
      <3>1. d \notin ToSet(table)
        <4>. SUFFICES ASSUME d \in ToSet(table) PROVE FALSE
          OBVIOUS
        <4>1. c \notin ToSet(table) /\ Len(table) = MaxClients /\ d = table[1]
          BY <1>4, <2>7
        <4>2. Cardinality(others[table[1]] \cup {c}) >= MaxClients
          BY <1>3, <4>1, EvictedIsCrowded
        <4>3. others'[d] = others[table[1]] \cup {c}
          BY <1>11, <2>7, <4>1
        <4>. QED
          BY <1>12, <4>2, <4>3
      <3>. QED
        BY <1>10, <2>3, <2>7, <3>1
    <2>. QED
      BY <2>4, <2>5, <2>6, <2>7
  <1>. QED
    BY <1>13, <1>14, <1>15 DEF LimiterInv

LEMMA RefillInv ==
    ASSUME LimiterInv, Refill
    PROVE  LimiterInv'
  <1>1. /\ tokens' = [k \in Keys |-> IF Found(k) /\ tokens[k] < Burst THEN tokens[k] + 1 ELSE tokens[k]]
        /\ debt' = [c \in Clients |-> IF debt[c] = 0 THEN 0 ELSE debt[c] - 1]
        /\ crowded' = crowded \ {c \in Clients : debt'[c] = 0}
        /\ table' = table /\ others' = others
    BY DEF Refill
  <1>2. LimiterTypeOK /\ LaterAreOthers /\ BucketsFit
    BY DEF LimiterInv
  <1>3. /\ Burst \in Nat /\ MaxDebt \in Nat /\ \A d \in Clients : d \in Keys
        /\ \A x \in Keys : tokens[x] \in 0..Burst
        /\ \A x \in Clients : debt[x] \in 0..MaxDebt
    BY <1>2, AdmissionConstants DEF LimiterTypeOK, Keys
  <1>4. LimiterTypeOK'
    <2>1. tokens' \in [Keys -> 0..Burst]
      BY <1>1, <1>3
    <2>2. debt' \in [Clients -> 0..MaxDebt]
      BY <1>1, <1>3
    <2>. QED
      BY <1>1, <1>2, <2>1, <2>2 DEF LimiterTypeOK
  <1>5. LaterAreOthers'
    BY <1>1, <1>2 DEF LaterAreOthers
  <1>6. BucketsFit'
    <2>. SUFFICES ASSUME NEW d \in Clients \ crowded'
                  PROVE  IF d \in ToSet(table) THEN debt'[d] + tokens'[d] <= Burst ELSE debt'[d] = 0
      BY <1>1 DEF BucketsFit
    <2>1. /\ d \in Clients /\ debt[d] \in 0..MaxDebt /\ tokens[d] \in 0..Burst
          /\ tokens'[d] = (IF Found(d) /\ tokens[d] < Burst THEN tokens[d] + 1 ELSE tokens[d])
          /\ debt'[d] = (IF debt[d] = 0 THEN 0 ELSE debt[d] - 1)
      BY <1>1, <1>3
    <2>2. Found(d) <=> d \in ToSet(table)
      BY DEF Found, Range, ToSet
    <2>3. d \in crowded => debt'[d] = 0
      BY <1>1
    <2>4. d \notin crowded => IF d \in ToSet(table) THEN debt[d] + tokens[d] <= Burst ELSE debt[d] = 0
      BY <1>2 DEF BucketsFit
    <2>. QED
      BY <1>3, <2>1, <2>2, <2>3, <2>4
  <1>. QED
    BY <1>4, <1>5, <1>6 DEF LimiterInv

\* No client gets more than a bucket's worth of logins out of the limiter until
\* as many others as the table has places came after it, whatever hops its
\* requests name and whoever is evicted (authLoginClientKey, allow).
THEOREM OneBucketEach == AdmissionSpec => []NoSecondBucket
  <1>1. LimiterInv /\ [AdmissionNext]_admissionVars => LimiterInv'
    <2>. SUFFICES ASSUME LimiterInv, [AdmissionNext]_admissionVars PROVE LimiterInv'
      OBVIOUS
    <2>1. CASE \E c \in Clients : \E a \in Arrivals(c) : Request(c, a[1], a[2])
      BY <2>1, RequestInv
    <2>2. CASE Refill
      BY <2>2, RefillInv
    <2>3. CASE UNCHANGED admissionVars
      BY <2>3 DEF admissionVars, LimiterInv, LimiterTypeOK, LaterAreOthers, BucketsFit
    <2>. QED
      BY <2>1, <2>2, <2>3 DEF AdmissionNext
  <1>2. LimiterInv => NoSecondBucket
    <2>. SUFFICES ASSUME LimiterInv, NEW c \in Clients, debt[c] > Burst, c \notin crowded PROVE FALSE
      BY DEF NoSecondBucket
    <2>1. /\ Burst \in Nat /\ debt[c] \in 0..MaxDebt /\ tokens[c] \in 0..Burst /\ MaxDebt \in Nat
      BY AdmissionConstants DEF LimiterInv, LimiterTypeOK, Keys
    <2>2. IF c \in ToSet(table) THEN debt[c] + tokens[c] <= Burst ELSE debt[c] = 0
      BY DEF LimiterInv, BucketsFit
    <2>. QED
      BY <2>1, <2>2
  <1>. QED
    BY LimiterStarts, <1>1, <1>2, PTL DEF AdmissionSpec
=============================================================================
