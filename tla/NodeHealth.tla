----------------------------- MODULE NodeHealth -----------------------------
(***************************************************************************)
(* The health monitor: a ticker, a loop that polls the nodes registered    *)
(* when its cycle began, the cached record of each node, and the dispatch  *)
(* that trusts it.                                                         *)
(*                                                                         *)
(* Time is counted in units, Interval of them between two ticks.  A cycle  *)
(* takes as long as it takes: the list has no timeout and the nodes are    *)
(* polled one after another.  Ids are never used twice.                    *)
(***************************************************************************)
EXTENDS Integers

CONSTANTS
    Monitored,  \* node ids
    Interval,   \* units between two ticks
    MaxAge      \* bound on the ages that are told apart

ASSUME HealthConstants == Interval \in Nat \ {0} /\ MaxAge \in Nat /\ MaxAge > 3 * Interval

Never   == -1   \* LastSeen is zero
Unknown == -2   \* no record

VARIABLES
    registry,   \* per id: "new", "in" or "gone"
    answering,  \* nodes that would answer a poll
    loop,       \* the poll loop: "idle", "listing" or "polling"
    ticked,     \* a tick waits in the ticker's channel, which holds one
    cycle,      \* ids the cycle has still to poll
    live,       \* ids it found registered
    phase,      \* units since the last tick
    age,        \* per id: units since LastSeen, Never or Unknown
    silence,    \* per id: units since it could last be reached
    missed,     \* per id: polls missed in a row, 2 for more
    late        \* history: ids since whose last answer a tick found a cycle running

healthVars == <<registry, answering, loop, ticked, cycle, live, phase, age, silence, missed, late>>
monitor    == <<loop, ticked, cycle, live>>

Older(x) == IF x < 0 \/ x = MaxAge THEN x ELSE x + 1

HealthInit ==
    /\ registry \in [Monitored -> {"new", "in"}]
    /\ answering \in SUBSET Monitored
    /\ loop = "idle" /\ ticked = TRUE /\ cycle = {} /\ live = {} /\ phase = 0
    /\ age = [n \in Monitored |-> Unknown]
    /\ silence = [n \in Monitored |-> 0]
    /\ missed = [n \in Monitored |-> 0]
    /\ late = {}

-----------------------------------------------------------------------------
(* The environment                                                         *)

Register(n) ==
    /\ registry[n] = "new"
    /\ registry' = [registry EXCEPT ![n] = "in"]
    /\ UNCHANGED <<answering, monitor, phase, age, silence, missed, late>>

Unregister(n) ==
    /\ registry[n] = "in"
    /\ registry' = [registry EXCEPT ![n] = "gone"]
    /\ UNCHANGED <<answering, monitor, phase, age, silence, missed, late>>

\* A node becomes reachable, or stops being so.
Turn(n) ==
    /\ answering' = IF n \in answering THEN answering \ {n} ELSE answering \cup {n}
    /\ silence' = [silence EXCEPT ![n] = 0]
    /\ UNCHANGED <<registry, monitor, phase, age, missed, late>>

\* A unit passes, whatever the cycle is doing.  A tick finds the channel empty or is
\* dropped, and only an idle loop takes it at once.
Pass ==
    /\ ticked => loop # "idle"
    /\ phase' = IF phase + 1 = Interval THEN 0 ELSE phase + 1
    /\ ticked' = (ticked \/ phase' = 0)
    /\ late' = IF phase' = 0 /\ loop # "idle" THEN Monitored ELSE late
    /\ age' = [n \in Monitored |-> Older(age[n])]
    /\ silence' = [n \in Monitored |-> IF n \in answering THEN 0 ELSE Older(silence[n])]
    /\ UNCHANGED <<registry, answering, loop, cycle, live, missed>>

-----------------------------------------------------------------------------
(* The poll loop                                                           *)

\* The loop takes a tick, or starts with its first poll, and asks for the list.
BeginPoll ==
    /\ loop = "idle" /\ ticked
    /\ loop' = "listing" /\ ticked' = FALSE
    /\ UNCHANGED <<registry, answering, cycle, live, phase, age, silence, missed, late>>

\* poll has the list of the registered nodes.
ListNodes ==
    /\ loop = "listing"
    /\ loop' = "polling"
    /\ live' = {n \in Monitored : registry[n] = "in"}
    /\ cycle' = live'
    /\ UNCHANGED <<registry, answering, ticked, phase, age, silence, missed, late>>

\* The list cannot be read and the cycle is skipped.
PollUnlisted ==
    /\ loop = "listing"
    /\ loop' = "idle"
    /\ missed' = [n \in Monitored |-> IF registry[n] = "in" /\ missed[n] < 2 THEN missed[n] + 1 ELSE missed[n]]
    /\ UNCHANGED <<registry, answering, ticked, cycle, live, phase, age, silence, late>>

\* A node is polled and its record written under the lock.
PollAnswers(n) ==
    /\ n \in cycle /\ n \in answering
    /\ cycle' = cycle \ {n}
    /\ age' = [age EXCEPT ![n] = 0]
    /\ missed' = [missed EXCEPT ![n] = 0]
    /\ late' = late \ {n}
    /\ UNCHANGED <<registry, answering, loop, ticked, live, phase, silence>>

\* Mutant: a failed poll stamps the record too.
PollFailsStamping(n) ==
    /\ n \in cycle
    /\ cycle' = cycle \ {n}
    /\ age' = [age EXCEPT ![n] = 0]
    /\ missed' = [missed EXCEPT ![n] = IF @ = 2 THEN 2 ELSE @ + 1]
    /\ UNCHANGED <<registry, answering, loop, ticked, live, phase, silence, late>>

\* A failed poll leaves LastSeen but makes the node known.  The poll of a node
\* that can be reached may fail as well.
PollFails(n) ==
    /\ n \in cycle
    /\ cycle' = cycle \ {n}
    /\ age' = [age EXCEPT ![n] = IF @ = Unknown THEN Never ELSE @]
    /\ missed' = [missed EXCEPT ![n] = IF @ = 2 THEN 2 ELSE @ + 1]
    /\ UNCHANGED <<registry, answering, loop, ticked, live, phase, silence, late>>

\* Mutant: only the nodes of this cycle are looked at.
PruneListed ==
    /\ loop = "polling" /\ cycle = {}
    /\ age' = [n \in Monitored |-> IF n \in live /\ registry[n] = "gone" THEN Unknown ELSE age[n]]
    /\ loop' = "idle" /\ live' = {}
    /\ UNCHANGED <<registry, answering, ticked, cycle, phase, silence, missed, late>>

\* The cycle ends by dropping the records of nodes its list did not show.
Prune ==
    /\ loop = "polling" /\ cycle = {}
    /\ age' = [n \in Monitored |-> IF n \in live THEN age[n] ELSE Unknown]
    /\ loop' = "idle" /\ live' = {}
    /\ UNCHANGED <<registry, answering, ticked, cycle, phase, silence, missed, late>>

PollNode(n) == PollAnswers(n) \/ PollFails(n)

HealthNext ==
    \/ \E n \in Monitored : Register(n) \/ Unregister(n) \/ Turn(n) \/ PollNode(n)
    \/ Pass
    \/ BeginPoll \/ ListNodes \/ PollUnlisted
    \/ Prune

HealthSpec == HealthInit /\ [][HealthNext]_healthVars

\* healthyLocked, with the TTL of NewHealthMonitor.
Healthy(n) == age[n] \in 0..3 * Interval

\* selectScanNode refuses a node that is known and not healthy.
Dispatchable(n) == age[n] = Unknown \/ Healthy(n)

-----------------------------------------------------------------------------
(* Properties                                                              *)

\* Once a polled node has been unreachable for longer than the TTL no scan is
\* sent to it, however the cycles and its failure fall (orchestrator.go:104).
DeadIsNotTrusted ==
    \A n \in Monitored : age[n] # Unknown /\ silence[n] > 3 * Interval => ~Dispatchable(n)

\* A registered node that misses a single poll keeps getting scans, although the nodes of
\* a cycle are polled at different moments and a cycle that overran may delay the next,
\* unless a tick has found a cycle running since the node last answered (health.go:57).
OneMissIsTolerated ==
    \A n \in Monitored :
        registry[n] = "in" /\ age[n] >= 0 /\ missed[n] <= 1 /\ n \notin late => Dispatchable(n)

\* The cached verdict is right in time: soon enough for a dead node, and not
\* hasty with a live one.
VerdictsAreTimely == DeadIsNotTrusted /\ OneMissIsTolerated

\* The record of a removed node goes for good, also when the node is removed
\* between the list and its own poll (health.go:124).
RecordsArePruned ==
    \A n \in Monitored : registry[n] = "gone" ~> [](age[n] = Unknown)

\* A node that can be reached from some time on is used again.
RecoveredIsTrusted ==
    \A n \in Monitored : <>[](registry[n] = "in" /\ n \in answering) => []<>Healthy(n)

\* The records come to agree with the registry and the nodes.
RecordsConverge == RecordsArePruned /\ RecoveredIsTrusted
=============================================================================
