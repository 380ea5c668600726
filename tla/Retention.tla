------------------------------ MODULE Retention ------------------------------
(***************************************************************************)
(* The retention sweeper of every replica against the settings page, runs, *)
(* imports and deletions by hand.  A scan is the day it was created on; a  *)
(* sweep reads the policy, lists what is due and deletes it one by one.    *)
(***************************************************************************)
EXTENDS Integers, FiniteSets

CONSTANTS
    LastDay,       \* bound of the calendar
    Sweepers,      \* replicas, each with one sweeper goroutine
    SavedTargets,
    Loose,         \* the target of a scan without one
    Policies,      \* what the settings page sends; days = 0 is an empty field
    MaxDays,       \* MaxScanRetentionDays
    SweepCap,      \* maxRetentionDeletePerTick
    NoScan

Policy == [enabled : BOOLEAN, days : Nat, adhoc : BOOLEAN]

ASSUME RetentionConstants ==
    /\ {LastDay, MaxDays, SweepCap} \subseteq Nat \ {0}
    /\ IsFiniteSet(Sweepers)
    /\ Loose \notin SavedTargets
    /\ NoScan \notin [target : SavedTargets \cup {Loose}, ended : BOOLEAN]
    /\ Policies \subseteq Policy

Dates == 1..LastDay

VARIABLES
    kept,      \* scans: target, and whether it has ended
    policy,    \* app_settings
    today,
    sweep,     \* per sweeper: at, the cut-off it computed, what is left of its list
    anchored,  \* history: targets a sweep owes a scan
    late       \* history: scans swept since retention was last switched off

retentionVars == <<kept, policy, today, sweep, anchored, late>>

Resting == [at |-> "idle", cutoff |-> 0, adhoc |-> FALSE, ids |-> {}]
There(d) == kept[d] # NoScan
OfTarget(t) == {d \in Dates : There(d) /\ kept[d].target = t}

RetentionActive(p) == p.enabled /\ p.days \in 1..MaxDays

RetentionInit ==
    /\ kept = [d \in Dates |-> NoScan]
    /\ policy = [enabled |-> FALSE, days |-> 0, adhoc |-> FALSE] /\ today = 0
    /\ sweep = [r \in Sweepers |-> Resting]
    /\ anchored = {} /\ late = 0

-----------------------------------------------------------------------------
(* The sweeper                                                             *)

\* tick: the policy as it is now, and the cut-off it gives today.
BeginSweep(r) ==
    /\ sweep[r].at = "idle" /\ RetentionActive(policy)
    /\ sweep' = [sweep EXCEPT ![r] = [at |-> "list", cutoff |-> today - policy.days,
                                      adhoc |-> policy.adhoc, ids |-> {}]]
    /\ UNCHANGED <<kept, policy, today, anchored, late>>

Latest(t) == CHOOSE d \in OfTarget(t) : \A e \in OfTarget(t) : e <= d

Oldest(due) == {d \in due : Cardinality({e \in due : e < d}) < SweepCap}

\* Mutant: ended and old is enough.
EvenTheLatest(cutoff, adhoc) ==
    Oldest({d \in Dates : There(d) /\ d < cutoff /\ kept[d].ended /\ (adhoc \/ kept[d].target # Loose)})

\* Ended, older than the cut-off, and not the latest scan of its target; ad hoc
\* scans only when the policy says so.  The oldest, up to the cap.
ScansForRetention(cutoff, adhoc) ==
    Oldest({d \in Dates :
              /\ There(d) /\ d < cutoff /\ kept[d].ended
              /\ IF kept[d].target = Loose THEN adhoc ELSE d # Latest(kept[d].target)})

ListScans(r) ==
    /\ sweep[r].at = "list"
    /\ LET due == ScansForRetention(sweep[r].cutoff, sweep[r].adhoc)
       IN  sweep' = [sweep EXCEPT ![r] = IF due = {} THEN Resting
                                         ELSE [@ EXCEPT !.at = "delete", !.ids = due]]
    /\ UNCHANGED <<kept, policy, today, anchored, late>>

\* One transaction; purging the archived objects afterwards may fail.
Deleted(d) ==
    /\ There(d) /\ kept[d].ended
    /\ kept' = [kept EXCEPT ![d] = NoScan]

Rest(r, d) == IF sweep[r].ids = {d} THEN Resting ELSE [sweep[r] EXCEPT !.ids = @ \ {d}]

\* deleteScan, for the oldest scan on the list.
SweepScan(r) ==
    /\ sweep[r].at = "delete"
    /\ LET d == CHOOSE d \in sweep[r].ids : \A e \in sweep[r].ids : d <= e IN
       /\ Deleted(d)
       /\ sweep' = [sweep EXCEPT ![r] = Rest(r, d)]
    /\ late' = IF RetentionActive(policy) THEN 0 ELSE late + 1
    /\ UNCHANGED <<policy, today, anchored>>

\* The scan is gone already, or the statement fails: the next one is tried.
SkipScan(r) ==
    /\ sweep[r].at = "delete"
    /\ LET d == CHOOSE d \in sweep[r].ids : \A e \in sweep[r].ids : d <= e
       IN  sweep' = [sweep EXCEPT ![r] = Rest(r, d)]
    /\ UNCHANGED <<kept, policy, today, anchored, late>>

\* A failing query ends the tick, the end of the process ends it anywhere.
StopSweep(r) ==
    /\ sweep[r].at # "idle"
    /\ sweep' = [sweep EXCEPT ![r] = Resting]
    /\ UNCHANGED <<kept, policy, today, anchored, late>>

-----------------------------------------------------------------------------
(* Everybody else                                                          *)

\* handleUpdateSettings: a window out of range is refused, and so is retention
\* without a window.
UpdateSettings(p) ==
    /\ p.days <= MaxDays /\ (p.enabled => p.days > 0)
    /\ policy' = p
    /\ late' = IF RetentionActive(policy) \/ RetentionActive(p) THEN 0 ELSE late
    /\ UNCHANGED <<kept, today, sweep, anchored>>

Listing == \E r \in Sweepers : sweep[r].at = "delete"

StartScan(t) ==
    /\ today < LastDay
    /\ today' = today + 1
    /\ kept' = [kept EXCEPT ![today + 1] = [target |-> t, ended |-> FALSE]]
    /\ anchored' = anchored \cup ({t} \ {Loose})
    /\ UNCHANGED <<policy, sweep, late>>

DayPasses ==
    /\ today < LastDay
    /\ today' = today + 1
    /\ UNCHANGED <<kept, policy, sweep, anchored, late>>

EndScan(d) ==
    /\ There(d) /\ ~kept[d].ended
    /\ kept' = [kept EXCEPT ![d].ended = TRUE]
    /\ UNCHANGED <<policy, today, sweep, anchored, late>>

\* An imported scan keeps its date and has ended.
ImportScan(d, t) ==
    /\ d <= today /\ ~There(d)
    /\ kept' = [kept EXCEPT ![d] = [target |-> t, ended |-> TRUE]]
    /\ anchored' = IF \E r \in Sweepers : d \in sweep[r].ids THEN anchored \ {t}
                   ELSE IF Listing THEN anchored ELSE anchored \cup ({t} \ {Loose})
    /\ UNCHANGED <<policy, today, sweep, late>>

\* handleDeleteScan.  A sweep that holds a list does not learn of it.
DeleteByHand(d) ==
    /\ Deleted(d)
    /\ anchored' = IF Listing \/ OfTarget(kept[d].target) = {d}
                   THEN anchored \ {kept[d].target} ELSE anchored
    /\ UNCHANGED <<policy, today, sweep, late>>

RetentionNext ==
    \/ \E r \in Sweepers :
          BeginSweep(r) \/ ListScans(r) \/ SweepScan(r) \/ SkipScan(r) \/ StopSweep(r)
    \/ \E p \in Policies : UpdateSettings(p)
    \/ \E t \in SavedTargets \cup {Loose} : StartScan(t) \/ \E d \in Dates : ImportScan(d, t)
    \/ \E d \in Dates : DeleteByHand(d) \/ EndScan(d)
    \/ DayPasses

RetentionSpec == RetentionInit /\ [][RetentionNext]_retentionVars

-----------------------------------------------------------------------------
(* Properties                                                              *)

\* However many sweepers work on lists of different age, a target keeps a scan,
\* so that detection has one to compare with.  The exception: while a sweep held
\* its list a scan of the target was deleted by hand, or one on the list was
\* deleted and imported again under its old id (settings.go:188).
AnchorStays == \A t \in anchored : OfTarget(t) # {}

\* Once retention is switched off a sweeper finishes the list of one tick at
\* most, and that list is short (retention.go:46).
DisablingStopsTheSweep == late <= SweepCap * Cardinality(Sweepers)

\* The sweepers delete old scans, and nothing that anybody still counts on.
RetentionIsCareful == AnchorStays /\ DisablingStopsTheSweep
=============================================================================
