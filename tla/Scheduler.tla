----------------------------- MODULE Scheduler -----------------------------
(***************************************************************************)
(* The ticker that dispatches due schedules, against the handlers that     *)
(* edit, disable, delete and run them at the same time.                    *)
(*                                                                         *)
(* A cadence stands for a cron expression with its time zone; next_run_at  *)
(* is remembered as the cadence it was computed from.  due holds the       *)
(* enabled rows whose next_run_at has passed, in the order of next_run_at: *)
(* a write that changes enabled changes next_run_at too.  One ticker runs  *)
(* and its ticks do not overlap.  A read and a write of the same handler   *)
(* are separate steps; a lost statement is a fault.                        *)
(***************************************************************************)
EXTENDS Integers, Sequences, SequencesExt

CONSTANTS
    Schedules,
    Cadences,   \* what the handlers accept
    BadCadence, \* a stored expression the present parser refuses
    NoTime,     \* next_run_at IS NULL
    NoRow,
    PerTick,    \* maxDispatchPerTick
    ScanLimit,  \* backend admission slots
    MaxFaults   \* bound on crashes and failing statements

ASSUME SchedulerConstants ==
    /\ BadCadence \notin Cadences /\ NoTime \notin Cadences \cup {BadCadence}
    /\ PerTick \in Nat \ {0} /\ ScanLimit \in Nat \ {0} /\ MaxFaults \in Nat

VARIABLES
    rows,       \* table schedules
    due,        \* enabled ids with next_run_at <= now, most overdue first
    batch,      \* snapshots the current tick has still to dispatch
    submitted,  \* the head of batch was submitted and is to be recorded
    admitted,   \* scans that hold an admission slot
    faults,     \* crashes and failed statements so far
    unexcused,  \* per row: scans for the present next_run_at, less lost records
    quiet       \* per row: ticker scans since it was disabled

schedVars == <<rows, due, batch, submitted, admitted, faults, unexcused, quiet>>
ticker    == <<batch, submitted>>
history   == <<unexcused, quiet>>

Stored == Cadences \cup {BadCadence}
Row    == [enabled : BOOLEAN, cadence : Stored, next : Stored \cup {NoTime}]
Present   == {s \in Schedules : rows[s] # NoRow}

\* What the query of DueSchedules selects, once their time has come.
DueSchedules == {s \in Present : rows[s].enabled /\ rows[s].next # NoTime}

\* Rows, snapshots and counters are well formed, and only an enabled row with a
\* next_run_at can be overdue.
SchedTypeOK ==
    /\ rows \in [Schedules -> Row \cup {NoRow}]
    /\ due \in Seq(Schedules) /\ IsInjective(due)
    /\ ToSet(due) \subseteq DueSchedules
    /\ batch \in Seq([id : Schedules, cadence : Stored]) /\ Len(batch) <= PerTick
    /\ submitted \in BOOLEAN /\ (submitted => batch # <<>>)
    /\ admitted \in 0..ScanLimit
    /\ faults \in 0..MaxFaults

\* Rows an older release stored may carry an expression that is refused today.
SchedInit ==
    /\ rows \in [Schedules -> {NoRow, [enabled |-> TRUE, cadence |-> BadCadence, next |-> BadCadence]}]
    /\ due = <<>> /\ batch = <<>> /\ submitted = FALSE
    /\ admitted = 0 /\ faults = 0
    /\ unexcused = [s \in Schedules |-> 0]
    /\ quiet = [s \in Schedules |-> 0]

\* Every write of a row: a new next_run_at lies in the future, so the row is
\* not due any more; enabling it starts a new count of quiet dispatches.
Write(s, row) ==
    /\ rows' = [rows EXCEPT ![s] = row]
    /\ due' = RemoveFirst(due, s)
    /\ unexcused' = [unexcused EXCEPT ![s] = 0]
    /\ quiet' = [quiet EXCEPT ![s] = IF row = NoRow \/ row.enabled THEN 0 ELSE @]

\* A statement fails and has no effect.
StatementFails == faults < MaxFaults /\ faults' = faults + 1

-----------------------------------------------------------------------------
(* The handlers                                                            *)

\* scheduleNextRun: no next fire time for a disabled schedule.
ScheduleNextRun(c, enabled) == IF enabled THEN c ELSE NoTime

CreateSchedule(s, c, enabled) ==
    /\ s \notin Present
    /\ Write(s, [enabled |-> enabled, cadence |-> c, next |-> ScheduleNextRun(c, enabled)])
    /\ UNCHANGED <<ticker, admitted, faults>>

\* The row the UPDATE writes: an omitted enabled keeps the stored value, and
\* next_run_at follows the value that results.
Updated(s, c, next, enabled) ==
    LET on == IF enabled = "omitted" THEN rows[s].enabled ELSE enabled = "true"
    IN  [enabled |-> on, cadence |-> c, next |-> IF on THEN next ELSE NoTime]

\* PUT: the cadence written is the request's, with the stored zone if the
\* request names none; either way one the parser accepts.
UpdateSchedule(s, c, enabled) ==
    /\ s \in Present
    /\ Write(s, Updated(s, c, c, enabled))
    /\ UNCHANGED <<ticker, admitted, faults>>

\* By its own handler or by the cascade from its policy or target.
DeleteSchedule(s) ==
    /\ s \in Present
    /\ Write(s, NoRow)
    /\ UNCHANGED <<ticker, admitted, faults>>

\* Run now: a scan outside the cadence; the row is only read.
RunSchedule(s) ==
    /\ s \in Present
    /\ admitted < ScanLimit
    /\ admitted' = admitted + 1
    /\ UNCHANGED <<rows, due, ticker, faults, history>>

\* Some scan ends and gives its slot back.
ScanEnds ==
    /\ admitted > 0
    /\ admitted' = admitted - 1
    /\ UNCHANGED <<rows, due, ticker, faults, history>>

-----------------------------------------------------------------------------
(* The ticker                                                              *)

\* Time passes the row's next_run_at.
FallsDue(s) ==
    /\ s \in DueSchedules \ ToSet(due)
    /\ due' = Append(due, s)
    /\ UNCHANGED <<rows, ticker, admitted, faults, history>>

\* Mutant: the rows are taken from the other end.
CapDueSchedulesNewest(q) == SubSeq(q, IF Len(q) > PerTick THEN Len(q) - PerTick + 1 ELSE 1, Len(q))

CapDueSchedules(q) == SubSeq(q, 1, IF Len(q) > PerTick THEN PerTick ELSE Len(q))

Tick ==
    /\ batch = <<>>
    /\ due # <<>>
    /\ batch' = [i \in DOMAIN CapDueSchedules(due) |->
                   [id |-> CapDueSchedules(due)[i], cadence |-> rows[CapDueSchedules(due)[i]].cadence]]
    /\ UNCHANGED <<rows, due, submitted, admitted, faults, history>>

Current  == Head(batch)
NextItem == batch' = Tail(batch) /\ submitted' = FALSE

\* A cadence that does not parse disables the schedule, by writing the whole
\* snapshot back.
DisableBroken ==
    /\ batch # <<>> /\ Current.cadence = BadCadence
    /\ \/ /\ IF Current.id \in Present
             THEN Write(Current.id, Updated(Current.id, BadCadence, NoTime, "false"))
             ELSE UNCHANGED <<rows, due, history>>
          /\ UNCHANGED faults
       \/ StatementFails /\ UNCHANGED <<rows, due, history>>
    /\ NextItem
    /\ UNCHANGED admitted

Dispatching == batch # <<>> /\ ~submitted /\ Current.cadence # BadCadence

\* resolvePolicySpec and Submit succeed: a scan that names the schedule, which
\* therefore has to exist.
Submit ==
    /\ Dispatching
    /\ Current.id \in Present /\ admitted < ScanLimit
    /\ submitted' = TRUE
    /\ admitted' = admitted + 1
    /\ unexcused' = [unexcused EXCEPT ![Current.id] = @ + 1]
    /\ quiet' = [quiet EXCEPT ![Current.id] = IF rows[Current.id].enabled THEN 0 ELSE @ + 1]
    /\ UNCHANGED <<rows, due, batch, faults>>

\* The policy does not resolve, the row is gone, or a statement fails: no scan,
\* but the run is recorded all the same.
SubmitFails ==
    /\ Dispatching
    /\ (Current.id \notin Present /\ UNCHANGED faults) \/ StatementFails
    /\ submitted' = TRUE
    /\ UNCHANGED <<rows, due, batch, admitted, history>>

\* ErrScanCapacity: next_run_at stays, the schedule is due again next tick.
SubmitRefused ==
    /\ Dispatching /\ admitted = ScanLimit
    /\ NextItem
    /\ UNCHANGED <<rows, due, admitted, faults, history>>

\* Mutant: the run is stamped, the next fire time is left to the next tick.
RecordLastRunOnly ==
    /\ batch # <<>> /\ submitted
    /\ NextItem
    /\ UNCHANGED <<rows, due, admitted, faults, history>>

\* RecordScheduleRun: next_run_at from the snapshot's cadence, whatever became
\* of the row meanwhile; enabled is left alone.
RecordScheduleRun ==
    /\ batch # <<>> /\ submitted
    /\ IF Current.id \in Present
       THEN Write(Current.id, [rows[Current.id] EXCEPT !.next = Current.cadence])
       ELSE UNCHANGED <<rows, due, history>>
    /\ NextItem
    /\ UNCHANGED <<admitted, faults>>

\* A lost record excuses the scan it was for.
Excuse == unexcused' = [unexcused EXCEPT ![Current.id] = IF @ > 0 THEN @ - 1 ELSE 0]

RecordFails ==
    /\ batch # <<>> /\ submitted
    /\ StatementFails
    /\ Excuse
    /\ NextItem
    /\ UNCHANGED <<rows, due, admitted, quiet>>

\* The process dies; its scans die with it and the next one starts afresh.
CrashRestart ==
    /\ StatementFails
    /\ IF submitted THEN Excuse ELSE UNCHANGED unexcused
    /\ batch' = <<>> /\ submitted' = FALSE /\ admitted' = 0
    /\ UNCHANGED <<rows, due, quiet>>

Dispatch == DisableBroken \/ Submit \/ SubmitFails \/ SubmitRefused \/ RecordScheduleRun \/ RecordFails

SchedNext ==
    \/ \E s \in Schedules :
          \/ \E c \in Cadences :
                \/ \E enabled \in BOOLEAN : CreateSchedule(s, c, enabled)
                \/ \E enabled \in {"true", "false", "omitted"} : UpdateSchedule(s, c, enabled)
          \/ DeleteSchedule(s)
          \/ RunSchedule(s)
          \/ FallsDue(s)
    \/ ScanEnds
    \/ Tick
    \/ Dispatch
    \/ CrashRestart

SchedSpec == SchedInit /\ [][SchedNext]_schedVars

-----------------------------------------------------------------------------
(* Properties                                                              *)

\* One next_run_at causes at most one scan of the ticker, unless the record of
\* an earlier one was lost or the process died before it (scheduler.go:153).
OneScanPerFire == \A s \in Schedules : unexcused[s] <= 1

\* A disabled schedule is dispatched at most once more, from a snapshot taken
\* before, although that dispatch writes a new next_run_at into the disabled
\* row (schedules.go:189).
DisabledStaysQuiet == \A s \in Schedules : quiet[s] <= 1

\* The ticker starts what is due and nothing else.
FiresAreExact == SchedTypeOK /\ OneScanPerFire /\ DisabledStaysQuiet

\* Every overdue schedule is served, disabled, edited or deleted in the end,
\* although a tick takes only PerTick of them and the admission may be full
\* (scheduler.go:163).
DueIsServed == \A s \in Schedules :
    (s \in ToSet(due) /\ rows[s].enabled) ~> (s \notin ToSet(due) \/ ~rows[s].enabled)

\* A next_run_at that a dispatch wrote from the cadence before an edit is
\* replaced: an edited schedule does not stay on its old cadence.
EditTakesEffect == \A s \in Schedules :
    (s \in Present /\ rows[s].enabled /\ rows[s].next # rows[s].cadence)
       ~> (s \notin Present \/ ~rows[s].enabled \/ rows[s].next = rows[s].cadence)

\* No schedule is forgotten, neither a due one nor the edit of one.
SchedulesAreKept == DueIsServed /\ EditTakesEffect
=============================================================================
