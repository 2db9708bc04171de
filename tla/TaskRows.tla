------------------------------- MODULE TaskRows -------------------------------
(***************************************************************************)
(* The rows of the tasks table of the alarm-system service and the pure    *)
(* queries over them: the sums of AvailableTimeService, the predicate of   *)
(* the priority slot, and the timer state machine of taskTransitions.      *)
(*                                                                         *)
(* A Day stands for one row of user_available_time, that is one pair       *)
(* (user, service date).  Times are in abstract units.                     *)
(***************************************************************************)
EXTENDS Integers, FiniteSets, Functions

CONSTANTS
    Day,    \* the (user, service date) rows
    Task    \* task ids: each is inserted at most once

ASSUME RowsAssumption == IsFiniteSet(Task) /\ Day # {}

Timer == {"IDLE", "RUNNING", "PAUSED", "OVERTIME", "COMPLETED"}
Status == {"PENDING", "SNOOZED", "COMPLETED", "ARCHIVED", "ABSENT"}

Row == [status: Status, day: Day, est: Nat, elapsed: Nat,
        timer: Timer, prio: BOOLEAN]

\* An id no INSERT has used yet.
AbsentRow == [status |-> "ABSENT", day |-> CHOOSE d \in Day : TRUE, est |-> 0,
              elapsed |-> 0, timer |-> "IDLE", prio |-> FALSE]

\* ACTIVE_STATUSES
ActiveStatus == {"PENDING", "SNOOZED"}

\* sumAllocated: what the unfinished tasks of a day reserve.
Reserved(row, d) ==
    IF row.status \in ActiveStatus /\ row.day = d THEN row.est ELSE 0
AllocatedIn(rows, d) == SumFunction([t \in Task |-> Reserved(rows[t], d)])

\* sumConsumed: what the completed tasks of a day really took, at most their
\* estimate: LEAST(COALESCE(elapsed_time, 0), estimated_duration).
Charge(row) == IF row.elapsed < row.est THEN row.elapsed ELSE row.est
Consumption(row, d) ==
    IF row.status = "COMPLETED" /\ row.day = d THEN Charge(row) ELSE 0
ConsumedIn(rows, d) == SumFunction([t \in Task |-> Consumption(rows[t], d)])

\* The predicate of the priority query and of uq_tasks_one_priority_per_day.
ActivePriority(row, d) ==
    /\ row.prio
    /\ row.day = d
    /\ row.status \notin {"COMPLETED", "ARCHIVED", "ABSENT"}

SlotTakenIn(rows, d) == \E t \in Task : ActivePriority(rows[t], d)

-----------------------------------------------------------------------------
\* The state machine of taskTransitions.

\* A completed task whose timer still runs shows as completed.
DisplayStatus(row, overdue) ==
    IF row.status = "COMPLETED" \/ row.timer = "COMPLETED" THEN "COMPLETED"
    ELSE IF row.timer \in {"RUNNING", "OVERTIME"} THEN "ACTIVE"
    ELSE IF row.timer = "PAUSED" THEN "PAUSED"
    ELSE IF overdue THEN "OVERDUE" ELSE "IDLE"

Transitions ==
    { <<"START", "IDLE", "RUNNING">>,
      <<"PAUSE", "ACTIVE", "PAUSED">>,
      <<"RESUME", "PAUSED", "RUNNING">>,
      <<"RESUME", "OVERDUE", "RUNNING">>,
      <<"FINISH", "ACTIVE", "COMPLETED">>,
      <<"FINISH", "PAUSED", "COMPLETED">>,
      <<"FINISH", "OVERDUE", "COMPLETED">> }

=============================================================================
