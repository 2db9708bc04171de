------------------------------ MODULE TaskService ------------------------------
(* The service that the pages call, as mock.js implements it: its tasks and   *)
(* the available time (db), the checks of each request and its effect.  Each  *)
(* request is one step of the service; TodayTasks adds the way to it and back. *)
EXTENDS Integers, FiniteSets, FiniteSetsExt

CONSTANTS Task,      \* the task ids that occur
          Seeded,    \* the tasks that exist at the start
          Urgent,    \* the tasks that are made as priority tasks (importance 5)
          Est,       \* estimated duration of each task
          Default,   \* AVAILABLE_SECONDS at the start
          Total      \* the values the available time is set to

ASSUME ServiceAssumption ==
  Seeded \subseteq Task /\ Urgent \subseteq Task /\ Est \in [Task -> Nat]
  /\ Total \subseteq Nat /\ Default \in Total /\ IsFiniteSet(Task)

RowStatus == {"NONE", "PENDING", "COMPLETED", "ARCHIVED", "DELETED"}

(* A list of a page: the tasks it shows, with the delay count it shows. *)
IsList(l) == DOMAIN l \subseteq Task /\ l \in [DOMAIN l -> Nat]

InStatus(d, status) == {t \in Task : d.status[t] = status}
ListOf(d, status) == [t \in InStatus(d, status) |-> d.delay[t]]
Stored(d, t) == d.status[t] \notin {"NONE", "DELETED"}

allocatedSeconds(d) == MapThenSumSet(LAMBDA t : Est[t], InStatus(d, "PENDING"))

(* A task that came without a duration has NaN seconds, and so has every sum *)
(* it is part of; a comparison with NaN is false.                             *)
NotANumber(d) == InStatus(d, "PENDING") \intersect d.unpriced # {}

(* updateTaskStatus: no look at the present status, only at the id. *)
updateTaskStatus(d, t, action) ==
  IF ~Stored(d, t) THEN d
  ELSE CASE action \in {"complete", "refund"} -> [d EXCEPT !.status[t] = "COMPLETED"]
         [] action = "archive" -> [d EXCEPT !.status[t] = "ARCHIVED"]
         [] action = "restore" -> [d EXCEPT !.status[t] = "PENDING"]
         [] action = "snooze"  -> [d EXCEPT !.delay[t] = @ + 1]

(* createTaskWithBudget answers 409 to these. *)
CreateRefused(d, t) ==
  \/ ~NotANumber(d) /\ Est[t] > d.total - allocatedSeconds(d)
  \/ t \in Urgent /\ \E u \in Urgent : d.status[u] = "PENDING"

createTaskWithBudget(d, t) ==
  IF CreateRefused(d, t) THEN d ELSE [d EXCEPT !.status[t] = "PENDING"]

(* The same function without estimated_duration and isPriority, which both of *)
(* its checks read.                                                           *)
createUnchecked(d, t) == [d EXCEPT !.status[t] = "PENDING", !.unpriced = @ \union {t}]

deleteTask(d, t) == IF Stored(d, t) THEN [d EXCEPT !.status[t] = "DELETED"] ELSE d

(* recreateTask puts back the archived row that the page still holds. *)
recreateTask(d, t) == IF Stored(d, t) THEN d ELSE [d EXCEPT !.status[t] = "ARCHIVED"]

SetRefused(d, seconds) == ~NotANumber(d) /\ seconds < allocatedSeconds(d)
setAvailableTime(d, seconds) == IF SetRefused(d, seconds) THEN d ELSE [d EXCEPT !.total = seconds]

StartOfDay == [status |-> [t \in Task |-> IF t \in Seeded THEN "PENDING" ELSE "NONE"],
                    delay  |-> [t \in Task |-> 0], total |-> Default, unpriced |-> {}]
================================================================================
