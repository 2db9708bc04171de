------------------------------ MODULE DayLedger ------------------------------
(***************************************************************************)
(* What the task API promises about a day, with each request one step: a   *)
(* reservation is admitted only where it fits, the total never drops below *)
(* what is reserved, a closed task is never active again, and a completed  *)
(* task keeps its timer.  TaskBudget, whose requests interleave statement  *)
(* by statement, implements this specification.                            *)
(***************************************************************************)
EXTENDS TaskRows

VARIABLES total, tasks

ledger == <<total, tasks>>

LedgerInit ==
    /\ total = [d \in Day |-> 0]
    /\ tasks = [t \in Task |-> AbsentRow]

\* The steps are stated as relations between the rows before and after: the
\* values a request brings with it are whatever it left in the row.
OnlyTask(t) ==
    /\ tasks' = [tasks EXCEPT ![t] = tasks'[t]]
    /\ tasks'[t] \in Row
    /\ UNCHANGED total

\* POST /api/tasks
Reserve(t) ==
    /\ OnlyTask(t)
    /\ tasks[t].status = "ABSENT"
    /\ tasks'[t].status = "PENDING"
    /\ LET d == tasks'[t].day
       IN  /\ AllocatedIn(tasks, d) + tasks'[t].est <= total[d]
           /\ tasks'[t].prio => ~SlotTakenIn(tasks, d)

\* PUT /api/users/:id/available-time
SetDay(d) ==
    /\ total' = [total EXCEPT ![d] = total'[d]]
    /\ total'[d] \in Nat
    /\ AllocatedIn(tasks, d) <= total'[d]
    /\ UNCHANGED tasks

\* PATCH /api/tasks/:id/complete, and FINISH
Settle(t) ==
    /\ OnlyTask(t)
    /\ tasks[t].status # "ABSENT"
    /\ \E e \in {tasks'[t].elapsed}, tm \in {tasks[t].timer, "COMPLETED"} :
          tasks'[t] = [tasks[t] EXCEPT !.status = "COMPLETED",
                                       !.elapsed = e, !.timer = tm]

\* PATCH /api/tasks/:id/status
MoveTimer(t) ==
    /\ OnlyTask(t)
    /\ tasks[t].status \notin {"ABSENT", "COMPLETED"}
    /\ tasks'[t] = [tasks[t] EXCEPT !.timer = tasks'[t].timer]

\* DELETE /api/tasks/:taskId
Withdraw(t) ==
    /\ OnlyTask(t)
    /\ tasks[t].status # "ABSENT"
    /\ tasks'[t] = [tasks[t] EXCEPT !.status = "ARCHIVED"]

\* PATCH /api/tasks/:id/priority
Demote(t) ==
    /\ OnlyTask(t)
    /\ tasks'[t] = [tasks[t] EXCEPT !.prio = FALSE]

LedgerNext ==
    \/ \E t \in Task : \/ Reserve(t)
                       \/ Settle(t)
                       \/ MoveTimer(t)
                       \/ Withdraw(t)
                       \/ Demote(t)
    \/ \E d \in Day : SetDay(d)

LedgerSpec == LedgerInit /\ [][LedgerNext]_ledger

\* The unfinished tasks of a day fit the available time of the day.
LedgerFits == \A d \in Day : AllocatedIn(tasks, d) <= total[d]

=============================================================================
