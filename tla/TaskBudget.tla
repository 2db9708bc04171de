------------------------------ MODULE TaskBudget ------------------------------
(***************************************************************************)
(* The task transactions of the alarm-system service at the granularity at *)
(* which PostgreSQL interleaves them: one step per awaited statement of    *)
(* AvailableTimeService and TaskStatusService, READ COMMITTED visibility   *)
(* (a write is seen by others when its transaction commits), row locks     *)
(* taken by SELECT ... FOR UPDATE, and the advisory lock of the priority   *)
(* slot.  Single-statement writes (archive, release) commit on their own   *)
(* but wait for the row lock of the task they update.                      *)
(*                                                                         *)
(* Requests are made by the owner of the rows they name and have passed    *)
(* validation: one that fails it (400) or names a row of someone else      *)
(* (403) changes nothing.                                                  *)
(*                                                                         *)
(* Definitions headed "Fault" are deliberate mistakes, used to show that a *)
(* property would notice them; they are no part of the specification.      *)
(***************************************************************************)
EXTENDS TaskRows

CONSTANTS
    Handler,    \* the API requests that can be in progress at once
    Duration,   \* estimated durations that pass validation
    Elapsed,    \* elapsed times a client reports
    Available,  \* available_seconds a client sets
    Priority,   \* the is_priority flags clients create tasks with
    Action,     \* the timer actions clients use
    NoInput     \* the input of a handler that serves no request

ASSUME BudgetAssumption ==
    /\ Duration \subseteq Nat \ {0}
    /\ Elapsed \subseteq Nat
    /\ Available \subseteq Nat
    /\ Priority \subseteq BOOLEAN
    /\ Action \subseteq {"START", "PAUSE", "RESUME", "FINISH"}

VARIABLES
    total,      \* user_available_time.available_seconds (a missing row reads 0)
    tasks,      \* the tasks table
    refunds,    \* time_refunds: the distinct amounts recorded for a task
    pc,         \* how far each handler is in its transaction
    input,      \* the request each handler serves
    read,       \* what its transaction has read so far
    excused     \* history: days overdrawn by something other than a creation

vars == <<total, tasks, refunds, pc, input, read, excused>>
db == <<total, tasks, refunds, excused>>

-----------------------------------------------------------------------------
Allocated(d) == AllocatedIn(tasks, d)
Consumed(d) == ConsumedIn(tasks, d)
SlotTaken(d) == SlotTakenIn(tasks, d)

\* What clients ask for.
CreateInput == [op: {"create"}, day: Day, dur: Duration, prio: Priority]
SetInput == [op: {"set"}, day: Day, avail: Available]
CompleteInput == [op: {"complete"}, task: Task, elapsed: Elapsed]
\* elapsed -1 stands for an absent elapsed_time.
StatusInput ==
    [op: {"status"}, task: Task, action: Action \ {"FINISH"}, elapsed: {-1}]
      \union
    [op: {"status"}, task: Task, action: Action \intersect {"FINISH"},
     elapsed: Elapsed \union {-1}]
Input == CreateInput \union SetInput \union CompleteInput \union StatusInput

ASSUME NoInputAssumption == NoInput \notin Input

Reads == [total: Nat, allocated: Nat, consumed: Nat, est: Nat, timer: Timer]
NothingRead == [total |-> 0, allocated |-> 0, consumed |-> 0,
                est |-> 0, timer |-> "IDLE"]

-----------------------------------------------------------------------------
\* A handler is at one of the labels with one of the requests.
Within(h, labels, ops) == pc[h] \in labels /\ input[h].op \in ops
At(h, label, ops) == Within(h, {label}, ops)

\* Locks are held from the statement that takes them to the end of the
\* transaction, so who holds one follows from the program counters.

HoldsDay(h, d) ==
    /\ Within(h, {"locked", "summing", "advisory", "check", "write"},
              {"create", "set"})
    /\ input[h].day = d

HoldsSlot(h, d) ==
    /\ Within(h, {"check", "write"}, {"create"})
    /\ input[h].prio
    /\ input[h].day = d

HoldsTask(h, t) ==
    /\ At(h, "write", {"complete", "status"})
    /\ input[h].task = t

Goto(h, label) == pc' = [pc EXCEPT ![h] = label] /\ UNCHANGED input

\* Fault: the handler forgets to give its request up.
EndTxKeepInput(h) ==
    /\ pc' = [pc EXCEPT ![h] = "idle"]
    /\ read' = [read EXCEPT ![h] = NothingRead]
    /\ UNCHANGED input

\* COMMIT or ROLLBACK, and the client goes back to the pool.
EndTx(h) ==
    /\ pc' = [pc EXCEPT ![h] = "idle"]
    /\ input' = [input EXCEPT ![h] = NoInput]
    /\ read' = [read EXCEPT ![h] = NothingRead]

Init ==
    /\ total = [d \in Day |-> 0]
    /\ tasks = [t \in Task |-> AbsentRow]
    /\ refunds = [t \in Task |-> {}]
    /\ pc = [h \in Handler |-> "idle"]
    /\ input = [h \in Handler |-> NoInput]
    /\ read = [h \in Handler |-> NothingRead]
    /\ excused = {}

-----------------------------------------------------------------------------
\* A request arrives.  As many creations run at once as there are ids left:
\* the bound that keeps Task finite.
Begin(h, i) ==
    /\ pc[h] = "idle"
    /\ i.op = "create" =>
           Cardinality({g \in Handler : pc[g] # "idle" /\ input[g].op = "create"})
             < Cardinality({t \in Task : tasks[t].status = "ABSENT"})
    /\ pc' = [pc EXCEPT ![h] = "start"]
    /\ input' = [input EXCEPT ![h] = i]
    /\ UNCHANGED <<db, read>>

\* A query fails, or the service throws an AppError: ROLLBACK.
Abort(h) ==
    /\ pc[h] # "idle"
    /\ EndTx(h)
    /\ UNCHANGED db

\* Fault: the SELECT has lost its FOR UPDATE.
LockDayUnlocked(h) ==
    /\ At(h, "start", {"create", "set"})
    /\ read' = [read EXCEPT ![h].total = total[input[h].day]]
    /\ Goto(h, "locked")
    /\ UNCHANGED db

\* lockAndGetTotal: the row of the day exists and is locked FOR UPDATE.
LockDay(h) ==
    /\ At(h, "start", {"create", "set"})
    /\ \A g \in Handler \ {h} : ~HoldsDay(g, input[h].day)
    /\ read' = [read EXCEPT ![h].total = total[input[h].day]]
    /\ Goto(h, "locked")
    /\ UNCHANGED db

-----------------------------------------------------------------------------
\* reserveAndCreateTask.  Its two sums are two statements, each of which sees
\* what is committed when it starts.
\* Fault: the sums are read in the other order.
CreateSumsSwapped == <<"consumed", "allocated">>
CreateSums == <<"allocated", "consumed">>

WithSum(h, which) ==
    [read[h] EXCEPT ![which] = IF which = "allocated"
                               THEN Allocated(input[h].day)
                               ELSE Consumed(input[h].day)]

FirstSum(h) ==
    /\ At(h, "locked", {"create"})
    /\ read' = [read EXCEPT ![h] = WithSum(h, CreateSums[1])]
    /\ Goto(h, "summing")
    /\ UNCHANGED db

Fits(i, r) == i.dur <= r.total - r.allocated - r.consumed

AdmitCreate(h) ==
    /\ At(h, "summing", {"create"})
    /\ LET r == WithSum(h, CreateSums[2])
       IN  /\ Fits(input[h], r)
           /\ read' = [read EXCEPT ![h] = r]
    /\ Goto(h, IF input[h].prio THEN "advisory" ELSE "write")
    /\ UNCHANGED db

\* 409 INSUFFICIENT_AVAILABLE_TIME
RefuseCreate(h) ==
    /\ At(h, "summing", {"create"})
    /\ ~Fits(input[h], WithSum(h, CreateSums[2]))
    /\ EndTx(h)
    /\ UNCHANGED db

\* Fault: the slot lock is the lock of the day, asked for on another connection.
LockSlotOnDay(h) ==
    /\ At(h, "advisory", {"create"})
    /\ \A g \in Handler : ~HoldsDay(g, input[h].day)
    /\ Goto(h, "check")
    /\ UNCHANGED <<db, read>>

\* pg_advisory_xact_lock on the priority slot of the day.
LockSlot(h) ==
    /\ At(h, "advisory", {"create"})
    /\ \A g \in Handler \ {h} : ~HoldsSlot(g, input[h].day)
    /\ Goto(h, "check")
    /\ UNCHANGED <<db, read>>

\* Fault: the slot is locked and not looked at.
FindSlotUnchecked(h) ==
    /\ At(h, "check", {"create"})
    /\ Goto(h, "write")
    /\ UNCHANGED <<db, read>>

FindSlotFree(h) ==
    /\ At(h, "check", {"create"})
    /\ ~SlotTaken(input[h].day)
    /\ Goto(h, "write")
    /\ UNCHANGED <<db, read>>

\* 409 PRIORITY_TASK_EXISTS
FindSlotTaken(h) ==
    /\ At(h, "check", {"create"})
    /\ SlotTaken(input[h].day)
    /\ EndTx(h)
    /\ UNCHANGED db

\* INSERT and COMMIT.  The unique index would reject a second active priority
\* task of the day (23505, an Abort).
CommitCreate(h) ==
    /\ At(h, "write", {"create"})
    /\ input[h].prio => ~SlotTaken(input[h].day)
    /\ \E t \in Task :
          /\ tasks[t].status = "ABSENT"
          /\ tasks' = [tasks EXCEPT ![t] =
                [status |-> "PENDING", day |-> input[h].day,
                 est |-> input[h].dur, elapsed |-> 0,
                 timer |-> "IDLE", prio |-> input[h].prio]]
    /\ EndTx(h)
    /\ UNCHANGED <<total, refunds, excused>>

-----------------------------------------------------------------------------
\* Fault: the comparison with the allocated time is gone.
CheckSetUnchecked(h) ==
    /\ At(h, "locked", {"set"})
    /\ read' = [read EXCEPT ![h] = WithSum(h, "allocated")]
    /\ Goto(h, "write")
    /\ UNCHANGED db

\* setAvailableTime compares with the allocated time only.
CheckSet(h) ==
    /\ At(h, "locked", {"set"})
    /\ input[h].avail >= Allocated(input[h].day)
    /\ read' = [read EXCEPT ![h] = WithSum(h, "allocated")]
    /\ Goto(h, "write")
    /\ UNCHANGED db

\* 400 AVAILABLE_BELOW_ALLOCATED
RefuseSet(h) ==
    /\ At(h, "locked", {"set"})
    /\ input[h].avail < Allocated(input[h].day)
    /\ EndTx(h)
    /\ UNCHANGED db

CommitSet(h) ==
    /\ At(h, "write", {"set"})
    /\ LET d == input[h].day
       IN  /\ total' = [total EXCEPT ![d] = input[h].avail]
           /\ excused' = IF input[h].avail < Allocated(d) + Consumed(d)
                         THEN excused \union {d} ELSE excused
    /\ EndTx(h)
    /\ UNCHANGED <<tasks, refunds>>

-----------------------------------------------------------------------------
\* Fault: the task row is read without FOR UPDATE.
TaskLockIgnored(h) == tasks[input[h].task].status # "ABSENT"

\* SELECT ... FROM tasks WHERE task_id = $1 FOR UPDATE.  A task that does not
\* exist is a 404, an Abort.
TaskLockFree(h) ==
    /\ tasks[input[h].task].status # "ABSENT"
    /\ \A g \in Handler \ {h} : ~HoldsTask(g, input[h].task)

\* 404 TASK_NOT_FOUND
TaskMissing(h) ==
    /\ At(h, "start", {"complete", "status"})
    /\ tasks[input[h].task].status = "ABSENT"
    /\ EndTx(h)
    /\ UNCHANGED db

\* completeTask looks at the estimate of the row and not at its status.
LockForComplete(h) ==
    /\ At(h, "start", {"complete"})
    /\ TaskLockFree(h)
    /\ read' = [read EXCEPT ![h].est = tasks[input[h].task].est]
    /\ Goto(h, "write")
    /\ UNCHANGED db

\* Completing a task that is not active charges its day again.
ExcuseIfClosed(t) ==
    excused' = IF tasks[t].status \in ActiveStatus
               THEN excused ELSE excused \union {tasks[t].day}

CommitComplete(h) ==
    /\ At(h, "write", {"complete"})
    /\ LET t == input[h].task
           refund == read[h].est - input[h].elapsed
       IN  /\ refunds' = [refunds EXCEPT ![t] =
                            IF refund > 0 THEN @ \union {refund} ELSE @]
           /\ tasks' = [tasks EXCEPT ![t].status = "COMPLETED",
                                     ![t].elapsed = input[h].elapsed]
           /\ ExcuseIfClosed(t)
    /\ EndTx(h)
    /\ UNCHANGED total

\* applyAction: the display status of the locked row decides.  overdue is whether
\* its deadline, which another service writes, had passed at the call.
LockForStatus(h) ==
    /\ At(h, "start", {"status"})
    /\ TaskLockFree(h)
    /\ \E overdue \in BOOLEAN, tr \in Transitions :
          /\ tr[1] = input[h].action
          /\ tr[2] = DisplayStatus(tasks[input[h].task], overdue)
          /\ read' = [read EXCEPT ![h].timer = tr[3]]
    /\ Goto(h, "write")
    /\ UNCHANGED db

\* 400 INVALID_TRANSITION
RefuseStatus(h) ==
    /\ At(h, "start", {"status"})
    /\ TaskLockFree(h)
    /\ \E overdue \in BOOLEAN : \A tr \in Transitions :
          ~ /\ tr[1] = input[h].action
            /\ tr[2] = DisplayStatus(tasks[input[h].task], overdue)
    /\ EndTx(h)
    /\ UNCHANGED db

CommitFinish(h) ==
    /\ At(h, "write", {"status"})
    /\ input[h].action = "FINISH"
    /\ LET t == input[h].task
       IN  /\ tasks' = [tasks EXCEPT
                  ![t].status = "COMPLETED",
                  ![t].timer = "COMPLETED",
                  ![t].elapsed = IF input[h].elapsed = -1 THEN @
                                 ELSE input[h].elapsed]
           /\ ExcuseIfClosed(t)
    /\ EndTx(h)
    /\ UNCHANGED <<total, refunds>>

CommitTimer(h) ==
    /\ At(h, "write", {"status"})
    /\ input[h].action # "FINISH"
    /\ tasks' = [tasks EXCEPT ![input[h].task].timer = read[h].timer]
    /\ EndTx(h)
    /\ UNCHANGED <<total, refunds, excused>>

-----------------------------------------------------------------------------
\* Single-statement updates; they wait while a transaction holds the row.
RowUnlocked(t) == \A h \in Handler : ~HoldsTask(h, t)

\* DELETE /api/tasks/:taskId keeps the row as ARCHIVED.
Archive(t) ==
    /\ RowUnlocked(t)
    /\ tasks[t].status \notin {"ABSENT", "ARCHIVED"}
    /\ tasks' = [tasks EXCEPT ![t].status = "ARCHIVED"]
    /\ UNCHANGED <<total, refunds, pc, input, read, excused>>

\* releasePriority does not look at the status.
Release(t) ==
    /\ RowUnlocked(t)
    /\ tasks[t].status # "ABSENT"
    /\ tasks[t].prio
    /\ tasks' = [tasks EXCEPT ![t].prio = FALSE]
    /\ UNCHANGED <<total, refunds, pc, input, read, excused>>

-----------------------------------------------------------------------------
Create(h) ==
    \/ FirstSum(h)
    \/ AdmitCreate(h)
    \/ RefuseCreate(h)
    \/ LockSlot(h)
    \/ FindSlotFree(h)
    \/ FindSlotTaken(h)
    \/ CommitCreate(h)

SetTotal(h) == CheckSet(h) \/ RefuseSet(h) \/ CommitSet(h)

CompleteTask(h) == LockForComplete(h) \/ CommitComplete(h)

ApplyAction(h) ==
    \/ LockForStatus(h)
    \/ RefuseStatus(h)
    \/ CommitFinish(h)
    \/ CommitTimer(h)

Step(h) ==
    \/ LockDay(h)
    \/ Create(h)
    \/ SetTotal(h)
    \/ CompleteTask(h)
    \/ ApplyAction(h)
    \/ TaskMissing(h)

Next ==
    \/ \E h \in Handler : \/ \E i \in Input : Begin(h, i)
                          \/ Step(h)
                          \/ Abort(h)
    \/ \E t \in Task : Archive(t) \/ Release(t)

Spec == Init /\ [][Next]_vars

-----------------------------------------------------------------------------
TypeOK ==
    /\ total \in [Day -> Nat]
    /\ tasks \in [Task -> Row]
    /\ refunds \in [Task -> SUBSET Nat]
    /\ pc \in [Handler -> {"idle", "start", "locked", "summing", "advisory",
                           "check", "write"}]
    /\ input \in [Handler -> Input \union {NoInput}]
    /\ \A h \in Handler : (input[h] = NoInput) <=> (pc[h] = "idle")
    /\ read \in [Handler -> Reads]
    /\ excused \subseteq Day

\* However creations, completions and settings interleave, the unfinished tasks
\* of a day never reserve more than the available time of the day: 409
\* INSUFFICIENT_AVAILABLE_TIME and 400 AVAILABLE_BELOW_ALLOCATED together keep it.
AllocatedWithinTotal == \A d \in Day : Allocated(d) <= total[d]

\* Reservations and consumption together fit the day, too, unless a closed task
\* of the day was completed again or the total was set below what is spent:
\* reading the two sums of reserveAndCreateTask in two statements never lets a
\* completion in between escape both.
SpentWithinTotal ==
    \A d \in Day \ excused : Allocated(d) + Consumed(d) <= total[d]

\* Whoever is about to insert a priority task holds the slot of a day that has
\* none: the unique index is a backstop that never fires.
SlotFreeAtInsert ==
    \A h \in Handler :
        (At(h, "write", {"create"}) /\ input[h].prio) => ~SlotTaken(input[h].day)

\* A task that is completed stays out of reach of the timer: no action that read
\* the row before the completion moves the timer after it.
CompletedTimerFrozen ==
    [][\A t \in Task :
          tasks[t].status = "COMPLETED" /\ tasks'[t].status = "COMPLETED"
            => tasks'[t].timer = tasks[t].timer]_tasks

\* A lock has one holder.
LocksExclusive ==
    \A g, h \in Handler : g # h =>
        /\ \A d \in Day : ~(HoldsDay(g, d) /\ HoldsDay(h, d))
        /\ \A d \in Day : ~(HoldsSlot(g, d) /\ HoldsSlot(h, d))
        /\ \A t \in Task : ~(HoldsTask(g, t) /\ HoldsTask(h, t))

\* What a transaction has read and found good stays good until it commits,
\* whatever commits in between: the total it read is the total, the reservations
\* have not outgrown the sum it read, and the row its action fits is not closed.
ReadsGood(h) ==
    LET i == input[h]
        r == read[h]
    IN  /\ Within(h, {"locked", "summing", "advisory", "check", "write"},
                  {"create", "set"})
             => r.total = total[i.day]
        /\ Within(h, {"summing", "advisory", "check", "write"}, {"create"})
             => Allocated(i.day) <= r.allocated
        /\ Within(h, {"advisory", "check", "write"}, {"create"})
             => i.dur + r.allocated <= r.total
        /\ At(h, "write", {"set"}) => Allocated(i.day) <= i.avail
        /\ At(h, "write", {"complete"}) => tasks[i.task].status # "ABSENT"
        /\ At(h, "write", {"status"})
             => tasks[i.task].status \notin {"ABSENT", "COMPLETED"}

ReadsStayGood == \A h \in Handler : ReadsGood(h)

\* Requests never wait for each other in a circle: while any is in progress,
\* one of them can take its next step (and no request has endlessly many).
NoLockDeadlock ==
    (\E h \in Handler : pc[h] # "idle") => \E h \in Handler : ENABLED Step(h)

\* Seen from outside, requests take effect one at a time and keep the promises
\* of DayLedger.
Ledger == INSTANCE DayLedger WITH total <- total, tasks <- tasks
ImplementsLedger == Ledger!LedgerSpec

=============================================================================
