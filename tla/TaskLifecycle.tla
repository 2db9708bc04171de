----------------------------- MODULE TaskLifecycle -----------------------------
(***************************************************************************)
(* The task actions of the Spring backend and the activity log they leave: *)
(* TaskService loads an entity, the domain method of Task checks and       *)
(* changes it in memory, the commit writes the whole row back, and after   *)
(* the commit TaskActivityListener is handed to the pool of AsyncConfig,   *)
(* which stores one log entry in a transaction of its own.                 *)
(*                                                                         *)
(* The row has no version column and is read without a lock, so another    *)
(* request may commit between the load and the commit.                     *)
(*                                                                         *)
(* Definitions headed "Fault" are deliberate mistakes, used to show that a *)
(* property would notice them; they are no part of the specification.      *)
(***************************************************************************)
EXTENDS Integers, Sequences, FiniteSets

CONSTANTS
    Request,     \* the requests that can be in progress at once
    Task,        \* the tasks of a user
    Action,      \* the actions clients request
    MaxActions,  \* bound: actions that are committed
    Core,        \* corePoolSize
    MaxPool,     \* maxPoolSize
    Capacity,    \* queueCapacity
    NoWork       \* the work of a request that is not in progress

ActionType == {"COMPLETED", "SNOOZED", "ARCHIVED", "ARCHIVE_REJECTED"}

ASSUME PoolAssumption ==
    /\ Action \subseteq ActionType
    /\ MaxActions \in Nat
    /\ Core \in Nat /\ MaxPool \in Nat /\ Core <= MaxPool /\ MaxPool > 0
    /\ Capacity \in Nat

VARIABLES
    tasks,     \* status and delayCount of each row
    work,      \* the task and the entity each request has in memory
    actions,   \* history: the committed actions, in order; their number is the
               \* event the listener gets
    raced,     \* history: the tasks that changed between a load and its commit
    threads,   \* live threads of the pool
    running,   \* the events its threads are storing
    queue,     \* the events that wait for a thread
    logged,    \* the events with an entry in user_activity_logs
    lost       \* the events that left no entry

rows == <<tasks, work, actions, raced>>
pool == <<threads, running, queue, logged, lost>>
vars == <<rows, pool>>

ActiveStatus == {"PENDING", "SNOOZED"}

Event == 1 .. Len(actions)

Init ==
    /\ tasks = [t \in Task |-> [status |-> "PENDING", delay |-> 0]]
    /\ work = [r \in Request |-> NoWork]
    /\ actions = <<>>
    /\ raced = {}
    /\ threads = 0
    /\ running = {}
    /\ queue = <<>>
    /\ logged = {}
    /\ lost = {}

-----------------------------------------------------------------------------
\* The domain methods complete, snooze and archive; rejectArchive calls none.

\* Fault: snooze has lost its guard.
PermitsAnySnooze(entity, action) ==
    action \in {"ARCHIVE_REJECTED", "SNOOZED"} \/ entity.status \in ActiveStatus

Permits(entity, action) ==
    action = "ARCHIVE_REJECTED" \/ entity.status \in ActiveStatus

Apply(entity, action) ==
    CASE action = "ARCHIVE_REJECTED" -> entity
      [] action = "SNOOZED" -> [status |-> "SNOOZED", delay |-> entity.delay + 1]
      [] OTHER -> [entity EXCEPT !.status = action]

\* findTaskOrThrow and the domain method.  An action the entity does not permit
\* is an IllegalStateException and changes nothing.
Load(r, t, action) ==
    /\ work[r] = NoWork
    /\ Len(actions) < MaxActions
    /\ Permits(tasks[t], action)
    /\ work' = [work EXCEPT ![r] = [task |-> t, action |-> action,
                                    entity |-> Apply(tasks[t], action)]]
    /\ UNCHANGED <<tasks, actions, raced, pool>>

\* Another request of the same task has loaded its entity already.
Overlapped(r) ==
    \E other \in Request \ {r} :
        work[other] # NoWork /\ work[other].task = work[r].task

\* Fault: the queue comes first, also when there is no thread to empty it.
SubmitQueueFirst(e) ==
    \/ /\ Len(queue) < Capacity
       /\ queue' = Append(queue, e)
       /\ UNCHANGED <<threads, running, logged, lost>>
    \/ /\ Len(queue) >= Capacity
       /\ threads < MaxPool
       /\ threads' = threads + 1
       /\ running' = running \union {e}
       /\ UNCHANGED <<queue, logged, lost>>
    \/ /\ threads >= MaxPool
       /\ Len(queue) >= Capacity
       /\ lost' = lost \union {e}
       /\ UNCHANGED <<threads, running, queue, logged>>

\* The pool takes an event: a thread below the core size, else a place in the
\* queue, else a thread below the maximum, else AbortPolicy throws, which Spring
\* logs and drops after a commit.
Submit(e) ==
    \/ /\ threads < Core
       /\ threads' = threads + 1
       /\ running' = running \union {e}
       /\ UNCHANGED <<queue, logged, lost>>
    \/ /\ threads >= Core
       /\ Len(queue) < Capacity
       /\ queue' = Append(queue, e)
       /\ UNCHANGED <<threads, running, logged, lost>>
    \/ /\ threads >= Core
       /\ Len(queue) >= Capacity
       /\ threads < MaxPool
       /\ threads' = threads + 1
       /\ running' = running \union {e}
       /\ UNCHANGED <<queue, logged, lost>>
    \/ /\ threads >= MaxPool
       /\ Len(queue) >= Capacity
       /\ lost' = lost \union {e}
       /\ UNCHANGED <<threads, running, queue, logged>>

\* Hibernate writes every column of a changed entity, whatever the row is now.
Commit(r) ==
    /\ work[r] # NoWork
    /\ Len(actions) < MaxActions
    /\ actions' = Append(actions, [task |-> work[r].task, action |-> work[r].action])
    /\ tasks' = IF work[r].action = "ARCHIVE_REJECTED" THEN tasks
                ELSE [tasks EXCEPT ![work[r].task] = work[r].entity]
    /\ raced' = IF Overlapped(r) THEN raced \union {work[r].task} ELSE raced
    /\ work' = [work EXCEPT ![r] = NoWork]
    /\ Submit(Len(actions'))

\* Fault: the event is published at once and not after the commit.
RollbackLogged(r) ==
    /\ work[r] # NoWork
    /\ work' = [work EXCEPT ![r] = NoWork]
    /\ Submit(Len(actions) + 1)
    /\ UNCHANGED <<tasks, actions, raced>>

\* The transaction fails: no row is written and no event is delivered.
Rollback(r) ==
    /\ work[r] # NoWork
    /\ work' = [work EXCEPT ![r] = NoWork]
    /\ UNCHANGED <<tasks, actions, raced, pool>>

-----------------------------------------------------------------------------
Take ==
    /\ queue # <<>>
    /\ Cardinality(running) < threads
    /\ running' = running \union {Head(queue)}
    /\ queue' = Tail(queue)
    /\ UNCHANGED <<rows, threads, logged, lost>>

\* The save of handleTaskAction; a failed one is logged and swallowed.
Store(e) ==
    /\ e \in running
    /\ running' = running \ {e}
    /\ logged' = logged \union {e}
    /\ UNCHANGED <<rows, threads, queue, lost>>

StoreFails(e) ==
    /\ e \in running
    /\ running' = running \ {e}
    /\ lost' = lost \union {e}
    /\ UNCHANGED <<rows, threads, queue, logged>>

\* A thread above the core size is idle for too long.
Shrink ==
    /\ threads > Core
    /\ Cardinality(running) < threads
    /\ queue = <<>>
    /\ threads' = threads - 1
    /\ UNCHANGED <<rows, running, queue, logged, lost>>

Finish(e) == Store(e) \/ StoreFails(e)

Next ==
    \/ \E r \in Request :
          \/ \E t \in Task, action \in Action : Load(r, t, action)
          \/ Commit(r)
          \/ Rollback(r)
    \/ Take
    \/ \E e \in Event : Finish(e)
    \/ Shrink

\* The threads of the pool run.
Fairness ==
    /\ WF_vars(Take)
    /\ \A e \in 1 .. MaxActions : WF_vars(Finish(e))

Spec == Init /\ [][Next]_vars /\ Fairness

-----------------------------------------------------------------------------

Waiting == {queue[i] : i \in DOMAIN queue}

\* A committed action leaves at most one log entry and a rolled back one none:
\* every event is in one place, and none is there without its commit.
LoggedOncePerCommit ==
    /\ Waiting \union running \union logged \union lost = Event
    /\ Len(queue) + Cardinality(running) + Cardinality(logged) + Cardinality(lost)
         = Len(actions)

\* The number of actions of one kind on a task.
Times(t, action) ==
    Cardinality({i \in Event : actions[i].task = t /\ actions[i].action = action})

\* The row of a task whose requests never overlapped agrees with the log: the
\* delay count is the number of snoozes, and a task is completed or archived once
\* and for good.
RowAgreesWithActions ==
    \A t \in Task \ raced :
        /\ tasks[t].delay = Times(t, "SNOOZED")
        /\ Times(t, "COMPLETED") + Times(t, "ARCHIVED")
             = IF tasks[t].status \in ActiveStatus THEN 0 ELSE 1
        /\ tasks[t].status = "COMPLETED" <=> Times(t, "COMPLETED") = 1

\* An action that is committed is logged or given up: events do not stay in the
\* queue.
ActionsAreSettled ==
    \A e \in 1 .. MaxActions : e \in Event ~> e \in logged \union lost

\* Task.java: complete, snooze and archive throw in the state COMPLETED or
\* ARCHIVED.  Then no action follows a completion or an archival.
ClosedIsFinal ==
    \A i, j \in Event :
        /\ i < j
        /\ actions[i].task = actions[j].task
        /\ actions[i].action \in {"COMPLETED", "ARCHIVED"}
        => actions[j].action = "ARCHIVE_REJECTED"

=============================================================================
