--------------------------- MODULE NotificationInbox ---------------------------
(***************************************************************************)
(* The overdue notifications of one user: the nightly scan that creates    *)
(* them, the requests that read, dismiss or delete, and the badge with the *)
(* number of unread ones, kept in Redis behind a single-flight lock.       *)
(*                                                                         *)
(* A process is a request or a run of the scan; between two awaits any     *)
(* other process may run, and the server may stop.  The scan may run twice *)
(* at a time: a stalled job is started again on another instance.          *)
(*                                                                         *)
(* Definitions headed "Fault" are deliberate mistakes, used to show that a *)
(* property would notice them; they are no part of the specification.      *)
(***************************************************************************)
EXTENDS Integers, FiniteSets

CONSTANTS
    Proc,       \* the processes that can be in progress at once
    MaxTask,    \* bound: task ids are 1 .. MaxTask
    MaxDay,     \* bound: service dates are 1 .. MaxDay
    BatchSize,  \* rows of a page of the scan
    Retries,    \* how often a reader without the lock looks again
    MaxStart,   \* bound: requests and scans that are started
    None        \* no process, no value

ASSUME InboxAssumption ==
    /\ MaxTask \in Nat /\ MaxDay \in Nat /\ MaxStart \in Nat
    /\ BatchSize \in Nat \ {0} /\ Retries \in Nat
    /\ None \notin Proc \union Nat

VARIABLES
    tasks,    \* status of each task
    deadline, \* the day of its deadline
    notes,    \* the notification of a task and a service date
    cache,    \* Redis: the number of unread notifications, or None
    lock,     \* Redis: the process whose token is in the lock, or None
    proc,     \* the processes in progress
    shown,    \* the number the clients of the user got last, or None
    pushed,   \* how often each notification was pushed
    started,  \* the number of requests and scans that were started
    scanned,  \* history: the service dates a scan has finished
    failed,   \* history: the rows a scan failed to write
    dropped,  \* history: the notifications whose scan stopped before the push
    orphaned, \* history: the tasks archived while a scan had them at hand, or
              \* by a request that stopped half way
    overtaken \* history: a count was overtaken by a change, or the process that
               \* made a change stopped before it counted

store == <<tasks, deadline, notes>>
redis == <<cache, lock>>
history == <<scanned, failed, dropped, orphaned, overtaken>>
vars == <<store, redis, proc, shown, pushed, started, history>>

Task == 1 .. MaxTask
Day == 1 .. MaxDay
Note == Task \X Day

Open == {t \in Task : tasks[t] \notin {"COMPLETED", "ARCHIVED"}}
Unread == Cardinality({n \in Note : notes[n] = "UNREAD"})

Idle == [pc |-> "idle", day |-> 0, task |-> 0, batch |-> {}, more |-> FALSE,
         count |-> 0, tries |-> 0]

Init ==
    /\ tasks = [t \in Task |-> "TODO"]
    /\ deadline \in [Task -> 0 .. MaxDay]
    /\ notes = [n \in Note |-> "NONE"]
    /\ cache = None /\ lock = None
    /\ proc = [p \in Proc |-> Idle]
    /\ shown = None
    /\ pushed = [n \in Note |-> 0]
    /\ started = 0
    /\ scanned = {} /\ failed = {} /\ dropped = {} /\ orphaned = {}
    /\ overtaken = FALSE

More ==
    /\ started < MaxStart
    /\ started' = started + 1

\* A free process takes a request, or a run of the scan.
Arrive(p) == proc[p].pc = "idle" /\ More

At(p, label) == proc[p].pc = label
Goto(p, label) == proc' = [proc EXCEPT ![p].pc = label]

\* A process that changes the notifications overtakes those that have counted.
Overtake(p) ==
    overtaken' = (overtaken \/ \E q \in Proc \ {p} :
                                  proc[q].pc \in {"store", "emit", "fill"})

-----------------------------------------------------------------------------
\* OverdueNotificationScheduler.runDailyScan

StartScan(p, d) ==
    /\ Arrive(p)
    /\ proc' = [proc EXCEPT ![p] = [Idle EXCEPT !.pc = "scan", !.day = d, !.more = TRUE]]
    /\ UNCHANGED <<store, redis, shown, pushed, history>>

\* Fault: archived tasks are scanned too.
PageOfAll(cursor, d) ==
    LET rows == {t \in Task : tasks[t] # "COMPLETED" /\ deadline[t] <= d /\ t > cursor}
    IN  {t \in rows : Cardinality({u \in rows : u <= t}) <= BatchSize}

\* The deadline may be earlier on the same day: the filter is wider than what
\* computeOverdueDays accepts.
Page(cursor, d) ==
    LET rows == {t \in Open : deadline[t] <= d /\ t > cursor}
    IN  {t \in rows : Cardinality({u \in rows : u <= t}) <= BatchSize}

\* Fault: a full page is taken for the last one.
NextPageOnly(p) ==
    LET page == Page(proc[p].task, proc[p].day) IN
    /\ At(p, "scan") /\ proc[p].batch = {} /\ proc[p].more
    /\ proc' = [proc EXCEPT ![p].batch = page, ![p].more = Cardinality(page) > BatchSize]
    /\ UNCHANGED <<store, redis, shown, pushed, started, history>>

NextPage(p) ==
    LET page == Page(proc[p].task, proc[p].day) IN
    /\ At(p, "scan") /\ proc[p].batch = {} /\ proc[p].more
    /\ proc' = [proc EXCEPT ![p].batch = page, ![p].more = Cardinality(page) = BatchSize]
    /\ UNCHANGED <<store, redis, shown, pushed, started, history>>

EndScan(p) ==
    /\ At(p, "scan") /\ proc[p].batch = {} /\ ~proc[p].more
    /\ scanned' = scanned \union {proc[p].day}
    /\ proc' = [proc EXCEPT ![p] = Idle]
    /\ UNCHANGED <<store, redis, shown, pushed, started, failed, dropped, orphaned, overtaken>>

\* The scan goes on to the next row of its page.
Row(p, t) ==
    /\ At(p, "scan")
    /\ t \in proc[p].batch
    /\ \A u \in proc[p].batch : t <= u

Advance(p, t, label) ==
    proc' = [proc EXCEPT ![p].pc = label, ![p].task = t, ![p].batch = @ \ {t}]

\* The deadline is not a day ago, or today's notification exists already.
SkipRow(p, t) ==
    /\ Row(p, t)
    /\ deadline[t] >= proc[p].day \/ notes[<<t, proc[p].day>>] # "NONE"
    /\ Advance(p, t, "scan")
    /\ UNCHANGED <<store, redis, shown, pushed, started, history>>

\* Fault: a row that was there already is pushed too.
InsertOrPushAgain(p, t) ==
    /\ Row(p, t)
    /\ deadline[t] < proc[p].day
    /\ notes' = [notes EXCEPT ![<<t, proc[p].day>>] = IF @ = "NONE" THEN "UNREAD" ELSE @]
    /\ Advance(p, t, "push")
    /\ Overtake(p)
    /\ UNCHANGED <<tasks, deadline, redis, shown, pushed, started, scanned, failed, dropped,
                   orphaned>>

\* INSERT ... ON CONFLICT: only an inserted row is pushed.
InsertRow(p, t) ==
    /\ Row(p, t)
    /\ deadline[t] < proc[p].day
    /\ notes[<<t, proc[p].day>>] = "NONE"
    /\ notes' = [notes EXCEPT ![<<t, proc[p].day>>] = "UNREAD"]
    /\ Advance(p, t, "push")
    /\ Overtake(p)
    /\ UNCHANGED <<tasks, deadline, redis, shown, pushed, started, scanned, failed, dropped,
                   orphaned>>

\* The catch of the loop: the scan goes on.
FailRow(p, t) ==
    /\ Row(p, t)
    /\ deadline[t] < proc[p].day
    /\ failed' = failed \union {<<t, proc[p].day>>}
    /\ Advance(p, t, "scan")
    /\ UNCHANGED <<store, redis, shown, pushed, started, scanned, dropped, orphaned, overtaken>>

\* dispatch
Push(p) ==
    /\ At(p, "push")
    /\ pushed' = [pushed EXCEPT ![<<proc[p].task, proc[p].day>>] = @ + 1]
    /\ Goto(p, "count")
    /\ UNCHANGED <<store, redis, shown, started, history>>

-----------------------------------------------------------------------------
\* emitUnreadCount, called by the scan and by the requests

Return(p) ==
    proc' = [proc EXCEPT ![p] = IF proc[p].day = 0 THEN Idle
                                ELSE [proc[p] EXCEPT !.pc = "scan", !.count = 0]]

Count(p) ==
    /\ At(p, "count")
    /\ proc' = [proc EXCEPT ![p].pc = "store", ![p].count = Unread]
    /\ UNCHANGED <<store, redis, shown, pushed, started, history>>

Store(p) ==
    /\ At(p, "store")
    /\ cache' = proc[p].count
    /\ Goto(p, "emit")
    /\ UNCHANGED <<store, lock, shown, pushed, started, history>>

Emit(p) ==
    /\ At(p, "emit")
    /\ shown' = proc[p].count
    /\ Return(p)
    /\ UNCHANGED <<store, redis, pushed, started, history>>

\* The catch: the database or Redis does not answer.
RefreshFails(p) ==
    /\ proc[p].pc \in {"count", "store"}
    /\ overtaken' = TRUE
    /\ Return(p)
    /\ UNCHANGED <<store, redis, shown, pushed, started, scanned, failed, dropped, orphaned>>

-----------------------------------------------------------------------------
\* The routes.  A notification or a task that is not found is a 404.

ReadNote(p, n) ==
    /\ Arrive(p)
    /\ notes[n] # "NONE"
    /\ notes' = [notes EXCEPT ![n] = IF @ = "UNREAD" THEN "READ" ELSE @]
    /\ Goto(p, "count")
    /\ Overtake(p)
    /\ UNCHANGED <<tasks, deadline, redis, shown, pushed, scanned, failed, dropped,
                   orphaned>>

\* Fault: the badge is not counted again.
DismissOnly(p, n) ==
    /\ Arrive(p)
    /\ notes[n] \in {"UNREAD", "READ"}
    /\ notes' = [notes EXCEPT ![n] = "DISMISSED"]
    /\ UNCHANGED <<tasks, deadline, redis, proc, shown, pushed, history>>

DismissNote(p, n) ==
    /\ Arrive(p)
    /\ notes[n] \in {"UNREAD", "READ"}
    /\ notes' = [notes EXCEPT ![n] = "DISMISSED"]
    /\ Goto(p, "count")
    /\ Overtake(p)
    /\ UNCHANGED <<tasks, deadline, redis, shown, pushed, scanned, failed, dropped,
                   orphaned>>

\* DELETE /tasks/:taskId: archive, dismiss and count are three statements.
Archive(p, t) ==
    /\ Arrive(p)
    /\ tasks[t] # "ARCHIVED"
    /\ tasks' = [tasks EXCEPT ![t] = "ARCHIVED"]
    /\ proc' = [proc EXCEPT ![p].pc = "dismiss", ![p].task = t]
    /\ orphaned' = IF \E q \in Proc : t \in proc[q].batch
                   THEN orphaned \union {t} ELSE orphaned
    /\ UNCHANGED <<deadline, notes, redis, shown, pushed, scanned, failed, dropped,
                   overtaken>>

DismissTask(p) ==
    /\ At(p, "dismiss")
    /\ notes' = [n \in Note |-> IF n[1] = proc[p].task /\ notes[n] # "NONE"
                                THEN "DISMISSED" ELSE notes[n]]
    /\ proc' = [proc EXCEPT ![p].pc = "count", ![p].task = 0]
    /\ Overtake(p)
    /\ UNCHANGED <<tasks, deadline, redis, shown, pushed, started, scanned, failed, dropped,
                   orphaned>>

\* Another service completes a task; its notifications stay.
Complete(t) ==
    /\ More
    /\ t \in Open
    /\ tasks' = [tasks EXCEPT ![t] = "COMPLETED"]
    /\ UNCHANGED <<deadline, notes, redis, proc, shown, pushed, history>>

-----------------------------------------------------------------------------
\* NotificationBadgeCache.getOrCompute; a hit answers at once.

Miss(p) ==
    /\ Arrive(p)
    /\ cache = None
    /\ Goto(p, "lock")
    /\ UNCHANGED <<store, redis, shown, pushed, history>>

Lock(p) ==
    /\ At(p, "lock")
    /\ IF lock = None
       THEN lock' = p /\ Goto(p, "compute")
       ELSE lock' = lock /\ Goto(p, "wait")
    /\ UNCHANGED <<store, cache, shown, pushed, started, history>>

Compute(p) ==
    /\ At(p, "compute")
    /\ \/ proc' = [proc EXCEPT ![p].pc = "fill", ![p].count = Unread]
       \/ Goto(p, "check")
    /\ UNCHANGED <<store, redis, shown, pushed, started, history>>

Fill(p) ==
    /\ At(p, "fill")
    /\ cache' = proc[p].count
    /\ proc' = [proc EXCEPT ![p].pc = "check", ![p].count = 0]
    /\ UNCHANGED <<store, lock, shown, pushed, started, history>>

\* The token is read ...
Check(p) ==
    /\ At(p, "check")
    /\ Goto(p, IF lock = p THEN "release" ELSE "idle")
    /\ UNCHANGED <<store, redis, shown, pushed, started, history>>

\* ... and then the lock is deleted, whosever it is by now.
Release(p) ==
    /\ At(p, "release")
    /\ lock' = None
    /\ Goto(p, "idle")
    /\ UNCHANGED <<store, cache, shown, pushed, started, history>>

\* Fault: it looks until the cache is filled.
WaitForEver(p) ==
    /\ At(p, "wait")
    /\ cache # None
    /\ proc' = [proc EXCEPT ![p] = Idle]
    /\ UNCHANGED <<store, redis, shown, pushed, started, history>>

\* After the last look the count is computed without the lock and not cached.
Wait(p) ==
    /\ At(p, "wait")
    /\ IF cache # None \/ proc[p].tries = Retries
       THEN proc' = [proc EXCEPT ![p] = Idle]
       ELSE proc' = [proc EXCEPT ![p].tries = @ + 1]
    /\ UNCHANGED <<store, redis, shown, pushed, started, history>>

-----------------------------------------------------------------------------
ExpireCache ==
    /\ cache # None
    /\ cache' = None
    /\ UNCHANGED <<store, lock, proc, shown, pushed, started, history>>

ExpireLock ==
    /\ lock # None
    /\ lock' = None
    /\ UNCHANGED <<store, cache, proc, shown, pushed, started, history>>

\* The instance of a process stops.
Stop(p) ==
    /\ ~At(p, "idle")
    /\ proc' = [proc EXCEPT ![p] = Idle]
    /\ dropped' = IF At(p, "push") THEN dropped \union {<<proc[p].task, proc[p].day>>}
                  ELSE dropped
    /\ orphaned' = IF At(p, "dismiss") THEN orphaned \union {proc[p].task} ELSE orphaned
    /\ overtaken' = (overtaken \/ proc[p].pc \in {"push", "count", "store", "emit"})
    /\ UNCHANGED <<store, redis, shown, pushed, started, scanned, failed>>

Scan(p) ==
    \/ NextPage(p)
    \/ EndScan(p)
    \/ \E t \in Task : SkipRow(p, t) \/ InsertRow(p, t) \/ FailRow(p, t)
    \/ Push(p)

Refresh(p) == Count(p) \/ Store(p) \/ Emit(p) \/ RefreshFails(p)

Badge(p) == Lock(p) \/ Compute(p) \/ Fill(p) \/ Check(p) \/ Release(p) \/ Wait(p)

Start(p) ==
    \/ \E d \in Day : StartScan(p, d)
    \/ \E n \in Note : ReadNote(p, n) \/ DismissNote(p, n)
    \/ \E t \in Task : Archive(p, t)
    \/ Miss(p)

Next ==
    \/ \E p \in Proc : Start(p) \/ Scan(p) \/ Refresh(p) \/ DismissTask(p) \/ Badge(p) \/ Stop(p)
    \/ \E t \in Task : Complete(t)
    \/ ExpireCache
    \/ ExpireLock

\* A process that waits for the database, Redis or a timer goes on.
Fairness == \A p \in Proc : WF_vars(Badge(p))

Spec == Init /\ [][Next]_vars /\ Fairness

-----------------------------------------------------------------------------
Label == {"idle", "scan", "push", "count", "store", "emit", "dismiss",
          "lock", "compute", "fill", "check", "release", "wait"}

\* Types.
TypeOK ==
    /\ tasks \in [Task -> {"TODO", "COMPLETED", "ARCHIVED"}]
    /\ deadline \in [Task -> 0 .. MaxDay]
    /\ notes \in [Note -> {"NONE", "UNREAD", "READ", "DISMISSED"}]
    /\ cache \in Nat \union {None}
    /\ lock \in Proc \union {None}
    /\ proc \in [Proc -> [pc: Label, day: 0 .. MaxDay, task: 0 .. MaxTask,
                          batch: SUBSET Task, more: BOOLEAN, count: Nat,
                          tries: 0 .. Retries]]
    /\ shown \in Nat \union {None}
    /\ pushed \in [Note -> Nat]
    /\ started \in 0 .. MaxStart
    /\ scanned \subseteq Day
    /\ failed \subseteq Note /\ dropped \subseteq Note /\ orphaned \subseteq Task
    /\ overtaken \in BOOLEAN

\* A notification is pushed once, however often and by however many instances the
\* day is scanned; only a scan that stops between the insert and the push loses it.
PushedOnce ==
    \A n \in Note :
        LET pushing == {p \in Proc : At(p, "push") /\ <<proc[p].task, proc[p].day>> = n}
        IN  pushed[n] + Cardinality(pushing) + (IF n \in dropped THEN 1 ELSE 0)
              = (IF notes[n] = "NONE" THEN 0 ELSE 1)

\* A scan that comes to its end has left a notification for every open task that is
\* overdue, whatever was completed or deleted while it paged, unless its row failed.
ScanCoversOverdue ==
    \A d \in scanned, t \in Open :
        deadline[t] < d => notes[<<t, d>>] # "NONE" \/ <<t, d>> \in failed

\* Deleting a task takes its notifications away, and no scan brings one back that
\* did not have the task at hand already.
ArchivedIsQuiet ==
    \A n \in Note :
        /\ tasks[n[1]] = "ARCHIVED"
        /\ n[1] \notin orphaned
        /\ \A p \in Proc : ~(At(p, "dismiss") /\ proc[p].task = n[1])
        => notes[n] \in {"NONE", "DISMISSED"}

\* Once every process is done, the cached badge and the one the clients show are the
\* number of unread notifications, unless a count was overtaken by a change.
BadgeAgrees ==
    (\A p \in Proc : At(p, "idle")) /\ ~overtaken =>
        /\ cache \in {None, Unread}
        /\ shown \in {None, Unread}

\* A reader of the badge is answered though the holder of the lock has stopped.
BadgeAnswered == \A p \in Proc : At(p, "lock") ~> At(p, "idle")
=============================================================================
