------------------------------ MODULE TodayTasks ------------------------------
(***************************************************************************)
(* One tab of the app: the pages Today, Important, Archive and History    *)
(* over the service of TaskService, with useTasks, the focus timer of      *)
(* useTaskRuntime, the creation form, the dialog of a zombie task and the  *)
(* undo of a toast.                                                        *)
(*                                                                         *)
(* An async function of the page is an entry of ops: it waits for a        *)
(* request, or for the answer to it, and keeps the list it captured when   *)
(* the button was clicked.  What it does when its page has been left is    *)
(* lost: React ignores the state of an unmounted component (live).         *)
(*                                                                         *)
(* The timer map is in memory and in localStorage at once; a page that is  *)
(* opened again reads what it wrote.  Other tabs are left out.             *)
(*                                                                         *)
(* Definitions headed "Fault" are deliberate mistakes of the kind a change *)
(* to the code could make; Next uses none of them.                         *)
(***************************************************************************)
EXTENDS TaskService, Functions

CONSTANTS
    Zombie,      \* tasks with delayCount >= 5
    Overdue,     \* tasks whose deadline is past (label D+n)
    Important,   \* tasks with importance >= 4
    NoTask,
    MaxOp,       \* bound: async functions at a time
    MaxClick,    \* bound: what the user does over the whole run, but for
                 \* the decision in a dialog, closing it, and undoing
    MaxLost,     \* bound: requests and answers that are lost
    MaxTime      \* bound: the clock of the focus timer

ASSUME PageAssumption ==
    /\ Zombie \union Overdue \union Important \subseteq Task
    /\ Urgent \subseteq Important
    /\ NoTask \notin Task
    /\ {MaxOp, MaxClick, MaxLost, MaxTime} \subseteq Nat

Slot == 1 .. MaxOp
Page == {"today", "important", "archive", "history"}

VARIABLES
    db,          \* the service
    page,        \* App: the page that is shown
    list,        \* useTasks: tasks, or the items of the archive page
    isLoading,   \* useTasks: no list has been loaded yet
    armed,       \* useTasks: the timer of the debounced load is set
    ops,         \* the async functions under way
    runtime,     \* useTaskRuntime: map
    recorded,    \* storage: the tasks of sigma_completed
    form,        \* TodayTasksPage: addOpen, creating, serverError
    modal,       \* zombieTask
    voiceOpen,   \* App: the voice dialog is shown (VoiceCapture)
    undo,        \* what the button of the toast would do
    clock, clicks, lost,
    fresh,       \* history: since the last load on its own, nothing is known to have disturbed the list
    missed,      \* history: completing requests of each task that never arrived
    moved        \* history: tasks that were archived or restored

timer == <<runtime, recorded, clock>>
shell == <<form, modal, undo, voiceOpen>>
history == <<fresh, missed, moved>>
vars == <<db, page, list, isLoading, armed, ops, timer, shell, clicks, lost, history>>

Free == [kind |-> "none"]
NoUndo == [kind |-> "none"]
Closed == [open |-> FALSE, creating |-> FALSE, error |-> FALSE]
emptyEntry == [status |-> "IDLE", elapsed |-> 0, since |-> 0]

Init ==
    /\ db = StartOfDay
    /\ page = "today" /\ list = <<>> /\ isLoading = TRUE /\ armed = TRUE
    /\ ops = [s \in Slot |-> Free]
    /\ runtime = [t \in Task |-> emptyEntry]
    /\ recorded = {} /\ form = Closed /\ modal = NoTask /\ undo = NoUndo /\ voiceOpen = FALSE
    /\ clock = 0 /\ clicks = 0 /\ lost = 0
    /\ fresh = FALSE /\ missed = [t \in Task |-> 0] /\ moved = {}

----------------------------------------------------------------------------
(* The async functions. *)

Busy == {s \in Slot : ops[s] # Free}
Overlapped(o) == IF o = Free THEN o ELSE [o EXCEPT !.alone = FALSE]

\* A call starts; snapshot is the list in its closure.
Started(kind, arg, snapshot, at) ==
    [ops EXCEPT ![Min(Slot \ Busy)] =
        [kind |-> kind, arg |-> arg, list |-> snapshot, at |-> at, live |-> TRUE, alone |-> Busy = {}]]
Begin(kind, arg, snapshot, at) ==
    /\ Busy # Slot
    /\ ops' = [s \in Slot |-> IF s \in Busy THEN Overlapped(ops[s])
                              ELSE Started(kind, arg, snapshot, at)[s]]

Click == clicks < MaxClick /\ clicks' = clicks + 1

\* useTasks.mutate with the change of each operation.
optimistic(kind, t, l) ==
    IF t \notin DOMAIN l THEN l
    ELSE IF kind = "snooze" THEN [l EXCEPT ![t] = @ + 1]
    ELSE Restrict(l, DOMAIN l \ {t})
mutate(kind, t) ==
    /\ list' = optimistic(kind, t, list)
    /\ Begin(kind, t, list, "request")

----------------------------------------------------------------------------
(* What the user sees. *)

\* Only the first priority task has a card; a zombie is in the list below.
priorityTask == LET urgent == DOMAIN list \intersect (Urgent \ Zombie)
                IN IF urgent = {} THEN {} ELSE {CHOOSE t \in urgent : TRUE}
pending == DOMAIN list \ (Urgent \ Zombie)
important == DOMAIN list \intersect Important
visible == DOMAIN list
Shown == CASE page = "today" -> priorityTask \union pending
           [] page = "important" -> important
           [] page = "archive" -> visible
           [] page = "history" -> {}

deriveDisplayStatus(t) ==
    CASE runtime[t].status = "RUNNING" -> "ACTIVE"
      [] runtime[t].status = "PAUSED" -> "PAUSED"
      [] t \in Overdue /\ runtime[t].status \notin {"RUNNING", "PAUSED"} -> "OVERDUE"
      [] OTHER -> "IDLE"
taskActionButtonSet(t) ==
    CASE deriveDisplayStatus(t) = "ACTIVE" -> {"pause", "finish"}
      [] deriveDisplayStatus(t) \in {"PAUSED", "OVERDUE"} -> {"resume", "finish"}
      [] deriveDisplayStatus(t) = "IDLE" -> {"start"}

isEmpty == ~isLoading /\ DOMAIN list = {}
Uncovered == ~form.open /\ modal = NoTask /\ ~voiceOpen
Listed(t) == page = "today" /\ Uncovered /\ t \in Shown
Button(b, t) == Listed(t) /\ b \in taskActionButtonSet(t) /\ Click

----------------------------------------------------------------------------
(* The focus timer. *)

displaySeconds(e) == IF e.status = "RUNNING" THEN e.elapsed + (clock - e.since) ELSE e.elapsed

startEntry == [status |-> "RUNNING", elapsed |-> 0, since |-> clock]
pauseEntry(e) == IF e.status # "RUNNING" THEN e
                 ELSE [status |-> "PAUSED", elapsed |-> displaySeconds(e), since |-> 0]
resumeEntry(e) == IF e.status = "PAUSED" THEN [e EXCEPT !.status = "RUNNING", !.since = clock]
                  ELSE startEntry
finishEntry(e) == IF e.status \notin {"RUNNING", "PAUSED"} THEN e
                  ELSE [status |-> "COMPLETED", elapsed |-> displaySeconds(e), since |-> 0]

\* Fault: the others keep running.
PauseNobody == runtime
\* The keys are strings and the id a number, so that the task itself is not
\* exempt either; it is started right after.
pauseOthers == [u \in Task |-> pauseEntry(runtime[u])]

Steady == UNCHANGED <<db, page, isLoading, armed, lost, missed>>
TimerOnly == Steady /\ UNCHANGED <<list, ops, recorded, clock, shell, fresh, moved>>

Start(t) == Button("start", t) /\ runtime' = [pauseOthers EXCEPT ![t] = startEntry] /\ TimerOnly
Resume(t) == Button("resume", t) /\ runtime' = [pauseOthers EXCEPT ![t] = resumeEntry(@)] /\ TimerOnly
Pause(t) == Button("pause", t) /\ runtime' = [runtime EXCEPT ![t] = pauseEntry(@)] /\ TimerOnly

Tick ==
    /\ clock < MaxTime
    /\ clock' = clock + 1
    /\ Steady /\ UNCHANGED <<list, ops, runtime, recorded, shell, clicks, fresh, moved>>

----------------------------------------------------------------------------
(* Finishing and the other operations on a listed task. *)

appendCompleted(t) == recorded' = recorded \union {t}

handleFinish(t) ==
    /\ runtime' = [runtime EXCEPT ![t] = finishEntry(@)]
    /\ appendCompleted(t)
    /\ Begin("refund", t, list, "request")
    /\ fresh' = (fresh /\ Busy = {})
    /\ Steady /\ UNCHANGED <<list, clock, shell, moved>>

Finish(t) == Button("finish", t) /\ handleFinish(t)

\* The mini window has no buttons of its own for the timer, and no dialog covers it.
MiniFinish(t) == page = "today" /\ t \in Shown /\ Click /\ handleFinish(t)

\* The tick box of a card: a short animation, then completeTask.  Only the cards of
\* the page Important have one that completes.
handleCheck(t) ==
    /\ ~ \E s \in Busy : ops[s].kind = "check" /\ ops[s].arg = t /\ ops[s].live
    /\ Click
    /\ Begin("check", t, list, "done")
    /\ fresh' = (fresh /\ Busy = {})
Check(t) ==
    /\ page = "important" /\ Uncovered /\ t \in Shown
    /\ handleCheck(t)
    /\ Steady /\ UNCHANGED <<list, timer, shell, moved>>

onCardClick(t) == t \in Zombie /\ modal' = t
OpenZombie(t) ==
    /\ page \in {"today", "important"} /\ Uncovered /\ t \in Shown
    /\ Click /\ onCardClick(t)
    /\ Steady /\ UNCHANGED <<list, ops, timer, form, undo, voiceOpen, fresh, moved>>
CloseZombie ==
    /\ modal # NoTask /\ ~voiceOpen /\ modal' = NoTask
    /\ Steady /\ UNCHANGED <<list, ops, timer, form, undo, voiceOpen, clicks, fresh, moved>>

KeepZombie ==
    /\ modal # NoTask /\ ~voiceOpen /\ modal' = NoTask
    /\ mutate("snooze", modal)
    /\ fresh' = (fresh /\ Busy = {} /\ (undo # NoUndo => undo.arg # modal))
    /\ Steady /\ UNCHANGED <<timer, form, undo, voiceOpen, clicks, moved>>
ArchiveZombie ==
    /\ modal # NoTask /\ ~voiceOpen /\ modal' = NoTask
    /\ mutate("archive", modal)
    /\ moved' = moved \union {modal}
    /\ undo' = CASE page = "today" -> undo
                 [] page # "today" /\ modal \in DOMAIN list ->
                      [kind |-> "restore", arg |-> modal, delay |-> list[modal], live |-> TRUE]
                 [] OTHER -> NoUndo
    /\ fresh' = (fresh /\ Busy = {})
    /\ Steady /\ UNCHANGED <<timer, form, voiceOpen, clicks>>

(* The archive page: both calls are sent and forgotten. *)
drop(t, call, after) ==
    /\ page = "archive" /\ Uncovered /\ t \in Shown /\ Click
    /\ list' = optimistic("drop", t, list)
    /\ Begin(call, t, <<>>, "request")
    /\ undo' = after
    /\ fresh' = (fresh /\ Busy = {})
    /\ Steady /\ UNCHANGED <<timer, form, modal, voiceOpen>>
restore(t) == drop(t, "restore", NoUndo) /\ moved' = moved \union {t}
remove(t) ==
    /\ drop(t, "delete", [kind |-> "recreate", arg |-> t, delay |-> IF t \in DOMAIN list THEN list[t] ELSE 0, live |-> TRUE])
    /\ UNCHANGED moved

\* The task comes back as it was when it went, unless it is listed.
Reinserted(l, t, delay) == [u \in DOMAIN l \union {t} |-> IF u \in DOMAIN l THEN l[u] ELSE delay]
Undo ==
    /\ undo # NoUndo /\ undo' = NoUndo
    /\ list' = IF undo.live THEN Reinserted(list, undo.arg, undo.delay) ELSE list
    /\ Begin(undo.kind, undo.arg, <<>>, "request")
    /\ fresh' = (fresh /\ Busy = {} /\ undo.live)
    /\ Steady /\ UNCHANGED <<timer, form, modal, voiceOpen, clicks, moved>>
ToastGone ==
    /\ undo # NoUndo /\ undo' = NoUndo
    /\ Steady /\ UNCHANGED <<list, ops, timer, form, modal, voiceOpen, clicks, fresh, moved>>

----------------------------------------------------------------------------
(* Creation, available time, loading. *)

FormOnly == Steady /\ UNCHANGED <<list, ops, timer, modal, undo, voiceOpen, fresh, moved>>

OpenAdd == page = "today" /\ Uncovered /\ Click /\ form' = [form EXCEPT !.open = TRUE] /\ FormOnly
CloseAdd == form.open /\ ~voiceOpen /\ form' = [form EXCEPT !.open = FALSE, !.error = FALSE] /\ UNCHANGED clicks /\ FormOnly
EditForm == form.open /\ ~voiceOpen /\ form.error /\ form' = [form EXCEPT !.error = FALSE] /\ UNCHANGED clicks /\ FormOnly

hasPriorityTask == DOMAIN list \intersect Urgent # {}

handleCreate(t) ==
    /\ db.status[t] = "NONE" /\ ~ \E s \in Busy : ops[s].kind \in {"post", "voice"} /\ ops[s].arg = t
    /\ Click
    /\ form' = [form EXCEPT !.creating = TRUE, !.error = FALSE]
    /\ Begin("post", t, <<>>, "request")
    /\ fresh' = (fresh /\ Busy = {})
    /\ Steady /\ UNCHANGED <<list, timer, modal, undo, voiceOpen, moved>>
SubmitForm(t) ==
    /\ form.open /\ ~voiceOpen /\ ~form.creating /\ ~form.error
    /\ t \in Urgent => ~hasPriorityTask
    /\ handleCreate(t)
QuickAdd(t) ==
    /\ page = "today" /\ Uncovered /\ t \notin Urgent
    /\ ~isEmpty
    /\ handleCreate(t)

updateAvailable(seconds) ==
    /\ page = "today" /\ Uncovered /\ Click
    /\ ~isEmpty
    /\ Begin("set", seconds, <<>>, "request")
    /\ fresh' = (fresh /\ Busy = {})
    /\ Steady /\ UNCHANGED <<list, timer, shell, moved>>

\* The sliders of energy and time set the timer of the load again.
ChangeContext ==
    /\ page = "today" /\ Uncovered /\ ~isEmpty /\ ~armed /\ Click
    /\ armed' = TRUE
    /\ UNCHANGED <<db, page, list, isLoading, ops, timer, shell, lost, history>>
fetchTasks ==
    /\ armed /\ armed' = FALSE
    /\ Begin("fetch", NoTask, <<>>, "request")
    /\ fresh' = (fresh /\ Busy = {})
    /\ UNCHANGED <<db, page, list, isLoading, timer, shell, clicks, lost, missed, moved>>

\* What a page loads at once, and not by the timer of useTasks.
Opening(p) == CASE p = "archive" -> "items"
                [] p = "history" -> "completed"
                [] OTHER -> "none"

\* Another page is shown: the old one is unmounted, its timer cleared.
Show(p) ==
    /\ page' = p /\ list' = <<>> /\ isLoading' = TRUE /\ fresh' = FALSE
    /\ form' = Closed /\ modal' = NoTask
    /\ armed' = (Opening(p) = "none")
    /\ undo' = IF undo = NoUndo THEN undo ELSE [undo EXCEPT !.live = FALSE]
    /\ Opening(p) # "none" => Busy # Slot
    /\ ops' = [s \in Slot |->
                 IF s \in Busy THEN [ops[s] EXCEPT !.live = FALSE, !.alone = @ /\ Opening(p) = "none"]
                 ELSE IF Opening(p) # "none" THEN Started(Opening(p), NoTask, <<>>, "request")[s] ELSE Free]
    /\ UNCHANGED <<db, timer, lost, missed, moved>>
Navigate(p) == p # page /\ Uncovered /\ Click /\ Show(p) /\ UNCHANGED voiceOpen

----------------------------------------------------------------------------
(* The service and the network. *)

Refused(o) == \/ o.kind = "post" /\ CreateRefused(db, o.arg)
              \/ o.kind = "set" /\ SetRefused(db, o.arg)
Effect(o) ==
    CASE o.kind = "post" -> createTaskWithBudget(db, o.arg)
      [] o.kind = "voice" -> createUnchecked(db, o.arg)
      [] o.kind = "set" -> setAvailableTime(db, o.arg)
      [] o.kind = "delete" -> deleteTask(db, o.arg)
      [] o.kind = "recreate" -> recreateTask(db, o.arg)
      [] o.kind \in {"fetch", "items", "completed", "refetch"} -> db
      [] OTHER -> updateTaskStatus(db, o.arg, o.kind)
Answer(o) ==
    [o EXCEPT !.at = IF Refused(o) THEN "failed" ELSE "done",
              !.list = CASE o.kind \in {"fetch", "refetch"} -> ListOf(db, "PENDING")
                         [] o.kind = "items" -> ListOf(db, "ARCHIVED")
                         [] OTHER -> o.list]

PageStill == UNCHANGED <<page, list, isLoading, armed, timer, shell, clicks, moved>>

Serve(s) ==
    /\ s \in Busy /\ ops[s].at = "request"
    /\ db' = Effect(ops[s])
    /\ ops' = [ops EXCEPT ![s] = Answer(@)]
    /\ PageStill /\ UNCHANGED <<lost, fresh, missed>>

\* After which loss the page still agrees with the service.  completeTask that fails
\* after a refund that completed the task puts a completed task back into the list.
HarmlessRequest == {"fetch", "items", "completed", "refund", "complete", "snooze", "archive", "post", "set"}
HarmlessAnswer == {"fetch", "items", "completed", "refund", "restore", "delete", "recreate", "set"}

LoseRequest(s) ==
    /\ s \in Busy /\ ops[s].at = "request" /\ lost < MaxLost
    /\ lost' = lost + 1
    /\ ops' = [ops EXCEPT ![s].at = "failed"]
    /\ fresh' = (fresh /\ ops[s].kind \in HarmlessRequest
                       /\ (ops[s].kind = "complete" => db.status[ops[s].arg] # "COMPLETED"))
    /\ missed' = IF ops[s].kind \in {"refund", "complete"} THEN [missed EXCEPT ![ops[s].arg] = @ + 1] ELSE missed
    /\ PageStill /\ UNCHANGED db
LoseAnswer(s) ==
    /\ s \in Busy /\ ops[s].at = "done" /\ ops[s].kind # "check" /\ lost < MaxLost
    /\ lost' = lost + 1
    /\ ops' = [ops EXCEPT ![s].at = "failed"]
    /\ fresh' = (fresh /\ ops[s].kind \in HarmlessAnswer)
    /\ PageStill /\ UNCHANGED <<db, missed>>

----------------------------------------------------------------------------
(* The functions go on. *)

Answered(s, kinds) == s \in Busy /\ ops[s].kind \in kinds /\ ops[s].at # "request"
End(s) == ops' = [ops EXCEPT ![s] = Free]
Good(s) == ops[s].live /\ ops[s].at = "done"
Quiet == UNCHANGED <<db, page, armed, timer, modal, undo, voiceOpen, clicks, lost, missed, moved>>

\* Fault: a refund that fails ends the function.
CompleteIfRefunded(s) ==
    /\ Answered(s, {"refund", "check"})
    /\ ops' = IF ops[s].at = "done" THEN [ops EXCEPT ![s].kind = "complete", ![s].at = "request"]
              ELSE [ops EXCEPT ![s] = Free]
    /\ list' = IF ops[s].live THEN optimistic("complete", ops[s].arg, ops[s].list) ELSE list
    /\ Quiet /\ UNCHANGED <<isLoading, form, fresh>>

\* handleFinish after the refund, whatever came of it; and the end of the animation
\* of a tick box.  completeTask is the one of the click: so is its list.
CompleteNow(s) ==
    /\ Answered(s, {"refund", "check"})
    /\ ops' = [ops EXCEPT ![s].kind = "complete", ![s].at = "request"]
    /\ list' = IF ops[s].live THEN optimistic("complete", ops[s].arg, ops[s].list) ELSE list
    /\ Quiet /\ UNCHANGED <<isLoading, form, fresh>>

\* Fault: nothing is rolled back.
SettleWithoutRollback(s) ==
    /\ Answered(s, {"complete", "snooze", "archive"})
    /\ End(s) /\ Quiet /\ UNCHANGED <<list, isLoading, form, fresh>>

\* The catch of mutate: the list of the click.
Settle(s) ==
    /\ Answered(s, {"complete", "snooze", "archive"})
    /\ list' = IF ops[s].live /\ ops[s].at = "failed" THEN ops[s].list ELSE list
    /\ End(s) /\ Quiet /\ UNCHANGED <<isLoading, form, fresh>>

Load(s) ==
    /\ list' = IF Good(s) THEN ops[s].list ELSE list
    /\ isLoading' = (isLoading /\ ~ops[s].live)
    /\ fresh' = (fresh \/ (Good(s) /\ ops[s].alone))
Loaded(s) == Answered(s, {"fetch", "items"}) /\ Load(s) /\ End(s) /\ Quiet /\ UNCHANGED form

\* The page History: the record of this browser before what the service answers, a
\* list that never changes and is left out, or nothing when the request fails.
loadCompleted == [t \in recorded |-> 0]
CompletedLoaded(s) ==
    /\ Answered(s, {"completed"})
    /\ list' = IF ops[s].live THEN loadCompleted ELSE list
    /\ isLoading' = (isLoading /\ ~ops[s].live)
    /\ fresh' = (fresh \/ (ops[s].live /\ ops[s].alone))
    /\ End(s) /\ Quiet /\ UNCHANGED form

Posted(s) ==
    /\ Answered(s, {"post"})
    /\ IF ops[s].at = "done"
       THEN ops' = [ops EXCEPT ![s].kind = "refetch", ![s].at = "request"] /\ UNCHANGED form
       ELSE /\ End(s)
            /\ form' = IF ops[s].live THEN [form EXCEPT !.creating = FALSE, !.error = TRUE] ELSE form
    /\ Quiet /\ UNCHANGED <<list, isLoading, fresh>>
Refetched(s) ==
    /\ Answered(s, {"refetch"})
    /\ Load(s)
    /\ form' = IF ops[s].live THEN [form EXCEPT !.creating = FALSE, !.open = FALSE] ELSE form
    /\ End(s) /\ Quiet

Forget(s) ==
    /\ Answered(s, {"restore", "delete", "recreate", "set"})
    /\ End(s) /\ Quiet /\ UNCHANGED <<list, isLoading, form, fresh>>

Deliver(s) ==
    CompleteNow(s) \/ Settle(s) \/ Loaded(s) \/ CompletedLoaded(s) \/ Posted(s) \/ Refetched(s) \/ Forget(s)

Next ==
    \/ \E t \in Task : \/ Start(t) \/ Pause(t) \/ Resume(t) \/ Finish(t) \/ MiniFinish(t) \/ Check(t)
                       \/ OpenZombie(t) \/ restore(t) \/ remove(t) \/ SubmitForm(t) \/ QuickAdd(t)
    \/ CloseZombie \/ KeepZombie \/ ArchiveZombie \/ Undo \/ ToastGone
    \/ OpenAdd \/ CloseAdd \/ EditForm \/ ChangeContext \/ fetchTasks \/ Tick
    \/ \E seconds \in Total : updateAvailable(seconds)
    \/ \E p \in Page : Navigate(p)
    \/ \E s \in Slot : Serve(s) \/ LoseRequest(s) \/ LoseAnswer(s) \/ Deliver(s)

\* The client gives a request 10 seconds; an answer or an error always comes.
Fairness == /\ \A s \in Slot : WF_vars(Serve(s)) /\ WF_vars(Deliver(s))
            /\ WF_vars(fetchTasks)
Spec == Init /\ [][Next]_vars /\ Fairness

----------------------------------------------------------------------------
(* Properties. *)

Kind == {"fetch", "items", "completed", "refund", "check", "complete", "snooze", "archive", "post", "refetch",
         "restore", "delete", "recreate", "set", "voice"}
IsOp(o) ==
    /\ o \in [kind : Kind, arg : Task \union Total \union {NoTask}, list : {o.list},
              at : {"request", "done", "failed"}, live : BOOLEAN, alone : BOOLEAN]
    /\ IsList(o.list)
Entry == [status : {"IDLE", "RUNNING", "PAUSED", "COMPLETED"}, elapsed : 0 .. clock, since : 0 .. clock]

\* Types; a timer entry has the start of an interval only while it runs.
TypeOK ==
    /\ db \in [status : [Task -> RowStatus], delay : [Task -> Nat], total : Total,
               unpriced : SUBSET Task]
    /\ page \in Page
    /\ IsList(list) /\ {isLoading, armed, fresh} \subseteq BOOLEAN
    /\ ops = [s \in Slot |-> ops[s]] /\ \A s \in Busy : IsOp(ops[s])
    /\ runtime \in [Task -> Entry]
    /\ \A t \in Task : runtime[t].since # 0 => runtime[t].status = "RUNNING"
    /\ recorded \union moved \subseteq Task /\ modal \in Task \union {NoTask}
    /\ undo \in {NoUndo} \union [kind : {"restore", "recreate"}, arg : Task, delay : Nat, live : BOOLEAN]
    /\ missed \in [Task -> Nat] /\ voiceOpen \in BOOLEAN
    /\ form \in [open : BOOLEAN, creating : BOOLEAN, error : BOOLEAN]
    /\ clock \in 0 .. MaxTime /\ clicks \in 0 .. MaxClick /\ lost \in 0 .. MaxLost

\* No second of the day is counted for two tasks, or twice for one: the times
\* that the cards show (and that a finish reports) add up to no more than has
\* passed, however starts, resumptions, pauses and finishes follow each other
\* (useTaskRuntime, "concurrent run limit").
TimeNotDoubled == SumFunction([t \in Task |-> displaySeconds(runtime[t])]) <= clock

\* A task in the record of finished tasks is completed for the service once its
\* calls have ended, unless both requests that complete it (the refund and
\* completeTask) got lost, also when the page was left in between or the refund
\* failed; a task that was archived or restored is apart (TodayTasksPage.handleFinish).
FinishedIsCompleted ==
    \A t \in recorded \ moved :
        (missed[t] < 2 /\ \A s \in Busy : ops[s].arg # t) => db.status[t] = "COMPLETED"

\* When nothing is under way, the page shows what the service holds (History: what this
\* browser has recorded), also after requests and answers that were lost or refused and
\* rolled back: since a load that ran on its own no two functions have overlapped
\* (mutate starts from the list of its click), no answer to a change
\* was lost, completeTask did not fail after its refund, no task was put off while the toast
\* still offered it as it was before, and no undo came from a page that had been left.
ListAgrees ==
    (Busy = {} /\ fresh) =>
        list = CASE page = "archive" -> ListOf(db, "ARCHIVED")
                 [] page = "history" -> loadCompleted
                 [] OTHER -> ListOf(db, "PENDING")
================================================================================
