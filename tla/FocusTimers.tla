------------------------------ MODULE FocusTimers ------------------------------
(***************************************************************************)
(* The focus timers of TimerContext, over timerEngine, joined to the       *)
(* available time of AvailableTimeContext by GlobalStateProviders: the     *)
(* interval that ticks when the browser lets it, the catch-up when a       *)
(* hidden tab is shown again, and the completion that is sent to the       *)
(* server before the time that was saved is given back.                    *)
(*                                                                         *)
(* Clients call an operation when the button for it is shown, so while the *)
(* page is visible.  The clock is in the unit of the estimates and does    *)
(* not go back; remainingSeconds is the estimate less elapsedSeconds.      *)
(*                                                                         *)
(* Definitions headed "Fault" are deliberate mistakes of the kind a change *)
(* to the code could make; Next uses none of them.                         *)
(***************************************************************************)
EXTENDS Integers, FiniteSets, Functions

CONSTANTS
    Task,
    Est,         \* estimated_duration of each task
    Total,       \* what the user sets as the available time; 0 is one
    NoTask,
    MaxTime,     \* bound: seconds
    MaxClick     \* bound: what the user does

ASSUME TimerAssumption ==
    /\ Est \in [Task -> Nat \ {0}]
    /\ Total \subseteq Nat
    /\ NoTask \notin Task
    /\ {MaxTime, MaxClick} \subseteq Nat

VARIABLES
    now,
    visible, hiddenAt,
    timers, active,   \* the state of TimerProvider
    rendered,         \* stateRef: the timers of the last render
    calls,            \* the refund that waits for the server to record a completion
    avail,            \* the state of AvailableTimeProvider
    plan,             \* tasks it has reserved time for
    clicks,
    ran, away,        \* history: how long each timer has run, and how long on a hidden page
    hid, corrected,   \* history: timers that ran when the page was hidden, or when they were corrected
    settled,          \* history: tasks whose completion was recorded
    spoiled           \* history: a task left the plan while its refund stayed in, or the reverse

truth == <<ran, away, hid, corrected>>
account == <<avail, plan, settled, spoiled>>
screen == <<now, visible, hiddenAt>>
vars == <<screen, timers, active, rendered, calls, clicks, truth, account>>

Status == {"NONE", "RUNNING", "OVERTIME", "PAUSED", "COMPLETED"}
NoTimer == [status |-> "NONE", elapsed |-> 0, last |-> 0]
NoCall == -1
initialAvailability(total) == [total |-> total, allocated |-> 0, refunded |-> 0]

Init ==
    /\ now = 0 /\ visible = TRUE /\ hiddenAt = 0
    /\ timers = [t \in Task |-> NoTimer] /\ active = NoTask /\ rendered = timers
    /\ calls = [t \in Task |-> NoCall]
    /\ \E total \in Total : avail = initialAvailability(total)
    /\ plan = {} /\ clicks = 0
    /\ ran = [t \in Task |-> 0] /\ away = ran
    /\ hid = {} /\ corrected = {} /\ settled = {} /\ spoiled = FALSE

-----------------------------------------------------------------------------
(* timerEngine: one timer r of task t. *)

isTicking(r) == r.status \in {"RUNNING", "OVERTIME"}
Counted(r, seconds) == [r EXCEPT !.elapsed = @ + seconds, !.last = now]
Over(t, r, otherwise) == IF r.elapsed >= Est[t] THEN "OVERTIME" ELSE otherwise

\* Fault: a tick counts one second, however late it comes.
tickOnce(t, r) ==
    IF isTicking(r)
    THEN LET c == Counted(r, 1) IN [c EXCEPT !.status = Over(t, c, "RUNNING")]
    ELSE r

\* What has really passed since the last tick.
tick(t, r) ==
    IF isTicking(r)
    THEN LET c == Counted(r, now - r.last) IN [c EXCEPT !.status = Over(t, c, "RUNNING")]
    ELSE r

start(r) == IF r.status = "COMPLETED" THEN r ELSE [r EXCEPT !.status = "RUNNING", !.last = now]
pause(t, r) == IF isTicking(r) THEN [tick(t, r) EXCEPT !.status = "PAUSED"] ELSE r
resume(r) == IF r.status = "PAUSED" THEN start(r) ELSE r

\* Fault: a paused timer catches up as well.
gapWhatever(t, r, seconds) ==
    LET c == Counted(r, seconds) IN [c EXCEPT !.status = Over(t, c, @)]

applyHiddenGap(t, r, seconds) ==
    IF isTicking(r)
    THEN LET c == Counted(r, seconds) IN [c EXCEPT !.status = Over(t, c, @)]
    ELSE r

\* The last tick stays where it is.
correct(t, r, seconds) ==
    LET c == [r EXCEPT !.elapsed = seconds]
    IN  [c EXCEPT !.status = IF isTicking(r) THEN Over(t, c, @) ELSE @]

\* Fault: what has passed since the last tick is not counted.
completeUnsettled(t, r) == [r EXCEPT !.status = "COMPLETED"]

complete(t, r) == [tick(t, r) EXCEPT !.status = "COMPLETED"]
refundForCompletion(t, r) == IF r.elapsed < Est[t] THEN Est[t] - r.elapsed ELSE 0

-----------------------------------------------------------------------------
(* TimerContext. *)

\* A click is rendered before the next event; an interval or a change of visibility is
\* not, but is with the next click.
Click == visible /\ clicks < MaxClick /\ clicks' = clicks + 1 /\ UNCHANGED screen
Rendered(new) == timers' = new /\ rendered' = new

\* Fault: the timer that runs is left running.
OthersRun(t) == timers

OthersPaused(t) ==
    [u \in Task |-> IF u = active /\ u # t THEN pause(u, timers[u]) ELSE timers[u]]

startTimer(t) ==
    /\ Click /\ timers[t].status \in {"NONE", "PAUSED"}
    /\ Rendered([OthersPaused(t) EXCEPT ![t] = start(@)])
    /\ active' = t
    /\ UNCHANGED <<calls, truth, account>>

\* The task stays the active one.
pauseTimer(t) ==
    /\ Click /\ isTicking(timers[t])
    /\ Rendered([timers EXCEPT ![t] = pause(t, @)])
    /\ UNCHANGED <<active, calls, truth, account>>

resumeTimer(t) ==
    /\ Click /\ timers[t].status = "PAUSED"
    /\ Rendered([OthersPaused(t) EXCEPT ![t] = resume(@)])
    /\ active' = t
    /\ UNCHANGED <<calls, truth, account>>

\* With the time that the task has really run.
correctDrift(t) ==
    /\ Click /\ timers[t].status \notin {"NONE", "COMPLETED"}
    /\ Rendered([timers EXCEPT ![t] = correct(t, @, ran[t])])
    /\ corrected' = IF isTicking(timers[t]) THEN corrected \union {t} ELSE corrected
    /\ UNCHANGED <<active, calls, ran, away, hid, account>>

\* The interval, which a browser delays as it likes.
Tick ==
    /\ timers' = [t \in Task |-> tick(t, timers[t])]
    /\ timers' # timers
    /\ UNCHANGED <<screen, active, rendered, calls, clicks, truth, account>>

Render ==
    /\ rendered # timers /\ rendered' = timers
    /\ UNCHANGED <<screen, timers, active, calls, clicks, truth, account>>

Running == {t \in Task : isTicking(timers[t])}

Hide ==
    /\ visible /\ visible' = FALSE /\ hiddenAt' = now
    /\ hid' = hid \union Running
    /\ UNCHANGED <<now, timers, active, rendered, calls, clicks, ran, away, corrected, account>>

Show ==
    /\ ~visible /\ visible' = TRUE
    /\ timers' = [t \in Task |-> IF t = active THEN applyHiddenGap(t, timers[t], now - hiddenAt)
                                              ELSE timers[t]]
    /\ UNCHANGED <<now, hiddenAt, active, rendered, calls, clicks, truth, account>>

\* The timer is completed as it was at the last render; the refund waits for the server.
completeTask(t) ==
    /\ Click /\ (isTicking(timers[t]) \/ timers[t].status = "PAUSED")
    /\ LET done == complete(t, rendered[t])
       IN  /\ Rendered([timers EXCEPT ![t] = done])
           /\ calls' = [calls EXCEPT ![t] = refundForCompletion(t, done)]
    /\ active' = IF active = t THEN NoTask ELSE active
    /\ UNCHANGED <<truth, account>>

\* A second passes.
Pass ==
    /\ now < MaxTime /\ now' = now + 1
    /\ ran' = [t \in Task |-> IF t \in Running THEN ran[t] + 1 ELSE ran[t]]
    /\ away' = [t \in Task |-> IF t \in Running /\ ~visible THEN away[t] + 1 ELSE away[t]]
    /\ UNCHANGED <<visible, hiddenAt, timers, active, rendered, calls, clicks, hid, corrected, account>>

-----------------------------------------------------------------------------
(* availability: its five events.  The refund is that of onEarlyCompletion. *)

computeRemaining == avail.total - avail.allocated + avail.refunded

AvailOnly == UNCHANGED <<timers, active, rendered, calls, truth>>

onSetAvailable(total) ==
    /\ Click /\ avail' = [avail EXCEPT !.total = total]
    /\ AvailOnly /\ UNCHANGED <<plan, settled, spoiled>>

onCreateTask(t) ==
    /\ Click /\ t \notin plan /\ timers[t] = NoTimer
    /\ avail' = [avail EXCEPT !.allocated = @ + Est[t]]
    /\ plan' = plan \union {t}
    /\ AvailOnly /\ UNCHANGED <<settled, spoiled>>

onDeleteTask(t) ==
    /\ Click /\ t \in plan
    /\ avail' = [avail EXCEPT !.allocated = IF @ > Est[t] THEN @ - Est[t] ELSE 0]
    /\ plan' = plan \ {t}
    /\ spoiled' = (spoiled \/ t \in settled)
    /\ AvailOnly /\ UNCHANGED settled

onMidnightReset(total) ==
    /\ Click /\ avail' = initialAvailability(total)
    /\ plan' = {} /\ spoiled' = FALSE
    /\ AvailOnly /\ UNCHANGED settled

\* The server has recorded the completion.
onEarlyCompletion(t) ==
    /\ calls[t] # NoCall
    /\ calls' = [calls EXCEPT ![t] = NoCall]
    /\ avail' = [avail EXCEPT !.refunded = @ + calls[t]]
    /\ settled' = settled \union {t}
    /\ spoiled' = (spoiled \/ t \notin plan)
    /\ UNCHANGED <<screen, timers, active, rendered, clicks, truth, plan>>

\* It has not: nothing is given back, and the timer stays completed.
CompletionFails(t) ==
    /\ calls[t] # NoCall
    /\ calls' = [calls EXCEPT ![t] = NoCall]
    /\ UNCHANGED <<screen, timers, active, rendered, clicks, truth, account>>

-----------------------------------------------------------------------------
Client(t) ==
    \/ startTimer(t) \/ pauseTimer(t) \/ resumeTimer(t) \/ correctDrift(t) \/ completeTask(t)
    \/ onCreateTask(t) \/ onDeleteTask(t)
Next ==
    \/ \E t \in Task : Client(t) \/ onEarlyCompletion(t) \/ CompletionFails(t)
    \/ \E total \in Total : onSetAvailable(total) \/ onMidnightReset(total)
    \/ Tick \/ Render \/ Hide \/ Show \/ Pass

Spec == Init /\ [][Next]_vars

-----------------------------------------------------------------------------
Timer == [status : Status, elapsed : Nat, last : Nat]

\* Types; the last tick is not in the future.
TypeOK ==
    /\ now \in Nat /\ hiddenAt \in 0 .. now /\ visible \in BOOLEAN
    /\ {timers, rendered} \subseteq [Task -> Timer]
    /\ \A t \in Task : timers[t].last <= now /\ rendered[t].last <= now
    /\ active \in Task \union {NoTask}
    /\ calls \in [Task -> Nat \union {NoCall}]
    /\ {ran, away} \subseteq [Task -> Nat]
    /\ avail \in [total : Nat, allocated : Nat, refunded : Nat]
    /\ hid \union corrected \union settled \union plan \subseteq Task
    /\ clicks \in Nat /\ spoiled \in BOOLEAN

\* Two timers never run at once, and the one that runs is activeTaskId, whose operations
\* alone look for the one to pause and for the one that catches up.
RunningIsActive == \A t \in Running : t = active

\* What a timer counts, with what its next tick will count.
Shown(r) == r.elapsed + (IF isTicking(r) THEN now - r.last ELSE 0)

\* Ticks that come late, or not, pauses, changes of task and renders that lag behind do
\* not make a timer count a second too many or too few, while its page stays in view.
TicksLoseNothing == \A t \in Task \ (hid \union corrected) : Shown(timers[t]) = ran[t]

\* Over any number of hidings a second is counted at most twice, and only one that
\* passed on a hidden page.
HiddenCountedAtMostTwice ==
    \A t \in Task \ corrected : Shown(timers[t]) <= ran[t] + away[t]

\* A completed task costs its day what it ran, at most its estimate, also when its
\* completion is recorded late; every other one what was reserved.
Charge(t) ==
    IF t \in settled /\ ran[t] < Est[t] THEN ran[t] ELSE Est[t]
RemainingIsExact ==
    ~spoiled /\ plan \intersect (hid \union corrected) = {} =>
        computeRemaining = avail.total - SumFunction([t \in plan |-> Charge(t)])
=============================================================================
