---------------------------- MODULE AlarmDelivery ----------------------------
(***************************************************************************)
(* The deadline alarms of one user: the delayed jobs of AlarmScheduler,    *)
(* the rows of the table alarms, the Socket.IO room of the user with       *)
(* AlarmSocketHandler, and the AlarmManager of the page.  A step of the    *)
(* server runs from one await to the next.                                 *)
(*                                                                         *)
(* No file of the server starts a worker for the queue.  Fire and Finish   *)
(* stand for one that inserts the row and calls sendAlarmToUser, as the    *)
(* comments and the tests of sendAlarmToUser suppose.  Delays are left     *)
(* out: a job may fire at any time.                                        *)
(*                                                                         *)
(* Definitions headed "Fault" are deliberate mistakes of the kind a change  *)
(* to the code could make; Next uses none of them.                         *)
(***************************************************************************)
EXTENDS Integers, Sequences, FiniteSets, SequencesExt

CONSTANTS
    Task,        \* tasks with a deadline
    Caller,      \* requests that schedule or cancel, each one call at a time
    MaxCall,     \* bound: calls over the whole run
    MaxRetry,    \* maxRetries of scheduleAlarm
    MaxSocket,   \* bound: connections over the whole run
    MaxStart     \* bound: calls and connections together

ASSUME AlarmAssumption == {MaxCall, MaxRetry, MaxSocket, MaxStart} \subseteq Nat

Alarm == 1 .. MaxCall
Socket == 1 .. MaxSocket
NoJob == 0

\* emitUnreadCount is not running, has sent its query.  Otherwise: the count read.
Off == -2
Query == -1

\* Whoever runs emitUnreadCount: a delivery, a connection, the request mark-read.
Emitter == ({"send"} \X Task) \union ({"connection"} \X Socket) \union {<<"patch", 0>>}
Patch == <<"patch", 0>>

VARIABLES
    job,         \* the job with the id of each task, by the call that added it
    call,        \* what each caller is doing
    calls,       \* how many calls there were
    row,         \* pending_delivery of each alarm, or "none"
    unread,      \* alarms with read_at NULL
    sending,     \* how far the worker that holds the job of each task is
    room,        \* connections the server counts in the room user:<id>
    handler,     \* how far the connection handler is
    batch,       \* the rows that replayPendingAlarms has read
    count,       \* emitUnreadCount of each emitter: Off, Query, or the count read
    down,        \* frames on their way on each connection
    sock,        \* AlarmManager.socket: the connection of the page, or 0
    shownAlarms, \* AlarmManager.shownAlarms
    badge,       \* the number on the bell
    asked,       \* history: the call that was last made for each task
    overlapped,  \* history: tasks with two calls at a time
    rejected,    \* history: tasks with a call that threw
    dropped,     \* history: alarms sent on a connection that was gone
    failed,      \* history: a statement of the database failed (bound: one does)
    overtaken,   \* history: the emitters that held a count while another one was sent
    behind       \* history: the last count sent was one of them

queue == <<job, call, calls, asked, overlapped, rejected>>
table == <<row, unread>>
server == <<sending, room, handler, batch>>
counting == <<count, overtaken, behind>>
page == <<sock, shownAlarms, badge>>
wire == <<down, dropped>>
vars == <<queue, table, server, counting, page, wire, failed>>

Idle == [pc |-> "idle", task |-> CHOOSE t \in Task : TRUE, id |-> 0, tries |-> 0]

Init ==
    /\ job = [t \in Task |-> NoJob]
    /\ call = [c \in Caller |-> Idle]
    /\ calls = 0
    /\ row = [a \in Alarm |-> "none"]
    /\ unread = {}
    /\ sending = [t \in Task |-> "none"]
    /\ room = {}
    /\ handler = [s \in Socket |-> "none"]
    /\ batch = [s \in Socket |-> {}]
    /\ count = [e \in Emitter |-> Off]
    /\ down = [s \in Socket |-> <<>>]
    /\ sock = 0
    /\ shownAlarms = {}
    /\ badge = 0
    /\ asked = [t \in Task |-> NoJob]
    /\ overlapped = {}
    /\ rejected = {}
    /\ dropped = {}
    /\ failed = FALSE
    /\ overtaken = {}
    /\ behind = FALSE

-----------------------------------------------------------------------------
(* AlarmScheduler. *)

Started == calls + Cardinality({s \in Socket : handler[s] # "none"})

Busy(t) == {c \in Caller : call[c].pc # "idle" /\ call[c].task = t}

\* Starts scheduleAlarm, or cancelAlarm (id NoJob), which scheduleAlarm is too for
\* a deadline in the past.  Both start with getJob.
BeginAt(c, t, id, pc) ==
    /\ call[c].pc = "idle"
    /\ calls < MaxCall /\ Started < MaxStart
    /\ calls' = calls + 1
    /\ call' = [call EXCEPT ![c] = [pc |-> pc, task |-> t, id |-> id, tries |-> 0]]
    /\ asked' = [asked EXCEPT ![t] = id]
    /\ overlapped' = IF Busy(t) = {} THEN overlapped ELSE overlapped \union {t}
    /\ UNCHANGED <<job, rejected, table, server, counting, page, wire, failed>>

\* Fault: scheduleAlarm does not cancel first.
ScheduleOnly(c, t) == BeginAt(c, t, calls + 1, "add")

ScheduleAlarm(c, t) == BeginAt(c, t, calls + 1, "get")
CancelAlarm(c, t) == BeginAt(c, t, NoJob, "get")

AfterCancel(c) == IF call[c].id = NoJob THEN Idle ELSE [call[c] EXCEPT !.pc = "add"]

GetJob(c) ==
    /\ call[c].pc = "get"
    /\ call' = [call EXCEPT ![c] = IF job[@.task] = NoJob THEN AfterCancel(c)
                                   ELSE [@ EXCEPT !.pc = "remove"]]
    /\ UNCHANGED <<job, calls, asked, overlapped, rejected>>
    /\ UNCHANGED <<table, server, counting, page, wire, failed>>

\* job.remove: by the id, whatever was added under it in the meantime.
RemoveJob(c) ==
    /\ call[c].pc = "remove"
    /\ sending[call[c].task] = "none"
    /\ job' = [job EXCEPT ![call[c].task] = NoJob]
    /\ call' = [call EXCEPT ![c] = AfterCancel(c)]
    /\ UNCHANGED <<calls, asked, overlapped, rejected>>
    /\ UNCHANGED <<table, server, counting, page, wire, failed>>

\* A job that a worker holds is locked: remove throws, and so does the call.
RemoveThrows(c) ==
    /\ call[c].pc = "remove"
    /\ sending[call[c].task] # "none"
    /\ rejected' = rejected \union {call[c].task}
    /\ call' = [call EXCEPT ![c] = Idle]
    /\ UNCHANGED <<job, calls, asked, overlapped>>
    /\ UNCHANGED <<table, server, counting, page, wire, failed>>

\* Queue.add keeps the job that has the id already.
AddJob(c) ==
    /\ call[c].pc = "add"
    /\ job' = [job EXCEPT ![call[c].task] = IF @ = NoJob THEN call[c].id ELSE @]
    /\ call' = [call EXCEPT ![c] = Idle]
    /\ UNCHANGED <<calls, asked, overlapped, rejected>>
    /\ UNCHANGED <<table, server, counting, page, wire, failed>>

\* An attempt fails: another one after a pause, or the error after MaxRetry more.
AddFails(c) ==
    /\ call[c].pc = "add"
    /\ LET again == call[c].tries < MaxRetry
       IN  /\ call' = [call EXCEPT ![c] = IF again THEN [@ EXCEPT !.tries = call[c].tries + 1]
                                          ELSE Idle]
           /\ rejected' = IF again THEN rejected ELSE rejected \union {call[c].task}
    /\ UNCHANGED <<job, calls, asked, overlapped>>
    /\ UNCHANGED <<table, server, counting, page, wire, failed>>

\* The worker: the row is inserted with the default pending_delivery = TRUE.
Fire(t) ==
    /\ job[t] # NoJob /\ sending[t] = "none"
    /\ row' = [row EXCEPT ![job[t]] = "pending"]
    /\ unread' = unread \union {job[t]}
    /\ sending' = [sending EXCEPT ![t] = "send"]
    /\ UNCHANGED <<queue, room, handler, batch, counting, page, wire, failed>>

\* sendAlarmToUser has returned; removeOnComplete.
Finish(t) ==
    /\ sending[t] = "done"
    /\ count[<<"send", t>>] = Off
    /\ sending' = [sending EXCEPT ![t] = "none"]
    /\ job' = [job EXCEPT ![t] = NoJob]
    /\ asked' = [asked EXCEPT ![t] = IF @ = job[t] THEN NoJob ELSE @]
    /\ UNCHANGED <<call, calls, overlapped, rejected, room, handler, batch>>
    /\ UNCHANGED <<table, counting, page, wire, failed>>

-----------------------------------------------------------------------------
(* AlarmSocketHandler. *)

\* What is sent to connections S: frames wait on the one the page holds and go
\* nowhere on the others.
Emit(S, frames) ==
    down' = [s \in Socket |-> IF s \in S /\ s = sock THEN down[s] \o frames ELSE down[s]]

\* Alarms A are sent to connections S, in some order; who misses them is recorded.
EmitAlarms(S, A) ==
    /\ \E order \in SetToSeqs(A) : Emit(S, [i \in DOMAIN order |-> [alarm |-> order[i]]])
    /\ dropped' = IF S \ {sock} # {} THEN dropped \union A ELSE dropped

StartCount(e) == count' = [count EXCEPT ![e] = Query]

\* sendAlarmToUser up to its first await, with a connection in the room.
SendToRoom(t) ==
    /\ sending[t] = "send"
    /\ room # {}
    /\ EmitAlarms(room, {job[t]})
    /\ sending' = [sending EXCEPT ![t] = "mark"]
    /\ UNCHANGED <<queue, table, room, handler, batch, counting, page, failed>>

\* Fault: the alarm of a user who is not connected is marked, too.
SendOfflineMarked(t) ==
    /\ sending[t] = "send"
    /\ room = {}
    /\ sending' = [sending EXCEPT ![t] = "mark"]
    /\ UNCHANGED <<queue, table, room, handler, batch, counting, page, wire, failed>>

SendOffline(t) ==
    /\ sending[t] = "send"
    /\ room = {}
    /\ sending' = [sending EXCEPT ![t] = "done"]
    /\ UNCHANGED <<queue, table, room, handler, batch, counting, page, wire, failed>>

MarkDelivered(t) ==
    /\ sending[t] = "mark"
    /\ row' = [row EXCEPT ![job[t]] = "delivered"]
    /\ sending' = [sending EXCEPT ![t] = "done"]
    /\ StartCount(<<"send", t>>)
    /\ UNCHANGED <<queue, unread, room, handler, batch, overtaken, behind>>
    /\ UNCHANGED <<page, wire, failed>>

\* The error is caught: the row keeps pending_delivery, and no count is sent.
MarkFails(t) ==
    /\ ~failed
    /\ sending[t] = "mark"
    /\ sending' = [sending EXCEPT ![t] = "done"]
    /\ failed' = TRUE
    /\ UNCHANGED <<queue, table, room, handler, batch, counting, page, wire>>

HandlerTo(s, pc) == handler' = [handler EXCEPT ![s] = pc]

Join(s) ==
    /\ handler[s] = "join"
    /\ room' = room \union {s}
    /\ HandlerTo(s, "query")
    /\ UNCHANGED <<queue, table, sending, batch, counting, page, wire, failed>>

\* Fault: a LIMIT 1 in the query.
QueryOnePending(s) ==
    /\ handler[s] = "query"
    /\ batch' = [batch EXCEPT ![s] = {a \in Alarm : /\ row[a] = "pending"
                                                   /\ \A b \in 1 .. a - 1 : row[b] # "pending"}]
    /\ HandlerTo(s, "replay")
    /\ UNCHANGED <<queue, table, sending, room, counting, page, wire, failed>>

QueryPending(s) ==
    /\ handler[s] = "query"
    /\ batch' = [batch EXCEPT ![s] = {a \in Alarm : row[a] = "pending"}]
    /\ HandlerTo(s, "replay")
    /\ UNCHANGED <<queue, table, sending, room, counting, page, wire, failed>>

ReplayNothing(s) ==
    /\ handler[s] = "replay"
    /\ batch[s] = {}
    /\ HandlerTo(s, "idle")
    /\ StartCount(<<"connection", s>>)
    /\ UNCHANGED <<queue, table, sending, room, batch, overtaken, behind>>
    /\ UNCHANGED <<page, wire, failed>>

Replay(s) ==
    /\ handler[s] = "replay"
    /\ batch[s] # {}
    /\ EmitAlarms({s}, batch[s])
    /\ HandlerTo(s, "mark")
    /\ UNCHANGED <<queue, table, sending, room, batch, counting, page, failed>>

MarkReplayed(s) ==
    /\ handler[s] = "mark"
    /\ row' = [a \in Alarm |-> IF a \in batch[s] THEN "delivered" ELSE row[a]]
    /\ batch' = [batch EXCEPT ![s] = {}]
    /\ HandlerTo(s, "idle")
    /\ StartCount(<<"connection", s>>)
    /\ UNCHANGED <<queue, unread, sending, room, overtaken, behind>>
    /\ UNCHANGED <<page, wire, failed>>

\* A query or update of replayPendingAlarms fails: caught, the count follows.
ReplayFails(s) ==
    /\ ~failed
    /\ handler[s] \in {"query", "mark"}
    /\ batch' = [batch EXCEPT ![s] = {}]
    /\ HandlerTo(s, "idle")
    /\ StartCount(<<"connection", s>>)
    /\ failed' = TRUE
    /\ UNCHANGED <<queue, table, sending, room, overtaken, behind>>
    /\ UNCHANGED <<page, wire>>

\* emitUnreadCount: the query, and what follows it.
ReadCount(e) ==
    /\ count[e] = Query
    /\ count' = [count EXCEPT ![e] = Cardinality(unread)]
    /\ UNCHANGED <<queue, table, server, overtaken, behind, page, wire, failed>>

CountFails(e) ==
    /\ ~failed
    /\ count[e] = Query
    /\ count' = [count EXCEPT ![e] = Off]
    /\ failed' = TRUE
    /\ UNCHANGED <<queue, table, server, overtaken, behind, page, wire>>

EmitCount(e) ==
    /\ count[e] >= 0
    /\ Emit(room, << [unread |-> count[e]] >>)
    /\ count' = [count EXCEPT ![e] = Off]
    /\ overtaken' = {f \in Emitter \ {e} : count[f] >= 0}
    /\ behind' = (e \in overtaken)
    /\ UNCHANGED <<queue, table, server, page, dropped, failed>>

\* Fault: the page that opens the panel is expected to know.
MarkReadSilently ==
    /\ count[Patch] = Off
    /\ unread # {}
    /\ unread' = {}
    /\ UNCHANGED <<queue, row, server, counting, page, wire, failed>>

\* PATCH /api/alarms/mark-read, which AlarmManager sends when the panel opens; left out
\* while nothing is unread.
MarkRead ==
    /\ count[Patch] = Off
    /\ unread # {}
    /\ unread' = {}
    /\ StartCount(Patch)
    /\ UNCHANGED <<queue, row, server, overtaken, behind, page, wire, failed>>

-----------------------------------------------------------------------------
(* AlarmManager and its connection. *)

\* A handshake with a valid token.
Connect(s) ==
    /\ sock = 0
    /\ handler[s] = "none" /\ Started < MaxStart
    /\ \A r \in Socket : r < s => handler[r] # "none"
    /\ sock' = s
    /\ HandlerTo(s, "join")
    /\ UNCHANGED <<queue, table, sending, room, batch, counting, wire, failed>>
    /\ UNCHANGED <<shownAlarms, badge>>

InFlight(s) == {a \in Alarm : \E i \in DOMAIN down[s] : down[s][i] = [alarm |-> a]}

\* The connection breaks with what is on its way; the server does not know yet.
Break ==
    /\ sock # 0
    /\ sock' = 0
    /\ down' = [down EXCEPT ![sock] = <<>>]
    /\ dropped' = dropped \union InFlight(sock)
    /\ UNCHANGED <<queue, table, server, counting, shownAlarms, badge, failed>>

\* The heartbeat of Socket.IO finds it dead.
Leave(s) ==
    /\ s \in room /\ s # sock
    /\ room' = room \ {s}
    /\ UNCHANGED <<queue, table, sending, handler, batch, counting, page, wire, failed>>

\* An alarm that was shown is not shown again.
handleAlarmTriggered(a) == shownAlarms' = shownAlarms \union {a} /\ UNCHANGED badge
updateBellBadge(unreadCount) == badge' = unreadCount /\ UNCHANGED shownAlarms

\* The frame at the head of the connection.
Receive ==
    /\ sock # 0
    /\ down[sock] # <<>>
    /\ LET frame == Head(down[sock])
       IN  IF "alarm" \in DOMAIN frame
           THEN handleAlarmTriggered(frame.alarm)
           ELSE updateBellBadge(frame.unread)
    /\ down' = [down EXCEPT ![sock] = Tail(@)]
    /\ UNCHANGED <<queue, table, server, counting, sock, dropped, failed>>

Scheduling(c) ==
    \/ \E t \in Task : ScheduleAlarm(c, t) \/ CancelAlarm(c, t)
    \/ GetJob(c) \/ RemoveJob(c) \/ RemoveThrows(c) \/ AddJob(c) \/ AddFails(c)

Working(t) ==
    \/ Fire(t) \/ SendToRoom(t) \/ SendOffline(t)
    \/ MarkDelivered(t) \/ MarkFails(t) \/ Finish(t)

Connection(s) ==
    \/ Connect(s) \/ Join(s) \/ QueryPending(s) \/ Leave(s)
    \/ ReplayNothing(s) \/ Replay(s) \/ MarkReplayed(s) \/ ReplayFails(s)

Next ==
    \/ \E c \in Caller : Scheduling(c)
    \/ \E t \in Task : Working(t)
    \/ \E s \in Socket : Connection(s)
    \/ \E e \in Emitter : ReadCount(e) \/ EmitCount(e) \/ CountFails(e)
    \/ MarkRead \/ Break \/ Receive

Spec == Init /\ [][Next]_vars

-----------------------------------------------------------------------------

\* An alarm that is no longer pending has been shown, or is on its way to the page,
\* or was sent on a connection that had broken or broke with it: whatever fails in
\* between, no other row is marked (sendAlarmToUser, replayPendingAlarms).
NoAlarmLost ==
    \A a \in Alarm : row[a] = "delivered" =>
        \/ a \in shownAlarms \union dropped
        \/ sock # 0 /\ a \in InFlight(sock)

AtRest ==
    /\ \A t \in Task : sending[t] \in {"none", "done"}
    /\ \A e \in Emitter : count[e] = Off
    /\ sock # 0 /\ handler[sock] = "idle"

\* No alarm falls between the replay of a connection and the emit to its room
\* (setupConnectionHandler joins first, then reads): a user who is connected while
\* nothing is under way has no pending alarm.
NoneWaitsWhileConnected ==
    AtRest /\ ~failed => \A a \in Alarm : row[a] # "pending"

\* The bell shows the number of unread alarms once all frames have arrived, unless
\* the last count was held back while another one was sent (emitUnreadCount).
BadgeAgrees ==
    AtRest /\ ~failed /\ ~behind /\ down[sock] = <<>> => badge = Cardinality(unread)

\* After calls of scheduleAlarm and cancelAlarm that did not overlap and did not
\* throw, the queue holds the job of the last one and no other, however many
\* attempts it took and whenever a job fired.
QueueHoldsLatest ==
    \A t \in Task \ (overlapped \union rejected) :
        Busy(t) = {} => job[t] = asked[t]
=============================================================================
