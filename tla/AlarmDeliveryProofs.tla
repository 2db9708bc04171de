------------------------- MODULE AlarmDeliveryProofs -------------------------
(***************************************************************************)
(* For any tasks, callers, connections and attempts: no alarm is lost      *)
(* between its row and the page, none waits while the page is connected,   *)
(* the bell agrees with the table, and the queue holds the last call.      *)
(***************************************************************************)
EXTENDS AlarmDelivery, FiniteSetTheorems, SequenceTheorems, TLAPS

AlarmFrame == [alarm : Alarm]
CountFrame == [unread : Nat]
Job == {NoJob} \union Alarm
Call == [pc : {"idle", "get", "remove", "add"}, task : Task \union {Idle.task}, id : Job, tries : Nat]

QueueTyped ==
    /\ job \in [Task -> Job] /\ call \in [Caller -> Call] /\ calls \in 0 .. MaxCall
    /\ asked \in [Task -> Job] /\ overlapped \subseteq Task /\ rejected \subseteq Task

ServerTyped ==
    /\ row \in [Alarm -> {"none", "pending", "delivered"}] /\ unread \subseteq Alarm
    /\ sending \in [Task -> {"none", "send", "mark", "done"}] /\ room \subseteq Socket
    /\ handler \in [Socket -> {"none", "join", "query", "replay", "mark", "idle"}]
    /\ batch \in [Socket -> SUBSET Alarm]
    /\ count \in [Emitter -> {Off, Query} \union Nat]
    /\ failed \in BOOLEAN /\ overtaken \subseteq Emitter /\ behind \in BOOLEAN

PageTyped ==
    /\ down \in [Socket -> Seq(AlarmFrame \union CountFrame)]
    /\ sock \in {0} \union Socket /\ shownAlarms \subseteq Alarm /\ badge \in Nat
    /\ dropped \subseteq Alarm

TypeOK == QueueTyped /\ ServerTyped /\ PageTyped

-----------------------------------------------------------------------------
(* The queue. *)

\* Jobs are of earlier calls, and so are the ids callers hold.
IdsKnown ==
    /\ \A t \in Task : job[t] <= calls
    /\ \A c \in Caller : /\ call[c].id <= calls
                         /\ call[c].pc # "idle" => call[c].task \in Task
                         /\ call[c].pc = "add" => call[c].id # NoJob

\* A caller alone on its task: what it is about was asked last, it adds to an empty place,
\* and the job of an earlier call is not its own.
CallInStep(c, t) ==
    /\ asked[t] = call[c].id
    /\ call[c].pc = "add" => job[t] = NoJob
    /\ call[c].id = NoJob \/ job[t] # call[c].id

QueueInStep ==
    \A t \in Task :
        /\ t \notin overlapped => \A c, d \in Busy(t) : c = d
        /\ t \notin overlapped \union rejected => \A c \in Busy(t) : CallInStep(c, t)

-----------------------------------------------------------------------------
(* Delivery. *)

\* The page has it, will have it, or the connection it was sent on was gone.
Told(a) == a \in shownAlarms \union dropped \/ (sock # 0 /\ a \in InFlight(sock))

\* What is about to be marked was sent.
MarkedTold ==
    /\ \A t \in Task : sending[t] # "none" => job[t] # NoJob
    /\ \A t \in Task : sending[t] = "mark" => Told(job[t])
    /\ \A s \in Socket : handler[s] = "mark" => \A a \in batch[s] : Told(a)

\* The connection of the page is in the room once its handler has joined.
PageInRoom ==
    sock # 0 => /\ handler[sock] # "none"
                /\ handler[sock] # "join" => sock \in room

\* A pending row is with a worker, or with the handler of the page.
PendingHandled ==
    ~failed => \A a \in Alarm : row[a] = "pending" =>
        \/ \E t \in Task : job[t] = a /\ sending[t] \in {"send", "mark"}
        \/ sock = 0 \/ handler[sock] \in {"join", "query"}
        \/ handler[sock] \in {"replay", "mark"} /\ a \in batch[sock]

-----------------------------------------------------------------------------
(* The bell. *)

\* An emitter starts when it is off, and is overtaken only with a count in hand.
EmittersInStep ==
    /\ \A t \in Task : sending[t] # "done" => count[<<"send", t>>] = Off
    /\ \A s \in Socket : handler[s] # "idle" => count[<<"connection", s>>] = Off
    /\ \A e \in overtaken : count[e] >= 0

\* A count will be read.
CountOwed ==
    \/ \E e \in Emitter : count[e] = Query
    \/ \E t \in Task : sending[t] \in {"send", "mark"}
    \/ sock = 0 \/ handler[sock] # "idle"

\* What the bell shows once the frames q have arrived, b being what it shows now.
ShowsAfter(q, b, n) ==
    IF \E i \in DOMAIN q : q[i] \in CountFrame
    THEN \E i \in DOMAIN q : /\ q[i] = [unread |-> n]
                             /\ \A j \in DOMAIN q : j > i => q[j] \notin CountFrame
    ELSE b = n

\* Of the counts in hand that were not overtaken one is right, and if there is none the
\* page has the right one.
CountRight ==
    ~failed /\ ~CountOwed =>
        /\ (\E e \in Emitter : count[e] >= 0 /\ e \notin overtaken) =>
              \E e \in Emitter : e \notin overtaken /\ count[e] = Cardinality(unread)
        /\ ~behind /\ (\A e \in Emitter : count[e] = Off) =>
              ShowsAfter(down[sock], badge, Cardinality(unread))

Inv ==
    /\ TypeOK
    /\ IdsKnown /\ QueueInStep /\ QueueHoldsLatest
    /\ MarkedTold /\ NoAlarmLost
    /\ PageInRoom /\ PendingHandled
    /\ EmittersInStep /\ CountRight

-----------------------------------------------------------------------------
(* What the steps leave alone. *)

\* A request changes the queue only.
LEMMA SchedulingFrame ==
  ASSUME NEW c \in Caller, Scheduling(c)
  PROVE  UNCHANGED <<table, server, counting, page, wire, failed>>
  BY
     DEF Scheduling, ScheduleAlarm, CancelAlarm, BeginAt, GetJob, RemoveJob, RemoveThrows,
         AddJob, AddFails

\* But for requests only a job that is done changes it.
LEMMA QueueFrame ==
  ASSUME [Next]_vars
  PROVE  (\E c \in Caller : Scheduling(c)) \/ (\E t \in Task : Finish(t)) \/ UNCHANGED queue
  <1>1. ASSUME NEW t \in Task, Working(t)
        PROVE  Finish(t) \/ UNCHANGED queue
    BY <1>1 DEF Working, Fire, SendToRoom, SendOffline, MarkDelivered, MarkFails
  <1>2. ASSUME NEW s \in Socket, Connection(s)
        PROVE  UNCHANGED queue
    BY <1>2
       DEF Connection, Connect, Join, QueryPending, Leave, ReplayNothing, Replay, MarkReplayed,
           ReplayFails
  <1>3. ASSUME NEW e \in Emitter, ReadCount(e) \/ EmitCount(e) \/ CountFails(e)
        PROVE  UNCHANGED queue
    BY <1>3 DEF ReadCount, EmitCount, CountFails
  <1>4. CASE MarkRead \/ Break \/ Receive \/ UNCHANGED vars
    BY <1>4 DEF MarkRead, Break, Receive, vars
  <1> QED BY <1>1, <1>2, <1>3, <1>4 DEF Next

-----------------------------------------------------------------------------
(* Types. *)

\* A caller that does nothing is about no job.
LEMMA IdleTyped == Idle \in Call /\ Idle.pc = "idle" /\ Idle.id = NoJob
  BY DEF Idle, Call, Job, NoJob

\* There are finitely many alarms.
LEMMA AlarmsFinite == IsFiniteSet(Alarm)
  <1>1. MaxCall \in Int /\ 1 \in Int
    <2>1. MaxCall \in Nat
      BY Zenon, AlarmAssumption
    <2> QED BY <2>1, SMT
  <1>2. IsFiniteSet(1 .. MaxCall)
    BY <1>1, FS_Interval, Zenon
  <1> QED BY <1>2, Zenon DEF Alarm

\* What emitUnreadCount reads is a number.
LEMMA Counted == unread \subseteq Alarm => Cardinality(unread) \in Nat
  BY AlarmsFinite, FS_Subset, FS_CardinalityType

\* The queue keeps its types.
LEMMA QueueStep ==
  ASSUME TypeOK, IdsKnown, [Next]_vars
  PROVE  QueueTyped'
  <1> USE DEF TypeOK, QueueTyped
  <1>1. ASSUME NEW c \in Caller, NEW t \in Task, NEW id \in {NoJob, calls + 1},
               BeginAt(c, t, id, "get")
        PROVE  QueueTyped'
    <2>1. calls' \in 0 .. MaxCall /\ id \in Job /\ calls' = calls + 1
      BY <1>1, AlarmAssumption DEF BeginAt, Job, Alarm, NoJob
    <2>2. [pc |-> "get", task |-> t, id |-> id, tries |-> 0] \in Call
      BY <2>1 DEF Call
    <2> QED BY <1>1, <2>1, <2>2 DEF BeginAt
  <1>2. ASSUME NEW c \in Caller, NEW t \in Task, ScheduleAlarm(c, t) \/ CancelAlarm(c, t)
        PROVE  QueueTyped'
    BY <1>1, <1>2 DEF ScheduleAlarm, CancelAlarm
  <1>3. ASSUME NEW c \in Caller, GetJob(c)
        PROVE  QueueTyped'
    BY <1>3, IdleTyped DEF GetJob, AfterCancel, Call
  <1>4. ASSUME NEW c \in Caller, RemoveJob(c)
        PROVE  QueueTyped'
    BY <1>4, IdleTyped DEF RemoveJob, AfterCancel, Call
  <1>5. ASSUME NEW c \in Caller, RemoveThrows(c)
        PROVE  QueueTyped'
    BY <1>5, IdleTyped DEF RemoveThrows, IdsKnown
  <1>6. ASSUME NEW c \in Caller, AddJob(c)
        PROVE  QueueTyped'
    BY <1>6, IdleTyped DEF AddJob, Call
  <1>7. ASSUME NEW c \in Caller, AddFails(c)
        PROVE  QueueTyped'
    <2>1. [call[c] EXCEPT !.tries = call[c].tries + 1] \in Call
      BY DEF TypeOK, Call
    <2>2. call' \in [Caller -> Call]
      BY <1>7, <2>1, IdleTyped DEF AddFails, TypeOK
    <2>3. rejected' \subseteq Task
      BY <1>7 DEF AddFails, TypeOK, IdsKnown
    <2> QED BY <1>7, <2>2, <2>3 DEF AddFails, TypeOK, QueueTyped
  <1>8. ASSUME NEW t \in Task, Finish(t)
        PROVE  QueueTyped'
    BY <1>8 DEF Finish, Job
  <1>9. CASE UNCHANGED queue
    BY <1>9 DEF queue
  <1> QED BY <1>2, <1>3, <1>4, <1>5, <1>6, <1>7, <1>8, <1>9, QueueFrame DEF Scheduling

\* So do the rows and the connections of the server.
LEMMA ServerStep ==
  ASSUME TypeOK, MarkedTold, [Next]_vars
  PROVE  ServerTyped'
  <1>1. ASSUME NEW c \in Caller, Scheduling(c)
        PROVE  ServerTyped'
    BY <1>1, SchedulingFrame DEF TypeOK, ServerTyped, server, table, counting
  <1>2. ASSUME NEW t \in Task, Fire(t)
        PROVE  ServerTyped'
    BY <1>2 DEF Fire, TypeOK, QueueTyped, ServerTyped, Job, counting
  <1>3. ASSUME NEW t \in Task, SendToRoom(t)
        PROVE  ServerTyped'
    BY <1>3 DEF SendToRoom, TypeOK, ServerTyped, table, counting
  <1>4. ASSUME NEW t \in Task, SendOffline(t)
        PROVE  ServerTyped'
    BY <1>4 DEF SendOffline, TypeOK, ServerTyped, table, counting
  <1>5. ASSUME NEW t \in Task, MarkDelivered(t)
        PROVE  ServerTyped'
    BY <1>5 DEF MarkDelivered, TypeOK, ServerTyped, StartCount
  <1>6. ASSUME NEW t \in Task, MarkFails(t)
        PROVE  ServerTyped'
    BY <1>6 DEF MarkFails, TypeOK, ServerTyped, table, counting
  <1>7. ASSUME NEW t \in Task, Finish(t)
        PROVE  ServerTyped'
    BY <1>7 DEF Finish, TypeOK, ServerTyped, table, counting
  <1>8. ASSUME NEW s \in Socket, Connect(s)
        PROVE  ServerTyped'
    BY <1>8 DEF Connect, TypeOK, ServerTyped, HandlerTo, table, counting
  <1>9. ASSUME NEW s \in Socket, Join(s)
        PROVE  ServerTyped'
    BY <1>9 DEF Join, TypeOK, ServerTyped, HandlerTo, table, counting
  <1>10. ASSUME NEW s \in Socket, QueryPending(s)
        PROVE  ServerTyped'
    BY <1>10 DEF QueryPending, TypeOK, ServerTyped, HandlerTo, table, counting
  <1>11. ASSUME NEW s \in Socket, Leave(s)
        PROVE  ServerTyped'
    BY <1>11 DEF Leave, TypeOK, ServerTyped, table, counting
  <1>12. ASSUME NEW s \in Socket, ReplayNothing(s)
        PROVE  ServerTyped'
    BY <1>12 DEF ReplayNothing, TypeOK, ServerTyped, StartCount, HandlerTo, table
  <1>13. ASSUME NEW s \in Socket, Replay(s)
        PROVE  ServerTyped'
    BY <1>13 DEF Replay, TypeOK, ServerTyped, HandlerTo, table, counting
  <1>14. ASSUME NEW s \in Socket, MarkReplayed(s)
        PROVE  ServerTyped'
    BY <1>14 DEF MarkReplayed, TypeOK, ServerTyped, StartCount, HandlerTo
  <1>15. ASSUME NEW s \in Socket, ReplayFails(s)
        PROVE  ServerTyped'
    BY <1>15 DEF ReplayFails, TypeOK, ServerTyped, StartCount, HandlerTo, table
  <1>16. ASSUME NEW e \in Emitter, ReadCount(e)
        PROVE  ServerTyped'
    BY <1>16, Counted DEF ReadCount, TypeOK, ServerTyped, table, server
  <1>17. ASSUME NEW e \in Emitter, EmitCount(e)
        PROVE  ServerTyped'
    BY <1>17 DEF EmitCount, TypeOK, ServerTyped, table, server
  <1>18. ASSUME NEW e \in Emitter, CountFails(e)
        PROVE  ServerTyped'
    BY <1>18 DEF CountFails, TypeOK, ServerTyped, table, server
  <1>19. CASE MarkRead
    BY <1>19 DEF MarkRead, TypeOK, ServerTyped, Patch, StartCount, server
  <1>20. CASE Break
    BY <1>20 DEF Break, TypeOK, ServerTyped, table, server, counting
  <1>21. CASE Receive
    BY <1>21 DEF Receive, TypeOK, ServerTyped, table, server, counting
  <1>22. CASE UNCHANGED vars
    BY <1>22 DEF vars, TypeOK, ServerTyped, table, server, counting
  <1> QED BY <1>1, <1>2, <1>3, <1>4, <1>5, <1>6, <1>7, <1>8, <1>9, <1>10, <1>11, <1>12, <1>13,
       <1>14, <1>15, <1>16, <1>17, <1>18, <1>19, <1>20, <1>21, <1>22
     DEF Next, Working, Connection

-----------------------------------------------------------------------------
(* Frames. *)

Frame == AlarmFrame \union CountFrame

\* A frame is for an alarm or for the bell, not both.
LEMMA FramesApart ==
  /\ \A a : [alarm |-> a] \notin CountFrame
  /\ \A n \in Nat : [unread |-> n] \in CountFrame
  /\ \A f \in AlarmFrame : f \notin CountFrame /\ "alarm" \in DOMAIN f /\ f.alarm \in Alarm
  /\ \A f \in CountFrame : "alarm" \notin DOMAIN f /\ f.unread \in Nat /\ f = [unread |-> f.unread]
  <1>1. \A f \in CountFrame : DOMAIN f = {"unread"} /\ f.unread \in Nat
    BY DEF CountFrame
  <1>2. \A f \in AlarmFrame : DOMAIN f = {"alarm"} /\ f.alarm \in Alarm
    BY DEF AlarmFrame
  <1>3. \A a : DOMAIN [alarm |-> a] = {"alarm"}
    OBVIOUS
  <1>4. \A f \in CountFrame : f = [unread |-> f.unread]
    BY DEF CountFrame
  <1>5. \A n \in Nat : [unread |-> n] \in CountFrame
    BY DEF CountFrame
  <1>6. "unread" # "alarm"
    OBVIOUS
  <1> QED BY <1>1, <1>2, <1>3, <1>4, <1>5, <1>6

\* The frames of a concatenation.
LEMMA ConcatFrames ==
  ASSUME NEW p \in Seq(Frame), NEW q \in Seq(Frame)
  PROVE  /\ p \o q \in Seq(Frame)
         /\ \A i \in DOMAIN p : i \in DOMAIN (p \o q) /\ (p \o q)[i] = p[i]
         /\ \A i \in DOMAIN q : Len(p) + i \in DOMAIN (p \o q) /\ (p \o q)[Len(p) + i] = q[i]
         /\ \A i \in DOMAIN (p \o q) : i \in DOMAIN p \/ (i - Len(p) \in DOMAIN q /\ i > Len(p))
         /\ Len(p) \in Nat /\ DOMAIN p = 1 .. Len(p) /\ DOMAIN (p \o q) \subseteq Int
  <1>1. /\ p \o q \in Seq(Frame) /\ Len(p \o q) = Len(p) + Len(q)
        /\ \A i \in 1 .. Len(p) + Len(q) :
              (p \o q)[i] = IF i <= Len(p) THEN p[i] ELSE q[i - Len(p)]
    BY ConcatProperties
  <1>2. /\ Len(p) \in Nat /\ Len(q) \in Nat /\ DOMAIN p = 1 .. Len(p) /\ DOMAIN q = 1 .. Len(q)
        /\ DOMAIN (p \o q) = 1 .. (Len(p) + Len(q))
    BY <1>1, LenProperties
  <1>3. \A i \in DOMAIN q : Len(p) + i \in 1 .. (Len(p) + Len(q)) /\ ~(Len(p) + i <= Len(p))
                            /\ (Len(p) + i) - Len(p) = i
    BY <1>2
  <1>4. \A i \in DOMAIN p : i \in 1 .. (Len(p) + Len(q)) /\ i <= Len(p)
    BY <1>2
  <1>5. \A i \in DOMAIN (p \o q) : i \in DOMAIN p \/ (i - Len(p) \in DOMAIN q /\ i > Len(p))
    BY <1>2
  <1> QED BY <1>1, <1>2, <1>3, <1>4, <1>5

\* Alarms that follow do not change what the bell will show; a count does.
LEMMA ShowsConcat ==
  ASSUME NEW p \in Seq(Frame), NEW q \in Seq(Frame), NEW b, NEW n \in Nat
  PROVE  /\ (\A i \in DOMAIN q : q[i] \notin CountFrame) /\ ShowsAfter(p, b, n)
              => ShowsAfter(p \o q, b, n)
         /\ q = << [unread |-> n] >> => ShowsAfter(p \o q, b, n)
  <1> DEFINE r == p \o q
  <1>1. /\ \A i \in DOMAIN p : i \in DOMAIN r /\ r[i] = p[i]
        /\ \A i \in DOMAIN q : Len(p) + i \in DOMAIN r /\ r[Len(p) + i] = q[i]
        /\ \A i \in DOMAIN r : i \in DOMAIN p \/ (i - Len(p) \in DOMAIN q /\ i > Len(p))
        /\ Len(p) \in Nat /\ DOMAIN p = 1 .. Len(p) /\ DOMAIN r \subseteq Int
    BY ConcatFrames
  <1> HIDE DEF r
  <1>2. ASSUME \A i \in DOMAIN q : q[i] \notin CountFrame, ShowsAfter(p, b, n)
        PROVE  ShowsAfter(r, b, n)
    <2>1. \A i \in DOMAIN r : r[i] \in CountFrame => i \in DOMAIN p /\ r[i] = p[i]
      <3> SUFFICES ASSUME NEW i \in DOMAIN r, i \notin DOMAIN p
                   PROVE  r[i] \notin CountFrame
        BY <1>1
      <3>1. i - Len(p) \in DOMAIN q /\ Len(p) + (i - Len(p)) = i
        BY <1>1
      <3> QED BY <1>1, <1>2, <3>1
    <2>2. CASE \E i \in DOMAIN p : p[i] \in CountFrame
      <3>1. PICK i \in DOMAIN p : /\ p[i] = [unread |-> n]
                                  /\ \A j \in DOMAIN p : j > i => p[j] \notin CountFrame
        BY <1>2, <2>2 DEF ShowsAfter
      <3>2. \A j \in DOMAIN r : j > i => r[j] \notin CountFrame
        BY <2>1, <3>1
      <3>3. \E j \in DOMAIN r : r[j] \in CountFrame
        BY <1>1, <2>2
      <3> QED BY <1>1, <3>1, <3>2, <3>3 DEF ShowsAfter
    <2>3. CASE ~ \E i \in DOMAIN p : p[i] \in CountFrame
      <3>1. ~ \E i \in DOMAIN r : r[i] \in CountFrame
        BY <2>1, <2>3
      <3> QED BY <1>2, <2>3, <3>1 DEF ShowsAfter
    <2> QED BY <2>2, <2>3
  <1>3. ASSUME q = << [unread |-> n] >>
        PROVE  ShowsAfter(r, b, n)
    <2>1. 1 \in DOMAIN q /\ DOMAIN q = {1} /\ q[1] = [unread |-> n]
      BY <1>3
    <2>2. Len(p) + 1 \in DOMAIN r /\ r[Len(p) + 1] = [unread |-> n]
      BY <1>1, <2>1
    <2>3. \A j \in DOMAIN r : ~(j > Len(p) + 1)
      BY <1>1, <2>1
    <2> QED BY <2>2, <2>3, FramesApart DEF ShowsAfter
  <1> QED BY <1>2, <1>3 DEF r

\* Each of the alarms has a place in their order.
LEMMA OrderCovers ==
  ASSUME NEW A, IsFiniteSet(A), NEW order \in SetToSeqs(A)
  PROVE  /\ order \in [1 .. Cardinality(A) -> A] /\ Cardinality(A) \in Nat
         /\ \A a \in A : \E i \in DOMAIN order : order[i] = a
  <1> DEFINE D == 1 .. Cardinality(A)
  <1>1. Cardinality(A) \in Nat
    BY FS_CardinalityType
  <1>2. order \in [D -> A] /\ \A i, j \in D : i # j => order[i] # order[j]
    BY DEF SetToSeqs
  <1>3. IsFiniteSet(D) /\ Cardinality(D) = Cardinality(A)
    BY <1>1, FS_Interval
  <1> HIDE DEF D
  <1>4. order \in Injection(D, A)
    BY <1>2 DEF Injection, IsInjective
  <1>5. order \in Surjection(D, A)
    BY <1>3, <1>4, FS_Injection
  <1>6. \A a \in A : \E i \in D : order[i] = a
    BY <1>5 DEF Surjection
  <1> QED BY <1>1, <1>2, <1>6 DEF D

\* What is sent to a set of connections: nothing that was on its way is lost, and on the
\* connection of the page the frames follow.
LEMMA EmitAppends ==
  ASSUME PageTyped, NEW S, NEW frames \in Seq(Frame), Emit(S, frames), UNCHANGED sock
  PROVE  /\ down' \in [Socket -> Seq(Frame)]
         /\ sock \in Socket =>
              /\ sock \in S => down'[sock] = down[sock] \o frames
              /\ sock \notin S => down'[sock] = down[sock]
              /\ \A i \in DOMAIN down[sock] :
                    i \in DOMAIN down'[sock] /\ down'[sock][i] = down[sock][i]
  <1>1. down \in [Socket -> Seq(Frame)]
    BY DEF PageTyped, Frame
  <1>2. \A s \in Socket : down[s] \o frames \in Seq(Frame)
    BY <1>1, ConcatFrames
  <1>3. \A s \in Socket : down'[s] = IF s \in S /\ s = sock THEN down[s] \o frames ELSE down[s]
    BY DEF Emit
  <1>4. down' \in [Socket -> Seq(Frame)]
    BY <1>1, <1>2 DEF Emit
  <1>5. \A s \in Socket : \A i \in DOMAIN down[s] :
            i \in DOMAIN (down[s] \o frames) /\ (down[s] \o frames)[i] = down[s][i]
    BY <1>1, ConcatFrames
  <1> QED BY <1>3, <1>4, <1>5

\* Nobody forgets an alarm because something else is sent.
LEMMA EmitTold ==
  ASSUME PageTyped, NEW S, NEW frames \in Seq(Frame), Emit(S, frames),
         UNCHANGED <<sock, shownAlarms>>, dropped \subseteq dropped', NEW a, Told(a)
  PROVE  Told(a)'
  <1>1. CASE a \in shownAlarms \union dropped
    BY <1>1 DEF Told
  <1>2. CASE sock # 0 /\ a \in InFlight(sock)
    <2>1. sock \in Socket
      BY <1>2 DEF PageTyped
    <2> QED BY <1>2, <2>1, EmitAppends DEF Told, InFlight
  <1> QED BY <1>1, <1>2 DEF Told

\* Alarms that are sent to somebody have been told, and leave the bell alone.
LEMMA EmitAlarmsTells ==
  ASSUME PageTyped, NEW S, S \subseteq Socket, NEW A, A \subseteq Alarm, EmitAlarms(S, A),
         UNCHANGED <<sock, shownAlarms>>
  PROVE  /\ down' \in [Socket -> Seq(Frame)] /\ dropped' \subseteq Alarm
         /\ \A a : Told(a) => Told(a)'
         /\ S # {} => \A a \in A : Told(a)'
         /\ sock \in Socket => \A n \in Nat : \A b : ShowsAfter(down[sock], b, n) => ShowsAfter(down'[sock], b, n)
  <1>1. IsFiniteSet(A)
    BY AlarmsFinite, FS_Subset
  <1>2. PICK order \in SetToSeqs(A) : Emit(S, [i \in DOMAIN order |-> [alarm |-> order[i]]])
    BY DEF EmitAlarms
  <1> DEFINE frames == [i \in DOMAIN order |-> [alarm |-> order[i]]]
  <1>3. /\ order \in [1 .. Cardinality(A) -> A] /\ Cardinality(A) \in Nat
        /\ \A a \in A : \E i \in DOMAIN order : order[i] = a
    BY <1>1, OrderCovers
  <1>4. frames \in Seq(Frame)
    <2>1. \A i \in 1 .. Cardinality(A) : frames[i] \in Frame
      BY <1>3 DEF Frame, AlarmFrame
    <2>2. frames \in [1 .. Cardinality(A) -> Frame]
      BY <1>3, <2>1
    <2> QED BY <1>3, <2>2
  <1>5. /\ DOMAIN frames = DOMAIN order
        /\ \A i \in DOMAIN order : frames[i] = [alarm |-> order[i]]
    OBVIOUS
  <1>6. Emit(S, frames)
    BY <1>2
  <1> HIDE DEF frames
  <1>7. dropped' = IF S \ {sock} # {} THEN dropped \union A ELSE dropped
    BY DEF EmitAlarms
  <1>8. down' \in [Socket -> Seq(Frame)] /\ dropped' \subseteq Alarm
    BY <1>4, <1>6, <1>7, EmitAppends DEF PageTyped
  <1>9. \A a : Told(a) => Told(a)'
    BY <1>4, <1>6, <1>7, EmitTold
  <1>10. ASSUME S # {}, NEW a \in A
         PROVE  Told(a)'
    <2>1. CASE S \ {sock} # {}
      BY <1>7, <2>1 DEF Told
    <2>2. CASE S = {sock}
      <3>1. sock \in Socket /\ sock # 0
        BY <2>2 DEF Socket
      <3>2. down'[sock] = down[sock] \o frames
        BY <1>4, <1>6, <2>2, <3>1, EmitAppends
      <3>3. PICK i \in DOMAIN order : order[i] = a
        BY <1>3
      <3>4. \E j \in DOMAIN down'[sock] : down'[sock][j] = [alarm |-> a]
        <4>1. down[sock] \in Seq(Frame)
          BY <3>1 DEF PageTyped, Frame
        <4>2. /\ Len(down[sock]) + i \in DOMAIN (down[sock] \o frames)
              /\ (down[sock] \o frames)[Len(down[sock]) + i] = frames[i]
          BY <1>4, <1>5, <4>1, ConcatFrames
        <4> QED BY <1>5, <3>2, <3>3, <4>2
      <3> QED BY <3>1, <3>4 DEF Told, InFlight
    <2> QED BY <1>10, <2>1, <2>2
  <1>11. ASSUME sock \in Socket, NEW n \in Nat, NEW b, ShowsAfter(down[sock], b, n)
         PROVE  ShowsAfter(down'[sock], b, n)
    <2>1. \A i \in DOMAIN frames : frames[i] \notin CountFrame
      BY <1>5, FramesApart
    <2>2. down[sock] \in Seq(Frame)
      BY <1>11 DEF PageTyped, Frame
    <2>3. ShowsAfter(down[sock] \o frames, b, n)
      BY <1>4, <1>11, <2>1, <2>2, ShowsConcat
    <2> QED BY <1>4, <1>6, <1>11, <2>3, EmitAppends
  <1> QED BY <1>8, <1>9, <1>10, <1>11

\* The head of the connection reaches the page: an alarm is shown, and the bell will show
\* what it would have.
LEMMA ReceiveTells ==
  ASSUME PageTyped, Receive
  PROVE  /\ PageTyped' /\ \A a : Told(a) => Told(a)'
         /\ \A n \in Nat : ShowsAfter(down[sock], badge, n) => ShowsAfter(down'[sock], badge', n)
  <1> DEFINE q == down[sock]
             f == Head(q)
  <1>1. /\ sock \in Socket /\ q \in Seq(Frame) /\ q # <<>>
        /\ down' = [down EXCEPT ![sock] = Tail(q)] /\ UNCHANGED <<sock, dropped>>
    BY DEF Receive, PageTyped, Frame
  <1>2. /\ f \in Frame /\ Tail(q) \in Seq(Frame) /\ Len(Tail(q)) = Len(q) - 1
        /\ \A i \in 1 .. Len(Tail(q)) : Tail(q)[i] = q[i + 1]
    BY <1>1, HeadTailProperties
  <1>3. /\ Len(q) \in Nat \ {0} /\ DOMAIN q = 1 .. Len(q) /\ DOMAIN Tail(q) = 1 .. (Len(q) - 1)
        /\ q[1] = f
    BY <1>1, <1>2, LenProperties, EmptySeq
  <1>4. IF "alarm" \in DOMAIN f THEN shownAlarms' = shownAlarms \union {f.alarm} /\ badge' = badge
                                ELSE badge' = f.unread /\ shownAlarms' = shownAlarms
    BY DEF Receive, handleAlarmTriggered, updateBellBadge
  <1>5. down'[sock] = Tail(q) /\ down' \in [Socket -> Seq(Frame)]
    BY <1>1, <1>2 DEF PageTyped, Frame
  <1> HIDE DEF q, f
  <1>6. PageTyped'
    BY <1>1, <1>2, <1>4, <1>5, FramesApart DEF PageTyped, Frame
  <1>7. \A i \in DOMAIN q : i = 1 \/ (i - 1 \in DOMAIN Tail(q) /\ Tail(q)[i - 1] = q[i] /\ i > 1)
    <2>1. \A i \in 2 .. Len(q) : i - 1 \in 1 .. Len(Tail(q)) /\ (i - 1) + 1 = i
      BY <1>2, <1>3
    <2> QED BY <1>2, <1>3, <2>1
  <1>8. \A i \in DOMAIN Tail(q) : i + 1 \in DOMAIN q /\ Tail(q)[i] = q[i + 1] /\ i \in Nat \ {0}
    BY <1>2, <1>3
  <1>9. ASSUME NEW a, Told(a)
        PROVE  Told(a)'
    <2>1. CASE a \in shownAlarms \union dropped
      BY <1>1, <1>4, <2>1 DEF Told
    <2>2. ASSUME NEW i \in DOMAIN q, q[i] = [alarm |-> a], a \in Alarm
          PROVE  Told(a)'
      <3>1. CASE i = 1
        <4>1. "alarm" \in DOMAIN f /\ f.alarm = a
          BY <1>3, <2>2, <3>1
        <4> QED BY <1>4, <4>1 DEF Told
      <3>2. CASE i # 1
        <4>1. i - 1 \in DOMAIN down'[sock] /\ down'[sock][i - 1] = [alarm |-> a]
          BY <1>5, <1>7, <2>2, <3>2
        <4>2. sock # 0
          BY <1>1 DEF Socket
        <4> QED BY <1>1, <2>2, <4>1, <4>2 DEF Told, InFlight
      <3> QED BY <3>1, <3>2
    <2> QED BY <1>9, <2>1, <2>2 DEF Told, InFlight, q
  <1>10. ASSUME NEW n \in Nat, ShowsAfter(q, badge, n)
         PROVE  ShowsAfter(Tail(q), badge', n)
    <2>1. CASE \E i \in DOMAIN Tail(q) : Tail(q)[i] \in CountFrame
      <3>1. \E i \in DOMAIN q : q[i] \in CountFrame
        BY <1>8, <2>1
      <3>2. PICK i \in DOMAIN q : /\ q[i] = [unread |-> n]
                                  /\ \A j \in DOMAIN q : j > i => q[j] \notin CountFrame
        BY <1>10, <3>1 DEF ShowsAfter
      <3>3. i # 1
        <4>1. PICK j \in DOMAIN Tail(q) : Tail(q)[j] \in CountFrame
          BY <2>1
        <4>2. j + 1 > 1 /\ j + 1 \in DOMAIN q /\ q[j + 1] \in CountFrame
          BY <1>8, <4>1
        <4> QED BY <3>2, <4>2
      <3>4. i - 1 \in DOMAIN Tail(q) /\ Tail(q)[i - 1] = [unread |-> n]
        BY <1>7, <3>2, <3>3
      <3>5. \A j \in DOMAIN Tail(q) : j > i - 1 => Tail(q)[j] \notin CountFrame
        <4>1. i \in Nat
          BY <1>3
        <4> QED BY <1>8, <3>2, <4>1
      <3> QED BY <2>1, <3>4, <3>5 DEF ShowsAfter
    <2>2. CASE /\ ~ \E i \in DOMAIN Tail(q) : Tail(q)[i] \in CountFrame
               /\ f \in CountFrame
      <3>1. \E i \in DOMAIN q : q[i] \in CountFrame
        BY <1>3, <2>2
      <3>2. PICK i \in DOMAIN q : q[i] = [unread |-> n]
        BY <1>10, <3>1 DEF ShowsAfter
      <3>3. q[i] \in CountFrame
        BY <3>2, FramesApart
      <3>4. i = 1
        BY <1>7, <2>2, <3>3
      <3>5. f = [unread |-> n] /\ "alarm" \notin DOMAIN f
        BY <1>3, <2>2, <3>2, <3>4, FramesApart
      <3>6. badge' = n
        BY <1>4, <3>5
      <3> QED BY <2>2, <3>6 DEF ShowsAfter
    <2>3. CASE /\ ~ \E i \in DOMAIN Tail(q) : Tail(q)[i] \in CountFrame
               /\ f \notin CountFrame
      <3>1. ~ \E i \in DOMAIN q : q[i] \in CountFrame
        BY <1>3, <1>7, <2>3
      <3>2. badge' = badge
        BY <1>2, <1>4, <2>3, FramesApart DEF Frame
      <3> QED BY <1>10, <2>3, <3>1, <3>2 DEF ShowsAfter
    <2> QED BY <2>1, <2>2, <2>3
  <1> QED BY <1>5, <1>6, <1>9, <1>10 DEF q

\* The page keeps its types, and who has been told of an alarm stays told.
LEMMA PageStep ==
  ASSUME TypeOK, MarkedTold, [Next]_vars
  PROVE  PageTyped' /\ \A a : Told(a) => Told(a)'
  <1> DEFINE Goal == PageTyped' /\ \A a : Told(a) => Told(a)'
  <1>1. ASSUME UNCHANGED <<page, wire>>
        PROVE  Goal
    BY <1>1 DEF TypeOK, PageTyped, Told, InFlight, page, wire
  <1>2. ASSUME NEW c \in Caller, Scheduling(c)
        PROVE  Goal
    BY <1>1, <1>2, SchedulingFrame
  <1>3. ASSUME NEW t \in Task, Fire(t) \/ SendOffline(t) \/ MarkDelivered(t) \/ MarkFails(t) \/ Finish(t)
        PROVE  Goal
    BY <1>1, <1>3 DEF Fire, SendOffline, MarkDelivered, MarkFails, Finish
  <1>4. ASSUME NEW t \in Task, SendToRoom(t)
        PROVE  Goal
    <2>1. {job[t]} \subseteq Alarm /\ room \subseteq Socket
      BY <1>4 DEF SendToRoom, TypeOK, QueueTyped, ServerTyped, MarkedTold, Job
    <2> QED BY <1>4, <2>1, EmitAlarmsTells DEF SendToRoom, TypeOK, PageTyped, page, Frame
  <1>5. ASSUME NEW s \in Socket, Connect(s)
        PROVE  Goal
    <2>1. sock' = s /\ sock = 0 /\ UNCHANGED <<down, dropped, shownAlarms, badge>>
      BY <1>5 DEF Connect, wire
    <2> QED BY <2>1 DEF TypeOK, PageTyped, Told, InFlight
  <1>6. ASSUME NEW s \in Socket, Join(s) \/ QueryPending(s) \/ Leave(s)
                                 \/ ReplayNothing(s) \/ MarkReplayed(s) \/ ReplayFails(s)
        PROVE  Goal
    BY <1>1, <1>6 DEF Join, QueryPending, Leave, ReplayNothing, MarkReplayed, ReplayFails
  <1>7. ASSUME NEW s \in Socket, Replay(s)
        PROVE  Goal
    <2>1. batch[s] \subseteq Alarm
      BY DEF TypeOK, ServerTyped
    <2> QED BY <1>7, <2>1, EmitAlarmsTells DEF Replay, TypeOK, PageTyped, page, Frame
  <1>8. ASSUME NEW e \in Emitter, EmitCount(e)
        PROVE  Goal
    <2>1. count[e] \in Nat
      BY <1>8 DEF EmitCount, TypeOK, ServerTyped, Off, Query
    <2>2. [unread |-> count[e]] \in Frame
      BY <2>1, FramesApart DEF Frame
    <2>3. << [unread |-> count[e]] >> \in Seq(Frame)
      BY <2>2
    <2>4. Emit(room, << [unread |-> count[e]] >>) /\ UNCHANGED <<sock, shownAlarms, badge, dropped>>
      BY <1>8 DEF EmitCount, page
    <2>5. down' \in [Socket -> Seq(Frame)]
      BY <2>3, <2>4, EmitAppends DEF TypeOK
    <2>6. \A a : Told(a) => Told(a)'
      BY <2>3, <2>4, EmitTold DEF TypeOK
    <2> QED BY <2>4, <2>5, <2>6 DEF TypeOK, PageTyped, Frame
  <1>9. ASSUME NEW e \in Emitter, ReadCount(e) \/ CountFails(e)
        PROVE  Goal
    BY <1>1, <1>9 DEF ReadCount, CountFails
  <1>10. CASE MarkRead \/ UNCHANGED vars
    BY <1>1, <1>10 DEF MarkRead, vars
  <1>11. CASE Break
    <2>1. /\ sock \in Socket /\ sock' = 0 /\ down' = [down EXCEPT ![sock] = <<>>]
          /\ dropped' = dropped \union InFlight(sock) /\ UNCHANGED <<shownAlarms, badge>>
      BY <1>11 DEF Break, TypeOK, PageTyped
    <2>2. PageTyped'
      BY <2>1 DEF TypeOK, PageTyped, InFlight
    <2> QED BY <2>1, <2>2 DEF Told
  <1>12. CASE Receive
    BY <1>12, ReceiveTells DEF TypeOK
  <1> QED BY <1>2, <1>3, <1>4, <1>5, <1>6, <1>7, <1>8, <1>9, <1>10, <1>11, <1>12
     DEF Next, Working, Connection

-----------------------------------------------------------------------------
(* The queue. *)

\* Ids are handed out in order, and only known ones reach the queue.
LEMMA IdsStep ==
  ASSUME TypeOK, IdsKnown, [Next]_vars
  PROVE  IdsKnown'
  <1> USE DEF TypeOK, QueueTyped, Job, Alarm, NoJob
  <1>1. ASSUME NEW c \in Caller, NEW t \in Task, NEW id, BeginAt(c, t, id, "get"),
               id \in {NoJob, calls + 1}
        PROVE  IdsKnown'
    <2>1. calls \in Nat /\ calls' = calls + 1 /\ job' = job /\ id <= calls + 1
      BY <1>1, AlarmAssumption DEF BeginAt
    <2>2. \A u \in Task : job[u] \in Nat /\ job[u] <= calls
      BY AlarmAssumption DEF IdsKnown
    <2>3. \A d \in Caller : call[d].id \in Nat /\ call[d].id <= calls
      BY AlarmAssumption DEF IdsKnown, Call
    <2>4. \A d \in Caller : \/ call'[d] = call[d]
                            \/ call'[d].id = id /\ call'[d].pc = "get" /\ call'[d].task = t
      BY <1>1 DEF BeginAt
    <2> QED BY <2>1, <2>2, <2>3, <2>4 DEF IdsKnown
  <1>2. ASSUME NEW c \in Caller, NEW t \in Task, ScheduleAlarm(c, t) \/ CancelAlarm(c, t)
        PROVE  IdsKnown'
    BY <1>1, <1>2 DEF ScheduleAlarm, CancelAlarm
  <1>3. ASSUME NEW c \in Caller, GetJob(c)
        PROVE  IdsKnown'
    BY <1>3, IdleTyped, AlarmAssumption DEF IdsKnown, GetJob, AfterCancel, Call
  <1>4. ASSUME NEW c \in Caller, RemoveJob(c)
        PROVE  IdsKnown'
    BY <1>4, IdleTyped, AlarmAssumption DEF IdsKnown, RemoveJob, AfterCancel, Call
  <1>5. ASSUME NEW c \in Caller, RemoveThrows(c)
        PROVE  IdsKnown'
    BY <1>5, IdleTyped, AlarmAssumption DEF IdsKnown, RemoveThrows
  <1>6. ASSUME NEW c \in Caller, AddJob(c)
        PROVE  IdsKnown'
    BY <1>6, IdleTyped, AlarmAssumption DEF IdsKnown, AddJob
  <1>7. ASSUME NEW c \in Caller, AddFails(c)
        PROVE  IdsKnown'
    BY <1>7, IdleTyped, AlarmAssumption DEF IdsKnown, AddFails, Call
  <1>8. ASSUME NEW t \in Task, Finish(t)
        PROVE  IdsKnown'
    BY <1>8, AlarmAssumption DEF IdsKnown, Finish
  <1>9. CASE UNCHANGED queue
    BY <1>9 DEF IdsKnown, queue
  <1> QED BY <1>2, <1>3, <1>4, <1>5, <1>6, <1>7, <1>8, <1>9, QueueFrame DEF Scheduling

\* What a step of the queue does to the calls on a task: while no two of them have
\* overlapped and none has thrown, the one that runs is about what was asked last, and once
\* it has returned the queue holds it.
LEMMA CallsStep ==
  ASSUME TypeOK, IdsKnown, QueueInStep, QueueHoldsLatest, [Next]_vars
  PROVE  QueueInStep' /\ QueueHoldsLatest'
  <1> DEFINE Alone(t) == \A c, d \in Busy(t) : c = d
             Sound(t) == t \notin overlapped \union rejected =>
                            IF Busy(t) = {} THEN job[t] = asked[t]
                                            ELSE \A c \in Busy(t) : CallInStep(c, t)
             Kept(t) == (t \notin overlapped => Alone(t)) /\ Sound(t)
  <1>1. \A t \in Task : Kept(t)
    BY DEF QueueInStep, QueueHoldsLatest
  <1>2. SUFFICES ASSUME NEW t \in Task
                 PROVE  Kept(t)'
    BY DEF QueueInStep, QueueHoldsLatest
  <1> DEFINE OfTask(c) == call[c].pc # "idle" /\ call[c].task = t
  <1>3. Busy(t) = {c \in Caller : OfTask(c)}
    BY DEF Busy
  <1> HIDE DEF OfTask
  <1> USE DEF TypeOK, QueueTyped
  <1>4. ASSUME NEW c \in Caller, NEW u \in Task, NEW id \in {NoJob, calls + 1},
               BeginAt(c, u, id, "get")
        PROVE  Kept(t)'
    <2>1. CASE u # t
      <3>1. Busy(t)' = Busy(t) /\ \A d \in Busy(t) : call'[d] = call[d]
        BY <1>4, <2>1 DEF BeginAt, Busy
      <3>2. job'[t] = job[t] /\ asked'[t] = asked[t] /\ rejected' = rejected
            /\ (t \in overlapped' <=> t \in overlapped)
        BY <1>4, <2>1 DEF BeginAt
      <3> QED BY <1>1, <3>1, <3>2 DEF CallInStep
    <2>2. CASE u = t /\ Busy(t) # {}
      <3>1. t \in overlapped'
        BY <1>4, <2>2 DEF BeginAt
      <3> QED BY <3>1
    <2>3. CASE u = t /\ Busy(t) = {}
      <3>1. Busy(t)' = {c} /\ asked'[t] = id /\ call'[c].id = id /\ call'[c].pc = "get"
        BY <1>4, <2>3 DEF BeginAt, Busy
      <3>2. job'[t] = job[t] /\ job[t] <= calls /\ calls \in Nat /\ job[t] \in Nat
        BY <1>4, AlarmAssumption DEF BeginAt, IdsKnown, Job, NoJob, Alarm
      <3>3. id = NoJob \/ job[t] # id
        BY <3>2
      <3> QED BY <3>1, <3>2, <3>3 DEF CallInStep
    <2> QED BY <2>1, <2>2, <2>3
  <1>5. ASSUME NEW c \in Caller, NEW X, c \in Busy(call[c].task),
               call' = [call EXCEPT ![c] = X], X = Idle \/ (X.pc # "idle" /\ X.task = call[c].task /\ X.id = call[c].id),
               \A u \in Task \ {call[c].task} : job'[u] = job[u],
               rejected' \in {rejected, rejected \union {call[c].task}}, UNCHANGED <<asked, overlapped>>,
               call[c].task = t /\ t \notin overlapped \union rejected' /\ Busy(t) = {c} /\ CallInStep(c, t)
                 => IF X = Idle THEN job'[t] = asked[t]
                    ELSE (X.pc = "add" => job'[t] = NoJob) /\ (X.id = NoJob \/ job'[t] # X.id)
        PROVE  Kept(t)'
    <2>1. call'[c] = X /\ \A d \in Caller \ {c} : call'[d] = call[d]
      BY <1>5
    <2>2. CASE call[c].task # t
      <3>1. Busy(t)' = Busy(t) /\ \A d \in Busy(t) : call'[d] = call[d]
        BY <1>5, <2>1, <2>2, IdleTyped DEF Busy
      <3>2. job'[t] = job[t] /\ asked'[t] = asked[t] /\ overlapped' = overlapped
            /\ (t \in rejected' <=> t \in rejected)
        BY <1>5, <2>2
      <3> QED BY <1>1, <3>1, <3>2 DEF CallInStep
    <2>3. CASE call[c].task = t
      <3>1. c \in Busy(t) /\ Busy(t)' = IF X = Idle THEN Busy(t) \ {c} ELSE Busy(t)
        BY <1>5, <2>1, <2>3, IdleTyped DEF Busy
      <3>2. t \notin overlapped' => Alone(t)'
        BY <1>1, <1>5, <3>1
      <3>3. ASSUME t \notin overlapped' \union rejected'
            PROVE  Sound(t)'
        <4>1. Busy(t) = {c} /\ CallInStep(c, t)
          BY <1>1, <1>5, <3>1, <3>3
        <4>2. CASE X = Idle
          <5>1. Busy(t)' = {} /\ job'[t] = asked'[t]
            BY <1>5, <2>3, <3>1, <3>3, <4>1, <4>2
          <5> QED BY <5>1
        <4>3. CASE X # Idle
          <5>1. Busy(t)' = {c} /\ CallInStep(c, t)'
            BY <1>5, <2>1, <2>3, <3>1, <3>3, <4>1, <4>3 DEF CallInStep
          <5> QED BY <5>1
        <4> QED BY <4>2, <4>3
      <3> QED BY <3>2, <3>3
    <2> QED BY <2>2, <2>3
  <1>6. \A c \in Caller : /\ call[c].pc # "idle" => call[c].task \in Task /\ c \in Busy(call[c].task)
                          /\ call[c].pc = "add" => call[c].id # NoJob
                          /\ call[c] \in Call
    BY DEF Busy, IdsKnown
  <1> HIDE DEF Kept
  <1>7. ASSUME NEW c \in Caller, GetJob(c)
        PROVE  Kept(t)'
    <2> DEFINE X == IF job[call[c].task] = NoJob THEN AfterCancel(c) ELSE [call[c] EXCEPT !.pc = "remove"]
    <2>1. call' = [call EXCEPT ![c] = X] /\ UNCHANGED <<job, asked, overlapped, rejected>> /\ call[c].pc = "get"
      BY <1>7 DEF GetJob
    <2>2. X = Idle \/ (X.pc # "idle" /\ X.task = call[c].task /\ X.id = call[c].id)
      BY <1>6 DEF AfterCancel, Call
    <2>3. CallInStep(c, t) /\ call[c].task = t =>
            IF X = Idle THEN job[t] = asked[t]
            ELSE (X.pc = "add" => job[t] = NoJob) /\ (X.id = NoJob \/ job[t] # X.id)
      BY <1>6, <2>1, IdleTyped DEF AfterCancel, Call, CallInStep
    <2> HIDE DEF X
    <2> QED BY <1>5, <1>6, <2>1, <2>2, <2>3
  <1>8. ASSUME NEW c \in Caller, RemoveJob(c)
        PROVE  Kept(t)'
    <2>1. /\ call' = [call EXCEPT ![c] = AfterCancel(c)] /\ UNCHANGED <<asked, overlapped, rejected>>
          /\ job' = [job EXCEPT ![call[c].task] = NoJob] /\ call[c].pc = "remove"
      BY <1>8 DEF RemoveJob
    <2> DEFINE X == AfterCancel(c)
    <2>2. X = Idle \/ (X.pc # "idle" /\ X.task = call[c].task /\ X.id = call[c].id)
      BY <1>6 DEF AfterCancel, Call
    <2>3. CallInStep(c, t) /\ call[c].task = t =>
            IF X = Idle THEN job'[t] = asked[t]
            ELSE (X.pc = "add" => job'[t] = NoJob) /\ (X.id = NoJob \/ job'[t] # X.id)
      BY <1>6, <2>1, IdleTyped DEF AfterCancel, Call, CallInStep
    <2>4. \A u \in Task \ {call[c].task} : job'[u] = job[u]
      BY <2>1
    <2> HIDE DEF X
    <2> QED BY <1>5, <1>6, <2>1, <2>2, <2>3, <2>4 DEF X
  <1>9. ASSUME NEW c \in Caller, RemoveThrows(c)
        PROVE  Kept(t)'
    <2>1. /\ call' = [call EXCEPT ![c] = Idle] /\ UNCHANGED <<job, asked, overlapped>>
          /\ rejected' = rejected \union {call[c].task} /\ call[c].pc = "remove"
      BY <1>9 DEF RemoveThrows
    <2> QED BY <1>5, <1>6, <2>1
  <1>10. ASSUME NEW c \in Caller, AddJob(c)
         PROVE  Kept(t)'
    <2>1. /\ call' = [call EXCEPT ![c] = Idle] /\ UNCHANGED <<asked, overlapped, rejected>>
          /\ job' = [job EXCEPT ![call[c].task] = IF @ = NoJob THEN call[c].id ELSE @] /\ call[c].pc = "add"
      BY <1>10 DEF AddJob
    <2>2. CallInStep(c, t) /\ call[c].task = t => job'[t] = asked[t]
      BY <2>1 DEF CallInStep
    <2>3. \A u \in Task \ {call[c].task} : job'[u] = job[u]
      BY <2>1
    <2> QED BY <1>5, <1>6, <2>1, <2>2, <2>3
  <1>11. ASSUME NEW c \in Caller, AddFails(c)
         PROVE  Kept(t)'
    <2>1. UNCHANGED <<job, asked, overlapped>> /\ call[c].pc = "add"
      BY <1>11 DEF AddFails
    <2>2. CASE call[c].tries < MaxRetry
      <3> DEFINE X == [call[c] EXCEPT !.tries = call[c].tries + 1]
      <3>1. call' = [call EXCEPT ![c] = X] /\ rejected' = rejected
        BY <1>11, <2>2 DEF AddFails
      <3>2. X.pc = "add" /\ X.task = call[c].task /\ X.id = call[c].id
        BY <1>6, <2>1 DEF Call
      <3>3. CallInStep(c, t) => (X.pc = "add" => job'[t] = NoJob) /\ (X.id = NoJob \/ job'[t] # X.id)
        BY <2>1, <3>2 DEF CallInStep
      <3>4. X # Idle
        BY <3>2, IdleTyped
      <3> HIDE DEF X
      <3> QED BY <1>5, <1>6, <2>1, <3>1, <3>2, <3>3, <3>4
    <2>3. CASE ~(call[c].tries < MaxRetry)
      <3>1. call' = [call EXCEPT ![c] = Idle] /\ rejected' = rejected \union {call[c].task}
        BY <1>11, <2>3 DEF AddFails
      <3> QED BY <1>5, <1>6, <2>1, <3>1
    <2> QED BY <2>2, <2>3
  <1>12. ASSUME NEW u \in Task, Finish(u)
         PROVE  Kept(t)'
    <2>1. /\ job' = [job EXCEPT ![u] = NoJob]
          /\ asked' = [asked EXCEPT ![u] = IF @ = job[u] THEN NoJob ELSE @]
          /\ UNCHANGED <<call, overlapped, rejected>>
      BY <1>12 DEF Finish
    <2>2. Busy(t)' = Busy(t)
      BY <2>1 DEF Busy
    <2>3. \A c : CallInStep(c, t) => CallInStep(c, t)'
      BY <2>1 DEF CallInStep
    <2>4. job[t] = asked[t] => job'[t] = asked'[t]
      BY <2>1
    <2> QED BY <1>1, <2>1, <2>2, <2>3, <2>4 DEF Kept
  <1>13. CASE UNCHANGED queue
    BY <1>1, <1>13 DEF Kept, queue, Busy, CallInStep
  <1>14. ASSUME NEW c \in Caller, NEW u \in Task, ScheduleAlarm(c, u) \/ CancelAlarm(c, u)
         PROVE  Kept(t)'
    BY <1>4, <1>14 DEF ScheduleAlarm, CancelAlarm
  <1> QED BY <1>7, <1>8, <1>9, <1>10, <1>11, <1>12, <1>13, <1>14, QueueFrame DEF Scheduling

-----------------------------------------------------------------------------
(* Rows that are marked. *)

\* The job of a worker stays until it is done.
LEMMA HeldStep ==
  ASSUME TypeOK, MarkedTold, [Next]_vars, NEW t \in Task
  PROVE  /\ sending'[t] # "none" => job'[t] = job[t] /\ job'[t] # NoJob
         /\ sending'[t] = "mark" => sending[t] \in {"mark", "send"}
         /\ sending[t] \in {"send", "mark"} => sending'[t] # "none"
  <1> DEFINE Goal == /\ sending'[t] # "none" => job'[t] = job[t] /\ job'[t] # NoJob
                     /\ sending'[t] = "mark" => sending[t] \in {"mark", "send"}
                     /\ sending[t] \in {"send", "mark"} => sending'[t] # "none"
  <1> USE DEF TypeOK, QueueTyped, ServerTyped, MarkedTold
  <1>1. ASSUME UNCHANGED <<job, sending>>
        PROVE  Goal
    BY <1>1
  <1>2. ASSUME NEW c \in Caller, Scheduling(c)
        PROVE  Goal
    <2>1. sending' = sending
      BY <1>2, SchedulingFrame DEF server
    <2>2. job'[t] = job[t] \/ sending[t] = "none"
      BY <1>2
         DEF Scheduling, ScheduleAlarm, CancelAlarm, BeginAt, GetJob, RemoveJob, RemoveThrows,
             AddJob, AddFails, Call
    <2> QED BY <2>1, <2>2
  <1>3. ASSUME NEW u \in Task, Finish(u)
        PROVE  Goal
    BY <1>3 DEF Finish
  <1>4. ASSUME NEW u \in Task, Fire(u)
        PROVE  Goal
    BY <1>4 DEF Fire, queue
  <1>5. ASSUME NEW u \in Task, SendToRoom(u) \/ SendOffline(u) \/ MarkDelivered(u) \/ MarkFails(u)
        PROVE  Goal
    BY <1>5 DEF SendToRoom, SendOffline, MarkDelivered, MarkFails, queue
  <1>6. ASSUME NEW s \in Socket, Connection(s)
        PROVE  Goal
    BY <1>1, <1>6
       DEF Connection, Connect, Join, QueryPending, Leave, ReplayNothing, Replay, MarkReplayed,
           ReplayFails, queue
  <1>7. ASSUME NEW e \in Emitter, ReadCount(e) \/ EmitCount(e) \/ CountFails(e)
        PROVE  Goal
    BY <1>1, <1>7 DEF ReadCount, EmitCount, CountFails, queue, server
  <1>8. CASE MarkRead \/ Break \/ Receive \/ UNCHANGED vars
    BY <1>1, <1>8 DEF MarkRead, Break, Receive, vars, queue, server
  <1> QED BY <1>2, <1>3, <1>4, <1>5, <1>6, <1>7, <1>8 DEF Next, Working

\* What is about to be marked has been sent.
LEMMA MarkedStep ==
  ASSUME TypeOK, MarkedTold, [Next]_vars
  PROVE  MarkedTold'
  <1>1. \A a : Told(a) => Told(a)'
    BY PageStep
  <1>2. ASSUME NEW t \in Task, sending'[t] = "mark", NEW a, a = job'[t]
        PROVE  Told(a)'
    <2> job'[t] = job[t]
      BY <1>2, HeldStep
    <2>1. CASE sending[t] = "mark"
      BY <1>1, <1>2, <2>1 DEF MarkedTold
    <2>2. CASE sending[t] # "mark"
      <3>1. SendToRoom(t)
        <4>1. sending[t] = "send"
          BY <1>2, <2>2, HeldStep
        <4> USE DEF TypeOK, ServerTyped
        <4>2. \A c \in Caller : ~ Scheduling(c)
          BY <1>2, <2>2, SchedulingFrame DEF server
        <4>3. ASSUME NEW u \in Task, Working(u)
              PROVE  SendToRoom(t)
          BY <1>2, <2>2, <4>3
             DEF Working, Fire, SendToRoom, SendOffline, MarkDelivered, MarkFails, Finish
        <4>4. \A s \in Socket : ~ Connection(s)
          BY <1>2, <2>2
             DEF Connection, Connect, Join, QueryPending, Leave, ReplayNothing, Replay,
                 MarkReplayed, ReplayFails
        <4>5. \A e \in Emitter : ~ (ReadCount(e) \/ EmitCount(e) \/ CountFails(e))
          BY <1>2, <2>2 DEF ReadCount, EmitCount, CountFails, server
        <4>6. ~ (MarkRead \/ Break \/ Receive \/ UNCHANGED vars)
          BY <1>2, <2>2 DEF MarkRead, Break, Receive, vars, server
        <4> QED BY <4>2, <4>3, <4>4, <4>5, <4>6 DEF Next
      <3>2. {job[t]} \subseteq Alarm /\ room \subseteq Socket
        BY <3>1 DEF SendToRoom, TypeOK, QueueTyped, ServerTyped, MarkedTold, Job
      <3> QED BY <1>2, <3>1, <3>2, EmitAlarmsTells DEF SendToRoom, TypeOK, page
    <2> QED BY <2>1, <2>2
  <1>3. ASSUME NEW t \in Task, sending'[t] # "none"
        PROVE  job'[t] = job[t] /\ job'[t] # NoJob
    BY <1>3, HeldStep
  <1>4. ASSUME NEW s \in Socket, handler'[s] = "mark", NEW a \in batch'[s]
        PROVE  Told(a)'
    <2> DEFINE Goal == Told(a)'
    <2> USE DEF TypeOK, ServerTyped
    <2>1. ASSUME handler'[s] = handler[s] /\ batch'[s] = batch[s]
          PROVE  Goal
      BY <1>1, <1>4, <2>1 DEF MarkedTold
    <2>2. ASSUME NEW c \in Caller, Scheduling(c)
          PROVE  Goal
      BY <2>1, <2>2, SchedulingFrame DEF server
    <2>3. ASSUME NEW t \in Task, Working(t)
          PROVE  Goal
      BY <2>1, <2>3 DEF Working, Fire, SendToRoom, SendOffline, MarkDelivered, MarkFails, Finish
    <2>4. ASSUME NEW r \in Socket, Connection(r), ~ Replay(r)
          PROVE  Goal
      BY <1>4, <2>1, <2>4
         DEF Connection, Connect, Join, QueryPending, Leave, ReplayNothing, MarkReplayed,
             ReplayFails, HandlerTo
    <2>5. ASSUME NEW r \in Socket, Replay(r), r # s
          PROVE  Goal
      BY <2>1, <2>5 DEF Replay, HandlerTo
    <2>6. CASE Replay(s)
      <3>1. batch[s] \subseteq Alarm /\ a \in batch[s]
        BY <1>4, <2>6 DEF Replay
      <3>2. /\ EmitAlarms({s}, batch[s]) /\ {s} \subseteq Socket /\ {s} # {}
            /\ UNCHANGED <<sock, shownAlarms>>
        BY <2>6 DEF Replay, page
      <3> QED BY <3>1, <3>2, EmitAlarmsTells
    <2>7. ASSUME NEW e \in Emitter, ReadCount(e) \/ EmitCount(e) \/ CountFails(e)
          PROVE  Goal
      BY <2>1, <2>7 DEF ReadCount, EmitCount, CountFails, server
    <2>8. CASE MarkRead \/ Break \/ Receive \/ UNCHANGED vars
      BY <2>1, <2>8 DEF MarkRead, Break, Receive, vars, server
    <2> QED BY <2>2, <2>3, <2>4, <2>5, <2>6, <2>7, <2>8 DEF Next
  <1> QED BY <1>2, <1>3, <1>4 DEF MarkedTold, Told, InFlight

\* A row is marked only if its alarm has been told of.
LEMMA NoAlarmLostStep ==
  ASSUME TypeOK, MarkedTold, NoAlarmLost, [Next]_vars
  PROVE  NoAlarmLost'
  <1>1. \A a : Told(a) => Told(a)'
    BY PageStep
  <1>2. ASSUME NEW a \in Alarm, row'[a] = "delivered", ~ Told(a)
        PROVE  FALSE
    <2>1. row[a] # "delivered"
      BY <1>2 DEF NoAlarmLost, Told
    <2> USE DEF TypeOK, ServerTyped
    <2>2. \A c \in Caller : ~ Scheduling(c)
      BY <1>2, <2>1, SchedulingFrame DEF table
    <2>3. \A t \in Task : ~ Working(t)
      BY <1>2, <2>1
         DEF Working, Fire, SendToRoom, SendOffline, MarkDelivered, MarkFails, Finish,
             MarkedTold, table
    <2>4. \A s \in Socket : ~ Connection(s)
      BY <1>2, <2>1
         DEF Connection, Connect, Join, QueryPending, Leave, ReplayNothing, Replay,
             MarkReplayed, ReplayFails, MarkedTold, table
    <2>5. \A e \in Emitter : ~ (ReadCount(e) \/ EmitCount(e) \/ CountFails(e))
      BY <1>2, <2>1 DEF ReadCount, EmitCount, CountFails, table
    <2>6. ~ (MarkRead \/ Break \/ Receive \/ UNCHANGED vars)
      BY <1>2, <2>1 DEF MarkRead, Break, Receive, vars, table
    <2> QED BY <2>2, <2>3, <2>4, <2>5, <2>6 DEF Next
  <1> QED BY <1>1, <1>2 DEF NoAlarmLost, Told

-----------------------------------------------------------------------------
(* Pending rows. *)

\* A connection is in the room from its join until it is found dead.
LEMMA PageInRoomStep ==
  ASSUME TypeOK, PageInRoom, [Next]_vars
  PROVE  PageInRoom'
  <1> USE DEF TypeOK, ServerTyped, PageTyped, PageInRoom
  <1>1. ASSUME UNCHANGED <<sock, handler, room>>
        PROVE  PageInRoom'
    BY <1>1
  <1>2. ASSUME NEW c \in Caller, Scheduling(c)
        PROVE  PageInRoom'
    BY <1>1, <1>2, SchedulingFrame DEF page, server
  <1>3. ASSUME NEW t \in Task, Working(t)
        PROVE  PageInRoom'
    BY <1>1, <1>3
       DEF Working, Fire, SendToRoom, SendOffline, MarkDelivered, MarkFails, Finish, page
  <1>4. ASSUME NEW s \in Socket, Connection(s)
        PROVE  PageInRoom'
    BY <1>4
       DEF Connection, Connect, Join, QueryPending, Leave, ReplayNothing, Replay, MarkReplayed,
           ReplayFails, HandlerTo, page
  <1>5. ASSUME NEW e \in Emitter, ReadCount(e) \/ EmitCount(e) \/ CountFails(e)
        PROVE  PageInRoom'
    BY <1>1, <1>5 DEF ReadCount, EmitCount, CountFails, page, server
  <1>6. CASE Break
    BY <1>6 DEF Break
  <1>7. CASE MarkRead \/ Receive \/ UNCHANGED vars
    BY <1>1, <1>7 DEF MarkRead, Receive, vars, page, server
  <1> QED BY <1>2, <1>3, <1>4, <1>5, <1>6, <1>7 DEF Next

\* An alarm stays with its worker until it is marked or nobody is in the room, and with
\* the handler of the page until it is marked.
LEMMA PendingStep ==
  ASSUME TypeOK, MarkedTold, PageInRoom, PendingHandled, [Next]_vars
  PROVE  PendingHandled'
  <1> DEFINE Worked(a) == \E t \in Task : job[t] = a /\ sending[t] \in {"send", "mark"}
             Replayed(a) == \/ sock = 0 \/ handler[sock] \in {"join", "query"}
                            \/ handler[sock] \in {"replay", "mark"} /\ a \in batch[sock]
  <1>1. SUFFICES ASSUME ~ failed', NEW a \in Alarm, row'[a] = "pending"
                 PROVE  Worked(a)' \/ Replayed(a)'
    BY DEF PendingHandled
  <1>2. ~ failed /\ row[a] = "pending" => Worked(a) \/ Replayed(a)
    BY DEF PendingHandled
  <1> USE DEF TypeOK, ServerTyped, PageTyped
  <1>3. ASSUME UNCHANGED <<failed, row, sending, sock, handler, batch>>
        PROVE  Worked(a)' \/ Replayed(a)'
    <2>1. Worked(a) => Worked(a)'
      BY <1>3, HeldStep
    <2> QED BY <1>1, <1>2, <1>3, <2>1
  <1>4. ASSUME NEW c \in Caller, Scheduling(c)
        PROVE  Worked(a)' \/ Replayed(a)'
    BY <1>3, <1>4, SchedulingFrame DEF page, server, table
  <1>5. ASSUME NEW u \in Task, Fire(u)
        PROVE  Worked(a)' \/ Replayed(a)'
    BY <1>1, <1>2, <1>5 DEF Fire, queue, page
  <1>6. ASSUME NEW u \in Task, SendToRoom(u)
        PROVE  Worked(a)' \/ Replayed(a)'
    BY <1>1, <1>2, <1>6 DEF SendToRoom, queue, page, table
  <1>7. ASSUME NEW u \in Task, SendOffline(u)
        PROVE  Worked(a)' \/ Replayed(a)'
    <2>1. room = {} /\ UNCHANGED <<sock, handler, batch, failed, row>>
      BY <1>7 DEF SendOffline, page, table
    <2>2. sock = 0 \/ handler[sock] = "join"
      BY <2>1 DEF PageInRoom
    <2> QED BY <2>1, <2>2
  <1>8. ASSUME NEW u \in Task, MarkDelivered(u)
        PROVE  Worked(a)' \/ Replayed(a)'
    BY <1>1, <1>2, <1>8 DEF MarkDelivered, queue, page
  <1>9. ASSUME NEW u \in Task, MarkFails(u)
        PROVE  Worked(a)' \/ Replayed(a)'
    BY <1>1, <1>9 DEF MarkFails
  <1>10. ASSUME NEW u \in Task, Finish(u)
         PROVE  Worked(a)' \/ Replayed(a)'
    BY <1>1, <1>2, <1>10 DEF Finish, table, page
  <1>11. ASSUME NEW s \in Socket, Connect(s) \/ Join(s) \/ Leave(s) \/ Replay(s) \/ ReplayNothing(s)
         PROVE  Worked(a)' \/ Replayed(a)'
    BY <1>1, <1>2, <1>11
       DEF Connect, Join, Leave, Replay, ReplayNothing, HandlerTo, queue, table, page
  <1>12. ASSUME NEW s \in Socket, QueryPending(s)
         PROVE  Worked(a)' \/ Replayed(a)'
    BY <1>1, <1>2, <1>12 DEF QueryPending, HandlerTo, queue, table, page
  <1>13. ASSUME NEW s \in Socket, MarkReplayed(s)
         PROVE  Worked(a)' \/ Replayed(a)'
    BY <1>1, <1>2, <1>13 DEF MarkReplayed, HandlerTo, queue, page
  <1>14. ASSUME NEW s \in Socket, ReplayFails(s)
         PROVE  Worked(a)' \/ Replayed(a)'
    BY <1>1, <1>14 DEF ReplayFails
  <1>15. ASSUME NEW e \in Emitter, ReadCount(e) \/ EmitCount(e) \/ CountFails(e)
         PROVE  Worked(a)' \/ Replayed(a)'
    BY <1>1, <1>3, <1>15 DEF ReadCount, EmitCount, CountFails, page, server, table
  <1>16. CASE Break
    BY <1>16 DEF Break
  <1>17. CASE MarkRead \/ Receive \/ UNCHANGED vars
    BY <1>3, <1>17 DEF MarkRead, Receive, vars, page, server, table
  <1> QED BY <1>4, <1>5, <1>6, <1>7, <1>8, <1>9, <1>10, <1>11, <1>12, <1>13, <1>14, <1>15,
       <1>16, <1>17
     DEF Next, Working, Connection

-----------------------------------------------------------------------------
(* The bell. *)

\* Those who send the count are apart.
LEMMA EmittersApart ==
  /\ \A t \in Task : <<"send", t>> \in Emitter
  /\ \A s \in Socket : <<"connection", s>> \in Emitter
  /\ Patch \in Emitter
  /\ \A t, u \in Task : t # u => <<"send", t>> # <<"send", u>>
  /\ \A s, r \in Socket : s # r => <<"connection", s>> # <<"connection", r>>
  /\ \A t \in Task, s \in Socket : <<"send", t>> # <<"connection", s>>
  /\ \A t \in Task : <<"send", t>> # Patch
  /\ \A s \in Socket : <<"connection", s>> # Patch
  BY DEF Emitter, Patch

\* An emitter starts when it is off.
LEMMA EmittersStep ==
  ASSUME TypeOK, EmittersInStep, [Next]_vars
  PROVE  EmittersInStep'
  <1> USE EmittersApart DEF TypeOK, ServerTyped, EmittersInStep, Off, Query
  <1>1. ASSUME UNCHANGED <<sending, handler, count, overtaken>>
        PROVE  EmittersInStep'
    BY <1>1
  <1>2. ASSUME NEW c \in Caller, Scheduling(c)
        PROVE  EmittersInStep'
    BY <1>1, <1>2, SchedulingFrame DEF server, counting
  <1>3. ASSUME NEW t \in Task, Fire(t) \/ SendToRoom(t) \/ SendOffline(t) \/ MarkFails(t) \/ Finish(t)
        PROVE  EmittersInStep'
    BY <1>3 DEF Fire, SendToRoom, SendOffline, MarkFails, Finish, counting
  <1>4. ASSUME NEW t \in Task, MarkDelivered(t)
        PROVE  EmittersInStep'
    BY <1>4 DEF MarkDelivered, StartCount
  <1>5. ASSUME NEW s \in Socket, Connect(s) \/ Join(s) \/ QueryPending(s) \/ Leave(s) \/ Replay(s)
        PROVE  EmittersInStep'
    BY <1>5 DEF Connect, Join, QueryPending, Leave, Replay, HandlerTo, counting
  <1>6. ASSUME NEW s \in Socket, ReplayNothing(s) \/ MarkReplayed(s) \/ ReplayFails(s)
        PROVE  EmittersInStep'
    BY <1>6 DEF ReplayNothing, MarkReplayed, ReplayFails, HandlerTo, StartCount
  <1>7. ASSUME NEW e \in Emitter, ReadCount(e)
        PROVE  EmittersInStep'
    BY <1>7 DEF ReadCount, server
  <1>8. ASSUME NEW e \in Emitter, EmitCount(e) \/ CountFails(e)
        PROVE  EmittersInStep'
    BY <1>8 DEF EmitCount, CountFails, server
  <1>9. CASE MarkRead
    BY <1>9 DEF MarkRead, StartCount, server
  <1>10. CASE Break \/ Receive \/ UNCHANGED vars
    BY <1>1, <1>10 DEF Break, Receive, vars, server, counting
  <1> QED BY <1>2, <1>3, <1>4, <1>5, <1>6, <1>7, <1>8, <1>9, <1>10 DEF Next, Working, Connection

\* A count that is read is right, and when it is sent it is the last on its way: all others
\* in hand are overtaken.
LEMMA CountStep ==
  ASSUME TypeOK, MarkedTold, PageInRoom, EmittersInStep, CountRight, [Next]_vars
  PROVE  CountRight'
  <1> DEFINE n == Cardinality(unread)
             Held == (\E e \in Emitter : count[e] >= 0 /\ e \notin overtaken)
                        => \E e \in Emitter : e \notin overtaken /\ count[e] = n
             Shown == ~ behind /\ (\A e \in Emitter : count[e] = Off) => ShowsAfter(down[sock], badge, n)
  <1>1. SUFFICES ASSUME ~ failed', ~ CountOwed'
                 PROVE  Held' /\ Shown'
    BY DEF CountRight
  <1>2. ~ failed /\ ~ CountOwed => Held /\ Shown
    BY DEF CountRight
  <1>3. n \in Nat
    BY Counted DEF TypeOK, ServerTyped
  <1> USE DEF TypeOK, ServerTyped
  <1>4. ASSUME ~ failed, ~ CountOwed, UNCHANGED <<unread, count, overtaken, behind>>,
               ShowsAfter(down[sock], badge, n) => ShowsAfter(down'[sock'], badge', n)
        PROVE  Held' /\ Shown'
    BY <1>2, <1>4 DEF ShowsAfter
  <1>5. ASSUME UNCHANGED <<page, wire, counting, table, failed>>, CountOwed' <=> CountOwed
        PROVE  Held' /\ Shown'
    BY <1>1, <1>4, <1>5 DEF page, wire, counting, table
  <1>6. ASSUME UNCHANGED <<page, wire, counting, table, failed, sending, handler>>
        PROVE  Held' /\ Shown'
    BY <1>5, <1>6 DEF CountOwed, page, counting
  <1>7. ASSUME NEW c \in Caller, Scheduling(c)
        PROVE  Held' /\ Shown'
    BY <1>6, <1>7, SchedulingFrame DEF server
  <1>8. ASSUME NEW t \in Task, Fire(t) \/ SendToRoom(t)
        PROVE  FALSE
    BY <1>1, <1>8 DEF Fire, SendToRoom, CountOwed
  <1>9. ASSUME NEW t \in Task, SendOffline(t)
        PROVE  FALSE
    <2>1. sock' = 0 \/ handler'[sock'] = "join"
      BY <1>9 DEF SendOffline, PageInRoom, page
    <2> QED BY <1>1, <2>1 DEF CountOwed
  <1>10. ASSUME NEW t \in Task, MarkDelivered(t)
         PROVE  FALSE
    BY <1>1, <1>10, EmittersApart DEF MarkDelivered, StartCount, CountOwed
  <1>11. ASSUME NEW t \in Task, Finish(t)
         PROVE  Held' /\ Shown'
    <2>1. CountOwed' <=> CountOwed
      BY <1>11 DEF Finish, CountOwed, page, counting
    <2> QED BY <1>5, <1>11, <2>1 DEF Finish
  <1>12. ASSUME NEW s \in Socket, Connect(s)
         PROVE  FALSE
    BY <1>1, <1>12 DEF Connect, HandlerTo, CountOwed
  <1>13. ASSUME NEW s \in Socket, Join(s) \/ QueryPending(s)
         PROVE  Held' /\ Shown'
    <2>1. sock # s
      BY <1>1, <1>13 DEF Join, QueryPending, HandlerTo, CountOwed, page
    <2>2. CountOwed' <=> CountOwed
      BY <1>13, <2>1
         DEF Join, QueryPending, HandlerTo, CountOwed, page, counting, TypeOK, PageTyped
    <2> QED BY <1>5, <1>13, <2>2 DEF Join, QueryPending
  <1>14. ASSUME NEW s \in Socket, Leave(s)
         PROVE  Held' /\ Shown'
    BY <1>6, <1>14 DEF Leave
  <1>15. ASSUME NEW s \in Socket, ReplayNothing(s) \/ MarkReplayed(s) \/ ReplayFails(s)
         PROVE  FALSE
    BY <1>1, <1>15, EmittersApart
       DEF ReplayNothing, MarkReplayed, ReplayFails, StartCount, CountOwed
  <1>16. ASSUME NEW s \in Socket, Replay(s)
         PROVE  Held' /\ Shown'
    <2>1. sock # s
      BY <1>1, <1>16 DEF Replay, HandlerTo, CountOwed, page
    <2>2. CountOwed' <=> CountOwed
      BY <1>16, <2>1 DEF Replay, HandlerTo, CountOwed, page, counting, TypeOK, PageTyped
    <2>3. sock \in Socket /\ UNCHANGED <<sock, badge, failed, unread, count, overtaken, behind>>
      BY <1>1, <1>16, <2>2 DEF Replay, page, table, counting, CountOwed, PageTyped
    <2>4. ShowsAfter(down[sock], badge, n) => ShowsAfter(down'[sock], badge, n)
      <3>1. EmitAlarms({s}, batch[s]) /\ batch[s] \subseteq Alarm /\ UNCHANGED shownAlarms
        BY <1>16 DEF Replay, page
      <3> QED BY <1>3, <2>3, <3>1, EmitAlarmsTells
    <2> QED BY <1>1, <1>4, <2>2, <2>3, <2>4
  <1>17. ASSUME NEW e \in Emitter, ReadCount(e)
         PROVE  Held' /\ Shown'
    <2>1. e \notin overtaken
      BY <1>17 DEF ReadCount, EmittersInStep, Query
    <2>2. count'[e] = n /\ unread' = unread /\ overtaken' = overtaken
      BY <1>17 DEF ReadCount, table
    <2> QED BY <1>3, <2>1, <2>2 DEF Off
  <1>18. ASSUME NEW e \in Emitter, EmitCount(e)
         PROVE  Held' /\ Shown'
    <2>1. /\ count' = [count EXCEPT ![e] = Off] /\ overtaken' = {f \in Emitter \ {e} : count[f] >= 0}
          /\ behind' = (e \in overtaken) /\ count[e] >= 0
          /\ UNCHANGED <<unread, sending, handler, sock, badge, shownAlarms, failed>>
          /\ Emit(room, << [unread |-> count[e]] >>)
      BY <1>18 DEF EmitCount, table, server, page
    <2>2. Held'
      BY <2>1 DEF Off
    <2>3. ~ CountOwed
      BY <1>1, <2>1 DEF CountOwed, Query
    <2>4. ASSUME ~ behind', \A f \in Emitter : count'[f] = Off
          PROVE  ShowsAfter(down'[sock], badge, n)
      <3>1. e \notin overtaken
        BY <2>1, <2>4
      <3>2. \A f \in Emitter \ {e} : count[f] = Off
        BY <2>1, <2>4
      <3>3. count[e] = n
        <4>1. PICK f \in Emitter : f \notin overtaken /\ count[f] = n
          BY <1>1, <1>2, <2>1, <2>3, <3>1
        <4> QED BY <1>3, <3>2, <4>1 DEF Off
      <3>4. sock \in Socket /\ sock \in room
        BY <2>3 DEF CountOwed, PageInRoom, PageTyped
      <3> DEFINE frames == << [unread |-> n] >>
      <3>5. frames \in Seq(Frame)
        <4>1. [unread |-> n] \in Frame
          BY <1>3, FramesApart DEF Frame
        <4> QED BY <4>1
      <3>6. down'[sock] = down[sock] \o frames
        BY <2>1, <3>3, <3>4, <3>5, EmitAppends
      <3>7. down[sock] \in Seq(Frame)
        BY <3>4 DEF PageTyped, Frame
      <3> QED BY <1>3, <3>5, <3>6, <3>7, ShowsConcat
    <2> QED BY <2>1, <2>2, <2>4
  <1>19. ASSUME NEW e \in Emitter, CountFails(e)
         PROVE  FALSE
    BY <1>1, <1>19 DEF CountFails
  <1>20. CASE MarkRead
    BY <1>1, <1>20, EmittersApart DEF MarkRead, StartCount, CountOwed
  <1>21. CASE Break
    BY <1>1, <1>21 DEF Break, CountOwed
  <1>22. CASE Receive
    <2>1. UNCHANGED <<unread, count, overtaken, behind, failed, sending, handler, sock>>
      BY <1>22 DEF Receive, table, counting, server
    <2>2. CountOwed' <=> CountOwed
      BY <2>1 DEF CountOwed
    <2>3. ShowsAfter(down[sock], badge, n) => ShowsAfter(down'[sock'], badge', n)
      BY <1>3, <1>22, <2>1, ReceiveTells
    <2> QED BY <1>1, <1>4, <2>1, <2>2, <2>3
  <1>23. CASE UNCHANGED vars
    BY <1>6, <1>23 DEF vars, server
  <1>24. ASSUME NEW t \in Task, MarkFails(t)
         PROVE  FALSE
    BY <1>1, <1>24 DEF MarkFails
  <1> QED BY <1>7, <1>8, <1>9, <1>10, <1>11, <1>12, <1>13, <1>14, <1>15, <1>16, <1>17, <1>18,
       <1>19, <1>20, <1>21, <1>22, <1>23, <1>24
     DEF Next, Working, Connection

-----------------------------------------------------------------------------
(* The theorems. *)

\* A server without jobs, rows and connections.
LEMMA InitInv == Init => Inv
  <1> SUFFICES ASSUME Init
               PROVE  Inv
    OBVIOUS
  <1> USE DEF Init
  <1>1. TypeOK
    <2>1. QueueTyped
      BY AlarmAssumption, IdleTyped DEF QueueTyped, Job, NoJob
    <2>2. ServerTyped
      BY DEF ServerTyped
    <2>3. PageTyped
      BY DEF PageTyped
    <2> QED BY <2>1, <2>2, <2>3 DEF TypeOK
  <1>2. IdsKnown /\ QueueInStep /\ QueueHoldsLatest
    BY IdleTyped DEF IdsKnown, QueueInStep, QueueHoldsLatest, Busy, NoJob
  <1>3. MarkedTold /\ NoAlarmLost /\ PageInRoom /\ PendingHandled
    BY DEF MarkedTold, NoAlarmLost, PageInRoom, PendingHandled
  <1>4. EmittersInStep /\ CountRight
    BY EmittersApart DEF EmittersInStep, CountRight, CountOwed
  <1> QED BY <1>1, <1>2, <1>3, <1>4 DEF Inv

\* The parts of the invariant, put together.
LEMMA StepInv == Inv /\ [Next]_vars => Inv'
  BY QueueStep, ServerStep, PageStep, IdsStep, CallsStep, MarkedStep, NoAlarmLostStep,
       PageInRoomStep, PendingStep, EmittersStep, CountStep
     DEF Inv, TypeOK

\* The invariant holds of every reachable state; the properties below are read off it.
THEOREM AlarmInvariant == Spec => []Inv
  BY InitInv, StepInv, PTL DEF Spec

\* AlarmDelivery.NoAlarmLost: a row is marked as delivered only when the page has the alarm,
\* will have it, or it was sent on a connection that was gone (sendAlarmToUser,
\* replayPendingAlarms).
THEOREM MarkedIsTold == Spec => []NoAlarmLost
  <1>1. Inv => NoAlarmLost
    BY DEF Inv
  <1> QED BY <1>1, AlarmInvariant, PTL

\* AlarmDelivery.NoneWaitsWhileConnected: between the emit to the room and the replay of a
\* connection (setupConnectionHandler joins, then reads) no alarm is left over, as long as
\* no statement of the database fails.
THEOREM NoneLeftOver == Spec => []NoneWaitsWhileConnected
  <1>1. Inv => NoneWaitsWhileConnected
    BY DEF Inv, TypeOK, PendingHandled, NoneWaitsWhileConnected, AtRest
  <1> QED BY <1>1, AlarmInvariant, PTL

\* AlarmDelivery.BadgeAgrees: the bell ends with the number of unread alarms unless the last
\* count was overtaken (emitUnreadCount).
THEOREM BellRight == Spec => []BadgeAgrees
  <1>1. ASSUME Inv, AtRest, ~ failed, ~ behind, down[sock] = <<>>
        PROVE  badge = Cardinality(unread)
    <2>1. ~ CountOwed
      BY <1>1 DEF AtRest, CountOwed, Off, Query
    <2>2. ShowsAfter(<<>>, badge, Cardinality(unread))
      BY <1>1, <2>1 DEF Inv, CountRight, AtRest
    <2> QED BY <2>2 DEF ShowsAfter
  <1>2. Inv => BadgeAgrees
    BY <1>1 DEF BadgeAgrees
  <1> QED BY <1>2, AlarmInvariant, PTL

\* AlarmDelivery.QueueHoldsLatest: cancel, then add under the same id, over any number of
\* attempts (scheduleAlarm, cancelAlarm).
THEOREM LatestQueued == Spec => []QueueHoldsLatest
  <1>1. Inv => QueueHoldsLatest
    BY DEF Inv
  <1> QED BY <1>1, AlarmInvariant, PTL
=============================================================================
