----------------------- MODULE NotificationInboxProofs -----------------------
(***************************************************************************)
(* For any tasks, days, processes and size of a page: a notification is    *)
(* pushed once, a scan that ends has covered every overdue task, a deleted *)
(* task is quiet, and the badge is right unless it was overtaken.          *)
(***************************************************************************)
EXTENDS NotificationInbox, FiniteSetTheorems, WellFoundedInduction, TLAPS

\* The types of TypeOK, with the ranges under a name.
AnyDay == 0 .. MaxDay
AnyTask == 0 .. MaxTask
Look == 0 .. Retries
Starts == 0 .. MaxStart
Process == [pc: Label, day: AnyDay, task: AnyTask, batch: SUBSET Task,
            more: BOOLEAN, count: Nat, tries: Look]
Status == {"TODO", "COMPLETED", "ARCHIVED"}
Mark == {"NONE", "UNREAD", "READ", "DISMISSED"}

ProcTyped == proc \in [Proc -> Process]
StoreTyped ==
    /\ tasks \in [Task -> Status] /\ deadline \in [Task -> AnyDay]
    /\ notes \in [Note -> Mark] /\ pushed \in [Note -> Nat]
    /\ cache \in Nat \union {None} /\ lock \in Proc \union {None}
    /\ shown \in Nat \union {None} /\ started \in Starts
    /\ scanned \subseteq Day /\ failed \subseteq Note
    /\ dropped \subseteq Note /\ orphaned \subseteq Task /\ overtaken \in BOOLEAN

\* Where a process is tells whether it is a scan.
ScanHasDay ==
    \A p \in Proc :
        /\ proc[p].pc \in {"scan", "push"} => proc[p].day # 0
        /\ proc[p].pc \notin {"scan", "push", "count", "store", "emit"} => proc[p].day = 0

Pushes(p, n) == At(p, "push") /\ <<proc[p].task, proc[p].day>> = n

\* Two scans do not push the same notification, and what is pushed is one.
PushedAlone ==
    /\ \A p \in Proc : proc[p].pc \in {"push", "dismiss"} => proc[p].task # 0
    /\ \A p, q \in Proc, n \in Note : Pushes(p, n) /\ Pushes(q, n) => p = q

\* PushedOnce without the cardinality.
PushAccount ==
    \A n \in Note :
        pushed[n] + (IF \E p \in Proc : Pushes(p, n) THEN 1 ELSE 0)
          + (IF n \in dropped THEN 1 ELSE 0) = (IF notes[n] = "NONE" THEN 0 ELSE 1)

\* A scan in progress has left a notification, or the row is still to come.
ScanReaches ==
    \A p \in Proc : proc[p].day # 0 =>
        \A t \in Open : deadline[t] < proc[p].day =>
            \/ notes[<<t, proc[p].day>>] # "NONE" \/ <<t, proc[p].day>> \in failed
            \/ t \in proc[p].batch
            \/ proc[p].more /\ t > proc[p].task /\ \A u \in proc[p].batch : u < t

\* A deleted task in the page of a scan was deleted under its hands.
BatchKnown ==
    \A p \in Proc : \A t \in proc[p].batch : tasks[t] = "ARCHIVED" => t \in orphaned

Some(labels) == \E p \in Proc : proc[p].pc \in labels

\* A count in hand is right, and a badge that is wrong is about to be refreshed.
RefreshOwed ==
    ~overtaken =>
        /\ \A p \in Proc : proc[p].pc \in {"store", "emit", "fill"} => proc[p].count = Unread
        /\ cache \in {None, Unread} \/ Some({"push", "count", "store"})
        /\ shown \in {None, Unread} \/ Some({"push", "count", "store", "emit"})

Inv ==
    /\ TypeOK /\ ScanHasDay
    /\ PushedAlone /\ PushAccount
    /\ ScanReaches /\ ScanCoversOverdue
    /\ BatchKnown /\ ArchivedIsQuiet
    /\ RefreshOwed
-----------------------------------------------------------------------------
(* Types. *)

\* TypeOK, with the processes and the tables apart.
LEMMA TypesSplit == TypeOK <=> ProcTyped /\ StoreTyped
  BY DEF TypeOK, ProcTyped, StoreTyped, Process, AnyDay, AnyTask, Look, Starts, Status, Mark

\* Facts about the ranges, which hide their arithmetic.
LEMMA Ranges ==
  /\ 0 \in AnyDay /\ 0 \in AnyTask /\ 0 \in Look /\ Day \subseteq AnyDay /\ Task \subseteq AnyTask
  /\ \A k \in Look : k # Retries => k + 1 \in Look
  /\ \A p, d : <<p, d>> \in Note <=> p \in Task /\ d \in Day
  /\ \A d \in AnyDay : d # 0 <=> d \in Day
  /\ \A t \in AnyTask : t # 0 <=> t \in Task
  /\ 0 \notin Day /\ 0 \notin Task
  BY InboxAssumption DEF AnyDay, AnyTask, Look, Day, Task, Note

\* The number of unread notifications is a number.
LEMMA UnreadTyped == Unread \in Nat
  <1>1. IsFiniteSet(Task) /\ IsFiniteSet(Day)
    BY InboxAssumption, FS_Interval DEF Task, Day
  <1>2. IsFiniteSet(Note)
    BY <1>1, FS_Product DEF Note
  <1>3. IsFiniteSet({n \in Note : notes[n] = "UNREAD"})
    BY <1>2, FS_Subset
  <1> QED BY <1>3, FS_CardinalityType DEF Unread

\* The bound on starts is kept.
LEMMA MoreTyped == started \in Starts /\ More => started' \in Starts
  BY InboxAssumption DEF More, Starts

\* A process that does nothing is well typed.
LEMMA IdleTyped == Idle \in Process
  BY Ranges DEF Idle, Process, Label

\* Empty tables are well typed.
LEMMA InitTyped == Init => TypeOK
  <1> SUFFICES ASSUME Init PROVE ProcTyped /\ StoreTyped
    BY TypesSplit
  <1>1. ProcTyped
    BY IdleTyped DEF Init, ProcTyped
  <1>2. StoreTyped
    <2>1. 0 \in Starts /\ 0 \in Nat
      BY InboxAssumption DEF Starts
    <2> QED BY <2>1 DEF Init, StoreTyped, Status, Mark, AnyDay
  <1> QED BY <1>1, <1>2

\* A step of any process keeps the types.
LEMMA ScanHasDayKept ==
  ASSUME ProcTyped, ScanHasDay, [Next]_vars
  PROVE  ScanHasDay'
  <1>1. ASSUME NEW p \in Proc, NEW d \in Day, StartScan(p, d)
        PROVE  ScanHasDay'
    BY <1>1, Ranges DEF StartScan, ScanHasDay, Arrive, Idle
  <1>2. ASSUME NEW p \in Proc, NextPage(p)
        PROVE  ScanHasDay'
    BY <1>2 DEF NextPage, ScanHasDay, ProcTyped, At
  <1>3. ASSUME NEW p \in Proc, EndScan(p)
        PROVE  ScanHasDay'
    BY <1>3 DEF EndScan, ScanHasDay, At, Idle
  <1>4. ASSUME NEW p \in Proc, NEW t \in Task, SkipRow(p, t)
        PROVE  ScanHasDay'
    BY <1>4 DEF SkipRow, ScanHasDay, ProcTyped, At, Advance, Row
  <1>5. ASSUME NEW p \in Proc, NEW t \in Task, InsertRow(p, t)
        PROVE  ScanHasDay'
    BY <1>5 DEF InsertRow, ScanHasDay, ProcTyped, At, Advance, Row
  <1>6. ASSUME NEW p \in Proc, NEW t \in Task, FailRow(p, t)
        PROVE  ScanHasDay'
    BY <1>6 DEF FailRow, ScanHasDay, ProcTyped, At, Advance, Row
  <1>7. ASSUME NEW p \in Proc, Push(p)
        PROVE  ScanHasDay'
    BY <1>7 DEF Push, ScanHasDay, At, Goto
  <1>8. ASSUME NEW p \in Proc, Count(p)
        PROVE  ScanHasDay'
    BY <1>8 DEF Count, ScanHasDay, ProcTyped, At
  <1>9. ASSUME NEW p \in Proc, Store(p)
        PROVE  ScanHasDay'
    BY <1>9 DEF Store, ScanHasDay, At, Goto
  <1>10. ASSUME NEW p \in Proc, Emit(p)
        PROVE  ScanHasDay'
    BY <1>10 DEF Emit, ScanHasDay, At, Idle, Return
  <1>11. ASSUME NEW p \in Proc, RefreshFails(p)
        PROVE  ScanHasDay'
    BY <1>11 DEF RefreshFails, ScanHasDay, Idle, Return
  <1>12. ASSUME NEW p \in Proc, NEW n \in Note, ReadNote(p, n)
        PROVE  ScanHasDay'
    BY <1>12 DEF ReadNote, ScanHasDay, Goto, Arrive
  <1>13. ASSUME NEW p \in Proc, NEW n \in Note, DismissNote(p, n)
        PROVE  ScanHasDay'
    BY <1>13 DEF DismissNote, ScanHasDay, Goto, Arrive
  <1>14. ASSUME NEW p \in Proc, NEW t \in Task, Archive(p, t)
        PROVE  ScanHasDay'
    BY <1>14 DEF Archive, ScanHasDay, ProcTyped, Arrive
  <1>15. ASSUME NEW p \in Proc, DismissTask(p)
        PROVE  ScanHasDay'
    BY <1>15 DEF DismissTask, ScanHasDay, ProcTyped, At
  <1>16. ASSUME NEW t \in Task, Complete(t)
        PROVE  ScanHasDay'
    BY <1>16 DEF Complete, ScanHasDay
  <1>17. ASSUME NEW p \in Proc, Miss(p)
        PROVE  ScanHasDay'
    BY <1>17 DEF Miss, ScanHasDay, Goto, Arrive
  <1>18. ASSUME NEW p \in Proc, Lock(p)
        PROVE  ScanHasDay'
    BY <1>18 DEF Lock, ScanHasDay, ProcTyped, Process, At, Goto
  <1>19. ASSUME NEW p \in Proc, Compute(p)
        PROVE  ScanHasDay'
    BY <1>19 DEF Compute, ScanHasDay, ProcTyped, Process, At, Goto
  <1>20. ASSUME NEW p \in Proc, Fill(p)
        PROVE  ScanHasDay'
    BY <1>20 DEF Fill, ScanHasDay, ProcTyped, At
  <1>21. ASSUME NEW p \in Proc, Check(p)
        PROVE  ScanHasDay'
    BY <1>21 DEF Check, ScanHasDay, At, Goto
  <1>22. ASSUME NEW p \in Proc, Release(p)
        PROVE  ScanHasDay'
    BY <1>22 DEF Release, ScanHasDay, At, Goto
  <1>23. ASSUME NEW p \in Proc, Wait(p)
        PROVE  ScanHasDay'
    BY <1>23 DEF Wait, ScanHasDay, ProcTyped, Process, At, Idle
  <1>24. CASE ExpireCache
    BY <1>24 DEF ExpireCache, ScanHasDay
  <1>25. CASE ExpireLock
    BY <1>25 DEF ExpireLock, ScanHasDay
  <1>26. ASSUME NEW p \in Proc, Stop(p)
        PROVE  ScanHasDay'
    BY <1>26 DEF Stop, ScanHasDay, At, Idle
  <1>27. CASE UNCHANGED vars
    BY <1>27 DEF vars, ScanHasDay
  <1> QED BY <1>1, <1>2, <1>3, <1>4, <1>5, <1>6, <1>7, <1>8, <1>9, <1>10, <1>11, <1>12, <1>13,
       <1>14, <1>15, <1>16, <1>17, <1>18, <1>19, <1>20, <1>21, <1>22, <1>23, <1>24, <1>25,
       <1>26, <1>27
     DEF Next, Start, Scan, Refresh, Badge

\* The processes keep their types.
LEMMA ProcStep ==
  ASSUME ProcTyped, [Next]_vars
  PROVE  ProcTyped'
  <1>1. ASSUME NEW p \in Proc, NEW d \in Day, StartScan(p, d)
        PROVE  ProcTyped'
    BY ZenonT(40), <1>1, Ranges DEF StartScan, ProcTyped, Process, Label, Arrive, Idle
  <1>2. ASSUME NEW p \in Proc, NextPage(p)
        PROVE  ProcTyped'
    <2>1. Page(proc[p].task, proc[p].day) \subseteq Task
      BY DEF Page, Open
    <2> QED BY ZenonT(40), <1>2, <2>1 DEF NextPage, ProcTyped, Process
  <1>3. ASSUME NEW p \in Proc, EndScan(p)
        PROVE  ProcTyped'
    BY <1>3, IdleTyped DEF EndScan, ProcTyped, At, Idle
  <1>4. ASSUME NEW p \in Proc, NEW t \in Task, SkipRow(p, t)
        PROVE  ProcTyped'
    BY <1>4 DEF SkipRow, ProcTyped, Process, At, Advance, Row
  <1>5. ASSUME NEW p \in Proc, NEW t \in Task, InsertRow(p, t)
        PROVE  ProcTyped'
    BY <1>5 DEF InsertRow, ProcTyped, Process, At, Advance, Row
  <1>6. ASSUME NEW p \in Proc, NEW t \in Task, FailRow(p, t)
        PROVE  ProcTyped'
    BY <1>6 DEF FailRow, ProcTyped, Process, At, Advance, Row
  <1>7. ASSUME NEW p \in Proc, Push(p)
        PROVE  ProcTyped'
    BY <1>7 DEF Push, ProcTyped, Process, Label, At, Goto
  <1>8. ASSUME NEW p \in Proc, Count(p)
        PROVE  ProcTyped'
    BY ZenonT(40), <1>8, UnreadTyped DEF Count, ProcTyped, Process, Label, At
  <1>9. ASSUME NEW p \in Proc, Store(p)
        PROVE  ProcTyped'
    BY <1>9 DEF Store, ProcTyped, Process, Label, At, Goto
  <1>10. ASSUME NEW p \in Proc, Emit(p)
        PROVE  ProcTyped'
    BY <1>10, IdleTyped DEF Emit, ProcTyped, Process, Label, At, Idle, Return
  <1>11. ASSUME NEW p \in Proc, RefreshFails(p)
        PROVE  ProcTyped'
    BY <1>11, IdleTyped DEF RefreshFails, ProcTyped, Process, Label, Idle, Return
  <1>12. ASSUME NEW p \in Proc, NEW n \in Note, ReadNote(p, n)
        PROVE  ProcTyped'
    BY <1>12 DEF ReadNote, ProcTyped, Process, Label, Goto, Arrive
  <1>13. ASSUME NEW p \in Proc, NEW n \in Note, DismissNote(p, n)
        PROVE  ProcTyped'
    BY <1>13 DEF DismissNote, ProcTyped, Process, Label, Goto, Arrive
  <1>14. ASSUME NEW p \in Proc, NEW t \in Task, Archive(p, t)
        PROVE  ProcTyped'
    BY ZenonT(40), <1>14, Ranges DEF Archive, ProcTyped, Process, Label, Arrive
  <1>15. ASSUME NEW p \in Proc, DismissTask(p)
        PROVE  ProcTyped'
    BY ZenonT(40), <1>15, Ranges DEF DismissTask, ProcTyped, Process, Label, At
  <1>16. ASSUME NEW t \in Task, Complete(t)
        PROVE  ProcTyped'
    BY <1>16 DEF Complete, ProcTyped
  <1>17. ASSUME NEW p \in Proc, Miss(p)
        PROVE  ProcTyped'
    BY <1>17 DEF Miss, ProcTyped, Process, Label, Goto, Arrive
  <1>18. ASSUME NEW p \in Proc, Lock(p)
        PROVE  ProcTyped'
    BY <1>18 DEF Lock, ProcTyped, Process, Label, At, Goto
  <1>19. ASSUME NEW p \in Proc, Compute(p)
        PROVE  ProcTyped'
    BY <1>19, UnreadTyped DEF Compute, ProcTyped, Process, Label, At, Goto
  <1>20. ASSUME NEW p \in Proc, Fill(p)
        PROVE  ProcTyped'
    BY ZenonT(40), <1>20 DEF Fill, ProcTyped, Process, Label, At
  <1>21. ASSUME NEW p \in Proc, Check(p)
        PROVE  ProcTyped'
    BY <1>21 DEF Check, ProcTyped, Process, Label, At, Goto
  <1>22. ASSUME NEW p \in Proc, Release(p)
        PROVE  ProcTyped'
    BY <1>22 DEF Release, ProcTyped, Process, Label, At, Goto
  <1>23. ASSUME NEW p \in Proc, Wait(p)
        PROVE  ProcTyped'
    <2>1. CASE proc' = [proc EXCEPT ![p] = Idle]
      BY <2>1, IdleTyped DEF ProcTyped
    <2>2. CASE proc[p].tries # Retries /\ proc' = [proc EXCEPT ![p].tries = @ + 1]
      <3>1. proc[p] \in Process /\ proc[p].tries + 1 \in Look
        BY <2>2, Ranges DEF ProcTyped, Process
      <3>2. [proc[p] EXCEPT !.tries = @ + 1] \in Process
        BY <3>1 DEF Process
      <3> QED BY <2>2, <3>2 DEF ProcTyped
    <2> QED BY <1>23, <2>1, <2>2 DEF Wait
  <1>24. CASE ExpireCache
    BY <1>24 DEF ExpireCache, ProcTyped
  <1>25. CASE ExpireLock
    BY <1>25 DEF ExpireLock, ProcTyped
  <1>26. ASSUME NEW p \in Proc, Stop(p)
        PROVE  ProcTyped'
    BY <1>26, IdleTyped DEF Stop, ProcTyped, At, Idle
  <1>27. CASE UNCHANGED vars
    BY <1>27 DEF vars, ProcTyped
  <1> QED BY <1>1, <1>2, <1>3, <1>4, <1>5, <1>6, <1>7, <1>8, <1>9, <1>10, <1>11, <1>12, <1>13,
       <1>14, <1>15, <1>16, <1>17, <1>18, <1>19, <1>20, <1>21, <1>22, <1>23, <1>24, <1>25,
       <1>26, <1>27
     DEF Next, Start, Scan, Refresh, Badge

\* The tables and the cache keep theirs.
LEMMA StoreStep ==
  ASSUME ProcTyped, StoreTyped, ScanHasDay, PushedAlone, [Next]_vars
  PROVE  StoreTyped'
  <1>1. ASSUME NEW p \in Proc, NEW d \in Day, StartScan(p, d)
        PROVE  StoreTyped'
    BY <1>1, MoreTyped DEF StartScan, StoreTyped, store, redis, history, Arrive, Idle
  <1>2. ASSUME NEW p \in Proc, NextPage(p)
        PROVE  StoreTyped'
    BY <1>2 DEF NextPage, StoreTyped, store, redis, history, At
  <1>3. ASSUME NEW p \in Proc, EndScan(p)
        PROVE  StoreTyped'
    BY <1>3, Ranges
       DEF EndScan, StoreTyped, ProcTyped, Process, ScanHasDay, store, redis, At, Idle
  <1>4. ASSUME NEW p \in Proc, NEW t \in Task, SkipRow(p, t)
        PROVE  StoreTyped'
    BY <1>4 DEF SkipRow, ProcTyped, Process, history, At, Advance, Row
  <1>5. ASSUME NEW p \in Proc, NEW t \in Task, InsertRow(p, t)
        PROVE  StoreTyped'
    BY <1>5 DEF InsertRow, ProcTyped, Process, Overtake, At, Advance, Row
  <1>6. ASSUME NEW p \in Proc, NEW t \in Task, FailRow(p, t)
        PROVE  StoreTyped'
    BY <1>6 DEF FailRow, ProcTyped, Process, At, Advance, Row
  <1>7. ASSUME NEW p \in Proc, Push(p)
        PROVE  StoreTyped'
    BY <1>7, Ranges
       DEF Push, StoreTyped, ProcTyped, Process, ScanHasDay, PushedAlone, store, redis,
           history, At, Goto
  <1>8. ASSUME NEW p \in Proc, Count(p)
        PROVE  StoreTyped'
    BY <1>8 DEF Count, StoreTyped, store, redis, history, At
  <1>9. ASSUME NEW p \in Proc, Store(p)
        PROVE  StoreTyped'
    BY <1>9 DEF Store, StoreTyped, ProcTyped, Process, store, history, At, Goto
  <1>10. ASSUME NEW p \in Proc, Emit(p)
        PROVE  StoreTyped'
    BY <1>10 DEF Emit, StoreTyped, ProcTyped, Process, store, redis, history, At, Idle, Return
  <1>11. ASSUME NEW p \in Proc, RefreshFails(p)
        PROVE  StoreTyped'
    BY <1>11 DEF RefreshFails, StoreTyped, store, redis, Idle, Return
  <1>12. ASSUME NEW p \in Proc, NEW n \in Note, ReadNote(p, n)
        PROVE  StoreTyped'
    BY <1>12, MoreTyped DEF ReadNote, StoreTyped, Mark, Overtake, redis, Goto, Arrive
  <1>13. ASSUME NEW p \in Proc, NEW n \in Note, DismissNote(p, n)
        PROVE  StoreTyped'
    BY <1>13, MoreTyped DEF DismissNote, StoreTyped, Mark, Overtake, redis, Goto, Arrive
  <1>14. ASSUME NEW p \in Proc, NEW t \in Task, Archive(p, t)
        PROVE  StoreTyped'
    BY <1>14, MoreTyped DEF Archive, StoreTyped, Status, redis, Arrive
  <1>15. ASSUME NEW p \in Proc, DismissTask(p)
        PROVE  StoreTyped'
    BY <1>15 DEF DismissTask, StoreTyped, Mark, Overtake, redis, At
  <1>16. ASSUME NEW t \in Task, Complete(t)
        PROVE  StoreTyped'
    BY <1>16, MoreTyped DEF Complete, StoreTyped, Status, redis, history
  <1>17. ASSUME NEW p \in Proc, Miss(p)
        PROVE  StoreTyped'
    BY <1>17, MoreTyped DEF Miss, StoreTyped, store, redis, history, Goto, Arrive
  <1>18. ASSUME NEW p \in Proc, Lock(p)
        PROVE  StoreTyped'
    BY <1>18 DEF Lock, StoreTyped, store, history, At, Goto
  <1>19. ASSUME NEW p \in Proc, Compute(p)
        PROVE  StoreTyped'
    BY <1>19 DEF Compute, StoreTyped, store, redis, history, At, Goto
  <1>20. ASSUME NEW p \in Proc, Fill(p)
        PROVE  StoreTyped'
    BY <1>20 DEF Fill, StoreTyped, ProcTyped, Process, store, history, At
  <1>21. ASSUME NEW p \in Proc, Check(p)
        PROVE  StoreTyped'
    BY <1>21 DEF Check, StoreTyped, store, redis, history, At, Goto
  <1>22. ASSUME NEW p \in Proc, Release(p)
        PROVE  StoreTyped'
    BY <1>22 DEF Release, StoreTyped, store, history, At, Goto
  <1>23. ASSUME NEW p \in Proc, Wait(p)
        PROVE  StoreTyped'
    BY <1>23 DEF Wait, StoreTyped, store, redis, history, At, Idle
  <1>24. CASE ExpireCache
    BY <1>24 DEF ExpireCache, StoreTyped, store, history
  <1>25. CASE ExpireLock
    BY <1>25 DEF ExpireLock, StoreTyped, store, history
  <1>26. ASSUME NEW p \in Proc, Stop(p)
        PROVE  StoreTyped'
    <2>1. proc[p] \in Process
      BY DEF ProcTyped
    <2>2. At(p, "push") => <<proc[p].task, proc[p].day>> \in Note
      BY <2>1, Ranges DEF Process, ScanHasDay, PushedAlone, At
    <2>3. At(p, "dismiss") => proc[p].task \in Task
      BY <2>1, Ranges DEF Process, PushedAlone, At
    <2>4. dropped' \subseteq Note /\ orphaned' \subseteq Task
      BY <1>26, <2>2, <2>3 DEF Stop, StoreTyped
    <2> QED BY <1>26, <2>4 DEF Stop, StoreTyped, store, redis
  <1>27. CASE UNCHANGED vars
    BY <1>27 DEF vars, StoreTyped, store, redis, history
  <1> QED BY <1>1, <1>2, <1>3, <1>4, <1>5, <1>6, <1>7, <1>8, <1>9, <1>10, <1>11, <1>12, <1>13,
       <1>14, <1>15, <1>16, <1>17, <1>18, <1>19, <1>20, <1>21, <1>22, <1>23, <1>24, <1>25,
       <1>26, <1>27
     DEF Next, Start, Scan, Refresh, Badge
-----------------------------------------------------------------------------
(* Pushes. *)

\* What most steps leave alone.
PushSame ==
    /\ UNCHANGED <<pushed, dropped>>
    /\ \A n \in Note : notes'[n] = "NONE" <=> notes[n] = "NONE"
    /\ \A q \in Proc : /\ At(q, "push")' <=> At(q, "push")
                       /\ At(q, "push") => proc'[q] = proc[q]
    /\ \A q \in Proc : At(q, "dismiss")' => proc'[q].task # 0

PushInv == PushedAlone /\ PushAccount

\* A step that touches no push keeps the account of pushes.
LEMMA PushSameKeeps ==
  ASSUME PushInv, PushSame
  PROVE  PushInv'
  <1>1. \A q \in Proc, n \in Note : Pushes(q, n)' <=> Pushes(q, n)
    BY DEF PushSame, Pushes, At
  <1>2. \A q \in Proc : proc[q].pc' = "push" => proc[q].task' # 0
    BY DEF PushSame, PushInv, PushedAlone, At
  <1>3. PushedAlone'
    BY <1>1, <1>2 DEF PushInv, PushedAlone, PushSame, At
  <1>4. PushAccount'
    BY <1>1 DEF PushInv, PushAccount, PushSame
  <1> QED BY <1>3, <1>4 DEF PushInv

\* A notification that is not there was not pushed.
LEMMA NotPushed ==
  ASSUME StoreTyped, PushInv, NEW n \in Note, notes[n] = "NONE"
  PROVE  pushed[n] = 0 /\ n \notin dropped /\ \A q \in Proc : ~Pushes(q, n)
  <1>1. pushed[n] \in Nat
    BY DEF StoreTyped
  <1> QED BY <1>1 DEF PushInv, PushAccount

\* Only the insert of a row, the push and a scan that stops before it matter.
LEMMA PushSameSteps ==
  ASSUME ProcTyped, StoreTyped, PushInv, [Next]_vars
  PROVE  \/ PushSame
         \/ \E p \in Proc : Push(p) \/ Stop(p) \/ \E t \in Task : InsertRow(p, t)
  <1>1. ASSUME NEW p \in Proc, NEW d \in Day, StartScan(p, d)
        PROVE  PushSame
    BY <1>1 DEF StartScan, PushSame, PushInv, PushedAlone, store, history, At, Arrive, Idle
  <1>2. ASSUME NEW p \in Proc, NextPage(p)
        PROVE  PushSame
    BY <1>2 DEF NextPage, PushSame, PushInv, PushedAlone, ProcTyped, store, history, At
  <1>3. ASSUME NEW p \in Proc, EndScan(p)
        PROVE  PushSame
    BY <1>3 DEF EndScan, PushSame, PushInv, PushedAlone, store, At, Idle
  <1>4. ASSUME NEW p \in Proc, NEW t \in Task, SkipRow(p, t)
        PROVE  PushSame
    BY <1>4 DEF SkipRow, PushSame, ProcTyped, Process, history, At, Advance, Row
  <1>5. ASSUME NEW p \in Proc, NEW t \in Task, FailRow(p, t)
        PROVE  PushSame
    BY <1>5 DEF FailRow, PushSame, ProcTyped, Process, At, Advance, Row
  <1>6. ASSUME NEW p \in Proc, Count(p)
        PROVE  PushSame
    BY <1>6 DEF Count, PushSame, PushInv, PushedAlone, ProcTyped, store, history, At
  <1>7. ASSUME NEW p \in Proc, Store(p)
        PROVE  PushSame
    BY <1>7 DEF Store, PushSame, PushInv, PushedAlone, store, history, At, Goto
  <1>8. ASSUME NEW p \in Proc, Emit(p)
        PROVE  PushSame
    BY <1>8 DEF Emit, PushSame, PushInv, PushedAlone, store, history, At, Idle, Return
  <1>9. ASSUME NEW p \in Proc, RefreshFails(p)
        PROVE  PushSame
    BY <1>9 DEF RefreshFails, PushSame, PushInv, PushedAlone, store, At, Idle, Return
  <1>10. ASSUME NEW p \in Proc, NEW n \in Note, ReadNote(p, n)
        PROVE  PushSame
    BY <1>10 DEF ReadNote, PushSame, PushInv, PushedAlone, At, Goto, Arrive
  <1>11. ASSUME NEW p \in Proc, NEW n \in Note, DismissNote(p, n)
        PROVE  PushSame
    BY <1>11 DEF DismissNote, PushSame, PushInv, PushedAlone, At, Goto, Arrive
  <1>12. ASSUME NEW p \in Proc, NEW t \in Task, Archive(p, t)
        PROVE  PushSame
    BY <1>12, Ranges DEF Archive, PushSame, PushInv, PushedAlone, ProcTyped, At, Arrive
  <1>13. ASSUME NEW p \in Proc, DismissTask(p)
        PROVE  PushSame
    BY <1>13 DEF DismissTask, PushSame, PushInv, PushedAlone, ProcTyped, At
  <1>14. ASSUME NEW t \in Task, Complete(t)
        PROVE  PushSame
    BY <1>14 DEF Complete, PushSame, PushInv, PushedAlone, history, At
  <1>15. ASSUME NEW p \in Proc, Miss(p)
        PROVE  PushSame
    BY <1>15 DEF Miss, PushSame, PushInv, PushedAlone, store, history, At, Goto, Arrive
  <1>16. ASSUME NEW p \in Proc, Lock(p)
        PROVE  PushSame
    BY <1>16
       DEF Lock, PushSame, PushInv, PushedAlone, ProcTyped, Process, store, history, At, Goto
  <1>17. ASSUME NEW p \in Proc, Compute(p)
        PROVE  PushSame
    <2>1. /\ proc[p].pc = "compute" /\ UNCHANGED <<notes, pushed, dropped>>
          /\ proc'[p].pc \in {"fill", "check"}
          /\ \A r \in Proc \ {p} : proc'[r] = proc[r]
      BY <1>17 DEF Compute, ProcTyped, Process, At, Goto, store, history
    <2> QED BY <2>1 DEF PushSame, PushInv, PushedAlone, At
  <1>18. ASSUME NEW p \in Proc, Fill(p)
        PROVE  PushSame
    BY <1>18 DEF Fill, PushSame, PushInv, PushedAlone, ProcTyped, store, history, At
  <1>19. ASSUME NEW p \in Proc, Check(p)
        PROVE  PushSame
    BY <1>19 DEF Check, PushSame, PushInv, PushedAlone, store, history, At, Goto
  <1>20. ASSUME NEW p \in Proc, Release(p)
        PROVE  PushSame
    BY <1>20 DEF Release, PushSame, PushInv, PushedAlone, store, history, At, Goto
  <1>21. ASSUME NEW p \in Proc, Wait(p)
        PROVE  PushSame
    BY <1>21
       DEF Wait, PushSame, PushInv, PushedAlone, ProcTyped, Process, store, history, At, Idle
  <1>22. CASE ExpireCache
    BY <1>22 DEF ExpireCache, PushSame, PushInv, PushedAlone, store, history, At
  <1>23. CASE ExpireLock
    BY <1>23 DEF ExpireLock, PushSame, PushInv, PushedAlone, store, history, At
  <1>24. CASE UNCHANGED vars
    BY <1>24 DEF vars, PushSame, PushInv, PushedAlone, store, history, At
  <1> QED BY <1>1, <1>2, <1>3, <1>4, <1>5, <1>6, <1>7, <1>8, <1>9, <1>10, <1>11, <1>12, <1>13,
       <1>14, <1>15, <1>16, <1>17, <1>18, <1>19, <1>20, <1>21, <1>22, <1>23, <1>24
     DEF Next, Start, Scan, Refresh, Badge

\* A push moves a notification from the scan to the clients.
LEMMA PushKeeps ==
  ASSUME ProcTyped, StoreTyped, ScanHasDay, PushInv, NEW p \in Proc, Push(p)
  PROVE  PushInv'
  <1> DEFINE m == <<proc[p].task, proc[p].day>>
  <1>1. /\ proc[p].pc = "push" /\ proc'[p].pc = "count"
        /\ \A q \in Proc \ {p} : proc'[q] = proc[q]
        /\ proc' \in [Proc -> Process]
    BY DEF Push, At, Goto, ProcTyped, Process, Label
  <1>2. m \in Note /\ Pushes(p, m)
    BY <1>1, Ranges DEF ProcTyped, Process, ScanHasDay, PushInv, PushedAlone, Pushes, At
  <1>3. /\ pushed'[m] = pushed[m] + 1 /\ UNCHANGED <<notes, dropped>>
        /\ \A n \in Note \ {m} : pushed'[n] = pushed[n]
    BY <1>2 DEF Push, StoreTyped, store, history
  <1>4. \A n \in Note, q \in Proc : Pushes(q, n)' <=> Pushes(q, n) /\ q # p
    BY <1>1 DEF Pushes, At
  <1>5. PushedAlone'
    BY <1>1, <1>4 DEF PushInv, PushedAlone, At
  <1>6. \A q \in Proc, n \in Note : Pushes(p, n) => n = m
    BY DEF Pushes
  <1> HIDE DEF m
  <1>7. ASSUME NEW n \in Note
        PROVE  pushed'[n] + (IF \E q \in Proc : Pushes(q, n)' THEN 1 ELSE 0)
                 + (IF n \in dropped' THEN 1 ELSE 0) = (IF notes'[n] = "NONE" THEN 0 ELSE 1)
    <2>1. pushed[n] \in Nat
      BY DEF StoreTyped
    <2>2. CASE n = m
      <3>1. ~ \E q \in Proc : Pushes(q, n)'
        BY <1>2, <1>4, <2>2 DEF PushInv, PushedAlone
      <3>2. \E q \in Proc : Pushes(q, n)
        BY <1>2, <2>2
      <3> QED BY <1>3, <2>1, <2>2, <3>1, <3>2 DEF PushInv, PushAccount
    <2>3. CASE n # m
      <3>1. (\E q \in Proc : Pushes(q, n)') <=> (\E q \in Proc : Pushes(q, n))
        BY <1>4, <1>6, <2>3
      <3> QED BY <1>3, <2>3, <3>1 DEF PushInv, PushAccount
    <2> QED BY <2>2, <2>3
  <1>8. PushAccount'
    BY <1>7 DEF PushAccount
  <1> QED BY <1>5, <1>8 DEF PushInv

\* A scan that stops before the push drops its notification.
LEMMA PushStopKeeps ==
  ASSUME ProcTyped, StoreTyped, ScanHasDay, PushInv, NEW p \in Proc, Stop(p)
  PROVE  PushInv'
  <1>1. /\ proc'[p].pc = "idle" /\ UNCHANGED <<notes, pushed>>
        /\ \A q \in Proc \ {p} : proc'[q] = proc[q]
    BY DEF Stop, ProcTyped, Idle, store
  <1>2. CASE proc[p].pc # "push"
    <2>1. PushSame
      BY <1>1, <1>2 DEF Stop, PushSame, At, PushInv, PushedAlone
    <2> QED BY <2>1, PushSameKeeps
  <1>3. CASE proc[p].pc = "push"
    <2> DEFINE m == <<proc[p].task, proc[p].day>>
    <2>1. m \in Note /\ Pushes(p, m)
      BY <1>3, Ranges DEF ProcTyped, Process, ScanHasDay, PushInv, PushedAlone, Pushes, At
    <2>2. dropped' = dropped \union {m}
      BY <1>3 DEF Stop, At
    <2>3. \A n \in Note, q \in Proc : Pushes(q, n)' <=> Pushes(q, n) /\ q # p
      BY <1>1 DEF Pushes, At
    <2>4. PushedAlone'
      BY <1>1, <2>3 DEF PushInv, PushedAlone, At
    <2>5. \A q \in Proc, n \in Note : Pushes(p, n) => n = m
      BY DEF Pushes
    <2> HIDE DEF m
    <2>6. ASSUME NEW n \in Note
          PROVE  pushed'[n] + (IF \E q \in Proc : Pushes(q, n)' THEN 1 ELSE 0)
                   + (IF n \in dropped' THEN 1 ELSE 0) = (IF notes'[n] = "NONE" THEN 0 ELSE 1)
      <3>1. pushed[n] \in Nat
        BY DEF StoreTyped
      <3>2. CASE n = m
        <4>1. ~ \E q \in Proc : Pushes(q, n)'
          BY <2>1, <2>3, <3>2 DEF PushInv, PushedAlone
        <4>2. \E q \in Proc : Pushes(q, n)
          BY <2>1, <3>2
        <4>3. n \notin dropped
          BY <3>1, <4>2 DEF PushInv, PushAccount
        <4> QED BY <1>1, <2>2, <3>1, <3>2, <4>1, <4>2, <4>3 DEF PushInv, PushAccount
      <3>3. CASE n # m
        <4>1. (\E q \in Proc : Pushes(q, n)') <=> (\E q \in Proc : Pushes(q, n))
          BY <2>3, <2>5, <3>3
        <4> QED BY <1>1, <2>2, <3>3, <4>1 DEF PushInv, PushAccount
      <3> QED BY <3>2, <3>3
    <2>7. PushAccount'
      BY <2>6 DEF PushAccount
    <2> QED BY <2>4, <2>7 DEF PushInv
  <1> QED BY <1>2, <1>3

\* An insert of a new row is one push owed.
LEMMA InsertKeeps ==
  ASSUME ProcTyped, StoreTyped, ScanHasDay, PushInv,
         NEW p \in Proc, NEW t \in Task, InsertRow(p, t)
  PROVE  PushInv'
  <1> DEFINE m == <<t, proc[p].day>>
  <1>1. /\ proc[p].pc = "scan" /\ proc'[p].pc = "push" /\ proc'[p].task = t
        /\ proc'[p].day = proc[p].day
        /\ \A q \in Proc \ {p} : proc'[q] = proc[q]
    BY DEF InsertRow, Row, Advance, At, ProcTyped
  <1>2. m \in Note
    BY <1>1, Ranges DEF ProcTyped, Process, ScanHasDay
  <1>3. /\ notes[m] = "NONE" /\ notes'[m] = "UNREAD"
        /\ \A n \in Note \ {m} : notes'[n] = notes[n]
        /\ UNCHANGED <<pushed, dropped>>
    BY <1>2 DEF InsertRow, StoreTyped
  <1>4. pushed[m] = 0 /\ m \notin dropped /\ \A q \in Proc : ~Pushes(q, m)
    BY <1>2, <1>3, NotPushed
  <1>5. \A n \in Note : Pushes(p, n)' <=> n = m
    BY <1>1 DEF Pushes, At
  <1>6. \A n \in Note, q \in Proc \ {p} : Pushes(q, n)' <=> Pushes(q, n)
    BY <1>1 DEF Pushes, At
  <1>7. \A n \in Note : ~Pushes(p, n)
    BY <1>1 DEF Pushes, At
  <1>8. \A q \in Proc : proc'[q].pc \in {"push", "dismiss"} => proc'[q].task # 0
    BY <1>1, Ranges DEF PushInv, PushedAlone
  <1> HIDE DEF m
  <1>9. PushedAlone'
    <2>1. \A q, r \in Proc, n \in Note : Pushes(q, n)' /\ Pushes(r, n)' => q = r
      BY <1>4, <1>5, <1>6 DEF PushInv, PushedAlone
    <2> QED BY <1>8, <2>1 DEF PushedAlone
  <1>10. ASSUME NEW n \in Note
         PROVE  pushed'[n] + (IF \E q \in Proc : Pushes(q, n)' THEN 1 ELSE 0)
                  + (IF n \in dropped' THEN 1 ELSE 0) = (IF notes'[n] = "NONE" THEN 0 ELSE 1)
    <2>1. CASE n = m
      BY <1>3, <1>4, <1>5, <2>1
    <2>2. CASE n # m
      <3>1. (\E q \in Proc : Pushes(q, n)') <=> (\E q \in Proc : Pushes(q, n))
        BY <1>5, <1>6, <1>7, <2>2
      <3> QED BY <1>3, <2>2, <3>1 DEF PushInv, PushAccount
    <2> QED BY <2>1, <2>2
  <1>11. PushAccount'
    BY <1>10 DEF PushAccount
  <1> QED BY <1>9, <1>11 DEF PushInv

\* The account of pushes is kept by every step.
LEMMA PushInvKept ==
  ASSUME ProcTyped, StoreTyped, ScanHasDay, PushInv, [Next]_vars
  PROVE  PushInv'
  BY PushSameSteps, PushSameKeeps, PushKeeps, PushStopKeeps, InsertKeeps

\* The cardinality of PushedOnce is that of the one process, or of none.
LEMMA PushedOnceFollows == PushInv => PushedOnce
  <1> SUFFICES ASSUME PushInv, NEW n \in Note
               PROVE  Cardinality({p \in Proc : Pushes(p, n)})
                        = (IF \E p \in Proc : Pushes(p, n) THEN 1 ELSE 0)
    BY DEF PushInv, PushAccount, PushedOnce, Pushes
  <1>1. CASE \E p \in Proc : Pushes(p, n)
    <2>1. PICK p \in Proc : Pushes(p, n)
      BY <1>1
    <2>2. {q \in Proc : Pushes(q, n)} = {p}
      BY <2>1 DEF PushInv, PushedAlone
    <2> QED BY <1>1, <2>2, FS_Singleton
  <1>2. CASE ~ \E p \in Proc : Pushes(p, n)
    <2>1. {q \in Proc : Pushes(q, n)} = {}
      BY <1>2
    <2> QED BY <1>2, <2>1, FS_EmptySet
  <1> QED BY <1>1, <1>2

-----------------------------------------------------------------------------
(* The badge. *)

\* The number unread depends on the notifications only.
LEMMA UnreadSame == UNCHANGED notes => Unread' = Unread
  BY DEF Unread

\* A process that changes the notifications is about to count them, and overtakes those
\* that have counted.
LEMMA ChangeKeeps ==
  ASSUME RefreshOwed, NEW p \in Proc, Overtake(p), UNCHANGED <<cache, shown>>,
         proc'[p].pc \in {"push", "count"}, \A q \in Proc \ {p} : proc'[q] = proc[q]
  PROVE  RefreshOwed'
  <1> SUFFICES ASSUME ~overtaken'
               PROVE  /\ \A q \in Proc : proc'[q].pc \notin {"store", "emit", "fill"}
                      /\ Some({"push", "count", "store"})'
                      /\ Some({"push", "count", "store", "emit"})'
    BY DEF RefreshOwed
  <1>1. \A q \in Proc \ {p} : proc[q].pc \notin {"store", "emit", "fill"}
    BY DEF Overtake
  <1> QED BY <1>1 DEF Some

\* Who changes a notification owes a count, or has overtaken one.
LEMMA ChangeSteps ==
  ASSUME ProcTyped, RefreshOwed, NEW p \in Proc,
         \/ \E t \in Task : InsertRow(p, t)
         \/ \E n \in Note : ReadNote(p, n) \/ DismissNote(p, n)
         \/ DismissTask(p)
  PROVE  RefreshOwed'
  <1>1. /\ Overtake(p) /\ UNCHANGED <<cache, shown>>
        /\ proc'[p].pc \in {"push", "count"} /\ \A q \in Proc \ {p} : proc'[q] = proc[q]
    <2> DEFINE Changed == /\ Overtake(p) /\ UNCHANGED <<cache, shown>>
                          /\ proc'[p].pc \in {"push", "count"}
                          /\ \A q \in Proc \ {p} : proc'[q] = proc[q]
    <2>1. ASSUME NEW t \in Task, InsertRow(p, t)
          PROVE  Changed
      BY <2>1 DEF InsertRow, Advance, redis, ProcTyped, Process
    <2>2. ASSUME NEW n \in Note, ReadNote(p, n) \/ DismissNote(p, n)
          PROVE  Changed
      BY <2>2 DEF ReadNote, DismissNote, Goto, redis, ProcTyped, Process
    <2>3. CASE DismissTask(p)
      BY <2>3 DEF DismissTask, redis, ProcTyped
    <2> QED BY <2>1, <2>2, <2>3
  <1> QED BY <1>1, ChangeKeeps

\* The other steps leave the number of unread notifications as it is.
LEMMA OwedSteps ==
  ASSUME ProcTyped, RefreshOwed, [Next]_vars
  PROVE  \/ RefreshOwed'
         \/ \E p \in Proc :
               \/ \E t \in Task : InsertRow(p, t)
               \/ \E n \in Note : ReadNote(p, n) \/ DismissNote(p, n)
               \/ DismissTask(p)
  <1>1. ASSUME NEW p \in Proc, NEW d \in Day, StartScan(p, d)
        PROVE  RefreshOwed'
    BY <1>1, UnreadSame DEF StartScan, RefreshOwed, Some, store, redis, history, Arrive, Idle
  <1>2. ASSUME NEW p \in Proc, NextPage(p)
        PROVE  RefreshOwed'
    BY <1>2, UnreadSame DEF NextPage, RefreshOwed, Some, ProcTyped, store, redis, history, At
  <1>3. ASSUME NEW p \in Proc, EndScan(p)
        PROVE  RefreshOwed'
    BY <1>3, UnreadSame DEF EndScan, RefreshOwed, Some, store, redis, At, Idle
  <1>4. ASSUME NEW p \in Proc, NEW t \in Task, SkipRow(p, t)
        PROVE  RefreshOwed'
    BY <1>4, UnreadSame
       DEF SkipRow, RefreshOwed, Some, ProcTyped, store, redis, history, At, Advance, Row
  <1>5. ASSUME NEW p \in Proc, NEW t \in Task, FailRow(p, t)
        PROVE  RefreshOwed'
    BY <1>5, UnreadSame
       DEF FailRow, RefreshOwed, Some, ProcTyped, store, redis, At, Advance, Row
  <1>6. ASSUME NEW p \in Proc, Push(p)
        PROVE  RefreshOwed'
    BY <1>6, UnreadSame DEF Push, RefreshOwed, Some, store, history, At, Goto
  <1>7. ASSUME NEW p \in Proc, Count(p)
        PROVE  RefreshOwed'
    BY <1>7, UnreadSame DEF Count, RefreshOwed, Some, ProcTyped, store, history, At
  <1>8. ASSUME NEW p \in Proc, Store(p)
        PROVE  RefreshOwed'
    BY <1>8, UnreadSame DEF Store, RefreshOwed, Some, store, history, At, Goto
  <1>9. ASSUME NEW p \in Proc, Emit(p)
        PROVE  RefreshOwed'
    BY <1>9, UnreadSame DEF Emit, RefreshOwed, Some, store, redis, history, At, Idle, Return
  <1>10. ASSUME NEW p \in Proc, RefreshFails(p)
        PROVE  RefreshOwed'
    BY <1>10, UnreadSame DEF RefreshFails, RefreshOwed, Some, Idle, Return
  <1>11. ASSUME NEW p \in Proc, NEW t \in Task, Archive(p, t)
        PROVE  RefreshOwed'
    BY <1>11, UnreadSame DEF Archive, RefreshOwed, Some, ProcTyped, redis, Arrive
  <1>12. ASSUME NEW t \in Task, Complete(t)
        PROVE  RefreshOwed'
    BY <1>12, UnreadSame DEF Complete, RefreshOwed, Some, redis, history
  <1>13. ASSUME NEW p \in Proc, Miss(p)
        PROVE  RefreshOwed'
    BY <1>13, UnreadSame DEF Miss, RefreshOwed, Some, store, redis, history, Goto, Arrive
  <1>14. ASSUME NEW p \in Proc, Lock(p)
        PROVE  RefreshOwed'
    BY <1>14, UnreadSame
       DEF Lock, RefreshOwed, Some, ProcTyped, Process, store, history, At, Goto
  <1>15. ASSUME NEW p \in Proc, Compute(p)
        PROVE  RefreshOwed'
    BY <1>15, UnreadSame
       DEF Compute, RefreshOwed, Some, ProcTyped, Process, store, redis, history, At, Goto
  <1>16. ASSUME NEW p \in Proc, Fill(p)
        PROVE  RefreshOwed'
    BY <1>16, UnreadSame DEF Fill, RefreshOwed, Some, ProcTyped, store, history, At
  <1>17. ASSUME NEW p \in Proc, Check(p)
        PROVE  RefreshOwed'
    BY <1>17, UnreadSame DEF Check, RefreshOwed, Some, store, redis, history, At, Goto
  <1>18. ASSUME NEW p \in Proc, Release(p)
        PROVE  RefreshOwed'
    BY <1>18, UnreadSame DEF Release, RefreshOwed, Some, store, history, At, Goto
  <1>19. ASSUME NEW p \in Proc, Wait(p)
        PROVE  RefreshOwed'
    BY <1>19, UnreadSame
       DEF Wait, RefreshOwed, Some, ProcTyped, Process, store, redis, history, At, Idle
  <1>20. CASE ExpireCache
    BY <1>20, UnreadSame DEF ExpireCache, RefreshOwed, Some, store, history
  <1>21. CASE ExpireLock
    BY <1>21, UnreadSame DEF ExpireLock, RefreshOwed, Some, store, history
  <1>22. ASSUME NEW p \in Proc, Stop(p)
        PROVE  RefreshOwed'
    BY <1>22, UnreadSame DEF Stop, RefreshOwed, Some, ProcTyped, store, redis, At, Idle
  <1>23. CASE UNCHANGED vars
    BY <1>23, UnreadSame DEF vars, RefreshOwed, Some, store, redis, history
  <1> QED BY <1>1, <1>2, <1>3, <1>4, <1>5, <1>6, <1>7, <1>8, <1>9, <1>10, <1>11, <1>12, <1>13,
       <1>14, <1>15, <1>16, <1>17, <1>18, <1>19, <1>20, <1>21, <1>22, <1>23
     DEF Next, Start, Scan, Refresh, Badge

\* A badge that is wrong stays about to be refreshed.
LEMMA RefreshOwedKept ==
  ASSUME ProcTyped, RefreshOwed, [Next]_vars
  PROVE  RefreshOwed'
  BY ChangeSteps, OwedSteps

\* Once nobody owes a refresh the badge is right.
LEMMA BadgeAgreesFollows == RefreshOwed => BadgeAgrees
  BY DEF RefreshOwed, BadgeAgrees, Some, At
-----------------------------------------------------------------------------
(* Deleted tasks. *)

\* A page is made of open tasks, and a task that is deleted while a page has it is orphaned.
LEMMA BatchKnownKept ==
  ASSUME ProcTyped, StoreTyped, BatchKnown, [Next]_vars
  PROVE  BatchKnown'
  <1>1. ASSUME NEW p \in Proc, NEW d \in Day, StartScan(p, d)
        PROVE  BatchKnown'
    BY <1>1 DEF StartScan, BatchKnown, store, history, Arrive, Idle
  <1>2. ASSUME NEW p \in Proc, NextPage(p)
        PROVE  BatchKnown'
    BY <1>2 DEF NextPage, Page, Open, BatchKnown, ProcTyped, store, history, At
  <1>3. ASSUME NEW p \in Proc, EndScan(p)
        PROVE  BatchKnown'
    BY <1>3 DEF EndScan, BatchKnown, store, At, Idle
  <1>4. ASSUME NEW p \in Proc, NEW t \in Task, SkipRow(p, t)
        PROVE  BatchKnown'
    BY <1>4 DEF SkipRow, BatchKnown, ProcTyped, store, history, At, Advance, Row
  <1>5. ASSUME NEW p \in Proc, NEW t \in Task, InsertRow(p, t)
        PROVE  BatchKnown'
    BY <1>5 DEF InsertRow, BatchKnown, ProcTyped, At, Advance, Row
  <1>6. ASSUME NEW p \in Proc, NEW t \in Task, FailRow(p, t)
        PROVE  BatchKnown'
    BY <1>6 DEF FailRow, BatchKnown, ProcTyped, store, At, Advance, Row
  <1>7. ASSUME NEW p \in Proc, Push(p)
        PROVE  BatchKnown'
    BY <1>7 DEF Push, BatchKnown, store, history, At, Goto
  <1>8. ASSUME NEW p \in Proc, Count(p)
        PROVE  BatchKnown'
    BY <1>8 DEF Count, BatchKnown, ProcTyped, store, history, At
  <1>9. ASSUME NEW p \in Proc, Store(p)
        PROVE  BatchKnown'
    BY <1>9 DEF Store, BatchKnown, store, history, At, Goto
  <1>10. ASSUME NEW p \in Proc, Emit(p)
        PROVE  BatchKnown'
    BY <1>10 DEF Emit, BatchKnown, store, history, At, Idle, Return
  <1>11. ASSUME NEW p \in Proc, RefreshFails(p)
        PROVE  BatchKnown'
    BY <1>11 DEF RefreshFails, BatchKnown, store, Idle, Return
  <1>12. ASSUME NEW p \in Proc, NEW n \in Note, ReadNote(p, n)
        PROVE  BatchKnown'
    BY <1>12 DEF ReadNote, BatchKnown, Goto, Arrive
  <1>13. ASSUME NEW p \in Proc, NEW n \in Note, DismissNote(p, n)
        PROVE  BatchKnown'
    BY <1>13 DEF DismissNote, BatchKnown, Goto, Arrive
  <1>14. ASSUME NEW p \in Proc, NEW t \in Task, Archive(p, t)
        PROVE  BatchKnown'
    BY <1>14 DEF Archive, BatchKnown, ProcTyped, Arrive
  <1>15. ASSUME NEW p \in Proc, DismissTask(p)
        PROVE  BatchKnown'
    BY <1>15 DEF DismissTask, BatchKnown, ProcTyped, At
  <1>16. ASSUME NEW t \in Task, Complete(t)
        PROVE  BatchKnown'
    BY <1>16 DEF Complete, BatchKnown, history
  <1>17. ASSUME NEW p \in Proc, Miss(p)
        PROVE  BatchKnown'
    BY <1>17 DEF Miss, BatchKnown, store, history, Goto, Arrive
  <1>18. ASSUME NEW p \in Proc, Lock(p)
        PROVE  BatchKnown'
    BY <1>18 DEF Lock, BatchKnown, ProcTyped, Process, store, history, At, Goto
  <1>19. ASSUME NEW p \in Proc, Compute(p)
        PROVE  BatchKnown'
    BY <1>19 DEF Compute, BatchKnown, ProcTyped, Process, store, history, At, Goto
  <1>20. ASSUME NEW p \in Proc, Fill(p)
        PROVE  BatchKnown'
    BY <1>20 DEF Fill, BatchKnown, ProcTyped, store, history, At
  <1>21. ASSUME NEW p \in Proc, Check(p)
        PROVE  BatchKnown'
    BY <1>21 DEF Check, BatchKnown, store, history, At, Goto
  <1>22. ASSUME NEW p \in Proc, Release(p)
        PROVE  BatchKnown'
    BY <1>22 DEF Release, BatchKnown, store, history, At, Goto
  <1>23. ASSUME NEW p \in Proc, Wait(p)
        PROVE  BatchKnown'
    BY <1>23 DEF Wait, BatchKnown, ProcTyped, Process, store, history, At, Idle
  <1>24. CASE ExpireCache
    BY <1>24 DEF ExpireCache, BatchKnown, store, history
  <1>25. CASE ExpireLock
    BY <1>25 DEF ExpireLock, BatchKnown, store, history
  <1>26. ASSUME NEW p \in Proc, Stop(p)
        PROVE  BatchKnown'
    BY <1>26 DEF Stop, BatchKnown, store, At, Idle
  <1>27. CASE UNCHANGED vars
    BY <1>27 DEF vars, BatchKnown, store, history
  <1> QED BY <1>1, <1>2, <1>3, <1>4, <1>5, <1>6, <1>7, <1>8, <1>9, <1>10, <1>11, <1>12, <1>13,
       <1>14, <1>15, <1>16, <1>17, <1>18, <1>19, <1>20, <1>21, <1>22, <1>23, <1>24, <1>25,
       <1>26, <1>27
     DEF Next, Start, Scan, Refresh, Badge

\* Who deletes dismisses, or stops and orphans the task.
LEMMA QuietKept ==
  ASSUME ProcTyped, StoreTyped, BatchKnown, ArchivedIsQuiet, [Next]_vars
  PROVE  ArchivedIsQuiet'
  <1>1. ASSUME NEW p \in Proc, NEW d \in Day, StartScan(p, d)
        PROVE  ArchivedIsQuiet'
    BY <1>1 DEF StartScan, ArchivedIsQuiet, store, history, At, Arrive, Idle
  <1>2. ASSUME NEW p \in Proc, NextPage(p)
        PROVE  ArchivedIsQuiet'
    BY <1>2 DEF NextPage, ArchivedIsQuiet, ProcTyped, store, history, At
  <1>3. ASSUME NEW p \in Proc, EndScan(p)
        PROVE  ArchivedIsQuiet'
    BY <1>3 DEF EndScan, ArchivedIsQuiet, store, At, Idle
  <1>4. ASSUME NEW p \in Proc, NEW t \in Task, SkipRow(p, t)
        PROVE  ArchivedIsQuiet'
    BY <1>4 DEF SkipRow, ArchivedIsQuiet, ProcTyped, store, history, At, Advance, Row
  <1>5. ASSUME NEW p \in Proc, NEW t \in Task, InsertRow(p, t)
        PROVE  ArchivedIsQuiet'
    BY <1>5 DEF InsertRow, ArchivedIsQuiet, BatchKnown, ProcTyped, At, Advance, Row
  <1>6. ASSUME NEW p \in Proc, NEW t \in Task, FailRow(p, t)
        PROVE  ArchivedIsQuiet'
    BY <1>6 DEF FailRow, ArchivedIsQuiet, ProcTyped, store, At, Advance, Row
  <1>7. ASSUME NEW p \in Proc, Push(p)
        PROVE  ArchivedIsQuiet'
    BY <1>7 DEF Push, ArchivedIsQuiet, store, history, At, Goto
  <1>8. ASSUME NEW p \in Proc, Count(p)
        PROVE  ArchivedIsQuiet'
    BY <1>8 DEF Count, ArchivedIsQuiet, ProcTyped, store, history, At
  <1>9. ASSUME NEW p \in Proc, Store(p)
        PROVE  ArchivedIsQuiet'
    BY <1>9 DEF Store, ArchivedIsQuiet, store, history, At, Goto
  <1>10. ASSUME NEW p \in Proc, Emit(p)
        PROVE  ArchivedIsQuiet'
    BY <1>10 DEF Emit, ArchivedIsQuiet, store, history, At, Idle, Return
  <1>11. ASSUME NEW p \in Proc, RefreshFails(p)
        PROVE  ArchivedIsQuiet'
    BY <1>11 DEF RefreshFails, ArchivedIsQuiet, store, At, Idle, Return
  <1>12. ASSUME NEW p \in Proc, NEW n \in Note, ReadNote(p, n)
        PROVE  ArchivedIsQuiet'
    BY <1>12 DEF ReadNote, ArchivedIsQuiet, At, Goto, Arrive
  <1>13. ASSUME NEW p \in Proc, NEW n \in Note, DismissNote(p, n)
        PROVE  ArchivedIsQuiet'
    BY <1>13 DEF DismissNote, ArchivedIsQuiet, At, Goto, Arrive
  <1>14. ASSUME NEW p \in Proc, NEW t \in Task, Archive(p, t)
        PROVE  ArchivedIsQuiet'
    BY <1>14 DEF Archive, ArchivedIsQuiet, ProcTyped, At, Arrive
  <1>15. ASSUME NEW p \in Proc, DismissTask(p)
        PROVE  ArchivedIsQuiet'
    BY <1>15 DEF DismissTask, ArchivedIsQuiet, ProcTyped, At
  <1>16. ASSUME NEW t \in Task, Complete(t)
        PROVE  ArchivedIsQuiet'
    BY <1>16 DEF Complete, ArchivedIsQuiet, history, At
  <1>17. ASSUME NEW p \in Proc, Miss(p)
        PROVE  ArchivedIsQuiet'
    BY <1>17 DEF Miss, ArchivedIsQuiet, store, history, At, Goto, Arrive
  <1>18. ASSUME NEW p \in Proc, Lock(p)
        PROVE  ArchivedIsQuiet'
    BY <1>18 DEF Lock, ArchivedIsQuiet, ProcTyped, store, history, At, Goto
  <1>19. ASSUME NEW p \in Proc, Compute(p)
        PROVE  ArchivedIsQuiet'
    BY <1>19 DEF Compute, ArchivedIsQuiet, ProcTyped, store, history, At, Goto
  <1>20. ASSUME NEW p \in Proc, Fill(p)
        PROVE  ArchivedIsQuiet'
    BY <1>20 DEF Fill, ArchivedIsQuiet, ProcTyped, store, history, At
  <1>21. ASSUME NEW p \in Proc, Check(p)
        PROVE  ArchivedIsQuiet'
    BY <1>21 DEF Check, ArchivedIsQuiet, store, history, At, Goto
  <1>22. ASSUME NEW p \in Proc, Release(p)
        PROVE  ArchivedIsQuiet'
    BY <1>22 DEF Release, ArchivedIsQuiet, store, history, At, Goto
  <1>23. ASSUME NEW p \in Proc, Wait(p)
        PROVE  ArchivedIsQuiet'
    BY <1>23 DEF Wait, ArchivedIsQuiet, ProcTyped, store, history, At, Idle
  <1>24. CASE ExpireCache
    BY <1>24 DEF ExpireCache, ArchivedIsQuiet, store, history, At
  <1>25. CASE ExpireLock
    BY <1>25 DEF ExpireLock, ArchivedIsQuiet, store, history, At
  <1>26. ASSUME NEW p \in Proc, Stop(p)
        PROVE  ArchivedIsQuiet'
    BY <1>26 DEF Stop, ArchivedIsQuiet, store, At, Idle
  <1>27. CASE UNCHANGED vars
    BY <1>27 DEF vars, ArchivedIsQuiet, store, history, At
  <1> QED BY <1>1, <1>2, <1>3, <1>4, <1>5, <1>6, <1>7, <1>8, <1>9, <1>10, <1>11, <1>12, <1>13,
       <1>14, <1>15, <1>16, <1>17, <1>18, <1>19, <1>20, <1>21, <1>22, <1>23, <1>24, <1>25,
       <1>26, <1>27
     DEF Next, Start, Scan, Refresh, Badge

-----------------------------------------------------------------------------
(* The pages of the scan. *)

UpTo(S, t) == {u \in S : u <= t}
FirstOf(S) == {t \in S : Cardinality(UpTo(S, t)) <= BatchSize}

\* A nonempty set of tasks has a smallest one.
LEMMA Smallest ==
  ASSUME NEW S, S \subseteq Nat, S # {}
  PROVE  \E t \in S : \A u \in S : t <= u
  <1>1. PICK t \in S : \A u \in S : ~ (<<u, t>> \in OpToRel(<, Nat))
    BY NatLessThanWellFounded, WFMin
  <1>2. \A u \in S : ~ (u < t)
    BY <1>1 DEF OpToRel
  <1> QED BY <1>2

\* What is left out of a page comes after a full one.
LEMMA FullPage ==
  ASSUME NEW S, S \subseteq Task, NEW t \in S \ FirstOf(S)
  PROVE  Cardinality(FirstOf(S)) = BatchSize /\ \A u \in FirstOf(S) : u < t
  <1>1. IsFiniteSet(S) /\ S \subseteq Nat
    <2>1. IsFiniteSet(Task) /\ Task \subseteq Nat
      BY InboxAssumption, FS_Interval DEF Task
    <2> QED BY <2>1, FS_Subset
  <1>2. \A x : /\ IsFiniteSet(UpTo(S, x)) /\ Cardinality(UpTo(S, x)) \in Nat
    BY <1>1, FS_Subset, FS_CardinalityType DEF UpTo
  <1>3. IsFiniteSet(FirstOf(S)) /\ Cardinality(FirstOf(S)) \in Nat
    BY <1>1, FS_Subset, FS_CardinalityType DEF FirstOf
  <1>4. ASSUME NEW x \in S, NEW y \in S, x <= y
        PROVE  Cardinality(UpTo(S, x)) <= Cardinality(UpTo(S, y))
    <2>1. \A u \in S : u <= x => u <= y
      <3>1. x \in Nat /\ y \in Nat
        BY <1>1
      <3> QED BY <1>1, <1>4, <3>1
    <2>2. UpTo(S, x) \subseteq UpTo(S, y)
      BY <2>1 DEF UpTo
    <2> QED BY <1>2, <2>2, FS_Subset
  <1>5. \A x \in S \ FirstOf(S), y \in FirstOf(S) : y < x
    <2> SUFFICES ASSUME NEW x \in S \ FirstOf(S), NEW y \in FirstOf(S), x <= y
                 PROVE  FALSE
      BY <1>1 DEF FirstOf
    <2>1. Cardinality(UpTo(S, x)) <= Cardinality(UpTo(S, y))
      BY <1>4 DEF FirstOf
    <2> QED BY <1>2, <2>1, InboxAssumption DEF FirstOf
  <1>6. Cardinality(FirstOf(S)) >= BatchSize
    <2>1. PICK x \in S \ FirstOf(S) : \A y \in S \ FirstOf(S) : x <= y
      BY <1>1, Smallest
    <2>2. UpTo(S, x) = FirstOf(S) \union {x}
      <3>1. \A y \in S : y <= x <=> y \in FirstOf(S) \/ y = x
        BY <1>1, <1>5, <2>1
      <3> QED BY <3>1 DEF UpTo, FirstOf
    <2>3. Cardinality(UpTo(S, x)) = Cardinality(FirstOf(S)) + 1
      BY <1>3, <2>1, <2>2, FS_AddElement
    <2>4. Cardinality(UpTo(S, x)) > BatchSize
      BY <1>2, InboxAssumption DEF FirstOf
    <2> QED BY <1>3, <2>3, <2>4, InboxAssumption
  <1>7. Cardinality(FirstOf(S)) <= BatchSize
    <2>1. FirstOf(S) # {}
      BY <1>6, FS_EmptySet, InboxAssumption
    <2> DEFINE Bounds == {b \in Nat : \A y \in FirstOf(S) : y <= b}
    <2>2. PICK b \in Bounds : \A c \in Bounds : b <= c
      <3>1. t \in Bounds
        BY <1>1, <1>5 DEF FirstOf
      <3> QED BY <3>1, Smallest
    <2>3. b \in FirstOf(S)
      <3> SUFFICES ASSUME b \notin FirstOf(S)
                   PROVE  FALSE
        OBVIOUS
      <3>1. FirstOf(S) \subseteq Nat /\ \A y \in FirstOf(S) : y < b
        <4>1. FirstOf(S) \subseteq Nat
          BY <1>1 DEF FirstOf
        <4>2. ASSUME NEW y \in FirstOf(S)
              PROVE  y < b
          <5>1. y \in Nat /\ b \in Nat /\ y <= b /\ y # b
            BY <2>2, <4>1
          <5> QED BY <5>1
        <4> QED BY <4>1, <4>2
      <3>2. b - 1 \in Nat /\ \A y \in FirstOf(S) : y <= b - 1
        BY <2>1, <2>2, <3>1
      <3> QED BY <2>2, <3>2
    <2>4. FirstOf(S) \subseteq UpTo(S, b)
      BY <2>2 DEF UpTo, FirstOf
    <2>5. Cardinality(FirstOf(S)) <= Cardinality(UpTo(S, b))
      BY <1>2, <2>4, FS_Subset
    <2> QED BY <1>2, <1>3, <2>3, <2>5, InboxAssumption DEF FirstOf
  <1> QED BY <1>3, <1>5, <1>6, <1>7, InboxAssumption

\* Most steps leave a scan where it is.
ScanSame(p) ==
    proc'[p].day # 0 =>
        /\ proc'[p].day = proc[p].day /\ proc'[p].task = proc[p].task
        /\ proc'[p].batch = proc[p].batch /\ proc'[p].more = proc[p].more

\* Notifications stay, and tasks only leave Open.
StoreGrows ==
    /\ UNCHANGED deadline /\ Open' \subseteq Open /\ failed \subseteq failed'
    /\ \A n \in Note : notes'[n] = "NONE" => notes[n] = "NONE"

\* No step takes a notification or a failure back, or reopens a task.
LEMMA StoreGrowsSteps ==
  ASSUME ProcTyped, StoreTyped, [Next]_vars
  PROVE  StoreGrows
  <1>1. ASSUME NEW p \in Proc, NEW d \in Day, StartScan(p, d)
        PROVE  StoreGrows
    BY <1>1 DEF StartScan, StoreGrows, Open, store, history, Arrive, Idle
  <1>2. ASSUME NEW p \in Proc, NextPage(p)
        PROVE  StoreGrows
    BY <1>2 DEF NextPage, StoreGrows, Open, store, history, At
  <1>3. ASSUME NEW p \in Proc, EndScan(p)
        PROVE  StoreGrows
    BY <1>3 DEF EndScan, StoreGrows, Open, store, At, Idle
  <1>4. ASSUME NEW p \in Proc, NEW t \in Task, SkipRow(p, t)
        PROVE  StoreGrows
    BY <1>4 DEF SkipRow, StoreGrows, Open, store, history, At, Advance, Row
  <1>5. ASSUME NEW p \in Proc, NEW t \in Task, InsertRow(p, t)
        PROVE  StoreGrows
    BY <1>5 DEF InsertRow, StoreGrows, Open, At, Advance, Row
  <1>6. ASSUME NEW p \in Proc, NEW t \in Task, FailRow(p, t)
        PROVE  StoreGrows
    BY <1>6 DEF FailRow, StoreGrows, Open, store, At, Advance, Row
  <1>7. ASSUME NEW p \in Proc, Push(p)
        PROVE  StoreGrows
    BY <1>7 DEF Push, StoreGrows, Open, store, history, At, Goto
  <1>8. ASSUME NEW p \in Proc, Count(p)
        PROVE  StoreGrows
    BY <1>8 DEF Count, StoreGrows, Open, store, history, At
  <1>9. ASSUME NEW p \in Proc, Store(p)
        PROVE  StoreGrows
    BY <1>9 DEF Store, StoreGrows, Open, store, history, At, Goto
  <1>10. ASSUME NEW p \in Proc, Emit(p)
        PROVE  StoreGrows
    BY <1>10 DEF Emit, StoreGrows, Open, store, history, At, Idle, Return
  <1>11. ASSUME NEW p \in Proc, RefreshFails(p)
        PROVE  StoreGrows
    BY <1>11 DEF RefreshFails, StoreGrows, Open, store, Idle, Return
  <1>12. ASSUME NEW p \in Proc, NEW n \in Note, ReadNote(p, n)
        PROVE  StoreGrows
    BY <1>12 DEF ReadNote, StoreGrows, Open, Goto, Arrive
  <1>13. ASSUME NEW p \in Proc, NEW n \in Note, DismissNote(p, n)
        PROVE  StoreGrows
    BY <1>13 DEF DismissNote, StoreGrows, Open, Goto, Arrive
  <1>14. ASSUME NEW p \in Proc, NEW t \in Task, Archive(p, t)
        PROVE  StoreGrows
    BY <1>14 DEF Archive, StoreGrows, Open, Arrive
  <1>15. ASSUME NEW p \in Proc, DismissTask(p)
        PROVE  StoreGrows
    BY <1>15 DEF DismissTask, StoreGrows, Open, At
  <1>16. ASSUME NEW t \in Task, Complete(t)
        PROVE  StoreGrows
    BY <1>16 DEF Complete, StoreGrows, Open, history
  <1>17. ASSUME NEW p \in Proc, Miss(p)
        PROVE  StoreGrows
    BY <1>17 DEF Miss, StoreGrows, Open, store, history, Goto, Arrive
  <1>18. ASSUME NEW p \in Proc, Lock(p)
        PROVE  StoreGrows
    BY <1>18 DEF Lock, StoreGrows, Open, store, history, At, Goto
  <1>19. ASSUME NEW p \in Proc, Compute(p)
        PROVE  StoreGrows
    BY <1>19 DEF Compute, StoreGrows, Open, store, history, At, Goto
  <1>20. ASSUME NEW p \in Proc, Fill(p)
        PROVE  StoreGrows
    BY <1>20 DEF Fill, StoreGrows, Open, store, history, At
  <1>21. ASSUME NEW p \in Proc, Check(p)
        PROVE  StoreGrows
    BY <1>21 DEF Check, StoreGrows, Open, store, history, At, Goto
  <1>22. ASSUME NEW p \in Proc, Release(p)
        PROVE  StoreGrows
    BY <1>22 DEF Release, StoreGrows, Open, store, history, At, Goto
  <1>23. ASSUME NEW p \in Proc, Wait(p)
        PROVE  StoreGrows
    BY <1>23 DEF Wait, StoreGrows, Open, store, history, At, Idle
  <1>24. CASE ExpireCache
    BY <1>24 DEF ExpireCache, StoreGrows, Open, store, history
  <1>25. CASE ExpireLock
    BY <1>25 DEF ExpireLock, StoreGrows, Open, store, history
  <1>26. ASSUME NEW p \in Proc, Stop(p)
        PROVE  StoreGrows
    BY <1>26 DEF Stop, StoreGrows, Open, store, At, Idle
  <1>27. CASE UNCHANGED vars
    BY <1>27 DEF vars, StoreGrows, Open, store, history
  <1> QED BY <1>1, <1>2, <1>3, <1>4, <1>5, <1>6, <1>7, <1>8, <1>9, <1>10, <1>11, <1>12, <1>13,
       <1>14, <1>15, <1>16, <1>17, <1>18, <1>19, <1>20, <1>21, <1>22, <1>23, <1>24, <1>25,
       <1>26, <1>27
     DEF Next, Start, Scan, Refresh, Badge

\* The steps of a scan.
Turns(p) ==
    \/ \E d \in Day : StartScan(p, d)
    \/ NextPage(p)
    \/ \E t \in Task : SkipRow(p, t) \/ InsertRow(p, t) \/ FailRow(p, t)

\* Steps outside the scan leave its page alone.
LEMMA ScanSameSteps ==
  ASSUME ProcTyped, ScanHasDay, NEW r \in Proc, [Next]_vars
  PROVE  ScanSame(r) \/ Turns(r)
  <1>1. ASSUME NEW p \in Proc, NEW d \in Day, StartScan(p, d)
        PROVE  ScanSame(r) \/ Turns(r)
    <2>1. CASE p = r
      BY <1>1, <2>1 DEF Turns
    <2>2. CASE p # r
      BY <1>1, <2>2 DEF StartScan, ScanSame, ProcTyped, Arrive, Idle
    <2> QED BY <2>1, <2>2
  <1>2. ASSUME NEW p \in Proc, NextPage(p)
        PROVE  ScanSame(r) \/ Turns(r)
    <2>1. CASE p = r
      BY <1>2, <2>1 DEF Turns
    <2>2. CASE p # r
      BY <1>2, <2>2 DEF NextPage, ScanSame, ProcTyped, At
    <2> QED BY <2>1, <2>2
  <1>3. ASSUME NEW p \in Proc, EndScan(p)
        PROVE  ScanSame(r) \/ Turns(r)
    BY <1>3 DEF EndScan, ScanSame, ProcTyped, At, Idle
  <1>4. ASSUME NEW p \in Proc, NEW t \in Task, SkipRow(p, t)
        PROVE  ScanSame(r) \/ Turns(r)
    <2>1. CASE p = r
      BY <1>4, <2>1 DEF Turns
    <2>2. CASE p # r
      BY <1>4, <2>2 DEF SkipRow, ScanSame, ProcTyped, At, Advance, Row
    <2> QED BY <2>1, <2>2
  <1>5. ASSUME NEW p \in Proc, NEW t \in Task, InsertRow(p, t)
        PROVE  ScanSame(r) \/ Turns(r)
    <2>1. CASE p = r
      BY <1>5, <2>1 DEF Turns
    <2>2. CASE p # r
      BY <1>5, <2>2 DEF InsertRow, ScanSame, ProcTyped, At, Advance, Row
    <2> QED BY <2>1, <2>2
  <1>6. ASSUME NEW p \in Proc, NEW t \in Task, FailRow(p, t)
        PROVE  ScanSame(r) \/ Turns(r)
    <2>1. CASE p = r
      BY <1>6, <2>1 DEF Turns
    <2>2. CASE p # r
      BY <1>6, <2>2 DEF FailRow, ScanSame, ProcTyped, At, Advance, Row
    <2> QED BY <2>1, <2>2
  <1>7. ASSUME NEW p \in Proc, Push(p)
        PROVE  ScanSame(r) \/ Turns(r)
    BY <1>7 DEF Push, ScanSame, At, Goto
  <1>8. ASSUME NEW p \in Proc, Count(p)
        PROVE  ScanSame(r) \/ Turns(r)
    BY <1>8 DEF Count, ScanSame, ProcTyped, At
  <1>9. ASSUME NEW p \in Proc, Store(p)
        PROVE  ScanSame(r) \/ Turns(r)
    BY <1>9 DEF Store, ScanSame, At, Goto
  <1>10. ASSUME NEW p \in Proc, Emit(p)
        PROVE  ScanSame(r) \/ Turns(r)
    BY <1>10 DEF Emit, ScanSame, ProcTyped, Process, At, Idle, Return
  <1>11. ASSUME NEW p \in Proc, RefreshFails(p)
        PROVE  ScanSame(r) \/ Turns(r)
    BY <1>11 DEF RefreshFails, ScanSame, ProcTyped, Process, Idle, Return
  <1>12. ASSUME NEW p \in Proc, NEW n \in Note, ReadNote(p, n)
        PROVE  ScanSame(r) \/ Turns(r)
    BY <1>12 DEF ReadNote, ScanSame, Goto, Arrive
  <1>13. ASSUME NEW p \in Proc, NEW n \in Note, DismissNote(p, n)
        PROVE  ScanSame(r) \/ Turns(r)
    BY <1>13 DEF DismissNote, ScanSame, Goto, Arrive
  <1>14. ASSUME NEW p \in Proc, NEW t \in Task, Archive(p, t)
        PROVE  ScanSame(r) \/ Turns(r)
    BY <1>14 DEF Archive, ScanSame, ScanHasDay, ProcTyped, Arrive
  <1>15. ASSUME NEW p \in Proc, DismissTask(p)
        PROVE  ScanSame(r) \/ Turns(r)
    BY <1>15 DEF DismissTask, ScanSame, ScanHasDay, ProcTyped, At
  <1>16. ASSUME NEW t \in Task, Complete(t)
        PROVE  ScanSame(r) \/ Turns(r)
    BY <1>16 DEF Complete, ScanSame
  <1>17. ASSUME NEW p \in Proc, Miss(p)
        PROVE  ScanSame(r) \/ Turns(r)
    BY <1>17 DEF Miss, ScanSame, Goto, Arrive
  <1>18. ASSUME NEW p \in Proc, Lock(p)
        PROVE  ScanSame(r) \/ Turns(r)
    BY <1>18 DEF Lock, ScanSame, ProcTyped, Process, At, Goto
  <1>19. ASSUME NEW p \in Proc, Compute(p)
        PROVE  ScanSame(r) \/ Turns(r)
    BY <1>19 DEF Compute, ScanSame, ProcTyped, Process, At, Goto
  <1>20. ASSUME NEW p \in Proc, Fill(p)
        PROVE  ScanSame(r) \/ Turns(r)
    BY <1>20 DEF Fill, ScanSame, ProcTyped, At
  <1>21. ASSUME NEW p \in Proc, Check(p)
        PROVE  ScanSame(r) \/ Turns(r)
    BY <1>21 DEF Check, ScanSame, At, Goto
  <1>22. ASSUME NEW p \in Proc, Release(p)
        PROVE  ScanSame(r) \/ Turns(r)
    BY <1>22 DEF Release, ScanSame, At, Goto
  <1>23. ASSUME NEW p \in Proc, Wait(p)
        PROVE  ScanSame(r) \/ Turns(r)
    BY <1>23 DEF Wait, ScanSame, ProcTyped, Process, At, Idle
  <1>24. CASE ExpireCache
    BY <1>24 DEF ExpireCache, ScanSame
  <1>25. CASE ExpireLock
    BY <1>25 DEF ExpireLock, ScanSame
  <1>26. ASSUME NEW p \in Proc, Stop(p)
        PROVE  ScanSame(r) \/ Turns(r)
    BY <1>26 DEF Stop, ScanSame, ProcTyped, At, Idle
  <1>27. CASE UNCHANGED vars
    BY <1>27 DEF vars, ScanSame
  <1> QED BY <1>1, <1>2, <1>3, <1>4, <1>5, <1>6, <1>7, <1>8, <1>9, <1>10, <1>11, <1>12, <1>13,
       <1>14, <1>15, <1>16, <1>17, <1>18, <1>19, <1>20, <1>21, <1>22, <1>23, <1>24, <1>25,
       <1>26, <1>27
     DEF Next, Start, Scan, Refresh, Badge

Reaches(p) ==
    proc[p].day # 0 =>
        \A t \in Open : deadline[t] < proc[p].day =>
            \/ notes[<<t, proc[p].day>>] # "NONE" \/ <<t, proc[p].day>> \in failed
            \/ t \in proc[p].batch
            \/ proc[p].more /\ t > proc[p].task /\ \A u \in proc[p].batch : u < t

\* A scan whose page is untouched still reaches what it did.
LEMMA SameReaches ==
  ASSUME ProcTyped, ProcTyped', StoreGrows, NEW p \in Proc, ScanSame(p), Reaches(p)
  PROVE  Reaches(p)'
  <1> SUFFICES ASSUME proc'[p].day # 0
               PROVE  Reaches(p)'
    BY DEF Reaches
  <1>1. /\ proc'[p].day = proc[p].day /\ proc'[p].task = proc[p].task
        /\ proc'[p].batch = proc[p].batch /\ proc'[p].more = proc[p].more
    BY DEF ScanSame
  <1>2. proc[p].day \in Day
    BY <1>1, Ranges DEF ProcTyped, Process
  <1>3. \A t \in Open' : t \in Open /\ <<t, proc[p].day>> \in Note
    BY <1>2, Ranges DEF StoreGrows, Open
  <1> QED BY <1>1, <1>3 DEF Reaches, StoreGrows

\* A scan that starts has every row to come.
LEMMA StartReaches ==
  ASSUME ProcTyped, NEW p \in Proc, NEW d \in Day, StartScan(p, d)
  PROVE  Reaches(p)'
  <1>1. proc'[p].more = TRUE /\ proc'[p].task = 0 /\ proc'[p].batch = {}
    BY DEF StartScan, Idle, ProcTyped
  <1>2. \A t \in Task : t > 0
    BY DEF Task
  <1> QED BY <1>1, <1>2 DEF Reaches, Open

\* The next page has the first of the rows to come, and is full if there are more.
LEMMA PageReaches ==
  ASSUME ProcTyped, StoreTyped, ScanHasDay, NEW p \in Proc, Reaches(p), NextPage(p)
  PROVE  Reaches(p)'
  <1> DEFINE page == Page(proc[p].task, proc[p].day)
             S == {t \in Open : deadline[t] <= proc[p].day /\ t > proc[p].task}
  <1>1. /\ proc[p].batch = {} /\ proc[p].more /\ proc[p].day # 0
        /\ proc'[p].day = proc[p].day /\ proc'[p].task = proc[p].task
        /\ proc'[p].batch = page /\ proc'[p].more = (Cardinality(page) = BatchSize)
        /\ UNCHANGED <<tasks, deadline, notes, failed>>
    BY DEF NextPage, At, ScanHasDay, store, history, ProcTyped
  <1>2. page = FirstOf(S) /\ S \subseteq Task
    BY DEF Page, FirstOf, UpTo, Open
  <1>3. ASSUME NEW t \in Open, deadline[t] < proc[p].day, t > proc[p].task
        PROVE  \/ t \in page
               \/ Cardinality(page) = BatchSize /\ \A u \in page : u < t
    <2>1. t \in S
      <3>1. deadline[t] \in Int /\ proc[p].day \in Int
        BY InboxAssumption DEF StoreTyped, ProcTyped, Process, AnyDay, Open
      <3> QED BY <1>3, <3>1
    <2> HIDE DEF page, S
    <2> QED BY <1>2, <2>1, FullPage
  <1> HIDE DEF page, S
  <1>4. Open' = Open
    BY <1>1 DEF Open
  <1> QED BY <1>1, <1>3, <1>4 DEF Reaches

\* The row a scan goes on from is done with; the rows after it are still to come.
LEMMA RowReaches ==
  ASSUME ProcTyped, StoreTyped, ScanHasDay, NEW p \in Proc, NEW t \in Task, Reaches(p),
         SkipRow(p, t) \/ InsertRow(p, t) \/ FailRow(p, t)
  PROVE  Reaches(p)'
  <1>1. /\ Row(p, t) /\ \E l \in {"scan", "push"} : Advance(p, t, l)
        /\ UNCHANGED <<tasks, deadline>>
    BY DEF SkipRow, InsertRow, FailRow, store
  <1>2. /\ proc[p].day \in Day /\ <<t, proc[p].day>> \in Note
    BY <1>1, Ranges DEF Row, At, ScanHasDay, ProcTyped, Process
  <1>3. /\ proc'[p].day = proc[p].day /\ proc'[p].task = t
        /\ proc'[p].batch = proc[p].batch \ {t} /\ proc'[p].more = proc[p].more
    BY <1>1 DEF Advance, ProcTyped
  <1>4. t \in proc[p].batch
    BY <1>1 DEF Row
  <1>5. \/ ~(deadline[t] < proc[p].day)
        \/ notes'[<<t, proc[p].day>>] # "NONE"
        \/ <<t, proc[p].day>> \in failed'
    <2>1. deadline[t] \in Int /\ proc[p].day \in Int
      BY InboxAssumption DEF StoreTyped, ProcTyped, Process, AnyDay
    <2>2. CASE SkipRow(p, t)
      BY <2>1, <2>2 DEF SkipRow, store
    <2>3. CASE InsertRow(p, t)
      BY <1>2, <2>3 DEF InsertRow, StoreTyped
    <2>4. CASE FailRow(p, t)
      BY <2>4 DEF FailRow
    <2> QED BY <2>2, <2>3, <2>4
  <1>6. /\ failed \subseteq failed'
        /\ \A n \in Note : notes'[n] = "NONE" => notes[n] = "NONE"
    BY DEF SkipRow, InsertRow, FailRow, StoreTyped, store, history
  <1>7. Open' = Open /\ \A u \in Open : <<u, proc[p].day>> \in Note
    BY <1>1, <1>2, Ranges DEF Open
  <1> QED BY <1>1, <1>3, <1>4, <1>5, <1>6, <1>7 DEF Reaches

\* A task that is overdue is in the page, behind it, or done.
LEMMA ScanReachesKept ==
  ASSUME ProcTyped, ProcTyped', StoreTyped, ScanHasDay, ScanReaches, [Next]_vars
  PROVE  ScanReaches'
  <1>1. ASSUME NEW p \in Proc
        PROVE  Reaches(p)'
    <2>1. Reaches(p)
      BY DEF ScanReaches, Reaches
    <2>2. CASE ScanSame(p)
      BY <2>1, <2>2, StoreGrowsSteps, SameReaches
    <2>3. CASE Turns(p)
      BY <2>1, <2>3, StartReaches, PageReaches, RowReaches DEF Turns
    <2> QED BY <2>2, <2>3, ScanSameSteps
  <1> QED BY <1>1 DEF ScanReaches, Reaches

\* A scan that ends has no page in hand and none to come.
LEMMA CoversKept ==
  ASSUME ProcTyped, StoreTyped, ScanHasDay, ScanReaches, ScanCoversOverdue, [Next]_vars
  PROVE  ScanCoversOverdue'
  <1>1. StoreGrows
    BY StoreGrowsSteps
  <1>2. ASSUME NEW p \in Proc, EndScan(p), scanned' # scanned
        PROVE  ScanCoversOverdue'
    <2>1. /\ scanned' = scanned \union {proc[p].day}
          /\ proc[p].batch = {} /\ ~proc[p].more
          /\ UNCHANGED <<tasks, deadline, notes, failed>>
      BY <1>2 DEF EndScan, store
    <2>2. Open' = Open
      BY <2>1 DEF Open
    <2>3. proc[p].day # 0
      BY <1>2 DEF EndScan, At, ScanHasDay
    <2>4. \A t \in Open : deadline[t] < proc[p].day =>
              notes[<<t, proc[p].day>>] # "NONE" \/ <<t, proc[p].day>> \in failed
      BY <2>1, <2>3 DEF ScanReaches
    <2> QED BY <2>1, <2>2, <2>4 DEF ScanCoversOverdue
  <1>3. CASE UNCHANGED scanned
    <2>1. scanned \subseteq Day
      BY DEF StoreTyped
    <2>2. \A d \in scanned, t \in Open' : <<t, d>> \in Note /\ t \in Open
      BY <1>1, <2>1, Ranges DEF StoreGrows, Open
    <2> QED BY <1>1, <1>3, <2>2 DEF StoreGrows, ScanCoversOverdue
  <1>4. UNCHANGED scanned \/ \E p \in Proc : EndScan(p)
    <2>1. ASSUME NEW p \in Proc, Scan(p)
          PROVE  UNCHANGED scanned \/ \E q \in Proc : EndScan(q)
      BY <2>1 DEF Scan, NextPage, SkipRow, InsertRow, FailRow, Push, history
    <2>2. ASSUME NEW p \in Proc, Start(p) \/ Refresh(p) \/ DismissTask(p) \/ Badge(p) \/ Stop(p)
          PROVE  UNCHANGED scanned
      <3>1. CASE Start(p)
        BY <3>1 DEF Start, StartScan, ReadNote, DismissNote, Archive, Miss, history
      <3>2. CASE Refresh(p)
        BY <3>2 DEF Refresh, Count, Store, Emit, RefreshFails, history
      <3>3. CASE Badge(p)
        BY <3>3 DEF Badge, Lock, Compute, Fill, Check, Release, Wait, history
      <3>4. CASE DismissTask(p) \/ Stop(p)
        BY <3>4 DEF DismissTask, Stop
      <3> QED BY <2>2, <3>1, <3>2, <3>3, <3>4
    <2>3. CASE ExpireCache \/ ExpireLock \/ \E t \in Task : Complete(t)
      BY <2>3 DEF ExpireCache, ExpireLock, Complete, history
    <2>4. CASE UNCHANGED vars
      BY <2>4 DEF vars, history
    <2> QED BY <2>1, <2>2, <2>3, <2>4 DEF Next
  <1> QED BY <1>2, <1>3, <1>4

-----------------------------------------------------------------------------
(* The specification. *)

\* Empty tables and no process at work.
LEMMA InitInv == Init => Inv
  <1> SUFFICES ASSUME Init
               PROVE  Inv
    OBVIOUS
  <1>1. TypeOK
    BY InitTyped
  <1>2. ScanHasDay /\ BatchKnown /\ PushedAlone /\ ScanReaches
    BY DEF Init, Idle, ScanHasDay, BatchKnown, PushedAlone, ScanReaches, Pushes, At
  <1>3. PushAccount
    BY DEF Init, Idle, PushAccount, Pushes, At
  <1>4. ScanCoversOverdue /\ ArchivedIsQuiet /\ RefreshOwed
    BY DEF Init, Idle, ScanCoversOverdue, ArchivedIsQuiet, RefreshOwed
  <1> QED BY <1>1, <1>2, <1>3, <1>4 DEF Inv

\* The parts of the invariant, put together.
LEMMA StepInv == Inv /\ [Next]_vars => Inv'
  <1> SUFFICES ASSUME Inv, [Next]_vars
               PROVE  Inv'
    OBVIOUS
  <1>1. ProcTyped /\ StoreTyped /\ ScanHasDay /\ PushInv
    BY TypesSplit DEF Inv, PushInv
  <1>2. ScanHasDay' /\ ProcTyped' /\ StoreTyped'
    BY <1>1, ScanHasDayKept, ProcStep, StoreStep DEF PushInv
  <1>3. TypeOK'
    <2>1. (TypeOK <=> ProcTyped /\ StoreTyped)'
      BY TypesSplit, PTL
    <2> QED BY <1>2, <2>1
  <1>4. PushInv' /\ RefreshOwed'
    BY <1>1, PushInvKept, RefreshOwedKept DEF Inv
  <1>5. BatchKnown' /\ ArchivedIsQuiet'
    BY <1>1, BatchKnownKept, QuietKept DEF Inv
  <1>6. ScanReaches' /\ ScanCoversOverdue'
    BY <1>1, <1>2, ScanReachesKept, CoversKept DEF Inv
  <1> QED BY <1>2, <1>3, <1>4, <1>5, <1>6 DEF Inv, PushInv

\* The invariant holds of every reachable state; the properties below are read off it.
THEOREM InboxInvariant == Spec => []Inv
  BY InitInv, StepInv, PTL DEF Spec

\* The types hold.
THEOREM InboxTyped == Spec => []TypeOK
  <1>1. Inv => TypeOK
    BY DEF Inv
  <1> QED BY <1>1, InboxInvariant, PTL

\* A notification is pushed once, by whichever of the scans inserted it; only one that
\* stops in between loses it (the ON CONFLICT insert and dispatch of runDailyScan).
THEOREM NotePushedOnce == Spec => []PushedOnce
  <1>1. Inv => PushedOnce
    BY PushedOnceFollows DEF Inv, PushInv
  <1> QED BY <1>1, InboxInvariant, PTL

\* A scan that ends has covered every task that is overdue, for any size of its pages
\* (the cursor of runDailyScan).
THEOREM OverdueCovered == Spec => []ScanCoversOverdue
  <1>1. Inv => ScanCoversOverdue
    BY DEF Inv
  <1> QED BY <1>1, InboxInvariant, PTL

\* A deleted task has no notification that is not dismissed, but for a scan or a request
\* caught in the middle (DELETE /tasks/:taskId).
THEOREM DeletedQuiet == Spec => []ArchivedIsQuiet
  <1>1. Inv => ArchivedIsQuiet
    BY DEF Inv
  <1> QED BY <1>1, InboxInvariant, PTL

\* The badge at rest is the number of unread notifications, unless a count was overtaken
\* (emitUnreadCount and NotificationBadgeCache).
THEOREM BadgeRight == Spec => []BadgeAgrees
  <1>1. Inv => BadgeAgrees
    BY BadgeAgreesFollows DEF Inv
  <1> QED BY <1>1, InboxInvariant, PTL
=============================================================================
