--------------------------- MODULE TaskBudgetProofs ---------------------------
(***************************************************************************)
(* Proofs about TaskBudget for every number of handlers, days and tasks    *)
(* and every set of durations, elapsed times and totals.                   *)
(***************************************************************************)
EXTENDS TaskBudget, SumLemmas

-----------------------------------------------------------------------------
\* What the fields of a request are, by its kind.
LEMMA InputKinds ==
    ASSUME NEW i \in Input
    PROVE  /\ i.op \in {"create", "set", "complete", "status"}
           /\ i.op \in {"create", "set"} => i.day \in Day
           /\ i.op = "create" => /\ i.dur \in Nat
                                 /\ i.prio \in BOOLEAN
           /\ i.op = "set" => i.avail \in Nat
           /\ i.op \in {"complete", "status"} => i.task \in Task
           /\ i.op = "complete" => i.elapsed \in Nat
           /\ i.op = "status" => i.elapsed \in Nat \union {-1}
BY BudgetAssumption DEF Input, CreateInput, SetInput, CompleteInput, StatusInput

\* The row of an unused id is a row.
LEMMA AbsentIsRow == AbsentRow \in Row
<1>1. (CHOOSE d \in Day : TRUE) \in Day
  BY RowsAssumption
<1>. QED
  BY <1>1 DEF AbsentRow, Row, Status, Timer

\* The sums over the rows of a day are natural numbers.
LEMMA SumsAreNat ==
    ASSUME NEW rows \in [Task -> Row], NEW d \in Day
    PROVE  AllocatedIn(rows, d) \in Nat /\ ConsumedIn(rows, d) \in Nat
<1>1. [t \in Task |-> Reserved(rows[t], d)] \in [Task -> Nat]
  BY DEF Reserved, Row
<1>2. [t \in Task |-> Consumption(rows[t], d)] \in [Task -> Nat]
  BY DEF Consumption, Charge, Row
<1>. QED
  BY <1>1, <1>2, RowsAssumption, SumIsNat DEF AllocatedIn, ConsumedIn

\* If only the row of a may reserve more than before, and by at most k, then
\* the reservations of the day grow by at most k.
LEMMA AllocatedGrowth ==
    ASSUME NEW rows \in [Task -> Row], NEW next \in [Task -> Row],
           NEW d \in Day, NEW a, NEW k \in Nat,
           \A t \in Task :
              Reserved(next[t], d) <= Reserved(rows[t], d) + (IF t = a THEN k ELSE 0)
    PROVE  AllocatedIn(next, d) <= AllocatedIn(rows, d) + k
<1>. DEFINE v == [t \in Task |-> Reserved(rows[t], d)]
            w == [t \in Task |-> Reserved(next[t], d)]
<1>1. v \in [Task -> Nat] /\ w \in [Task -> Nat]
  BY DEF Reserved, Row
<1>2. \A t \in Task : w[t] <= v[t] + (IF t = a THEN k ELSE 0)
  OBVIOUS
<1>3. SumFunction(w) <= SumFunction(v) + k
  <2>. HIDE DEF v, w
  <2>. QED BY <1>1, <1>2, RowsAssumption, SumGrowth
<1>. QED
  BY <1>3 DEF AllocatedIn

\* If no row reserves more than before, the reservations do not grow.
LEMMA AllocatedShrinks ==
    ASSUME NEW rows \in [Task -> Row], NEW next \in [Task -> Row],
           NEW d \in Day,
           \A t \in Task : Reserved(next[t], d) <= Reserved(rows[t], d)
    PROVE  AllocatedIn(next, d) <= AllocatedIn(rows, d)
<1>1. \A t \in Task : Reserved(rows[t], d) \in Nat
  BY DEF Reserved, Row
<1>2. \A t \in Task :
         Reserved(next[t], d) <= Reserved(rows[t], d) + (IF t = 0 THEN 0 ELSE 0)
  BY <1>1
<1>3. AllocatedIn(next, d) <= AllocatedIn(rows, d) + 0
  BY <1>2, AllocatedGrowth
<1>. QED
  BY <1>3, SumsAreNat

-----------------------------------------------------------------------------
\* What a handler in progress serves.
LEMMA Serving ==
    ASSUME TypeOK, NEW h \in Handler, pc[h] # "idle"
    PROVE  input[h] \in Input
BY DEF TypeOK

\* Ending a transaction, or going on in it, keeps the types of the handlers.
HandlersTyped ==
    /\ pc \in [Handler -> {"idle", "start", "locked", "summing", "advisory",
                           "check", "write"}]
    /\ input \in [Handler -> Input \union {NoInput}]
    /\ \A h \in Handler : (input[h] = NoInput) <=> (pc[h] = "idle")

\* A transaction that ends leaves the handler well typed.
LEMMA EndTxTyped ==
    ASSUME TypeOK, NEW h \in Handler, EndTx(h)
    PROVE  HandlersTyped' /\ read' \in [Handler -> Reads]
<1>1. NothingRead \in Reads
  BY DEF NothingRead, Reads, Timer
<1>. QED
  BY <1>1 DEF TypeOK, HandlersTyped, EndTx

\* A handler that goes on stays well typed.
LEMMA GotoTyped ==
    ASSUME TypeOK, NEW h \in Handler, pc[h] # "idle",
           NEW label \in {"start", "locked", "summing", "advisory", "check", "write"},
           Goto(h, label)
    PROVE  HandlersTyped'
BY DEF TypeOK, HandlersTyped, Goto

\* One field of what a handler has read changes.
LEMMA ReadTyped ==
    ASSUME TypeOK, NEW h \in Handler, NEW r \in Reads,
           read' = [read EXCEPT ![h] = r]
    PROVE  read' \in [Handler -> Reads]
BY DEF TypeOK

\* So does one that has read a sum.
LEMMA WithSumTyped ==
    ASSUME TypeOK, NEW h \in Handler, pc[h] # "idle", input[h].op = "create",
           NEW which \in {"allocated", "consumed"}
    PROVE  WithSum(h, which) \in Reads
<1>1. input[h].day \in Day
  BY Serving, InputKinds
<1>2. Allocated(input[h].day) \in Nat /\ Consumed(input[h].day) \in Nat
  BY <1>1, SumsAreNat DEF TypeOK, Allocated, Consumed
<1>3. read[h] \in Reads
  BY DEF TypeOK
<1>. QED
  BY <1>2, <1>3 DEF WithSum, Reads

\* A row in which one task is replaced by a row.
LEMMA RowReplaced ==
    ASSUME TypeOK, NEW t \in Task, NEW row \in Row,
           tasks' = [tasks EXCEPT ![t] = row]
    PROVE  tasks' \in [Task -> Row]
BY DEF TypeOK

\* Every reachable state is well typed: in particular a row only ever holds a
\* status and a timer of the schema, and a handler serves a request exactly
\* while it is in a transaction.
THEOREM Typing == Spec => []TypeOK
<1>1. Init => TypeOK
  BY AbsentIsRow, NoInputAssumption DEF Init, TypeOK, Reads, NothingRead, Timer
<1>2. ASSUME TypeOK, [Next]_vars PROVE TypeOK'
  <2>. USE <1>2
  <2>1. ASSUME NEW h \in Handler, NEW i \in Input, Begin(h, i) PROVE TypeOK'
    BY <2>1, NoInputAssumption DEF Begin, db, TypeOK
  <2>2. ASSUME NEW h \in Handler, Abort(h) PROVE TypeOK'
    BY <2>2, EndTxTyped DEF Abort, db, TypeOK, HandlersTyped
  <2>3. ASSUME NEW h \in Handler, LockDay(h) PROVE TypeOK'
    <3>1. input[h].day \in Day /\ pc[h] # "idle"
      BY <2>3, Serving, InputKinds DEF LockDay, At, Within
    <3>2. read' \in [Handler -> Reads]
      BY <2>3, <3>1 DEF LockDay, TypeOK, Reads
    <3>3. HandlersTyped'
      BY <2>3, <3>1, GotoTyped DEF LockDay
    <3>. QED BY <2>3, <3>2, <3>3 DEF LockDay, db, TypeOK, HandlersTyped
  <2>4. ASSUME NEW h \in Handler, FirstSum(h) PROVE TypeOK'
    <3>1. read' \in [Handler -> Reads]
      BY <2>4, WithSumTyped, ReadTyped DEF FirstSum, At, Within, CreateSums
    <3>2. HandlersTyped'
      BY <2>4, GotoTyped DEF FirstSum, At, Within
    <3>. QED BY <2>4, <3>1, <3>2 DEF FirstSum, db, TypeOK, HandlersTyped
  <2>5. ASSUME NEW h \in Handler, AdmitCreate(h) PROVE TypeOK'
    <3>1. read' \in [Handler -> Reads]
      BY <2>5, WithSumTyped, ReadTyped DEF AdmitCreate, At, Within, CreateSums
    <3>2. HandlersTyped'
      BY <2>5, GotoTyped DEF AdmitCreate, At, Within
    <3>. QED BY <2>5, <3>1, <3>2 DEF AdmitCreate, db, TypeOK, HandlersTyped
  <2>6. ASSUME NEW h \in Handler, LockSlot(h) \/ FindSlotFree(h) PROVE TypeOK'
    <3>1. HandlersTyped'
      BY <2>6, GotoTyped DEF LockSlot, FindSlotFree, At, Within
    <3>. QED BY <2>6, <3>1 DEF LockSlot, FindSlotFree, db, TypeOK, HandlersTyped
  <2>7. ASSUME NEW h \in Handler,
               \/ RefuseCreate(h) \/ FindSlotTaken(h) \/ RefuseSet(h)
               \/ RefuseStatus(h) \/ TaskMissing(h)
        PROVE  TypeOK'
    <3>1. EndTx(h) /\ UNCHANGED db
      BY <2>7 DEF RefuseCreate, FindSlotTaken, RefuseSet, RefuseStatus, TaskMissing
    <3>. QED BY <3>1, EndTxTyped DEF db, TypeOK, HandlersTyped
  <2>8. ASSUME NEW h \in Handler, CommitCreate(h) PROVE TypeOK'
    <3>1. input[h].day \in Day /\ input[h].dur \in Nat /\ input[h].prio \in BOOLEAN
      BY <2>8, Serving, InputKinds DEF CommitCreate, At, Within
    <3>2. PICK t \in Task : tasks' = [tasks EXCEPT ![t] =
                [status |-> "PENDING", day |-> input[h].day,
                 est |-> input[h].dur, elapsed |-> 0,
                 timer |-> "IDLE", prio |-> input[h].prio]]
      BY <2>8 DEF CommitCreate
    <3>3. tasks' \in [Task -> Row]
      BY <3>1, <3>2, RowReplaced DEF Row, Status, Timer
    <3>. QED BY <2>8, <3>3, EndTxTyped DEF CommitCreate, TypeOK, HandlersTyped
  <2>9. ASSUME NEW h \in Handler, CheckSet(h) PROVE TypeOK'
    <3>1. input[h].day \in Day /\ pc[h] # "idle"
      BY <2>9, Serving, InputKinds DEF CheckSet, At, Within
    <3>2. WithSum(h, "allocated") \in Reads
      BY <2>9, <3>1, SumsAreNat DEF TypeOK, WithSum, Reads, Allocated
    <3>3. HandlersTyped'
      BY <2>9, <3>1, GotoTyped DEF CheckSet
    <3>. QED BY <2>9, <3>2, <3>3, ReadTyped DEF CheckSet, db, TypeOK, HandlersTyped
  <2>10. ASSUME NEW h \in Handler, CommitSet(h) PROVE TypeOK'
    <3>1. input[h].day \in Day /\ input[h].avail \in Nat
      BY <2>10, Serving, InputKinds DEF CommitSet, At, Within
    <3>2. total' \in [Day -> Nat] /\ excused' \subseteq Day
      BY <2>10, <3>1 DEF CommitSet, TypeOK
    <3>. QED BY <2>10, <3>2, EndTxTyped DEF CommitSet, TypeOK, HandlersTyped
  <2>11. ASSUME NEW h \in Handler, LockForComplete(h) PROVE TypeOK'
    <3>1. input[h].task \in Task /\ pc[h] # "idle"
      BY <2>11, Serving, InputKinds DEF LockForComplete, At, Within
    <3>2. read' \in [Handler -> Reads]
      BY <2>11, <3>1 DEF LockForComplete, TypeOK, Reads, Row
    <3>3. HandlersTyped'
      BY <2>11, <3>1, GotoTyped DEF LockForComplete
    <3>. QED BY <2>11, <3>2, <3>3 DEF LockForComplete, db, TypeOK, HandlersTyped
  <2>12. ASSUME NEW h \in Handler, CommitComplete(h) PROVE TypeOK'
    <3>. DEFINE t == input[h].task
                row == [tasks[t] EXCEPT !.status = "COMPLETED",
                                        !.elapsed = input[h].elapsed]
    <3>1. t \in Task /\ input[h].elapsed \in Nat /\ tasks[t] \in Row
      BY <2>12, Serving, InputKinds DEF CommitComplete, At, Within, TypeOK
    <3>2. row \in Row
      BY <3>1 DEF Row, Status
    <3>3. tasks' = [tasks EXCEPT ![t] = row]
      BY <2>12, <3>1 DEF CommitComplete, TypeOK
    <3>4. tasks' \in [Task -> Row]
      <4>. HIDE DEF t, row
      <4>. QED BY <3>1, <3>2, <3>3, RowReplaced
    <3>5. refunds' \in [Task -> SUBSET Nat]
      <4>1. read[h].est - input[h].elapsed \in Int
        BY <3>1 DEF TypeOK, Reads
      <4>. QED BY <2>12, <3>1, <4>1 DEF CommitComplete, TypeOK
    <3>6. excused' \subseteq Day
      BY <2>12, <3>1 DEF CommitComplete, ExcuseIfClosed, TypeOK, Row
    <3>. QED BY <2>12, <3>4, <3>5, <3>6, EndTxTyped
             DEF CommitComplete, TypeOK, HandlersTyped
  <2>13. ASSUME NEW h \in Handler, LockForStatus(h) PROVE TypeOK'
    <3>1. read' \in [Handler -> Reads]
      BY <2>13 DEF LockForStatus, Transitions, TypeOK, Reads, Timer
    <3>2. HandlersTyped'
      BY <2>13, GotoTyped DEF LockForStatus, At, Within
    <3>. QED BY <2>13, <3>1, <3>2 DEF LockForStatus, db, TypeOK, HandlersTyped
  <2>14. ASSUME NEW h \in Handler, CommitFinish(h) PROVE TypeOK'
    <3>. DEFINE t == input[h].task
                e == IF input[h].elapsed = -1 THEN tasks[t].elapsed
                     ELSE input[h].elapsed
                row == [tasks[t] EXCEPT !.status = "COMPLETED",
                                        !.timer = "COMPLETED", !.elapsed = e]
    <3>1. t \in Task /\ tasks[t] \in Row /\ input[h].elapsed \in Nat \union {-1}
      BY <2>14, Serving, InputKinds DEF CommitFinish, At, Within, TypeOK
    <3>2. row \in Row
      BY <3>1 DEF Row, Status, Timer
    <3>3. tasks' = [tasks EXCEPT ![t] = row]
      BY <2>14, <3>1 DEF CommitFinish, TypeOK
    <3>4. tasks' \in [Task -> Row]
      <4>. HIDE DEF t, row
      <4>. QED BY <3>1, <3>2, <3>3, RowReplaced
    <3>5. excused' \subseteq Day
      BY <2>14, <3>1 DEF CommitFinish, ExcuseIfClosed, TypeOK, Row
    <3>. QED BY <2>14, <3>4, <3>5, EndTxTyped DEF CommitFinish, TypeOK, HandlersTyped
  <2>15. ASSUME NEW h \in Handler, CommitTimer(h) PROVE TypeOK'
    <3>1. input[h].task \in Task
      BY <2>15, Serving, InputKinds DEF CommitTimer, At, Within
    <3>2. tasks' \in [Task -> Row]
      BY ZenonT(40), <2>15, <3>1 DEF CommitTimer, TypeOK, Row, Reads
    <3>. QED BY <2>15, <3>2, EndTxTyped DEF CommitTimer, TypeOK, HandlersTyped
  <2>16. ASSUME NEW t \in Task, Archive(t) PROVE TypeOK'
    <3>1. tasks' \in [Task -> Row]
      BY <2>16 DEF Archive, TypeOK, Row, Status
    <3>. QED BY <2>16, <3>1 DEF Archive, TypeOK
  <2>17. ASSUME NEW t \in Task, Release(t) PROVE TypeOK'
    <3>1. tasks' \in [Task -> Row]
      BY ZenonT(40), <2>17 DEF Release, TypeOK, Row
    <3>. QED BY <2>17, <3>1 DEF Release, TypeOK
  <2>18. CASE UNCHANGED vars
    BY <2>18 DEF vars, TypeOK
  <2>. QED
    BY <2>1, <2>2, <2>3, <2>4, <2>5, <2>6, <2>7, <2>8, <2>9, <2>10, <2>11, <2>12, <2>13, <2>14,
         <2>15, <2>16, <2>17, <2>18
       DEF Next, Step, Create, SetTotal, CompleteTask, ApplyAction
<1>. QED
  BY <1>1, <1>2, PTL DEF Spec

-----------------------------------------------------------------------------
\* A step of one handler takes only locks that nobody else holds.
TakesFree(h) ==
    /\ \A g \in Handler \ {h} : pc'[g] = pc[g] /\ input'[g] = input[g]
    /\ \A d \in Day : HoldsDay(h, d)' =>
          HoldsDay(h, d) \/ \A g \in Handler \ {h} : ~HoldsDay(g, d)
    /\ \A d \in Day : HoldsSlot(h, d)' =>
          HoldsSlot(h, d) \/ \A g \in Handler \ {h} : ~HoldsSlot(g, d)
    /\ \A t \in Task : HoldsTask(h, t)' =>
          HoldsTask(h, t) \/ \A g \in Handler \ {h} : ~HoldsTask(g, t)

\* Who takes none but free locks keeps them exclusive.
LEMMA LocksKept ==
    ASSUME LocksExclusive, NEW h \in Handler, TakesFree(h)
    PROVE  LocksExclusive'
<1>1. \A g \in Handler \ {h} :
         /\ \A d \in Day : /\ HoldsDay(g, d)' <=> HoldsDay(g, d)
                           /\ HoldsSlot(g, d)' <=> HoldsSlot(g, d)
         /\ \A t \in Task : HoldsTask(g, t)' <=> HoldsTask(g, t)
  BY DEF TakesFree, HoldsDay, HoldsSlot, HoldsTask, At, Within
<1>. QED
  BY <1>1 DEF TakesFree, LocksExclusive

\* A transaction that ends takes none.
LEMMA EndTxFrees ==
    ASSUME TypeOK, NEW h \in Handler, EndTx(h)
    PROVE  TakesFree(h)
BY DEF TypeOK, EndTx, TakesFree, HoldsDay, HoldsSlot, HoldsTask, At, Within

\* A lock of PostgreSQL has one holder: no two requests are between the lock and
\* the commit of the same day row, priority slot or task row.
THEOREM LockExclusion == Spec => []LocksExclusive
<1>1. Init => LocksExclusive
  BY DEF Init, LocksExclusive, HoldsDay, HoldsSlot, HoldsTask, At, Within
<1>2. ASSUME TypeOK, LocksExclusive, [Next]_vars PROVE LocksExclusive'
  <2>. USE <1>2
  <2>1. ASSUME NEW h \in Handler, NEW i \in Input, Begin(h, i)
        PROVE  LocksExclusive'
    <3>1. TakesFree(h)
      BY <2>1 DEF TypeOK, Begin, TakesFree, HoldsDay, HoldsSlot, HoldsTask, At, Within
    <3>. QED BY <3>1, LocksKept
  <2>2. ASSUME NEW h \in Handler, EndTx(h) PROVE LocksExclusive'
    BY <2>2, EndTxFrees, LocksKept
  <2>3. ASSUME NEW h \in Handler, LockDay(h) PROVE LocksExclusive'
    <3>1. TakesFree(h)
      BY <2>3 DEF TypeOK, LockDay, Goto, TakesFree, HoldsDay, HoldsSlot, HoldsTask, At, Within
    <3>. QED BY <3>1, LocksKept
  <2>4. ASSUME NEW h \in Handler,
               FirstSum(h) \/ AdmitCreate(h) \/ FindSlotFree(h) \/ CheckSet(h)
        PROVE  LocksExclusive'
    <3>1. TakesFree(h)
      BY <2>4
         DEF TypeOK, FirstSum, AdmitCreate, FindSlotFree, CheckSet, Goto, TakesFree, HoldsDay,
             HoldsSlot, HoldsTask, At, Within
    <3>. QED BY <3>1, LocksKept
  <2>5. ASSUME NEW h \in Handler, LockSlot(h) PROVE LocksExclusive'
    <3>1. TakesFree(h)
      BY <2>5 DEF TypeOK, LockSlot, Goto, TakesFree, HoldsDay, HoldsSlot, HoldsTask, At, Within
    <3>. QED BY <3>1, LocksKept
  <2>6. ASSUME NEW h \in Handler, LockForComplete(h) \/ LockForStatus(h)
        PROVE  LocksExclusive'
    <3>1. TaskLockFree(h) /\ Goto(h, "write") /\ pc[h] # "idle"
          /\ input[h].op \in {"complete", "status"}
      BY <2>6 DEF LockForComplete, LockForStatus, At, Within
    <3>2. TakesFree(h)
      BY <3>1
         DEF TypeOK, TaskLockFree, Goto, TakesFree, HoldsDay, HoldsSlot, HoldsTask, At, Within
    <3>. QED BY <3>2, LocksKept
  <2>7. ASSUME UNCHANGED <<pc, input>> PROVE LocksExclusive'
    BY <2>7 DEF LocksExclusive, HoldsDay, HoldsSlot, HoldsTask, At, Within
  <2>. QED
    BY <2>1, <2>2, <2>3, <2>4, <2>5, <2>6, <2>7
       DEF Next, Step, Create, SetTotal, CompleteTask, ApplyAction, vars, Abort, RefuseCreate,
           FindSlotTaken, CommitCreate, RefuseSet, CommitSet, CommitComplete, RefuseStatus,
           CommitFinish, CommitTimer, TaskMissing, Archive, Release
<1>. QED
  BY <1>1, <1>2, Typing, PTL DEF Spec

\* What h waits for is in the hands of g: the row of the day, the priority slot, or
\* the row of the task that its next statement locks.
WaitsFor(h, g) ==
    /\ g # h
    /\ \/ At(h, "start", {"create", "set"}) /\ HoldsDay(g, input[h].day)
       \/ At(h, "advisory", {"create"}) /\ HoldsSlot(g, input[h].day)
       \/ /\ At(h, "start", {"complete", "status"})
          /\ HoldsTask(g, input[h].task)

\* Whoever is waited for waits for nobody, so the waits never close a circle for
\* PostgreSQL to break with a deadlock error.  The slot is asked for only under the
\* row of its day: the wait for it behind that row is over before it begins.
THEOREM HoldersGoOn ==
    Spec => [](\A h, g, k \in Handler : WaitsFor(h, g) => ~WaitsFor(g, k))
<1>. DEFINE NoChain == \A h, g, k \in Handler : WaitsFor(h, g) => ~WaitsFor(g, k)
<1>1. ASSUME TypeOK, LocksExclusive PROVE NoChain
  <2>. SUFFICES ASSUME NEW h \in Handler, NEW g \in Handler, NEW k \in Handler,
                       WaitsFor(h, g), WaitsFor(g, k)
                PROVE  FALSE
    BY Zenon
  <2>1. At(g, "advisory", {"create"}) /\ HoldsSlot(k, input[g].day) /\ k # g
    BY DEF WaitsFor, HoldsDay, HoldsSlot, HoldsTask, At, Within
  <2>2. input[g].day \in Day
    BY <2>1, Serving, InputKinds, <1>1 DEF At, Within
  <2>3. HoldsDay(g, input[g].day) /\ HoldsDay(k, input[g].day)
    BY <2>1 DEF HoldsDay, HoldsSlot, At, Within
  <2>. QED BY <1>1, <2>1, <2>2, <2>3 DEF LocksExclusive
<1>. QED
  BY <1>1, Typing, LockExclusion, PTL DEF NoChain

-----------------------------------------------------------------------------
\* What the transactions rely on while they run, with what it is for.
SlotGood(h) ==
    At(h, "write", {"create"}) /\ input[h].prio => ~SlotTaken(input[h].day)
Good == AllocatedWithinTotal /\ ReadsStayGood /\ SlotFreeAtInsert

\* The reservations of a day do not grow and its slot stays free.
Eases(d) ==
    /\ Allocated(d)' <= Allocated(d)
    /\ SlotTaken(d)' => SlotTaken(d)

\* What a step must leave to a handler that is not its own.
Undisturbed(g) ==
    /\ pc'[g] = pc[g] /\ input'[g] = input[g] /\ read'[g] = read[g]
    /\ \A d \in Day : HoldsDay(g, d) => total'[d] = total[d] /\ Eases(d)
    /\ \A t \in Task : HoldsTask(g, t) => tasks'[t].status = tasks[t].status

\* An undisturbed transaction can rely on what it relied on.
LEMMA GoodKept ==
    ASSUME TypeOK, TypeOK', NEW g \in Handler, Undisturbed(g),
           ReadsGood(g), SlotGood(g)
    PROVE  ReadsGood(g)' /\ SlotGood(g)'
<1>. DEFINE i == input[g]
<1>1. CASE pc[g] = "idle"
  BY <1>1 DEF Undisturbed, ReadsGood, SlotGood, At, Within
<1>2. CASE pc[g] # "idle" /\ i.op \in {"create", "set"}
  <2>1. i \in Input /\ i.day \in Day
    BY <1>2, Serving, InputKinds
  <2>2. /\ i.op = "create" => i.dur \in Nat
        /\ i.op = "set" => i.avail \in Nat
    BY <2>1, InputKinds
  <2>3. PICK d \in Day : d = i.day
    BY <2>1
  <2>4. /\ Allocated(d) \in Nat /\ Allocated(d)' \in Nat
        /\ read[g].allocated \in Nat /\ read[g].total \in Nat
    <3>1. tasks \in [Task -> Row] /\ tasks' \in [Task -> Row]
      BY DEF TypeOK
    <3>2. Allocated(d) \in Nat /\ Allocated(d)' \in Nat
      BY <3>1, SumsAreNat DEF Allocated
    <3>3. read[g] \in Reads
      BY DEF TypeOK
    <3>. QED BY <3>2, <3>3 DEF Reads
  <2>5. Within(g, {"locked", "summing", "advisory", "check", "write"},
               {"create", "set"})
          => total'[d] = total[d] /\ Eases(d)
    BY <2>3 DEF Undisturbed, HoldsDay
  <2>6. ReadsGood(g)'
    BY <1>2, <2>2, <2>3, <2>4, <2>5 DEF Undisturbed, ReadsGood, At, Within, Eases, Allocated
  <2>7. SlotGood(g)'
    BY <1>2, <2>3, <2>5 DEF Undisturbed, SlotGood, At, Within, Eases, SlotTaken
  <2>. QED BY <2>6, <2>7
<1>3. CASE pc[g] # "idle" /\ i.op \in {"complete", "status"}
  <2>1. i \in Input /\ i.task \in Task
    BY <1>3, Serving, InputKinds
  <2>2. At(g, "write", {"complete", "status"})
          => tasks'[i.task].status = tasks[i.task].status
    BY <2>1 DEF Undisturbed, HoldsTask
  <2>3. ReadsGood(g)'
    BY <1>3, <2>1, <2>2 DEF Undisturbed, ReadsGood, At, Within
  <2>4. SlotGood(g)'
    BY <1>3 DEF Undisturbed, SlotGood, At, Within
  <2>. QED BY <2>3, <2>4
<1>. QED
  BY <1>1, <1>2, <1>3, Serving, InputKinds

\* A handler that has ended its transaction, or begins one, relies on nothing.
LEMMA RestingGood ==
    ASSUME NEW h \in Handler, pc'[h] \in {"idle", "start"}
    PROVE  ReadsGood(h)' /\ SlotGood(h)'
BY DEF ReadsGood, SlotGood, At, Within

\* A step of h that leaves the tables alone keeps Good if h can rely on what it
\* relies on next.
LEMMA QuietStep ==
    ASSUME TypeOK, TypeOK', Good, NEW h \in Handler,
           UNCHANGED <<total, tasks>>,
           \A g \in Handler \ {h} :
              pc'[g] = pc[g] /\ input'[g] = input[g] /\ read'[g] = read[g],
           ReadsGood(h)', SlotGood(h)'
    PROVE  Good'
<1>1. \A d \in Day : Allocated(d)' = Allocated(d) /\ SlotTaken(d)' = SlotTaken(d)
  BY DEF Allocated, SlotTaken
<1>2. \A d \in Day : Eases(d)
  BY <1>1, SumsAreNat DEF TypeOK, Eases, Allocated
<1>3. \A g \in Handler \ {h} : Undisturbed(g)
  BY <1>2 DEF Undisturbed
<1>4. \A g \in Handler : ReadsGood(g)' /\ SlotGood(g)'
  BY <1>3, GoodKept DEF Good, ReadsStayGood, SlotFreeAtInsert, SlotGood
<1>5. AllocatedWithinTotal'
  BY <1>1 DEF Good, AllocatedWithinTotal
<1>. QED
  BY <1>4, <1>5 DEF Good, ReadsStayGood, SlotFreeAtInsert, SlotGood

-----------------------------------------------------------------------------
\* A row that reserves no more, and holds a slot only if it did, eases every day.
LEMMA RowEases ==
    ASSUME TypeOK, NEW t \in Task, NEW row \in Row,
           tasks' = [tasks EXCEPT ![t] = row],
           \A d \in Day : /\ Reserved(row, d) <= Reserved(tasks[t], d)
                          /\ ActivePriority(row, d) => ActivePriority(tasks[t], d)
    PROVE  \A d \in Day : Eases(d)
<1>. SUFFICES ASSUME NEW d \in Day PROVE Eases(d)
  OBVIOUS
<1>1. tasks \in [Task -> Row] /\ tasks' \in [Task -> Row]
  BY RowReplaced DEF TypeOK
<1>2. \A u \in Task : tasks'[u] = IF u = t THEN row ELSE tasks[u]
  BY <1>1
<1>3. \A u \in Task : Reserved(tasks[u], d) \in Nat
  BY <1>1 DEF Reserved, Row
<1>4. \A u \in Task : Reserved(tasks'[u], d) <= Reserved(tasks[u], d)
  BY <1>2, <1>3
<1>5. Allocated(d)' <= Allocated(d)
  BY <1>1, <1>4, AllocatedShrinks DEF Allocated
<1>6. SlotTaken(d)' => SlotTaken(d)
  BY <1>2 DEF SlotTaken, SlotTakenIn
<1>. QED
  BY <1>5, <1>6 DEF Eases

\* What completing a task, by either route, leaves in its row.
LEMMA SettleRow ==
    ASSUME TypeOK, NEW h \in Handler, CommitComplete(h) \/ CommitFinish(h)
    PROVE  /\ input[h].task \in Task
           /\ \E e \in Nat, tm \in {tasks[input[h].task].timer, "COMPLETED"} :
                 tasks' = [tasks EXCEPT ![input[h].task] =
                             [@ EXCEPT !.status = "COMPLETED", !.elapsed = e,
                                       !.timer = tm]]
<1>. DEFINE t == input[h].task
<1>1. /\ t \in Task /\ tasks[t] \in Row
      /\ At(h, "write", {"complete"}) => input[h].elapsed \in Nat
      /\ At(h, "write", {"status"}) => input[h].elapsed \in Nat \union {-1}
  BY Serving, InputKinds DEF TypeOK, CommitComplete, CommitFinish, At, Within
<1>2. ASSUME CommitComplete(h)
      PROVE  \E e \in Nat, tm \in {tasks[t].timer, "COMPLETED"} :
                tasks' = [tasks EXCEPT ![t] =
                            [@ EXCEPT !.status = "COMPLETED", !.elapsed = e,
                                      !.timer = tm]]
  <2>1. input[h].elapsed \in Nat
    BY <1>1, <1>2 DEF CommitComplete
  <2>2. [tasks[t] EXCEPT !.status = "COMPLETED", !.elapsed = input[h].elapsed]
          = [tasks[t] EXCEPT !.status = "COMPLETED", !.elapsed = input[h].elapsed,
                             !.timer = tasks[t].timer]
    BY <1>1 DEF Row
  <2>3. tasks' = [tasks EXCEPT ![t] =
          [tasks[t] EXCEPT !.status = "COMPLETED", !.elapsed = input[h].elapsed]]
    BY <1>1, <1>2 DEF CommitComplete, TypeOK
  <2>. QED BY <2>1, <2>2, <2>3
<1>3. ASSUME CommitFinish(h)
      PROVE  \E e \in Nat, tm \in {tasks[t].timer, "COMPLETED"} :
                tasks' = [tasks EXCEPT ![t] =
                            [@ EXCEPT !.status = "COMPLETED", !.elapsed = e,
                                      !.timer = tm]]
  <2>. DEFINE e == IF input[h].elapsed = -1 THEN tasks[t].elapsed
                   ELSE input[h].elapsed
  <2>1. e \in Nat
    BY <1>1, <1>3 DEF CommitFinish, Row
  <2>2. [tasks[t] EXCEPT !.status = "COMPLETED", !.timer = "COMPLETED", !.elapsed = e]
          = [tasks[t] EXCEPT !.status = "COMPLETED", !.elapsed = e,
                             !.timer = "COMPLETED"]
    BY <1>1 DEF Row
  <2>3. tasks' = [tasks EXCEPT ![t] =
          [tasks[t] EXCEPT !.status = "COMPLETED", !.timer = "COMPLETED",
                           !.elapsed = e]]
    BY <1>1, <1>3 DEF CommitFinish, TypeOK
  <2>. HIDE DEF e
  <2>. QED BY <2>1, <2>2, <2>3
<1>. QED
  BY <1>1, <1>2, <1>3

\* Completing, timing, archiving and releasing a task eases every day.
LEMMA SettleEases ==
    ASSUME TypeOK, NEW h \in Handler, CommitComplete(h) \/ CommitFinish(h)
    PROVE  \A d \in Day : Eases(d)
<1>. DEFINE t == input[h].task
<1>1. t \in Task /\ tasks[t] \in Row
  BY SettleRow DEF TypeOK
<1>2. PICK e \in Nat, tm \in {tasks[t].timer, "COMPLETED"} :
         tasks' = [tasks EXCEPT ![t] =
                     [tasks[t] EXCEPT !.status = "COMPLETED", !.elapsed = e,
                                      !.timer = tm]]
  BY <1>1, SettleRow DEF TypeOK
<1>. DEFINE row == [tasks[t] EXCEPT !.status = "COMPLETED", !.elapsed = e,
                                    !.timer = tm]
<1>3. row \in Row /\ row.status = "COMPLETED"
  BY <1>1 DEF Row, Status, Timer
<1>4. \A d \in Day : /\ Reserved(row, d) <= Reserved(tasks[t], d)
                     /\ ActivePriority(row, d) => ActivePriority(tasks[t], d)
  <2>. HIDE DEF row
  <2>. QED BY <1>1, <1>3 DEF Reserved, ActivePriority, ActiveStatus, Row
<1>. HIDE DEF row, t
<1>. QED
  BY <1>1, <1>2, <1>3, <1>4, RowEases DEF row

\* A timer action reserves no more than before.
LEMMA TimerEases ==
    ASSUME TypeOK, NEW h \in Handler, CommitTimer(h)
    PROVE  /\ input[h].task \in Task
           /\ tasks' = [tasks EXCEPT ![input[h].task] =
                          [@ EXCEPT !.timer = read[h].timer]]
           /\ tasks' \in [Task -> Row]
           /\ \A d \in Day : Eases(d)
<1>. DEFINE t == input[h].task
            row == [tasks[t] EXCEPT !.timer = read[h].timer]
<1>1. t \in Task /\ tasks[t] \in Row /\ read[h].timer \in Timer
  BY Serving, InputKinds DEF TypeOK, CommitTimer, At, Within, Reads
<1>2. tasks' = [tasks EXCEPT ![t] = row]
  BY <1>1 DEF CommitTimer, TypeOK
<1>3. row \in Row /\ \A f \in {"status", "day", "est", "prio"} : row[f] = tasks[t][f]
  BY <1>1 DEF Row
<1>4. \A d \in Day : /\ Reserved(row, d) <= Reserved(tasks[t], d)
                     /\ ActivePriority(row, d) => ActivePriority(tasks[t], d)
  BY <1>1 DEF Reserved, ActivePriority, Row
<1>5. tasks' \in [Task -> Row] /\ \A d \in Day : Eases(d)
  <2>. HIDE DEF row, t
  <2>. QED BY <1>1, <1>2, <1>3, <1>4, RowEases, RowReplaced
<1>. QED
  BY <1>1, <1>2, <1>5

\* An archival reserves no more than before.
LEMMA ArchiveEases ==
    ASSUME TypeOK, NEW t \in Task, Archive(t) \/ Release(t)
    PROVE  /\ \A d \in Day : Eases(d)
           /\ \A u \in Task \ {t} : tasks'[u] = tasks[u]
<1>1. tasks[t] \in Row
  BY DEF TypeOK
<1>2. ASSUME Archive(t) PROVE \A d \in Day : Eases(d)
  <2>. DEFINE row == [tasks[t] EXCEPT !.status = "ARCHIVED"]
  <2>1. row \in Row
    BY <1>1 DEF Row, Status
  <2>2. tasks' = [tasks EXCEPT ![t] = row]
    BY <1>2 DEF Archive, TypeOK
  <2>3. \A d \in Day : /\ Reserved(row, d) <= Reserved(tasks[t], d)
                       /\ ActivePriority(row, d) => ActivePriority(tasks[t], d)
    BY <1>1 DEF Reserved, ActivePriority, ActiveStatus, Row
  <2>. HIDE DEF row
  <2>. QED BY <2>1, <2>2, <2>3, RowEases
<1>3. ASSUME Release(t) PROVE \A d \in Day : Eases(d)
  <2>. DEFINE row == [tasks[t] EXCEPT !.prio = FALSE]
  <2>1. row \in Row
    BY <1>1 DEF Row
  <2>2. tasks' = [tasks EXCEPT ![t] = row]
    BY <1>3 DEF Release, TypeOK
  <2>3. \A d \in Day : /\ Reserved(row, d) <= Reserved(tasks[t], d)
                       /\ ActivePriority(row, d) => ActivePriority(tasks[t], d)
    BY <1>1 DEF Reserved, ActivePriority, Row
  <2>. HIDE DEF row
  <2>. QED BY <2>1, <2>2, <2>3, RowEases
<1>4. \A u \in Task \ {t} : tasks'[u] = tasks[u]
  BY DEF Archive, Release, TypeOK
<1>. QED
  BY <1>2, <1>3, <1>4

\* A step that eases every day keeps the reservations within the totals.
LEMMA EasedFits ==
    ASSUME TypeOK, TypeOK', AllocatedWithinTotal, UNCHANGED total,
           \A d \in Day : Eases(d)
    PROVE  AllocatedWithinTotal'
<1>. SUFFICES ASSUME NEW d \in Day PROVE Allocated(d)' <= total'[d]
  BY DEF AllocatedWithinTotal
<1>1. tasks \in [Task -> Row] /\ tasks' \in [Task -> Row] /\ total[d] \in Nat
  BY DEF TypeOK
<1>2. Allocated(d) \in Nat /\ Allocated(d)' \in Nat
  BY <1>1, SumsAreNat DEF Allocated
<1>. QED
  BY <1>1, <1>2 DEF Eases, AllocatedWithinTotal

\* What the insertion does to each day.
LEMMA CreateGrows ==
    ASSUME TypeOK, TypeOK', NEW h \in Handler, CommitCreate(h)
    PROVE  /\ input[h].day \in Day /\ input[h].dur \in Nat
           /\ \A d \in Day : d = input[h].day =>
                 Allocated(d)' <= Allocated(d) + input[h].dur
           /\ \A d \in Day \ {input[h].day} : Eases(d)
           /\ \A g \in Handler, u \in Task :
                 HoldsTask(g, u) /\ tasks[u].status # "ABSENT"
                   => tasks'[u].status = tasks[u].status
<1>. DEFINE day == input[h].day
            row == [status |-> "PENDING", day |-> day, est |-> input[h].dur,
                    elapsed |-> 0, timer |-> "IDLE", prio |-> input[h].prio]
<1>1. day \in Day /\ input[h].dur \in Nat
  BY Serving, InputKinds DEF CommitCreate, At, Within
<1>2. PICK t \in Task : tasks[t].status = "ABSENT" /\ tasks' = [tasks EXCEPT ![t] = row]
  BY DEF CommitCreate
<1>3. tasks \in [Task -> Row] /\ tasks' \in [Task -> Row]
  BY DEF TypeOK
<1>4. \A u \in Task : tasks'[u] = IF u = t THEN row ELSE tasks[u]
  BY <1>2, <1>3
<1>5. \A d \in Day, u \in Task :
         Reserved(tasks[u], d) \in Nat /\ Reserved(tasks'[u], d) \in Nat
  BY <1>3 DEF Reserved, Row
<1>6. \A d \in Day : Reserved(row, d) = IF d = day THEN input[h].dur ELSE 0
  BY DEF Reserved, ActiveStatus
<1>7. \A d \in Day : ActivePriority(row, d) => d = day
  BY DEF ActivePriority
<1>. HIDE DEF row
<1>8. AllocatedIn(tasks', day) <= AllocatedIn(tasks, day) + input[h].dur
  <2>1. \A u \in Task : Reserved(tasks'[u], day)
          <= Reserved(tasks[u], day) + (IF u = t THEN input[h].dur ELSE 0)
    BY <1>1, <1>4, <1>5, <1>6
  <2>. HIDE DEF day
  <2>. QED BY <1>1, <1>3, <2>1, AllocatedGrowth
<1>9. ASSUME NEW d \in Day, d # day PROVE Eases(d)
  <2>1. \A u \in Task : Reserved(tasks'[u], d) <= Reserved(tasks[u], d)
    BY <1>4, <1>5, <1>6, <1>9
  <2>2. Allocated(d)' <= Allocated(d)
    BY <1>3, <2>1, AllocatedShrinks DEF Allocated
  <2>3. SlotTaken(d)' => SlotTaken(d)
    BY <1>4, <1>7, <1>9 DEF SlotTaken, SlotTakenIn
  <2>. QED BY <2>2, <2>3 DEF Eases
<1>10. \A d \in Day : d = day => Allocated(d)' <= Allocated(d) + input[h].dur
  BY <1>8 DEF Allocated
<1>11. \A d \in Day \ {day} : Eases(d)
  BY <1>9
<1>12. \A g \in Handler, u \in Task :
          HoldsTask(g, u) /\ tasks[u].status # "ABSENT"
            => tasks'[u].status = tasks[u].status
  BY <1>2, <1>4
<1>. QED
  BY <1>1, <1>10, <1>11, <1>12

\* The unfinished tasks of a day never reserve more than its available time: the
\* sums and the total that reserveAndCreateTask and setAvailableTime read under
\* the lock of the day row stay good until they commit, whatever completions,
\* timer actions, archivals and releases do to the rows meanwhile.  The slot that
\* was found free is free when the priority task is inserted.
THEOREM ReservationsHold == Spec => []Good
<1>1. Init => Good
  <2>. SUFFICES ASSUME Init PROVE Good
    OBVIOUS
  <2>1. \A d \in Day : Allocated(d) <= total[d]
    <3>. SUFFICES ASSUME NEW d \in Day PROVE Allocated(d) <= total[d]
      OBVIOUS
    <3>. DEFINE zero == [t \in Task |-> 0]
    <3>1. [t \in Task |-> Reserved(tasks[t], d)] = zero
      BY DEF Init, AbsentRow, Reserved, ActiveStatus
    <3>2. Allocated(d) = SumFunction(zero)
      BY <3>1 DEF Allocated, AllocatedIn
    <3>3. SumFunction(zero) = 0
      BY RowsAssumption, SumOfZeros
    <3>. QED BY <3>2, <3>3 DEF Init
  <2>. QED BY <2>1 DEF Init, Good, AllocatedWithinTotal, ReadsStayGood, ReadsGood,
                       SlotFreeAtInsert, At, Within
<1>2. ASSUME TypeOK, TypeOK', LocksExclusive, Good, [Next]_vars PROVE Good'
  <2>. USE <1>2
  <2>1. ASSUME NEW h \in Handler, NEW i \in Input, Begin(h, i) PROVE Good'
    BY <2>1, RestingGood, QuietStep DEF Begin, TypeOK, db
  <2>2. ASSUME NEW h \in Handler, EndTx(h), UNCHANGED db PROVE Good'
    BY <2>2, RestingGood, QuietStep DEF EndTx, TypeOK, db
  <2>3. ASSUME NEW h \in Handler, LockDay(h) PROVE Good'
    <3>1. ReadsGood(h)' /\ SlotGood(h)'
      BY <2>3 DEF LockDay, Goto, db, TypeOK, Reads, ReadsGood, SlotGood, At, Within
    <3>. QED BY <2>3, <3>1, QuietStep DEF LockDay, Goto, TypeOK, db
  <2>4. ASSUME NEW h \in Handler, FirstSum(h) PROVE Good'
    <3>1. read'[h].total = read[h].total /\ read'[h].allocated = Allocated(input[h].day)
      BY <2>4 DEF FirstSum, CreateSums, WithSum, TypeOK, Reads
    <3>2. PICK d \in Day : d = input[h].day
      BY <2>4, Serving, InputKinds DEF FirstSum, At, Within
    <3>3. Allocated(d) \in Nat /\ Allocated(d)' = Allocated(d)
      BY <2>4, SumsAreNat DEF FirstSum, db, TypeOK, Allocated
    <3>4. /\ pc[h] = "locked" /\ pc'[h] = "summing" /\ input' = input
          /\ input[h].op = "create" /\ total' = total
      BY <2>4 DEF FirstSum, Goto, db, TypeOK, At, Within
    <3>5. ReadsGood(h)' /\ SlotGood(h)'
      BY <3>1, <3>2, <3>3, <3>4
         DEF Good, ReadsStayGood, ReadsGood, SlotGood, At, Within, Allocated
    <3>. QED BY <2>4, <3>5, QuietStep DEF FirstSum, Goto, TypeOK, db
  <2>5. ASSUME NEW h \in Handler, AdmitCreate(h) PROVE Good'
    <3>. DEFINE r == WithSum(h, "consumed")
    <3>1. /\ r.total = read[h].total /\ r.allocated = read[h].allocated
          /\ r.consumed = Consumed(input[h].day)
      BY DEF WithSum, TypeOK, Reads
    <3>2. /\ pc[h] = "summing" /\ pc'[h] \in {"advisory", "write"} /\ input' = input
          /\ pc'[h] = "write" => ~input[h].prio
          /\ input[h].op = "create" /\ total' = total /\ tasks' = tasks
          /\ read'[h] = r /\ Fits(input[h], r)
      BY <2>5 DEF AdmitCreate, CreateSums, Goto, db, TypeOK, At, Within
    <3>3. /\ input[h].day \in Day /\ input[h].dur \in Nat
          /\ Consumed(input[h].day) \in Nat
      BY <3>2, Serving, InputKinds, SumsAreNat DEF TypeOK, Consumed
    <3>4. read[h].total \in Nat /\ read[h].allocated \in Nat
      BY DEF TypeOK, Reads
    <3>. HIDE DEF r
    <3>5. input[h].dur + r.allocated <= r.total
      BY <3>1, <3>2, <3>3, <3>4 DEF Fits
    <3>6. /\ r.total = total[input[h].day]
          /\ Allocated(input[h].day) <= r.allocated
      BY <3>1, <3>2 DEF Good, ReadsStayGood, ReadsGood, At, Within
    <3>7. ReadsGood(h)' /\ SlotGood(h)'
      BY <3>2, <3>5, <3>6 DEF ReadsGood, SlotGood, At, Within, Allocated
    <3>. QED BY <2>5, <3>7, QuietStep DEF AdmitCreate, Goto, TypeOK, db
  <2>6. ASSUME NEW h \in Handler, LockSlot(h) \/ FindSlotFree(h) PROVE Good'
    <3>1. /\ input[h].op = "create" /\ pc[h] \in {"advisory", "check"}
          /\ pc'[h] \in {"check", "write"}
          /\ pc'[h] = "write" => ~SlotTaken(input[h].day)
          /\ UNCHANGED <<total, tasks, input, read>>
      BY <2>6 DEF LockSlot, FindSlotFree, Goto, db, TypeOK, At, Within
    <3>2. ReadsGood(h)' /\ SlotGood(h)'
      BY <3>1 DEF Good, ReadsStayGood, ReadsGood, SlotGood, At, Within, Allocated, SlotTaken
    <3>. QED BY <2>6, <3>2, QuietStep DEF LockSlot, FindSlotFree, Goto, TypeOK, db
  <2>7. ASSUME NEW h \in Handler, CheckSet(h) PROVE Good'
    <3>1. PICK d \in Day : d = input[h].day
      BY <2>7, Serving, InputKinds DEF CheckSet, At, Within
    <3>2. input[h].avail \in Nat /\ Allocated(d) \in Nat /\ Allocated(d)' = Allocated(d)
      BY <2>7, Serving, InputKinds, SumsAreNat DEF CheckSet, db, TypeOK, Allocated, At, Within
    <3>3. /\ input[h].op = "set" /\ pc[h] = "locked" /\ pc'[h] = "write"
          /\ input' = input /\ total' = total
          /\ Allocated(d) <= input[h].avail /\ read'[h].total = read[h].total
      BY <2>7, <3>1, <3>2 DEF CheckSet, WithSum, Goto, db, TypeOK, At, Within, Reads
    <3>4. ReadsGood(h)' /\ SlotGood(h)'
      BY <3>1, <3>2, <3>3 DEF Good, ReadsStayGood, ReadsGood, SlotGood, At, Within, Allocated
    <3>. QED BY <2>7, <3>4, QuietStep DEF CheckSet, Goto, TypeOK, db
  <2>8. ASSUME NEW h \in Handler, LockForComplete(h) \/ LockForStatus(h) PROVE Good'
    <3>1. /\ input[h].op \in {"complete", "status"} /\ pc'[h] = "write"
          /\ UNCHANGED <<total, tasks, input>>
          /\ tasks[input[h].task].status # "ABSENT"
      BY <2>8 DEF LockForComplete, LockForStatus, TaskLockFree, Goto, db, TypeOK, At, Within
    <3>2. input[h].op = "status" => tasks[input[h].task].status # "COMPLETED"
      <4>1. \A tr \in Transitions : tr[2] # "COMPLETED"
        BY DEF Transitions
      <4>2. \A row, overdue : row.status = "COMPLETED"
               => DisplayStatus(row, overdue) = "COMPLETED"
        BY DEF DisplayStatus
      <4>. QED BY <2>8, <4>1, <4>2 DEF LockForComplete, LockForStatus, At, Within
    <3>3. ReadsGood(h)' /\ SlotGood(h)'
      BY <3>1, <3>2 DEF ReadsGood, SlotGood, At, Within
    <3>. QED BY <2>8, <3>3, QuietStep
             DEF LockForComplete, LockForStatus, Goto, TypeOK, db
  <2>9. ASSUME NEW h \in Handler, CommitCreate(h) PROVE Good'
    <3>1. PICK d \in Day : d = input[h].day
      BY <2>9, CreateGrows
    <3>2. HoldsDay(h, d)
      BY <2>9, <3>1 DEF CommitCreate, HoldsDay, At, Within
    <3>3. \A g \in Handler \ {h} : Undisturbed(g)
      <4>. SUFFICES ASSUME NEW g \in Handler \ {h} PROVE Undisturbed(g)
        OBVIOUS
      <4>1. pc'[g] = pc[g] /\ input'[g] = input[g] /\ read'[g] = read[g] /\ total' = total
        BY <2>9 DEF CommitCreate, EndTx, TypeOK
      <4>2. ~HoldsDay(g, d)
        BY <3>2 DEF LocksExclusive
      <4>3. \A c \in Day : HoldsDay(g, c) => Eases(c)
        BY <2>9, <3>1, <4>2, CreateGrows
      <4>4. \A u \in Task : HoldsTask(g, u) => tasks[u].status # "ABSENT"
        BY DEF Good, ReadsStayGood, ReadsGood, HoldsTask, At, Within
      <4>5. \A u \in Task : HoldsTask(g, u) => tasks'[u].status = tasks[u].status
        BY <2>9, <4>4, CreateGrows
      <4>. QED BY <4>1, <4>3, <4>5 DEF Undisturbed
    <3>4. \A g \in Handler \ {h} : ReadsGood(g)' /\ SlotGood(g)'
      BY <3>3, GoodKept DEF Good, ReadsStayGood, SlotFreeAtInsert, SlotGood
    <3>5. ReadsGood(h)' /\ SlotGood(h)'
      BY <2>9, RestingGood DEF CommitCreate, EndTx, TypeOK
    <3>6. AllocatedWithinTotal'
      <4>. SUFFICES ASSUME NEW c \in Day PROVE Allocated(c)' <= total'[c]
        BY DEF AllocatedWithinTotal
      <4>1. total' = total /\ total[c] \in Nat /\ Allocated(c) \in Nat
            /\ Allocated(c)' \in Nat /\ input[h].dur \in Nat
        BY <2>9, CreateGrows, SumsAreNat DEF CommitCreate, TypeOK, Allocated
      <4>2. CASE c = d
        <5>1. Allocated(c)' <= Allocated(c) + input[h].dur
          BY <2>9, <3>1, <4>2, CreateGrows
        <5>2. /\ read[h].total = total[c] /\ Allocated(c) <= read[h].allocated
              /\ input[h].dur + read[h].allocated <= read[h].total
          BY <2>9, <3>1, <4>2 DEF CommitCreate, Good, ReadsStayGood, ReadsGood, At, Within
        <5>3. read[h].allocated \in Nat
          BY DEF TypeOK, Reads
        <5>. QED BY <4>1, <5>1, <5>2, <5>3
      <4>3. CASE c # d
        <5>1. Allocated(c)' <= Allocated(c)
          BY <2>9, <3>1, <4>3, CreateGrows DEF Eases
        <5>. QED BY <4>1, <5>1 DEF Good, AllocatedWithinTotal
      <4>. QED BY <4>2, <4>3
    <3>. QED BY <3>4, <3>5, <3>6 DEF Good, ReadsStayGood, SlotFreeAtInsert, SlotGood
  <2>10. ASSUME NEW h \in Handler, CommitSet(h) PROVE Good'
    <3>1. PICK d \in Day : d = input[h].day
      BY <2>10, Serving, InputKinds DEF CommitSet, At, Within
    <3>2. HoldsDay(h, d) /\ Allocated(d) <= input[h].avail
      BY <2>10, <3>1 DEF CommitSet, HoldsDay, Good, ReadsStayGood, ReadsGood, At, Within
    <3>3. /\ tasks' = tasks
          /\ \A c \in Day : total'[c] = IF c = d THEN input[h].avail ELSE total[c]
      BY <2>10, <3>1 DEF CommitSet, TypeOK
    <3>4. \A c \in Day : Allocated(c)' = Allocated(c) /\ SlotTaken(c)' = SlotTaken(c)
      BY <3>3 DEF Allocated, SlotTaken
    <3>5. \A c \in Day : Eases(c)
      BY <3>4, SumsAreNat DEF TypeOK, Eases, Allocated
    <3>6. \A g \in Handler \ {h} : Undisturbed(g)
      BY <2>10, <3>2, <3>3, <3>5 DEF CommitSet, EndTx, TypeOK, Undisturbed, LocksExclusive
    <3>7. \A g \in Handler \ {h} : ReadsGood(g)' /\ SlotGood(g)'
      BY <3>6, GoodKept DEF Good, ReadsStayGood, SlotFreeAtInsert, SlotGood
    <3>8. ReadsGood(h)' /\ SlotGood(h)'
      BY <2>10, RestingGood DEF CommitSet, EndTx, TypeOK
    <3>9. AllocatedWithinTotal'
      BY <3>2, <3>3, <3>4 DEF Good, AllocatedWithinTotal
    <3>. QED BY <3>7, <3>8, <3>9 DEF Good, ReadsStayGood, SlotFreeAtInsert, SlotGood
  <2>11. ASSUME NEW h \in Handler, NEW t \in Task, EndTx(h), HoldsTask(h, t),
                UNCHANGED total, \A d \in Day : Eases(d),
                \A u \in Task \ {t} : tasks'[u] = tasks[u]
         PROVE  Good'
    <3>1. \A g \in Handler \ {h} : Undisturbed(g)
      BY <2>11 DEF EndTx, TypeOK, Undisturbed, LocksExclusive
    <3>2. \A g \in Handler \ {h} : ReadsGood(g)' /\ SlotGood(g)'
      BY <3>1, GoodKept DEF Good, ReadsStayGood, SlotFreeAtInsert, SlotGood
    <3>3. ReadsGood(h)' /\ SlotGood(h)'
      BY <2>11, RestingGood DEF EndTx, TypeOK
    <3>4. AllocatedWithinTotal'
      BY <2>11, EasedFits DEF Good
    <3>. QED BY <3>2, <3>3, <3>4 DEF Good, ReadsStayGood, SlotFreeAtInsert, SlotGood
  <2>12. ASSUME NEW h \in Handler, CommitComplete(h) \/ CommitFinish(h) PROVE Good'
    <3>1. /\ HoldsTask(h, input[h].task) /\ EndTx(h) /\ UNCHANGED total
          /\ input[h].task \in Task
      BY <2>12, SettleRow DEF CommitComplete, CommitFinish, HoldsTask, At, Within
    <3>2. \A u \in Task \ {input[h].task} : tasks'[u] = tasks[u]
      BY <2>12, SettleRow DEF TypeOK
    <3>. QED BY <2>11, <2>12, <3>1, <3>2, SettleEases
  <2>13. ASSUME NEW h \in Handler, CommitTimer(h) PROVE Good'
    <3>1. /\ HoldsTask(h, input[h].task) /\ EndTx(h) /\ UNCHANGED total
          /\ input[h].task \in Task
      BY <2>13, TimerEases DEF CommitTimer, HoldsTask, At, Within
    <3>2. \A u \in Task \ {input[h].task} : tasks'[u] = tasks[u]
      BY <2>13, TimerEases DEF TypeOK
    <3>. QED BY <2>11, <2>13, <3>1, <3>2, TimerEases
  <2>14. ASSUME NEW t \in Task, Archive(t) \/ Release(t) PROVE Good'
    <3>1. RowUnlocked(t) /\ UNCHANGED <<total, pc, input, read>>
      BY <2>14 DEF Archive, Release
    <3>2. \A g \in Handler : Undisturbed(g)
      BY <2>14, <3>1, ArchiveEases DEF Undisturbed, RowUnlocked
    <3>3. \A g \in Handler : ReadsGood(g)' /\ SlotGood(g)'
      BY <3>2, GoodKept DEF Good, ReadsStayGood, SlotFreeAtInsert, SlotGood
    <3>4. AllocatedWithinTotal'
      BY <2>14, <3>1, ArchiveEases, EasedFits DEF Good
    <3>. QED BY <3>3, <3>4 DEF Good, ReadsStayGood, SlotFreeAtInsert, SlotGood
  <2>15. CASE UNCHANGED vars
    BY <2>15
       DEF vars, Good, AllocatedWithinTotal, ReadsStayGood, ReadsGood, SlotFreeAtInsert, At,
           Within, Allocated, SlotTaken
  <2>. QED
    BY <2>1, <2>2, <2>3, <2>4, <2>5, <2>6, <2>7, <2>8, <2>9, <2>10, <2>12, <2>13, <2>14, <2>15
       DEF Next, Step, Create, SetTotal, CompleteTask, ApplyAction, Abort, RefuseCreate,
           FindSlotTaken, RefuseSet, RefuseStatus, TaskMissing
<1>. QED
  BY <1>1, <1>2, Typing, LockExclusion, PTL DEF Spec

\* Creations and settings together keep the reservations of every day within its
\* total: 409 INSUFFICIENT_AVAILABLE_TIME and 400 AVAILABLE_BELOW_ALLOCATED are
\* enough, however many requests interleave.
THEOREM ReservationsFit == Spec => []AllocatedWithinTotal
BY ReservationsHold, PTL DEF Good

\* What a transaction has read stays good until it commits.
THEOREM ReadsHold == Spec => []ReadsStayGood
BY ReservationsHold, PTL DEF Good

\* The unique index on the priority slot of a day never has to reject an INSERT.
THEOREM SlotHolds == Spec => []SlotFreeAtInsert
BY ReservationsHold, PTL DEF Good

-----------------------------------------------------------------------------
(* What is spent: reservations and consumption together. *)

Cost(row, d) == Reserved(row, d) + Consumption(row, d)
SpentIn(rows, d) == AllocatedIn(rows, d) + ConsumedIn(rows, d)
Spent(d) == SpentIn(tasks, d)

\* What a creation that has read both sums goes by: the second one, the consumption, saw
\* whatever a completion took from the first one after it was read.
Spending(h) ==
    Within(h, {"advisory", "check", "write"}, {"create"}) =>
        /\ Fits(input[h], read[h])
        /\ input[h].day \notin excused =>
               Spent(input[h].day) <= read[h].allocated + read[h].consumed
SpendGood == SpentWithinTotal /\ \A h \in Handler : Spending(h)

\* What the row of one task costs a day is a natural number.
LEMMA CostIsNat ==
    ASSUME NEW row \in Row, NEW d \in Day
    PROVE  /\ Reserved(row, d) \in Nat /\ Consumption(row, d) \in Nat
           /\ Cost(row, d) \in Nat
BY DEF Reserved, Consumption, Charge, Row, Cost

\* What is spent on a day is the sum of what the tasks cost it.
LEMMA SpentIsSum ==
    ASSUME NEW rows \in [Task -> Row], NEW d \in Day
    PROVE  /\ [t \in Task |-> Cost(rows[t], d)] \in [Task -> Nat]
           /\ SpentIn(rows, d) = SumFunction([t \in Task |-> Cost(rows[t], d)])
           /\ SpentIn(rows, d) \in Nat
<1>. DEFINE u == [t \in Task |-> Cost(rows[t], d)]
            v == [t \in Task |-> Reserved(rows[t], d)]
            w == [t \in Task |-> Consumption(rows[t], d)]
<1>1. /\ u \in [Task -> Nat] /\ v \in [Task -> Nat] /\ w \in [Task -> Nat]
      /\ \A t \in Task : u[t] = v[t] + w[t]
  BY CostIsNat DEF Cost
<1>2. SumFunction(u) = SumFunction(v) + SumFunction(w)
  <2>. HIDE DEF u, v, w
  <2>. QED BY <1>1, RowsAssumption, SumPlus
<1>3. SpentIn(rows, d) \in Nat
  BY SumsAreNat DEF SpentIn
<1>. QED
  BY <1>1, <1>2, <1>3 DEF SpentIn, AllocatedIn, ConsumedIn

\* If only the row of a may cost more than before, and by at most k, then what is
\* spent on the day grows by at most k.
LEMMA SpentGrowth ==
    ASSUME NEW rows \in [Task -> Row], NEW next \in [Task -> Row],
           NEW d \in Day, NEW a, NEW k \in Nat,
           \A t \in Task :
              Cost(next[t], d) <= Cost(rows[t], d) + (IF t = a THEN k ELSE 0)
    PROVE  SpentIn(next, d) <= SpentIn(rows, d) + k
<1>. DEFINE v == [t \in Task |-> Cost(rows[t], d)]
            w == [t \in Task |-> Cost(next[t], d)]
<1>1. /\ v \in [Task -> Nat] /\ SpentIn(rows, d) = SumFunction(v)
      /\ w \in [Task -> Nat] /\ SpentIn(next, d) = SumFunction(w)
  BY SpentIsSum
<1>2. \A t \in Task : w[t] <= v[t] + (IF t = a THEN k ELSE 0)
  OBVIOUS
<1>3. SumFunction(w) <= SumFunction(v) + k
  <2>. HIDE DEF v, w
  <2>. QED BY <1>1, <1>2, RowsAssumption, SumGrowth
<1>. HIDE DEF v, w
<1>. QED
  BY <1>1, <1>3

\* If the row of one task is replaced by one that costs no more, no more is spent.
LEMMA RowSpares ==
    ASSUME TypeOK, NEW t \in Task, NEW row \in Row,
           tasks' = [tasks EXCEPT ![t] = row],
           NEW d \in Day, Cost(row, d) <= Cost(tasks[t], d)
    PROVE  Spent(d)' <= Spent(d)
<1>1. tasks \in [Task -> Row] /\ tasks' \in [Task -> Row]
  BY RowReplaced DEF TypeOK
<1>2. \A u \in Task : tasks'[u] = IF u = t THEN row ELSE tasks[u]
  BY <1>1
<1>3. \A u \in Task : Cost(tasks[u], d) \in Nat
  BY <1>1, CostIsNat
<1>4. \A u \in Task : Cost(tasks'[u], d) <= Cost(tasks[u], d) + (IF u = t THEN 0 ELSE 0)
  BY <1>2, <1>3
<1>5. SpentIn(tasks', d) <= SpentIn(tasks, d) + 0
  BY <1>1, <1>4, SpentGrowth
<1>6. SpentIn(tasks, d) \in Nat
  BY <1>1, SpentIsSum
<1>. QED
  BY <1>5, <1>6 DEF Spent

\* A completion, by either route, moves a task from the reservations to the consumption,
\* which is at most its estimate; or the task was closed, and its day is excused.
LEMMA SettleSpares ==
    ASSUME TypeOK, NEW h \in Handler, CommitComplete(h) \/ CommitFinish(h)
    PROVE  /\ excused \subseteq excused'
           /\ \A d \in Day \ excused' : Spent(d)' <= Spent(d)
<1>. DEFINE t == input[h].task
<1>1. t \in Task /\ tasks[t] \in Row
  BY SettleRow DEF TypeOK
<1>2. PICK e \in Nat, tm \in {tasks[t].timer, "COMPLETED"} :
         tasks' = [tasks EXCEPT ![t] =
                     [tasks[t] EXCEPT !.status = "COMPLETED", !.elapsed = e,
                                      !.timer = tm]]
  BY <1>1, SettleRow DEF TypeOK
<1>3. excused' = IF tasks[t].status \in ActiveStatus
                 THEN excused ELSE excused \union {tasks[t].day}
  BY DEF CommitComplete, CommitFinish, ExcuseIfClosed
<1>. DEFINE row == [tasks[t] EXCEPT !.status = "COMPLETED", !.elapsed = e,
                                    !.timer = tm]
<1>4. /\ row \in Row /\ row.status = "COMPLETED" /\ row.elapsed = e
      /\ row.day = tasks[t].day /\ row.est = tasks[t].est
  BY <1>1 DEF Row, Status, Timer
<1>. HIDE DEF row, t
<1>5. ASSUME NEW d \in Day, d \notin excused'
      PROVE  Cost(row, d) <= Cost(tasks[t], d)
  <2>1. CASE row.day # d
    BY <1>1, <1>4, <2>1, CostIsNat DEF Cost, Reserved, Consumption
  <2>2. CASE row.day = d
    <3>1. tasks[t].status \in ActiveStatus
      BY <1>3, <1>4, <1>5, <2>2
    <3>2. Cost(tasks[t], d) = tasks[t].est
      BY <1>1, <1>4, <2>2, <3>1 DEF Cost, Reserved, Consumption, ActiveStatus, Row
    <3>3. Cost(row, d) = Charge(row)
      BY <1>4, <2>2 DEF Cost, Reserved, Consumption, ActiveStatus, Charge, Row
    <3>. QED BY <1>1, <1>4, <3>2, <3>3 DEF Charge, Row
  <2>. QED BY <2>1, <2>2
<1>6. tasks' = [tasks EXCEPT ![t] = row]
  BY <1>2 DEF row
<1>. QED
  BY <1>1, <1>3, <1>4, <1>5, <1>6, RowSpares

\* Timer actions, archivals and releases spend nothing.
LEMMA EaseSpares ==
    ASSUME TypeOK, NEW t \in Task,
           \/ \E h \in Handler : input[h].task = t /\ CommitTimer(h)
           \/ Archive(t) \/ Release(t)
    PROVE  \A d \in Day : Spent(d)' <= Spent(d)
<1>. SUFFICES ASSUME NEW d \in Day PROVE Spent(d)' <= Spent(d)
  OBVIOUS
<1>1. tasks \in [Task -> Row] /\ tasks[t] \in Row
  BY DEF TypeOK
<1>2. ASSUME NEW h \in Handler, input[h].task = t, CommitTimer(h) PROVE Spent(d)' <= Spent(d)
  <2>. DEFINE row == [tasks[t] EXCEPT !.timer = read[h].timer]
  <2>1. read[h].timer \in Timer
    BY DEF TypeOK, Reads
  <2>2. row \in Row /\ \A f \in {"status", "day", "est", "elapsed"} : row[f] = tasks[t][f]
    BY <1>1, <2>1 DEF Row
  <2>3. tasks' = [tasks EXCEPT ![t] = row]
    BY <1>2, TimerEases
  <2>. HIDE DEF row
  <2>4. Cost(row, d) <= Cost(tasks[t], d)
    BY <1>1, <2>2, CostIsNat DEF Cost, Reserved, Consumption, Charge
  <2>. QED BY <2>2, <2>3, <2>4, RowSpares
<1>3. ASSUME Archive(t) PROVE Spent(d)' <= Spent(d)
  <2>. DEFINE row == [tasks[t] EXCEPT !.status = "ARCHIVED"]
  <2>1. row \in Row /\ row.status = "ARCHIVED"
    BY <1>1 DEF Row, Status
  <2>2. tasks' = [tasks EXCEPT ![t] = row]
    BY <1>1, <1>3 DEF Archive
  <2>. HIDE DEF row
  <2>3. Cost(row, d) = 0
    BY <2>1 DEF Cost, Reserved, Consumption, ActiveStatus
  <2>4. Cost(row, d) <= Cost(tasks[t], d)
    BY <1>1, <2>3, CostIsNat
  <2>. QED BY <2>1, <2>2, <2>4, RowSpares
<1>4. ASSUME Release(t) PROVE Spent(d)' <= Spent(d)
  <2>. DEFINE row == [tasks[t] EXCEPT !.prio = FALSE]
  <2>1. row \in Row /\ \A f \in {"status", "day", "est", "elapsed"} : row[f] = tasks[t][f]
    BY <1>1 DEF Row
  <2>2. tasks' = [tasks EXCEPT ![t] = row]
    BY <1>1, <1>4 DEF Release
  <2>. HIDE DEF row
  <2>3. Cost(row, d) <= Cost(tasks[t], d)
    BY <1>1, <2>1, CostIsNat DEF Cost, Reserved, Consumption, Charge
  <2>. QED BY <2>1, <2>2, <2>3, RowSpares
<1>. QED
  BY <1>2, <1>3, <1>4

\* A creation spends its duration on its day, and nothing on another.
LEMMA CreateSpends ==
    ASSUME TypeOK, TypeOK', NEW h \in Handler, CommitCreate(h)
    PROVE  \A d \in Day :
              Spent(d)' <= Spent(d) + (IF d = input[h].day THEN input[h].dur ELSE 0)
<1>. DEFINE row == [status |-> "PENDING", day |-> input[h].day, est |-> input[h].dur,
                    elapsed |-> 0, timer |-> "IDLE", prio |-> input[h].prio]
<1>. SUFFICES ASSUME NEW d \in Day
              PROVE  Spent(d)' <= Spent(d) + (IF d = input[h].day THEN input[h].dur ELSE 0)
  OBVIOUS
<1>1. input[h].dur \in Nat
  BY Serving, InputKinds DEF CommitCreate, At, Within
<1>2. PICK t \in Task : tasks[t].status = "ABSENT" /\ tasks' = [tasks EXCEPT ![t] = row]
  BY DEF CommitCreate
<1>3. tasks \in [Task -> Row] /\ tasks' \in [Task -> Row]
  BY DEF TypeOK
<1>4. \A u \in Task : tasks'[u] = IF u = t THEN row ELSE tasks[u]
  BY <1>2, <1>3
<1>5. Cost(row, d) = IF d = input[h].day THEN input[h].dur ELSE 0
  BY <1>1 DEF Cost, Reserved, Consumption, ActiveStatus
<1>6. Cost(row, d) \in Nat
  BY <1>1, <1>5
<1>. HIDE DEF row
<1>7. \A u \in Task : Cost(tasks[u], d) \in Nat
  BY <1>3, CostIsNat
<1>8. \A u \in Task : Cost(tasks'[u], d) <= Cost(tasks[u], d) + (IF u = t THEN Cost(row, d) ELSE 0)
  BY <1>4, <1>6, <1>7
<1>9. SpentIn(tasks', d) <= SpentIn(tasks, d) + Cost(row, d)
  BY <1>3, <1>6, <1>8, SpentGrowth
<1>. QED
  BY <1>5, <1>9 DEF Spent

-----------------------------------------------------------------------------
\* What a step of another handler must leave to a creation.
SparedBy(g) ==
    /\ pc'[g] = pc[g] /\ input'[g] = input[g] /\ read'[g] = read[g]
    /\ \A d \in Day \ excused' : HoldsDay(g, d) => Spent(d)' <= Spent(d)

\* A spared creation can go on by what it has read.
LEMMA SpendingKept ==
    ASSUME TypeOK, TypeOK', excused \subseteq excused', NEW g \in Handler,
           SparedBy(g), Spending(g)
    PROVE  Spending(g)'
<1>. SUFFICES ASSUME Within(g, {"advisory", "check", "write"}, {"create"})
              PROVE  Spending(g)'
  BY DEF SparedBy, Spending, Within
<1>1. PICK d \in Day : d = input[g].day
  BY Serving, InputKinds DEF Within
<1>2. Fits(input[g], read[g])
  BY DEF Spending
<1>3. ASSUME d \notin excused'
      PROVE  Spent(d)' <= read[g].allocated + read[g].consumed
  <2>1. Spent(d)' <= Spent(d)
    BY <1>1, <1>3 DEF SparedBy, HoldsDay, Within
  <2>2. Spent(d) <= read[g].allocated + read[g].consumed
    BY <1>1, <1>3 DEF Spending
  <2>3. Spent(d) \in Nat /\ Spent(d)' \in Nat
    BY SpentIsSum DEF TypeOK, Spent
  <2>4. read[g].allocated \in Nat /\ read[g].consumed \in Nat
    BY DEF TypeOK, Reads
  <2>. QED BY <2>1, <2>2, <2>3, <2>4
<1>. QED
  BY <1>1, <1>2, <1>3 DEF SparedBy, Spending, Within, Spent, Fits

\* A step that spends nothing, on days that are not excused by it, keeps every day fit.
LEMMA SparedFits ==
    ASSUME TypeOK, TypeOK', SpentWithinTotal, UNCHANGED total, excused \subseteq excused',
           \A d \in Day \ excused' : Spent(d)' <= Spent(d)
    PROVE  SpentWithinTotal'
<1>. SUFFICES ASSUME NEW d \in Day \ excused' PROVE Spent(d)' <= total'[d]
  BY DEF SpentWithinTotal, Spent, SpentIn, Allocated, Consumed
<1>1. Spent(d) <= total[d]
  BY DEF SpentWithinTotal, Spent, SpentIn, Allocated, Consumed
<1>2. Spent(d) \in Nat /\ Spent(d)' \in Nat /\ total[d] \in Nat
  BY SpentIsSum DEF TypeOK, Spent
<1>. QED
  BY <1>1, <1>2

\* A step of h that spends nothing keeps SpendGood if h can rely on what it relies on next.
LEMMA SparingStep ==
    ASSUME TypeOK, TypeOK', SpendGood, UNCHANGED total, excused \subseteq excused',
           \A d \in Day \ excused' : Spent(d)' <= Spent(d),
           NEW h, h \in Handler => Spending(h)',
           \A g \in Handler \ {h} :
              pc'[g] = pc[g] /\ input'[g] = input[g] /\ read'[g] = read[g]
    PROVE  SpendGood'
<1>1. \A g \in Handler \ {h} : Spending(g)'
  BY SpendingKept DEF SparedBy, SpendGood
<1>2. SpentWithinTotal'
  BY SparedFits DEF SpendGood
<1>. QED
  BY <1>1, <1>2 DEF SpendGood

\* A handler that has ended its transaction, or begins one, goes by nothing.
LEMMA RestingSpends ==
    ASSUME NEW h \in Handler, pc'[h] \notin {"advisory", "check", "write"} \/ input'[h].op # "create"
    PROVE  Spending(h)'
BY DEF Spending, Within

\* Every step keeps what is spent within the day.
LEMMA SpendGoodStep ==
    ASSUME TypeOK, TypeOK', LocksExclusive, Good, SpendGood, [Next]_vars
    PROVE  SpendGood'
<1>1. ASSUME UNCHANGED tasks PROVE \A d \in Day : Spent(d)' = Spent(d) /\ Spent(d) \in Nat
  BY <1>1, SpentIsSum DEF Spent, TypeOK
<1>2. ASSUME NEW h \in Handler, UNCHANGED db, Spending(h)',
             \A g \in Handler \ {h} :
                pc'[g] = pc[g] /\ input'[g] = input[g] /\ read'[g] = read[g]
      PROVE  SpendGood'
  <2>1. UNCHANGED <<total, tasks, excused>>
    BY <1>2 DEF db
  <2>2. \A d \in Day : Spent(d)' <= Spent(d)
    BY <1>1, <2>1
  <2>. QED BY <1>2, <2>1, <2>2, SparingStep
<1>3. ASSUME NEW h \in Handler, NEW i \in Input, Begin(h, i) PROVE SpendGood'
  BY <1>2, <1>3, RestingSpends DEF Begin, TypeOK
<1>4. ASSUME NEW h \in Handler, EndTx(h), UNCHANGED db PROVE SpendGood'
  BY <1>2, <1>4, RestingSpends DEF EndTx, TypeOK
<1>5. ASSUME NEW h \in Handler,
             \/ LockDay(h) \/ FirstSum(h) \/ CheckSet(h)
             \/ LockForComplete(h) \/ LockForStatus(h)
      PROVE  SpendGood'
  <2>1. /\ UNCHANGED db /\ input' = input
        /\ pc'[h] \in {"locked", "summing"} \/ input[h].op # "create"
        /\ \A g \in Handler \ {h} : pc'[g] = pc[g] /\ read'[g] = read[g]
    BY <1>5
       DEF LockDay, FirstSum, CheckSet, LockForComplete, LockForStatus, Goto, At, Within, TypeOK
  <2>. QED BY <1>2, <2>1, RestingSpends
<1>6. ASSUME NEW h \in Handler, AdmitCreate(h) PROVE SpendGood'
  <2>. DEFINE r == WithSum(h, "consumed")
  <2>1. /\ r.total = read[h].total /\ r.allocated = read[h].allocated
        /\ r.consumed = Consumed(input[h].day)
    BY DEF WithSum, TypeOK, Reads
  <2>2. /\ input' = input /\ UNCHANGED db /\ read'[h] = r /\ Fits(input[h], r)
        /\ Within(h, {"summing"}, {"create"})
        /\ \A g \in Handler \ {h} : pc'[g] = pc[g] /\ read'[g] = read[g]
    BY <1>6 DEF AdmitCreate, CreateSums, Goto, TypeOK, At
  <2>. HIDE DEF r
  <2>3. PICK d \in Day : d = input[h].day
    BY <2>2, Serving, InputKinds DEF Within
  <2>4. Allocated(d) <= read[h].allocated
    BY <2>2, <2>3 DEF Good, ReadsStayGood, ReadsGood, Within
  <2>5. Allocated(d) \in Nat /\ Consumed(d) \in Nat /\ read[h].allocated \in Nat
    BY SumsAreNat DEF TypeOK, Allocated, Consumed, Reads
  <2>6. Spent(d) <= r.allocated + r.consumed
    BY <2>1, <2>3, <2>4, <2>5 DEF Spent, SpentIn, Allocated, Consumed
  <2>7. Spent(d)' = Spent(d)
    BY <1>1, <2>2 DEF db
  <2>8. Spending(h)'
    BY <2>2, <2>3, <2>6, <2>7 DEF Spending, Fits, Spent
  <2>. QED BY <1>2, <2>2, <2>8
<1>7. ASSUME NEW h \in Handler, LockSlot(h) \/ FindSlotFree(h) PROVE SpendGood'
  <2>1. /\ UNCHANGED <<db, input, read>> /\ Within(h, {"advisory", "check"}, {"create"})
        /\ \A g \in Handler \ {h} : pc'[g] = pc[g]
    BY <1>7 DEF LockSlot, FindSlotFree, Goto, TypeOK, At, Within
  <2>2. Spending(h)'
    BY <2>1 DEF SpendGood, Spending, Within, Spent, Fits, db
  <2>. QED BY <1>2, <2>1, <2>2
<1>8. ASSUME NEW h \in Handler, CommitCreate(h) PROVE SpendGood'
  <2>1. PICK d \in Day : d = input[h].day
    BY <1>8, CreateGrows
  <2>2. /\ EndTx(h) /\ UNCHANGED <<total, excused>>
        /\ Within(h, {"write"}, {"create"}) /\ HoldsDay(h, d) /\ input[h].dur \in Nat
    BY <1>8, <2>1, CreateGrows DEF CommitCreate, HoldsDay, At, Within
  <2>3. \A c \in Day : Spent(c) \in Nat /\ Spent(c)' \in Nat /\ total[c] \in Nat
    BY SpentIsSum DEF TypeOK, Spent
  <2>4. Spent(d)' <= Spent(d) + input[h].dur /\ \A c \in Day \ {d} : Spent(c)' <= Spent(c)
    BY <1>8, <2>1, <2>3, CreateSpends
  <2>5. \A g \in Handler \ {h} : Spending(g)'
    <3>1. \A g \in Handler \ {h} : SparedBy(g)
      BY <2>2, <2>4 DEF SparedBy, LocksExclusive, EndTx, TypeOK
    <3>. QED BY <2>2, <3>1, SpendingKept DEF SpendGood
  <2>6. Spending(h)'
    BY <2>2, RestingSpends DEF EndTx, TypeOK
  <2>7. ASSUME NEW c \in Day \ excused PROVE Spent(c)' <= total[c]
    <3>1. Spent(c) <= total[c]
      BY DEF SpendGood, SpentWithinTotal, Spent, SpentIn, Allocated, Consumed
    <3>2. CASE c # d
      BY <2>3, <2>4, <3>1, <3>2
    <3>3. CASE c = d
      <4>1. /\ Fits(input[h], read[h])
            /\ Spent(d) <= read[h].allocated + read[h].consumed
        BY <2>1, <2>2, <2>7, <3>3 DEF SpendGood, Spending, Within
      <4>2. read[h].total = total[d]
        BY <2>1, <2>2 DEF Good, ReadsStayGood, ReadsGood, Within
      <4>3. /\ read[h].total \in Nat /\ read[h].allocated \in Nat /\ read[h].consumed \in Nat
        BY DEF TypeOK, Reads
      <4>. QED BY <2>2, <2>3, <2>4, <3>3, <4>1, <4>2, <4>3 DEF Fits
    <3>. QED BY <3>2, <3>3
  <2>8. SpentWithinTotal'
    BY <2>2, <2>7 DEF SpentWithinTotal, Spent, SpentIn, Allocated, Consumed
  <2>. QED BY <2>5, <2>6, <2>8 DEF SpendGood
<1>9. ASSUME NEW h \in Handler, CommitSet(h) PROVE SpendGood'
  <2>1. PICK d \in Day : d = input[h].day
    BY <1>9, Serving, InputKinds DEF CommitSet, At, Within
  <2>2. /\ EndTx(h) /\ UNCHANGED tasks /\ input[h].avail \in Nat
        /\ total' = [total EXCEPT ![d] = input[h].avail]
        /\ excused' = IF input[h].avail < Spent(d) THEN excused \union {d} ELSE excused
    BY <1>9, <2>1, Serving, InputKinds
       DEF CommitSet, At, Within, Spent, SpentIn, Allocated, Consumed
  <2>3. \A c \in Day : Spent(c)' = Spent(c) /\ Spent(c) \in Nat
    BY <1>1, <2>2
  <2>4. \A g \in Handler \ {h} : Spending(g)'
    <3>1. \A g \in Handler \ {h} : SparedBy(g)
      BY <2>2, <2>3 DEF SparedBy, EndTx, TypeOK
    <3>2. excused \subseteq excused'
      BY <2>2
    <3>. QED BY <3>1, <3>2, SpendingKept DEF SpendGood
  <2>5. Spending(h)'
    BY <2>2, RestingSpends DEF EndTx, TypeOK
  <2>6. ASSUME NEW c \in Day \ excused' PROVE Spent(c) <= total'[c]
    <3>1. CASE c = d
      BY <2>2, <2>3, <2>6, <3>1 DEF TypeOK
    <3>2. CASE c # d
      <4>1. c \notin excused /\ total'[c] = total[c]
        BY <2>2, <2>6, <3>2 DEF TypeOK
      <4>. QED BY <4>1 DEF SpendGood, SpentWithinTotal, Spent, SpentIn, Allocated, Consumed
    <3>. QED BY <3>1, <3>2
  <2>7. SpentWithinTotal'
    BY <2>3, <2>6 DEF SpentWithinTotal, Spent, SpentIn, Allocated, Consumed
  <2>. QED BY <2>4, <2>5, <2>7 DEF SpendGood
<1>10. ASSUME NEW h \in Handler, CommitComplete(h) \/ CommitFinish(h) PROVE SpendGood'
  <2>1. EndTx(h) /\ UNCHANGED total
    BY <1>10 DEF CommitComplete, CommitFinish
  <2>2. Spending(h)'
    BY <2>1, RestingSpends DEF EndTx, TypeOK
  <2>3. \A g \in Handler \ {h} : pc'[g] = pc[g] /\ input'[g] = input[g] /\ read'[g] = read[g]
    BY <2>1 DEF EndTx, TypeOK
  <2>. QED BY <1>10, <2>1, <2>2, <2>3, SettleSpares, SparingStep
<1>11. ASSUME NEW h \in Handler, CommitTimer(h) PROVE SpendGood'
  <2>1. EndTx(h) /\ UNCHANGED <<total, excused>> /\ input[h].task \in Task
    BY <1>11, TimerEases DEF CommitTimer
  <2>2. Spending(h)'
    BY <2>1, RestingSpends DEF EndTx, TypeOK
  <2>3. \A g \in Handler \ {h} : pc'[g] = pc[g] /\ input'[g] = input[g] /\ read'[g] = read[g]
    BY <2>1 DEF EndTx, TypeOK
  <2>4. \A d \in Day : Spent(d)' <= Spent(d)
    BY <1>11, <2>1, EaseSpares
  <2>. QED BY <2>1, <2>2, <2>3, <2>4, SparingStep
<1>12. ASSUME NEW t \in Task, Archive(t) \/ Release(t) PROVE SpendGood'
  <2>1. UNCHANGED <<total, excused, pc, input, read>>
    BY <1>12 DEF Archive, Release
  <2>2. \A d \in Day : Spent(d)' <= Spent(d)
    BY <1>12, EaseSpares
  <2>3. \A g \in Handler : Spending(g)'
    BY <2>1, <2>2, SpendingKept DEF SparedBy, SpendGood
  <2>4. SpentWithinTotal'
    BY <2>1, <2>2, SparedFits DEF SpendGood
  <2>. QED BY <2>3, <2>4 DEF SpendGood
<1>13. CASE UNCHANGED vars
  BY <1>13
     DEF vars, SpendGood, SpentWithinTotal, Spending, Within, Fits, Spent, Allocated, Consumed
<1>. QED
  BY <1>3, <1>4, <1>5, <1>6, <1>7, <1>8, <1>9, <1>10, <1>11, <1>12, <1>13
     DEF Next, Step, Create, SetTotal, CompleteTask, ApplyAction, Abort, RefuseCreate,
         FindSlotTaken, RefuseSet, RefuseStatus, TaskMissing

\* The two sums of reserveAndCreateTask, read in this order, never let a completion in
\* between escape both: what is reserved and what is spent fit the day together.
THEOREM SpendingFits == Spec => []SpentWithinTotal
<1>1. Init => SpendGood
  <2>. SUFFICES ASSUME Init PROVE SpendGood
    OBVIOUS
  <2>1. \A d \in Day : Spent(d) <= total[d]
    <3>. SUFFICES ASSUME NEW d \in Day PROVE Spent(d) <= total[d]
      OBVIOUS
    <3>. DEFINE zero == [t \in Task |-> Cost(tasks[t], d)]
    <3>1. tasks \in [Task -> Row]
      BY AbsentIsRow DEF Init
    <3>2. zero \in [Task -> Nat] /\ Spent(d) = SumFunction(zero)
      BY <3>1, SpentIsSum DEF Spent
    <3>3. \A t \in Task : zero[t] = 0
      BY DEF Init, AbsentRow, Cost, Reserved, Consumption, ActiveStatus
    <3>. HIDE DEF zero
    <3>4. SumFunction(zero) = 0
      BY <3>2, <3>3, RowsAssumption, SumOfZeros
    <3>. QED BY <3>2, <3>4 DEF Init
  <2>2. SpentWithinTotal
    BY <2>1 DEF SpentWithinTotal, Spent, SpentIn, Allocated, Consumed
  <2>. QED BY <2>2 DEF Init, SpendGood, Spending, Within
<1>2. TypeOK /\ TypeOK' /\ LocksExclusive /\ Good /\ SpendGood /\ [Next]_vars => SpendGood'
  BY SpendGoodStep
<1>3. SpendGood => SpentWithinTotal
  BY DEF SpendGood
<1>. QED
  BY <1>1, <1>2, <1>3, Typing, LockExclusion, ReservationsHold, PTL DEF Spec

-----------------------------------------------------------------------------
\* A completed task keeps its timer: a timer action holds the row from the check
\* of the transition table to its UPDATE, so no completion slips in between.
THEOREM TimerFrozen == Spec => CompletedTimerFrozen
<1>. DEFINE Frozen == \A t \in Task :
          tasks[t].status = "COMPLETED" /\ tasks'[t].status = "COMPLETED"
            => tasks'[t].timer = tasks[t].timer
<1>1. ASSUME TypeOK, Good, [Next]_vars PROVE [Frozen]_tasks
  <2>. USE <1>1
  <2>1. ASSUME NEW h \in Handler, CommitCreate(h) PROVE Frozen
    BY <2>1 DEF CommitCreate, TypeOK
  <2>2. ASSUME NEW h \in Handler, CommitComplete(h) PROVE Frozen
    <3>. DEFINE t == input[h].task
                row == [tasks[t] EXCEPT !.status = "COMPLETED",
                                        !.elapsed = input[h].elapsed]
    <3>1. t \in Task /\ tasks[t] \in Row
      BY <2>2, SettleRow DEF TypeOK
    <3>2. tasks' = [tasks EXCEPT ![t] = row]
      BY <2>2, <3>1 DEF CommitComplete, TypeOK
    <3>3. row.timer = tasks[t].timer
      BY <3>1 DEF Row
    <3>4. \A u \in Task : tasks'[u] = IF u = t THEN row ELSE tasks[u]
      BY <3>2 DEF TypeOK
    <3>. HIDE DEF row, t
    <3>. QED BY <3>3, <3>4
  <2>3. ASSUME NEW h \in Handler, CommitFinish(h) PROVE Frozen
    <3>1. tasks[input[h].task].status # "COMPLETED"
      BY <2>3 DEF CommitFinish, Good, ReadsStayGood, ReadsGood, At, Within
    <3>. QED BY <2>3, <3>1 DEF CommitFinish, TypeOK
  <2>4. ASSUME NEW h \in Handler, CommitTimer(h) PROVE Frozen
    <3>1. tasks[input[h].task].status # "COMPLETED"
      BY <2>4 DEF CommitTimer, Good, ReadsStayGood, ReadsGood, At, Within
    <3>. QED BY <2>4, <3>1 DEF CommitTimer, TypeOK
  <2>5. ASSUME NEW t \in Task, Archive(t) PROVE Frozen
    BY <2>5 DEF Archive, TypeOK
  <2>6. ASSUME NEW t \in Task, Release(t) PROVE Frozen
    <3>1. tasks' = [tasks EXCEPT ![t] = [tasks[t] EXCEPT !.prio = FALSE]]
      BY <2>6 DEF Release, TypeOK
    <3>2. tasks[t] \in Row
      BY DEF TypeOK
    <3>3. [tasks[t] EXCEPT !.prio = FALSE].timer = tasks[t].timer
      BY <3>2 DEF Row
    <3>4. \A u \in Task : tasks'[u] =
             IF u = t THEN [tasks[t] EXCEPT !.prio = FALSE] ELSE tasks[u]
      BY <3>1 DEF TypeOK
    <3>. QED BY <3>3, <3>4
  <2>7. CASE UNCHANGED tasks
    BY <2>7
  <2>. HIDE DEF Frozen
  <2>. QED
    BY <2>1, <2>2, <2>3, <2>4, <2>5, <2>6, <2>7
       DEF Next, Step, Create, SetTotal, CompleteTask, ApplyAction, vars, db, Begin, Abort,
           LockDay, FirstSum, AdmitCreate, RefuseCreate, LockSlot, FindSlotFree, FindSlotTaken,
           CheckSet, RefuseSet, CommitSet, LockForComplete, LockForStatus, RefuseStatus,
           TaskMissing
<1>. QED
  BY <1>1, Typing, ReservationsHold, PTL DEF Spec, CompletedTimerFrozen

-----------------------------------------------------------------------------
\* DayLedger speaks of the same rows and sums.
LEMMA LedgerSame ==
    /\ Ledger!Row = Row
    /\ Ledger!AbsentRow = AbsentRow
    /\ \A rows, d : /\ Ledger!AllocatedIn(rows, d) = AllocatedIn(rows, d)
                    /\ Ledger!SlotTakenIn(rows, d) <=> SlotTakenIn(rows, d)
<1>1. Ledger!Row = Row
  BY DEF Ledger!Row, Row, Ledger!Status, Status, Ledger!Timer, Timer
<1>2. Ledger!AbsentRow = AbsentRow
  BY DEF Ledger!AbsentRow, AbsentRow
<1>3. \A rows, d : Ledger!AllocatedIn(rows, d) = AllocatedIn(rows, d)
  <2>. SUFFICES ASSUME NEW rows, NEW d
                PROVE  Ledger!AllocatedIn(rows, d) = AllocatedIn(rows, d)
    OBVIOUS
  <2>1. \A row : Ledger!Reserved(row, d) = Reserved(row, d)
    BY DEF Ledger!Reserved, Reserved, Ledger!ActiveStatus, ActiveStatus
  <2>2. [t \in Task |-> Ledger!Reserved(rows[t], d)]
          = [t \in Task |-> Reserved(rows[t], d)]
    BY <2>1
  <2>3. \A w : Ledger!SumFunction(w) = SumFunction(w)
    BY
       DEF Ledger!SumFunction, SumFunction, Ledger!SumFunctionOnSet, SumFunctionOnSet,
           Ledger!FoldFunctionOnSet, FoldFunctionOnSet, Ledger!MapThenFoldSet, MapThenFoldSet
  <2>. QED BY <2>2, <2>3, Zenon DEF Ledger!AllocatedIn, AllocatedIn
<1>4. \A rows, d : Ledger!SlotTakenIn(rows, d) <=> SlotTakenIn(rows, d)
  BY DEF Ledger!SlotTakenIn, SlotTakenIn, Ledger!ActivePriority, ActivePriority
<1>. QED
  BY <1>1, <1>2, <1>3, <1>4

\* Seen from outside, every request is one atomic step of DayLedger or none: the
\* interleaved transactions implement the abstract specification.
THEOREM Refinement == Spec => ImplementsLedger
<1>1. Init => Ledger!LedgerInit
  BY LedgerSame DEF Init, Ledger!LedgerInit
<1>2. ASSUME TypeOK, TypeOK', Good, [Next]_vars
      PROVE  [Ledger!LedgerNext]_(Ledger!ledger)
  <2>. USE <1>2
  <2>0. tasks \in [Task -> Row] /\ tasks' \in [Task -> Row]
        /\ total \in [Day -> Nat] /\ total' \in [Day -> Nat]
    BY DEF TypeOK
  <2>1. ASSUME NEW t \in Task, NEW row \in Row, tasks' = [tasks EXCEPT ![t] = row],
               UNCHANGED total
        PROVE  Ledger!OnlyTask(t) /\ tasks'[t] = row
    BY <2>0, <2>1, LedgerSame DEF Ledger!OnlyTask
  <2>2. ASSUME NEW h \in Handler, CommitCreate(h) PROVE Ledger!LedgerNext
    <3>1. PICK d \in Day : d = input[h].day
      BY <2>2, CreateGrows
    <3>2. input[h].dur \in Nat /\ input[h].prio \in BOOLEAN
      BY <2>2, Serving, InputKinds DEF CommitCreate, At, Within
    <3>. DEFINE row == [status |-> "PENDING", day |-> d, est |-> input[h].dur,
                        elapsed |-> 0, timer |-> "IDLE", prio |-> input[h].prio]
    <3>3. PICK t \in Task :
             tasks[t].status = "ABSENT" /\ tasks' = [tasks EXCEPT ![t] = row]
      BY <2>2, <3>1 DEF CommitCreate
    <3>4. row \in Row
      BY <3>2 DEF Row, Status, Timer
    <3>5. Ledger!OnlyTask(t) /\ tasks'[t] = row
      <4>. HIDE DEF row
      <4>. QED BY <2>1, <2>2, <3>3, <3>4 DEF CommitCreate
    <3>6. AllocatedIn(tasks, d) + input[h].dur <= total[d]
      <4>1. /\ read[h].total = total[d] /\ AllocatedIn(tasks, d) <= read[h].allocated
            /\ input[h].dur + read[h].allocated <= read[h].total
        BY <2>2, <3>1 DEF CommitCreate, Good, ReadsStayGood, ReadsGood, At, Within, Allocated
      <4>2. AllocatedIn(tasks, d) \in Nat /\ total[d] \in Nat
        BY <2>0, SumsAreNat
      <4>3. read[h].allocated \in Nat
        BY DEF TypeOK, Reads
      <4>. QED BY <3>2, <4>1, <4>2, <4>3
    <3>7. input[h].prio => ~SlotTakenIn(tasks, d)
      BY <2>2, <3>1 DEF CommitCreate, SlotTaken
    <3>8. Ledger!Reserve(t)
      BY <3>3, <3>5, <3>6, <3>7, LedgerSame DEF Ledger!Reserve
    <3>. QED BY <3>8 DEF Ledger!LedgerNext
  <2>3. ASSUME NEW h \in Handler, CommitSet(h) PROVE Ledger!LedgerNext
    <3>1. PICK d \in Day : d = input[h].day
      BY <2>3, Serving, InputKinds DEF CommitSet, At, Within
    <3>2. AllocatedIn(tasks, d) <= input[h].avail
      BY <2>3, <3>1 DEF CommitSet, Good, ReadsStayGood, ReadsGood, At, Within, Allocated
    <3>3. total' = [total EXCEPT ![d] = input[h].avail] /\ tasks' = tasks
      BY <2>3, <3>1 DEF CommitSet
    <3>4. Ledger!SetDay(d)
      BY <2>0, <3>2, <3>3, LedgerSame DEF Ledger!SetDay
    <3>. QED BY <3>4 DEF Ledger!LedgerNext
  <2>4. ASSUME NEW h \in Handler, CommitComplete(h) \/ CommitFinish(h)
        PROVE  Ledger!LedgerNext
    <3>. DEFINE t == input[h].task
    <3>1. t \in Task /\ tasks[t] \in Row /\ tasks[t].status # "ABSENT" /\ total' = total
      BY <2>4, SettleRow
         DEF CommitComplete, CommitFinish, Good, ReadsStayGood, ReadsGood, At, Within, TypeOK
    <3>2. PICK e \in Nat, tm \in {tasks[t].timer, "COMPLETED"} :
             tasks' = [tasks EXCEPT ![t] =
                         [tasks[t] EXCEPT !.status = "COMPLETED", !.elapsed = e,
                                          !.timer = tm]]
      BY <2>4, <3>1, SettleRow DEF TypeOK
    <3>. DEFINE row == [tasks[t] EXCEPT !.status = "COMPLETED", !.elapsed = e,
                                        !.timer = tm]
    <3>3. row \in Row /\ row.elapsed = e
      BY <3>1 DEF Row, Status, Timer
    <3>4. Ledger!OnlyTask(t) /\ tasks'[t] = row
      <4>. HIDE DEF row, t
      <4>. QED BY <2>1, <3>1, <3>2, <3>3 DEF row
    <3>5. Ledger!Settle(t)
      BY <3>1, <3>3, <3>4 DEF Ledger!Settle
    <3>. QED BY <3>1, <3>5 DEF Ledger!LedgerNext
  <2>5. ASSUME NEW h \in Handler, CommitTimer(h) PROVE Ledger!LedgerNext
    <3>. DEFINE t == input[h].task
                row == [tasks[t] EXCEPT !.timer = read[h].timer]
    <3>1. /\ t \in Task /\ tasks[t] \in Row /\ total' = total
          /\ tasks[t].status \notin {"ABSENT", "COMPLETED"}
      BY <2>5, TimerEases DEF CommitTimer, Good, ReadsStayGood, ReadsGood, At, Within, TypeOK
    <3>2. tasks' = [tasks EXCEPT ![t] = row]
      BY <2>5, TimerEases DEF TypeOK
    <3>3. row \in Row /\ row.timer = read[h].timer
      BY <3>1 DEF Row, TypeOK, Reads
    <3>4. Ledger!OnlyTask(t) /\ tasks'[t] = row
      <4>. HIDE DEF row, t
      <4>. QED BY <2>1, <3>1, <3>2, <3>3
    <3>5. Ledger!MoveTimer(t)
      BY <3>1, <3>3, <3>4 DEF Ledger!MoveTimer
    <3>. QED BY <3>1, <3>5 DEF Ledger!LedgerNext
  <2>6. ASSUME NEW t \in Task, Archive(t) PROVE Ledger!LedgerNext
    <3>. DEFINE row == [tasks[t] EXCEPT !.status = "ARCHIVED"]
    <3>1. tasks[t].status # "ABSENT" /\ tasks[t] \in Row /\ total' = total
      BY <2>0, <2>6 DEF Archive
    <3>2. tasks' = [tasks EXCEPT ![t] = row] /\ row \in Row
      BY <2>0, <2>6 DEF Archive, Row, Status
    <3>3. Ledger!OnlyTask(t) /\ tasks'[t] = row
      <4>. HIDE DEF row
      <4>. QED BY <2>1, <3>1, <3>2
    <3>. QED BY <3>1, <3>3 DEF Ledger!LedgerNext, Ledger!Withdraw
  <2>7. ASSUME NEW t \in Task, Release(t) PROVE Ledger!LedgerNext
    <3>. DEFINE row == [tasks[t] EXCEPT !.prio = FALSE]
    <3>1. tasks[t] \in Row /\ total' = total
      BY <2>0, <2>7 DEF Release
    <3>2. tasks' = [tasks EXCEPT ![t] = row] /\ row \in Row
      BY <2>0, <2>7 DEF Release, Row
    <3>3. Ledger!OnlyTask(t) /\ tasks'[t] = row
      <4>. HIDE DEF row
      <4>. QED BY <2>1, <3>1, <3>2
    <3>. QED BY <3>1, <3>3 DEF Ledger!LedgerNext, Ledger!Demote
  <2>8. CASE UNCHANGED <<total, tasks>>
    BY <2>8 DEF Ledger!ledger
  <2>. QED
    BY <2>2, <2>3, <2>4, <2>5, <2>6, <2>7, <2>8
       DEF Next, Step, Create, SetTotal, CompleteTask, ApplyAction, vars, db, Begin, Abort,
           LockDay, FirstSum, AdmitCreate, RefuseCreate, LockSlot, FindSlotFree, FindSlotTaken,
           CheckSet, RefuseSet, LockForComplete, LockForStatus, RefuseStatus, TaskMissing
<1>. QED
  BY <1>1, <1>2, Typing, ReservationsHold, PTL DEF Spec, ImplementsLedger, Ledger!LedgerSpec

===============================================================================
