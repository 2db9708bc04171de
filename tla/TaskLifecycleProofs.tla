-------------------------- MODULE TaskLifecycleProofs --------------------------
(***************************************************************************)
(* For any requests, tasks and pool: every committed action has its event  *)
(* in exactly one place, and a row whose requests never overlapped agrees  *)
(* with the actions committed on it.                                       *)
(***************************************************************************)
EXTENDS TaskLifecycle, FiniteSetTheorems, SequenceTheorems, TLAPS

Entity == [status : {"PENDING", "SNOOZED", "COMPLETED", "ARCHIVED"}, delay : Nat]
Work == [task : Task, action : Action, entity : Entity]
Done == [task : Task, action : Action]

RowTypes ==
    /\ tasks \in [Task -> Entity]
    /\ work \in [Request -> Work \union {NoWork}]
    /\ actions \in Seq(Done)
    /\ raced \subseteq Task

\* The elements of a sequence, which Waiting takes of the queue.
In(s) == {s[i] : i \in DOMAIN s}
Distinct(s) == \A i, j \in 1 .. Len(s) : s[i] = s[j] => i = j

\* An event is in one place, and once in the queue.
InOnePlace ==
    /\ queue \in Seq(Nat) /\ Distinct(queue)
    /\ Waiting \intersect (running \union logged \union lost) = {}
    /\ running \intersect (logged \union lost) = {}
    /\ logged \intersect lost = {}

\* What a request has in memory follows from the row as it is, unless its task was raced.
WorkFollowsRow ==
    \A r \in Request :
        work[r] # NoWork /\ work[r].task \notin raced =>
            /\ Permits(tasks[work[r].task], work[r].action)
            /\ work[r].entity = Apply(tasks[work[r].task], work[r].action)

RowInv == RowTypes /\ WorkFollowsRow /\ RowAgreesWithActions
PoolInv == InOnePlace /\ LoggedOncePerCommit

-----------------------------------------------------------------------------
(* The queue. *)

\* The last element is new, or it is not.
LEMMA AppendIn ==
  ASSUME NEW S, NEW s \in Seq(S), NEW e \in S
  PROVE  /\ Append(s, e) \in Seq(S) /\ Len(Append(s, e)) = Len(s) + 1
         /\ In(Append(s, e)) = In(s) \union {e}
         /\ Distinct(s) /\ e \notin In(s) => Distinct(Append(s, e))
  <1>1. /\ Append(s, e) \in Seq(S) /\ Len(Append(s, e)) = Len(s) + 1
        /\ \A i \in 1 .. Len(s) : Append(s, e)[i] = s[i]
        /\ Append(s, e)[Len(s) + 1] = e
    BY AppendProperties
  <1>2. /\ Len(s) \in Nat /\ DOMAIN s = 1 .. Len(s)
        /\ DOMAIN Append(s, e) = 1 .. (Len(s) + 1)
    BY <1>1, LenProperties
  <1>3. 1 .. (Len(s) + 1) = (1 .. Len(s)) \union {Len(s) + 1}
    BY <1>2
  <1>4. In(Append(s, e)) = In(s) \union {e}
    BY <1>1, <1>2, <1>3 DEF In
  <1>5. Distinct(s) /\ e \notin In(s) => Distinct(Append(s, e))
    BY <1>1, <1>2, <1>3 DEF Distinct, In
  <1> QED BY <1>1, <1>4, <1>5

\* A queue without repetitions loses its head, and nothing else, to its tail.
LEMMA TailIn ==
  ASSUME NEW S, NEW s \in Seq(S), s # <<>>, Distinct(s)
  PROVE  /\ Tail(s) \in Seq(S) /\ Len(Tail(s)) = Len(s) - 1 /\ Distinct(Tail(s))
         /\ Head(s) \in In(s) /\ In(Tail(s)) = In(s) \ {Head(s)}
  <1>1. /\ Head(s) \in S /\ Tail(s) \in Seq(S) /\ Len(Tail(s)) = Len(s) - 1
        /\ \A i \in 1 .. Len(Tail(s)) : Tail(s)[i] = s[i + 1]
    BY HeadTailProperties
  <1>2. /\ Len(s) \in Nat \ {0} /\ DOMAIN s = 1 .. Len(s)
        /\ DOMAIN Tail(s) = 1 .. (Len(s) - 1)
    BY <1>1, LenProperties, EmptySeq
  <1>3. Head(s) = s[1]
    OBVIOUS
  <1>4. Distinct(Tail(s))
    BY <1>1, <1>2 DEF Distinct
  <1>5. Head(s) \in In(s)
    BY <1>2, <1>3 DEF In
  <1>6. ASSUME NEW x
        PROVE  x \in In(Tail(s)) <=> x \in In(s) /\ x # Head(s)
    <2>1. ASSUME NEW i \in DOMAIN Tail(s), x = Tail(s)[i]
          PROVE  x \in In(s) /\ x # Head(s)
      <3>1. i + 1 \in 1 .. Len(s) /\ x = s[i + 1] /\ i + 1 # 1
        BY <1>1, <1>2, <2>1
      <3> QED BY <1>2, <1>3, <3>1 DEF In, Distinct
    <2>2. ASSUME NEW i \in DOMAIN s, x = s[i], x # Head(s)
          PROVE  x \in In(Tail(s))
      <3>1. i - 1 \in DOMAIN Tail(s) /\ Tail(s)[i - 1] = s[i]
        BY <1>1, <1>2, <1>3, <2>2
      <3> QED BY <2>2, <3>1 DEF In
    <2> QED BY <2>1, <2>2 DEF In
  <1> QED BY <1>1, <1>4, <1>5, <1>6

-----------------------------------------------------------------------------
(* The pool. *)

\* What the counts of LoggedOncePerCommit are of.
LEMMA PoolFinite ==
  ASSUME RowTypes, PoolInv
  PROVE  /\ Len(actions) \in Nat /\ Len(queue) \in Nat
         /\ IsFiniteSet(running) /\ IsFiniteSet(logged) /\ IsFiniteSet(lost)
         /\ Cardinality(running) \in Nat /\ Cardinality(logged) \in Nat /\ Cardinality(lost) \in Nat
  <1>1. Len(actions) \in Nat /\ Len(queue) \in Nat
    BY LenProperties DEF RowTypes, PoolInv, InOnePlace
  <1>2. IsFiniteSet(Event)
    BY <1>1, FS_Interval DEF Event
  <1>3. running \subseteq Event /\ logged \subseteq Event /\ lost \subseteq Event
    BY DEF PoolInv, LoggedOncePerCommit
  <1>4. IsFiniteSet(running) /\ IsFiniteSet(logged) /\ IsFiniteSet(lost)
    BY <1>2, <1>3, FS_Subset
  <1> QED BY <1>1, <1>4, FS_CardinalityType

\* The event of a commit is new, and the pool puts it in one place.
LEMMA SubmitKeeps ==
  ASSUME RowTypes, PoolInv, NEW d \in Done, actions' = Append(actions, d), Submit(Len(actions'))
  PROVE  PoolInv'
  <1> DEFINE e == Len(actions) + 1
  <1>1. Len(actions') = e /\ e \in Nat /\ Event' = Event \union {e} /\ e \notin Event
    <2>1. Len(actions) \in Nat /\ Len(actions') = e
      BY AppendProperties, LenProperties DEF RowTypes
    <2> QED BY <2>1 DEF Event
  <1> HIDE DEF e
  <1>2. e \notin Waiting \union running \union logged \union lost
    BY <1>1 DEF PoolInv, LoggedOncePerCommit
  <1>3. Len(actions') = Len(actions) + 1
    BY <1>1 DEF e
  <1>4. CASE queue' = Append(queue, e) /\ UNCHANGED <<running, logged, lost>>
    <2>1. queue \in Seq(Nat) /\ Waiting = In(queue) /\ Waiting' = In(queue')
      BY DEF PoolInv, InOnePlace, Waiting, In
    <2>2. /\ queue' \in Seq(Nat) /\ Len(queue') = Len(queue) + 1
          /\ Waiting' = Waiting \union {e} /\ Distinct(queue')
      BY <1>1, <1>2, <1>4, <2>1, AppendIn DEF PoolInv, InOnePlace
    <2>3. InOnePlace'
      BY <1>2, <1>4, <2>2 DEF PoolInv, InOnePlace, Distinct
    <2>4. LoggedOncePerCommit'
      <3>1. (Waiting \union running \union logged \union lost)' = Event'
        BY <1>1, <1>4, <2>2 DEF PoolInv, LoggedOncePerCommit
      <3>2. (Len(queue) + Cardinality(running) + Cardinality(logged)
               + Cardinality(lost))' = Len(actions')
        <4>1. Len(queue') = Len(queue) + 1
          BY <2>2
        <4> QED BY <1>3, <1>4, <4>1, PoolFinite DEF PoolInv, LoggedOncePerCommit
      <3> QED BY <3>1, <3>2 DEF LoggedOncePerCommit
    <2> QED BY <2>3, <2>4 DEF PoolInv
  <1>5. CASE running' = running \union {e} /\ UNCHANGED <<queue, logged, lost>>
    <2>1. Cardinality(running') = Cardinality(running) + 1
      BY <1>2, <1>5, PoolFinite, FS_AddElement
    <2>2. InOnePlace'
      BY <1>2, <1>5 DEF PoolInv, InOnePlace, Distinct, Waiting
    <2>3. LoggedOncePerCommit'
      <3>1. (Waiting \union running \union logged \union lost)' = Event'
        BY <1>1, <1>5, <2>1 DEF PoolInv, LoggedOncePerCommit, Waiting
      <3>2. (Len(queue) + Cardinality(running) + Cardinality(logged)
               + Cardinality(lost))' = Len(actions')
        BY <1>3, <1>5, <2>1, PoolFinite DEF PoolInv, LoggedOncePerCommit
      <3> QED BY <3>1, <3>2 DEF LoggedOncePerCommit
    <2> QED BY <2>2, <2>3 DEF PoolInv
  <1>6. CASE lost' = lost \union {e} /\ UNCHANGED <<queue, running, logged>>
    <2>1. Cardinality(lost') = Cardinality(lost) + 1
      BY <1>2, <1>6, PoolFinite, FS_AddElement
    <2>2. InOnePlace'
      BY <1>2, <1>6 DEF PoolInv, InOnePlace, Distinct, Waiting
    <2>3. LoggedOncePerCommit'
      <3>1. (Waiting \union running \union logged \union lost)' = Event'
        BY <1>1, <1>6, <2>1 DEF PoolInv, LoggedOncePerCommit, Waiting
      <3>2. (Len(queue) + Cardinality(running) + Cardinality(logged)
               + Cardinality(lost))' = Len(actions')
        BY <1>3, <1>6, <2>1, PoolFinite DEF PoolInv, LoggedOncePerCommit
      <3> QED BY <3>1, <3>2 DEF LoggedOncePerCommit
    <2> QED BY <2>2, <2>3 DEF PoolInv
  <1> QED BY <1>1, <1>4, <1>5, <1>6 DEF Submit

\* A thread takes the first event of the queue.
LEMMA TakeKeeps ==
  ASSUME RowTypes, PoolInv, Take
  PROVE  PoolInv'
  <1> DEFINE e == Head(queue)
  <1>1. /\ queue # <<>> /\ queue \in Seq(Nat) /\ Distinct(queue)
        /\ running' = running \union {e} /\ queue' = Tail(queue)
        /\ UNCHANGED <<actions, logged, lost>>
    BY DEF Take, PoolInv, InOnePlace, rows
  <1>2. Waiting = In(queue) /\ Waiting' = In(queue')
    BY DEF Waiting, In
  <1>3. /\ queue' \in Seq(Nat) /\ Len(queue') = Len(queue) - 1 /\ Distinct(queue')
        /\ e \in Waiting /\ Waiting' = Waiting \ {e}
    BY <1>1, <1>2, TailIn
  <1> HIDE DEF e
  <1>4. Cardinality(running') = Cardinality(running) + 1
    BY <1>1, <1>3, PoolFinite, FS_AddElement DEF PoolInv, InOnePlace
  <1>5. InOnePlace'
    BY <1>1, <1>3 DEF PoolInv, InOnePlace, Distinct
  <1>6. LoggedOncePerCommit'
    <2>1. (Waiting \union running \union logged \union lost)' = Event'
      BY <1>1, <1>3 DEF PoolInv, LoggedOncePerCommit, Event
    <2>2. (Len(queue) + Cardinality(running) + Cardinality(logged)
             + Cardinality(lost))' = Len(actions')
      BY <1>1, <1>3, <1>4, PoolFinite DEF PoolInv, LoggedOncePerCommit
    <2> QED BY <2>1, <2>2 DEF LoggedOncePerCommit
  <1> QED BY <1>5, <1>6 DEF PoolInv

\* A thread stores its event, or fails to.
LEMMA FinishKeeps ==
  ASSUME RowTypes, PoolInv, NEW e, Finish(e)
  PROVE  PoolInv'
  <1>1. /\ e \in running /\ running' = running \ {e}
        /\ UNCHANGED <<actions, queue>>
    BY DEF Finish, Store, StoreFails, rows
  <1>2. Cardinality(running') = Cardinality(running) - 1
    BY <1>1, PoolFinite, FS_RemoveElement
  <1>3. CASE logged' = logged \union {e} /\ UNCHANGED lost
    <2>1. Cardinality(logged') = Cardinality(logged) + 1
      BY <1>1, <1>3, PoolFinite, FS_AddElement DEF PoolInv, InOnePlace
    <2>2. InOnePlace'
      BY <1>1, <1>3 DEF PoolInv, InOnePlace, Distinct, Waiting
    <2>3. LoggedOncePerCommit'
      <3>1. (Waiting \union running \union logged \union lost)' = Event'
        BY <1>1, <1>3 DEF PoolInv, LoggedOncePerCommit, Waiting, Event
      <3>2. (Len(queue) + Cardinality(running) + Cardinality(logged)
               + Cardinality(lost))' = Len(actions')
        BY <1>1, <1>2, <1>3, <2>1, PoolFinite DEF PoolInv, LoggedOncePerCommit
      <3> QED BY <3>1, <3>2 DEF LoggedOncePerCommit
    <2> QED BY <2>2, <2>3 DEF PoolInv
  <1>4. CASE lost' = lost \union {e} /\ UNCHANGED logged
    <2>1. Cardinality(lost') = Cardinality(lost) + 1
      BY <1>1, <1>4, PoolFinite, FS_AddElement DEF PoolInv, InOnePlace
    <2>2. InOnePlace'
      BY <1>1, <1>4 DEF PoolInv, InOnePlace, Distinct, Waiting
    <2>3. LoggedOncePerCommit'
      <3>1. (Waiting \union running \union logged \union lost)' = Event'
        BY <1>1, <1>4 DEF PoolInv, LoggedOncePerCommit, Waiting, Event
      <3>2. (Len(queue) + Cardinality(running) + Cardinality(logged)
               + Cardinality(lost))' = Len(actions')
        BY <1>1, <1>2, <1>4, <2>1, PoolFinite DEF PoolInv, LoggedOncePerCommit
      <3> QED BY <3>1, <3>2 DEF LoggedOncePerCommit
    <2> QED BY <2>2, <2>3 DEF PoolInv
  <1> QED BY <1>3, <1>4 DEF Finish, Store, StoreFails

-----------------------------------------------------------------------------
(* The rows. *)

\* An append adds one to the count of its action on its task, and to no other.
LEMMA TimesGrows ==
  ASSUME RowTypes, NEW d \in Done, actions' = Append(actions, d), NEW t, NEW a
  PROVE  /\ Times(t, a) \in Nat
         /\ Times(t, a)' = Times(t, a) + (IF d.task = t /\ d.action = a THEN 1 ELSE 0)
  <1> DEFINE Hits == {i \in Event : actions[i].task = t /\ actions[i].action = a}
             n == Len(actions) + 1
  <1>1. /\ Len(actions) \in Nat /\ Len(actions') = n
        /\ \A i \in Event : actions'[i] = actions[i]
        /\ actions'[n] = d
    BY AppendProperties, LenProperties DEF RowTypes, Event
  <1>2. Event' = Event \union {n} /\ n \notin Event
    BY <1>1 DEF Event
  <1>3. IsFiniteSet(Hits)
    <2>1. IsFiniteSet(Event)
      BY <1>1, FS_Interval DEF Event
    <2> QED BY <2>1, FS_Subset
  <1>4. Hits' = IF d.task = t /\ d.action = a THEN Hits \union {n} ELSE Hits
    <2> HIDE DEF n
    <2> QED BY <1>1, <1>2
  <1>5. n \notin Hits
    BY <1>2
  <1> HIDE DEF Hits, n
  <1>6. Cardinality(Hits) \in Nat
        /\ Cardinality(Hits') = Cardinality(Hits) + (IF d.task = t /\ d.action = a THEN 1 ELSE 0)
    BY <1>3, <1>4, <1>5, FS_CardinalityType, FS_AddElement
  <1> QED BY <1>6 DEF Times, Hits

\* What an action makes of an entity that permits it.
LEMMA ApplyTyped ==
  ASSUME NEW entity \in Entity, NEW a \in Action
  PROVE  Apply(entity, a) \in Entity
  <1>1. a \in ActionType
    BY PoolAssumption
  <1> QED BY <1>1 DEF Apply, Entity, ActionType

\* Without a commit the actions of a task stay as many.
LEMMA TimesStay ==
  ASSUME UNCHANGED actions
  PROVE  \A t, a : Times(t, a)' = Times(t, a)
  BY DEF Times, Event

\* Nothing is committed.
LEMMA RowsStay ==
  ASSUME RowInv, UNCHANGED <<tasks, actions, raced>>,
         \A r \in Request : work'[r] = work[r] \/ work'[r] = NoWork,
         work' \in [Request -> Work \union {NoWork}]
  PROVE  RowInv'
  <1>1. RowTypes'
    BY DEF RowInv, RowTypes
  <1>2. WorkFollowsRow'
    BY DEF RowInv, WorkFollowsRow
  <1>3. RowAgreesWithActions'
    BY TimesStay DEF RowInv, RowAgreesWithActions
  <1> QED BY <1>1, <1>2, <1>3 DEF RowInv

\* Loading a row follows it.
LEMMA LoadKeeps ==
  ASSUME RowInv, NEW r \in Request, NEW t \in Task, NEW a \in Action, Load(r, t, a)
  PROVE  RowInv'
  <1> DEFINE w == [task |-> t, action |-> a, entity |-> Apply(tasks[t], a)]
  <1>1. /\ UNCHANGED <<tasks, actions, raced>> /\ Permits(tasks[t], a)
        /\ work' = [work EXCEPT ![r] = w]
    BY DEF Load
  <1>2. w \in Work
    BY ApplyTyped DEF RowInv, RowTypes, Work
  <1>3. w.task = t /\ w.action = a /\ w.entity = Apply(tasks[t], a)
    OBVIOUS
  <1> HIDE DEF w
  <1>4. RowTypes'
    BY <1>1, <1>2 DEF RowInv, RowTypes
  <1>5. WorkFollowsRow'
    BY <1>1, <1>3 DEF RowInv, RowTypes, WorkFollowsRow
  <1>6. RowAgreesWithActions'
    BY <1>1, TimesStay DEF RowInv, RowAgreesWithActions
  <1> QED BY <1>4, <1>5, <1>6 DEF RowInv

\* A commit writes what the request had in memory: what the row says, for a task
\* that nobody else had loaded.
LEMMA CommitKeeps ==
  ASSUME RowInv, NEW r \in Request, Commit(r)
  PROVE  RowInv' /\ \E d \in Done : actions' = Append(actions, d)
  <1> DEFINE u == work[r].task
             a == work[r].action
             d == [task |-> u, action |-> a]
  <1>1. /\ work[r] \in Work /\ u \in Task /\ a \in Action /\ work[r].entity \in Entity
        /\ d \in Done /\ d.task = u /\ d.action = a
    BY DEF Commit, RowInv, RowTypes, Work, Done
  <1>2. /\ actions' = Append(actions, d)
        /\ tasks' = IF a = "ARCHIVE_REJECTED" THEN tasks ELSE [tasks EXCEPT ![u] = work[r].entity]
        /\ raced' = IF Overlapped(r) THEN raced \union {u} ELSE raced
        /\ work' = [work EXCEPT ![r] = NoWork]
    BY DEF Commit
  <1> HIDE DEF u, a, d
  <1>3. RowTypes'
    <2>1. actions' \in Seq(Done)
      BY <1>1, <1>2, AppendProperties DEF RowInv, RowTypes
    <2> QED BY <1>1, <1>2, <2>1 DEF RowInv, RowTypes
  <1>4. u \notin raced' =>
            /\ u \notin raced /\ Permits(tasks[u], a) /\ work[r].entity = Apply(tasks[u], a)
            /\ \A q \in Request \ {r} : work[q] = NoWork \/ work[q].task # u
    BY <1>2 DEF Overlapped, RowInv, WorkFollowsRow, Commit, u, a
  <1>5. WorkFollowsRow'
    <2> SUFFICES ASSUME NEW q \in Request, work'[q] # NoWork, work'[q].task \notin raced'
                 PROVE  /\ Permits(tasks'[work'[q].task], work'[q].action)
                        /\ work'[q].entity = Apply(tasks'[work'[q].task], work'[q].action)
      BY DEF WorkFollowsRow, Permits, Apply
    <2>1. q # r /\ work'[q] = work[q] /\ work[q] \in Work
      BY <1>2 DEF RowInv, RowTypes
    <2>2. work[q].task # u /\ work[q].task \notin raced
      BY <1>2, <1>4, <2>1
    <2>3. work[q].task \in Task /\ tasks'[work[q].task] = tasks[work[q].task]
      BY <1>2, <2>1, <2>2 DEF RowInv, RowTypes, Work
    <2> QED BY <2>1, <2>2, <2>3 DEF RowInv, WorkFollowsRow
  <1>6. \A t \in Task, b \in ActionType :
            /\ Times(t, b) \in Nat
            /\ Times(t, b)' = Times(t, b) + (IF u = t /\ a = b THEN 1 ELSE 0)
    BY <1>1, <1>2, TimesGrows DEF RowInv
  <1>7. ASSUME NEW t \in Task \ raced'
        PROVE  /\ tasks'[t].delay = Times(t, "SNOOZED")'
               /\ Times(t, "COMPLETED")' + Times(t, "ARCHIVED")'
                    = IF tasks'[t].status \in ActiveStatus THEN 0 ELSE 1
               /\ tasks'[t].status = "COMPLETED" <=> Times(t, "COMPLETED")' = 1
    <2>1. /\ t \notin raced /\ tasks[t] \in Entity
          /\ tasks[t].delay = Times(t, "SNOOZED")
          /\ Times(t, "COMPLETED") + Times(t, "ARCHIVED")
               = IF tasks[t].status \in ActiveStatus THEN 0 ELSE 1
          /\ tasks[t].status = "COMPLETED" <=> Times(t, "COMPLETED") = 1
      BY <1>2 DEF RowInv, RowTypes, RowAgreesWithActions
    <2> DEFINE s == Times(t, "SNOOZED")
               c == Times(t, "COMPLETED")
               v == Times(t, "ARCHIVED")
    <2>2. /\ s \in Nat /\ c \in Nat /\ v \in Nat
          /\ s' = s + (IF u = t /\ a = "SNOOZED" THEN 1 ELSE 0)
          /\ c' = c + (IF u = t /\ a = "COMPLETED" THEN 1 ELSE 0)
          /\ v' = v + (IF u = t /\ a = "ARCHIVED" THEN 1 ELSE 0)
      BY <1>6 DEF ActionType
    <2>3. /\ tasks[t].delay = s
          /\ c + v = (IF tasks[t].status \in ActiveStatus THEN 0 ELSE 1)
          /\ tasks[t].status = "COMPLETED" <=> c = 1
      BY <2>1
    <2> HIDE DEF s, c, v
    <2>4. CASE t # u
      <3>1. tasks'[t] = tasks[t]
        BY <1>2, <2>4 DEF RowInv, RowTypes
      <3>2. s' = s /\ c' = c /\ v' = v
        BY <2>2, <2>4
      <3> QED BY <2>3, <3>1, <3>2 DEF s, c, v
    <2>5. CASE t = u
      <3>1. Permits(tasks[t], a)
        BY <1>4, <2>5
      <3>2. CASE a = "ARCHIVE_REJECTED"
        <4>1. tasks'[t] = tasks[t] /\ s' = s /\ c' = c /\ v' = v
          BY <1>2, <2>2, <3>2
        <4> QED BY <2>3, <4>1 DEF s, c, v
      <3>3. CASE a # "ARCHIVE_REJECTED"
        <4>1. tasks'[t] = Apply(tasks[t], a) /\ a \in {"COMPLETED", "SNOOZED", "ARCHIVED"}
          BY <1>1, <1>2, <1>4, <2>5, <3>3, PoolAssumption DEF RowInv, RowTypes, ActionType
        <4>2. tasks[t].status \in ActiveStatus
          BY <3>1, <3>3 DEF Permits
        <4>3. c = 0 /\ v = 0
          BY <2>2, <2>3, <4>2
        <4>4. CASE a = "SNOOZED"
          <5>1. tasks'[t].delay = tasks[t].delay + 1 /\ tasks'[t].status = "SNOOZED"
            BY <4>1, <4>4 DEF Apply
          <5>2. s' = s + 1 /\ c' = 0 /\ v' = 0
            BY <2>2, <2>5, <4>3, <4>4
          <5> QED BY <2>3, <5>1, <5>2 DEF ActiveStatus, s, c, v
        <4>5. CASE a \in {"COMPLETED", "ARCHIVED"}
          <5>1. tasks'[t].delay = tasks[t].delay /\ tasks'[t].status = a
            BY <2>1, <4>1, <4>5 DEF Apply, Entity
          <5>2. s' = s /\ c' + v' = 1 /\ (a = "COMPLETED" <=> c' = 1)
            BY <2>2, <2>5, <4>3, <4>5
          <5> QED BY <2>3, <4>5, <5>1, <5>2 DEF ActiveStatus, s, c, v
        <4> QED BY <4>1, <4>4, <4>5
      <3> QED BY <3>2, <3>3
    <2> QED BY <2>4, <2>5
  <1>8. RowAgreesWithActions'
    BY <1>7 DEF RowAgreesWithActions
  <1> QED BY <1>1, <1>2, <1>3, <1>5, <1>8 DEF RowInv

-----------------------------------------------------------------------------
Inv == RowInv /\ PoolInv

\* Rows without actions, and an empty pool.
LEMMA InvInit == Init => Inv
  <1> SUFFICES ASSUME Init PROVE Inv
    OBVIOUS
  <1>1. Event = {} /\ Waiting = {} /\ Len(actions) = 0 /\ Len(queue) = 0
    BY DEF Init, Event, Waiting
  <1>2. RowTypes
    BY DEF Init, RowTypes, Entity
  <1>3. WorkFollowsRow
    BY DEF Init, WorkFollowsRow
  <1>4. \A t, a : Times(t, a) = 0
    BY <1>1, FS_EmptySet DEF Times
  <1>5. RowAgreesWithActions
    BY <1>4 DEF Init, RowAgreesWithActions, ActiveStatus
  <1>6. InOnePlace
    BY <1>1 DEF Init, InOnePlace, Distinct
  <1>7. LoggedOncePerCommit
    BY <1>1, FS_EmptySet DEF Init, LoggedOncePerCommit
  <1> QED BY <1>2, <1>3, <1>5, <1>6, <1>7 DEF Inv, RowInv, PoolInv

\* Only the pool moves.
LEMMA RowsUntouched ==
  ASSUME RowInv, UNCHANGED rows
  PROVE  RowInv'
  BY RowsStay DEF rows, RowInv, RowTypes

\* Only the rows or the number of threads change.
LEMMA PoolUntouched ==
  ASSUME PoolInv, UNCHANGED <<actions, running, queue, logged, lost>>
  PROVE  PoolInv'
  BY DEF PoolInv, InOnePlace, Distinct, LoggedOncePerCommit, Waiting, Event

\* Requests keep the rows in step, the pool keeps its events apart.
LEMMA InvStep ==
  ASSUME Inv, [Next]_vars
  PROVE  Inv'
  <1> USE DEF Inv
  <1>1. ASSUME NEW r \in Request, NEW t \in Task, NEW a \in Action, Load(r, t, a)
        PROVE  Inv'
    BY <1>1, LoadKeeps, PoolUntouched DEF Load, pool
  <1>2. ASSUME NEW r \in Request, Commit(r)
        PROVE  Inv'
    BY <1>2, CommitKeeps, SubmitKeeps DEF Commit, RowInv
  <1>3. ASSUME NEW r \in Request, Rollback(r)
        PROVE  Inv'
    <2>1. RowInv'
      BY <1>3, RowsStay DEF Rollback, RowInv, RowTypes
    <2> QED BY <1>3, <2>1, PoolUntouched DEF Rollback, pool
  <1>4. CASE Take
    BY <1>4, TakeKeeps, RowsUntouched DEF Take, RowInv
  <1>5. ASSUME NEW e \in Event, Finish(e)
        PROVE  Inv'
    BY <1>5, FinishKeeps, RowsUntouched DEF Finish, Store, StoreFails, RowInv
  <1>6. CASE Shrink
    BY <1>6, RowsUntouched, PoolUntouched DEF Shrink, rows
  <1>7. CASE UNCHANGED vars
    BY <1>7, RowsUntouched, PoolUntouched DEF vars, rows, pool
  <1> QED BY <1>1, <1>2, <1>3, <1>4, <1>5, <1>6, <1>7 DEF Next

\* Rows, memory of the requests, pool and log agree, whatever overlaps.
THEOREM LifecycleInvariant == Spec => []Inv
  BY InvInit, InvStep, PTL DEF Spec

\* A committed action has one event, which waits, is being stored, is logged or is
\* lost; an action that was rolled back has none.
THEOREM LoggedOnce == Spec => []LoggedOncePerCommit
  <1>1. Inv => LoggedOncePerCommit
    BY DEF Inv, PoolInv
  <1> QED BY LifecycleInvariant, <1>1, PTL

\* The row of a task whose requests never overlapped is what its actions made of it.
THEOREM RowFollowsActions == Spec => []RowAgreesWithActions
  <1>1. Inv => RowAgreesWithActions
    BY DEF Inv, RowInv
  <1> QED BY LifecycleInvariant, <1>1, PTL
=============================================================================
