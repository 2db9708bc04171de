------------------------------ MODULE DaemonProofs ------------------------------
(***************************************************************************)
(* The audio daemon and the dialog of its settings.                        *)
(*                                                                         *)
(* Enrollment, for any number of edits and repetitions: what the detector  *)
(* reads was not released, the state shown tells whether there is a        *)
(* shadow, and a saved model survives a restart.  Trigger delivery, for    *)
(* any triggers, tabs and connections: a trigger is not lost, and what is  *)
(* pending is on its way to every client that is connected.                *)
(*                                                                         *)
(* The dialog, for any number of async functions, requests that are lost   *)
(* and restarts of the daemon: the switch shows what is registered, a save *)
(* brings one form to the daemon, and the wizard does not get stuck.       *)
(***************************************************************************)
EXTENDS Enrollment, TriggerDelivery, AudioSettings, FiniteSetTheorems, SequenceTheorems,
        WellFoundedInduction, TLAPS

-----------------------------------------------------------------------------
(* Wake-word enrollment. *)

\* A session that may hold or get a model was opened by an edit.
PhraseNamed ==
    /\ phrase <= opened
    /\ state # "IDLE" \/ training # {} \/ shadow # NoModel => phrase # 0

\* The edit that records has no model yet, and its training starts once.
Untrained(e) ==
    /\ e \notin training /\ e \notin released
    /\ shadow # e /\ active # e /\ disk # e
RecordingIsFresh ==
    /\ state \in {"EDITING_SETUP", "RECORDING"} => Untrained(phrase) /\ reps < Required
    /\ \A e \in Edits : e > opened => Untrained(e)

\* A model in training is nowhere else.
TrainingIsApart ==
    \A e \in training : e \notin released /\ shadow # e /\ active # e /\ disk # e

\* The shadow is neither released nor running; the file has it while a save goes on.
ShadowIsApart ==
    shadow \in Edits =>
        /\ shadow \notin released /\ shadow # active
        /\ disk = shadow => saving = "stored"

\* A save that holds the lock has a shadow, and what it has stored is in the file.
SavingHasShadow ==
    saving # "no" =>
        /\ state = "COMMITTING" /\ shadow # NoModel
        /\ saving = "writing" => shadow # Null
        /\ saving = "stored" /\ ~failed /\ shadow # Null => disk = shadow

\* Between saves the file has the running model, and the settings name it or soon will.
FileIsActive ==
    saving = "no" /\ ~failed /\ active # Null =>
        /\ disk = active
        /\ meta # 0 \/ persisting # {}

EnrollmentInv ==
    /\ EnrollmentTypeOK /\ PhraseNamed /\ RecordingIsFresh /\ TrainingIsApart /\ ShadowIsApart
    /\ SavingHasShadow /\ FileIsActive /\ ActiveNotReleased /\ ShadowMatchesState

-----------------------------------------------------------------------------
\* A daemon that has just been installed.
LEMMA EnrollmentInvInit == EnrollmentInit => EnrollmentInv
  <1> USE EnrollmentAssumption
  <1> SUFFICES ASSUME EnrollmentInit PROVE EnrollmentInv
    OBVIOUS
  <1>1. EnrollmentTypeOK
    <2>1. enrolled \in BOOLEAN /\ failed \in BOOLEAN
      BY DEF EnrollmentInit
    <2>2. /\ phrase \in 0 .. MaxEdits /\ reps \in 0 .. Required
          /\ meta \in 0 .. MaxEdits /\ opened \in 0 .. MaxEdits
      BY DEF EnrollmentInit
    <2> QED BY <2>1, <2>2 DEF EnrollmentInit, EnrollmentTypeOK, Models, States
  <1>2. PhraseNamed
    BY DEF EnrollmentInit, PhraseNamed
  <1>3. RecordingIsFresh
    BY DEF EnrollmentInit, RecordingIsFresh, Untrained, Edits
  <1>4. TrainingIsApart
    BY DEF EnrollmentInit, TrainingIsApart
  <1>5. ShadowIsApart
    BY DEF EnrollmentInit, ShadowIsApart
  <1>6. SavingHasShadow
    BY DEF EnrollmentInit, SavingHasShadow
  <1>7. FileIsActive
    BY DEF EnrollmentInit, FileIsActive
  <1>8. ActiveNotReleased
    BY DEF EnrollmentInit, ActiveNotReleased
  <1>9. ShadowMatchesState
    BY DEF EnrollmentInit, ShadowMatchesState
  <1> QED BY <1>1, <1>2, <1>3, <1>4, <1>5, <1>6, <1>7, <1>8, <1>9 DEF EnrollmentInv

\* Every action keeps the parts of EnrollmentInv.
LEMMA EnrollmentInvStep ==
  ASSUME EnrollmentInv, [EnrollmentNext]_enrollmentVars
  PROVE  EnrollmentInv'
  <1> USE EnrollmentAssumption
      DEF EnrollmentInv, EnrollmentTypeOK, PhraseNamed, RecordingIsFresh, Untrained,
          TrainingIsApart, ShadowIsApart, SavingHasShadow, FileIsActive, ActiveNotReleased,
          ShadowMatchesState, Models, States, Edits, session, detector, stored, history,
          LockFree, Release
  <1>1. CASE OpenEdit
    BY <1>1 DEF OpenEdit, DiscardShadow
  <1>2. CASE StartRecording
    BY <1>2 DEF StartRecording
  <1>3. CASE CutRecording
    BY <1>3 DEF CutRecording
  <1>4. CASE StartTraining
    BY <1>4 DEF StartTraining
  <1>5. CASE Cancel
    <2>1. EnrollmentTypeOK'
      <3>1. enrolled' \in BOOLEAN /\ failed' \in BOOLEAN
        BY <1>5 DEF Cancel, DiscardShadow
      <3> QED BY <1>5, <3>1 DEF Cancel, DiscardShadow
    <2>2. PhraseNamed'
      BY <1>5 DEF Cancel, DiscardShadow
    <2>3. RecordingIsFresh'
      BY <1>5 DEF Cancel, DiscardShadow
    <2>4. TrainingIsApart'
      BY <1>5 DEF Cancel, DiscardShadow
    <2>5. ShadowIsApart'
      BY <1>5 DEF Cancel, DiscardShadow
    <2>6. SavingHasShadow'
      BY <1>5 DEF Cancel, DiscardShadow
    <2>7. FileIsActive'
      BY <1>5 DEF Cancel, DiscardShadow
    <2>8. ActiveNotReleased'
      BY <1>5 DEF Cancel, DiscardShadow
    <2>9. ShadowMatchesState'
      BY <1>5 DEF Cancel, DiscardShadow
    <2> QED BY <2>1, <2>2, <2>3, <2>4, <2>5, <2>6, <2>7, <2>8, <2>9
  <1>6. CASE BeginSave
    BY <1>6 DEF BeginSave
  <1>7. CASE OpenFile
    BY <1>7 DEF OpenFile
  <1>8. CASE WriteFile
    BY <1>8 DEF WriteFile
  <1>9. CASE WriteFails
    BY <1>9 DEF WriteFails
  <1>10. CASE Install
    <2>1. EnrollmentTypeOK'
      <3>1. enrolled' \in BOOLEAN /\ failed' \in BOOLEAN
        BY <1>10 DEF Install
      <3> QED BY <1>10, <3>1 DEF Install
    <2>2. PhraseNamed'
      BY <1>10 DEF Install
    <2>3. RecordingIsFresh'
      BY <1>10 DEF Install
    <2>4. TrainingIsApart'
      BY <1>10 DEF Install
    <2>5. ShadowIsApart'
      BY <1>10 DEF Install
    <2>6. SavingHasShadow'
      BY <1>10 DEF Install
    <2>7. FileIsActive'
      BY <1>10 DEF Install
    <2>8. ActiveNotReleased'
      BY <1>10 DEF Install
    <2>9. ShadowMatchesState'
      BY <1>10 DEF Install
    <2> QED BY <2>1, <2>2, <2>3, <2>4, <2>5, <2>6, <2>7, <2>8, <2>9
  <1>11. CASE Restart
    <2>1. EnrollmentTypeOK'
      <3>1. enrolled' \in BOOLEAN /\ failed' \in BOOLEAN
        BY <1>11 DEF Restart
      <3> QED BY <1>11, <3>1 DEF Restart
    <2>2. PhraseNamed'
      BY <1>11 DEF Restart
    <2>3. RecordingIsFresh'
      BY <1>11 DEF Restart
    <2>4. TrainingIsApart'
      BY <1>11 DEF Restart
    <2>5. ShadowIsApart'
      BY <1>11 DEF Restart
    <2>6. SavingHasShadow'
      BY <1>11 DEF Restart
    <2>7. FileIsActive'
      BY <1>11 DEF Restart
    <2>8. ActiveNotReleased'
      BY <1>11 DEF Restart
    <2>9. ShadowMatchesState'
      BY <1>11 DEF Restart
    <2> QED BY <2>1, <2>2, <2>3, <2>4, <2>5, <2>6, <2>7, <2>8, <2>9
  <1>12. CASE \E e \in Edits : Trained(e)
    BY <1>12 DEF Trained
  <1>13. ASSUME NEW p \in Edits, Persist(p)
         PROVE  EnrollmentInv'
    BY <1>13 DEF Persist
  <1>14. ASSUME NEW p \in Edits, PersistFails(p)
         PROVE  EnrollmentInv'
    BY <1>14 DEF PersistFails
  <1>15. CASE UNCHANGED enrollmentVars
    BY <1>15 DEF enrollmentVars
  <1> QED BY <1>1, <1>2, <1>3, <1>4, <1>5, <1>6, <1>7, <1>8, <1>9, <1>10, <1>11, <1>12, <1>13,
       <1>14, <1>15
     DEF EnrollmentNext, Save

\* The parts of EnrollmentInv hold throughout, for any number of edits and repetitions.
THEOREM EnrollmentInvariant == EnrollmentSpec => []EnrollmentInv
  BY EnrollmentInvInit, EnrollmentInvStep, PTL DEF EnrollmentSpec

\* Every variable keeps its type.
THEOREM EnrollmentTyped == EnrollmentSpec => []EnrollmentTypeOK
  <1>1. EnrollmentInv => EnrollmentTypeOK
    BY DEF EnrollmentInv
  <1> QED BY EnrollmentInvariant, <1>1, PTL

\* The detector never runs on a model that a swap, a CANCEL or a new edit released.
THEOREM DetectorRunsLive == EnrollmentSpec => []ActiveNotReleased
  <1>1. EnrollmentInv => ActiveNotReleased
    BY DEF EnrollmentInv
  <1> QED BY EnrollmentInvariant, <1>1, PTL

\* The state of the session tells whether there is a model to validate and to save.
THEOREM StateTellsShadow == EnrollmentSpec => []ShadowMatchesState
  <1>1. EnrollmentInv => ShadowMatchesState
    BY DEF EnrollmentInv
  <1> QED BY EnrollmentInvariant, <1>1, PTL

\* What a finished save installed is what the settings and the file bring back.
THEOREM RestartLoadsActive == EnrollmentSpec => []RestartKeepsModel
  <1>1. EnrollmentInv => RestartKeepsModel
    BY DEF EnrollmentInv, FileIsActive, RestartKeepsModel, LockFree
  <1> QED BY EnrollmentInvariant, <1>1, PTL

-----------------------------------------------------------------------------
(* Trigger delivery. *)

DeliveryTypeOK ==
    /\ clients \subseteq Socket
    /\ flushing \in [Socket -> SUBSET Trigger]
    /\ pending \subseteq Trigger
    /\ emit \in [Trigger -> {"none", "focus", "sending", "waiting", "answered"}]
    /\ todo \in [Trigger -> SUBSET Socket]
    /\ sockets \in 0 .. MaxSocket
    /\ down \in [Socket -> Seq(Trigger)]
    /\ up \in [Socket -> SUBSET Trigger]
    /\ open \subseteq Tab
    /\ ws \in [Tab -> {0} \union Socket]
    /\ peers \in [Tab -> SUBSET Tab]
    /\ got \subseteq Trigger
    /\ shown \in [Trigger -> Nat]

\* A connection is of one tab, and was opened.
OneTab ==
    /\ \A tab \in Tab : ws[tab] <= sockets
    /\ \A s \in clients : s <= sockets
    /\ \A a, b \in Tab : ws[a] = ws[b] /\ ws[a] # 0 => a = b

\* Only a tab that received a trigger acknowledges it.
AcksAreReceipts == \A s \in Socket : up[s] \subseteq got

DeliveryInv ==
    /\ DeliveryTypeOK /\ OneTab /\ AcksAreReceipts
    /\ PendingUntilReceived /\ PendingIsOnItsWay

-----------------------------------------------------------------------------
(* Frames on a connection. *)

Carries(q, t) == \E i \in DOMAIN q : q[i] = t

\* A frame that is sent waits behind those on their way.
LEMMA AppendCarries ==
  ASSUME NEW q \in Seq(Trigger), NEW t \in Trigger
  PROVE  /\ Append(q, t) \in Seq(Trigger) /\ Carries(Append(q, t), t)
         /\ \A u : Carries(q, u) => Carries(Append(q, t), u)
  <1>1. /\ Append(q, t) \in Seq(Trigger) /\ Len(Append(q, t)) = Len(q) + 1
        /\ \A i \in 1 .. Len(q) : Append(q, t)[i] = q[i]
        /\ Append(q, t)[Len(q) + 1] = t
    BY AppendProperties
  <1>2. /\ Len(q) \in Nat /\ DOMAIN q = 1 .. Len(q)
        /\ DOMAIN Append(q, t) = 1 .. (Len(q) + 1)
    BY <1>1, LenProperties
  <1> QED BY <1>1, <1>2 DEF Carries

\* A frame that is read leaves the others on their way.
LEMMA TailCarries ==
  ASSUME NEW q \in Seq(Trigger), q # <<>>
  PROVE  /\ Head(q) \in Trigger /\ Tail(q) \in Seq(Trigger)
         /\ \A u : Carries(q, u) => u = Head(q) \/ Carries(Tail(q), u)
  <1>1. /\ Head(q) \in Trigger /\ Tail(q) \in Seq(Trigger) /\ Len(Tail(q)) = Len(q) - 1
        /\ \A i \in 1 .. Len(Tail(q)) : Tail(q)[i] = q[i + 1]
    BY HeadTailProperties
  <1>2. /\ Len(q) \in Nat /\ DOMAIN q = 1 .. Len(q) /\ DOMAIN Tail(q) = 1 .. (Len(q) - 1)
    BY <1>1, LenProperties
  <1>3. ASSUME NEW i \in DOMAIN q, i # 1
        PROVE  Carries(Tail(q), q[i])
    <2>1. i - 1 \in DOMAIN Tail(q) /\ Tail(q)[i - 1] = q[i]
      BY <1>1, <1>2, <1>3
    <2> QED BY <2>1 DEF Carries
  <1>4. q[1] = Head(q)
    OBVIOUS
  <1> QED BY <1>1, <1>3, <1>4 DEF Carries

-----------------------------------------------------------------------------
(* Types and connections. *)

\* A hub without clients.
LEMMA DeliveryInvInit == DeliveryInit => DeliveryInv
  BY DeliveryAssumption
     DEF DeliveryInit, DeliveryInv, DeliveryTypeOK, OneTab, AcksAreReceipts,
         PendingUntilReceived, PendingIsOnItsWay

\* A step keeps the types.
LEMMA DeliveryTypeKept ==
  ASSUME DeliveryTypeOK, [DeliveryNext]_deliveryVars
  PROVE  DeliveryTypeOK'
  <1>1. ASSUME NEW t \in Trigger, EmitToClients(t)
        PROVE  DeliveryTypeOK'
    BY <1>1 DEF EmitToClients, DeliveryTypeOK, wire, tabs, seen
  <1>2. ASSUME NEW t \in Trigger, EmitToNobody(t)
        PROVE  DeliveryTypeOK'
    BY <1>2 DEF EmitToNobody, DeliveryTypeOK, wire, tabs, seen
  <1>3. ASSUME NEW t \in Trigger, StartBroadcast(t)
        PROVE  DeliveryTypeOK'
    BY <1>3 DEF StartBroadcast, DeliveryTypeOK, wire, tabs, seen
  <1>4. ASSUME NEW t \in Trigger, NEW s \in Socket, SendTrigger(t, s)
        PROVE  DeliveryTypeOK'
    BY <1>4 DEF SendTrigger, DeliveryTypeOK, tabs, seen, Deliver
  <1>5. ASSUME NEW t \in Trigger, EndBroadcast(t)
        PROVE  DeliveryTypeOK'
    BY <1>5 DEF EndBroadcast, DeliveryTypeOK, wire, tabs, seen
  <1>6. ASSUME NEW t \in Trigger, Answer(t)
        PROVE  DeliveryTypeOK'
    BY <1>6 DEF Answer, DeliveryTypeOK, wire, tabs, seen
  <1>7. ASSUME NEW s \in Socket, NEW t \in Trigger, Redeliver(s, t)
        PROVE  DeliveryTypeOK'
    BY <1>7, AppendCarries DEF Redeliver, DeliveryTypeOK, tabs, seen, Deliver
  <1>8. ASSUME NEW s \in Socket, NEW t \in Trigger, ReceiveAck(s, t)
        PROVE  DeliveryTypeOK'
    BY <1>8 DEF ReceiveAck, DeliveryTypeOK, tabs, seen
  <1>9. ASSUME NEW s \in Socket, DropClient(s)
        PROVE  DeliveryTypeOK'
    BY <1>9 DEF DropClient, DeliveryTypeOK, tabs, seen
  <1>10. ASSUME NEW tab \in Tab, OpenTab(tab)
        PROVE  DeliveryTypeOK'
    BY <1>10 DEF OpenTab, DeliveryTypeOK, hub, wire, seen
  <1>11. ASSUME NEW tab \in Tab, Connect(tab)
        PROVE  DeliveryTypeOK'
    BY <1>11, DeliveryAssumption DEF Connect, DeliveryTypeOK, seen, Socket
  <1>12. ASSUME NEW tab \in Tab, Break(tab)
        PROVE  DeliveryTypeOK'
    BY <1>12 DEF Break, DeliveryTypeOK, hub, seen, Socket
  <1>13. ASSUME NEW tab \in Tab, CloseTab(tab)
        PROVE  DeliveryTypeOK'
    BY <1>13 DEF CloseTab, DeliveryTypeOK, hub, wire, seen
  <1>14. ASSUME NEW tab \in Tab, Receive(tab)
        PROVE  DeliveryTypeOK'
    <2>1. ws[tab] \in Socket /\ down[ws[tab]] \in Seq(Trigger)
      BY <1>14 DEF Receive, DeliveryTypeOK
    <2>2. Head(down[ws[tab]]) \in Trigger /\ Tail(down[ws[tab]]) \in Seq(Trigger)
      BY <1>14, <2>1 DEF Receive
    <2>3. down' \in [Socket -> Seq(Trigger)] /\ up' \in [Socket -> SUBSET Trigger]
      BY <1>14, <2>1, <2>2 DEF Receive, DeliveryTypeOK
    <2>4. got' \subseteq Trigger /\ shown' \in [Trigger -> Nat]
      BY <1>14, <2>2 DEF Receive, DeliveryTypeOK
    <2> QED BY <1>14, <2>3, <2>4 DEF Receive, DeliveryTypeOK, hub, tabs
  <1>15. ASSUME NEW tab \in Tab, NEW p \in Tab, HearBeat(tab, p)
        PROVE  DeliveryTypeOK'
    BY <1>15 DEF HearBeat, DeliveryTypeOK, hub, wire, seen
  <1>16. ASSUME NEW tab \in Tab, NEW p \in Tab, ExpirePeer(tab, p)
        PROVE  DeliveryTypeOK'
    BY <1>16 DEF ExpirePeer, DeliveryTypeOK, hub, wire, seen
  <1>17. CASE UNCHANGED deliveryVars
    BY <1>17 DEF deliveryVars, DeliveryTypeOK, hub, wire, tabs, seen
  <1> QED BY <1>1, <1>2, <1>3, <1>4, <1>5, <1>6, <1>7, <1>8, <1>9, <1>10, <1>11, <1>12, <1>13,
       <1>14, <1>15, <1>16, <1>17
     DEF DeliveryNext, Emitter, Handler

\* A connection is new when a tab opens it.
LEMMA OneTabKept ==
  ASSUME DeliveryTypeOK, OneTab, [DeliveryNext]_deliveryVars
  PROVE  OneTab'
  <1>1. ASSUME NEW t \in Trigger, EmitToClients(t)
        PROVE  OneTab'
    BY <1>1 DEF EmitToClients, OneTab, wire, tabs
  <1>2. ASSUME NEW t \in Trigger, EmitToNobody(t)
        PROVE  OneTab'
    BY <1>2 DEF EmitToNobody, OneTab, wire, tabs
  <1>3. ASSUME NEW t \in Trigger, StartBroadcast(t)
        PROVE  OneTab'
    BY <1>3 DEF StartBroadcast, OneTab, wire, tabs
  <1>4. ASSUME NEW t \in Trigger, NEW s \in Socket, SendTrigger(t, s)
        PROVE  OneTab'
    BY <1>4 DEF SendTrigger, OneTab, tabs
  <1>5. ASSUME NEW t \in Trigger, EndBroadcast(t)
        PROVE  OneTab'
    BY <1>5 DEF EndBroadcast, OneTab, wire, tabs
  <1>6. ASSUME NEW t \in Trigger, Answer(t)
        PROVE  OneTab'
    BY <1>6 DEF Answer, OneTab, wire, tabs
  <1>7. ASSUME NEW s \in Socket, NEW t \in Trigger, Redeliver(s, t)
        PROVE  OneTab'
    BY <1>7 DEF Redeliver, OneTab, tabs
  <1>8. ASSUME NEW s \in Socket, NEW t \in Trigger, ReceiveAck(s, t)
        PROVE  OneTab'
    BY <1>8 DEF ReceiveAck, OneTab, tabs
  <1>9. ASSUME NEW s \in Socket, DropClient(s)
        PROVE  OneTab'
    BY <1>9 DEF DropClient, OneTab, tabs
  <1>10. ASSUME NEW tab \in Tab, OpenTab(tab)
        PROVE  OneTab'
    BY <1>10 DEF OpenTab, OneTab, hub, wire
  <1>11. ASSUME NEW tab \in Tab, Connect(tab)
        PROVE  OneTab'
    <2>1. /\ sockets \in Nat /\ sockets' = sockets + 1
          /\ ws'[tab] = sockets' /\ \A a \in Tab \ {tab} : ws'[a] = ws[a]
          /\ clients' = clients \union {sockets'}
      BY <1>11 DEF Connect, DeliveryTypeOK
    <2>2. /\ \A a \in Tab : ws[a] \in Nat /\ ws[a] <= sockets
          /\ \A s \in clients : s \in Nat /\ s <= sockets
      BY DEF DeliveryTypeOK, OneTab, Socket
    <2> QED BY <2>1, <2>2 DEF OneTab
  <1>12. ASSUME NEW tab \in Tab, Break(tab)
        PROVE  OneTab'
    BY <1>12 DEF Break, DeliveryTypeOK, OneTab, hub
  <1>13. ASSUME NEW tab \in Tab, CloseTab(tab)
        PROVE  OneTab'
    BY <1>13 DEF CloseTab, OneTab, hub, wire
  <1>14. ASSUME NEW tab \in Tab, Receive(tab)
        PROVE  OneTab'
    BY <1>14 DEF Receive, OneTab, hub, tabs
  <1>15. ASSUME NEW tab \in Tab, NEW p \in Tab, HearBeat(tab, p)
        PROVE  OneTab'
    BY <1>15 DEF HearBeat, OneTab, hub, wire
  <1>16. ASSUME NEW tab \in Tab, NEW p \in Tab, ExpirePeer(tab, p)
        PROVE  OneTab'
    BY <1>16 DEF ExpirePeer, OneTab, hub, wire
  <1>17. CASE UNCHANGED deliveryVars
    BY <1>17 DEF deliveryVars, OneTab, hub, wire, tabs
  <1> QED BY <1>1, <1>2, <1>3, <1>4, <1>5, <1>6, <1>7, <1>8, <1>9, <1>10, <1>11, <1>12, <1>13,
       <1>14, <1>15, <1>16, <1>17
     DEF DeliveryNext, Emitter, Handler

\* A tab acknowledges what it receives.
LEMMA ReceiptsKept ==
  ASSUME DeliveryTypeOK, AcksAreReceipts, [DeliveryNext]_deliveryVars
  PROVE  AcksAreReceipts'
  <1>1. ASSUME NEW t \in Trigger, EmitToClients(t)
        PROVE  AcksAreReceipts'
    BY <1>1 DEF EmitToClients, AcksAreReceipts, wire, seen
  <1>2. ASSUME NEW t \in Trigger, EmitToNobody(t)
        PROVE  AcksAreReceipts'
    BY <1>2 DEF EmitToNobody, AcksAreReceipts, wire, seen
  <1>3. ASSUME NEW t \in Trigger, StartBroadcast(t)
        PROVE  AcksAreReceipts'
    BY <1>3 DEF StartBroadcast, AcksAreReceipts, wire, seen
  <1>4. ASSUME NEW t \in Trigger, NEW s \in Socket, SendTrigger(t, s)
        PROVE  AcksAreReceipts'
    BY <1>4 DEF SendTrigger, AcksAreReceipts, seen
  <1>5. ASSUME NEW t \in Trigger, EndBroadcast(t)
        PROVE  AcksAreReceipts'
    BY <1>5 DEF EndBroadcast, AcksAreReceipts, wire, seen
  <1>6. ASSUME NEW t \in Trigger, Answer(t)
        PROVE  AcksAreReceipts'
    BY <1>6 DEF Answer, AcksAreReceipts, wire, seen
  <1>7. ASSUME NEW s \in Socket, NEW t \in Trigger, Redeliver(s, t)
        PROVE  AcksAreReceipts'
    BY <1>7 DEF Redeliver, AcksAreReceipts, seen
  <1>8. ASSUME NEW s \in Socket, NEW t \in Trigger, ReceiveAck(s, t)
        PROVE  AcksAreReceipts'
    BY <1>8 DEF ReceiveAck, AcksAreReceipts, seen
  <1>9. ASSUME NEW s \in Socket, DropClient(s)
        PROVE  AcksAreReceipts'
    BY <1>9 DEF DropClient, AcksAreReceipts, seen
  <1>10. ASSUME NEW tab \in Tab, OpenTab(tab)
        PROVE  AcksAreReceipts'
    BY <1>10 DEF OpenTab, AcksAreReceipts, wire, seen
  <1>11. ASSUME NEW tab \in Tab, Connect(tab)
        PROVE  AcksAreReceipts'
    BY <1>11 DEF Connect, AcksAreReceipts, seen
  <1>12. ASSUME NEW tab \in Tab, Break(tab)
        PROVE  AcksAreReceipts'
    BY <1>12 DEF Break, AcksAreReceipts, seen
  <1>13. ASSUME NEW tab \in Tab, CloseTab(tab)
        PROVE  AcksAreReceipts'
    BY <1>13 DEF CloseTab, AcksAreReceipts, wire, seen
  <1>14. ASSUME NEW tab \in Tab, Receive(tab)
        PROVE  AcksAreReceipts'
    BY <1>14 DEF Receive, AcksAreReceipts
  <1>15. ASSUME NEW tab \in Tab, NEW p \in Tab, HearBeat(tab, p)
        PROVE  AcksAreReceipts'
    BY <1>15 DEF HearBeat, AcksAreReceipts, wire, seen
  <1>16. ASSUME NEW tab \in Tab, NEW p \in Tab, ExpirePeer(tab, p)
        PROVE  AcksAreReceipts'
    BY <1>16 DEF ExpirePeer, AcksAreReceipts, wire, seen
  <1>17. CASE UNCHANGED deliveryVars
    BY <1>17 DEF deliveryVars, AcksAreReceipts, wire, seen
  <1> QED BY <1>1, <1>2, <1>3, <1>4, <1>5, <1>6, <1>7, <1>8, <1>9, <1>10, <1>11, <1>12, <1>13,
       <1>14, <1>15, <1>16, <1>17
     DEF DeliveryNext, Emitter, Handler

\* What leaves the queue was acknowledged.
LEMMA ReceivedKept ==
  ASSUME DeliveryTypeOK, AcksAreReceipts, PendingUntilReceived, [DeliveryNext]_deliveryVars
  PROVE  PendingUntilReceived'
  <1>1. ASSUME NEW t \in Trigger, EmitToClients(t)
        PROVE  PendingUntilReceived'
    BY <1>1 DEF EmitToClients, AcksAreReceipts, PendingUntilReceived, seen
  <1>2. ASSUME NEW t \in Trigger, EmitToNobody(t)
        PROVE  PendingUntilReceived'
    BY <1>2 DEF EmitToNobody, AcksAreReceipts, PendingUntilReceived, seen
  <1>3. ASSUME NEW t \in Trigger, StartBroadcast(t)
        PROVE  PendingUntilReceived'
    BY <1>3 DEF StartBroadcast, AcksAreReceipts, PendingUntilReceived, seen
  <1>4. ASSUME NEW t \in Trigger, NEW s \in Socket, SendTrigger(t, s)
        PROVE  PendingUntilReceived'
    BY <1>4 DEF SendTrigger, AcksAreReceipts, PendingUntilReceived, seen
  <1>5. ASSUME NEW t \in Trigger, EndBroadcast(t)
        PROVE  PendingUntilReceived'
    BY <1>5 DEF EndBroadcast, AcksAreReceipts, PendingUntilReceived, seen
  <1>6. ASSUME NEW t \in Trigger, Answer(t)
        PROVE  PendingUntilReceived'
    BY <1>6 DEF Answer, AcksAreReceipts, PendingUntilReceived, seen
  <1>7. ASSUME NEW s \in Socket, NEW t \in Trigger, Redeliver(s, t)
        PROVE  PendingUntilReceived'
    BY <1>7 DEF Redeliver, AcksAreReceipts, PendingUntilReceived, seen
  <1>8. ASSUME NEW s \in Socket, NEW t \in Trigger, ReceiveAck(s, t)
        PROVE  PendingUntilReceived'
    BY <1>8 DEF ReceiveAck, AcksAreReceipts, PendingUntilReceived, seen
  <1>9. ASSUME NEW s \in Socket, DropClient(s)
        PROVE  PendingUntilReceived'
    BY <1>9 DEF DropClient, AcksAreReceipts, PendingUntilReceived, seen
  <1>10. ASSUME NEW tab \in Tab, OpenTab(tab)
        PROVE  PendingUntilReceived'
    BY <1>10 DEF OpenTab, AcksAreReceipts, PendingUntilReceived, hub, seen
  <1>11. ASSUME NEW tab \in Tab, Connect(tab)
        PROVE  PendingUntilReceived'
    BY <1>11 DEF Connect, AcksAreReceipts, PendingUntilReceived, seen
  <1>12. ASSUME NEW tab \in Tab, Break(tab)
        PROVE  PendingUntilReceived'
    BY <1>12 DEF Break, AcksAreReceipts, PendingUntilReceived, hub, seen
  <1>13. ASSUME NEW tab \in Tab, CloseTab(tab)
        PROVE  PendingUntilReceived'
    BY <1>13 DEF CloseTab, AcksAreReceipts, PendingUntilReceived, hub, seen
  <1>14. ASSUME NEW tab \in Tab, Receive(tab)
        PROVE  PendingUntilReceived'
    BY <1>14 DEF Receive, AcksAreReceipts, PendingUntilReceived, hub
  <1>15. ASSUME NEW tab \in Tab, NEW p \in Tab, HearBeat(tab, p)
        PROVE  PendingUntilReceived'
    BY <1>15 DEF HearBeat, AcksAreReceipts, PendingUntilReceived, hub, seen
  <1>16. ASSUME NEW tab \in Tab, NEW p \in Tab, ExpirePeer(tab, p)
        PROVE  PendingUntilReceived'
    BY <1>16 DEF ExpirePeer, AcksAreReceipts, PendingUntilReceived, hub, seen
  <1>17. CASE UNCHANGED deliveryVars
    BY <1>17 DEF deliveryVars, AcksAreReceipts, PendingUntilReceived, hub, seen
  <1> QED BY <1>1, <1>2, <1>3, <1>4, <1>5, <1>6, <1>7, <1>8, <1>9, <1>10, <1>11, <1>12, <1>13,
       <1>14, <1>15, <1>16, <1>17
     DEF DeliveryNext, Emitter, Handler

-----------------------------------------------------------------------------
(* Pending triggers are on their way. *)

OnItsWay(s, t) ==
    Alive(s) => \/ t \in flushing[s] \/ emit[t] = "focus" \/ s \in todo[t]
                \/ Carries(down[s], t) \/ t \in up[s]

\* Most steps leave alone what is on its way.
WaySame ==
    /\ clients' \subseteq clients /\ pending' \subseteq pending
    /\ \A t \in pending', s \in clients' : OnItsWay(s, t) => OnItsWay(s, t)'

\* All but a broadcast and a new connection leave a trigger on its way.
LEMMA WaySameSteps ==
  ASSUME DeliveryTypeOK, OneTab, [DeliveryNext]_deliveryVars
  PROVE  \/ WaySame
         \/ \E t \in Trigger : EmitToClients(t) \/ EmitToNobody(t)
         \/ \E tab \in Tab : Connect(tab)
  <1>1. ASSUME NEW t \in Trigger, StartBroadcast(t)
        PROVE  WaySame
    BY <1>1 DEF StartBroadcast, WaySame, OnItsWay, Alive, DeliveryTypeOK, wire, tabs
  <1>2. ASSUME NEW t \in Trigger, NEW s \in Socket, SendTrigger(t, s)
        PROVE  WaySame
    BY <1>2, AppendCarries
       DEF SendTrigger, WaySame, OnItsWay, Alive, DeliveryTypeOK, tabs, Deliver
  <1>3. ASSUME NEW t \in Trigger, EndBroadcast(t)
        PROVE  WaySame
    BY <1>3 DEF EndBroadcast, WaySame, OnItsWay, Alive, wire, tabs
  <1>4. ASSUME NEW t \in Trigger, Answer(t)
        PROVE  WaySame
    BY <1>4 DEF Answer, WaySame, OnItsWay, Alive, wire, tabs
  <1>5. ASSUME NEW s \in Socket, NEW t \in Trigger, Redeliver(s, t)
        PROVE  WaySame
    BY <1>5, AppendCarries
       DEF Redeliver, WaySame, OnItsWay, Alive, DeliveryTypeOK, tabs, Deliver
  <1>6. ASSUME NEW s \in Socket, NEW t \in Trigger, ReceiveAck(s, t)
        PROVE  WaySame
    BY <1>6 DEF ReceiveAck, WaySame, OnItsWay, Alive, tabs
  <1>7. ASSUME NEW s \in Socket, DropClient(s)
        PROVE  WaySame
    BY <1>7 DEF DropClient, WaySame, OnItsWay, Alive, tabs
  <1>8. ASSUME NEW tab \in Tab, OpenTab(tab)
        PROVE  WaySame
    BY <1>8 DEF OpenTab, WaySame, OnItsWay, Alive, hub, wire
  <1>9. ASSUME NEW tab \in Tab, Break(tab)
        PROVE  WaySame
    BY <1>9 DEF Break, OneTab, WaySame, OnItsWay, Alive, DeliveryTypeOK, hub, Socket
  <1>10. ASSUME NEW tab \in Tab, CloseTab(tab)
        PROVE  WaySame
    BY <1>10 DEF CloseTab, WaySame, OnItsWay, Alive, hub, wire
  <1>11. ASSUME NEW tab \in Tab, Receive(tab)
        PROVE  WaySame
    BY <1>11, TailCarries DEF Receive, WaySame, OnItsWay, Alive, DeliveryTypeOK, hub, tabs
  <1>12. ASSUME NEW tab \in Tab, NEW p \in Tab, HearBeat(tab, p)
        PROVE  WaySame
    BY <1>12 DEF HearBeat, WaySame, OnItsWay, Alive, hub, wire
  <1>13. ASSUME NEW tab \in Tab, NEW p \in Tab, ExpirePeer(tab, p)
        PROVE  WaySame
    BY <1>13 DEF ExpirePeer, WaySame, OnItsWay, Alive, hub, wire
  <1>14. CASE UNCHANGED deliveryVars
    BY <1>14 DEF deliveryVars, WaySame, OnItsWay, Alive, hub, wire, tabs
  <1> QED BY <1>1, <1>2, <1>3, <1>4, <1>5, <1>6, <1>7, <1>8, <1>9, <1>10, <1>11, <1>12, <1>13,
       <1>14
     DEF DeliveryNext, Emitter, Handler

\* A trigger that is sent, read or acknowledged goes on by one place.
LEMMA OnItsWayKept ==
  ASSUME DeliveryTypeOK, OneTab, PendingIsOnItsWay, [DeliveryNext]_deliveryVars
  PROVE  PendingIsOnItsWay'
  <1>1. \A t \in pending, s \in clients : OnItsWay(s, t)
    BY DEF PendingIsOnItsWay, OnItsWay, Carries
  <1> SUFFICES \A t \in pending', s \in clients' : OnItsWay(s, t)'
    BY DEF PendingIsOnItsWay, OnItsWay, Carries
  <1>2. CASE WaySame
    BY <1>1, <1>2 DEF WaySame
  <1>3. ASSUME NEW t \in Trigger, EmitToClients(t)
        PROVE  \A u \in pending', s \in clients' : OnItsWay(s, u)'
    BY <1>1, <1>3 DEF EmitToClients, OnItsWay, Alive, DeliveryTypeOK, wire, tabs
  <1>4. ASSUME NEW t \in Trigger, EmitToNobody(t)
        PROVE  \A u \in pending', s \in clients' : OnItsWay(s, u)'
    BY <1>4 DEF EmitToNobody
  <1>5. ASSUME NEW tab \in Tab, Connect(tab)
        PROVE  \A u \in pending', s \in clients' : OnItsWay(s, u)'
    <2> SUFFICES ASSUME NEW u \in pending', NEW s \in clients', Alive(s)'
                 PROVE  OnItsWay(s, u)'
      BY DEF OnItsWay
    <2>1. /\ sockets' = sockets + 1 /\ sockets' \in Socket
          /\ flushing' = [flushing EXCEPT ![sockets'] = pending]
          /\ clients' = clients \union {sockets'} /\ u \in pending
          /\ UNCHANGED <<emit, todo, down, up>>
          /\ \A a \in Tab : ws'[a] = ws[a] \/ ws'[a] = sockets'
      BY <1>5, DeliveryAssumption DEF Connect, DeliveryTypeOK, Socket
    <2>2. CASE s = sockets'
      BY <2>1, <2>2 DEF DeliveryTypeOK, OnItsWay
    <2>3. CASE s # sockets'
      <3>1. s \in clients /\ Alive(s) /\ flushing'[s] = flushing[s]
        BY <2>1, <2>3 DEF Alive
      <3> QED BY <1>1, <2>1, <3>1 DEF OnItsWay
    <2> QED BY <2>2, <2>3
  <1> QED BY <1>2, <1>3, <1>4, <1>5, WaySameSteps

-----------------------------------------------------------------------------
(* The specification. *)

\* The parts of the invariant, put together.
LEMMA DeliveryInvStep == DeliveryInv /\ [DeliveryNext]_deliveryVars => DeliveryInv'
  BY DeliveryTypeKept, OneTabKept, ReceiptsKept, ReceivedKept, OnItsWayKept DEF DeliveryInv

\* The invariant holds of every reachable state; the properties below are read off it.
THEOREM DeliveryInvariant == DeliverySpec => []DeliveryInv
  BY DeliveryInvInit, DeliveryInvStep, PTL DEF DeliverySpec

\* A trigger that was emitted is queued until a tab has received it, whatever breaks,
\* closes or times out (IpcHub._pending and the ACK of _receive).
THEOREM TriggerKept == DeliverySpec => []PendingUntilReceived
  <1>1. DeliveryInv => PendingUntilReceived
    BY DEF DeliveryInv
  <1> QED BY <1>1, DeliveryInvariant, PTL

\* A pending trigger is being sent, redelivered or acknowledged on every connection that
\* is alive, also when the client connects while the emitter is in the middle of its
\* broadcast (emit_trigger, _flush_pending).
THEOREM TriggerOnItsWay == DeliverySpec => []PendingIsOnItsWay
  <1>1. DeliveryInv => PendingIsOnItsWay
    BY DEF DeliveryInv
  <1> QED BY <1>1, DeliveryInvariant, PTL

-----------------------------------------------------------------------------
(* The dialog of the audio settings. *)

\* What an async function of the dialog can be: where it is, and what its closure holds.
Where == {"request", "on", "off", "failed"}
Loads == [kind : {"load"}, path : {"devices", "status"}, at : Where, arg : {{}}, alive : BOOLEAN]
Toggles == [kind : {"toggle"}, path : {"autostart"}, at : Where, arg : BOOLEAN, alive : BOOLEAN]
Saves == [kind : {"save"}, path : {"select", "stream"}, at : Where,
          arg : [device : Device, enabled : BOOLEAN], alive : BOOLEAN]
Ops == {Free} \union Loads \union Toggles \union Saves
Asks == [asked : {TRUE}, device : Device, may : BOOLEAN]

DialogTypeOK ==
    /\ {isOpen, daemonOnline, autostart, autostartBusy, wizardOpen, toast, raced} \subseteq BOOLEAN
    /\ form \in [enabled : BOOLEAN, device : Device, voice : BOOLEAN]
    /\ daemon \in [device : Device, running : BOOLEAN, autostart : BOOLEAN]
    /\ meter \in {"off", "connecting", "live", "simulated"}
    /\ ops \in [Slot -> Ops]
    /\ saved \in {Nothing} \union Asks

Loading(s) == ops[s] \in Loads /\ ops[s].alive

\* The switch is disabled exactly during a toggle, and there is one at a time.
OneToggle ==
    /\ autostartBusy <=> \E s \in Slot : ops[s] \in Toggles
    /\ \A s, u \in Slot : ops[s] \in Toggles /\ ops[u] \in Toggles => s = u

\* An opening loads once, and a closing leaves its load without effect.
OneLoad ==
    /\ \A s, u \in Slot : Loading(s) /\ Loading(u) => s = u
    /\ ~isOpen => \A s \in Slot : ~Loading(s)

\* A load and a toggle that do not overlap answer what the system has registered.
AnswersAreNow ==
    ~raced =>
        /\ \A s, u \in Slot : ops[s] \in Loads => ops[u] \notin Toggles
        /\ \A s \in Slot :
              (ops[s] \in Loads /\ ops[s].path = "status") \/ ops[s] \in Toggles =>
                  /\ ops[s].at = "on" => daemon.autostart
                  /\ ops[s].at = "off" => ~daemon.autostart

\* Once the load of an opening has ended, only a toggle makes the switch differ.
SwitchIsRead ==
    isOpen /\ daemonOnline /\ ~raced
    /\ (\A s \in Slot : ~Loading(s) /\ ops[s] \notin Toggles)
    => autostart = daemon.autostart

\* How far the daemon is with the form of a save that runs alone.
SaveIsOne ==
    saved.asked =>
        /\ \A s, u \in Slot : ops[s] \in Saves /\ ops[u] \in Saves => s = u
        /\ \A s \in Slot : ops[s] \in Saves =>
              /\ ops[s].arg.device = saved.device /\ ops[s].at # "failed"
              /\ ops[s].arg.enabled => saved.may
              /\ ops[s].path = "stream" \/ ops[s].at # "request" => daemon.device = saved.device
              /\ ops[s].path = "stream" /\ ops[s].at # "request" => (daemon.running => saved.may)
        /\ (\A s \in Slot : ops[s] \notin Saves) =>
              daemon.device = saved.device /\ (daemon.running => saved.may)

\* Before a first test only the count of the samples leads on, and a skip excuses it.
CountLeadsOn ==
    /\ wiz.step \in {"NONE", "INTRO"} => wiz.reps = 0 /\ wiz.captures = 0
    /\ wiz.step = "RECORDING" =>
          wiz.reps < Samples \/ wiz.armed \/ wiz.skipped \/ wiz.valState = "failed"

\* What the load, the switch and the saves keep.
DialogParts ==
    /\ DialogTypeOK /\ OneToggle /\ OneLoad /\ AnswersAreNow /\ SwitchIsRead /\ SaveIsOne
DialogInv == DialogParts /\ WizardTypeOK /\ CountLeadsOn
-----------------------------------------------------------------------------
(* The wizard. *)

\* The wizard starts without samples.
LEMMA WizardFresh ==
  ASSUME wiz' \in {Fresh, Gone}
  PROVE  WizardTypeOK' /\ CountLeadsOn'
  <1>1. 0 \in 0 .. MaxTimers /\ 0 \in 0 .. Ticks /\ 0 < Samples
    BY WizardAssumption
  <1>2. PICK first \in {"NONE", "INTRO"} :
           wiz' = [step |-> first, reps |-> 0, captures |-> 0, armed |-> FALSE,
                   progress |-> 0, valState |-> "listening", skipped |-> FALSE]
    BY DEF Fresh, Gone
  <1>3. WizardTypeOK'
    BY <1>1, <1>2 DEF WizardTypeOK
  <1>4. CountLeadsOn'
    BY <1>1, <1>2 DEF CountLeadsOn
  <1> QED BY <1>3, <1>4

\* What is not an action of the wizard leaves it alone, starts it or ends it.
LEMMA WizardSteps ==
  ASSUME [Next]_vars
  PROVE  wiz' = wiz \/ wiz' \in {Fresh, Gone} \/ Buttons \/ Timers
  BY
     DEF Next, vars, screen, Open, Close, onClose, setIsEnabled, setVoiceEnabled, handleReset,
         setSelectedDevice, Edit, handleToggleAutostart, handleSave, Serve, Lose, Resume,
         DevicesLoaded, StatusLoaded, Toggled, Selected, Saved, DaemonRestarts, Accept,
         Disconnected, setWizardOpen, CloseWizard, handleWizardComplete, ToastGone, WizardStep

\* The sample that completes the count sets the timer, whatever else is under way.
LEMMA WizardKept ==
  ASSUME WizardTypeOK, CountLeadsOn, [Next]_vars
  PROVE  WizardTypeOK' /\ CountLeadsOn'
  <1> USE WizardAssumption DEF WizardTypeOK, CountLeadsOn
  <1>1. CASE wiz' = wiz
    BY <1>1
  <1>2. CASE wiz' \in {Fresh, Gone}
    BY <1>2, WizardFresh
  <1>3. CASE Advance
    BY <1>3 DEF Advance
  <1>4. CASE triggerSpeechSimulation
    BY <1>4 DEF triggerSpeechSimulation
  <1>5. CASE Captured
    <2>1. wiz.captures - 1 \in 0 .. MaxTimers /\ wiz.reps + 1 \in Nat /\ wiz.captures # 0
      BY <1>5 DEF Captured
    <2>2. wiz' = [step |-> wiz.step, reps |-> wiz.reps + 1, captures |-> wiz.captures - 1,
                  armed |-> wiz.armed \/ wiz.reps + 1 = Samples, progress |-> wiz.progress,
                  valState |-> wiz.valState, skipped |-> wiz.skipped]
      BY <1>5 DEF Captured
    <2>3. (wiz.armed \/ wiz.reps + 1 = Samples) \in BOOLEAN
      OBVIOUS
    <2>4. WizardTypeOK'
      BY <2>1, <2>2, <2>3
    <2>5. /\ wiz'.step = wiz.step /\ wiz'.reps = wiz.reps + 1
          /\ wiz'.skipped = wiz.skipped /\ wiz'.valState = wiz.valState
          /\ wiz.armed => wiz'.armed
          /\ wiz.reps + 1 = Samples => wiz'.armed
      BY <2>2
    <2>6. wiz.step \notin {"NONE", "INTRO"} /\ wiz.reps \in Nat
      BY <2>1
    <2>7. wiz.step = "RECORDING" =>
             wiz.reps + 1 < Samples \/ wiz'.armed \/ wiz.skipped \/ wiz.valState = "failed"
      BY <2>5, <2>6
    <2>8. CountLeadsOn'
      BY <2>5, <2>6, <2>7
    <2> QED BY <2>4, <2>8
  <1>6. CASE Skip
    <2> DEFINE n == IF wiz.reps + 1 > Samples THEN Samples ELSE wiz.reps + 1
    <2>1. n \in Nat
      OBVIOUS
    <2>2. wiz' = [step |-> wiz.step, reps |-> n, captures |-> wiz.captures, armed |-> wiz.armed,
                  progress |-> wiz.progress, valState |-> wiz.valState, skipped |-> TRUE]
      BY <1>6 DEF Skip
    <2> QED BY <1>6, <2>1, <2>2 DEF Skip
  <1>7. CASE BeginTraining
    <2>1. 0 \in 0 .. Ticks
      OBVIOUS
    <2>2. wiz' = [step |-> "TRAINING", reps |-> wiz.reps, captures |-> wiz.captures,
                  armed |-> FALSE, progress |-> 0, valState |-> wiz.valState,
                  skipped |-> wiz.skipped]
      BY <1>7 DEF BeginTraining
    <2> QED BY <2>1, <2>2
  <1>8. CASE Tick
    BY <1>8 DEF Tick
  <1>9. CASE EndTraining
    BY <1>9 DEF EndTraining
  <1>10. CASE simulateValidationSpeech
    BY <1>10 DEF simulateValidationSpeech
  <1>11. CASE Analysed
    BY <1>11 DEF Analysed
  <1>12. CASE Retry
    BY <1>12 DEF Retry
  <1>13. CASE RecordAgain
    BY <1>13 DEF RecordAgain
  <1> QED BY <1>1, <1>2, <1>3, <1>4, <1>5, <1>6, <1>7, <1>8, <1>9, <1>10, <1>11, <1>12, <1>13,
       WizardSteps
     DEF Buttons, Timers

-----------------------------------------------------------------------------
(* The async functions of the dialog. *)

\* A function is of one kind.
LEMMA OneKind ==
  ASSUME NEW o \in Ops
  PROVE  /\ o \in Loads <=> o.kind = "load"
         /\ o \in Toggles <=> o.kind = "toggle"
         /\ o \in Saves <=> o.kind = "save"
         /\ o = Free <=> o.kind = "none"
  BY DEF Ops, Free, Loads, Toggles, Saves

\* Functions are of the same kind and hold the same.
Like(o, p) ==
    /\ o.kind = p.kind /\ o.arg = p.arg /\ o.alive = p.alive
    /\ o \in Loads <=> p \in Loads
    /\ o \in Toggles <=> p \in Toggles
    /\ o \in Saves <=> p \in Saves

\* One function changes.
OnlyOp(s) == ops' \in [Slot -> Ops] /\ \A u \in Slot \ {s} : ops'[u] = ops[u]

\* What a request does to its function.
LEMMA AtKept ==
  ASSUME ops \in [Slot -> Ops], NEW s \in Slot, ops[s] # Free, NEW a \in Where,
         ops' = [ops EXCEPT ![s].at = a]
  PROVE  /\ OnlyOp(s) /\ Like(ops'[s], ops[s])
         /\ ops'[s].path = ops[s].path /\ ops'[s].at = a
  <1>1. /\ ops'[s] = [ops[s] EXCEPT !.at = a]
        /\ \A u \in Slot \ {s} : ops'[u] = ops[u] /\ ops' = [ops EXCEPT ![s] = ops'[s]]
    OBVIOUS
  <1>2. CASE ops[s] \in Loads
    BY <1>1, <1>2 DEF Loads, Toggles, Saves, Ops, OnlyOp, Like, Where
  <1>3. CASE ops[s] \in Toggles
    BY <1>1, <1>3 DEF Loads, Toggles, Saves, Ops, OnlyOp, Like, Where
  <1>4. CASE ops[s] \in Saves
    BY <1>1, <1>4 DEF Loads, Toggles, Saves, Ops, OnlyOp, Like, Where
  <1> QED BY <1>2, <1>3, <1>4 DEF Ops

\* What the next call does to its function.
LEMMA AwaitKept ==
  ASSUME ops \in [Slot -> Ops], NEW s \in Slot, NEW p, Await(s, p),
         \/ ops[s] \in Loads /\ p \in {"devices", "status"}
         \/ ops[s] \in Saves /\ p \in {"select", "stream"}
  PROVE  /\ OnlyOp(s) /\ Like(ops'[s], ops[s])
         /\ ops'[s].path = p /\ ops'[s].at = "request"
  <1>1. \A u \in Slot \ {s} : ops'[u] = ops[u]
    BY DEF Await
  <1>2. ops'[s] = [kind |-> ops[s].kind, path |-> p, at |-> "request", arg |-> ops[s].arg,
                   alive |-> ops[s].alive]
    BY DEF Await, Loads, Saves
  <1>3. DOMAIN ops' = Slot /\ ops' = [u \in Slot |-> ops'[u]]
    BY DEF Await
  <1>4. CASE ops[s] \in Loads
    <2>1. ops'[s] \in Loads /\ ops'[s] \notin Toggles /\ ops'[s] \notin Saves
      BY <1>2, <1>4 DEF Loads, Toggles, Saves, Where
    <2>2. ops[s] \notin Toggles /\ ops[s] \notin Saves
      BY <1>4 DEF Loads, Toggles, Saves
    <2> QED BY <1>1, <1>2, <1>3, <1>4, <2>1, <2>2 DEF Ops, OnlyOp, Like
  <1>5. CASE ops[s] \in Saves
    <2>1. ops'[s] \in Saves /\ ops'[s] \notin Toggles /\ ops'[s] \notin Loads
      BY <1>2, <1>5 DEF Loads, Toggles, Saves, Where
    <2>2. ops[s] \notin Toggles /\ ops[s] \notin Loads
      BY <1>5 DEF Loads, Toggles, Saves
    <2> QED BY <1>1, <1>2, <1>3, <1>5, <2>1, <2>2 DEF Ops, OnlyOp, Like
  <1> QED BY <1>4, <1>5

\* A function that returns leaves its slot free.
LEMMA EndKept ==
  ASSUME ops \in [Slot -> Ops], NEW s \in Slot, End(s)
  PROVE  OnlyOp(s) /\ ops'[s] = Free
  BY DEF Ops, End, OnlyOp

\* A function that starts takes a free slot.
LEMMA BeginKept ==
  ASSUME ops \in [Slot -> Ops], NEW kind, NEW path, NEW arg, Begin(kind, path, arg)
  PROVE  \E s \in Slot :
            /\ ops[s] = Free
            /\ ops' = [ops EXCEPT ![s] = [kind |-> kind, path |-> path, at |-> "request",
                                          arg |-> arg, alive |-> TRUE]]
  <1> DEFINE S == Slot \ Busy
  <1>1. S \subseteq Nat /\ S # {}
    BY DeviceAssumption DEF Slot, Begin, Busy
  <1>2. PICK t \in S : \A u \in S : ~ (<<u, t>> \in OpToRel(<, Nat))
    BY <1>1, NatLessThanWellFounded, WFMin
  <1>3. \A u \in S : t <= u
    <2>1. \A u \in S : ~ (u < t)
      BY <1>1, <1>2 DEF OpToRel
    <2> QED BY <1>1, <2>1
  <1>4. Min(S) \in S
    BY <1>3 DEF Min
  <1> QED BY <1>4 DEF Begin, Busy

\* A load, a toggle and a save as they start.
LEMMA Begun ==
  ASSUME NEW path, NEW arg, NEW kind,
         \/ kind = "load" /\ path = "devices" /\ arg = {}
         \/ kind = "toggle" /\ path = "autostart" /\ arg \in BOOLEAN
         \/ kind = "save" /\ path = "select" /\ arg \in [device : Device, enabled : BOOLEAN]
  PROVE  LET o == [kind |-> kind, path |-> path, at |-> "request", arg |-> arg, alive |-> TRUE]
         IN  /\ o \in Ops
             /\ o \in Loads <=> kind = "load"
             /\ o \in Toggles <=> kind = "toggle"
             /\ o \in Saves <=> kind = "save"
  BY DEF Ops, Loads, Toggles, Saves, Where

\* A closing takes the effect from a load, and changes nothing else.
LEMMA LeftKept ==
  ASSUME ops \in [Slot -> Ops], NEW u \in Slot
  PROVE  /\ Left(ops[u]) \in Ops
         /\ Left(ops[u]).kind = ops[u].kind
         /\ ops[u] \in Loads => /\ ~Left(ops[u]).alive /\ Left(ops[u]).path = ops[u].path
                                /\ Left(ops[u]).at = ops[u].at /\ Left(ops[u]).arg = ops[u].arg
         /\ ops[u] \notin Loads => Left(ops[u]) = ops[u]
  <1>1. CASE ops[u] \in Loads
    <2>1. Left(ops[u]) = [kind |-> ops[u].kind, path |-> ops[u].path, at |-> ops[u].at,
                          arg |-> ops[u].arg, alive |-> FALSE]
      BY <1>1 DEF Left, Loads
    <2>2. Left(ops[u]) \in Loads
      BY <1>1, <2>1 DEF Loads
    <2> QED BY <1>1, <2>1, <2>2 DEF Ops
  <1>2. CASE ops[u] \notin Loads
    BY <1>2, OneKind DEF Left
  <1> QED BY <1>1, <1>2

\* What a call does to the daemon.
LEMMA ServedBy ==
  ASSUME DialogTypeOK, NEW s \in Slot, ops[s] # Free, NEW d \in Served(ops[s], daemon)
  PROVE  /\ d \in [device : Device, running : BOOLEAN, autostart : BOOLEAN]
         /\ ops[s] \in Loads => d = daemon
         /\ ops[s] \in Toggles => d.device = daemon.device /\ d.running = daemon.running
         /\ ops[s] \in Saves => d.autostart = daemon.autostart
         /\ ops[s] \in Saves /\ ops[s].path = "select" => d.device = ops[s].arg.device
         /\ ops[s] \in Saves /\ ops[s].path = "stream" =>
               d.device = daemon.device /\ (d.running => ops[s].arg.enabled)
  <1>1. daemon \in [device : Device, running : BOOLEAN, autostart : BOOLEAN] /\ ops[s] \in Ops
    BY DEF DialogTypeOK
  <1>2. CASE ops[s] \in Loads
    <2>1. d = daemon
      BY <1>2 DEF Served, Loads
    <2>2. ops[s] \notin Toggles /\ ops[s] \notin Saves
      BY <1>2 DEF Loads, Toggles, Saves
    <2> QED BY <1>1, <2>1, <2>2
  <1>3. CASE ops[s] \in Toggles
    <2>1. d \in {daemon, [daemon EXCEPT !.autostart = ops[s].arg]} /\ ops[s].arg \in BOOLEAN
      BY <1>3 DEF Served, Toggles
    <2>2. ops[s] \notin Loads /\ ops[s] \notin Saves
      BY <1>3 DEF Loads, Toggles, Saves
    <2> QED BY <1>1, <2>1, <2>2
  <1>4. CASE ops[s] \in Saves /\ ops[s].path = "select"
    <2>1. PICK r \in {FALSE, daemon.running} :
             d = [daemon EXCEPT !.device = ops[s].arg.device, !.running = r]
      BY <1>4 DEF Served
    <2>2. ops[s] \notin Loads /\ ops[s] \notin Toggles /\ ops[s].arg.device \in Device
      BY <1>4 DEF Loads, Toggles, Saves
    <2>3. d = [device |-> ops[s].arg.device, running |-> r, autostart |-> daemon.autostart]
      BY <1>1, <2>1
    <2> QED BY <1>1, <1>4, <2>2, <2>3
  <1>5. CASE ops[s] \in Saves /\ ops[s].path = "stream"
    <2>1. \/ ops[s].arg.enabled /\ d \in {daemon, [daemon EXCEPT !.running = TRUE]}
          \/ d = [daemon EXCEPT !.running = FALSE]
      BY <1>5 DEF Served
    <2>2. ops[s] \notin Loads /\ ops[s] \notin Toggles
      BY <1>5 DEF Loads, Toggles, Saves
    <2>3. CASE d = [daemon EXCEPT !.running = FALSE]
      BY <1>1, <1>5, <2>2, <2>3
    <2>4. CASE ops[s].arg.enabled /\ d \in {daemon, [daemon EXCEPT !.running = TRUE]}
      BY <1>1, <1>5, <2>2, <2>4
    <2> QED BY <2>1, <2>3, <2>4
  <1> QED BY <1>1, <1>2, <1>3, <1>4, <1>5 DEF Ops, Saves

-----------------------------------------------------------------------------
(* The actions. *)

\* Most of what the user does leaves the functions, the switch and the daemon alone.
LEMMA QuietKept ==
  ASSUME DialogParts, UNCHANGED <<isOpen, switch, ops, daemon, raced, saved>>,
         form' \in [enabled : BOOLEAN, device : Device, voice : BOOLEAN],
         {wizardOpen', toast'} \subseteq BOOLEAN,
         meter' \in {"off", "connecting", "live", "simulated"}
  PROVE  DialogParts'
  BY
     DEF DialogParts, DialogTypeOK, OneToggle, OneLoad, AnswersAreNow, SwitchIsRead, SaveIsOne,
         Loading, switch

\* An opening begins a load; whether it runs into a toggle is noted.
LEMMA OpenKept ==
  ASSUME DialogParts, Open
  PROVE  DialogParts'
  <1> DEFINE o == [kind |-> "load", path |-> "devices", at |-> "request", arg |-> {},
                   alive |-> TRUE]
  <1>1. PICK s \in Slot : ops[s] = Free /\ ops' = [ops EXCEPT ![s] = o]
    BY BeginKept DEF Open, DialogParts, DialogTypeOK
  <1>2. o \in Ops /\ o \in Loads /\ o \notin Toggles /\ o \notin Saves
    BY Begun
  <1>3. Free \notin Loads /\ Free \notin Toggles /\ Free \notin Saves
    BY DEF Free, Loads, Toggles, Saves
  <1>4. ops' \in [Slot -> Ops] /\ ops'[s] = o /\ \A u \in Slot \ {s} : ops'[u] = ops[u]
    BY <1>1, <1>2 DEF DialogParts, DialogTypeOK
  <1>5. /\ ~isOpen /\ isOpen' /\ UNCHANGED <<form, switch, wizardOpen, toast, daemon, saved>>
        /\ raced' \in BOOLEAN
        /\ ~raced' => /\ Under("toggle") = {}
                      /\ raced => Under("load") = {}
    BY DEF Open, DialogParts, DialogTypeOK
  <1>6. ~raced' => \A u \in Slot : /\ ops[u] \notin Toggles
                                   /\ raced => ops[u] \notin Loads
    BY <1>3, <1>5, OneKind DEF Under, Busy, DialogParts, DialogTypeOK
  <1>7. DialogTypeOK'
    BY <1>4, <1>5 DEF Open, Metered, DialogParts, DialogTypeOK, switch
  <1>8. OneToggle' /\ OneLoad'
    BY <1>1, <1>2, <1>3, <1>4, <1>5 DEF DialogParts, OneToggle, OneLoad, Loading, switch
  <1>9. AnswersAreNow'
    <2> SUFFICES ASSUME ~raced'
                 PROVE  AnswersAreNow'
      BY DEF AnswersAreNow
    <2>1. \A u \in Slot : ops'[u] \notin Toggles
      BY <1>2, <1>4, <1>6
    <2>2. \A u \in Slot : ops'[u] \in Loads => u = s \/ (~raced /\ ops'[u] = ops[u])
      BY <1>4, <1>5, <1>6 DEF DialogParts, DialogTypeOK
    <2>3. ops'[s].path # "status" /\ daemon' = daemon
      BY <1>4, <1>5
    <2> QED BY <2>1, <2>2, <2>3 DEF DialogParts, AnswersAreNow
  <1>10. SwitchIsRead'
    <2>1. Loading(s)'
      BY <1>2, <1>4 DEF Loading
    <2> QED BY <2>1 DEF SwitchIsRead
  <1>11. SaveIsOne'
    BY <1>1, <1>2, <1>3, <1>4, <1>5 DEF DialogParts, SaveIsOne
  <1> QED BY <1>7, <1>8, <1>9, <1>10, <1>11 DEF DialogParts

\* A closing, by the user or by a save that ends: the other functions go on.
LEMMA LeavingKept ==
  ASSUME DialogParts, isOpen' = FALSE, UNCHANGED <<switch, daemon, raced, saved>>,
         form' = form, wizardOpen' = wizardOpen, toast' = toast,
         meter' \in {"off", "connecting", "live", "simulated"},
         NEW X \in SUBSET Slot, \A u \in X : ops[u] \in Saves,
         saved.asked => \A u \in X : ops[u].path = "stream" /\ ops[u].at # "request",
         ops' = [u \in Slot |-> IF u \in X THEN Free ELSE Left(ops[u])]
  PROVE  DialogParts'
  <1> USE DEF DialogParts
  <1>1. /\ ops \in [Slot -> Ops]
        /\ \A u \in Slot : ops[u] \in Ops /\ (u \notin X => ops'[u] = Left(ops[u]))
        /\ \A u \in X : ops'[u] = Free
    BY DEF DialogTypeOK
  <1>2. Free \in Ops /\ Free \notin Loads /\ Free \notin Toggles /\ Free \notin Saves
    BY DEF Ops, Free, Loads, Toggles, Saves
  <1>3. ops' \in [Slot -> Ops] /\ \A u \in Slot : ops'[u] \in Ops
    BY <1>1, <1>2, LeftKept
  <1>4. \A u \in Slot \ X : /\ ops'[u] \in Loads <=> ops[u] \in Loads
                            /\ ops'[u] \in Toggles <=> ops[u] \in Toggles
                            /\ ops'[u] \in Saves <=> ops[u] \in Saves
    BY <1>1, <1>3, LeftKept, OneKind
  <1>5. \A u \in Slot \ X :
           /\ ops[u] \in Loads => /\ ~ops'[u].alive /\ ops'[u].path = ops[u].path
                                  /\ ops'[u].at = ops[u].at
           /\ ops[u] \notin Loads => ops'[u] = ops[u]
    BY <1>1, LeftKept
  <1>6. \A u \in Slot : /\ ops[u] \in Toggles \/ ops[u] \in Saves => ops[u] \notin Loads
                        /\ ops[u] \in Saves => ops[u] \notin Toggles
    BY DEF Loads, Toggles, Saves
  <1>7. DialogTypeOK'
    BY <1>3 DEF DialogTypeOK, switch
  <1>8. OneToggle' /\ OneLoad'
    BY <1>1, <1>2, <1>4, <1>5, <1>6 DEF OneToggle, OneLoad, Loading, switch
  <1>9. AnswersAreNow'
    BY <1>1, <1>2, <1>4, <1>5, <1>6 DEF AnswersAreNow
  <1>10. SwitchIsRead'
    BY DEF SwitchIsRead
  <1>11. SaveIsOne'
    <2> SUFFICES ASSUME saved.asked
                 PROVE  SaveIsOne'
      BY DEF SaveIsOne
    <2>1. CASE X = {}
      BY <1>4, <1>5, <1>6, <2>1 DEF SaveIsOne
    <2>2. CASE X # {}
      <3>1. PICK s \in X : TRUE
        BY <2>2
      <3>2. \A u \in Slot : ops[u] \in Saves => u = s
        BY <3>1 DEF SaveIsOne
      <3>3. \A u \in Slot : ops'[u] \notin Saves
        BY <1>1, <1>2, <1>4, <3>1, <3>2
      <3>4. daemon.device = saved.device /\ (daemon.running => saved.may)
        BY <3>1 DEF SaveIsOne
      <3> QED BY <3>3, <3>4 DEF SaveIsOne
    <2> QED BY <2>1, <2>2
  <1> QED BY <1>7, <1>8, <1>9, <1>10, <1>11

\* A toggle begins, and shows what it asks for; whether it runs into a load is noted.
LEMMA ToggleKept ==
  ASSUME DialogParts, handleToggleAutostart
  PROVE  DialogParts'
  <1> USE DEF DialogParts
  <1> DEFINE o == [kind |-> "toggle", path |-> "autostart", at |-> "request",
                   arg |-> ~autostart, alive |-> TRUE]
  <1>1. PICK s \in Slot : ops[s] = Free /\ ops' = [ops EXCEPT ![s] = o]
    BY BeginKept DEF handleToggleAutostart, DialogTypeOK
  <1>2. o \in Ops /\ o \in Toggles /\ o \notin Loads /\ o \notin Saves
    <2>1. (~ autostart) \in BOOLEAN
      OBVIOUS
    <2> QED BY <2>1, Begun
  <1>3. Free \notin Loads /\ Free \notin Toggles /\ Free \notin Saves
    BY DEF Free, Loads, Toggles, Saves
  <1>4. ops' \in [Slot -> Ops] /\ ops'[s] = o /\ \A u \in Slot \ {s} : ops'[u] = ops[u]
    BY <1>1, <1>2 DEF DialogTypeOK
  <1>5. /\ UNCHANGED <<isOpen, form, daemonOnline, wizardOpen, toast, daemon, saved>>
        /\ autostartBusy' = TRUE /\ autostart' \in BOOLEAN /\ ~autostartBusy
        /\ raced' \in BOOLEAN
        /\ ~raced' => ~raced /\ Under("load") = {}
    BY DEF handleToggleAutostart, DialogTypeOK, screen
  <1>6. ~raced' => \A u \in Slot : ops[u] \notin Loads
    BY <1>3, <1>5, OneKind DEF Under, Busy, DialogTypeOK
  <1>7. \A u \in Slot : ops[u] \notin Toggles
    BY <1>5 DEF OneToggle
  <1>8. DialogTypeOK'
    BY <1>4, <1>5 DEF handleToggleAutostart, DialogTypeOK
  <1>9. OneToggle' /\ OneLoad'
    BY <1>1, <1>2, <1>3, <1>4, <1>5, <1>7 DEF OneToggle, OneLoad, Loading
  <1>10. AnswersAreNow'
    <2>1. \A u \in Slot : ~raced' => ops'[u] \notin Loads
      BY <1>2, <1>4, <1>6
    <2>2. \A u \in Slot : ops'[u] \in Toggles => u = s /\ ops'[u].at = "request"
      BY <1>4, <1>7
    <2> QED BY <2>1, <2>2 DEF AnswersAreNow
  <1>11. SwitchIsRead'
    <2>1. ops'[s] \in Toggles
      BY <1>2, <1>4
    <2> QED BY <2>1 DEF SwitchIsRead
  <1>12. SaveIsOne'
    BY <1>1, <1>2, <1>3, <1>4, <1>5 DEF SaveIsOne
  <1> QED BY <1>8, <1>9, <1>10, <1>11, <1>12

\* A save begins with the form; beside another one it is not followed.
LEMMA SaveKept ==
  ASSUME DialogParts, handleSave
  PROVE  DialogParts'
  <1> USE DEF DialogParts
  <1> DEFINE o == [kind |-> "save", path |-> "select", at |-> "request", arg |-> Asked,
                   alive |-> TRUE]
  <1>0. Asked \in [device : Device, enabled : BOOLEAN] /\ Asked.device = form.device
        /\ Asked.enabled = form.enabled
    BY DEF Asked, DialogTypeOK
  <1>1. PICK s \in Slot : ops[s] = Free /\ ops' = [ops EXCEPT ![s] = o]
    BY BeginKept DEF handleSave, DialogTypeOK
  <1>2. o \in Ops /\ o \in Saves /\ o \notin Loads /\ o \notin Toggles
    BY <1>0, Begun
  <1>3. Free \notin Loads /\ Free \notin Toggles /\ Free \notin Saves
    BY DEF Free, Loads, Toggles, Saves
  <1>4. ops' \in [Slot -> Ops] /\ ops'[s] = o /\ \A u \in Slot \ {s} : ops'[u] = ops[u]
    BY <1>1, <1>2 DEF DialogTypeOK
  <1>5. /\ UNCHANGED <<isOpen, form, switch, wizardOpen, toast, meter, daemon, raced>>
        /\ saved' = IF Under("save") # {} THEN Nothing
                    ELSE [asked |-> TRUE, device |-> form.device, may |-> form.enabled]
    BY DEF handleSave, screen
  <1>6. saved' \in {Nothing} \union Asks
    <2>1. [asked |-> TRUE, device |-> form.device, may |-> form.enabled] \in Asks
      BY DEF Asks, DialogTypeOK
    <2> QED BY <1>5, <2>1
  <1>7. DialogTypeOK'
    BY <1>4, <1>5, <1>6 DEF DialogTypeOK, switch
  <1>8. OneToggle' /\ OneLoad'
    BY <1>1, <1>2, <1>3, <1>4, <1>5 DEF OneToggle, OneLoad, Loading, switch
  <1>9. AnswersAreNow'
    BY <1>1, <1>2, <1>3, <1>4, <1>5 DEF AnswersAreNow
  <1>10. SwitchIsRead'
    BY <1>1, <1>2, <1>3, <1>4, <1>5 DEF SwitchIsRead, Loading, switch
  <1>11. SaveIsOne'
    <2>1. CASE Under("save") # {}
      BY <1>5, <2>1 DEF Nothing, SaveIsOne
    <2>2. CASE Under("save") = {}
      <3>1. \A u \in Slot : ops[u] \notin Saves
        BY <1>3, <2>2, OneKind DEF Under, Busy, DialogTypeOK
      <3>2. /\ saved'.device = form.device /\ saved'.may = form.enabled
            /\ ops'[s].arg = Asked /\ ops'[s].path = "select" /\ ops'[s].at = "request"
        BY <1>4, <1>5, <2>2
      <3>3. \A u \in Slot : ops'[u] \in Saves <=> u = s
        BY <1>2, <1>4, <3>1
      <3> QED BY <1>0, <3>2, <3>3 DEF SaveIsOne
    <2> QED BY <2>1, <2>2
  <1> QED BY <1>7, <1>8, <1>9, <1>10, <1>11

\* A call is served: only a toggle moves what the system has registered, only a save the
\* microphone.
LEMMA ServeKept ==
  ASSUME DialogParts, NEW s \in Slot, Serve(s)
  PROVE  DialogParts'
  <1> USE DEF DialogParts
  <1>1. PICK d \in Served(ops[s], daemon) :
           /\ daemon' = d
           /\ ops' = [ops EXCEPT ![s].at = IF ops[s].path \in {"status", "autostart"} /\ ~d.autostart
                                             THEN "off" ELSE "on"]
    BY DEF Serve
  <1>2. /\ ops[s] # Free /\ ops[s].at = "request"
        /\ UNCHANGED <<isOpen, form, switch, wizardOpen, toast, meter, raced, saved>>
    BY DEF Serve, screen
  <1> DEFINE a == IF ops[s].path \in {"status", "autostart"} /\ ~d.autostart THEN "off" ELSE "on"
  <1>3. /\ OnlyOp(s) /\ Like(ops'[s], ops[s])
        /\ ops'[s].path = ops[s].path /\ ops'[s].at = a
    BY <1>1, <1>2, AtKept DEF DialogTypeOK, Where
  <1>4. ops[s] \in Ops /\ \A u \in Slot : ops[u] \in Ops
    BY DEF DialogTypeOK
  <1>5. DialogTypeOK'
    BY <1>1, <1>2, <1>3, ServedBy DEF OnlyOp, DialogTypeOK, switch
  <1>6. \A u \in Slot : /\ Like(ops'[u], ops[u]) /\ ops'[u].path = ops[u].path
                        /\ u # s => ops'[u] = ops[u]
    BY <1>3 DEF OnlyOp, Like
  <1>7. OneToggle' /\ OneLoad'
    BY <1>2, <1>6 DEF OneToggle, OneLoad, Loading, switch, Like
  <1>8. CASE ops[s] \in Loads
    <2>1. daemon' = daemon /\ ops[s] \notin Toggles /\ ops[s] \notin Saves
      BY <1>1, <1>2, <1>8, ServedBy DEF Loads, Toggles, Saves
    <2>2. AnswersAreNow'
      BY <1>1, <1>2, <1>3, <1>6, <2>1 DEF AnswersAreNow, Like
    <2>3. SwitchIsRead'
      BY <1>2, <1>6, <2>1 DEF SwitchIsRead, Loading, switch, Like
    <2>4. SaveIsOne'
      BY <1>2, <1>6, <2>1 DEF SaveIsOne, Like
    <2> QED BY <1>5, <1>7, <2>2, <2>3, <2>4
  <1>9. CASE ops[s] \in Toggles
    <2>1. /\ daemon'.device = daemon.device /\ daemon'.running = daemon.running
          /\ ops[s].path = "autostart" /\ ops[s] \notin Loads /\ ops[s] \notin Saves
      BY <1>1, <1>2, <1>9, ServedBy DEF Loads, Toggles, Saves
    <2>2. AnswersAreNow'
      <3> SUFFICES ASSUME ~raced'
                   PROVE  AnswersAreNow'
        BY DEF AnswersAreNow
      <3>1. \A u \in Slot : ops'[u] \notin Loads /\ (ops'[u] \in Toggles => u = s)
        BY <1>2, <1>6, <1>9 DEF AnswersAreNow, OneToggle, Like
      <3>2. /\ ops'[s].at = "on" => daemon'.autostart
            /\ ops'[s].at = "off" => ~daemon'.autostart
        BY <1>1, <1>3, <2>1
      <3> QED BY <3>1, <3>2 DEF AnswersAreNow
    <2>3. SwitchIsRead'
      BY <1>6, <1>9 DEF SwitchIsRead, Like
    <2>4. SaveIsOne'
      BY <1>2, <1>6, <2>1 DEF SaveIsOne, Like
    <2> QED BY <1>5, <1>7, <2>2, <2>3, <2>4
  <1>10. CASE ops[s] \in Saves
    <2>1. /\ daemon'.autostart = daemon.autostart
          /\ ops[s].path \in {"select", "stream"} /\ ops[s] \notin Loads /\ ops[s] \notin Toggles
      BY <1>1, <1>2, <1>10, ServedBy DEF Loads, Toggles, Saves
    <2>2. AnswersAreNow'
      BY <1>2, <1>6, <2>1 DEF AnswersAreNow, Like
    <2>3. SwitchIsRead'
      BY <1>2, <1>6, <2>1 DEF SwitchIsRead, Loading, switch, Like
    <2>4. SaveIsOne'
      <3> SUFFICES ASSUME saved.asked
                   PROVE  SaveIsOne'
        BY <1>2 DEF SaveIsOne
      <3>1. \A u \in Slot : ops'[u] \in Saves <=> u = s
        BY <1>6, <1>10 DEF SaveIsOne, Like
      <3>2. /\ ops[s].arg.device = saved.device
            /\ ops[s].arg.enabled => saved.may
            /\ ops[s].path = "stream" => daemon.device = saved.device
        BY <1>10 DEF SaveIsOne
      <3>3. /\ daemon'.device = saved.device
            /\ ops[s].path = "stream" => (daemon'.running => saved.may)
        BY <1>1, <1>2, <1>10, <2>1, <3>2, ServedBy
      <3>4. ops'[s].arg = ops[s].arg /\ ops'[s].path = ops[s].path /\ ops'[s].at # "failed"
        BY <1>3 DEF Like
      <3> QED BY <1>2, <3>1, <3>2, <3>3, <3>4 DEF SaveIsOne
    <2> QED BY <1>5, <1>7, <2>2, <2>3, <2>4
  <1> QED BY <1>2, <1>4, <1>8, <1>9, <1>10 DEF Ops

\* A request that is lost ends what is known of its save.
LEMMA LoseKept ==
  ASSUME DialogParts, NEW s \in Slot, Lose(s)
  PROVE  DialogParts'
  <1> USE DEF DialogParts
  <1>1. /\ ops[s] # Free /\ ops' = [ops EXCEPT ![s].at = "failed"]
        /\ saved' = IF ops[s].kind = "save" THEN Nothing ELSE saved
        /\ UNCHANGED <<isOpen, form, switch, wizardOpen, toast, meter, daemon, raced>>
    BY DEF Lose, screen
  <1>2. /\ OnlyOp(s) /\ Like(ops'[s], ops[s])
        /\ ops'[s].path = ops[s].path /\ ops'[s].at = "failed"
    BY <1>1, AtKept DEF DialogTypeOK, Where
  <1>3. \A u \in Slot : /\ Like(ops'[u], ops[u]) /\ ops'[u].path = ops[u].path
                        /\ u # s => ops'[u] = ops[u]
    BY <1>2 DEF OnlyOp, Like
  <1>4. DialogTypeOK'
    BY <1>1, <1>2 DEF OnlyOp, DialogTypeOK, switch
  <1>5. OneToggle' /\ OneLoad'
    BY <1>1, <1>3 DEF OneToggle, OneLoad, Loading, switch, Like
  <1>6. AnswersAreNow'
    BY <1>1, <1>2, <1>3 DEF AnswersAreNow, Like
  <1>7. SwitchIsRead'
    BY <1>1, <1>3 DEF SwitchIsRead, Loading, switch, Like
  <1>8. SaveIsOne'
    <2>1. CASE ops[s] \in Saves
      <3>1. saved' = Nothing
        BY <1>1, <2>1 DEF Saves
      <3> QED BY <3>1 DEF Nothing, SaveIsOne
    <2>2. CASE ops[s] \notin Saves
      <3>1. ops[s] \in Ops /\ ops[s].kind # "save"
        BY <2>2, OneKind DEF DialogTypeOK
      <3> QED BY <1>1, <1>3, <2>2, <3>1 DEF SaveIsOne, Like
    <2> QED BY <2>1, <2>2
  <1> QED BY <1>4, <1>5, <1>6, <1>7, <1>8

\* The devices of a load are in, and its second call is made.
LEMMA DevicesKept ==
  ASSUME DialogParts, NEW s \in Slot, DevicesLoaded(s)
  PROVE  DialogParts'
  <1> USE DEF DialogParts
  <1>1. /\ ops[s] # Free /\ ops[s].kind = "load" /\ Await(s, "status")
        /\ UNCHANGED <<isOpen, switch, wizardOpen, toast, meter, daemon, raced, saved>>
    BY DEF DevicesLoaded, Answered, screen
  <1>2. ops[s] \in Loads /\ ops[s] \notin Toggles /\ ops[s] \notin Saves
    BY <1>1, OneKind DEF DialogTypeOK, Loads, Toggles, Saves
  <1>3. /\ OnlyOp(s) /\ Like(ops'[s], ops[s])
        /\ ops'[s].path = "status" /\ ops'[s].at = "request"
    BY <1>1, <1>2, AwaitKept DEF DialogTypeOK
  <1>4. \A u \in Slot : Like(ops'[u], ops[u]) /\ (u # s => ops'[u] = ops[u])
    BY <1>3 DEF OnlyOp, Like
  <1>5. form' \in [enabled : BOOLEAN, device : Device, voice : BOOLEAN]
    BY DeviceAssumption DEF DevicesLoaded, DialogTypeOK
  <1>6. DialogTypeOK'
    BY <1>1, <1>3, <1>5 DEF OnlyOp, DialogTypeOK, switch
  <1>7. OneToggle' /\ OneLoad'
    BY <1>1, <1>4 DEF OneToggle, OneLoad, Loading, switch, Like
  <1>8. AnswersAreNow'
    BY <1>1, <1>3, <1>4 DEF AnswersAreNow, Like
  <1>9. SwitchIsRead'
    BY <1>1, <1>4 DEF SwitchIsRead, Loading, switch, Like
  <1>10. SaveIsOne'
    BY <1>1, <1>2, <1>4 DEF SaveIsOne, Like
  <1> QED BY <1>6, <1>7, <1>8, <1>9, <1>10

\* A load ends: it shows what it was answered, unless the dialog has closed meanwhile.
LEMMA StatusKept ==
  ASSUME DialogParts, NEW s \in Slot, StatusLoaded(s)
  PROVE  DialogParts'
  <1> USE DEF DialogParts
  <1>1. /\ ops[s] # Free /\ ops[s].kind = "load" /\ ops[s].path = "status"
        /\ ops[s].at # "request" /\ End(s)
        /\ UNCHANGED <<isOpen, form, autostartBusy, wizardOpen, toast, meter, daemon, raced, saved>>
        /\ IF ~ops[s].alive THEN UNCHANGED <<autostart, daemonOnline>>
           ELSE /\ daemonOnline' = (ops[s].at # "failed")
                /\ autostart' = IF ops[s].at = "failed" THEN autostart ELSE ops[s].at = "on"
    BY DEF StatusLoaded, Answered, screen, switch, Failed, Confirmed
  <1>2. ops[s] \in Loads /\ ops[s].at \in Where
    BY <1>1, OneKind DEF DialogTypeOK, Loads
  <1>3. Free \notin Loads /\ Free \notin Toggles /\ Free \notin Saves
    BY DEF Free, Loads, Toggles, Saves
  <1>4. OnlyOp(s) /\ ops'[s] = Free /\ ops[s] \notin Toggles /\ ops[s] \notin Saves
    BY <1>1, <1>2, EndKept DEF DialogTypeOK, Loads, Toggles, Saves
  <1>5. autostart' \in BOOLEAN /\ daemonOnline' \in BOOLEAN
    BY <1>1 DEF DialogTypeOK
  <1>6. DialogTypeOK'
    BY <1>1, <1>4, <1>5 DEF OnlyOp, DialogTypeOK
  <1>7. OneToggle' /\ OneLoad'
    BY <1>1, <1>3, <1>4 DEF OneToggle, OneLoad, Loading, OnlyOp
  <1>8. AnswersAreNow'
    BY <1>1, <1>3, <1>4 DEF AnswersAreNow, OnlyOp
  <1>9. SwitchIsRead'
    <2> SUFFICES ASSUME isOpen', daemonOnline', ~raced',
                        \A u \in Slot : ~Loading(u)' /\ ops'[u] \notin Toggles
                 PROVE  autostart' = daemon'.autostart
      BY DEF SwitchIsRead
    <2>1. \A u \in Slot : ops[u] \notin Toggles /\ (u # s => ~Loading(u))
      BY <1>4 DEF OnlyOp, Loading
    <2>2. CASE ops[s].alive
      <3>1. ops[s].at \in {"on", "off"} /\ autostart' = (ops[s].at = "on")
        BY <1>1, <1>2, <2>2 DEF Where
      <3>2. /\ ops[s].at = "on" => daemon.autostart
            /\ ops[s].at = "off" => ~daemon.autostart
        BY <1>1, <1>2 DEF AnswersAreNow
      <3>3. daemon.autostart \in BOOLEAN /\ daemon' = daemon
        BY <1>1 DEF DialogTypeOK
      <3> QED BY <3>1, <3>2, <3>3
    <2>3. CASE ~ops[s].alive
      <3>1. ~Loading(s) /\ UNCHANGED <<autostart, daemonOnline>>
        BY <1>1, <2>3 DEF Loading
      <3> QED BY <1>1, <2>1, <3>1 DEF SwitchIsRead
    <2> QED BY <2>2, <2>3
  <1>10. SaveIsOne'
    BY <1>1, <1>3, <1>4 DEF SaveIsOne, OnlyOp
  <1> QED BY <1>6, <1>7, <1>8, <1>9, <1>10

\* A toggle ends: the switch shows the answer, which is what the system has registered.
LEMMA ToggledKept ==
  ASSUME DialogParts, NEW s \in Slot, Toggled(s)
  PROVE  DialogParts'
  <1> USE DEF DialogParts
  <1>1. /\ ops[s] # Free /\ ops[s].kind = "toggle" /\ ops[s].at # "request" /\ End(s)
        /\ UNCHANGED <<isOpen, form, wizardOpen, toast, meter, daemon, raced, saved>>
        /\ daemonOnline' = (ops[s].at # "failed") /\ autostartBusy' = FALSE
        /\ autostart' = IF ops[s].at = "failed" THEN ~ops[s].arg ELSE ops[s].at = "on"
    BY DEF Toggled, Answered, screen, Failed, Confirmed
  <1>2. ops[s] \in Toggles /\ ops[s].at \in Where
    BY <1>1, OneKind DEF DialogTypeOK, Toggles
  <1>3. Free \notin Loads /\ Free \notin Toggles /\ Free \notin Saves
    BY DEF Free, Loads, Toggles, Saves
  <1>4. OnlyOp(s) /\ ops'[s] = Free /\ ops[s] \notin Loads /\ ops[s] \notin Saves
    BY <1>1, <1>2, EndKept DEF DialogTypeOK, Loads, Toggles, Saves
  <1>5. autostart' \in BOOLEAN /\ daemonOnline' \in BOOLEAN
    BY <1>1, <1>2 DEF Toggles
  <1>6. DialogTypeOK'
    BY <1>1, <1>4, <1>5 DEF OnlyOp, DialogTypeOK
  <1>7. \A u \in Slot : ops'[u] \notin Toggles
    BY <1>2, <1>3, <1>4 DEF OneToggle, OnlyOp
  <1>8. OneToggle' /\ OneLoad'
    BY <1>1, <1>3, <1>4, <1>7 DEF OneToggle, OneLoad, Loading, OnlyOp
  <1>9. AnswersAreNow'
    BY <1>1, <1>3, <1>4 DEF AnswersAreNow, OnlyOp
  <1>10. SwitchIsRead'
    <2> SUFFICES ASSUME daemonOnline', ~raced'
                 PROVE  autostart' = daemon'.autostart
      BY DEF SwitchIsRead
    <2>1. ops[s].at \in {"on", "off"} /\ autostart' = (ops[s].at = "on")
      BY <1>1, <1>2 DEF Where
    <2>2. /\ ops[s].at = "on" => daemon.autostart
          /\ ops[s].at = "off" => ~daemon.autostart
      BY <1>1, <1>2 DEF AnswersAreNow
    <2>3. daemon.autostart \in BOOLEAN /\ daemon' = daemon
      BY <1>1 DEF DialogTypeOK
    <2> QED BY <2>1, <2>2, <2>3
  <1>11. SaveIsOne'
    BY <1>1, <1>3, <1>4 DEF SaveIsOne, OnlyOp
  <1> QED BY <1>6, <1>8, <1>9, <1>10, <1>11

\* A save makes its second call, with the form of its click.
LEMMA SelectedKept ==
  ASSUME DialogParts, NEW s \in Slot, Selected(s)
  PROVE  DialogParts'
  <1> USE DEF DialogParts
  <1>1. /\ ops[s] # Free /\ ops[s].kind = "save" /\ ops[s].at # "request"
        /\ ops[s].path = "select" /\ Await(s, "stream")
        /\ UNCHANGED <<isOpen, form, switch, wizardOpen, toast, meter, daemon, raced, saved>>
    BY DEF Selected, Answered, screen
  <1>2. ops[s] \in Saves /\ ops[s] \notin Toggles /\ ops[s] \notin Loads
    BY <1>1, OneKind DEF DialogTypeOK, Loads, Toggles, Saves
  <1>3. /\ OnlyOp(s) /\ Like(ops'[s], ops[s])
        /\ ops'[s].path = "stream" /\ ops'[s].at = "request"
    BY <1>1, <1>2, AwaitKept DEF DialogTypeOK
  <1>4. \A u \in Slot : Like(ops'[u], ops[u]) /\ (u # s => ops'[u] = ops[u])
    BY <1>3 DEF OnlyOp, Like
  <1>5. DialogTypeOK'
    BY <1>1, <1>3 DEF OnlyOp, DialogTypeOK, switch
  <1>6. OneToggle' /\ OneLoad'
    BY <1>1, <1>4 DEF OneToggle, OneLoad, Loading, switch, Like
  <1>7. AnswersAreNow'
    BY <1>1, <1>2, <1>4 DEF AnswersAreNow, Like
  <1>8. SwitchIsRead'
    BY <1>1, <1>4 DEF SwitchIsRead, Loading, switch, Like
  <1>9. SaveIsOne'
    BY <1>1, <1>2, <1>3, <1>4 DEF SaveIsOne, Like
  <1> QED BY <1>5, <1>6, <1>7, <1>8, <1>9

\* The meter stays one of its kinds.
LEMMA MeterKept ==
  ASSUME DialogTypeOK, Metered
  PROVE  meter' \in {"off", "connecting", "live", "simulated"}
  BY DEF DialogTypeOK, Metered

\* The user closes the dialog.
LEMMA CloseKept ==
  ASSUME DialogParts, Close
  PROVE  DialogParts'
  <1>1. /\ isOpen' = FALSE /\ Metered
        /\ UNCHANGED <<form, switch, wizardOpen, toast, daemon, raced, saved>>
        /\ ops' = [u \in Slot |-> IF u \in {} THEN Free ELSE Left(ops[u])]
    BY DEF Close, onClose
  <1>2. meter' \in {"off", "connecting", "live", "simulated"}
    BY <1>1, MeterKept DEF DialogParts
  <1>3. /\ UNCHANGED <<switch, daemon, raced, saved>>
        /\ form' = form /\ wizardOpen' = wizardOpen /\ toast' = toast
    BY <1>1
  <1>4. /\ {} \in SUBSET Slot
        /\ \A u \in {} : ops[u] \in Saves
        /\ saved.asked => \A u \in {} : ops[u].path = "stream" /\ ops[u].at # "request"
    OBVIOUS
  <1> QED BY <1>1, <1>2, <1>3, <1>4, LeavingKept, Zenon

\* A save ends; one that nothing was lost of has made both calls.
LEMMA SavedKept ==
  ASSUME DialogParts, NEW s \in Slot, Saved(s)
  PROVE  DialogParts'
  <1>1. /\ isOpen' = FALSE /\ Metered
        /\ UNCHANGED <<form, switch, wizardOpen, toast, daemon, raced, saved>>
        /\ ops' = [u \in Slot |-> IF u \in {s} THEN Free ELSE Left(ops[u])]
        /\ ops[s].kind = "save" /\ ops[s].at # "request"
        /\ ops[s].at = "failed" \/ ops[s].path = "stream"
    BY DEF Saved, SaveEnded, Answered, Failed, onClose
  <1>2. meter' \in {"off", "connecting", "live", "simulated"}
    BY <1>1, MeterKept DEF DialogParts
  <1>3. ops[s] \in Saves
    BY <1>1, OneKind DEF DialogParts, DialogTypeOK
  <1>4. saved.asked => ops[s].path = "stream" /\ ops[s].at # "request"
    BY <1>1, <1>3 DEF DialogParts, SaveIsOne
  <1>5. \A u \in {s} : ops[u] \in Saves
    BY <1>3
  <1>6. saved.asked => \A u \in {s} : ops[u].path = "stream" /\ ops[u].at # "request"
    BY <1>4
  <1>7. /\ UNCHANGED <<switch, daemon, raced, saved>>
        /\ form' = form /\ wizardOpen' = wizardOpen /\ toast' = toast
        /\ {s} \in SUBSET Slot
    BY <1>1
  <1> QED BY <1>1, <1>2, <1>5, <1>6, <1>7, LeavingKept, Zenon

\* A restart ends what is known of the last save.
LEMMA DaemonRestartsKept ==
  ASSUME DialogParts, DaemonRestarts
  PROVE  DialogParts'
  <1> USE DEF DialogParts
  <1>1. PICK r \in BOOLEAN : daemon' = [daemon EXCEPT !.device = Boot, !.running = r]
    BY DEF DaemonRestarts
  <1>2. /\ UNCHANGED <<isOpen, form, switch, wizardOpen, toast, ops, raced>>
        /\ saved' = Nothing /\ meter' \in {meter, "simulated"}
    BY DEF DaemonRestarts, screen
  <1>3. /\ daemon' \in [device : Device, running : BOOLEAN, autostart : BOOLEAN]
        /\ daemon'.autostart = daemon.autostart
    BY <1>1, DeviceAssumption DEF DialogTypeOK
  <1>4. DialogTypeOK'
    BY <1>2, <1>3 DEF DialogTypeOK, switch
  <1>5. OneToggle' /\ OneLoad' /\ AnswersAreNow' /\ SwitchIsRead'
    BY <1>2, <1>3 DEF OneToggle, OneLoad, AnswersAreNow, SwitchIsRead, Loading, switch
  <1>6. SaveIsOne'
    BY <1>2 DEF Nothing, SaveIsOne
  <1> QED BY <1>4, <1>5, <1>6

\* A meter that connects may start the microphone, and then it may run.
LEMMA AcceptKept ==
  ASSUME DialogParts, Accept
  PROVE  DialogParts'
  <1> USE DEF DialogParts
  <1>1. PICK r \in {TRUE, daemon.running} : daemon' = [daemon EXCEPT !.running = r]
    BY DEF Accept
  <1>2. /\ UNCHANGED <<isOpen, form, switch, wizardOpen, toast, ops, raced>>
        /\ saved' = (IF saved.asked THEN [saved EXCEPT !.may = TRUE] ELSE saved) /\ meter' = "live"
    BY DEF Accept, screen
  <1>3. /\ daemon' \in [device : Device, running : BOOLEAN, autostart : BOOLEAN]
        /\ daemon'.autostart = daemon.autostart /\ daemon'.device = daemon.device
    BY <1>1 DEF DialogTypeOK
  <1>4. CASE saved.asked
    <2>1. saved \in Asks
      BY <1>4 DEF DialogTypeOK, Nothing
    <2>2. saved' \in Asks /\ saved'.device = saved.device /\ saved'.may = TRUE
      BY <1>2, <1>4, <2>1 DEF Asks
    <2>3. DialogTypeOK'
      BY <1>2, <1>3, <2>2 DEF DialogTypeOK, switch
    <2>4. OneToggle' /\ OneLoad' /\ AnswersAreNow' /\ SwitchIsRead'
      BY <1>2, <1>3 DEF OneToggle, OneLoad, AnswersAreNow, SwitchIsRead, Loading, switch
    <2>5. SaveIsOne'
      BY <1>2, <1>3, <1>4, <2>2 DEF SaveIsOne
    <2> QED BY <2>3, <2>4, <2>5
  <1>5. CASE ~saved.asked
    <2>1. DialogTypeOK'
      BY <1>2, <1>3, <1>5 DEF DialogTypeOK, switch
    <2>2. OneToggle' /\ OneLoad' /\ AnswersAreNow' /\ SwitchIsRead'
      BY <1>2, <1>3 DEF OneToggle, OneLoad, AnswersAreNow, SwitchIsRead, Loading, switch
    <2>3. SaveIsOne'
      BY <1>2, <1>5 DEF SaveIsOne
    <2> QED BY <2>1, <2>2, <2>3
  <1> QED BY <1>4, <1>5

\* The rest: the controls, the meter that fails, the wizard and the toast.
LEMMA QuietSteps ==
  ASSUME DialogTypeOK,
         \/ setIsEnabled \/ setVoiceEnabled \/ handleReset
         \/ \E d \in Device : setSelectedDevice(d)
         \/ Disconnected \/ setWizardOpen \/ CloseWizard \/ handleWizardComplete \/ ToastGone
         \/ WizardStep(Buttons) \/ WizardStep(Timers) \/ UNCHANGED vars
  PROVE  /\ UNCHANGED <<isOpen, switch, ops, daemon, raced, saved>>
         /\ form' \in [enabled : BOOLEAN, device : Device, voice : BOOLEAN]
         /\ {wizardOpen', toast'} \subseteq BOOLEAN
         /\ meter' \in {"off", "connecting", "live", "simulated"}
  <1>1. ASSUME NEW f \in [enabled : BOOLEAN, device : Device, voice : BOOLEAN], Edit(f)
        PROVE  /\ UNCHANGED <<isOpen, switch, ops, daemon, raced, saved>>
               /\ form' \in [enabled : BOOLEAN, device : Device, voice : BOOLEAN]
               /\ {wizardOpen', toast'} \subseteq BOOLEAN
               /\ meter' \in {"off", "connecting", "live", "simulated"}
    BY <1>1, MeterKept DEF Edit, screen, DialogTypeOK
  <1>2. CASE setIsEnabled
    <2>1. [form EXCEPT !.enabled = ~@] \in [enabled : BOOLEAN, device : Device, voice : BOOLEAN]
      BY DEF DialogTypeOK
    <2> QED BY <1>1, <1>2, <2>1 DEF setIsEnabled
  <1>3. CASE setVoiceEnabled
    <2>1. [form EXCEPT !.voice = ~@] \in [enabled : BOOLEAN, device : Device, voice : BOOLEAN]
      BY DEF DialogTypeOK
    <2> QED BY <1>1, <1>3, <2>1 DEF setVoiceEnabled
  <1>4. CASE handleReset
    <2>1. Factory \in [enabled : BOOLEAN, device : Device, voice : BOOLEAN]
      BY DeviceAssumption DEF Factory
    <2> QED BY <1>1, <1>4, <2>1 DEF handleReset
  <1>5. ASSUME NEW d \in Device, setSelectedDevice(d)
        PROVE  /\ UNCHANGED <<isOpen, switch, ops, daemon, raced, saved>>
               /\ form' \in [enabled : BOOLEAN, device : Device, voice : BOOLEAN]
               /\ {wizardOpen', toast'} \subseteq BOOLEAN
               /\ meter' \in {"off", "connecting", "live", "simulated"}
    <2>1. [form EXCEPT !.device = d] \in [enabled : BOOLEAN, device : Device, voice : BOOLEAN]
      BY DEF DialogTypeOK
    <2> QED BY <1>1, <1>5, <2>1 DEF setSelectedDevice
  <1>6. CASE Disconnected
    BY <1>6 DEF Disconnected, DialogTypeOK, screen
  <1>7. CASE setWizardOpen \/ CloseWizard \/ ToastGone
    BY <1>7 DEF setWizardOpen, CloseWizard, ToastGone, DialogTypeOK
  <1>8. CASE handleWizardComplete
    BY <1>8 DEF handleWizardComplete, DialogTypeOK
  <1>9. CASE WizardStep(Buttons) \/ WizardStep(Timers) \/ UNCHANGED vars
    BY <1>9 DEF WizardStep, vars, DialogTypeOK, screen
  <1> QED BY <1>2, <1>3, <1>4, <1>5, <1>6, <1>7, <1>8, <1>9

-----------------------------------------------------------------------------
(* The specification of the dialog. *)

\* A page that has just been loaded.
LEMMA DialogInvInit == Init => DialogInv
  <1> SUFFICES ASSUME Init
               PROVE  DialogInv
    OBVIOUS
  <1>1. Free \in Ops /\ Free \notin Loads /\ Free \notin Toggles /\ Free \notin Saves
    BY DEF Ops, Free, Loads, Toggles, Saves
  <1>2. DialogTypeOK
    <2>1. form \in [enabled : BOOLEAN, device : Device, voice : BOOLEAN]
      <3>1. Factory \in [enabled : BOOLEAN, device : Device, voice : BOOLEAN]
        BY DeviceAssumption DEF Factory
      <3>2. [Factory EXCEPT !.voice = TRUE] \in [enabled : BOOLEAN, device : Device, voice : BOOLEAN]
        BY <3>1
      <3> QED BY <3>1, <3>2 DEF Init
    <2>2. daemon \in [device : Device, running : BOOLEAN, autostart : BOOLEAN]
      BY DeviceAssumption DEF Init
    <2> QED BY <1>1, <2>1, <2>2 DEF Init, DialogTypeOK
  <1>3. OneToggle /\ OneLoad /\ AnswersAreNow /\ SwitchIsRead
    BY <1>1 DEF Init, OneToggle, OneLoad, Loading, AnswersAreNow, SwitchIsRead
  <1>4. SaveIsOne
    BY DEF Init, Nothing, SaveIsOne
  <1>5. WizardTypeOK /\ CountLeadsOn
    <2>1. 0 \in 0 .. MaxTimers /\ 0 \in 0 .. Ticks
      BY WizardAssumption
    <2>2. wiz = [step |-> "NONE", reps |-> 0, captures |-> 0, armed |-> FALSE, progress |-> 0,
                 valState |-> "listening", skipped |-> FALSE]
      BY DEF Init, Gone, Fresh
    <2> QED BY <2>1, <2>2 DEF WizardTypeOK, CountLeadsOn
  <1> QED BY <1>2, <1>3, <1>4, <1>5 DEF DialogInv, DialogParts

\* Every action keeps the parts.
LEMMA DialogInvStep == DialogInv /\ [Next]_vars => DialogInv'
  <1> SUFFICES ASSUME DialogInv, [Next]_vars
               PROVE  DialogInv'
    OBVIOUS
  <1> USE DEF DialogInv
  <1>1. WizardTypeOK' /\ CountLeadsOn'
    BY WizardKept
  <1>2. CASE Open \/ Close \/ handleToggleAutostart \/ handleSave
    BY <1>1, <1>2, OpenKept, CloseKept, ToggleKept, SaveKept
  <1>3. ASSUME NEW s \in Slot, Serve(s) \/ Lose(s)
        PROVE  DialogInv'
    BY <1>1, <1>3, ServeKept, LoseKept
  <1>4. ASSUME NEW s \in Slot, Resume(s)
        PROVE  DialogInv'
    BY <1>1, <1>4, DevicesKept, StatusKept, ToggledKept, SelectedKept, SavedKept DEF Resume
  <1>5. CASE DaemonRestarts \/ Accept
    BY <1>1, <1>5, DaemonRestartsKept, AcceptKept
  <1>6. ASSUME \/ setIsEnabled \/ setVoiceEnabled \/ handleReset
               \/ \E d \in Device : setSelectedDevice(d)
               \/ Disconnected \/ setWizardOpen \/ CloseWizard \/ handleWizardComplete \/ ToastGone
               \/ WizardStep(Buttons) \/ WizardStep(Timers) \/ UNCHANGED vars
        PROVE  DialogInv'
    <2>1. DialogTypeOK
      BY DEF DialogParts
    <2> QED BY <1>1, <1>6, <2>1, QuietSteps, QuietKept
  <1> QED BY <1>2, <1>3, <1>4, <1>5, <1>6 DEF Next

\* The parts hold of every reachable state; the properties below are read off them.
THEOREM DialogInvariant == Spec => []DialogInv
  BY DialogInvInit, DialogInvStep, PTL DEF Spec

\* Every variable of the dialog and the daemon keeps its type, the switch is disabled
\* exactly during a toggle, and one load at most has an effect.
THEOREM DialogTyped == Spec => []TypeOK
  <1>1. DialogInv => TypeOK
    <2> SUFFICES ASSUME DialogInv
                 PROVE  TypeOK
      OBVIOUS
    <2> USE DEF DialogInv, DialogParts
    <2>1. Free \notin Loads /\ Free \notin Toggles
      BY DEF Free, Loads, Toggles
    <2>2. /\ Under("toggle") = {s \in Slot : ops[s] \in Toggles}
          /\ Under("load") = {s \in Slot : ops[s] \in Loads}
      BY <2>1, OneKind DEF DialogTypeOK, Under, Busy
    <2>3. autostartBusy <=> Under("toggle") # {}
      BY <2>2 DEF OneToggle
    <2>4. Cardinality({s \in Under("load") : ops[s].alive}) <= 1
      <3> DEFINE L == {s \in Under("load") : ops[s].alive}
      <3>1. \A s, u \in L : s = u
        BY <2>2 DEF OneLoad, Loading
      <3>2. L = {} \/ \E s \in L : L = {s}
        BY <3>1
      <3>3. Cardinality(L) \in {0, 1}
        BY <3>2, FS_EmptySet, FS_Singleton
      <3> QED BY <3>3
    <2> QED BY <2>3, <2>4 DEF DialogTypeOK, TypeOK
  <1> QED BY <1>1, DialogInvariant, PTL

\* At rest, and with the daemon reached, the switch shows what the system has registered,
\* unless a toggle ran into a load: also when it refused, after a failure and behind a
\* closed dialog (handleToggleAutostart and the effect of isOpen).
THEOREM SwitchShowsRegistered == Spec => []SwitchAgrees
  <1>1. DialogInv => SwitchAgrees
    <2> SUFFICES ASSUME DialogInv
                 PROVE  SwitchAgrees
      OBVIOUS
    <2>1. \A s \in Slot : /\ ops[s] \in Loads => s \in Under("load")
                          /\ ops[s] \in Toggles => s \in Under("toggle")
      BY OneKind DEF DialogInv, DialogParts, DialogTypeOK, Under, Busy, Free
    <2> QED BY <2>1 DEF DialogInv, DialogParts, SwitchAgrees, SwitchIsRead, Loading
  <1> QED BY <1>1, DialogInvariant, PTL

\* The two calls of a save that runs alone and loses nothing bring the daemon to the form
\* of its click, whatever the form, the meter and other functions do meanwhile (handleSave).
THEOREM SaveIsOneForm == Spec => []SavedTogether
  <1>1. DialogInv => SavedTogether
    <2> SUFFICES ASSUME DialogInv
                 PROVE  SavedTogether
      OBVIOUS
    <2>1. \A s \in Slot : ops[s] \in Saves => s \in Under("save")
      BY OneKind DEF DialogInv, DialogParts, DialogTypeOK, Under, Busy, Free
    <2> QED BY <2>1 DEF DialogInv, DialogParts, SavedTogether, SaveIsOne
  <1> QED BY <1>1, DialogInvariant, PTL

\* For any number of samples and of timers at a time, the recording leads on to the
\* training, unless a recording was skipped or a test has failed (triggerSpeechSimulation).
THEOREM RecordingLeadsOn == Spec => []NoDeadEnd
  <1>1. DialogInv => NoDeadEnd
    BY WizardAssumption DEF DialogInv, CountLeadsOn, WizardTypeOK, NoDeadEnd
  <1> QED BY <1>1, DialogInvariant, PTL
================================================================================
