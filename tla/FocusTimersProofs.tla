--------------------------- MODULE FocusTimersProofs ---------------------------
(***************************************************************************)
(* For any tasks, estimates and bounds: the types, that the timer that     *)
(* runs is the active one, that ticks lose nothing, that a second on a     *)
(* hidden page counts at most twice, and what a day has left.              *)
(***************************************************************************)
EXTENDS FocusTimers, SumLemmas, TLAPS

\* What a completion reads, the timers of the last render, runs when the timers do and
\* shows the same time.
RenderAgrees ==
    \A t \in Task :
        /\ isTicking(rendered[t]) <=> isTicking(timers[t])
        /\ t \notin hid \union corrected => Shown(rendered[t]) = ran[t]

\* What is said of the timers, and the rest of the types.
TimersGood ==
    /\ {timers, rendered} \subseteq [Task -> Timer]
    /\ \A t \in Task : timers[t].last <= now /\ rendered[t].last <= now
    /\ RunningIsActive /\ TicksLoseNothing /\ RenderAgrees
OtherTypes ==
    /\ now \in Nat /\ hiddenAt \in 0 .. now /\ visible \in BOOLEAN
    /\ active \in Task \union {NoTask}
    /\ calls \in [Task -> Nat \union {NoCall}]
    /\ {ran, away} \subseteq [Task -> Nat]
    /\ avail \in [total : Nat, allocated : Nat, refunded : Nat]
    /\ hid \union corrected \union settled \union plan \subseteq Task
    /\ clicks \in Nat /\ spoiled \in BOOLEAN

Good == TimersGood /\ OtherTypes

\* While the page is hidden no timer is started, so one that runs is noted.
HiddenMarked == ~visible => \A t \in Task : isTicking(timers[t]) => t \in hid

\* What the invariant is for.
LEMMA GoodImplies == Good => TypeOK /\ RunningIsActive /\ TicksLoseNothing
  BY DEF Good, TimersGood, OtherTypes, TypeOK

-----------------------------------------------------------------------------
(* timerEngine. *)

\* What counting returns.
LEMMA CountedIs ==
  ASSUME now \in Nat, NEW r \in Timer, NEW s \in Nat
  PROVE  /\ Counted(r, s) \in Timer
         /\ Counted(r, s).elapsed = r.elapsed + s
         /\ Counted(r, s).last = now /\ Counted(r, s).status = r.status
  <1>1. r.elapsed + s \in Nat
    BY DEF Timer
  <1>2. PICK e \in Nat : e = r.elapsed + s
    BY <1>1
  <1>3. Counted(r, s) = [r EXCEPT !.elapsed = e, !.last = now]
    BY <1>2 DEF Counted
  <1>4. [r EXCEPT !.elapsed = e, !.last = now] \in Timer
    BY DEF Timer
  <1> QED BY <1>2, <1>3, <1>4 DEF Timer

\* What a tick returns: a timer of the same kind that shows the same time.
LEMMA TickKeeps ==
  ASSUME now \in Nat, NEW t \in Task, NEW r \in Timer, r.last <= now
  PROVE  /\ tick(t, r) \in Timer /\ tick(t, r).last <= now
         /\ isTicking(tick(t, r)) <=> isTicking(r)
         /\ Shown(tick(t, r)) = Shown(r)
  <1>1. CASE isTicking(r)
    <2> DEFINE c == Counted(r, now - r.last)
    <2>1. /\ c \in Timer /\ c.last = now /\ c.status = r.status
          /\ c.elapsed = r.elapsed + (now - r.last)
      <3>1. now - r.last \in Nat
        BY DEF Timer
      <3> QED BY <3>1, CountedIs
    <2>2. tick(t, r) = [c EXCEPT !.status = Over(t, c, "RUNNING")]
      BY <1>1 DEF tick
    <2>3. Over(t, c, "RUNNING") \in {"OVERTIME", "RUNNING"}
      BY DEF Over
    <2> HIDE DEF c
    <2>4. /\ tick(t, r) \in Timer /\ tick(t, r).last = now
          /\ tick(t, r).elapsed = r.elapsed + (now - r.last)
          /\ isTicking(tick(t, r))
      BY <2>1, <2>2, <2>3 DEF Timer, Status, isTicking
    <2> QED BY <1>1, <2>4 DEF Shown, Timer
  <1>2. CASE ~isTicking(r)
    BY <1>2 DEF tick
  <1> QED BY <1>1, <1>2

\* pause and complete return a timer that stands still at the time it showed.
LEMMA PauseKeeps ==
  ASSUME now \in Nat, NEW t \in Task, NEW r \in Timer, r.last <= now
  PROVE  /\ pause(t, r) \in Timer /\ pause(t, r).last <= now
         /\ ~isTicking(pause(t, r))
         /\ Shown(pause(t, r)) = Shown(r)
  <1>1. CASE isTicking(r)
    <2> DEFINE c == tick(t, r)
    <2>1. c \in Timer /\ c.last <= now /\ Shown(c) = Shown(r)
      BY TickKeeps
    <2>2. c.last = now
      BY <1>1 DEF tick, Counted, Over, Timer
    <2>3. pause(t, r) = [c EXCEPT !.status = "PAUSED"]
      BY <1>1 DEF pause
    <2> HIDE DEF c
    <2> QED BY <2>1, <2>2, <2>3 DEF Timer, Status, isTicking, Shown
  <1>2. CASE ~isTicking(r)
    BY <1>2 DEF pause
  <1> QED BY <1>1, <1>2

\* completeTask stops a timer and keeps what it shows.
LEMMA CompleteKeeps ==
  ASSUME now \in Nat, NEW t \in Task, NEW r \in Timer, r.last <= now
  PROVE  /\ complete(t, r) \in Timer /\ complete(t, r).last <= now
         /\ ~isTicking(complete(t, r))
         /\ Shown(complete(t, r)) = Shown(r)
  <1> DEFINE c == tick(t, r)
  <1>1. c \in Timer /\ c.last <= now /\ Shown(c) = Shown(r) /\ (isTicking(c) <=> isTicking(r))
    BY TickKeeps
  <1>2. isTicking(r) => c.last = now
    BY DEF tick, Counted, Over, Timer
  <1>3. complete(t, r) = [c EXCEPT !.status = "COMPLETED"]
    BY DEF complete
  <1> HIDE DEF c
  <1> QED BY <1>1, <1>2, <1>3 DEF Timer, Status, isTicking, Shown

\* start and resume return a timer that runs from the time it showed.
LEMMA StartKeeps ==
  ASSUME now \in Nat, NEW r \in Timer, ~isTicking(r), r.status # "COMPLETED"
  PROVE  /\ start(r) \in Timer /\ start(r).last = now
         /\ isTicking(start(r))
         /\ Shown(start(r)) = Shown(r)
  <1>1. start(r) = [r EXCEPT !.status = "RUNNING", !.last = now]
    BY DEF start
  <1>2. [r EXCEPT !.status = "RUNNING", !.last = now] \in Timer
    BY DEF Timer, Status
  <1> QED BY <1>1, <1>2 DEF Timer, isTicking, Shown

\* The catch-up and the correction keep a timer running, or still.
LEMMA GapKeeps ==
  ASSUME now \in Nat, NEW t \in Task, NEW r \in Timer, r.last <= now, NEW s \in Nat
  PROVE  /\ applyHiddenGap(t, r, s) \in Timer /\ applyHiddenGap(t, r, s).last <= now
         /\ isTicking(applyHiddenGap(t, r, s)) <=> isTicking(r)
         /\ ~isTicking(r) => applyHiddenGap(t, r, s) = r
  <1>1. CASE isTicking(r)
    <2> DEFINE c == Counted(r, s)
    <2>1. c \in Timer /\ c.last = now /\ c.status = r.status
      BY CountedIs
    <2>2. applyHiddenGap(t, r, s) = [c EXCEPT !.status = Over(t, c, @)]
      BY <1>1 DEF applyHiddenGap
    <2>3. Over(t, c, c.status) \in {"OVERTIME", r.status}
      BY <2>1 DEF Over
    <2> HIDE DEF c
    <2> QED BY <1>1, <2>1, <2>2, <2>3 DEF Timer, Status, isTicking
  <1>2. CASE ~isTicking(r)
    BY <1>2 DEF applyHiddenGap
  <1> QED BY <1>1, <1>2

\* correctDrift sets what a timer shows, and neither starts nor stops it.
LEMMA CorrectKeeps ==
  ASSUME now \in Nat, NEW t \in Task, NEW r \in Timer, r.last <= now, NEW s \in Nat
  PROVE  /\ correct(t, r, s) \in Timer /\ correct(t, r, s).last <= now
         /\ isTicking(correct(t, r, s)) <=> isTicking(r)
         /\ ~isTicking(r) => Shown(correct(t, r, s)) = s
  <1> DEFINE c == [r EXCEPT !.elapsed = s]
  <1>1. c \in Timer /\ c.last = r.last /\ c.status = r.status /\ c.elapsed = s
    BY DEF Timer
  <1>2. correct(t, r, s) = [c EXCEPT !.status = IF isTicking(r) THEN Over(t, c, @) ELSE @]
    BY DEF correct
  <1>3. Over(t, c, c.status) \in {"OVERTIME", r.status}
    BY <1>1 DEF Over
  <1> HIDE DEF c
  <1> QED BY <1>1, <1>2, <1>3 DEF Timer, Status, isTicking, Shown

-----------------------------------------------------------------------------
(* One step. *)

\* What r may be as the timer of t after a step in which no time passes.
Fits(t, r) ==
    /\ r \in Timer /\ r.last <= now
    /\ t \notin hid' \union corrected' => Shown(r) = ran[t]

\* The timers before the step fit, when it takes nothing out of the exceptions.
LEMMA OldFits ==
  ASSUME Good, hid \subseteq hid', corrected \subseteq corrected', NEW t \in Task
  PROVE  /\ Fits(t, timers[t]) /\ Fits(t, rendered[t])
         /\ isTicking(rendered[t]) <=> isTicking(timers[t])
         /\ isTicking(timers[t]) => t = active
  BY
     DEF Good, TimersGood, OtherTypes, RunningIsActive, Running, TicksLoseNothing,
         RenderAgrees, Fits

\* Timers that fit their account, rendered or not, are good.
LEMMA NewFits ==
  ASSUME now' = now, ran' = ran,
         timers' = [t \in Task |-> timers'[t]], rendered' = [t \in Task |-> rendered'[t]],
         \A t \in Task :
             /\ Fits(t, timers'[t]) /\ Fits(t, rendered'[t])
             /\ isTicking(rendered'[t]) <=> isTicking(timers'[t])
             /\ isTicking(timers'[t]) => t = active'
  PROVE  TimersGood'
  <1>1. timers' \in [Task -> Timer] /\ rendered' \in [Task -> Timer]
    BY DEF Fits
  <1>2. \A t \in Task : timers'[t].last <= now' /\ rendered'[t].last <= now'
    BY DEF Fits
  <1>3. RunningIsActive'
    BY DEF RunningIsActive, Running, isTicking
  <1>4. TicksLoseNothing'
    BY DEF TicksLoseNothing, Fits, Shown, isTicking
  <1>5. RenderAgrees'
    BY DEF RenderAgrees, Fits, Shown, isTicking
  <1> QED BY <1>1, <1>2, <1>3, <1>4, <1>5 DEF TimersGood

\* A step that leaves the timers and their time alone.
LEMMA TimersStill ==
  ASSUME Good, UNCHANGED <<now, timers, rendered, active, ran>>,
         hid \subseteq hid', corrected \subseteq corrected'
  PROVE  TimersGood'
  <1>1. timers' = [t \in Task |-> timers'[t]] /\ rendered' = [t \in Task |-> rendered'[t]]
    BY DEF Good, TimersGood, OtherTypes
  <1> QED BY <1>1, OldFits, NewFits

\* What is given back is never negative.
LEMMA RefundIsNat ==
  ASSUME NEW t \in Task, NEW r \in Timer
  PROVE  refundForCompletion(t, r) \in Nat
  BY TimerAssumption DEF refundForCompletion, Timer

-----------------------------------------------------------------------------
(* The timer of one task is set going and every other one stands still. *)

\* A pause books the time since the last tick.
LEMMA PauseFits ==
  ASSUME Good, UNCHANGED <<hid, corrected>>, NEW t \in Task
  PROVE  Fits(t, pause(t, timers[t])) /\ ~isTicking(pause(t, timers[t]))
  <1>1. Fits(t, timers[t]) /\ now \in Nat
    BY OldFits DEF Good, TimersGood, OtherTypes
  <1>2. timers[t] \in Timer /\ timers[t].last <= now
    BY <1>1 DEF Fits
  <1> QED BY <1>1, <1>2, PauseKeeps DEF Fits

\* A start counts from now on.
LEMMA StartFits ==
  ASSUME Good, UNCHANGED <<hid, corrected>>, NEW t \in Task, timers[t].status \in {"NONE", "PAUSED"}
  PROVE  Fits(t, start(timers[t]))
  <1>1. Fits(t, timers[t]) /\ now \in Nat
    BY OldFits DEF Good, TimersGood, OtherTypes
  <1>2. timers[t] \in Timer /\ ~isTicking(timers[t]) /\ timers[t].status # "COMPLETED"
    BY <1>1 DEF Fits, isTicking
  <1>3. start(timers[t]) \in Timer /\ start(timers[t]).last = now /\ Shown(start(timers[t])) = Shown(timers[t])
    BY <1>1, <1>2, StartKeeps
  <1> QED BY <1>1, <1>3 DEF Fits

\* Starting one task pauses the active one.
LEMMA SwitchGood ==
  ASSUME Good, UNCHANGED <<now, ran, hid, corrected>>, NEW t \in Task,
         timers[t].status \in {"NONE", "PAUSED"}, active' = t,
         Rendered([OthersPaused(t) EXCEPT ![t] = start(@)])
  PROVE  TimersGood'
  <1>1. /\ timers' = [u \in Task |-> IF u = t THEN start(timers[t]) ELSE OthersPaused(t)[u]]
        /\ rendered' = timers'
    BY DEF Rendered, OthersPaused
  <1>2. ASSUME NEW u \in Task
        PROVE  Fits(u, timers'[u]) /\ (isTicking(timers'[u]) => u = t)
    <2>1. CASE u = t
      BY <1>1, <2>1, StartFits
    <2>2. CASE u # t /\ u = active
      <3>1. timers'[u] = pause(u, timers[u])
        BY <1>1, <2>2 DEF OthersPaused
      <3> QED BY <3>1, PauseFits
    <2>3. CASE u # t /\ u # active
      <3>1. timers'[u] = timers[u]
        BY <1>1, <2>3 DEF OthersPaused
      <3> QED BY <3>1, <2>3, OldFits
    <2> QED BY <2>1, <2>2, <2>3
  <1> QED BY <1>1, <1>2, NewFits

-----------------------------------------------------------------------------
(* The steps that touch the timers. *)

\* A click on start keeps the invariant.
LEMMA StartGood ==
  ASSUME Good, NEW t \in Task, startTimer(t) \/ resumeTimer(t)
  PROVE  Good'
  <1>1. /\ UNCHANGED <<now, visible, hiddenAt, calls, truth, account>>
        /\ clicks' = clicks + 1 /\ active' = t
        /\ timers[t].status \in {"NONE", "PAUSED"}
    BY DEF startTimer, resumeTimer, Click, screen
  <1>2. Rendered([OthersPaused(t) EXCEPT ![t] = start(@)])
    <2>1. CASE startTimer(t)
      BY <2>1 DEF startTimer
    <2>2. CASE resumeTimer(t)
      <3>1. OthersPaused(t)[t].status = "PAUSED"
        BY <2>2 DEF resumeTimer, OthersPaused
      <3>2. resume(OthersPaused(t)[t]) = start(OthersPaused(t)[t])
        BY <3>1 DEF resume
      <3> QED BY <2>2, <3>2 DEF resumeTimer
    <2> QED BY <2>1, <2>2
  <1>3. TimersGood'
    BY <1>1, <1>2, SwitchGood DEF truth
  <1>4. OtherTypes'
    BY <1>1 DEF Good, OtherTypes, truth, account
  <1> QED BY <1>3, <1>4 DEF Good

\* A click on pause keeps the invariant.
LEMMA PauseGood ==
  ASSUME Good, NEW t \in Task, pauseTimer(t)
  PROVE  Good'
  <1>1. /\ UNCHANGED <<now, visible, hiddenAt, active, calls, truth, account>>
        /\ clicks' = clicks + 1
        /\ timers' = [timers EXCEPT ![t] = pause(t, @)] /\ rendered' = timers'
    BY DEF pauseTimer, Click, screen, Rendered
  <1>2. /\ timers' = [u \in Task |-> timers'[u]] /\ timers'[t] = pause(t, timers[t])
        /\ \A u \in Task \ {t} : timers'[u] = timers[u]
    BY <1>1 DEF Good, TimersGood, OtherTypes
  <1>3. ASSUME NEW u \in Task
        PROVE  Fits(u, timers'[u]) /\ (isTicking(timers'[u]) => u = active')
    <2>1. CASE u = t
      BY <1>1, <1>2, <2>1, PauseFits DEF truth
    <2>2. CASE u # t
      BY <1>1, <1>2, <2>2, OldFits DEF truth
    <2> QED BY <2>1, <2>2
  <1>4. TimersGood'
    BY <1>1, <1>2, <1>3, NewFits DEF truth
  <1>5. OtherTypes'
    BY <1>1 DEF Good, OtherTypes, truth, account
  <1> QED BY <1>4, <1>5 DEF Good

\* A correction keeps the invariant.
LEMMA CorrectGood ==
  ASSUME Good, NEW t \in Task, correctDrift(t)
  PROVE  Good'
  <1>1. /\ UNCHANGED <<now, visible, hiddenAt, active, calls, ran, away, hid, account>>
        /\ clicks' = clicks + 1
        /\ timers' = [timers EXCEPT ![t] = correct(t, @, ran[t])] /\ rendered' = timers'
        /\ corrected' = IF isTicking(timers[t]) THEN corrected \union {t} ELSE corrected
    BY DEF correctDrift, Click, screen, Rendered
  <1>2. /\ timers' = [u \in Task |-> timers'[u]] /\ timers'[t] = correct(t, timers[t], ran[t])
        /\ \A u \in Task \ {t} : timers'[u] = timers[u]
    BY <1>1 DEF Good, TimersGood, OtherTypes
  <1>3. ASSUME NEW u \in Task
        PROVE  Fits(u, timers'[u]) /\ (isTicking(timers'[u]) => u = active')
    <2>1. CASE u = t
      <3>1. timers[t] \in Timer /\ timers[t].last <= now /\ now \in Nat /\ ran[t] \in Nat
        BY DEF Good, TimersGood, OtherTypes
      <3>2. /\ timers'[t] \in Timer /\ timers'[t].last <= now
            /\ isTicking(timers'[t]) <=> isTicking(timers[t])
            /\ ~isTicking(timers[t]) => Shown(timers'[t]) = ran[t]
        <4> DEFINE s == ran[t]
        <4>1. s \in Nat
          BY <3>1
        <4> HIDE DEF s
        <4>2. /\ correct(t, timers[t], s) \in Timer /\ correct(t, timers[t], s).last <= now
              /\ isTicking(correct(t, timers[t], s)) <=> isTicking(timers[t])
              /\ ~isTicking(timers[t]) => Shown(correct(t, timers[t], s)) = s
          BY <3>1, <4>1, CorrectKeeps
        <4> QED BY <1>2, <4>2 DEF s
      <3>3. isTicking(timers[t]) => t \in corrected'
        BY <1>1
      <3>4. isTicking(timers[t]) => t = active
        BY <1>1, OldFits
      <3> QED BY <1>1, <2>1, <3>2, <3>3, <3>4 DEF Fits
    <2>2. CASE u # t
      BY <1>1, <1>2, <2>2, OldFits
    <2> QED BY <2>1, <2>2
  <1>4. TimersGood'
    BY <1>1, <1>2, <1>3, NewFits
  <1>5. OtherTypes'
    BY <1>1 DEF Good, OtherTypes, account
  <1> QED BY <1>4, <1>5 DEF Good

\* A completion, computed from the last render, keeps the invariant.
LEMMA CompleteGood ==
  ASSUME Good, NEW t \in Task, completeTask(t)
  PROVE  Good'
  <1> DEFINE done == complete(t, rendered[t])
  <1>1. /\ UNCHANGED <<now, visible, hiddenAt, truth, account>>
        /\ clicks' = clicks + 1
        /\ timers' = [timers EXCEPT ![t] = done] /\ rendered' = timers'
        /\ calls' = [calls EXCEPT ![t] = refundForCompletion(t, done)]
        /\ active' = IF active = t THEN NoTask ELSE active
    BY DEF completeTask, Click, screen, Rendered
  <1>2. /\ timers' = [u \in Task |-> timers'[u]] /\ timers'[t] = done
        /\ \A u \in Task \ {t} : timers'[u] = timers[u]
    BY <1>1 DEF Good, TimersGood, OtherTypes
  <1>3. Fits(t, done) /\ ~isTicking(done)
    <2>1. rendered[t] \in Timer /\ rendered[t].last <= now /\ now \in Nat
      BY DEF Good, TimersGood, OtherTypes
    <2>2. done \in Timer /\ done.last <= now /\ ~isTicking(done) /\ Shown(done) = Shown(rendered[t])
      BY <2>1, CompleteKeeps
    <2>3. Fits(t, rendered[t])
      BY <1>1, OldFits DEF truth
    <2> QED BY <2>2, <2>3 DEF Fits
  <1> HIDE DEF done
  <1>4. ASSUME NEW u \in Task
        PROVE  Fits(u, timers'[u]) /\ (isTicking(timers'[u]) => u = active')
    <2>1. CASE u = t
      BY <1>2, <1>3, <2>1
    <2>2. CASE u # t
      BY <1>1, <1>2, <2>2, OldFits DEF truth
    <2> QED BY <2>1, <2>2
  <1>5. TimersGood'
    BY <1>1, <1>2, <1>4, NewFits DEF truth
  <1>6. OtherTypes'
    <2>1. refundForCompletion(t, done) \in Nat
      BY <1>3, RefundIsNat DEF Fits
    <2>2. calls' \in [Task -> Nat \union {NoCall}]
      BY <1>1, <2>1 DEF Good, OtherTypes
    <2> QED BY <1>1, <2>2 DEF Good, OtherTypes, truth, account
  <1> QED BY <1>5, <1>6 DEF Good

\* A tick keeps the invariant, however late it is.
LEMMA TickGood ==
  ASSUME Good, Tick
  PROVE  Good'
  <1>1. /\ UNCHANGED <<now, visible, hiddenAt, active, rendered, calls, clicks, truth, account>>
        /\ timers' = [t \in Task |-> tick(t, timers[t])]
    BY DEF Tick, screen
  <1>2. ASSUME NEW t \in Task
        PROVE  /\ Fits(t, timers'[t]) /\ Fits(t, rendered'[t])
               /\ isTicking(rendered'[t]) <=> isTicking(timers'[t])
               /\ isTicking(timers'[t]) => t = active'
    <2>1. /\ Fits(t, timers[t]) /\ Fits(t, rendered[t]) /\ now \in Nat
          /\ isTicking(rendered[t]) <=> isTicking(timers[t])
          /\ isTicking(timers[t]) => t = active
      BY <1>1, OldFits DEF truth, Good, TimersGood, OtherTypes
    <2>2. /\ tick(t, timers[t]) \in Timer /\ tick(t, timers[t]).last <= now
          /\ isTicking(tick(t, timers[t])) <=> isTicking(timers[t])
          /\ Shown(tick(t, timers[t])) = Shown(timers[t])
      BY <2>1, TickKeeps DEF Fits
    <2>3. Fits(t, tick(t, timers[t]))
      BY <2>1, <2>2 DEF Fits
    <2> QED BY <1>1, <2>1, <2>2, <2>3
  <1>3. timers' = [t \in Task |-> timers'[t]] /\ rendered' = [t \in Task |-> rendered'[t]]
    BY <1>1 DEF Good, TimersGood, OtherTypes
  <1>4. TimersGood'
    BY <1>1, <1>2, <1>3, NewFits DEF truth
  <1>5. OtherTypes'
    BY <1>1 DEF Good, OtherTypes, truth, account
  <1> QED BY <1>4, <1>5 DEF Good

\* A render keeps the invariant.
LEMMA RenderGood ==
  ASSUME Good, Render
  PROVE  Good'
  <1>1. /\ UNCHANGED <<now, visible, hiddenAt, active, timers, calls, clicks, truth, account>>
        /\ rendered' = timers'
    BY DEF Render, screen
  <1>2. timers' = [t \in Task |-> timers'[t]]
    BY <1>1 DEF Good, TimersGood, OtherTypes
  <1>3. \A t \in Task : Fits(t, timers'[t]) /\ (isTicking(timers'[t]) => t = active')
    BY <1>1, OldFits DEF truth
  <1>4. TimersGood'
    BY <1>1, <1>2, <1>3, NewFits DEF truth
  <1>5. OtherTypes'
    BY <1>1 DEF Good, OtherTypes, truth, account
  <1> QED BY <1>4, <1>5 DEF Good

\* The catch-up of a page that is shown again keeps the invariant.
LEMMA ShowGood ==
  ASSUME Good, HiddenMarked, Show
  PROVE  Good'
  <1> DEFINE gap == now - hiddenAt
  <1>1. /\ UNCHANGED <<now, hiddenAt, active, rendered, calls, clicks, truth, account>>
        /\ ~visible /\ visible' = TRUE
        /\ timers' = [t \in Task |-> IF t = active THEN applyHiddenGap(t, timers[t], gap) ELSE timers[t]]
    BY DEF Show
  <1>2. gap \in Nat
    BY DEF Good, OtherTypes
  <1> HIDE DEF gap
  <1>3. ASSUME NEW t \in Task
        PROVE  /\ Fits(t, timers'[t]) /\ Fits(t, rendered'[t])
               /\ isTicking(rendered'[t]) <=> isTicking(timers'[t])
               /\ isTicking(timers'[t]) => t = active'
    <2>1. /\ Fits(t, timers[t]) /\ Fits(t, rendered[t]) /\ now \in Nat
          /\ isTicking(rendered[t]) <=> isTicking(timers[t])
          /\ isTicking(timers[t]) => t = active
      BY <1>1, OldFits DEF truth, Good, OtherTypes
    <2>2. CASE t = active
      <3> DEFINE r == applyHiddenGap(t, timers[t], gap)
      <3>1. /\ r \in Timer /\ r.last <= now
            /\ isTicking(r) <=> isTicking(timers[t])
            /\ ~isTicking(timers[t]) => r = timers[t]
        BY <1>2, <2>1, GapKeeps DEF Fits
      <3>2. timers'[t] = r
        BY <1>1, <2>2
      <3> HIDE DEF r
      <3>3. isTicking(timers[t]) => t \in hid'
        BY <1>1 DEF HiddenMarked, truth
      <3> QED BY <1>1, <2>1, <3>1, <3>2, <3>3 DEF Fits
    <2>3. CASE t # active
      BY <1>1, <2>1, <2>3
    <2> QED BY <2>2, <2>3
  <1>4. timers' = [t \in Task |-> timers'[t]] /\ rendered' = [t \in Task |-> rendered'[t]]
    BY <1>1 DEF Good, TimersGood
  <1>5. TimersGood'
    BY <1>1, <1>3, <1>4, NewFits DEF truth
  <1>6. OtherTypes'
    BY <1>1 DEF Good, OtherTypes, truth, account
  <1> QED BY <1>5, <1>6 DEF Good

\* A second makes a running timer show a second more, and has it run one.
LEMMA PassGood ==
  ASSUME Good, Pass
  PROVE  Good'
  <1>1. /\ UNCHANGED <<visible, hiddenAt, timers, active, rendered, calls, clicks, hid, corrected, account>>
        /\ now' = now + 1
        /\ ran' = [t \in Task |-> IF t \in Running THEN ran[t] + 1 ELSE ran[t]]
        /\ away' = [t \in Task |-> IF t \in Running /\ ~visible THEN away[t] + 1 ELSE away[t]]
    BY DEF Pass
  <1>2. now \in Nat /\ ran \in [Task -> Nat] /\ away \in [Task -> Nat]
    BY DEF Good, OtherTypes
  <1>3. TimersGood'
    <2>1. \A t \in Task : timers[t] \in Timer /\ rendered[t] \in Timer
      BY DEF Good, TimersGood
    <2>2. ({timers, rendered} \subseteq [Task -> Timer])'
      BY <1>1 DEF Good, TimersGood
    <2>3. \A t \in Task : timers'[t].last <= now' /\ rendered'[t].last <= now'
      BY <1>1, <1>2, <2>1 DEF Good, TimersGood, Timer
    <2>4. RunningIsActive'
      BY <1>1 DEF Good, TimersGood, RunningIsActive, Running
    <2>5. ASSUME NEW t \in Task, t \notin hid \union corrected
          PROVE  Shown(timers[t])' = ran'[t] /\ Shown(rendered[t])' = ran'[t]
      <3>1. /\ Shown(timers[t]) = ran[t] /\ Shown(rendered[t]) = ran[t]
            /\ isTicking(rendered[t]) <=> isTicking(timers[t])
        BY <2>5 DEF Good, TimersGood, TicksLoseNothing, RenderAgrees
      <3>2. ran'[t] = IF isTicking(timers[t]) THEN ran[t] + 1 ELSE ran[t]
        BY <1>1 DEF Running
      <3>3. Shown(timers[t])' = IF isTicking(timers[t]) THEN Shown(timers[t]) + 1 ELSE Shown(timers[t])
        BY <1>1, <1>2, <2>1 DEF Shown, isTicking, Timer
      <3>4. Shown(rendered[t])' = IF isTicking(rendered[t]) THEN Shown(rendered[t]) + 1 ELSE Shown(rendered[t])
        BY <1>1, <1>2, <2>1 DEF Shown, isTicking, Timer
      <3> QED BY <3>1, <3>2, <3>3, <3>4
    <2>6. TicksLoseNothing'
      BY <1>1, <2>5 DEF TicksLoseNothing
    <2>7. RenderAgrees'
      BY <1>1, <2>5 DEF RenderAgrees, Good, TimersGood, isTicking
    <2> QED BY <2>2, <2>3, <2>4, <2>6, <2>7 DEF TimersGood
  <1>4. OtherTypes'
    BY <1>1, <1>2 DEF Good, OtherTypes, account
  <1> QED BY <1>3, <1>4 DEF Good

\* Hiding the page keeps the invariant.
LEMMA HideGood ==
  ASSUME Good, Hide
  PROVE  Good'
  <1>1. /\ UNCHANGED <<now, timers, active, rendered, calls, clicks, ran, away, corrected, account>>
        /\ visible' = FALSE /\ hiddenAt' = now /\ hid' = hid \union Running
    BY DEF Hide
  <1>2. TimersGood'
    BY <1>1, TimersStill
  <1>3. OtherTypes'
    <2>1. hid' \union corrected' \union settled' \union plan' \subseteq Task
      BY <1>1 DEF Good, OtherTypes, Running, account
    <2>2. hiddenAt' \in 0 .. now'
      BY <1>1 DEF Good, OtherTypes
    <2>3. visible' \in BOOLEAN
      BY <1>1
    <2> QED BY <1>1, <2>1, <2>2, <2>3 DEF Good, OtherTypes, account
  <1> QED BY <1>2, <1>3 DEF Good

-----------------------------------------------------------------------------
(* The steps of the available time. *)

\* What is available does not touch the timers.
LEMMA AvailGood ==
  ASSUME Good,
         UNCHANGED <<screen, timers, rendered, active, truth>>, clicks' \in Nat,
         avail' \in [total : Nat, allocated : Nat, refunded : Nat],
         calls' \in [Task -> Nat \union {NoCall}],
         plan' \subseteq Task, settled' \subseteq Task, spoiled' \in BOOLEAN
  PROVE  Good'
  <1>1. TimersGood'
    BY TimersStill DEF screen, truth
  <1>2. OtherTypes'
    BY DEF Good, OtherTypes, screen, truth
  <1> QED BY <1>1, <1>2 DEF Good

\* Creating or deleting a task does not touch the timers.
LEMMA ClientTimeGood ==
  ASSUME Good, NEW t \in Task, onCreateTask(t) \/ onDeleteTask(t)
  PROVE  Good'
  <1>1. /\ UNCHANGED <<screen, timers, active, rendered, calls, truth, settled>>
        /\ clicks' = clicks + 1
    BY DEF onCreateTask, onDeleteTask, AvailOnly, Click
  <1>2. Est[t] \in Nat /\ avail \in [total : Nat, allocated : Nat, refunded : Nat]
    BY TimerAssumption DEF Good, OtherTypes
  <1>3. CASE onCreateTask(t)
    <2>1. PICK n \in Nat : n = avail.allocated + Est[t]
      BY <1>2
    <2>2. avail' = [avail EXCEPT !.allocated = n]
      BY <1>3, <2>1 DEF onCreateTask
    <2>3. avail' \in [total : Nat, allocated : Nat, refunded : Nat]
      BY <1>2, <2>2
    <2>4. plan' \subseteq Task /\ UNCHANGED spoiled
      BY <1>3 DEF onCreateTask, Good, OtherTypes
    <2> QED BY <1>1, <2>3, <2>4, AvailGood DEF Good, OtherTypes
  <1>4. CASE onDeleteTask(t)
    <2>1. PICK n \in Nat : n = IF avail.allocated > Est[t] THEN avail.allocated - Est[t] ELSE 0
      BY <1>2
    <2>2. avail' = [avail EXCEPT !.allocated = n]
      BY <1>4, <2>1 DEF onDeleteTask
    <2>3. avail' \in [total : Nat, allocated : Nat, refunded : Nat]
      BY <1>2, <2>2
    <2>4. plan' \subseteq Task /\ spoiled' \in BOOLEAN
      BY <1>4 DEF onDeleteTask, Good, OtherTypes
    <2> QED BY <1>1, <2>3, <2>4, AvailGood DEF Good, OtherTypes
  <1> QED BY <1>3, <1>4

\* Setting what is available does not touch the timers.
LEMMA TotalGood ==
  ASSUME Good, NEW total \in Total, onSetAvailable(total) \/ onMidnightReset(total)
  PROVE  Good'
  <1>1. /\ UNCHANGED <<screen, timers, active, rendered, calls, truth, settled>>
        /\ clicks' = clicks + 1
        /\ plan' \in {plan, {}} /\ spoiled' \in {spoiled, FALSE}
    BY DEF onSetAvailable, onMidnightReset, AvailOnly, Click
  <1>2. avail' \in [total : Nat, allocated : Nat, refunded : Nat]
    BY TimerAssumption
       DEF onSetAvailable, onMidnightReset, initialAvailability, Good, OtherTypes
  <1>3. plan' \subseteq Task /\ spoiled' \in BOOLEAN
    BY <1>1 DEF Good, OtherTypes
  <1> QED BY <1>1, <1>2, <1>3, AvailGood DEF Good, OtherTypes

\* An answer of the server does not touch the timers.
LEMMA AnswerGood ==
  ASSUME Good, NEW t \in Task, onEarlyCompletion(t) \/ CompletionFails(t)
  PROVE  Good'
  <1>1. /\ UNCHANGED <<screen, timers, active, rendered, clicks, truth, plan>>
        /\ calls' = [calls EXCEPT ![t] = NoCall] /\ calls[t] # NoCall
    BY DEF onEarlyCompletion, CompletionFails, account
  <1>2. calls[t] \in Nat /\ calls' \in [Task -> Nat \union {NoCall}]
    BY <1>1 DEF Good, OtherTypes
  <1>3. CASE onEarlyCompletion(t)
    <2>1. PICK n \in Nat : n = avail.refunded + calls[t]
      BY <1>2 DEF Good, OtherTypes
    <2>2. avail' = [avail EXCEPT !.refunded = n]
      BY <1>3, <2>1 DEF onEarlyCompletion
    <2>3. avail' \in [total : Nat, allocated : Nat, refunded : Nat]
      BY <2>2 DEF Good, OtherTypes
    <2>4. settled' \subseteq Task /\ spoiled' \in BOOLEAN
      BY <1>3 DEF onEarlyCompletion, Good, OtherTypes
    <2> QED BY <1>1, <1>2, <2>3, <2>4, AvailGood DEF Good, OtherTypes
  <1>4. CASE CompletionFails(t)
    <2>1. UNCHANGED account
      BY <1>4 DEF CompletionFails
    <2> QED BY <1>1, <1>2, <2>1, AvailGood DEF Good, OtherTypes, account
  <1> QED BY <1>3, <1>4

-----------------------------------------------------------------------------
(* All of them. *)

Inv == Good /\ HiddenMarked

\* A page that has just been loaded.
LEMMA InvInit == Init => Inv
  <1> SUFFICES ASSUME Init PROVE Inv
    OBVIOUS
  <1>1. NoTimer \in Timer /\ NoTimer.last = 0 /\ ~isTicking(NoTimer) /\ Shown(NoTimer) = 0
    BY DEF NoTimer, Timer, Status, isTicking, Shown
  <1>2. \A t \in Task : timers[t] = NoTimer /\ rendered[t] = NoTimer /\ ran[t] = 0
    BY DEF Init
  <1>3. TimersGood
    <2>1. {timers, rendered} \subseteq [Task -> Timer]
      BY <1>1 DEF Init
    <2>2. \A t \in Task : timers[t].last <= now /\ rendered[t].last <= now
      BY <1>1, <1>2 DEF Init
    <2>3. RunningIsActive /\ TicksLoseNothing /\ RenderAgrees
      BY <1>1, <1>2 DEF RunningIsActive, Running, TicksLoseNothing, RenderAgrees
    <2> QED BY <2>1, <2>2, <2>3 DEF TimersGood
  <1>4. OtherTypes
    <2>1. PICK total \in Total : avail = initialAvailability(total)
      BY DEF Init
    <2>2. avail \in [total : Nat, allocated : Nat, refunded : Nat]
      BY <2>1, TimerAssumption DEF initialAvailability
    <2>3. now \in Nat /\ hiddenAt \in 0 .. now /\ clicks \in Nat
      BY DEF Init
    <2>4. visible \in BOOLEAN /\ spoiled \in BOOLEAN
      BY DEF Init
    <2>5. /\ active \in Task \union {NoTask} /\ calls \in [Task -> Nat \union {NoCall}]
          /\ {ran, away} \subseteq [Task -> Nat]
          /\ hid \union corrected \union settled \union plan \subseteq Task
      BY DEF Init
    <2> QED BY <2>2, <2>3, <2>4, <2>5 DEF OtherTypes
  <1>5. HiddenMarked
    BY DEF Init, HiddenMarked
  <1> QED BY <1>3, <1>4, <1>5 DEF Inv, Good

\* A click is made on a visible page, which stays so.
LEMMA ClickShown ==
  ASSUME Click
  PROVE  HiddenMarked'
  BY DEF Click, screen, HiddenMarked

\* Timers that run on a hidden page stay marked.
LEMMA HiddenStep ==
  ASSUME Inv, [Next]_vars
  PROVE  HiddenMarked'
  <1>1. CASE \E t \in Task : Client(t)
    <2>1. Click
      BY <1>1
         DEF Client, startTimer, pauseTimer, resumeTimer, correctDrift, completeTask,
             onCreateTask, onDeleteTask
    <2> QED BY <2>1, ClickShown
  <1>2. CASE \E total \in Total : onSetAvailable(total) \/ onMidnightReset(total)
    <2>1. Click
      BY <1>2 DEF onSetAvailable, onMidnightReset
    <2> QED BY <2>1, ClickShown
  <1>3. CASE \/ \E t \in Task : onEarlyCompletion(t) \/ CompletionFails(t)
             \/ Render \/ Pass \/ UNCHANGED vars
    <2>1. UNCHANGED <<visible, timers, hid>>
      BY <1>3 DEF onEarlyCompletion, CompletionFails, Render, Pass, vars, screen, truth
    <2> QED BY <2>1 DEF Inv, HiddenMarked, isTicking
  <1>4. CASE Tick
    <2>1. UNCHANGED <<visible, hid>>
      BY <1>4 DEF Tick, screen, truth
    <2>2. \A t \in Task : timers[t] \in Timer /\ timers[t].last <= now /\ now \in Nat
      BY DEF Inv, Good, TimersGood, OtherTypes
    <2>3. \A t \in Task : isTicking(tick(t, timers[t])) <=> isTicking(timers[t])
      BY <2>2, TickKeeps
    <2>4. \A t \in Task : isTicking(timers'[t]) <=> isTicking(timers[t])
      BY <1>4, <2>3 DEF Tick
    <2> QED BY <2>1, <2>4 DEF Inv, HiddenMarked, isTicking
  <1>5. CASE Hide
    BY <1>5 DEF Hide, HiddenMarked, Running, isTicking
  <1>6. CASE Show
    BY <1>6 DEF Show, HiddenMarked
  <1> QED BY <1>1, <1>2, <1>3, <1>4, <1>5, <1>6 DEF Next

\* Every step of the providers keeps the invariant.
LEMMA GoodStep ==
  ASSUME Inv, [Next]_vars
  PROVE  Good'
  <1> USE DEF Inv
  <1>1. CASE \E t \in Task : Client(t)
    BY <1>1, StartGood, PauseGood, CorrectGood, CompleteGood, ClientTimeGood DEF Client
  <1>2. CASE \E t \in Task : onEarlyCompletion(t) \/ CompletionFails(t)
    BY <1>2, AnswerGood
  <1>3. CASE \E total \in Total : onSetAvailable(total) \/ onMidnightReset(total)
    BY <1>3, TotalGood
  <1>4. CASE Tick
    BY <1>4, TickGood
  <1>5. CASE Render
    BY <1>5, RenderGood
  <1>6. CASE Hide
    BY <1>6, HideGood
  <1>7. CASE Show
    BY <1>7, ShowGood
  <1>8. CASE Pass
    BY <1>8, PassGood
  <1>9. CASE UNCHANGED vars
    <2>1. UNCHANGED <<now, timers, rendered, active, ran, hid, corrected>>
      BY <1>9 DEF vars, screen, truth
    <2>2. TimersGood'
      BY <2>1, TimersStill
    <2>3. OtherTypes'
      BY <1>9 DEF vars, screen, truth, account, Good, OtherTypes
    <2> QED BY <2>2, <2>3 DEF Good
  <1> QED BY <1>1, <1>2, <1>3, <1>4, <1>5, <1>6, <1>7, <1>8, <1>9 DEF Next

\* Good and HiddenMarked hold throughout, whatever the tasks, estimates and bounds.
THEOREM TimersInvariant == Spec => []Inv
  <1>1. Inv /\ [Next]_vars => Inv'
    BY HiddenStep, GoodStep DEF Inv
  <1> QED BY InvInit, <1>1, PTL DEF Spec

\* The state of the providers keeps its types.
THEOREM TimersTyped == Spec => []TypeOK
  <1>1. Inv => TypeOK
    BY GoodImplies DEF Inv
  <1> QED BY TimersInvariant, <1>1, PTL

\* At most one timer runs, the active one.
THEOREM OneTimerRuns == Spec => []RunningIsActive
  <1>1. Inv => RunningIsActive
    BY GoodImplies DEF Inv
  <1> QED BY TimersInvariant, <1>1, PTL

\* Late ticks, pauses, changes of task and stale renders keep a timer exact.
THEOREM TimersExact == Spec => []TicksLoseNothing
  <1>1. Inv => TicksLoseNothing
    BY GoodImplies DEF Inv
  <1> QED BY TimersInvariant, <1>1, PTL

-----------------------------------------------------------------------------
(* Hiding the page: a second that passed there may be counted by the tick
   that the browser lets through and again by the catch-up. *)

\* While the page is hidden there is room for the catch-up that is to come.
GapFits ==
    \A t \in Task \ corrected :
        /\ Shown(timers[t]) <= ran[t] + away[t]
        /\ Shown(rendered[t]) <= ran[t] + away[t]
        /\ ~visible /\ isTicking(timers[t]) =>
               Shown(timers[t]) + (now - hiddenAt) <= ran[t] + away[t]

\* The types of one timer and its time.
LEMMA TimerTyped ==
  ASSUME Good, NEW t \in Task
  PROVE  /\ timers[t] \in Timer /\ timers[t].last <= now
         /\ rendered[t] \in Timer /\ rendered[t].last <= now
         /\ now \in Nat /\ ran[t] \in Nat /\ away[t] \in Nat
         /\ hiddenAt \in Nat /\ hiddenAt <= now
         /\ Shown(timers[t]) \in Nat /\ Shown(rendered[t]) \in Nat
  <1>1. /\ timers[t] \in Timer /\ timers[t].last <= now
        /\ rendered[t] \in Timer /\ rendered[t].last <= now
        /\ now \in Nat /\ ran[t] \in Nat /\ away[t] \in Nat
        /\ hiddenAt \in Nat /\ hiddenAt <= now
    BY DEF Good, TimersGood, OtherTypes
  <1>2. Shown(timers[t]) \in Nat /\ Shown(rendered[t]) \in Nat
    BY <1>1 DEF Shown, Timer
  <1> QED BY <1>1, <1>2

\* A click, which is made on a visible page, leaves the time alone.
LEMMA ClickFits ==
  ASSUME GapFits, Click, UNCHANGED <<ran, away>>, corrected \subseteq corrected',
         \A t \in Task \ corrected' :
             /\ Shown(timers'[t]) \in {Shown(timers[t]), Shown(rendered[t])}
             /\ Shown(rendered'[t]) \in {Shown(timers[t]), Shown(rendered[t])}
  PROVE  GapFits'
  <1>1. now' = now /\ visible' = visible /\ visible
    BY DEF Click, screen
  <1>2. \A t \in Task :
            /\ Shown(timers[t])' = Shown(timers'[t])
            /\ Shown(rendered[t])' = Shown(rendered'[t])
    BY <1>1 DEF Shown, isTicking
  <1> QED BY <1>1, <1>2 DEF GapFits

\* Starting, pausing and completing a timer keep what it shows.
LEMMA TimerClickFits ==
  ASSUME Good, GapFits, NEW t \in Task,
         startTimer(t) \/ resumeTimer(t) \/ pauseTimer(t) \/ completeTask(t)
  PROVE  GapFits'
  <1>1. Click /\ UNCHANGED <<ran, away, corrected>> /\ rendered' = timers'
    BY DEF startTimer, resumeTimer, pauseTimer, completeTask, truth, Rendered
  <1>2. ASSUME NEW u \in Task
        PROVE  Shown(timers'[u]) \in {Shown(timers[u]), Shown(rendered[u])}
    <2>1. timers \in [Task -> Timer] /\ timers[u] \in Timer /\ rendered[u] \in Timer
      BY DEF Good, TimersGood
    <2>2. CASE startTimer(t) \/ resumeTimer(t)
      <3>1. timers[t].status \in {"NONE", "PAUSED"}
        BY <2>2 DEF startTimer, resumeTimer
      <3>2. timers'[t] = start(timers[t])
        BY <2>2 DEF startTimer, resumeTimer, Rendered, OthersPaused, resume
      <3>3. u # t => timers'[u] \in {timers[u], pause(u, timers[u])}
        BY <2>2 DEF startTimer, resumeTimer, Rendered, OthersPaused
      <3>4. ~isTicking(timers[t]) /\ timers[t].status # "COMPLETED"
        BY <3>1 DEF isTicking
      <3>5. Shown(start(timers[t])) = Shown(timers[t])
        BY <3>4, TimerTyped, StartKeeps
      <3>6. Shown(pause(u, timers[u])) = Shown(timers[u])
        BY TimerTyped, PauseKeeps
      <3> QED BY <3>2, <3>3, <3>5, <3>6
    <2>3. CASE pauseTimer(t)
      <3>1. timers'[u] \in {timers[u], pause(u, timers[u])}
        BY <2>1, <2>3 DEF pauseTimer, Rendered
      <3>2. Shown(pause(u, timers[u])) = Shown(timers[u])
        BY TimerTyped, PauseKeeps
      <3> QED BY <3>1, <3>2
    <2>4. CASE completeTask(t)
      <3>1. timers'[u] \in {timers[u], complete(u, rendered[u])}
        BY <2>1, <2>4 DEF completeTask, Rendered
      <3>2. Shown(complete(u, rendered[u])) = Shown(rendered[u])
        BY TimerTyped, CompleteKeeps
      <3> QED BY <3>1, <3>2
    <2> QED BY <2>2, <2>3, <2>4
  <1> QED BY <1>1, <1>2, ClickFits

\* A correction that is not an exception gives a timer the time it ran.
LEMMA CorrectFits ==
  ASSUME Good, GapFits, NEW t \in Task, correctDrift(t)
  PROVE  GapFits'
  <1>1. /\ now' = now /\ visible' = visible /\ visible /\ UNCHANGED <<ran, away>>
        /\ timers' = [timers EXCEPT ![t] = correct(t, @, ran[t])] /\ rendered' = timers'
        /\ corrected' = IF isTicking(timers[t]) THEN corrected \union {t} ELSE corrected
    BY DEF correctDrift, Click, screen, Rendered
  <1>2. ASSUME NEW u \in Task, u \notin corrected'
        PROVE  Shown(timers'[u]) <= ran[u] + away[u]
    <2>1. CASE u = t
      <3>1. timers'[t] = correct(t, timers[t], ran[t])
        BY <1>1 DEF Good, TimersGood
      <3>2. ~isTicking(timers[t])
        BY <1>1, <1>2, <2>1
      <3> DEFINE s == ran[t]
      <3>3. s \in Nat
        BY TimerTyped
      <3> HIDE DEF s
      <3>4. Shown(correct(t, timers[t], s)) = s
        BY <3>2, <3>3, TimerTyped, CorrectKeeps
      <3> QED BY <2>1, <3>1, <3>4, TimerTyped DEF s
    <2>2. CASE u # t
      <3>1. timers'[u] = timers[u] /\ u \notin corrected
        BY <1>1, <1>2, <2>2 DEF Good, TimersGood
      <3> QED BY <3>1 DEF GapFits
    <2> QED BY <2>1, <2>2
  <1>3. \A u \in Task : Shown(timers[u])' = Shown(timers'[u]) /\ Shown(rendered[u])' = Shown(timers'[u])
    BY <1>1 DEF Shown, isTicking
  <1> QED BY <1>1, <1>2, <1>3 DEF GapFits

\* A tick books what a timer shows already.
LEMMA TickFits ==
  ASSUME Good, GapFits, Tick \/ Render
  PROVE  GapFits'
  <1>1. UNCHANGED <<now, visible, hiddenAt, ran, away, corrected>>
    BY DEF Tick, Render, screen, truth
  <1>2. ASSUME NEW t \in Task
        PROVE  /\ Shown(timers'[t]) = Shown(timers[t])
               /\ isTicking(timers'[t]) <=> isTicking(timers[t])
               /\ rendered'[t] \in {timers[t], rendered[t]}
    <2>1. /\ Shown(tick(t, timers[t])) = Shown(timers[t])
          /\ isTicking(tick(t, timers[t])) <=> isTicking(timers[t])
      BY TimerTyped, TickKeeps
    <2> QED BY <2>1 DEF Tick, Render
  <1>3. \A t \in Task : Shown(timers[t])' = Shown(timers'[t]) /\ Shown(rendered[t])' = Shown(rendered'[t])
    BY <1>1 DEF Shown, isTicking
  <1> QED BY <1>1, <1>2, <1>3 DEF GapFits, isTicking

\* When the page is shown, what it missed fits in the room left for it.
LEMMA ShowFits ==
  ASSUME Good, GapFits, Show
  PROVE  GapFits'
  <1> DEFINE gap == now - hiddenAt
  <1>1. /\ UNCHANGED <<now, hiddenAt, rendered, ran, away, corrected>> /\ ~visible /\ visible'
        /\ \A t \in Task : timers'[t] \in {timers[t], applyHiddenGap(t, timers[t], gap)}
    BY DEF Show, truth
  <1>2. gap \in Nat
    BY DEF Good, OtherTypes
  <1>3. ASSUME NEW t \in Task
        PROVE  \/ Shown(timers'[t]) = Shown(timers[t])
               \/ isTicking(timers[t]) /\ Shown(timers'[t]) <= Shown(timers[t]) + gap
    <2> DEFINE r == applyHiddenGap(t, timers[t], gap)
               c == Counted(timers[t], gap)
    <2>1. CASE isTicking(timers[t])
      <3>1. c.elapsed = timers[t].elapsed + gap /\ c.last = now /\ c \in Timer
        <4> HIDE DEF gap
        <4> QED BY <1>2, TimerTyped, CountedIs
      <3>2. r = [c EXCEPT !.status = Over(t, c, @)]
        BY <2>1 DEF applyHiddenGap
      <3> HIDE DEF c, r
      <3>3. r.elapsed = timers[t].elapsed + gap /\ r.last = now
        BY <3>1, <3>2 DEF Timer
      <3>4. Shown(r) = timers[t].elapsed + gap
        BY <1>2, <3>3, TimerTyped DEF Shown, Timer
      <3>5. timers[t].elapsed <= Shown(timers[t])
        BY TimerTyped DEF Shown, Timer
      <3>6. timers[t].elapsed \in Nat /\ Shown(timers[t]) \in Nat
        BY TimerTyped DEF Timer
      <3>7. Shown(r) <= Shown(timers[t]) + gap
        <4> HIDE DEF gap
        <4> QED BY <1>2, <3>4, <3>5, <3>6
      <3> QED BY <1>1, <2>1, <3>7 DEF r
    <2>2. CASE ~isTicking(timers[t])
      <3>1. r = timers[t]
        BY <2>2 DEF applyHiddenGap
      <3> QED BY <1>1, <3>1
    <2> QED BY <2>1, <2>2
  <1>4. \A t \in Task : Shown(timers[t])' = Shown(timers'[t]) /\ Shown(rendered[t])' = Shown(rendered[t])
    BY <1>1 DEF Shown, isTicking
  <1>5. \A t \in Task \ corrected : Shown(timers'[t]) <= ran[t] + away[t]
    <2> SUFFICES ASSUME NEW t \in Task \ corrected PROVE Shown(timers'[t]) <= ran[t] + away[t]
      OBVIOUS
    <2>1. CASE Shown(timers'[t]) = Shown(timers[t])
      BY <2>1 DEF GapFits
    <2>2. CASE isTicking(timers[t]) /\ Shown(timers'[t]) <= Shown(timers[t]) + gap
      <3>1. Shown(timers[t]) + gap <= ran[t] + away[t]
        BY <1>1, <2>2 DEF GapFits
      <3>2. PICK k \in Nat : k = Shown(timers[t]) + gap
        BY <1>2, TimerTyped
      <3>3. Shown(timers'[t]) <= k /\ k <= ran[t] + away[t]
        BY <2>2, <3>1, <3>2
      <3>4. Shown(timers'[t]) \in Int
        <4>1. timers'[t] \in Timer
          <5> HIDE DEF gap
          <5> QED BY <1>1, <1>2, TimerTyped, GapKeeps
        <4> QED BY <4>1, TimerTyped DEF Shown, Timer
      <3> QED BY <3>2, <3>3, <3>4, TimerTyped
    <2> QED BY <1>3, <2>1, <2>2
  <1> QED BY <1>1, <1>4, <1>5 DEF GapFits

\* Hiding the page opens no gap yet.
LEMMA HideFits ==
  ASSUME Good, GapFits, Hide
  PROVE  GapFits'
  <1>1. UNCHANGED <<now, timers, rendered, ran, away, corrected>> /\ hiddenAt' = now
    BY DEF Hide
  <1>2. \A t \in Task : Shown(timers[t])' = Shown(timers[t]) /\ Shown(rendered[t])' = Shown(rendered[t])
    BY <1>1 DEF Shown, isTicking
  <1>3. \A t \in Task : Shown(timers[t]) \in Nat /\ now \in Nat
    BY TimerTyped
  <1> QED BY <1>1, <1>2, <1>3 DEF GapFits

\* A second on a hidden page makes room for itself twice.
LEMMA PassFits ==
  ASSUME Good, GapFits, Pass
  PROVE  GapFits'
  <1>1. /\ UNCHANGED <<visible, hiddenAt, timers, rendered, corrected>> /\ now' = now + 1
        /\ ran' = [t \in Task |-> IF t \in Running THEN ran[t] + 1 ELSE ran[t]]
        /\ away' = [t \in Task |-> IF t \in Running /\ ~visible THEN away[t] + 1 ELSE away[t]]
    BY DEF Pass
  <1>2. ASSUME NEW t \in Task
        PROVE  /\ Shown(timers[t])' = Shown(timers[t]) + (IF isTicking(timers[t]) THEN 1 ELSE 0)
               /\ Shown(rendered[t])' = Shown(rendered[t]) + (IF isTicking(timers[t]) THEN 1 ELSE 0)
               /\ ran'[t] = ran[t] + (IF isTicking(timers[t]) THEN 1 ELSE 0)
               /\ away'[t] = away[t] + (IF isTicking(timers[t]) /\ ~visible THEN 1 ELSE 0)
    <2>1. isTicking(rendered[t]) <=> isTicking(timers[t])
      BY DEF Good, TimersGood, RenderAgrees
    <2>2. Shown(timers[t])' = Shown(timers[t]) + (IF isTicking(timers[t]) THEN 1 ELSE 0)
      BY <1>1, TimerTyped DEF Shown, isTicking, Timer
    <2>3. Shown(rendered[t])' = Shown(rendered[t]) + (IF isTicking(rendered[t]) THEN 1 ELSE 0)
      BY <1>1, TimerTyped DEF Shown, isTicking, Timer
    <2>4. ran'[t] = ran[t] + (IF isTicking(timers[t]) THEN 1 ELSE 0)
      BY <1>1, TimerTyped DEF Running
    <2>5. away'[t] = away[t] + (IF isTicking(timers[t]) /\ ~visible THEN 1 ELSE 0)
      BY <1>1, TimerTyped DEF Running
    <2> QED BY <2>1, <2>2, <2>3, <2>4, <2>5
  <1>3. ASSUME NEW t \in Task \ corrected
        PROVE  /\ Shown(timers[t])' <= ran'[t] + away'[t]
               /\ Shown(rendered[t])' <= ran'[t] + away'[t]
               /\ ~visible /\ isTicking(timers[t]) =>
                      Shown(timers[t])' + (now' - hiddenAt) <= ran'[t] + away'[t]
    <2> DEFINE m == Shown(timers[t])
               n == Shown(rendered[t])
               i == ran[t]
               j == away[t]
    <2>1. m \in Nat /\ n \in Nat /\ i \in Nat /\ j \in Nat /\ now \in Nat /\ hiddenAt \in Nat
      BY TimerTyped
    <2>2. /\ m <= i + j /\ n <= i + j
          /\ ~visible /\ isTicking(timers[t]) => m + (now - hiddenAt) <= i + j
      BY DEF GapFits
    <2> HIDE DEF m, n, i, j
    <2>3. CASE isTicking(timers[t])
      <3>1. m' = m + 1 /\ n' = n + 1 /\ i' = i + 1 /\ j' = j + (IF ~visible THEN 1 ELSE 0)
        BY <1>2, <2>3 DEF m, n, i, j
      <3> QED BY <1>1, <2>1, <2>2, <2>3, <3>1 DEF m, n, i, j
    <2>4. CASE ~isTicking(timers[t])
      <3>1. m' = m + 0 /\ n' = n + 0 /\ i' = i + 0 /\ j' = j + 0
        BY <1>2, <2>4 DEF m, n, i, j
      <3> QED BY <2>1, <2>2, <2>4, <3>1 DEF m, n, i, j
    <2> QED BY <2>3, <2>4
  <1> QED BY <1>1, <1>3 DEF GapFits, isTicking

\* Every step leaves the catch-up its room.
LEMMA GapFitsStep ==
  ASSUME Good, GapFits, [Next]_vars
  PROVE  GapFits'
  <1>1. CASE \E t \in Task : startTimer(t) \/ resumeTimer(t) \/ pauseTimer(t) \/ completeTask(t)
    BY <1>1, TimerClickFits
  <1>2. CASE \E t \in Task : correctDrift(t)
    BY <1>2, CorrectFits
  <1>3. CASE \/ \E t \in Task : \/ onCreateTask(t) \/ onDeleteTask(t)
                                \/ onEarlyCompletion(t) \/ CompletionFails(t)
             \/ \E total \in Total : onSetAvailable(total) \/ onMidnightReset(total)
             \/ UNCHANGED vars
    <2>1. UNCHANGED <<now, visible, hiddenAt, timers, rendered, ran, away, corrected>>
      BY <1>3
         DEF onCreateTask, onDeleteTask, onEarlyCompletion, CompletionFails, onSetAvailable,
             onMidnightReset, AvailOnly, Click, screen, truth, vars
    <2> QED BY <2>1 DEF GapFits, Shown, isTicking
  <1>4. CASE Tick \/ Render
    BY <1>4, TickFits
  <1>5. CASE Hide
    BY <1>5, HideFits
  <1>6. CASE Show
    BY <1>6, ShowFits
  <1>7. CASE Pass
    BY <1>7, PassFits
  <1> QED BY <1>1, <1>2, <1>3, <1>4, <1>5, <1>6, <1>7 DEF Next, Client

\* Over any number of hidings no second is counted more than twice.
THEOREM HiddenAtMostTwice == Spec => []HiddenCountedAtMostTwice
  <1>1. Init => GapFits
    <2> SUFFICES ASSUME Init PROVE GapFits
      OBVIOUS
    <2>1. ~isTicking(NoTimer) /\ Shown(NoTimer) = 0
      BY DEF NoTimer, isTicking, Shown
    <2>2. \A t \in Task : timers[t] = NoTimer /\ rendered[t] = NoTimer /\ ran[t] = 0 /\ away[t] = 0
      BY DEF Init
    <2> QED BY <2>1, <2>2 DEF GapFits
  <1>2. Inv /\ GapFits /\ [Next]_vars => GapFits'
    BY GapFitsStep DEF Inv
  <1>3. GapFits => HiddenCountedAtMostTwice
    BY DEF GapFits, HiddenCountedAtMostTwice
  <1> QED BY TimersInvariant, <1>1, <1>2, <1>3, PTL DEF Spec

-----------------------------------------------------------------------------
(* The available time: what is reserved for the tasks of the plan, and what
   has been given back for them. *)

\* What has been given back for t.
Given(t) == IF t \in settled THEN refundForCompletion(t, timers[t]) ELSE 0

\* A task is settled, or about to be, by the timer that it was completed with.
Settling ==
    \A t \in Task :
        /\ t \in settled => timers[t].status = "COMPLETED"
        /\ calls[t] # NoCall =>
               /\ timers[t].status = "COMPLETED" /\ t \notin settled
               /\ calls[t] = refundForCompletion(t, timers[t])

Reservations == [t \in plan |-> Est[t]]
Refunds == [t \in plan |-> Given(t)]

\* The two sums that the provider keeps.
Booked ==
    /\ IsFiniteSet(plan)
    /\ avail.allocated = SumFunction(Reservations)
    /\ ~spoiled => avail.refunded = SumFunction(Refunds)

\* The timer of a completed task is never touched again.
LEMMA CompletedStays ==
  ASSUME Good, [Next]_vars, NEW u \in Task, timers[u].status = "COMPLETED"
  PROVE  timers'[u] = timers[u]
  <1>1. timers \in [Task -> Timer] /\ ~isTicking(timers[u])
    BY DEF Good, TimersGood, isTicking
  <1>2. CASE \E t \in Task : startTimer(t) \/ resumeTimer(t)
    <2>1. PICK t \in Task : startTimer(t) \/ resumeTimer(t)
      BY <1>2
    <2>2. u # t
      BY <2>1 DEF startTimer, resumeTimer
    <2>3. timers'[u] = OthersPaused(t)[u]
      BY <2>1, <2>2 DEF startTimer, resumeTimer, Rendered, OthersPaused
    <2> QED BY <1>1, <2>3 DEF OthersPaused, pause
  <1>3. CASE \E t \in Task : pauseTimer(t) \/ correctDrift(t) \/ completeTask(t)
    <2>1. PICK t \in Task : pauseTimer(t) \/ correctDrift(t) \/ completeTask(t)
      BY <1>3
    <2>2. u # t
      BY <2>1 DEF pauseTimer, correctDrift, completeTask, isTicking
    <2> QED BY <1>1, <2>1, <2>2 DEF pauseTimer, correctDrift, completeTask, Rendered
  <1>4. CASE \/ \E t \in Task : \/ onCreateTask(t) \/ onDeleteTask(t)
                                \/ onEarlyCompletion(t) \/ CompletionFails(t)
             \/ \E total \in Total : onSetAvailable(total) \/ onMidnightReset(total)
             \/ Render \/ Hide \/ Pass \/ UNCHANGED vars
    BY <1>4
       DEF onCreateTask, onDeleteTask, onEarlyCompletion, CompletionFails, onSetAvailable,
           onMidnightReset, AvailOnly, Render, Hide, Pass, vars
  <1>5. CASE Tick
    BY <1>1, <1>5 DEF Tick, tick
  <1>6. CASE Show
    BY <1>1, <1>6 DEF Show, applyHiddenGap
  <1> QED BY <1>2, <1>3, <1>4, <1>5, <1>6 DEF Next, Client

\* What a completion asks for is what it gives back, once.
LEMMA SettlingStep ==
  ASSUME Good, Settling, [Next]_vars
  PROVE  Settling'
  <1>1. calls \in [Task -> Nat \union {NoCall}] /\ timers \in [Task -> Timer]
    BY DEF Good, TimersGood, OtherTypes
  <1>2. \A u \in Task : timers[u].status = "COMPLETED" => timers'[u] = timers[u]
    BY CompletedStays
  <1>3. CASE UNCHANGED <<calls, settled>>
    BY <1>2, <1>3 DEF Settling, refundForCompletion
  <1>4. ASSUME NEW t \in Task, onEarlyCompletion(t) \/ CompletionFails(t)
        PROVE  Settling'
    <2>1. /\ timers' = timers /\ calls' = [calls EXCEPT ![t] = NoCall]
          /\ calls[t] # NoCall /\ settled' \in {settled, settled \union {t}}
      BY <1>4 DEF onEarlyCompletion, CompletionFails, account
    <2>2. calls'[t] = NoCall /\ \A u \in Task \ {t} : calls'[u] = calls[u]
      BY <1>1, <2>1
    <2> QED BY <2>1, <2>2 DEF Settling, refundForCompletion
  <1>5. ASSUME NEW t \in Task, completeTask(t)
        PROVE  Settling'
    <2> DEFINE done == complete(t, rendered[t])
    <2>1. /\ timers' = [timers EXCEPT ![t] = done] /\ settled' = settled
          /\ calls' = [calls EXCEPT ![t] = refundForCompletion(t, done)]
          /\ isTicking(timers[t]) \/ timers[t].status = "PAUSED"
      BY <1>5 DEF completeTask, Rendered, account
    <2>2. done.status = "COMPLETED"
      <3>1. /\ tick(t, rendered[t]) \in Timer
            /\ done = [tick(t, rendered[t]) EXCEPT !.status = "COMPLETED"]
        <4>1. rendered[t] \in Timer /\ rendered[t].last <= now /\ now \in Nat
          BY TimerTyped
        <4> QED BY <4>1, TickKeeps DEF complete
      <3> QED BY <3>1 DEF Timer
    <2> HIDE DEF done
    <2>3. timers[t].status # "COMPLETED"
      BY <2>1 DEF isTicking
    <2>4. /\ timers'[t] = done /\ calls'[t] = refundForCompletion(t, done)
          /\ \A u \in Task \ {t} : timers'[u] = timers[u] /\ calls'[u] = calls[u]
      BY <1>1, <2>1
    <2> QED BY <2>1, <2>2, <2>3, <2>4 DEF Settling, refundForCompletion
  <1>6. \/ UNCHANGED <<calls, settled>>
        \/ \E t \in Task : completeTask(t) \/ onEarlyCompletion(t) \/ CompletionFails(t)
    BY
       DEF Next, Client, startTimer, resumeTimer, pauseTimer, correctDrift, onCreateTask,
           onDeleteTask, onSetAvailable, onMidnightReset, AvailOnly, Tick, Render, Hide, Show,
           Pass, vars, account
  <1> QED BY <1>3, <1>4, <1>5, <1>6

\* Estimates and refunds are natural numbers, so both sums are sums of such.
LEMMA BookedTyped ==
  ASSUME Good
  PROVE  /\ plan \subseteq Task /\ Est \in [Task -> Nat]
         /\ Reservations \in [plan -> Nat]
         /\ \A t \in Task : Given(t) \in Nat
         /\ Refunds \in [plan -> Nat]
  <1>1. plan \subseteq Task /\ Est \in [Task -> Nat]
    BY TimerAssumption DEF Good, OtherTypes
  <1>2. \A t \in Task : Given(t) \in Nat
    BY RefundIsNat DEF Given, Good, TimersGood
  <1> QED BY <1>1, <1>2 DEF Reservations, Refunds

\* So are they after a step.
LEMMA BookedTypedNext ==
  ASSUME Good'
  PROVE  /\ Reservations' \in [plan' -> Nat]
         /\ Refunds' \in [plan' -> Nat]
  <1>1. plan' \subseteq Task /\ Est \in [Task -> Nat]
    BY TimerAssumption DEF Good, OtherTypes
  <1>2. \A t \in Task : Given(t)' \in Nat
    <2>1. \A t \in Task : timers'[t] \in Timer
      BY DEF Good, TimersGood
    <2>2. \A t \in Task : refundForCompletion(t, timers'[t]) \in Nat
      BY <2>1, RefundIsNat
    <2> QED BY <2>2 DEF Given, refundForCompletion
  <1> QED BY <1>1, <1>2 DEF Reservations, Refunds

\* A sum over a plan with one task more.
LEMMA SumOneMore ==
  ASSUME NEW S, IsFiniteSet(S), NEW a, a \notin S,
         NEW v \in [S -> Nat], NEW w \in [S \union {a} -> Nat],
         \A s \in S : w[s] = v[s]
  PROVE  IsFiniteSet(S \union {a}) /\ SumFunction(w) = SumFunction(v) + w[a]
  <1>1. IsFiniteSet(S \union {a}) /\ a \in S \union {a}
    BY FS_AddElement
  <1>2. SumFunction(w) = w[a] + SumFunction([s \in (S \union {a}) \ {a} |-> w[s]])
    BY <1>1, SumWithout
  <1>3. [s \in (S \union {a}) \ {a} |-> w[s]] = v
    OBVIOUS
  <1>4. SumFunction(v) \in Nat /\ w[a] \in Nat
    BY SumIsNat
  <1> QED BY <1>1, <1>2, <1>3, <1>4

\* A sum over the same plan of which one term is set.
LEMMA SumOneSet ==
  ASSUME NEW S, IsFiniteSet(S), NEW a \in S,
         NEW v \in [S -> Nat], NEW w \in [S -> Nat], v[a] = 0,
         \A s \in S \ {a} : w[s] = v[s]
  PROVE  SumFunction(w) = SumFunction(v) + w[a]
  <1> DEFINE rest == [s \in S \ {a} |-> v[s]]
  <1>1. SumFunction(v) = v[a] + SumFunction(rest)
    BY SumWithout
  <1>2. SumFunction(w) = w[a] + SumFunction([s \in S \ {a} |-> w[s]])
    BY SumWithout
  <1>3. [s \in S \ {a} |-> w[s]] = rest
    OBVIOUS
  <1>4. SumFunction(rest) \in Nat
    <2>1. IsFiniteSet(S \ {a}) /\ rest \in [S \ {a} -> Nat]
      BY FS_RemoveElement
    <2> HIDE DEF rest
    <2> QED BY <2>1, SumIsNat
  <1> HIDE DEF rest
  <1> QED BY <1>1, <1>2, <1>3, <1>4

\* A step that leaves the plan, its two sums and what is settled alone.
LEMMA BookedStill ==
  ASSUME Good, Settling, Booked, [Next]_vars,
         UNCHANGED <<plan, settled, spoiled, avail.allocated, avail.refunded>>
  PROVE  Booked'
  <1>1. plan \subseteq Task
    BY BookedTyped
  <1>2. \A t \in Task : Given(t)' = Given(t)
    <2>1. \A t \in Task : t \in settled => timers'[t] = timers[t]
      BY CompletedStays DEF Settling
    <2> QED BY <2>1 DEF Given, refundForCompletion
  <1>3. Reservations' = Reservations /\ Refunds' = Refunds
    BY <1>1, <1>2 DEF Reservations, Refunds
  <1> QED BY <1>3 DEF Booked

\* A task that is created is reserved for, and nothing has been given back for it.
LEMMA CreateBooked ==
  ASSUME Good, Good', Settling, Booked, NEW t \in Task, onCreateTask(t)
  PROVE  Booked'
  <1>1. /\ t \notin plan /\ plan' = plan \union {t}
        /\ UNCHANGED <<settled, spoiled, timers>> /\ timers[t] = NoTimer
        /\ avail' = [avail EXCEPT !.allocated = @ + Est[t]]
    BY DEF onCreateTask, AvailOnly
  <1>2. avail'.allocated = avail.allocated + Est[t] /\ avail'.refunded = avail.refunded
    BY <1>1 DEF Good, OtherTypes
  <1>3. /\ Reservations \in [plan -> Nat] /\ Reservations' \in [plan \union {t} -> Nat]
        /\ Refunds \in [plan -> Nat] /\ Refunds' \in [plan \union {t} -> Nat]
    BY <1>1, BookedTyped, BookedTypedNext
  <1>4. /\ \A s \in plan : Reservations'[s] = Reservations[s] /\ Refunds'[s] = Refunds[s]
        /\ Reservations'[t] = Est[t] /\ Refunds'[t] = 0
    <2>1. t \notin settled
      BY <1>1 DEF Settling, NoTimer
    <2>2. \A s \in plan' : Given(s)' = Given(s)
      BY <1>1 DEF Given, refundForCompletion
    <2>3. Given(t) = 0
      BY <2>1 DEF Given
    <2> QED BY <1>1, <2>2, <2>3 DEF Reservations, Refunds
  <1>5. IsFiniteSet(plan) /\ IsFiniteSet(plan')
    BY <1>1, FS_AddElement DEF Booked
  <1>6. SumFunction(Reservations') = SumFunction(Reservations) + Est[t]
    BY <1>1, <1>3, <1>4, <1>5, SumOneMore
  <1>7. SumFunction(Refunds') = SumFunction(Refunds) + 0
    BY <1>1, <1>3, <1>4, <1>5, SumOneMore
  <1>8. SumFunction(Refunds) \in Nat
    BY <1>3, <1>5, SumIsNat
  <1> QED BY <1>1, <1>2, <1>5, <1>6, <1>7, <1>8 DEF Booked

\* A task that is deleted gives its reservation back, and is not one that gave time back.
LEMMA DeleteBooked ==
  ASSUME Good, Good', Settling, Booked, NEW t \in Task, onDeleteTask(t)
  PROVE  Booked'
  <1>1. /\ t \in plan /\ plan' = plan \ {t}
        /\ UNCHANGED <<settled, timers>> /\ spoiled' = (spoiled \/ t \in settled)
        /\ avail' = [avail EXCEPT !.allocated = IF @ > Est[t] THEN @ - Est[t] ELSE 0]
    BY DEF onDeleteTask, AvailOnly
  <1>2. /\ avail'.allocated = IF avail.allocated > Est[t] THEN avail.allocated - Est[t] ELSE 0
        /\ avail'.refunded = avail.refunded
    BY <1>1 DEF Good, OtherTypes
  <1>3. /\ Reservations \in [plan -> Nat] /\ Reservations' \in [plan' -> Nat]
        /\ Refunds \in [plan -> Nat] /\ Refunds' \in [plan' -> Nat]
        /\ plan = plan' \union {t} /\ t \notin plan' /\ Est[t] \in Nat
    BY <1>1, BookedTyped, BookedTypedNext
  <1>4. /\ \A s \in plan' : Reservations[s] = Reservations'[s] /\ Refunds[s] = Refunds'[s]
        /\ Reservations[t] = Est[t] /\ Refunds[t] = Given(t)
    <2>1. \A s \in plan' : Given(s)' = Given(s)
      BY <1>1 DEF Given, refundForCompletion
    <2> QED BY <1>1, <2>1 DEF Reservations, Refunds
  <1>5. IsFiniteSet(plan')
    BY <1>1, FS_RemoveElement DEF Booked
  <1>6. SumFunction(Reservations) = SumFunction(Reservations') + Est[t]
    BY <1>3, <1>4, <1>5, SumOneMore
  <1>7. SumFunction(Refunds) = SumFunction(Refunds') + Given(t)
    BY <1>3, <1>4, <1>5, SumOneMore
  <1>8. SumFunction(Reservations') \in Nat /\ SumFunction(Refunds') \in Nat
    BY <1>3, <1>5, SumIsNat
  <1>9. avail'.allocated = SumFunction(Reservations')
    BY <1>2, <1>3, <1>6, <1>8 DEF Booked
  <1>10. ~spoiled' => avail'.refunded = SumFunction(Refunds')
    <2> SUFFICES ASSUME ~spoiled' PROVE avail'.refunded = SumFunction(Refunds')
      OBVIOUS
    <2>1. ~spoiled /\ Given(t) = 0
      BY <1>1 DEF Given
    <2> QED BY <1>2, <1>7, <1>8, <2>1 DEF Booked
  <1> QED BY <1>5, <1>9, <1>10 DEF Booked

\* A new day starts with nothing reserved and nothing given back.
LEMMA ResetBooked ==
  ASSUME Good', NEW total \in Total, onMidnightReset(total)
  PROVE  Booked'
  <1>1. plan' = {} /\ avail'.allocated = 0 /\ avail'.refunded = 0
    BY DEF onMidnightReset, initialAvailability
  <1>2. IsFiniteSet(plan')
    BY <1>1, FS_EmptySet
  <1>3. Reservations' \in [plan' -> Nat] /\ Refunds' \in [plan' -> Nat]
    BY BookedTypedNext
  <1>4. SumFunction(Reservations') = 0 /\ SumFunction(Refunds') = 0
    BY <1>1, <1>2, <1>3, SumOfZeros
  <1> QED BY <1>1, <1>2, <1>4 DEF Booked

\* A completion that is recorded gives back what it asked for.
LEMMA SettleBooked ==
  ASSUME Good, Good', Settling, Booked, NEW t \in Task, onEarlyCompletion(t)
  PROVE  Booked'
  <1>1. /\ calls[t] # NoCall /\ settled' = settled \union {t}
        /\ avail' = [avail EXCEPT !.refunded = @ + calls[t]]
        /\ spoiled' = (spoiled \/ t \notin plan) /\ UNCHANGED <<plan, timers>>
    BY DEF onEarlyCompletion
  <1>2. avail'.allocated = avail.allocated /\ avail'.refunded = avail.refunded + calls[t]
    BY <1>1 DEF Good, OtherTypes
  <1>3. t \notin settled /\ calls[t] = refundForCompletion(t, timers[t])
    BY <1>1 DEF Settling
  <1>4. Reservations' = Reservations
    BY <1>1 DEF Reservations
  <1>5. CASE t \in plan
    <2>1. Refunds \in [plan -> Nat] /\ Refunds' \in [plan -> Nat]
      BY <1>1, BookedTyped, BookedTypedNext
    <2>2. \A s \in plan \ {t} : Given(s)' = Given(s)
      BY <1>1 DEF Given, refundForCompletion
    <2>3. Given(t) = 0 /\ Given(t)' = calls[t]
      BY <1>1, <1>3 DEF Given, refundForCompletion
    <2>4. /\ \A s \in plan \ {t} : Refunds'[s] = Refunds[s]
          /\ Refunds[t] = 0 /\ Refunds'[t] = calls[t]
      BY <1>1, <1>5, <2>2, <2>3 DEF Refunds
    <2>5. SumFunction(Refunds') = SumFunction(Refunds) + calls[t]
      BY <1>5, <2>1, <2>4, SumOneSet DEF Booked
    <2> QED BY <1>1, <1>2, <1>4, <2>5 DEF Booked
  <1>6. CASE t \notin plan
    BY <1>1, <1>2, <1>4, <1>6 DEF Booked
  <1> QED BY <1>5, <1>6

\* Every step keeps the two sums.
LEMMA BookedStep ==
  ASSUME Good, Good', Settling, Booked, [Next]_vars
  PROVE  Booked'
  <1>1. CASE \E t \in Task : onCreateTask(t)
    BY <1>1, CreateBooked
  <1>2. CASE \E t \in Task : onDeleteTask(t)
    BY <1>2, DeleteBooked
  <1>3. CASE \E total \in Total : onMidnightReset(total)
    BY <1>3, ResetBooked
  <1>4. CASE \E t \in Task : onEarlyCompletion(t)
    BY <1>4, SettleBooked
  <1>5. CASE UNCHANGED <<plan, settled, spoiled, avail.allocated, avail.refunded>>
    BY <1>5, BookedStill
  <1>6. CASE \E total \in Total : onSetAvailable(total)
    <2>1. PICK total \in Total : avail' = [avail EXCEPT !.total = total]
      BY <1>6 DEF onSetAvailable
    <2>2. avail'.allocated = avail.allocated /\ avail'.refunded = avail.refunded
      BY <2>1 DEF Good, OtherTypes
    <2>3. UNCHANGED <<plan, settled, spoiled>>
      BY <1>6 DEF onSetAvailable
    <2> QED BY <2>2, <2>3, BookedStill
  <1>7. CASE UNCHANGED account
    BY <1>7, BookedStill DEF account
  <1>8. \/ \E t \in Task : onCreateTask(t) \/ onDeleteTask(t) \/ onEarlyCompletion(t)
        \/ \E total \in Total : onSetAvailable(total) \/ onMidnightReset(total)
        \/ UNCHANGED account
    BY
       DEF Next, Client, startTimer, resumeTimer, pauseTimer, correctDrift, completeTask,
           CompletionFails, Tick, Render, Hide, Show, Pass, vars
  <1> QED BY <1>1, <1>2, <1>3, <1>4, <1>6, <1>7, <1>8

\* What a task of an unspoiled day costs is what was reserved less what was given back.
LEMMA BookedIsExact ==
  ASSUME Good, Settling, Booked
  PROVE  RemainingIsExact
  <1> SUFFICES ASSUME ~spoiled, plan \intersect (hid \union corrected) = {}
               PROVE  computeRemaining = avail.total - SumFunction([t \in plan |-> Charge(t)])
    BY DEF RemainingIsExact
  <1> DEFINE costs == [t \in plan |-> Charge(t)]
  <1>1. ASSUME NEW t \in plan
        PROVE  Charge(t) \in Nat /\ Est[t] = Given(t) + Charge(t)
    <2>1. t \in Task /\ t \notin hid \union corrected /\ Est[t] \in Nat /\ ran[t] \in Nat
      BY BookedTyped, TimerTyped
    <2>2. CASE t \in settled
      <3>1. ~isTicking(timers[t])
        BY <2>1, <2>2 DEF Settling, isTicking
      <3>2. timers[t].elapsed = ran[t]
        BY <2>1, <3>1, TimerTyped DEF Good, TimersGood, TicksLoseNothing, Shown, Timer
      <3>3. Given(t) = IF ran[t] < Est[t] THEN Est[t] - ran[t] ELSE 0
        BY <2>2, <3>2 DEF Given, refundForCompletion
      <3> QED BY <2>1, <2>2, <3>3 DEF Charge
    <2>3. CASE t \notin settled
      BY <2>1, <2>3 DEF Given, Charge
    <2> QED BY <2>2, <2>3
  <1>2. /\ Reservations \in [plan -> Nat] /\ Refunds \in [plan -> Nat] /\ costs \in [plan -> Nat]
        /\ \A t \in plan : Reservations[t] = Refunds[t] + costs[t]
    BY <1>1, BookedTyped DEF Reservations, Refunds
  <1> HIDE DEF costs
  <1>3. SumFunction(Reservations) = SumFunction(Refunds) + SumFunction(costs)
    BY <1>2, SumPlus DEF Booked
  <1>4. SumFunction(Refunds) \in Nat /\ SumFunction(costs) \in Nat /\ avail.total \in Nat
    BY <1>2, SumIsNat DEF Booked, Good, OtherTypes
  <1>5. computeRemaining = avail.total - SumFunction(costs)
    BY <1>3, <1>4 DEF Booked, computeRemaining
  <1> QED BY <1>5 DEF costs

\* A completed task costs its day what it ran, however late its completion is recorded.
THEOREM RemainingExact == Spec => []RemainingIsExact
  <1>1. Init => Settling /\ Booked
    <2> SUFFICES ASSUME Init PROVE Settling /\ Booked
      OBVIOUS
    <2>1. plan = {} /\ settled = {} /\ \A t \in Task : calls[t] = NoCall
      BY DEF Init
    <2>2. avail.allocated = 0 /\ avail.refunded = 0
      BY DEF Init, initialAvailability
    <2>3. IsFiniteSet(plan)
      BY <2>1, FS_EmptySet
    <2>4. SumFunction(Reservations) = 0 /\ SumFunction(Refunds) = 0
      <3>1. Reservations \in [plan -> Nat] /\ Refunds \in [plan -> Nat]
        BY <2>1 DEF Reservations, Refunds
      <3> QED BY <2>1, <2>3, <3>1, SumOfZeros
    <2> QED BY <2>1, <2>2, <2>3, <2>4 DEF Settling, Booked
  <1>2. Inv /\ Inv' /\ Settling /\ Booked /\ [Next]_vars => Settling' /\ Booked'
    BY SettlingStep, BookedStep DEF Inv
  <1>3. Inv /\ Settling /\ Booked => RemainingIsExact
    BY BookedIsExact DEF Inv
  <1> QED BY TimersInvariant, <1>1, <1>2, <1>3, PTL DEF Spec
=============================================================================
