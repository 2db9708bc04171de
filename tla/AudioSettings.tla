------------------------------ MODULE AudioSettings ------------------------------
(***************************************************************************)
(* The dialog of the audio settings over the daemon: what it loads when it *)
(* opens, the switch for the start at login, saving, the level meter and   *)
(* the wizard of WakeWordWizard.                                           *)
(*                                                                         *)
(* App keeps the component mounted, so its state outlives a closing, and   *)
(* an async function goes on behind a closed dialog.  Each call of the     *)
(* daemon is answered or fails; a request that fails may have been served. *)
(* Sliders, the clap test and the notice over the IPC channel are left     *)
(* out, and so is what else moves the daemon (its command line, a file).   *)
(*                                                                         *)
(* Definitions headed "Fault" are deliberate mistakes of the kind a change *)
(* to the code could make; Next uses none of them.                         *)
(***************************************************************************)
EXTENDS WakeWordWizard, FiniteSetsExt

CONSTANTS
    Device,      \* the microphones, 0 among them
    Default,     \* the one the system prefers
    Boot,        \* the one in the settings file of the daemon
    MaxOp,       \* bound: async functions at a time
    MaxClick,    \* bound: what the user does in the dialog over the whole run,
                 \* but for closing it and for what is done in the wizard
    MaxFault     \* bound: requests and answers that are lost, connections
                 \* that break, restarts of the daemon

ASSUME DeviceAssumption == {0, Default, Boot} \subseteq Device /\ {MaxOp, MaxClick, MaxFault} \subseteq Nat

Slot == 1 .. MaxOp

VARIABLES
    isOpen,
    form,            \* isEnabled, selectedDevice, voiceEnabled
    autostart,       \* the switch as it is shown
    daemonOnline, autostartBusy,
    wizardOpen,      \* wiz is its state while the dialog is open, too
    toast,           \* showTriggerToast
    meter,           \* VUMeter: its connection, or the simulation in place of it
    ops,             \* the async functions under way
    daemon,
    clicks, faults,
    raced,           \* history: a load and a toggle overlapped since the last load on its own
    saved            \* history: what the last save asks for, or Nothing

switch == <<autostart, daemonOnline, autostartBusy>>
screen == <<isOpen, wizardOpen, wiz, toast>>
vars == <<isOpen, form, switch, wizardOpen, wiz, toast, meter, ops, daemon, clicks, faults, raced, saved>>

Free == [kind |-> "none"]
Nothing == [asked |-> FALSE]
Factory == [enabled |-> TRUE, device |-> 0, voice |-> FALSE]

\* The page has just been loaded, or the dialog has been closed in it once, with the voice
\* activation switched on or the microphone off, before the daemon could be reached.
Init ==
    /\ isOpen = FALSE
    /\ form \in {Factory, [Factory EXCEPT !.voice = TRUE], [Factory EXCEPT !.enabled = FALSE]}
    /\ autostart = FALSE /\ daemonOnline = FALSE /\ autostartBusy = FALSE
    /\ wizardOpen = FALSE /\ wiz = Gone /\ toast = FALSE /\ meter = "off"
    /\ ops = [s \in Slot |-> Free]
    /\ daemon \in [device : {Boot}, running : BOOLEAN, autostart : BOOLEAN]
    /\ clicks = 0 /\ faults = 0 /\ raced = FALSE /\ saved = Nothing

Busy == {s \in Slot : ops[s] # Free}
Under(kind) == {s \in Busy : ops[s].kind = kind}

\* A function starts; arg is what its closure holds.
Begin(kind, path, arg) ==
    /\ Busy # Slot
    /\ ops' = [ops EXCEPT ![Min(Slot \ Busy)] =
                  [kind |-> kind, path |-> path, at |-> "request", arg |-> arg, alive |-> TRUE]]
Await(s, path) == ops' = [ops EXCEPT ![s].path = path, ![s].at = "request"]
End(s) == ops' = [ops EXCEPT ![s] = Free]

Uncovered == isOpen /\ wiz.step = "NONE"
Click == Uncovered /\ clicks < MaxClick /\ clicks' = clicks + 1
Fault == faults < MaxFault /\ faults' = faults + 1

\* The meter is there while the dialog is open and the microphone switched on.
Metered == meter' = IF ~(isOpen' /\ form'.enabled) THEN "off"
                    ELSE IF meter = "off" THEN "connecting" ELSE meter

----------------------------------------------------------------------------
(* Opening, closing, and the controls. *)

\* The wizard that was open when the dialog closed opens again, from its start.
Open ==
    /\ ~isOpen /\ clicks < MaxClick /\ clicks' = clicks + 1
    /\ isOpen' = TRUE /\ wiz' = (IF wizardOpen THEN Fresh ELSE Gone)
    /\ Begin("load", "devices", {})
    /\ raced' = IF Under("toggle") # {} THEN TRUE ELSE IF Under("load") # {} THEN raced ELSE FALSE
    /\ UNCHANGED <<form, switch, wizardOpen, toast, daemon, faults, saved>> /\ Metered

\* What a closing does to the functions under way: alive = false for a load.
Left(o) == IF o.kind = "load" THEN [o EXCEPT !.alive = FALSE] ELSE o
onClose == isOpen' = FALSE /\ wiz' = Gone

Close ==
    /\ Uncovered /\ onClose
    /\ ops' = [s \in Slot |-> Left(ops[s])]
    /\ UNCHANGED <<form, switch, wizardOpen, toast, daemon, clicks, faults, raced, saved>> /\ Metered

Edit(f) ==
    /\ Click /\ form' = f
    /\ UNCHANGED <<switch, screen, ops, daemon, faults, raced, saved>> /\ Metered

setIsEnabled == Edit([form EXCEPT !.enabled = ~@])
setSelectedDevice(d) == form.enabled /\ form.device # d /\ Edit([form EXCEPT !.device = d])
setVoiceEnabled == form.enabled /\ Edit([form EXCEPT !.voice = ~@])
handleReset == Edit(Factory)

----------------------------------------------------------------------------
(* The calls of the daemon. *)

\* What the daemon does, and what it answers: starting the microphone may fail,
\* and the system may refuse to register the service.
Served(o, d) ==
    CASE o.path = "devices" -> {d}
      [] o.path = "status" -> {d}
      [] o.path = "autostart" -> {d, [d EXCEPT !.autostart = o.arg]}
      [] o.path = "select" -> {[d EXCEPT !.device = o.arg.device, !.running = r] : r \in {FALSE, d.running}}
      [] o.path = "stream" -> IF o.arg.enabled THEN {d, [d EXCEPT !.running = TRUE]}
                              ELSE {[d EXCEPT !.running = FALSE]}

Serve(s) ==
    /\ ops[s] # Free /\ ops[s].at = "request"
    /\ \E d \in Served(ops[s], daemon) :
          /\ daemon' = d
          /\ ops' = [ops EXCEPT ![s].at = IF ops[s].path \in {"status", "autostart"} /\ ~d.autostart
                                            THEN "off" ELSE "on"]
    /\ UNCHANGED <<form, switch, screen, meter, clicks, faults, raced, saved>>

\* The request, or the answer of one that was served, is lost: call() throws.
Lose(s) ==
    /\ ops[s] # Free /\ ops[s].at # "failed" /\ Fault
    /\ ops' = [ops EXCEPT ![s].at = "failed"]
    /\ saved' = IF ops[s].kind = "save" THEN Nothing ELSE saved
    /\ UNCHANGED <<form, switch, screen, meter, daemon, clicks, raced>>

\* The daemon starts again with its settings file, which a save of the dialog does not reach.
DaemonRestarts ==
    /\ Fault
    /\ \E r \in BOOLEAN : daemon' = [daemon EXCEPT !.device = Boot, !.running = r]
    /\ meter' = IF meter = "live" THEN "simulated" ELSE meter
    /\ saved' = Nothing
    /\ UNCHANGED <<form, switch, screen, ops, clicks, raced>>

Answered(s, kind) == ops[s] # Free /\ ops[s].kind = kind /\ ops[s].at # "request"
Failed(s) == ops[s].at = "failed"
Confirmed(s) == ops[s].at = "on"

----------------------------------------------------------------------------
(* The load of an opening. *)

\* The default device, whatever the daemon has selected and the user has picked meanwhile.
DevicesLoaded(s) ==
    /\ Answered(s, "load") /\ ops[s].path = "devices"
    /\ form' = IF ops[s].alive /\ ~Failed(s) THEN [form EXCEPT !.device = Default] ELSE form
    /\ Await(s, "status")
    /\ UNCHANGED <<switch, screen, meter, daemon, clicks, faults, raced, saved>>
StatusLoaded(s) ==
    /\ Answered(s, "load") /\ ops[s].path = "status" /\ End(s)
    /\ IF ~ops[s].alive THEN UNCHANGED switch
       ELSE /\ daemonOnline' = ~Failed(s)
            /\ autostart' = IF Failed(s) THEN autostart ELSE Confirmed(s)
            /\ UNCHANGED autostartBusy
    /\ UNCHANGED <<form, screen, meter, daemon, clicks, faults, raced, saved>>

----------------------------------------------------------------------------
(* The switch for the start at login. *)

handleToggleAutostart ==
    /\ Click /\ daemonOnline /\ ~autostartBusy
    /\ Begin("toggle", "autostart", ~autostart)
    /\ autostartBusy' = TRUE /\ autostart' = ~autostart
    /\ raced' = (raced \/ Under("load") # {})
    /\ UNCHANGED <<form, daemonOnline, screen, meter, daemon, faults, saved>>

\* Fault: a success keeps what was asked for.
ToggledAsAsked(s) ==
    /\ Answered(s, "toggle") /\ End(s)
    /\ autostart' = IF Failed(s) THEN ~ops[s].arg ELSE ops[s].arg
    /\ daemonOnline' = ~Failed(s) /\ autostartBusy' = FALSE
    /\ UNCHANGED <<form, screen, meter, daemon, clicks, faults, raced, saved>>

\* The answer counts, not what was asked for; a failure takes the change back.
Toggled(s) ==
    /\ Answered(s, "toggle") /\ End(s)
    /\ autostart' = IF Failed(s) THEN ~ops[s].arg ELSE Confirmed(s)
    /\ daemonOnline' = ~Failed(s) /\ autostartBusy' = FALSE
    /\ UNCHANGED <<form, screen, meter, daemon, clicks, faults, raced, saved>>

----------------------------------------------------------------------------
(* Saving. *)

Asked == [device |-> form.device, enabled |-> form.enabled]

\* The form of the click; a second click saves a second time.
handleSave ==
    /\ Click /\ Begin("save", "select", Asked)
    /\ saved' = IF Under("save") # {} THEN Nothing
                ELSE [asked |-> TRUE, device |-> form.device, may |-> form.enabled]
    /\ UNCHANGED <<form, switch, screen, meter, daemon, faults, raced>>

\* Fault: the second call takes what the form holds now.
SelectedOfNow(s) ==
    /\ Answered(s, "save") /\ ops[s].path = "select" /\ ~Failed(s)
    /\ ops' = [ops EXCEPT ![s].path = "stream", ![s].at = "request", ![s].arg = Asked]
    /\ UNCHANGED <<form, switch, screen, meter, daemon, clicks, faults, raced, saved>>

Selected(s) ==
    /\ Answered(s, "save") /\ ops[s].path = "select" /\ ~Failed(s)
    /\ Await(s, "stream")
    /\ UNCHANGED <<form, switch, screen, meter, daemon, clicks, faults, raced, saved>>

SaveEnded(s) == Answered(s, "save") /\ (Failed(s) \/ ops[s].path = "stream")

\* Fault: the dialog closes after a success only.
SavedIfReached(s) ==
    /\ SaveEnded(s)
    /\ IF Failed(s) THEN UNCHANGED <<isOpen, wiz>> ELSE onClose
    /\ ops' = [u \in Slot |-> IF u = s THEN Free ELSE Left(ops[u])]
    /\ UNCHANGED <<form, switch, wizardOpen, toast, daemon, clicks, faults, raced, saved>> /\ Metered

\* Whatever failed; the dialog it closes may have been opened since.
Saved(s) ==
    /\ SaveEnded(s) /\ onClose
    /\ ops' = [u \in Slot |-> IF u = s THEN Free ELSE Left(ops[u])]
    /\ UNCHANGED <<form, switch, wizardOpen, toast, daemon, clicks, faults, raced, saved>> /\ Metered

----------------------------------------------------------------------------
(* The level meter. *)

\* The daemon starts the microphone for a meter, saved or not.
Accept ==
    /\ meter = "connecting" /\ meter' = "live"
    /\ \E r \in {TRUE, daemon.running} : daemon' = [daemon EXCEPT !.running = r]
    /\ saved' = IF saved.asked THEN [saved EXCEPT !.may = TRUE] ELSE saved
    /\ UNCHANGED <<form, switch, screen, ops, clicks, faults, raced>>

\* onerror and onclose: the simulation takes over, for good.
Disconnected ==
    /\ meter \in {"connecting", "live"} /\ Fault /\ meter' = "simulated"
    /\ UNCHANGED <<form, switch, screen, ops, daemon, clicks, raced, saved>>

----------------------------------------------------------------------------
(* The wizard and the toast. *)

setWizardOpen ==
    /\ Click /\ form.enabled /\ form.voice /\ wizardOpen' = TRUE /\ wiz' = Fresh
    /\ UNCHANGED <<isOpen, form, switch, toast, meter, ops, daemon, faults, raced, saved>>

CloseWizard ==
    /\ wiz.step # "NONE" /\ wizardOpen' = FALSE /\ wiz' = Gone
    /\ UNCHANGED <<isOpen, form, switch, toast, meter, ops, daemon, clicks, faults, raced, saved>>

handleWizardComplete ==
    /\ wiz.step = "VALIDATION" /\ wiz.valState = "detected"
    /\ wizardOpen' = FALSE /\ wiz' = Gone
    /\ form' = [form EXCEPT !.voice = TRUE] /\ toast' = TRUE
    /\ UNCHANGED <<isOpen, switch, meter, ops, daemon, clicks, faults, raced, saved>>

\* Its two seconds run while the dialog is open only.
ToastGone ==
    /\ isOpen /\ toast /\ toast' = FALSE
    /\ UNCHANGED <<isOpen, form, switch, wizardOpen, wiz, meter, ops, daemon, clicks, faults, raced, saved>>

WizardStep(A) == A /\ UNCHANGED <<isOpen, form, switch, wizardOpen, toast, meter, ops, daemon, clicks, faults, raced, saved>>

----------------------------------------------------------------------------

Resume(s) == DevicesLoaded(s) \/ StatusLoaded(s) \/ Toggled(s) \/ Selected(s) \/ Saved(s)

Next ==
    \/ Open \/ Close \/ setIsEnabled \/ setVoiceEnabled \/ handleReset
    \/ \E d \in Device : setSelectedDevice(d)
    \/ handleToggleAutostart \/ handleSave
    \/ \E s \in Slot : Serve(s) \/ Lose(s) \/ Resume(s)
    \/ DaemonRestarts \/ Accept \/ Disconnected
    \/ setWizardOpen \/ CloseWizard \/ handleWizardComplete \/ ToastGone
    \/ WizardStep(Buttons) \/ WizardStep(Timers)

\* Requests are answered or fail, and what awaits them goes on.
Spec ==
    /\ Init /\ [][Next]_vars
    /\ \A s \in Slot : WF_vars(Serve(s)) /\ WF_vars(Resume(s))

----------------------------------------------------------------------------
(* Properties. *)

\* Types; the switch is disabled exactly during a toggle, and one load at most has an effect.
TypeOK ==
    /\ {isOpen, daemonOnline, autostart, autostartBusy, wizardOpen, toast, raced} \subseteq BOOLEAN
    /\ form \in [enabled : BOOLEAN, device : Device, voice : BOOLEAN]
    /\ daemon \in [device : Device, running : BOOLEAN, autostart : BOOLEAN]
    /\ meter \in {"off", "connecting", "live", "simulated"}
    /\ autostartBusy <=> Under("toggle") # {}
    /\ Cardinality({s \in Under("load") : ops[s].alive}) <= 1
    /\ WizardTypeOK

\* At rest, and with the daemon reached, the switch shows what the system has
\* registered: also when it refused, and whatever was lost, unless a toggle ran into the
\* load of a reopened dialog (handleToggleAutostart and the effect of isOpen).
SwitchAgrees ==
    (isOpen /\ daemonOnline /\ Under("load") \union Under("toggle") = {} /\ ~raced)
    => autostart = daemon.autostart

\* A save that nothing was lost of, and no other save overlapped, leaves the daemon with
\* the microphone of its click, and silent if it was switched off and no meter asked for
\* it since: its two calls belong to one form (handleSave).
SavedTogether ==
    (saved.asked /\ Under("save") = {})
    => daemon.device = saved.device /\ (daemon.running => saved.may)

\* A save ends by closing the dialog, with the daemon or without (handleSave).
SaveCloses == Under("save") # {} ~> ~isOpen

\* Once the phrase has been said as often as asked, however the samples overlap, the
\* wizard is on its way to the training: it stays at the recording only after a
\* recording was skipped or a test has failed (triggerSpeechSimulation).
NoDeadEnd ==
    (wiz.step = "RECORDING" /\ wiz.reps >= Samples /\ wiz.captures = 0)
    => wiz.armed \/ wiz.skipped \/ wiz.valState = "failed"
================================================================================
