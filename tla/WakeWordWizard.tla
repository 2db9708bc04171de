----------------------------- MODULE WakeWordWizard -----------------------------
(***************************************************************************)
(* The wizard that trains a wake word: recording, training, a test.        *)
(*                                                                         *)
(* What is recorded, trained and recognised is simulated by timers, and    *)
(* several timers of one screen run at once.  The wizard closes with its   *)
(* dialog, and its timers then act on a component that is gone: they do    *)
(* nothing, so they leave the model with it.  The phrase and the banner    *)
(* about the quality of a sample are left out.                             *)
(***************************************************************************)
EXTENDS Naturals

CONSTANTS
    Samples,     \* 5: recordings of the phrase
    Ticks,       \* 15: seconds until trainProgress, in steps of 7, reaches 100
    MaxTimers    \* bound: samples under way at a time

ASSUME WizardAssumption == Samples \in Nat \ {0} /\ Ticks \in Nat \ {0} /\ MaxTimers \in Nat

VARIABLE wiz   \* skipped is history: a recording was skipped

Fresh == [step |-> "INTRO", reps |-> 0, captures |-> 0, armed |-> FALSE, progress |-> 0,
          valState |-> "listening", skipped |-> FALSE]
Gone == [Fresh EXCEPT !.step = "NONE"]

\* The field is filled in before the button can be pressed.
Advance == wiz.step = "INTRO" /\ wiz' = [wiz EXCEPT !.step = "RECORDING"]

\* A sample that is good counts after a second; one that is too quiet changes nothing.
triggerSpeechSimulation ==
    /\ wiz.step = "RECORDING" /\ wiz.reps < Samples
    /\ wiz.captures < MaxTimers
    /\ wiz' = [wiz EXCEPT !.captures = @ + 1]

\* Fault: the last sample sets the timer of the training only when no other is under way.
CapturedAlone ==
    /\ wiz.captures > 0
    /\ wiz' = [wiz EXCEPT !.captures = @ - 1, !.reps = @ + 1,
                          !.armed = @ \/ (wiz.captures = 1 /\ wiz.reps + 1 = Samples)]

\* The updater of setReps sees every sample before it, and the last one sets the timer
\* of the training.
Captured ==
    /\ wiz.captures > 0
    /\ wiz' = [wiz EXCEPT !.captures = @ - 1, !.reps = @ + 1, !.armed = @ \/ wiz.reps + 1 = Samples]

\* A skipped recording counts, but sets no timer.
Skip ==
    /\ wiz.step = "RECORDING"
    /\ wiz' = [wiz EXCEPT !.reps = IF @ + 1 > Samples THEN Samples ELSE @ + 1, !.skipped = TRUE]

\* Set after every capture that is still under way, and as long.
BeginTraining ==
    /\ wiz.armed /\ wiz.captures = 0
    /\ wiz' = [wiz EXCEPT !.armed = FALSE, !.step = "TRAINING", !.progress = 0]

Tick ==
    /\ wiz.step = "TRAINING" /\ wiz.progress < Ticks
    /\ wiz' = [wiz EXCEPT !.progress = @ + 1]
EndTraining ==
    /\ wiz.step = "TRAINING" /\ wiz.progress = Ticks
    /\ wiz' = [wiz EXCEPT !.step = "VALIDATION"]

\* Two buttons, for a test that succeeds and one that fails.
simulateValidationSpeech ==
    /\ wiz.step = "VALIDATION" /\ wiz.valState = "listening"
    /\ wiz' = [wiz EXCEPT !.valState = "detecting"]
Analysed ==
    /\ wiz.step = "VALIDATION" /\ wiz.valState = "detecting"
    /\ \E r \in {"detected", "failed"} : wiz' = [wiz EXCEPT !.valState = r]
Retry ==
    /\ wiz.step = "VALIDATION" /\ wiz.valState = "failed"
    /\ wiz' = [wiz EXCEPT !.valState = "listening"]

\* The count of the recordings stays at its end: nothing can be recorded any more.
RecordAgain ==
    /\ wiz.step = "VALIDATION" /\ wiz.valState = "failed"
    /\ wiz' = [wiz EXCEPT !.step = "RECORDING"]

Timers == Captured \/ BeginTraining \/ Tick \/ EndTraining \/ Analysed
Buttons ==
    \/ Advance \/ triggerSpeechSimulation \/ Skip
    \/ simulateValidationSpeech \/ Retry \/ RecordAgain

WizardTypeOK ==
    wiz \in [step : {"NONE", "INTRO", "RECORDING", "TRAINING", "VALIDATION"}, reps : Nat,
             captures : 0 .. MaxTimers, armed : BOOLEAN, progress : 0 .. Ticks,
             valState : {"listening", "detecting", "detected", "failed"}, skipped : BOOLEAN]
================================================================================
