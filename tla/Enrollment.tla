------------------------------ MODULE Enrollment ------------------------------
(***************************************************************************)
(* Wake-word enrollment in the audio daemon: EditSession records a number  *)
(* of repetitions on a second subscription, trains a shadow model in a     *)
(* background thread, and a save writes it to disk, swaps it into the      *)
(* running detector and then persists the settings that make a restart     *)
(* load it.                                                                *)
(*                                                                         *)
(* Every method runs in a thread of the HTTP server under the lock of the  *)
(* session and is one step, except save: its disk write is separate, since *)
(* the daemon may die in the middle, and its on_committed runs after the   *)
(* lock is released.  A model is named by the edit it was trained in; so   *)
(* is the phrase an edit was opened with.                                  *)
(*                                                                         *)
(* Definitions headed "Fault" are deliberate mistakes, used to show that a *)
(* property would notice them; they are no part of the specification.      *)
(***************************************************************************)
EXTENDS Integers

CONSTANTS
    MaxEdits,   \* bound: how often an edit is opened
    Required,   \* required_reps
    Null,       \* NullWakeWordModel; on disk: no file that can be loaded
    NoModel     \* None

Edits == 1 .. MaxEdits

ASSUME EnrollmentAssumption ==
    /\ MaxEdits \in Nat
    /\ Required \in Nat \ {0}
    /\ Null \notin Nat
    /\ NoModel \notin Nat \union {Null}

VARIABLES
    state,      \* EditSession.state
    phrase,     \* the edit that set _phrase, 0 while it is None
    reps,       \* how many recordings there are
    enrolled,   \* whether the enrollment subscription is open
    shadow,     \* the trained model that is not installed yet
    training,   \* the edits whose training thread is still running
    saving,     \* how far a save has come that holds the lock
    active,     \* the model in the ModelSlot of the detector
    released,   \* the models release() was called on
    disk,       \* what load_model finds at the model path
    persisting, \* the phrases on_committed has still to write to the settings
    meta,       \* the phrase in the stored settings, 0 while model_path is None
    opened,     \* how many edits were opened
    cancelled,  \* history: the edits given up by CANCEL
    failed      \* history: whether a write failed since the daemon started

session == <<state, phrase, reps, enrolled, shadow, training>>
detector == <<active, released>>
stored == <<disk, persisting, meta>>
history == <<opened, cancelled, failed>>
enrollmentVars == <<session, saving, detector, stored, history>>

Models == Edits \union {Null}

States == {"IDLE", "EDITING_SETUP", "RECORDING", "TRAINING", "VALIDATING",
           "COMMITTING"}

LockFree == saving = "no"

\* release() leaves a NullWakeWordModel as it is.
Release(m) == released' = released \union ({m} \intersect Edits)

EnrollmentInit ==
    /\ state = "IDLE"
    /\ phrase = 0
    /\ reps = 0
    /\ enrolled = FALSE
    /\ shadow = NoModel
    /\ training = {}
    /\ saving = "no"
    /\ active = Null
    /\ released = {}
    /\ disk = Null
    /\ persisting = {}
    /\ meta = 0
    /\ opened = 0
    /\ cancelled = {}
    /\ failed = FALSE

-----------------------------------------------------------------------------
\* _discard_shadow
DiscardShadow ==
    /\ Release(shadow)
    /\ shadow' = NoModel

\* Fault: the shadow of the edit before stays.
OpenEditOnShadow ==
    /\ LockFree
    /\ opened < MaxEdits
    /\ opened' = opened + 1
    /\ phrase' = opened + 1
    /\ reps' = 0
    /\ state' = "EDITING_SETUP"
    /\ UNCHANGED <<enrolled, shadow, released, training, saving, active, stored,
                   cancelled, failed>>

\* Allowed in every state; an open subscription and a running training thread
\* stay as they are.
OpenEdit ==
    /\ LockFree
    /\ opened < MaxEdits
    /\ DiscardShadow
    /\ opened' = opened + 1
    /\ phrase' = opened + 1
    /\ reps' = 0
    /\ state' = "EDITING_SETUP"
    /\ UNCHANGED <<enrolled, training, saving, active, stored, cancelled, failed>>

StartRecording ==
    /\ LockFree
    /\ state \in {"EDITING_SETUP", "RECORDING"}
    /\ state' = "RECORDING"
    /\ enrolled' = TRUE
    /\ UNCHANGED <<phrase, reps, shadow, training, saving, detector, stored, history>>

CutRecording ==
    /\ LockFree
    /\ state = "RECORDING"
    /\ reps' = reps + 1
    /\ reps' < Required
    /\ UNCHANGED <<state, phrase, enrolled, shadow, training, saving, detector,
                   stored, history>>

\* The last repetition starts the training thread.
StartTraining ==
    /\ LockFree
    /\ state = "RECORDING"
    /\ reps' = reps + 1
    /\ reps' >= Required
    /\ state' = "TRAINING"
    /\ training' = training \union {phrase}
    /\ UNCHANGED <<phrase, enrolled, shadow, saving, detector, stored, history>>

\* Fault: the thread leaves the state as it is.
TrainedUnseen(e) ==
    /\ LockFree
    /\ e \in training
    /\ training' = training \ {e}
    /\ shadow' \in {e, Null}
    /\ UNCHANGED <<state, phrase, reps, enrolled, saving, detector, stored, history>>

\* The thread of edit e hands in its model, whatever became of the edit: a
\* NullWakeWordModel if the recordings hold nothing usable.  A shadow that is
\* there already is replaced without release().
Trained(e) ==
    /\ LockFree
    /\ e \in training
    /\ training' = training \ {e}
    /\ shadow' \in {e, Null}
    /\ state' = "VALIDATING"
    /\ UNCHANGED <<phrase, reps, enrolled, saving, detector, stored, history>>

Cancel ==
    /\ LockFree
    /\ DiscardShadow
    /\ enrolled' = FALSE
    /\ reps' = 0
    /\ state' = "IDLE"
    /\ cancelled' = IF state = "IDLE" THEN cancelled ELSE cancelled \union {phrase}
    /\ UNCHANGED <<phrase, training, saving, active, stored, opened, failed>>

-----------------------------------------------------------------------------
\* save asks for a shadow and for nothing else.
BeginSave ==
    /\ LockFree
    /\ shadow # NoModel
    /\ state' = "COMMITTING"
    /\ saving' = "opening"
    /\ UNCHANGED <<phrase, reps, enrolled, shadow, training, detector, stored, history>>

\* np.savez truncates the file before it writes; a NullWakeWordModel has no save.
OpenFile ==
    /\ saving = "opening"
    /\ IF shadow = Null THEN saving' = "stored" /\ UNCHANGED disk
                        ELSE saving' = "writing" /\ disk' = Null
    /\ UNCHANGED <<session, detector, persisting, meta, history>>

\* Fault: nothing is written.
WriteFileEmpty ==
    /\ saving = "writing"
    /\ saving' = "stored"
    /\ UNCHANGED <<session, detector, stored, history>>

WriteFile ==
    /\ saving = "writing"
    /\ saving' = "stored"
    /\ disk' = shadow
    /\ UNCHANGED <<session, detector, persisting, meta, history>>

\* The exception is swallowed and the save goes on, whatever is in the file.
WriteFails ==
    /\ saving \in {"opening", "writing"}
    /\ shadow # Null
    /\ saving' = "stored"
    /\ failed' = TRUE
    /\ UNCHANGED <<session, detector, stored, opened, cancelled>>

\* Fault: the session still refers to the model it installed.
InstallAndKeep ==
    /\ saving = "stored"
    /\ active' = shadow
    /\ Release(active)
    /\ enrolled' = FALSE
    /\ reps' = 0
    /\ state' = "IDLE"
    /\ saving' = "no"
    /\ persisting' = persisting \union {phrase}
    /\ UNCHANGED <<phrase, shadow, training, disk, meta, history>>

\* hot_swap_model releases the model it replaces; then the lock is released.
Install ==
    /\ saving = "stored"
    /\ active' = shadow
    /\ Release(active)
    /\ shadow' = NoModel
    /\ enrolled' = FALSE
    /\ reps' = 0
    /\ state' = "IDLE"
    /\ saving' = "no"
    /\ persisting' = persisting \union {phrase}
    /\ UNCHANGED <<phrase, training, disk, meta, history>>

\* persist_wake, outside the lock: the settings name the model file.
Persist(p) ==
    /\ p \in persisting
    /\ persisting' = persisting \ {p}
    /\ meta' = p
    /\ UNCHANGED <<session, saving, detector, disk, history>>

PersistFails(p) ==
    /\ p \in persisting
    /\ persisting' = persisting \ {p}
    /\ failed' = TRUE
    /\ UNCHANGED <<session, saving, detector, disk, meta, opened, cancelled>>

-----------------------------------------------------------------------------
\* The daemon dies and starts again; apply_initial loads the model the settings
\* name.
Restart ==
    /\ state' = "IDLE"
    /\ phrase' = 0
    /\ reps' = 0
    /\ enrolled' = FALSE
    /\ shadow' = NoModel
    /\ training' = {}
    /\ saving' = "no"
    /\ active' = IF meta = 0 THEN Null ELSE disk
    /\ released' = {}
    /\ persisting' = {}
    /\ failed' = FALSE
    /\ UNCHANGED <<disk, meta, opened, cancelled>>

Save ==
    \/ BeginSave
    \/ OpenFile
    \/ WriteFile
    \/ WriteFails
    \/ Install

EnrollmentNext ==
    \/ OpenEdit
    \/ StartRecording
    \/ CutRecording
    \/ StartTraining
    \/ Cancel
    \/ Save
    \/ \E e \in Edits : Trained(e)
    \/ \E p \in Edits : Persist(p) \/ PersistFails(p)
    \/ Restart

\* Threads run: a training thread finishes and waits for the lock, and the thread
\* that holds the lock of the session goes on.
EnrollmentFairness ==
    /\ \A e \in Edits : WF_enrollmentVars(Trained(e))
    /\ WF_enrollmentVars(OpenFile)
    /\ WF_enrollmentVars(WriteFile)
    /\ WF_enrollmentVars(Install)

EnrollmentSpec == EnrollmentInit /\ [][EnrollmentNext]_enrollmentVars /\ EnrollmentFairness

-----------------------------------------------------------------------------
\* Types.
EnrollmentTypeOK ==
    /\ state \in States
    /\ phrase \in 0 .. MaxEdits
    /\ reps \in 0 .. Required
    /\ enrolled \in BOOLEAN
    /\ shadow \in Models \union {NoModel}
    /\ training \subseteq Edits
    /\ saving \in {"no", "opening", "writing", "stored"}
    /\ active \in Models
    /\ released \subseteq Edits
    /\ disk \in Models
    /\ persisting \subseteq Edits
    /\ meta \in 0 .. MaxEdits
    /\ opened \in 0 .. MaxEdits
    /\ cancelled \subseteq Edits
    /\ failed \in BOOLEAN

\* The detector never runs on a model that was released, neither by a swap nor by
\* a CANCEL or an open_edit that discards the shadow, however late a training
\* thread hands its model in.
ActiveNotReleased == active \notin released

\* The state a client reads from /wakeword/edit/status tells whether there is a
\* model to validate and to save, also after a training thread that finished late.
ShadowMatchesState ==
    (shadow # NoModel) <=> (state \in {"VALIDATING", "COMMITTING"})

\* After a save a restart brings the same model back, unless a write failed or the
\* settings have not been written yet.
RestartKeepsModel ==
    LockFree /\ persisting = {} /\ ~failed /\ active # Null
        => meta # 0 /\ disk = active

\* The session leaves TRAINING by itself, whichever threads are in flight.
TrainingEnds == (state = "TRAINING") ~> (state # "TRAINING")

\* edit_session.py: "CANCEL discards the shadow and never touches the ACTIVE
\* model".  Then the model of a cancelled edit is never installed.
CancelledNeverInstalled == active \notin cancelled

=============================================================================
