------------------------------ MODULE VoiceCapture ------------------------------
(***************************************************************************)
(* The voice dialog over the pages of TodayTasks: the trigger that opens   *)
(* it, the briefing, the recognition, the parsing and the creation.        *)
(*                                                                         *)
(* Every opening has a flag of its own (cancelled), which stops the        *)
(* briefing and the recognition; the chain parse, wait, create looks only  *)
(* at cancelRef, which all openings share.  What Gemini and the rules make *)
(* of a sentence is left out: a sentence is the task it asks for.          *)
(***************************************************************************)
EXTENDS TodayTasks

CONSTANTS Gemini \* whether a key for Gemini is configured

VARIABLES
    supported,   \* VOICE_SUPPORTED of the browser
    phase,
    stage,       \* the conversation of this opening: what it waits for
    cancelRef,
    chains       \* functions and timers between a sentence and the end of the dialog

voice == <<supported, phase, stage, cancelRef, chains>>
appVars == <<vars, voice>>

AppInit ==
    /\ Init
    /\ supported \in BOOLEAN
    /\ phase = "idle" /\ stage = "none" /\ cancelRef = FALSE /\ chains = {}

PagesStill == UNCHANGED <<db, page, list, isLoading, armed, ops, timer, form, modal, undo, lost, history>>

----------------------------------------------------------------------------
(* Opening and closing. *)

\* The effect of [open]; without speech recognition it has no clean-up.
Opened ==
    IF voiceOpen THEN UNCHANGED voice
    ELSE /\ cancelRef' = FALSE
         /\ phase' = IF supported THEN "preparing_briefing" ELSE "unsupported"
         /\ stage' = IF supported THEN "brief" ELSE "none"
         /\ UNCHANGED <<supported, chains>>
Cleaned ==
    /\ cancelRef' = (cancelRef \/ supported)
    /\ stage' = "none"
    /\ UNCHANGED <<supported, phase>>

\* A trigger of the daemon shows the page Today as well.
onTrigger ==
    /\ Click /\ voiceOpen' = TRUE /\ Opened
    /\ IF page = "today"
       THEN UNCHANGED <<db, page, list, isLoading, armed, ops, timer, form, modal, undo, lost, history>>
       ELSE Show("today")
onTestClap ==
    /\ Uncovered /\ Click /\ voiceOpen' = TRUE /\ Opened /\ PagesStill

onClose == voiceOpen' = FALSE /\ Cleaned
CloseVoice == voiceOpen /\ onClose /\ UNCHANGED <<chains, clicks>> /\ PagesStill

----------------------------------------------------------------------------
(* The conversation of one opening. *)

Conversation == PagesStill /\ UNCHANGED <<voiceOpen, supported, cancelRef>>

\* The lists and the text of the briefing; when they fail, the bare question.
doBriefing ==
    /\ stage = "brief" /\ stage' = "speak"
    /\ phase' \in {"briefing", phase}
    /\ UNCHANGED <<chains, clicks>> /\ Conversation
startListening ==
    /\ stage = "speak"
    /\ \/ stage' = "listen" /\ phase' = "listening"
       \/ stage' = "none" /\ phase' = "error"
    /\ UNCHANGED <<chains, clicks>> /\ Conversation

\* onerror, or a result without text; or the recognition ends with neither, which nobody handles.
NothingHeard ==
    /\ stage = "listen" /\ stage' = "none"
    /\ phase' \in {"error", phase}
    /\ UNCHANGED <<chains, clicks>> /\ Conversation

Asked(t) == \/ \E c \in chains : c.arg = t
            \/ \E s \in Busy : ops[s].kind \in {"post", "voice"} /\ ops[s].arg = t

\* smartParse up to its await; without Gemini it gets to the end of it.
smartParse(t) ==
    /\ db.status[t] = "NONE" /\ ~Asked(t) /\ Click
    /\ IF cancelRef THEN UNCHANGED <<phase, chains>>
       ELSE /\ phase' = IF Gemini THEN "parsing" ELSE "parsed"
            /\ chains' = chains \union {[at |-> IF Gemini THEN "parse" ELSE "wait", arg |-> t]}
    /\ Conversation

handleVoiceResult(t) == stage = "listen" /\ stage' = "none" /\ smartParse(t)
handleManualSubmit(t) ==
    voiceOpen /\ phase \in {"unsupported", "error"} /\ smartParse(t) /\ UNCHANGED stage

----------------------------------------------------------------------------
(* From a sentence to a task. *)

Moved(c, at) == (chains \ {c}) \union {[c EXCEPT !.at = at]}

\* With or without a result of Gemini: the rules take its place.
Parsed(c) ==
    /\ c.at = "parse"
    /\ IF cancelRef THEN chains' = chains \ {c} /\ UNCHANGED phase
       ELSE chains' = Moved(c, "wait") /\ phase' = "parsed"
    /\ UNCHANGED <<stage, clicks>> /\ Conversation

Create(c) ==
    /\ Begin("voice", c.arg, <<>>, "request")
    /\ fresh' = FALSE
    /\ chains' = chains \ {c} /\ phase' = "creating"
    /\ Steady /\ UNCHANGED <<list, timer, shell, clicks, moved, supported, cancelRef, stage>>

\* Fault: createFromParsed without its first line.
CreateFromParsedAnyway(c) == c.at = "wait" /\ Create(c)

createFromParsed(c) ==
    /\ c.at = "wait"
    /\ \/ ~cancelRef /\ Create(c)
       \/ /\ cancelRef /\ chains' = chains \ {c}
          /\ UNCHANGED <<stage, clicks, phase>> /\ Conversation

\* Fault: a creation that fails leaves the dialog as it is.
CreatedQuietly(s) ==
    /\ Answered(s, {"voice"}) /\ End(s)
    /\ IF ops[s].at = "done"
       THEN phase' = "done" /\ chains' = chains \union {[at |-> "close", arg |-> ops[s].arg]}
       ELSE UNCHANGED <<phase, chains>>
    /\ undo' = NoUndo
    /\ UNCHANGED <<db, page, armed, timer, modal, voiceOpen, clicks, lost, missed, moved>>
    /\ UNCHANGED <<list, isLoading, form, fresh, stage, supported, cancelRef>>

\* Nobody asks here whether the dialog is still that of the sentence; its toast takes
\* the place of one with an undo.
Created(s) ==
    /\ Answered(s, {"voice"}) /\ End(s)
    /\ IF ops[s].at = "done"
       THEN phase' = "done" /\ chains' = chains \union {[at |-> "close", arg |-> ops[s].arg]}
       ELSE phase' = "error" /\ UNCHANGED chains
    /\ undo' = NoUndo
    /\ UNCHANGED <<db, page, armed, timer, modal, voiceOpen, clicks, lost, missed, moved>>
    /\ UNCHANGED <<list, isLoading, form, fresh, stage, supported, cancelRef>>

CloseAfterDone(c) ==
    /\ c.at = "close" /\ chains' = chains \ {c}
    /\ IF cancelRef \/ ~voiceOpen THEN UNCHANGED <<voiceOpen, supported, phase, stage, cancelRef>> ELSE onClose
    /\ PagesStill /\ UNCHANGED clicks

Chain == \E c \in chains : Parsed(c) \/ createFromParsed(c) \/ CloseAfterDone(c)
Voice ==
    \/ onTrigger \/ onTestClap \/ CloseVoice
    \/ doBriefing \/ startListening \/ NothingHeard
    \/ \E t \in Task : handleVoiceResult(t) \/ handleManualSubmit(t)
    \/ Chain
    \/ \E s \in Slot : Created(s)

\* Every creation makes a task of its own (++nextId): a sentence that was heard has its task,
\* and no other creation is for it.
OneEach == \A c \in chains : \A s \in Busy :
              ops[s].kind \in {"post", "voice"} => ops[s].arg # c.arg

AppNext == (Next /\ UNCHANGED voice /\ OneEach') \/ Voice

\* Timers fire, and Gemini answers or fails: parseWithGemini catches both.
AppSpec ==
    /\ AppInit /\ [][AppNext]_appVars
    /\ \A s \in Slot : /\ WF_appVars(Serve(s) /\ UNCHANGED voice)
                       /\ WF_appVars(Deliver(s) /\ UNCHANGED voice)
                       /\ WF_appVars(Created(s))
    /\ WF_appVars(fetchTasks /\ UNCHANGED voice)
    /\ \A t \in Task, at \in {"parse", "wait", "close"} :
           LET c == [at |-> at, arg |-> t]
           IN WF_appVars(c \in chains /\ (Parsed(c) \/ createFromParsed(c) \/ CloseAfterDone(c)))

----------------------------------------------------------------------------
(* Properties. *)

\* Where the browser can recognise speech, a creation begins only while the dialog
\* is open: closing it stops every sentence that has not been sent, also while
\* Gemini answers or the two seconds of the preview run (cancelRef).
CreatedWhileOpen ==
    [][\A t \in Task : (supported /\ ~voiceOpen /\ t \notin {ops[s].arg : s \in Busy})
                       => \A s \in Slot : ops'[s] # Free => ops'[s].kind # "voice" \/ ops'[s].arg # t]_appVars

\* The dialog does not stay at a spinner: parsing, the preview and the creation
\* come to an end, or it is closed, with whatever else runs and gets lost.
Spinning == voiceOpen /\ phase \in {"parsing", "parsed", "creating"}
VoiceSettles == Spinning ~> ~Spinning
================================================================================
