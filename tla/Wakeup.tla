------------------------------- MODULE Wakeup -------------------------------
(***************************************************************************)
(* The wake-up chain (Wakeup/wakeup.cpp, Wakeup/Vad): recorded audio goes  *)
(* to the wake-word engine, after a wake word to the voice activity        *)
(* detector, and in an answer window to the detector alone.                *)
(*                                                                         *)
(* The chimes are played in an event loop of the player, so handlers nest  *)
(* here as they do in Conversation, and on the same C++ stack: calls holds *)
(* the chimes of this module and, abstractly, the plugins and question()s  *)
(* of Conversation that this module is used by.                            *)
(*                                                                         *)
(* One chunk of audio is handled at a time.  No engine of the repository   *)
(* emits detected(true), the branch for it is left out.  The definitions   *)
(* named ..._Slip are defects the runs must notice; no action uses them.   *)
(***************************************************************************)
EXTENDS Naturals, Sequences

CONSTANTS
  Vads,            (* the detectors the program may be built with            *)
  WebAsks,         (* requests from the web come, and may ask                *)
  MaxDepth,        (* bound on calls nested in one another                   *)
  MaxJobs          (* bound on the utterances queued for the recogniser      *)

VARIABLES
  enablePreVad,    (* wakeup.enable_prevad, never changed                    *)
  enableNotify,    (* wakeup.enable_notify, never changed                    *)
  vad,             (* the VAD_... the program is built with                  *)
  detectState,     (* what recorded audio is given to                        *)
  isResponse,      (* an answer window is open                               *)
  paused,          (* the recorder is suspended                              *)
  prevadTimer,     (* that timer is active                                   *)
  undetectTimer,   (* "off", or active with one of its two intervals, or     *)
                   (* active with its handler not yet back ("firing")        *)
  voice,           (* findVoice, and whether detectChunk reached minChunk    *)
  vadLoaded,       (* the detector still has its model                       *)
  soundLoop,       (* AudioPlaylist's event loop                             *)
  calls,           (* calls in progress, innermost last                      *)
  answered,        (* the question asked last has a spoken answer            *)
  jobs             (* utterances the recogniser has not reported yet         *)

config       == <<enablePreVad, enableNotify, vad>>
detectorVars == <<isResponse, undetectTimer, voice, vadLoaded>>
askVars      == <<answered, jobs>>
wakeupVars   == <<config, detectState, paused, prevadTimer, detectorVars, soundLoop,
                  calls, askVars>>

Engines == {"silero", "sherpa", "fvad", "cobra", "duilite"}
States  == {"IDLE", "PREVAD", "WAKEUP", "VAD"}
Chimes  == {"start", "end", "intent"}

(* stop: the argument of detected(); own: the call waits in the chime      *)
(* loop; from: who asked the plugin or asks the question.                  *)
Frame == [kind : Chimes \cup {"plugin", "ask"}, stop : BOOLEAN, own : BOOLEAN,
          from : {"wake", "voice", "web"}]
Top     == calls[Len(calls)]
OnTop(kind) == calls # <<>> /\ Top.kind = kind

-----------------------------------------------------------------------------
(* Every call in progress waits in a loop that dispatches events, but a    *)
(* chime whose loop was already running: it goes on at once.               *)
Dispatching == calls # <<>> => (Top.kind \in Chimes => Top.own)
MayNest     == Dispatching /\ Len(calls) < MaxDepth

Push(frame) == calls' = Append(calls, frame)
Pop         == calls' = SubSeq(calls, 1, Len(calls) - 1)

(* Player::playSoundEffect(file, true, ...): the caller waits.             *)
Chime(kind, stop) ==
  /\ Push([kind |-> kind, stop |-> stop, own |-> soundLoop = "idle", from |-> "wake"])
  /\ soundLoop' = IF soundLoop = "idle" THEN "exec" ELSE soundLoop

ChimeOver(kind) ==
  /\ OnTop(kind)
  /\ Top.own => soundLoop = "quit"
  /\ soundLoop' = IF Top.own THEN "idle" ELSE soundLoop

(* What listening for the wake word means.                                 *)
Resting_Slip == "PREVAD"
Resting == IF enablePreVad THEN "PREVAD" ELSE "WAKEUP"

(* VadModel::startDetect: a timer that is active keeps its interval.       *)
StartDetect(response) ==
  /\ undetectTimer' = IF undetectTimer # "off" THEN undetectTimer
                      ELSE IF response THEN "response" ELSE "undetect"
  /\ voice' = "none"

(* VadModel::stop stops the timer; silero and sherpa do that and free      *)
(* their model, fvad, cobra and duilite only free theirs.                  *)
StopsTimer == vad \in {"silero", "sherpa"}
StopDetect_Slip == UNCHANGED <<undetectTimer, vadLoaded>>
StopDetect ==
  /\ undetectTimer' = IF StopsTimer THEN "off" ELSE undetectTimer
  /\ vadLoaded' = FALSE

(* Wakeup::resume: the microphone listens for wake words again.            *)
CloseWindow_Slip == UNCHANGED <<isResponse, undetectTimer, vadLoaded>>
CloseWindow ==
  IF isResponse THEN isResponse' = FALSE /\ StopDetect
  ELSE UNCHANGED <<isResponse, undetectTimer, vadLoaded>>

Resume ==
  /\ CloseWindow
  /\ paused' = FALSE
  /\ detectState' = Resting
  /\ UNCHANGED <<voice, prevadTimer>>

(* Wakeup::doResponse: an answer window opens.                             *)
ListenForAnswer_Slip == UNCHANGED detectState
ListenForAnswer == detectState' = "VAD"

DoResponse ==
  /\ StartDetect(TRUE)
  /\ ListenForAnswer
  /\ isResponse' = TRUE
  /\ paused' = FALSE
  /\ UNCHANGED <<prevadTimer, vadLoaded>>

-----------------------------------------------------------------------------
Init ==
  /\ enablePreVad \in BOOLEAN /\ enableNotify \in BOOLEAN /\ vad \in Vads
  /\ detectState = Resting /\ isResponse = FALSE /\ paused = FALSE
  /\ prevadTimer = FALSE /\ undetectTimer = "off" /\ voice = "none"
  /\ vadLoaded = TRUE /\ soundLoop = "idle" /\ calls = <<>>
  /\ answered = FALSE /\ jobs = 0

-----------------------------------------------------------------------------
(* Audio.                                                                  *)
AudioFor(state) == Dispatching /\ ~paused /\ detectState = state

(* Some voice wakes the wake-word engine for a while.                      *)
PreVadAudio ==
  /\ AudioFor("PREVAD") /\ vadLoaded
  /\ prevadTimer' = TRUE
  /\ detectState' = "WAKEUP"
  /\ UNCHANGED <<config, paused, detectorVars, soundLoop, calls, askVars>>

(* A wake word that stands for a command.                                  *)
WakeIntent ==
  /\ AudioFor("WAKEUP") /\ MayNest
  /\ Chime("intent", FALSE)
  /\ UNCHANGED <<config, detectState, paused, prevadTimer, detectorVars, askVars>>

(* A wake word: the start chime is played with the microphone off.         *)
WakeWord ==
  /\ AudioFor("WAKEUP") /\ MayNest
  /\ prevadTimer' = (prevadTimer /\ ~enablePreVad)
  /\ IF enableNotify
     THEN /\ detectState' = "IDLE" /\ paused' = TRUE
          /\ Chime("start", FALSE)
          /\ UNCHANGED detectorVars
     ELSE /\ StartDetect(FALSE)
          /\ detectState' = "VAD"
          /\ UNCHANGED <<paused, isResponse, vadLoaded, soundLoop, calls>>
  /\ UNCHANGED <<config, askVars>>

(* The detector hears voice.                                               *)
VadVoice ==
  /\ AudioFor("VAD") /\ vadLoaded
  /\ voice' \in {"short", "long"} /\ (voice = "long" => voice' = "long")
  /\ UNCHANGED <<config, detectState, paused, prevadTimer, isResponse, undetectTimer,
                 vadLoaded, soundLoop, calls, askVars>>

(* The lambda of VadModel::detected.  An answer window ends with           *)
(* finishResponse; a dialogue with a chime, and detected() after it.       *)
Pauses_Slip(stop) == TRUE
Pauses(stop) == ~stop

AnswerEnds ==
  /\ isResponse
  /\ isResponse' = FALSE
  /\ paused' = TRUE
  /\ detectState' = "IDLE"
  /\ undetectTimer' = "off"
  /\ jobs' = jobs + 1
  /\ UNCHANGED <<soundLoop, calls>>

DialogueEnds(stop, timer) ==
  /\ ~isResponse /\ detectState = "VAD"
  /\ detectState' = IF stop THEN Resting ELSE "IDLE"
  /\ paused' = (paused \/ Pauses(stop))
  /\ Chime("end", stop)
  /\ undetectTimer' = timer
  /\ UNCHANGED <<isResponse, jobs>>

NobodyListens ==
  /\ ~isResponse /\ detectState # "VAD"
  /\ undetectTimer' = "off"
  /\ UNCHANGED <<detectState, paused, isResponse, soundLoop, calls, jobs>>

VadDetected(stop, timer) ==
  AnswerEnds \/ DialogueEnds(stop, timer) \/ NobodyListens

(* Silence after voice: VadModel::detect ends the utterance.               *)
VadSilence ==
  /\ AudioFor("VAD") /\ voice # "none" /\ MayNest /\ jobs < MaxJobs
  /\ VadDetected(voice = "short", undetectTimer)
  /\ UNCHANGED <<config, prevadTimer, voice, vadLoaded, answered>>

-----------------------------------------------------------------------------
(* Timers.                                                                 *)

(* prevadTimer's handler does not look at the state.                       *)
PrevadTimeout ==
  /\ Dispatching /\ prevadTimer
  /\ prevadTimer' = FALSE
  /\ detectState' = "PREVAD"
  /\ UNCHANGED <<config, paused, detectorVars, soundLoop, calls, askVars>>

(* undetectTimer's handler; Qt does not run it again before it is back.    *)
UndetectTimeout ==
  /\ MayNest /\ undetectTimer \in {"undetect", "response"}
  /\ jobs < MaxJobs
  /\ IF voice = "long"
     THEN undetectTimer' = "off"
          /\ UNCHANGED <<detectState, paused, isResponse, soundLoop, calls, jobs>>
     ELSE VadDetected(TRUE, "firing")
  /\ UNCHANGED <<config, prevadTimer, voice, vadLoaded, answered>>

-----------------------------------------------------------------------------
(* The chimes end.                                                         *)
SoundEnds ==
  /\ Dispatching /\ soundLoop = "exec"
  /\ soundLoop' = "quit"
  /\ UNCHANGED <<config, detectState, paused, prevadTimer, detectorVars, calls, askVars>>

StartChimeOver ==
  /\ ChimeOver("start")
  /\ Pop
  /\ paused' = FALSE
  /\ StartDetect(FALSE)
  /\ detectState' = "VAD"
  /\ UNCHANGED <<config, prevadTimer, isResponse, vadLoaded, askVars>>

(* detected(stop): Conversation::dialog gives the utterance to the         *)
(* recogniser or drops it; then the timer is stopped.                      *)
EndChimeOver ==
  /\ ChimeOver("end")
  /\ Top.stop \/ jobs < MaxJobs
  /\ Pop
  /\ jobs' = IF Top.stop THEN jobs ELSE jobs + 1
  /\ undetectTimer' = "off"
  /\ UNCHANGED <<config, detectState, paused, prevadTimer, isResponse, voice, vadLoaded, answered>>

(* detectedIntent: the plugin runs.                                        *)
IntentChimeOver ==
  /\ ChimeOver("intent")
  /\ calls' = [calls EXCEPT ![Len(calls)].kind = "plugin",
                            ![Len(calls)].own = FALSE]
  /\ UNCHANGED <<config, detectState, paused, prevadTimer, detectorVars, askVars>>

-----------------------------------------------------------------------------
(* Conversation, as far as this module sees it.                            *)
Call(kind, from) ==
  Push([kind |-> kind, stop |-> FALSE, own |-> FALSE, from |-> from])

WebRequest ==
  /\ WebAsks /\ MayNest
  /\ Call("plugin", "web")
  /\ UNCHANGED <<config, detectState, paused, prevadTimer, detectorVars, soundLoop, askVars>>

(* The recogniser reports: an answer for the question in progress, a       *)
(* command that runs a plugin, or nothing, which gives the microphone back.*)
RecognizedAnswer ==
  /\ Dispatching /\ jobs > 0
  /\ \E i \in 1..Len(calls) : calls[i].kind = "ask"
  /\ jobs' = jobs - 1
  /\ answered' = TRUE
  /\ UNCHANGED <<config, detectState, paused, prevadTimer, detectorVars, soundLoop, calls>>

RecognizedCommand ==
  /\ MayNest /\ jobs > 0
  /\ jobs' = jobs - 1
  /\ \/ /\ Call("plugin", "voice")
        /\ UNCHANGED <<detectState, paused, prevadTimer, detectorVars>>
     \/ Resume /\ UNCHANGED calls
  /\ UNCHANGED <<config, soundLoop, answered>>

(* question(): requestResponse.                                            *)
Ask ==
  /\ OnTop("plugin") /\ Len(calls) < MaxDepth
  /\ Call("ask", Top.from)
  /\ DoResponse
  /\ answered' = FALSE
  /\ UNCHANGED <<config, soundLoop, jobs>>

(* question() ends with finish(): the microphone's when its spoken answer  *)
(* is there, a web request's also with a web answer or its timer.          *)
AskOver ==
  /\ OnTop("ask") /\ (answered \/ Top.from = "web")
  /\ Pop
  /\ Resume
  /\ UNCHANGED <<config, soundLoop, askVars>>

(* A spoken command ends with finish().                                    *)
PluginReturns ==
  /\ OnTop("plugin")
  /\ Pop
  /\ IF Top.from = "voice" THEN Resume
     ELSE UNCHANGED <<detectState, paused, prevadTimer, detectorVars>>
  /\ UNCHANGED <<config, soundLoop, askVars>>

Next ==
  \/ PreVadAudio \/ WakeIntent \/ WakeWord \/ VadVoice \/ VadSilence
  \/ PrevadTimeout \/ UndetectTimeout
  \/ SoundEnds \/ StartChimeOver \/ EndChimeOver \/ IntentChimeOver
  \/ WebRequest \/ RecognizedAnswer \/ RecognizedCommand
  \/ Ask \/ AskOver \/ PluginReturns

Spec == Init /\ [][Next]_wakeupVars

-----------------------------------------------------------------------------
TypeOK ==
  /\ config \in BOOLEAN \X BOOLEAN \X Vads
  /\ detectState \in IF enablePreVad THEN States ELSE States \ {"PREVAD"}
  /\ {isResponse, paused, prevadTimer, vadLoaded, answered} \subseteq BOOLEAN
  /\ undetectTimer \in {"off", "undetect", "response", "firing"}
  /\ voice \in {"none", "short", "long"}
  /\ soundLoop \in {"idle", "exec", "quit"}
  /\ calls \in Seq(Frame)
  /\ jobs \in 0..MaxJobs

(* The microphone is never off for good: whenever the recorder is paused,  *)
(* something is under way that ends with Recorder::resume().               *)
PausedIsOwed ==
  paused =>
    \/ jobs > 0
    \/ \E i \in 1..Len(calls) :
         \/ calls[i].kind \in {"start", "ask"}
         \/ calls[i].kind = "end" /\ ~calls[i].stop
         \/ calls[i].kind = "plugin" /\ calls[i].from = "voice"

(* An answer window belongs to a question() in progress.                   *)
WindowHasAsker ==
  isResponse => \E i \in 1..Len(calls) : calls[i].kind = "ask"

(* The timer of an answer window does not outlive it, so it cannot end a   *)
(* later window with an empty answer (the comment in Wakeup::resume).  So  *)
(* with silero and sherpa; the stop() of the others leaves it running.     *)
ResponseTimerInWindow == StopsTimer /\ undetectTimer = "response" => isResponse

(* conversation.cpp:359: the question can be answered by voice.  So while  *)
(* the window is open, audio goes to the detector; with enable_prevad the  *)
(* timer of that check may take the audio away.                            *)
WindowListens == isResponse /\ ~enablePreVad => detectState = "VAD"

(* The detector can hear until the program stops.                          *)
DetectorHears == vadLoaded
=============================================================================
