---------------------------- MODULE VoiceDetector ----------------------------
(***************************************************************************)
(* The voice activity detectors (Wakeup/Vad): when speech has begun, when  *)
(* it is over, and when nobody spoke.  VadModel keeps the clock and the    *)
(* counters, the five engines say whether a chunk is voice and what start  *)
(* and stop add.  Wakeup listens (a dialogue, or an answer window) and     *)
(* stops listening when detected() comes.  Of a dialogue it plays a chime  *)
(* first, in an event loop, and the detector stops its timer when that is  *)
(* over: what is listened for from inside the loop loses its timer.        *)
(*                                                                         *)
(* Time is counted in chunks of audio.  The timers that silero and fvad    *)
(* declare once more are never started and left out.  The definitions      *)
(* named ..._Slip are defects the runs must notice; no action uses them.   *)
(***************************************************************************)
EXTENDS Integers

CONSTANTS
  MinChunk,        (* wakeup.minChunk                                        *)
  DetectSlient,    (* wakeup.detectSlient, in chunks                         *)
  UndetectSlient,  (* wakeup.undetectSlient, in chunks                       *)
  ResponseSlient,  (* wakeup.responseSlient, in chunks                       *)
  AbandonNum,      (* silero.abandonNum                                      *)
  MaxVoiced        (* bound on the voiced chunks of one speaker's turn       *)

VARIABLES
  engine,          (* the VAD_... the program is built with                  *)
  session,         (* the model file could be loaded                         *)
  handle,          (* "live", or "gone" after stop()                         *)
  left,            (* what undetectTimer has left, 0 when it is due, or      *)
                   (* Firing: active, and its handler is not back            *)
  handling,        (* detected() of a dialogue is not back                   *)
  inside,          (* Wakeup listens since then                              *)
  findVoice, detectChunk,
  quiet,           (* time since currentSlient                               *)
  abandonCurrent,  (* silero: chunks since startDetect                       *)
  context,         (* silero: what the model remembers of the audio          *)
  window,          (* what Wakeup listens for                                *)
  waited,          (* time since that began                                  *)
  voiced,          (* voiced chunks since that began                         *)
  ended            (* how it ended last                                      *)

detectorVars == <<engine, session, handle, left, handling, inside, findVoice,
                  detectChunk, quiet, abandonCurrent, context, window, waited, voiced, ended>>

Engines == {"silero", "sherpa", "fvad", "cobra", "duilite"}
Off     == -1
Firing  == -2
Min2(a, b) == IF a < b THEN a ELSE b

(* init_onnx_model: a model that cannot be loaded leaves no session.       *)
InitOnnxModel(e) == IF e = "silero" THEN BOOLEAN ELSE {TRUE}

Init ==
  /\ engine \in Engines
  /\ session \in InitOnnxModel(engine)
  /\ handle = "live" /\ left = Off /\ handling = FALSE /\ inside = FALSE
  /\ findVoice = FALSE /\ detectChunk = 0 /\ quiet = 0 /\ abandonCurrent = 0
  /\ context = "zero" /\ window = "none" /\ waited = 0 /\ voiced = 0
  /\ ended = [how |-> "never", voiced |-> 0, quiet |-> 0, timer |-> FALSE]

-----------------------------------------------------------------------------
(* startDetect: an active timer keeps its interval, the counters begin     *)
(* anew; silero forgets the audio before.                                  *)
Interval(response) == IF response THEN ResponseSlient ELSE UndetectSlient
Started_Slip(response) == IF response THEN ResponseSlient ELSE left
Started(response) == IF left = Off THEN Interval(response) ELSE left
Forgotten_Slip(chunks) == chunks
Forgotten(chunks) == 0

ResetStates == context' = "zero"

StartDetect(response) ==
  /\ left' = Started(response)
  /\ findVoice' = FALSE /\ quiet' = 0
  /\ detectChunk' = Forgotten(detectChunk)
  /\ IF engine = "silero" /\ handle = "live"
     THEN ResetStates /\ abandonCurrent' = 0
     ELSE UNCHANGED <<context, abandonCurrent>>
  /\ window' = IF response THEN "answer" ELSE "dialogue"
  /\ inside' = handling
  /\ waited' = 0 /\ voiced' = 0
  /\ UNCHANGED <<engine, session, handle, handling, ended>>

Wakes  == window = "none" /\ StartDetect(FALSE)
Asks   == window # "answer" /\ StartDetect(TRUE)

(* detectVoice: silero without a model hears nothing, and drops the first  *)
(* chunks after a start; it takes the audio for a continuation.            *)
Hears(voice) ==
  IF engine # "silero" THEN voice
  ELSE handle = "live" /\ session /\ voice /\ abandonCurrent + 1 > AbandonNum
DetectVoice ==
  IF engine = "silero" /\ handle = "live"
  THEN /\ abandonCurrent' = Min2(abandonCurrent + 1, AbandonNum + 1)
       /\ context' = IF session THEN "last" ELSE context
  ELSE UNCHANGED <<abandonCurrent, context>>

Elapsed == IF left > 0 THEN left - 1 ELSE left

(* Wakeup's answer to detected(stop): it listens no more.  The timer is    *)
(* stopped when the handlers are back: those of a dialogue play the chime, *)
(* and when an outer one is playing already they go on at once.            *)
Waits == window = "dialogue" /\ ~handling
Detected(stop, byTimer) ==
  /\ handling' = (handling \/ Waits)
  /\ left' = IF ~Waits THEN Off ELSE IF byTimer THEN Firing ELSE Elapsed
  /\ window' = "none"
  /\ ended' = IF window = "none" THEN ended
              ELSE [how |-> IF window = "answer" THEN "answered"
                            ELSE IF stop THEN "dropped" ELSE "heard",
                    voiced |-> voiced', quiet |-> quiet', timer |-> byTimer]

(* VadModel::detect; duilite's own says nothing about too short a speech.  *)
Elapses == left' = Elapsed
Over == findVoice /\ quiet' > DetectSlient
Tells == engine # "duilite" \/ detectChunk >= MinChunk

Voice ==
  /\ findVoice' = TRUE /\ quiet' = 0 /\ detectChunk' = Min2(detectChunk + 1, MinChunk)
  /\ Elapses
  /\ UNCHANGED <<handling, window, ended>>

Silence ==
  /\ quiet' = Min2(quiet + 1, DetectSlient + 1)
  /\ UNCHANGED <<findVoice, detectChunk>>
  /\ IF Over
     THEN IF Tells THEN Detected(detectChunk < MinChunk, FALSE)
          ELSE left' = Off /\ UNCHANGED <<handling, window, ended>>
     ELSE Elapses /\ UNCHANGED <<handling, window, ended>>

(* A chunk of audio while Wakeup listens.  A handle that is gone can only  *)
(* be used by silero, which looks.                                         *)
Chunk(voice) ==
  /\ window # "none" /\ (engine # "silero" => handle = "live")
  /\ voice => voiced < MaxVoiced
  /\ voiced' = IF voice THEN voiced + 1 ELSE voiced
  /\ waited' = Min2(waited + 1, ResponseSlient)
  /\ DetectVoice
  /\ IF Hears(voice) THEN Voice ELSE Silence
  /\ UNCHANGED <<engine, session, handle, inside>>

(* Audio Wakeup keeps from the detector, and audio it checks for voice     *)
(* before the wake-word engine (enable_prevad).                            *)
Missed ==
  /\ window = "none"
  /\ Elapses
  /\ context' = IF context = "last" THEN "stale" ELSE context
  /\ UNCHANGED <<engine, session, handle, handling, inside, findVoice, detectChunk,
                 quiet, abandonCurrent, window, waited, voiced, ended>>
PreVad ==
  /\ window = "none" /\ handle = "live"
  /\ Elapses /\ DetectVoice
  /\ UNCHANGED <<engine, session, handle, handling, inside, findVoice, detectChunk,
                 quiet, window, waited, voiced, ended>>

(* undetectTimer: nobody spoke, or too little.  Qt does not run a timer's  *)
(* handler again before it is back.                                        *)
Nobody == ~findVoice \/ detectChunk < MinChunk
Timeout ==
  /\ left = 0
  /\ UNCHANGED <<engine, session, handle, inside, findVoice, detectChunk, quiet,
                 abandonCurrent, context, waited, voiced>>
  /\ IF Nobody
     THEN Detected(TRUE, TRUE)
     ELSE left' = Off /\ UNCHANGED <<handling, window, ended>>

(* The chime is over and detected() back: the timer is stopped, whosever   *)
(* it is by now.                                                           *)
HandlersReturn ==
  /\ handling /\ handling' = FALSE
  /\ left' = Off
  /\ UNCHANGED <<engine, session, handle, inside, findVoice, detectChunk, quiet,
                 abandonCurrent, context, window, waited, voiced, ended>>

(* Wakeup::resume: the request is over before its answer window is; the    *)
(* detector is stopped and its model freed.  fvad, cobra and duilite       *)
(* replace VadModel::stop, and leave its timer alone.                      *)
StopsTimer == engine \in {"silero", "sherpa"}
Stop ==
  /\ left' = IF StopsTimer THEN Off ELSE left
  /\ handle' = "gone"
  /\ UNCHANGED <<engine, session, findVoice, detectChunk, quiet, abandonCurrent, context>>
Resume ==
  /\ window # "none"
  /\ window' = "none"
  /\ IF window = "answer" THEN Stop
     ELSE UNCHANGED <<engine, session, handle, left, findVoice, detectChunk, quiet,
                      abandonCurrent, context>>
  /\ UNCHANGED <<handling, inside, waited, voiced, ended>>

Next ==
  \/ Wakes \/ Asks \/ (\E voice \in BOOLEAN : Chunk(voice))
  \/ Missed \/ PreVad \/ Timeout \/ HandlersReturn \/ Resume

Spec == Init /\ [][Next]_detectorVars

(* Audio keeps coming while Wakeup listens, and the event loop runs.       *)
FairSpec == Spec /\ WF_detectorVars(Chunk(FALSE)) /\ WF_detectorVars(Timeout)

-----------------------------------------------------------------------------
(* doc/config.md:109-111: what is dropped had too few voiced chunks (but   *)
(* for those silero discards at the start), what is handed on was followed *)
(* by enough silence and had as many voiced chunks as are asked for.       *)
EndsSound ==
  /\ ended.how = "dropped" /\ handle = "live" /\ session =>
       ended.voiced < MinChunk + IF engine = "silero" THEN AbandonNum ELSE 0
  /\ ended.how = "heard" => ended.voiced >= MinChunk /\ ended.quiet > DetectSlient
  /\ ended.timer => ended.how # "heard"

(* Listening comes to an end: the microphone is given back when the        *)
(* speaker falls silent or never speaks.  What begins inside detected()    *)
(* loses its timer when that is back, and may wait for a voice for good    *)
(* (VadModel.h:24, 62); duilite forgets to say so after a few words, and   *)
(* an engine that is gone hears nothing.                                   *)
ListeningEnds ==
  (window # "none" /\ ~inside /\ engine # "duilite" /\ handle = "live")
    ~> (window = "none" \/ handle = "gone")

(* wakeup.cpp:313: after stop() no timer is left that could end a later    *)
(* window with an empty answer.                                            *)
StopIsQuiet == [][handle' # handle => left' = Off]_detectorVars

(* silerovad.cpp:136, "Call reset before each audio start".                *)
ResetBeforeAudioStart ==
  [][context' = "last" => context # "stale"]_detectorVars

(* A question is open for wakeup.responseSlient before it counts as not    *)
(* answered.                                                               *)
WindowLasts ==
  [][ended' # ended /\ ended'.how = "answered" /\ ended'.timer => waited >= ResponseSlient]_detectorVars
=============================================================================
