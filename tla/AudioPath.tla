------------------------------ MODULE AudioPath ------------------------------
(***************************************************************************)
(* The way of recorded audio: Wakeup's handler of Recorder::dataArrive     *)
(* cuts it into chunks for the wake-word engine or the voice detector and  *)
(* hands those of a listening period to Conversation, which feeds the      *)
(* recogniser (SherpaASR), whole or as it comes.                           *)
(*                                                                         *)
(* The chunk loops run the handlers of detected() in the middle; a chime   *)
(* there waits in an event loop, in which more audio arrives and the same  *)
(* handler starts over on the same buffer.  stack holds the loops in       *)
(* progress, innermost last.  A sample stands for its capture number.      *)
(* Wakeup states what happens to the microphone otherwise.  The            *)
(* definitions named ..._Slip are defects the runs must notice.            *)
(***************************************************************************)
EXTENDS Naturals, Sequences

CONSTANTS
  Packet,          (* samples in one Recorder::dataArrive                    *)
  ProcessChunk,    (* AudioProcess::getChunkSize                             *)
  WakeChunk,       (* WakeupModel::getChunkSize                              *)
  VadChunk,        (* VadModel::getChunkSize                                 *)
  MaxCaptured,     (* bound on the samples captured                          *)
  MaxDepth         (* bound on loops nested in one another                   *)

VARIABLES
  process,         (* an AudioProcess is built in                            *)
  enablePreVad,    (* wakeup.enable_prevad                                   *)
  stream,          (* ASRModel::isStream                                     *)
  detectState, isResponse, paused,
  captured,        (* samples captured so far                                *)
  rawData, cacheData,
  stack,           (* chunk loops in progress                                *)
  begun,           (* last sample before this listening period               *)
  nested,          (* a loop ran inside another, and its audio may be about  *)
  asr,             (* Conversation::cache and the recogniser                 *)
  given            (* the last two utterances reported                       *)

pathVars == <<process, enablePreVad, stream, detectState, isResponse, paused,
              captured, rawData, cacheData, stack, begun, nested, asr, given>>
config    == <<process, enablePreVad, stream>>
bufferVars == <<captured, rawData, cacheData>>

Resting == IF enablePreVad THEN "PREVAD" ELSE "WAKEUP"

NoReport == [audio |-> <<>>, begun |-> 0, nested |-> FALSE]

Init ==
  /\ process \in BOOLEAN /\ enablePreVad \in BOOLEAN /\ stream \in BOOLEAN
  /\ detectState = Resting /\ isResponse = FALSE /\ paused = FALSE
  /\ captured = 0 /\ rawData = <<>> /\ cacheData = <<>> /\ stack = <<>>
  /\ begun = 0 /\ nested = FALSE
  /\ asr = [cache |-> <<>>, heard |-> <<>>, result |-> <<>>, reports |-> <<>>]
  /\ given = <<NoReport, NoReport>>

-----------------------------------------------------------------------------
(* SherpaASR::detect on the audio so far: an endpoint turns it into text.  *)
(* The last part is reported with the text before it.                      *)
Feed(a, data, endpoint) ==
  IF endpoint THEN [a EXCEPT !.result = @ \o a.heard \o data, !.heard = <<>>]
  ELSE [a EXCEPT !.heard = @ \o data]
Report(a, audio) ==
  [a EXCEPT !.reports = Append(@, [audio |-> audio, begun |-> begun, nested |-> nested'])]
FeedLast(a) ==
  IF stream THEN [Report(a, a.result \o a.heard) EXCEPT !.result = <<>>, !.heard = <<>>]
  ELSE Report(a, a.cache)

(* SherpaASR::clear keeps what the stream has been fed.                    *)
ClearASR(a) == [a EXCEPT !.result = <<>>]

(* Conversation::receiveData, dialog and onResponse.                       *)
ReceiveData(a, data, endpoint) ==
  IF stream THEN Feed(a, data, endpoint) ELSE [a EXCEPT !.cache = @ \o data]
Dialog(a, stop) == [IF stop THEN ClearASR(a) ELSE FeedLast(a) EXCEPT !.cache = <<>>]
OnResponse(a) == FeedLast(a)

-----------------------------------------------------------------------------
Top         == stack[Len(stack)]
InLoop(kind) == stack # <<>> /\ Top.kind = kind /\ Top.at = "loop"
Dispatching == stack # <<>> => Top.at = "chime"
SetTop(frame) == stack' = [stack EXCEPT ![Len(stack)] = frame]

(* The chunk the loop of the innermost handler looks at, cut short where   *)
(* the buffer has shrunk under it, and the loop gone on to the next.       *)
ChunkAt(frame, size) ==
  SubSeq(cacheData, frame.index + 1, IF frame.index + size <= Len(cacheData)
                                     THEN frame.index + size ELSE Len(cacheData))
GoOn(frame, size) == [frame EXCEPT !.at = "loop", !.index = @ + size, !.remain = @ - size,
                              !.data = <<>>]

(* dataArrive; preProcess passes whole chunks on.  In PREVAD, the chunks   *)
(* before the first with voice are dropped; with that one the wake-word    *)
(* engine takes over.  In IDLE the microphone is paused and none arrives.  *)
Arrive ==
  /\ Dispatching /\ ~paused /\ captured + Packet <= MaxCaptured
  /\ Len(stack) < MaxDepth
  /\ LET data  == [i \in 1..Packet |-> captured + i]
         input == rawData \o data
         n     == (Len(input) \div ProcessChunk) * ProcessChunk
         ready == IF ~process THEN cacheData \o data
                  ELSE cacheData \o SubSeq(input, 1, n)
     IN  /\ captured' = captured + Packet
         /\ rawData' = IF ~process THEN rawData
                       ELSE SubSeq(input, n + 1, Len(input))
         /\ \/ /\ detectState = "PREVAD"
               /\ \E silent \in 0..(Len(ready) \div VadChunk) :
                    /\ cacheData' = SubSeq(ready, silent * VadChunk + 1, Len(ready))
                    /\ detectState' = IF silent < Len(ready) \div VadChunk THEN "WAKEUP"
                                      ELSE "PREVAD"
               /\ UNCHANGED <<stack, nested>>
            \/ /\ detectState \in {"WAKEUP", "VAD"}
               /\ cacheData' = ready
               /\ stack' = Append(stack, [kind |-> detectState, at |-> "loop", index |-> 0,
                                          remain |-> Len(ready), stop |-> FALSE, data |-> <<>>])
               /\ nested' = (nested \/ stack # <<>>)
               /\ UNCHANGED detectState
  /\ UNCHANGED <<config, isResponse, paused, begun, asr, given>>

(* The wake-word engine: nothing, a wake word, or one that stands for a    *)
(* command, whose chime is waited for with the microphone on.              *)
NoWord ==
  /\ InLoop("WAKEUP") /\ Top.remain >= WakeChunk
  /\ SetTop(GoOn(Top, WakeChunk))
  /\ UNCHANGED <<config, detectState, isResponse, paused, bufferVars, begun, nested, asr, given>>

WakeWord ==
  /\ InLoop("WAKEUP") /\ Top.remain >= WakeChunk /\ detectState = "WAKEUP"
  /\ detectState' = "VAD"
  /\ begun' = captured - Len(rawData)
  /\ SetTop(GoOn(Top, WakeChunk))
  /\ UNCHANGED <<config, isResponse, paused, bufferVars, nested, asr, given>>

WakeIntent ==
  /\ InLoop("WAKEUP") /\ Top.remain >= WakeChunk /\ detectState = "WAKEUP"
  /\ SetTop([Top EXCEPT !.at = "chime"])
  /\ UNCHANGED <<config, detectState, isResponse, paused, bufferVars, begun, nested, asr, given>>

(* The voice detector goes on: the chunk is handed to Conversation.        *)
Listen ==
  /\ InLoop("VAD") /\ Top.remain >= VadChunk
  /\ SetTop(GoOn(Top, VadChunk))
  /\ \E endpoint \in BOOLEAN :
       /\ endpoint => stream
       /\ asr' = ReceiveData(asr, ChunkAt(Top, VadChunk), endpoint)
  /\ UNCHANGED <<config, detectState, isResponse, paused, bufferVars, begun, nested, given>>

(* detected() in an answer window, and the chunk handed on after it.       *)
AnswerEnds ==
  /\ InLoop("VAD") /\ Top.remain >= VadChunk /\ isResponse
  /\ isResponse' = FALSE /\ paused' = TRUE /\ detectState' = "IDLE"
  /\ SetTop(GoOn(Top, VadChunk))
  /\ UNCHANGED <<config, bufferVars, begun, nested, given>>
  /\ asr' = ReceiveData(OnResponse(asr), ChunkAt(Top, VadChunk), FALSE)

(* detected() in a dialogue: the chime, and after it detected(stop) and    *)
(* the chunk the loop was at.                                              *)
DialogueEnds ==
  /\ InLoop("VAD") /\ Top.remain >= VadChunk /\ ~isResponse /\ detectState = "VAD"
  /\ \E stop \in BOOLEAN :
       /\ detectState' = IF stop THEN Resting ELSE "IDLE"
       /\ paused' = (paused \/ ~stop)
       /\ SetTop([Top EXCEPT !.at = "chime", !.stop = stop,
                               !.data = ChunkAt(Top, VadChunk)])
  /\ UNCHANGED <<config, isResponse, bufferVars, begun, nested, asr, given>>

ChimeOver ==
  /\ stack # <<>> /\ Top.at = "chime"
  /\ UNCHANGED <<config, detectState, isResponse, paused, bufferVars, begun, nested, given>>
  /\ IF Top.kind = "VAD"
     THEN /\ SetTop(GoOn(Top, VadChunk))
          /\ asr' = ReceiveData(Dialog(asr, Top.stop), Top.data, FALSE)
     ELSE /\ SetTop(GoOn(Top, WakeChunk))
          /\ UNCHANGED asr

(* The loop is over: what it went over is taken off the buffer.            *)
Removed_Slip(index) == 0
Removed(index) == index
LoopEnds ==
  /\ stack # <<>> /\ Top.at = "loop"
  /\ Top.remain < IF Top.kind = "VAD" THEN VadChunk ELSE WakeChunk
  /\ cacheData' = SubSeq(cacheData, Removed(Top.index) + 1, Len(cacheData))
  /\ stack' = SubSeq(stack, 1, Len(stack) - 1)
  /\ UNCHANGED <<config, detectState, isResponse, paused, captured, rawData, begun, nested,
                 asr, given>>

-----------------------------------------------------------------------------
(* The recogniser's report: Conversation drops its cache, and the request  *)
(* is over or asks back.                                                   *)
Kept_Slip(cache) == cache
Kept(cache) == <<>>
Recognized ==
  /\ Dispatching /\ asr.reports # <<>>
  /\ given' = <<given[2], Head(asr.reports)>>
  /\ asr' = [asr EXCEPT !.reports = Tail(@), !.cache = Kept(@)]
  /\ nested' = (stack # <<>> \/ (nested /\ asr.heard \o asr.result # <<>>))
  /\ \/ detectState' = Resting /\ isResponse' = FALSE /\ UNCHANGED begun
     \/ detectState' = "VAD" /\ isResponse' = TRUE /\ begun' = captured - Len(rawData)
  /\ paused' = FALSE
  /\ UNCHANGED <<config, bufferVars, stack>>

Next ==
  \/ Arrive \/ NoWord \/ WakeWord \/ WakeIntent \/ Listen
  \/ AnswerEnds \/ DialogueEnds \/ ChimeOver \/ LoopEnds \/ Recognized

Spec == Init /\ [][Next]_pathVars

-----------------------------------------------------------------------------
Ascending(s) == \A i \in 1..(Len(s) - 1) : s[i] < s[i + 1]

(* From the first sample of the listening period on, none is left out.     *)
GoesOn(report) ==
  \A i \in 1..(Len(report.audio) - 1) :
    report.audio[i] > report.begun => report.audio[i + 1] = report.audio[i] + 1

(* What the recogniser reports of a listening period is that period, with  *)
(* nothing left out and nothing twice or again; chunks of the one before   *)
(* may precede it.  Unless audio was handled inside a chime, where the     *)
(* buffer is gone over again.                                              *)
UtteranceWhole ==
  ~given[2].nested =>
    /\ Ascending(given[2].audio) /\ GoesOn(given[2])
    /\ ~given[1].nested =>
         \A i \in DOMAIN given[1].audio, j \in DOMAIN given[2].audio :
           given[1].audio[i] # given[2].audio[j]
=============================================================================
