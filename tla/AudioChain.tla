----------------------------- MODULE AudioChain ------------------------------
(***************************************************************************)
(* The way of sound through the program, from the microphone over the wake *)
(* word and the voice check to the play buffer and the loudspeaker, with   *)
(* the sound files and the settings: in every behaviour one component is   *)
(* active, so their state spaces add up.  MCPipeline adds the components   *)
(* that make text of it.                                                   *)
(***************************************************************************)
EXTENDS Integers, Sequences

CONSTANTS MinChunk, DetectSlient, UndetectSlient, ResponseSlient, AbandonNum,
          MaxVoiced, Packet, ProcessChunk, WakeChunk, VadChunk, MaxCaptured,
          MaxDepth, TriggerLevels, Refractory, ChunkSamples, ChunkMels,
          EmbWindow, EmbStep, WwFeatures, MaxScores, Hop, Kernel,
          FramesPerStep, WindowSamples, MinEmbeddings, TopDb, Levels,
          MaxSteps, ChunkSizes, MaxRecorded, MaxDevice, MaxNesting, Default,
          Sizes, MaxBuffered, Steps, Limit, Rates, Sounds, Others, MaxWrites,
          BufLength, Kinds, MaxSays, MaxSentences, MaxFailures, Sections,
          MaxValue

(* What is counted in bytes and samples is not negative, and neither a     *)
(* buffer nor a chunk is empty.                                            *)
ASSUME SizesAssumption ==
  /\ ChunkSizes \subseteq Nat /\ MaxDevice \in Nat
  /\ Default \in Nat \ {0} /\ Sizes \subseteq Nat \ {0} /\ Packet \in Nat
  /\ ProcessChunk \in Nat \ {0} /\ WakeChunk \in Nat \ {0} /\ VadChunk \in Nat \ {0}

(* One voiced chunk at least is asked for; a trigger level and a pause     *)
(* below the least are raised to it (livekitwakeup.cpp:16-17).             *)
ASSUME ListeningAssumption ==
  /\ MinChunk \in Nat \ {0} /\ DetectSlient \in Nat /\ AbandonNum \in Nat
  /\ TriggerLevels \subseteq Nat \ {0} /\ Refractory \in Nat
  /\ ChunkSamples \in Nat \ {0} /\ ChunkMels \in Nat
  /\ EmbWindow \in Nat \ {0} /\ EmbStep \in Nat \ {0} /\ WwFeatures \in Nat \ {0}

(* FileCache keeps 30 files (FileCache.h:37), and a millisecond has two    *)
(* names at most; files are made of headers and units.                     *)
ASSUME FilesAssumption ==
  /\ Limit \in Nat \ {0, 1} /\ BufLength \in Nat \ {0} /\ Rates \subseteq Nat
  /\ Sounds \subseteq Seq(STRING)
  /\ Others \subseteq Seq([id : STRING, length : Nat, rate : Nat])

VARIABLES engine, session, handle, left, handling, inside, findVoice,
          detectChunk, quiet, abandonCurrent, context, window, waited, voiced, ended
VARIABLES process, enablePreVad, stream, detectState, isResponse, paused,
          captured, rawData, cacheData, stack, begun, nested, asr, given
VARIABLES livekit, triggerLevel, hitStreak, cooldown, activation, samples,
          melsOut, featuresOut, scores
VARIABLES streamAudio, absSamples, level, nextFrame, melRows, melRowHead,
          melRowCount, embRing, embHead, primed, melScratch, seq
VARIABLES buffer, connected, held, chunkSize, micPaused, suspended, drains,
          chunk
VARIABLES mem, begin, end, remain, state, isFinish, decoding, made, queue,
          dropped
VARIABLES mixer, volume, reading, answer
VARIABLES now, disk, files, writes, written, file, pos, dataOffset,
          dataLength, sampleRate, read
VARIABLES says, ttsQueue, index, endIndex, playing, waiting, heardTo,
          failures, alone
VARIABLES yaml, json, configs, up, saved, torn
VARIABLE  active

Detector == INSTANCE VoiceDetector
Path == INSTANCE AudioPath
Trigger == INSTANCE WakeTrigger
Livekit == INSTANCE LivekitWakeWord
Mic == INSTANCE Recorder WITH paused <- micPaused, MaxBytes <- MaxRecorded
Ring == INSTANCE AudioBuffer WITH MaxBytes <- MaxBuffered
Volume == INSTANCE Player
Waves == INSTANCE WavFiles
Voice == INSTANCE Speech
Settings == INSTANCE Config

detectorVars == <<engine, session, handle, left, handling, inside, findVoice,
  detectChunk, quiet, abandonCurrent, context, window, waited, voiced, ended>>
pathVars == <<process, enablePreVad, stream, detectState, isResponse, paused,
  captured, rawData, cacheData, stack, begun, nested, asr, given>>
triggerVars == <<livekit, triggerLevel, hitStreak, cooldown, activation,
  samples, melsOut, featuresOut, scores>>
livekitVars == <<streamAudio, absSamples, level, nextFrame, melRows,
  melRowHead, melRowCount, embRing, embHead, primed, melScratch, seq>>
micVars == <<buffer, connected, held, chunkSize, micPaused, suspended, drains,
  chunk>>
ringVars == <<mem, begin, end, remain, state, isFinish, decoding, made, queue,
  dropped>>
mixingVars == <<mixer, volume, reading, answer>>
wavesVars == <<now, disk, files, writes, written, file, pos, dataOffset,
  dataLength, sampleRate, read>>
speechVars == <<says, ttsQueue, index, endIndex, playing, waiting, heardTo,
  failures, alone>>
settingsVars == <<yaml, json, configs, up, saved, torn>>

OnlyDetector ==
  /\ active = "detector"
  /\ UNCHANGED <<active, pathVars, triggerVars, livekitVars, micVars, ringVars,
                 mixingVars, wavesVars, speechVars, settingsVars>>
OnlyPath ==
  /\ active = "path"
  /\ UNCHANGED <<active, detectorVars, triggerVars, livekitVars, micVars, ringVars,
                 mixingVars, wavesVars, speechVars, settingsVars>>
OnlyTrigger ==
  /\ active = "trigger"
  /\ UNCHANGED <<active, detectorVars, pathVars, livekitVars, micVars, ringVars,
                 mixingVars, wavesVars, speechVars, settingsVars>>
OnlyLivekit ==
  /\ active = "livekit"
  /\ UNCHANGED <<active, detectorVars, pathVars, triggerVars, micVars, ringVars,
                 mixingVars, wavesVars, speechVars, settingsVars>>
OnlyMic ==
  /\ active = "mic"
  /\ UNCHANGED <<active, detectorVars, pathVars, triggerVars, livekitVars,
                 ringVars, mixingVars, wavesVars, speechVars,
                 settingsVars>>
OnlyRing ==
  /\ active = "ring"
  /\ UNCHANGED <<active, detectorVars, pathVars, triggerVars, livekitVars, micVars,
                 mixingVars, wavesVars, speechVars, settingsVars>>
OnlyMixing ==
  /\ active = "mixing"
  /\ UNCHANGED <<active, detectorVars, pathVars, triggerVars, livekitVars, micVars,
                 ringVars, wavesVars, speechVars, settingsVars>>
OnlyWaves ==
  /\ active = "waves"
  /\ UNCHANGED <<active, detectorVars, pathVars, triggerVars, livekitVars, micVars,
                 ringVars, mixingVars, speechVars, settingsVars>>
OnlySpeech ==
  /\ active = "speech"
  /\ UNCHANGED <<active, detectorVars, pathVars, triggerVars, livekitVars, micVars,
                 ringVars, mixingVars, wavesVars, settingsVars>>
OnlySettings ==
  /\ active = "settings"
  /\ UNCHANGED <<active, detectorVars, pathVars, triggerVars, livekitVars, micVars,
                 ringVars, mixingVars, wavesVars, speechVars>>

AudioParts == {"detector", "path", "trigger", "livekit", "mic", "ring", "mixing",
               "waves", "speech", "settings"}

AudioInit ==
  /\ Detector!Init /\ (active # "detector" => engine = "silero" /\ session)
  /\ Path!Init /\ (active # "path" => ~process /\ ~enablePreVad /\ ~stream)
  /\ Trigger!Init /\ (active # "trigger" => livekit /\ triggerLevel = 1)
  /\ Livekit!Init
  /\ Mic!Init
  /\ Ring!Init
  /\ Volume!Init /\ (active # "mixing" => mixer = 100)
  /\ Waves!Init
  /\ Voice!Init
  /\ Settings!Init /\ (active # "settings" => yaml = <<>> /\ json = <<>>)

AudioNext ==
  \/ OnlyDetector /\ Detector!Next
  \/ OnlyPath /\ Path!Next
  \/ OnlyTrigger /\ Trigger!Next
  \/ OnlyLivekit /\ Livekit!Next
  \/ OnlyMic /\ Mic!Next
  \/ OnlyRing /\ Ring!Next
  \/ OnlyMixing /\ Volume!Next
  \/ OnlyWaves /\ Waves!Next
  \/ OnlySpeech /\ Voice!Next
  \/ OnlySettings /\ Settings!Next

audioVars == <<active, detectorVars, pathVars, triggerVars, livekitVars, micVars, ringVars,
  mixingVars, wavesVars, speechVars, settingsVars>>
AudioSpec == AudioInit /\ [][AudioNext]_audioVars

-----------------------------------------------------------------------------
(* Listening ends for the reason the settings name (doc/config.md:109-111, *)
(* silerovad.cpp, fvadmodel.cpp); and one wakes the program up with just   *)
(* as many hits in a row as configured, with no window of features left    *)
(* out (openwakeonnx.cpp:131-142, livekitwakeup.cpp:66-80).                *)
ListeningSound ==
  /\ Detector!EndsSound
  /\ Trigger!WakesOnRuns /\ Trigger!WindowsTaken

(* From the device to the recogniser no audio is lost, repeated or mixed   *)
(* with another listening period's: in the play buffer's ring              *)
(* (audiobuffer.h:12-24), with one callback on the device (recorder.h:45), *)
(* and through the chunk loops of Wakeup (wakeup.cpp:184-208).             *)
AudioWhole == Ring!RingIsQueue /\ Mic!OneConnection /\ Path!UtteranceWhole

(* What is handed out as a chunk comes in order and never while paused     *)
(* (recorder.h:104-120), and a blocking say() ends with its last sentence  *)
(* (conversation.cpp:189, 239).                                            *)
InOrder == Mic!HandedInOrder /\ Voice!WaitsToTheEnd

(* Sounds written to a file come back from it (filecache.cpp,              *)
(* wavfilereader.h), and the cache keeps what is newest.                   *)
FilesKept == Waves!SoundsComeBack /\ Waves!LatestKept

(* A start finds the settings last written (config.cpp), and a volume that *)
(* cannot be read is not taken for another (player.cpp).                   *)
SettingsKept == Settings!StartsWithLast /\ Volume!VolumeKept

(* The microphone and the caller come back: a listening period ends        *)
(* (VadModel.h:24-33), and so does a blocking say() (conversation.cpp:472).*)
VoiceReturns == Detector!ListeningEnds /\ Voice!SayReturns
=============================================================================
