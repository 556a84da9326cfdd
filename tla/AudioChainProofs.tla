-------------------------- MODULE AudioChainProofs --------------------------
(***************************************************************************)
(* Proofs about AudioChain, for all bounds: what holds of the parts of the *)
(* way of sound through the program.                                       *)
(***************************************************************************)
EXTENDS AudioChain, TLC, SequenceTheorems, FiniteSetTheorems, TLAPS

(* A step of the run is one of the part that is active, and the others     *)
(* stay as they are.                                                       *)
LEMMA RunSteps ==
  ASSUME [AudioNext]_audioVars
  PROVE  /\ Settings!Next \/ UNCHANGED settingsVars
         /\ Volume!Next \/ UNCHANGED mixingVars
         /\ Voice!Next \/ UNCHANGED speechVars
         /\ Mic!Next \/ UNCHANGED micVars
         /\ Ring!Next \/ UNCHANGED ringVars
         /\ Path!Next \/ UNCHANGED pathVars
         /\ Detector!Next \/ UNCHANGED detectorVars
         /\ Trigger!Next \/ UNCHANGED triggerVars
         /\ Livekit!Next \/ UNCHANGED livekitVars
         /\ Waves!Next \/ UNCHANGED wavesVars
  BY DEF AudioNext, audioVars, OnlyDetector, OnlyPath, OnlyTrigger, OnlyLivekit, OnlyMic,
     OnlyRing, OnlyMixing, OnlyWaves, OnlySpeech, OnlySettings

-----------------------------------------------------------------------------
(* Settings and the volume.                                                *)

(* Without a cut-off write the file holds what was last written; the older *)
(* file is never written.                                                  *)
SavedIsThere ==
  /\ torn \/ saved = yaml
  /\ json = <<>> \/ json = <<json[1]>>

LEMMA SavedAtFirst == Settings!Init => SavedIsThere
  BY DEF Settings!Init, SavedIsThere, Settings!NoFile

LEMMA SavedKept ==
  ASSUME SavedIsThere, Settings!Next \/ UNCHANGED settingsVars
  PROVE  SavedIsThere'
<1>1. json' = json
  BY DEF Settings!Next, Settings!Load, Settings!LoadCutOff, Settings!Exit, Settings!SaveConfig,
     Settings!SaveCutOff, Settings!Edit, settingsVars
<1>2. CASE Settings!Load
  BY <1>2 DEF Settings!Load, Settings!Dumped, SavedIsThere
<1>3. CASE Settings!LoadCutOff
  BY <1>1, <1>3 DEF Settings!LoadCutOff, Settings!CutOff, SavedIsThere
<1>4. CASE Settings!Exit \/ UNCHANGED settingsVars
  BY <1>4 DEF Settings!Exit, settingsVars, SavedIsThere
<1>5. ASSUME NEW s \in Sections, NEW v \in 0..MaxValue,
             Settings!SaveConfig(s, v) \/ Settings!SaveCutOff(s, v)
      PROVE  SavedIsThere'
  BY <1>1, <1>5 DEF Settings!SaveConfig, Settings!SaveCutOff, Settings!Dumped, Settings!CutOff,
     SavedIsThere
<1>6. ASSUME NEW sections, Settings!Edit(sections)
      PROVE  SavedIsThere'
  BY <1>1, <1>6 DEF Settings!Edit, SavedIsThere
<1>7. QED
  BY <1>2, <1>3, <1>4, <1>5, <1>6 DEF Settings!Next

(* The program comes up by loading.                                        *)
LEMMA UpByLoad ==
  ASSUME SavedIsThere, Settings!Next \/ UNCHANGED settingsVars, ~up, up', ~torn
  PROVE  /\ saved # Settings!NoFile => configs' = saved[1]
         /\ saved = Settings!NoFile /\ json # Settings!NoFile => configs' = json[1] /\ yaml' = json
<1>1. Settings!Load
  BY DEF Settings!Next, Settings!LoadCutOff, Settings!Exit, Settings!SaveConfig,
     Settings!SaveCutOff, Settings!Edit, settingsVars
<1>2. QED
  BY <1>1 DEF Settings!Load, Settings!Readable, Settings!Dumped, SavedIsThere, Settings!NoFile

(* What is answered was the mixer's volume, or the one last known.         *)
LEMMA AnsweredVolume ==
  ASSUME Volume!Next \/ UNCHANGED mixingVars, answer' # answer
  PROVE  answer' \in {mixer, volume}
<1>1. PICK ends \in BOOLEAN, bracketed \in {"number", "word", "nothing"} :
        Volume!GetVolume(ends, bracketed)
  BY DEF Volume!Next, Volume!SetVolume, Volume!ModifyVolume, mixingVars
<1>2. QED
  BY <1>1 DEF Volume!GetVolume, Volume!ParseAmixerVolume, Volume!Unread

(* A start finds the settings last written (config.cpp), and a volume that *)
(* cannot be read is not taken for another (player.h:36-41).               *)
THEOREM SettingsStayKept == AudioSpec => SettingsKept
<1>1. AudioInit => SavedIsThere
  BY SavedAtFirst DEF AudioInit
<1>2. SavedIsThere /\ [AudioNext]_audioVars => SavedIsThere'
  BY RunSteps, SavedKept
<1>3. SavedIsThere /\ [AudioNext]_audioVars
        => [~up /\ up' /\ ~torn =>
              /\ saved # Settings!NoFile => configs' = saved[1]
              /\ saved = Settings!NoFile /\ json # Settings!NoFile
                   => configs' = json[1] /\ yaml' = json]_(Settings!configVars)
  BY RunSteps, UpByLoad
<1>4. [AudioNext]_audioVars => [answer' # answer => answer' \in {mixer, volume}]_(Volume!playerVars)
  BY RunSteps, AnsweredVolume
<1>5. QED
  BY <1>1, <1>2, <1>3, <1>4, PTL
     DEF AudioSpec, SettingsKept, Settings!StartsWithLast, Volume!VolumeKept

-----------------------------------------------------------------------------
(* Sequences.                                                              *)

(* A sequence, as the prover knows it.                                     *)
LEMMA SeqFacts ==
  ASSUME NEW S, NEW q \in Seq(S)
  PROVE  /\ Len(q) \in Nat /\ DOMAIN q = 1..Len(q)
         /\ \A i \in 1..Len(q) : q[i] \in S
         /\ q # <<>> <=> Len(q) # 0
  BY EmptySeq

(* All but the last element, and the last replaced.                        *)
LEMMA LastLeaves ==
  ASSUME NEW S, NEW q \in Seq(S), q # <<>>
  PROVE  /\ Len(q) \in Nat \ {0} /\ q[Len(q)] \in S
         /\ SubSeq(q, 1, Len(q) - 1) \in Seq(S)
         /\ Len(SubSeq(q, 1, Len(q) - 1)) = Len(q) - 1
         /\ \A i \in 1..(Len(q) - 1) : SubSeq(q, 1, Len(q) - 1)[i] = q[i]
<1>1. Len(q) \in Nat \ {0} /\ \A i \in 1..Len(q) : q[i] \in S
  BY EmptySeq
<1>2. \A i \in 1..(Len(q) - 1) : q[i] \in S
  BY <1>1
<1>3. Len(q) - 1 \in Int
  BY <1>1
<1>4. /\ SubSeq(q, 1, Len(q) - 1) \in Seq(S)
      /\ Len(SubSeq(q, 1, Len(q) - 1))
           = IF 1 <= Len(q) - 1 THEN Len(q) - 1 - 1 + 1 ELSE 0
      /\ \A i \in 1..(Len(q) - 1 - 1 + 1) : SubSeq(q, 1, Len(q) - 1)[i] = q[1 + i - 1]
  BY <1>2, <1>3, SubSeqProperties
<1>5. Len(SubSeq(q, 1, Len(q) - 1)) = Len(q) - 1
  <2> DEFINE n == Len(SubSeq(q, 1, Len(q) - 1))
             m == Len(q)
  <2>1. n = (IF 1 <= m - 1 THEN m - 1 - 1 + 1 ELSE 0) /\ m \in Nat \ {0}
    BY <1>1, <1>4
  <2> HIDE DEF n, m
  <2>2. n = m - 1
    BY <2>1
  <2>3. QED
    BY <2>2 DEF n, m
<1>6. \A i \in 1..(Len(q) - 1) : SubSeq(q, 1, Len(q) - 1)[i] = q[i]
  <2>1. Len(q) - 1 - 1 + 1 = Len(q) - 1 /\ \A i \in 1..(Len(q) - 1) : 1 + i - 1 = i
    BY <1>1
  <2>2. QED
    BY <1>4, <2>1
<1>7. QED
  BY <1>1, <1>4, <1>5, <1>6

LEMMA LastReplaced ==
  ASSUME NEW S, NEW q \in Seq(S), q # <<>>, NEW e \in S
  PROVE  /\ [q EXCEPT ![Len(q)] = e] \in Seq(S)
         /\ Len([q EXCEPT ![Len(q)] = e]) = Len(q)
         /\ \A i \in 1..(Len(q) - 1) : [q EXCEPT ![Len(q)] = e][i] = q[i]
         /\ [q EXCEPT ![Len(q)] = e][Len(q)] = e
<1>1. Len(q) \in 1..Len(q)
  BY EmptySeq
<1>2. QED
  BY <1>1, ExceptSeq

-----------------------------------------------------------------------------
(* The recorder.                                                           *)

Drains == Seq([device : Int, left : Int, inCallback : BOOLEAN])
MicInv ==
  /\ buffer \in 0..MaxDevice /\ connected \in [1..MaxDevice -> Int]
  /\ held \in Nat \X Nat /\ held[1] <= held[2]
  /\ chunkSize \in Nat \ {0} /\ drains \in Drains
  /\ Mic!OneConnection

LEMMA MicAtFirst ==
  ASSUME Mic!Init
  PROVE  MicInv
  BY SizesAssumption DEF Mic!Init, MicInv, Mic!OneConnection, Drains

(* The larger of two, and the smaller.                                     *)
LEMMA MicMax == \A a, b \in Int : Mic!Max({a, b}) = IF a >= b THEN a ELSE b
  BY DEF Mic!Max
LEMMA MicMin == \A a, b \in Int : Mic!Min({a, b}) = IF a <= b THEN a ELSE b
  BY DEF Mic!Min

(* Detached from the device that reads, the recorder is from all.          *)
LEMMA DetachesAll ==
  ASSUME MicInv
  PROVE  Mic!Detached(connected) = [d \in 1..MaxDevice |-> 0]
<1>1. connected \in [1..MaxDevice -> Int] /\ buffer \in 0..MaxDevice /\ MaxDevice \in Nat
  BY SizesAssumption DEF MicInv
<1>2. \A d \in 1..MaxDevice : connected[d] = IF d = buffer THEN 1 ELSE 0
  BY DEF MicInv, Mic!OneConnection
<1>3. /\ DOMAIN Mic!Detached(connected) = 1..MaxDevice
      /\ \A d \in 1..MaxDevice : Mic!Detached(connected)[d] = 0
  BY <1>1, <1>2 DEF Mic!Detached
<1>4. Mic!Detached(connected) = [d \in DOMAIN Mic!Detached(connected) |-> Mic!Detached(connected)[d]]
  BY <1>1 DEF Mic!Detached
<1>5. QED
  BY <1>3, <1>4

(* startRecord() leaves one connection, that of its device.                *)
LEMMA StartKeeps ==
  ASSUME MicInv, NEW device \in 1..MaxDevice, Mic!StartRecord(device)
  PROVE  MicInv'
<1>1. Mic!Detached(connected) = [d \in 1..MaxDevice |-> 0]
  BY DetachesAll
<1>2. connected' = [[d \in 1..MaxDevice |-> 0] EXCEPT ![device] = 1] /\ buffer' = device
  BY <1>1 DEF Mic!StartRecord
<1>3. connected' \in [1..MaxDevice -> Int] /\ Mic!OneConnection'
  BY <1>2 DEF Mic!OneConnection
<1>4. QED
  BY <1>2, <1>3, SizesAssumption DEF MicInv, Mic!StartRecord

LEMMA StopKeeps ==
  ASSUME MicInv, Mic!StopRecord
  PROVE  MicInv'
<1>1. Mic!Detached(connected) = [d \in 1..MaxDevice |-> 0]
  BY DetachesAll
<1>2. QED
  BY <1>1, SizesAssumption DEF MicInv, Mic!StopRecord, Mic!OneConnection

(* A drain() before a chunk is handed out, and after it has been handled.  *)
LEMMA DrainHanded ==
  ASSUME NEW r \in [device : Int, left : Int, inCallback : BOOLEAN]
  PROVE  /\ [r EXCEPT !.left = @ - 1, !.inCallback = TRUE]
              \in [device : Int, left : Int, inCallback : BOOLEAN]
         /\ [r EXCEPT !.inCallback = FALSE] \in [device : Int, left : Int, inCallback : BOOLEAN]
<1>1. r.left - 1 \in Int
  OBVIOUS
<1>2. QED
  BY <1>1

(* One round of a drain.                                                   *)
LEMMA RoundTakes ==
  ASSUME MicInv, Mic!NextChunk
  PROVE  /\ \/ held' = held /\ chunk' = chunk
            \/ /\ held'[2] = held[2] /\ held' \in Nat \X Nat /\ held'[1] <= held[2]
               /\ ~Mic!Stale(Mic!Inmost)
               /\ chunk'[1] = held[1] + 1
         /\ drains' \in Drains
<1> DEFINE drain == Mic!Inmost
           taken == Mic!Min({chunkSize, Mic!Held})
<1>1. Len(drains) \in Nat \ {0} /\ drain = drains[Len(drains)]
      /\ drain \in [device : Int, left : Int, inCallback : BOOLEAN]
  BY LastLeaves DEF MicInv, Drains, Mic!NextChunk, Mic!Inmost
<1>2. CASE drain.left = 0 \/ Mic!Stale(drain) \/ Mic!Held = 0
  <2>1. held' = held /\ chunk' = chunk /\ drains' = SubSeq(drains, 1, Len(drains) - 1)
    BY <1>2 DEF Mic!NextChunk
  <2>2. SubSeq(drains, 1, Len(drains) - 1) \in Drains
    BY LastLeaves DEF MicInv, Drains, Mic!NextChunk
  <2>3. QED
    BY <2>1, <2>2
<1>3. CASE ~(drain.left = 0 \/ Mic!Stale(drain) \/ Mic!Held = 0)
  <2>1. Mic!Held \in Nat \ {0} /\ chunkSize \in Nat \ {0}
    BY <1>3 DEF MicInv, Mic!Held
  <2>2. taken \in 1..Mic!Held
    BY <2>1, MicMin
  <2> HIDE DEF taken
  <2>3. /\ chunk' = [i \in 1..taken |-> held[1] + i]
        /\ held' = <<held[1] + taken, held[2]>>
    BY <1>3 DEF Mic!NextChunk, taken
  <2>4. drains' \in Drains
    <3> DEFINE handed == [drain EXCEPT !.left = drain.left - 1, !.inCallback = TRUE]
    <3>1. handed \in [device : Int, left : Int, inCallback : BOOLEAN]
      BY <1>1, DrainHanded
    <3>2. drains' = [drains EXCEPT ![Len(drains)] = handed]
      BY <1>3 DEF Mic!NextChunk, Mic!Inmost
    <3> HIDE DEF handed
    <3>3. drains # <<>> /\ drains \in Seq([device : Int, left : Int, inCallback : BOOLEAN])
      BY DEF MicInv, Drains, Mic!NextChunk
    <3>4. QED
      BY <3>1, <3>2, <3>3, LastReplaced DEF Drains
  <2>5. chunk'[1] = held[1] + 1
    BY <2>2, <2>3
  <2>6. held' \in Nat \X Nat /\ held'[1] <= held[2] /\ held'[2] = held[2]
    BY <2>2, <2>3 DEF MicInv, Mic!Held
  <2>7. QED
    BY <1>3, <2>4, <2>5, <2>6
<1>4. QED
  BY <1>2, <1>3

LEMMA MicKept ==
  ASSUME MicInv, Mic!Next \/ UNCHANGED micVars
  PROVE  MicInv'
<1>1. CASE UNCHANGED micVars
  BY <1>1 DEF micVars, MicInv, Mic!OneConnection
<1>2. ASSUME NEW n \in 1..2, Mic!Record(n)
      PROVE  MicInv'
  BY <1>2 DEF Mic!Record, MicInv, Mic!OneConnection
<1>3. CASE Mic!Drain
  <2>1. buffer \in Int /\ Mic!CompleteChunks(Mic!Held, chunkSize) \in Int
    BY DEF MicInv, Mic!CompleteChunks, Mic!Held
  <2>2. drains' \in Drains
    BY <1>3, <2>1, AppendProperties DEF Mic!Drain, MicInv, Drains
  <2>3. QED
    BY <1>3, <2>2 DEF Mic!Drain, MicInv, Mic!OneConnection
<1>4. CASE Mic!NextChunk
  BY <1>4, RoundTakes DEF Mic!NextChunk, MicInv, Mic!OneConnection
<1>5. CASE Mic!CallbackReturns
  <2>1. drains' \in Drains
    <3> DEFINE over == [drains[Len(drains)] EXCEPT !.inCallback = FALSE]
    <3>1. drains # <<>> /\ drains' = [drains EXCEPT ![Len(drains)] = over]
      BY <1>5 DEF Mic!CallbackReturns
    <3>2. over \in [device : Int, left : Int, inCallback : BOOLEAN]
      <4>1. drains[Len(drains)] \in [device : Int, left : Int, inCallback : BOOLEAN]
        BY <3>1, LastLeaves DEF MicInv, Drains
      <4>2. QED
        BY <4>1, DrainHanded
    <3> HIDE DEF over
    <3>3. drains \in Seq([device : Int, left : Int, inCallback : BOOLEAN])
      BY DEF MicInv, Drains
    <3>4. QED
      BY <3>1, <3>2, <3>3, LastReplaced DEF Drains
  <2>2. QED
    BY <1>5, <2>1 DEF Mic!CallbackReturns, MicInv, Mic!OneConnection
<1>6. ASSUME NEW device \in 1..MaxDevice, Mic!StartRecord(device)
      PROVE  MicInv'
  BY <1>6, StartKeeps
<1>7. CASE Mic!StopRecord
  BY <1>7, StopKeeps
<1>8. CASE Mic!Pause \/ Mic!Resume \/ Mic!ClearCache
  <2>1. held' \in Nat \X Nat /\ held'[1] <= held'[2]
    BY <1>8 DEF Mic!Pause, Mic!Resume, Mic!ClearCache, MicInv
  <2>2. UNCHANGED <<buffer, connected, chunkSize, drains>>
    BY <1>8 DEF Mic!Pause, Mic!Resume, Mic!ClearCache
  <2>3. QED
    BY <2>1, <2>2 DEF MicInv, Mic!OneConnection
<1>9. ASSUME NEW size \in ChunkSizes, Mic!SetChunkSize(size)
      PROVE  MicInv'
  <2>1. chunkSize' \in Nat \ {0}
    BY <1>9, MicMax, SizesAssumption DEF Mic!SetChunkSize
  <2>2. QED
    BY <1>9, <2>1 DEF Mic!SetChunkSize, MicInv, Mic!OneConnection
<1>10. QED
  BY <1>1, <1>2, <1>3, <1>4, <1>5, <1>6, <1>7, <1>8, <1>9 DEF Mic!Next

(* What is handed out, is by a round that found its device reading.        *)
LEMMA HandedByReader ==
  ASSUME MicInv, Mic!Next \/ UNCHANGED micVars, chunk' # chunk, chunk' # Mic!NoChunk
  PROVE  /\ ~micPaused /\ buffer = Mic!Inmost.device
         /\ chunk'[1] = held[1] + 1
<1>1. Mic!NextChunk
  BY DEF Mic!Next, Mic!Record, Mic!Drain, Mic!CallbackReturns, Mic!StartRecord, Mic!StopRecord,
     Mic!Pause, Mic!Resume, Mic!SetChunkSize, Mic!ClearCache, micVars
<1>2. QED
  BY <1>1, RoundTakes DEF Mic!Stale

-----------------------------------------------------------------------------
(* What is said aloud.                                                     *)

(* While the one waited for has the loudspeaker to itself, its sentences   *)
(* not heard yet are those that play, numbered one after the other, and    *)
(* those queued behind them, up to the one whose end is waited for.        *)
Queued == [say : Int, kind : Kinds]
Played == [index : Int, say : Int, kind : Kinds]
Alone ==
  /\ waiting \in 1..Len(says)
  /\ ttsQueue \in Seq(Queued) /\ playing \in Seq(Played)
  /\ \A i \in 1..Len(ttsQueue) : ttsQueue[i].say = waiting
  /\ \A i \in 1..Len(playing) : /\ playing[i].say = waiting
                                /\ playing[i].index = index - Len(playing) + i - 1
  /\ heardTo[waiting] + Len(playing) + Len(ttsQueue) = says[waiting].sentences
  /\ endIndex = index + Len(ttsQueue) - 1
VoiceInv ==
  /\ says \in Seq([sentences : Int, block : BOOLEAN])
  /\ heardTo \in Seq(Int) /\ Len(heardTo) = Len(says)
  /\ index \in Int /\ endIndex \in Int
  /\ alone /\ waiting # 0 => Alone

LEMMA VoiceAtFirst ==
  ASSUME Voice!Init
  PROVE  VoiceInv
  BY DEF Voice!Init, VoiceInv

(* A blocking say() into silence.                                          *)
LEMMA SayKeeps ==
  ASSUME VoiceInv, NEW n \in 0..MaxSentences, NEW block \in BOOLEAN, NEW kind \in Kinds,
         Voice!Say(n, block, kind)
  PROVE  VoiceInv'
<1> DEFINE sentence == [sentences |-> n, block |-> block]
           more     == [i \in 1..n |-> [say |-> Len(says) + 1, kind |-> kind]]
<1>1. n \in Nat /\ Len(says) \in Nat
  BY DEF VoiceInv
<1>2. /\ says' = Append(says, sentence) /\ endIndex' = index + n - 1
      /\ ttsQueue' = ttsQueue \o more /\ heardTo' = Append(heardTo, 0)
      /\ index' = index /\ playing' = playing
      /\ alone' = (block /\ waiting = 0 /\ n > 0 /\ ttsQueue = <<>> /\ playing = <<>>)
      /\ alone' => waiting' = Len(says) + 1
  BY DEF Voice!Say, Voice!EndIndex
<1>3. /\ more \in Seq(Queued) /\ Len(more) = n
      /\ \A i \in 1..n : more[i].say = Len(says) + 1
  BY <1>1 DEF Queued
<1>4. sentence \in [sentences : Int, block : BOOLEAN] /\ sentence.sentences = n
  BY <1>1
<1> HIDE DEF sentence, more
<1>5. /\ says' \in Seq([sentences : Int, block : BOOLEAN]) /\ Len(says') = Len(says) + 1
      /\ says'[Len(says) + 1] = sentence
  BY <1>1, <1>2, <1>4, AppendProperties DEF VoiceInv
<1>6. /\ heardTo' \in Seq(Int) /\ Len(heardTo') = Len(says) + 1
      /\ heardTo'[Len(says) + 1] = 0
  BY <1>1, <1>2, AppendProperties DEF VoiceInv
<1>8. ASSUME alone'
      PROVE  Alone'
  <2>1. ttsQueue = <<>> /\ playing = <<>> /\ waiting' = Len(says) + 1
    BY <1>2, <1>8
  <2>2. ttsQueue' = more /\ playing' = <<>> /\ Len(playing') = 0
    BY <1>2, <1>3, <2>1, ConcatEmptySeq
  <2>3. \A i \in 1..Len(ttsQueue') : ttsQueue'[i].say = waiting'
    BY <1>3, <2>1, <2>2
  <2>4. says'[waiting'].sentences = n /\ heardTo'[waiting'] = 0
    BY <1>4, <1>5, <1>6, <2>1
  <2>5. index' \in Int /\ waiting' \in 1..Len(says') /\ endIndex' = index' + n - 1
    BY <1>1, <1>2, <1>5, <2>1 DEF VoiceInv
  <2>6. Len(ttsQueue') = n /\ ttsQueue' \in Seq(Queued) /\ playing' \in Seq(Played)
    BY <1>3, <2>2
  <2>7. QED
    BY <1>1, <2>2, <2>3, <2>4, <2>5, <2>6 DEF Alone
<1>9. index' \in Int /\ endIndex' \in Int
  BY <1>1, <1>2 DEF VoiceInv
<1>10. QED
  BY <1>5, <1>6, <1>8, <1>9 DEF VoiceInv

(* A sentence comes from the synthesiser.                                  *)
LEMMA SynthesisedKeeps ==
  ASSUME VoiceInv, Voice!Synthesised
  PROVE  VoiceInv'
<1> DEFINE first == Head(ttsQueue)
           next  == [index |-> index, say |-> first.say, kind |-> first.kind]
<1>1. /\ ttsQueue # <<>> /\ ttsQueue' = Tail(ttsQueue) /\ playing' = Append(playing, next)
      /\ index' = index + 1 /\ UNCHANGED <<says, endIndex, waiting, heardTo, alone>>
  BY DEF Voice!Synthesised
<1>2. ASSUME alone, waiting # 0
      PROVE  Alone'
  <2>1. Alone /\ index \in Int /\ endIndex \in Int /\ heardTo[waiting] \in Int
    BY <1>2 DEF VoiceInv, Alone
  <2>2. /\ Len(ttsQueue) \in Nat \ {0} /\ first = ttsQueue[1] /\ first \in Queued
        /\ ttsQueue' \in Seq(Queued) /\ Len(ttsQueue') = Len(ttsQueue) - 1
        /\ \A i \in 1..(Len(ttsQueue) - 1) : ttsQueue'[i] = ttsQueue[i + 1]
    BY <1>1, <2>1, HeadTailProperties, EmptySeq DEF Alone
  <2>3. next \in Played /\ next.index = index /\ next.say = waiting
    <3>1. first.say = waiting
      BY <2>1, <2>2 DEF Alone
    <3> HIDE DEF first
    <3>2. QED
      BY <2>1, <2>2, <3>1 DEF Queued, Played
  <2> HIDE DEF first, next
  <2>4. /\ playing' \in Seq(Played) /\ Len(playing) \in Nat /\ Len(playing') = Len(playing) + 1
        /\ \A i \in 1..Len(playing) : playing'[i] = playing[i]
        /\ playing'[Len(playing) + 1] = next
    BY <1>1, <2>1, <2>3, AppendProperties DEF Alone
  <2>5. /\ index' = index + 1 /\ endIndex' = endIndex /\ waiting' = waiting
        /\ heardTo' = heardTo /\ says' = says
    BY <1>1
  <2>6. ASSUME NEW i \in 1..Len(ttsQueue')
        PROVE  ttsQueue'[i].say = waiting
    <3>1. i \in 1..(Len(ttsQueue) - 1) /\ i + 1 \in 1..Len(ttsQueue)
      BY <2>2
    <3>2. ttsQueue'[i] = ttsQueue[i + 1] /\ ttsQueue[i + 1].say = waiting
      BY <2>1, <2>2, <3>1 DEF Alone
    <3>3. QED
      BY <3>2
  <2>7. \A i \in 1..Len(playing') : /\ playing'[i].say = waiting
                                    /\ playing'[i].index = index' - Len(playing') + i - 1
    <3>1. TAKE i \in 1..Len(playing')
    <3>2. CASE i \in 1..Len(playing)
      <4>1. /\ playing[i].say = waiting
            /\ playing[i].index = index - Len(playing) + i - 1
        BY <2>1, <3>2 DEF Alone
      <4>2. QED
        BY <2>1, <2>4, <2>5, <3>2, <4>1
    <3>3. CASE i = Len(playing) + 1
      BY <2>1, <2>3, <2>4, <2>5, <3>3
    <3>4. QED
      BY <2>4, <3>2, <3>3
  <2>8. /\ heardTo[waiting] + Len(playing) + Len(ttsQueue) = says[waiting].sentences
        /\ endIndex = index + Len(ttsQueue) - 1 /\ waiting \in 1..Len(says)
    BY <2>1 DEF Alone
  <2>9. /\ heardTo[waiting] + Len(playing') + Len(ttsQueue') = says[waiting].sentences
        /\ endIndex = index' + Len(ttsQueue') - 1
    <3>1. Len(playing') + Len(ttsQueue') = Len(playing) + Len(ttsQueue)
      BY <2>2, <2>4
    <3>2. heardTo[waiting] + Len(playing') + Len(ttsQueue')
            = heardTo[waiting] + Len(playing) + Len(ttsQueue)
      BY <2>1, <2>2, <2>4
    <3>3. QED
      BY <2>1, <2>2, <2>5, <2>8, <3>2
  <2>10. QED
    BY <2>2, <2>4, <2>5, <2>6, <2>7, <2>8, <2>9 DEF Alone
<1>3. QED
  BY <1>1, <1>2 DEF VoiceInv

(* The end of a sentence.                                                  *)
LEMMA PlayEndKeeps ==
  ASSUME VoiceInv, Voice!PlayEnd
  PROVE  /\ VoiceInv'
         /\ alone /\ waiting # 0 /\ waiting' = 0
              => heardTo'[waiting] = says[waiting].sentences
<1> DEFINE over == Head(playing)
<1>1. /\ playing # <<>> /\ playing' = Tail(playing)
      /\ heardTo' = [heardTo EXCEPT ![over.say] = @ + 1]
      /\ waiting' = IF over.index = endIndex THEN 0 ELSE waiting
      /\ UNCHANGED <<says, ttsQueue, index, endIndex, alone>>
  BY DEF Voice!PlayEnd
<1> HIDE DEF over
<1>2. /\ Len(heardTo) \in Nat /\ DOMAIN heardTo = 1..Len(heardTo) /\ heardTo \in Seq(Int)
      /\ Len(heardTo) = Len(says) /\ index \in Int /\ endIndex \in Int
  BY DEF VoiceInv
<1>3. heardTo' \in Seq(Int) /\ Len(heardTo') = Len(heardTo)
  <2>1. CASE over.say \in 1..Len(heardTo)
    <3>1. heardTo[over.say] + 1 \in Int
      BY <1>2, <2>1
    <3>2. QED
      BY <1>1, <1>2, <2>1, <3>1, ExceptSeq
  <2>2. CASE over.say \notin 1..Len(heardTo)
    <3>1. heardTo' = heardTo
      BY <1>1, <1>2, <2>2
    <3>2. QED
      BY <1>2, <3>1
  <2>3. QED
    BY <2>1, <2>2
<1>4. ASSUME alone, waiting # 0
      PROVE  /\ Alone
             /\ Len(playing) \in Nat \ {0} /\ Len(ttsQueue) \in Nat
             /\ playing' \in Seq(Played) /\ Len(playing') = Len(playing) - 1
             /\ \A i \in 1..(Len(playing) - 1) : playing'[i] = playing[i + 1]
             /\ heardTo'[waiting] = heardTo[waiting] + 1
             /\ over.index = index - Len(playing)
             /\ heardTo[waiting] \in Int
             /\ heardTo[waiting] + Len(playing) + Len(ttsQueue) = says[waiting].sentences
             /\ endIndex = index + Len(ttsQueue) - 1
  <2>1. Alone
    BY <1>4 DEF VoiceInv
  <2>2. /\ Len(playing) \in Nat \ {0} /\ over = playing[1] /\ Len(ttsQueue) \in Nat
        /\ playing' \in Seq(Played) /\ Len(playing') = Len(playing) - 1
        /\ \A i \in 1..(Len(playing) - 1) : playing'[i] = playing[i + 1]
    BY <1>1, <2>1, HeadTailProperties, EmptySeq DEF Alone, over
  <2>3. over.say = waiting /\ over.index = index - Len(playing) + 1 - 1
    BY <2>1, <2>2 DEF Alone
  <2>4. waiting \in 1..Len(heardTo)
    BY <1>2, <2>1 DEF Alone
  <2>5. heardTo[waiting] \in Int
    BY <1>2, <2>4
  <2>6. heardTo'[waiting] = heardTo[waiting] + 1
    BY <1>1, <1>2, <2>3, <2>4
  <2>7. over.index = index - Len(playing)
    BY <1>2, <2>2, <2>3
  <2>8. /\ heardTo[waiting] + Len(playing) + Len(ttsQueue) = says[waiting].sentences
        /\ endIndex = index + Len(ttsQueue) - 1
    BY <2>1 DEF Alone
  <2>9. QED
    BY <2>1, <2>2, <2>5, <2>6, <2>7, <2>8
<1>5. ASSUME alone, waiting # 0, waiting' = 0
      PROVE  heardTo'[waiting] = says[waiting].sentences
  <2>1. index - Len(playing) = index + Len(ttsQueue) - 1
    BY <1>1, <1>4, <1>5
  <2>2. Len(playing) + Len(ttsQueue) = 1
    BY <1>2, <1>4, <1>5, <2>1
  <2>3. heardTo[waiting] + Len(playing) + Len(ttsQueue) = heardTo[waiting] + 1
    BY <1>4, <1>5, <2>2
  <2>4. QED
    BY <1>4, <1>5, <2>3
<1>6. ASSUME alone', waiting' # 0
      PROVE  Alone'
  <2>1. alone /\ waiting # 0 /\ waiting' = waiting
    BY <1>1, <1>6
  <2>2. Alone
    BY <1>4, <2>1
  <2>3. \A i \in 1..Len(playing') : /\ playing'[i].say = waiting
                                    /\ playing'[i].index = index - Len(playing') + i - 1
    <3>1. TAKE i \in 1..Len(playing')
    <3>2. i + 1 \in 1..Len(playing) /\ playing'[i] = playing[i + 1] /\ i \in Int
      BY <1>4, <2>1
    <3>3. playing[i + 1].say = waiting /\ playing[i + 1].index = index - Len(playing) + (i + 1) - 1
      BY <2>2, <3>2 DEF Alone
    <3>4. index - Len(playing) + (i + 1) - 1 = index - Len(playing') + i - 1
      <4>1. index \in Int /\ Len(playing) \in Nat /\ Len(playing') = Len(playing) - 1
        BY <1>2, <1>4, <2>1
      <4>2. i \in Int
        BY <3>2
      <4>3. QED
        BY <4>1, <4>2
    <3>5. QED
      BY <3>2, <3>3, <3>4
  <2>4. heardTo'[waiting] + Len(playing') + Len(ttsQueue) = says[waiting].sentences
    <3>1. /\ heardTo'[waiting] = heardTo[waiting] + 1 /\ heardTo[waiting] \in Int
          /\ Len(playing') = Len(playing) - 1 /\ Len(playing) \in Nat /\ Len(ttsQueue) \in Nat
          /\ heardTo[waiting] + Len(playing) + Len(ttsQueue) = says[waiting].sentences
      BY <1>4, <2>1
    <3>2. heardTo'[waiting] + Len(playing') + Len(ttsQueue)
            = heardTo[waiting] + Len(playing) + Len(ttsQueue)
      BY <3>1
    <3>3. QED
      BY <3>1, <3>2
  <2>5. QED
    BY <1>1, <1>4, <2>1, <2>2, <2>3, <2>4 DEF Alone
<1>7. VoiceInv'
  BY <1>1, <1>2, <1>3, <1>6 DEF VoiceInv
<1>8. QED
  BY <1>5, <1>7

(* What fails, times out or is stopped.                                    *)
LEMMA OtherwiseKeeps ==
  ASSUME VoiceInv,
         \/ Voice!SynthesisFails \/ Voice!GuardTimeout \/ UNCHANGED speechVars
         \/ \E kind \in Kinds : Voice!StopSay(kind)
  PROVE  VoiceInv'
<1>1. CASE Voice!SynthesisFails
  BY <1>1 DEF Voice!SynthesisFails, VoiceInv
<1>2. CASE Voice!GuardTimeout
  BY <1>2 DEF Voice!GuardTimeout, VoiceInv
<1>3. CASE UNCHANGED speechVars
  BY <1>3 DEF speechVars, VoiceInv, Alone
<1>4. ASSUME NEW kind \in Kinds, Voice!StopSay(kind)
      PROVE  VoiceInv'
  BY <1>4 DEF Voice!StopSay, VoiceInv
<1>5. QED
  BY <1>1, <1>2, <1>3, <1>4

LEMMA VoiceKept ==
  ASSUME VoiceInv, Voice!Next \/ UNCHANGED speechVars
  PROVE  VoiceInv'
  BY SayKeeps, SynthesisedKeeps, PlayEndKeeps, OtherwiseKeeps DEF Voice!Next

(* Chunks come in order and only from the device that reads                *)
(* (recorder.h:104-120), and a blocking say() into silence returns with    *)
(* its last sentence (conversation.cpp:189, 239).                          *)
THEOREM OrderIsKept == AudioSpec => InOrder
<1>1. AudioInit => MicInv /\ VoiceInv
  BY MicAtFirst, VoiceAtFirst DEF AudioInit
<1>2. MicInv /\ VoiceInv /\ [AudioNext]_audioVars => MicInv' /\ VoiceInv'
  BY RunSteps, MicKept, VoiceKept
<1>3. MicInv /\ [AudioNext]_audioVars
        => [chunk' # chunk /\ chunk' # Mic!NoChunk =>
              /\ ~micPaused /\ buffer = Mic!Inmost.device
              /\ chunk'[1] = held[1] + 1]_(Mic!recorderVars)
  BY RunSteps, HandedByReader
<1>4. VoiceInv /\ [AudioNext]_audioVars
        => [waiting # 0 /\ waiting' = 0 /\ alone /\ Voice!PlayEnd =>
              heardTo'[waiting] = says[waiting].sentences]_(Voice!speechVars)
  BY PlayEndKeeps
<1>5. QED
  BY <1>1, <1>2, <1>3, <1>4, PTL
     DEF AudioSpec, InOrder, Mic!HandedInOrder, Voice!WaitsToTheEnd

-----------------------------------------------------------------------------
(* The play buffer.                                                        *)

Wrapped(i, n) == IF i >= n THEN i - n ELSE i

LEMMA WrapAround ==
  ASSUME NEW n \in Nat \ {0}, NEW i \in 0..(2 * n - 1)
  PROVE  i % n = Wrapped(i, n) /\ Wrapped(i, n) \in 0..(n - 1)
<1>1. CASE i < n
  BY <1>1 DEF Wrapped
<1>2. CASE i >= n
  <2>1. i - n \in 0..(n - 1) /\ i = n + (i - n)
    BY <1>2
  <2>2. (i - n) % n = i - n
    BY <2>1
  <2>3. i % n = (i - n) % n
    BY <1>2
  <2>4. QED
    BY <1>2, <2>1, <2>2, <2>3 DEF Wrapped
<1>3. QED
  BY <1>1, <1>2

(* On from there, and all the way round.                                   *)
LEMMA WrappedOn ==
  ASSUME NEW n \in Nat \ {0}, NEW b \in 0..(n - 1), NEW t \in 0..n, NEW m \in 0..(n - t)
  PROVE  /\ Wrapped(b + t, n) \in 0..(n - 1)
         /\ Wrapped(Wrapped(b + t, n) + m, n) = Wrapped(b + (t + m), n)
<1>1. n \in Int /\ b \in Int /\ t \in Int /\ m \in Int
  OBVIOUS
<1>2. CASE b + t >= n
  <2>1. Wrapped(b + t, n) = (b + t) - n
    BY <1>2 DEF Wrapped
  <2>2. (b + t) - n + m < n /\ b + (t + m) >= n
    BY <1>1, <1>2
  <2>3. Wrapped((b + t) - n + m, n) = (b + t) - n + m /\ Wrapped(b + (t + m), n) = b + (t + m) - n
    BY <1>1, <2>2 DEF Wrapped
  <2>4. QED
    BY <1>1, <1>2, <2>1, <2>3
<1>3. CASE b + t < n
  <2>1. Wrapped(b + t, n) = b + t
    BY <1>1, <1>3 DEF Wrapped
  <2>2. b + t + m = b + (t + m)
    BY <1>1
  <2>3. QED
    BY <1>1, <1>3, <2>1, <2>2
<1>4. QED
  BY <1>1, <1>2, <1>3

LEMMA WrappedRound ==
  ASSUME NEW n \in Nat \ {0}, NEW b \in 0..(n - 1), NEW t \in 0..n, NEW i \in 1..t
  PROVE  Wrapped(Wrapped(b + t, n) + (n - t + i) - 1, n) = Wrapped(b + i - 1, n)
<1>1. n \in Int /\ b \in Int /\ t \in Int /\ i \in Int
  OBVIOUS
<1>2. CASE b + t >= n
  <2>1. Wrapped(b + t, n) = (b + t) - n
    BY <1>2 DEF Wrapped
  <2>2. (b + t) - n + (n - t + i) - 1 = b + i - 1
    BY <1>1
  <2>3. QED
    BY <2>1, <2>2
<1>3. CASE b + t < n
  <2>1. Wrapped(b + t, n) = b + t
    BY <1>1, <1>3 DEF Wrapped
  <2>2. b + t + (n - t + i) - 1 = b + i - 1 + n /\ b + i - 1 < n /\ b + i - 1 >= 0
    BY <1>1, <1>3
  <2>3. Wrapped(b + i - 1 + n, n) = b + i - 1 /\ Wrapped(b + i - 1, n) = b + i - 1
    BY <1>1, <2>2 DEF Wrapped
  <2>4. QED
    BY <2>1, <2>2, <2>3
<1>4. QED
  BY <1>1, <1>2, <1>3

LEMMA RingMin == \A a, b \in Int : Ring!Min({a, b}) = IF a <= b THEN a ELSE b
  BY DEF Ring!Min

(* What was taken and not read lies between begin and end.                 *)
RingIn(n) ==
  /\ DOMAIN mem = 0..(n - 1)
  /\ begin \in 0..(n - 1) /\ remain \in 0..n /\ end = Wrapped(begin + (n - remain), n)
  /\ queue \in Seq(Int) /\ Len(queue) = n - remain
  /\ \A i \in 1..(n - remain) : queue[i] = mem[Wrapped(begin + i - 1, n)]
RingInv == made \in Int /\ \E n \in Nat \ {0} : RingIn(n)

LEMMA CapacityIs ==
  ASSUME NEW n \in Nat \ {0}, RingIn(n)
  PROVE  Ring!Capacity = n
<1>1. Cardinality(0..(n - 1)) = n
  BY FS_Interval
<1>2. QED
  BY <1>1 DEF RingIn, Ring!Capacity, Ring!Cardinality, Cardinality

LEMMA RingAtFirst ==
  ASSUME Ring!Init
  PROVE  RingInv
<1>1. RingIn(Default)
  BY SizesAssumption DEF Ring!Init, RingIn, Wrapped
<1>2. QED
  BY <1>1, SizesAssumption DEF Ring!Init, RingInv

(* Bytes go behind the end: a tail, and a head from the beginning.         *)
IsCopied(n, to, from, bytes) ==
  LET copy == Ring!Copied(to, from, bytes) IN
  /\ DOMAIN copy = 0..(n - 1)
  /\ \A k \in 1..Len(bytes) : copy[Wrapped(from + k - 1, n)] = bytes[k]
  /\ \A k \in (Len(bytes) + 1)..n :
       copy[Wrapped(from + k - 1, n)] = to[Wrapped(from + k - 1, n)]

LEMMA CopiedAround ==
  ASSUME NEW n \in Nat \ {0}, NEW to, DOMAIN to = 0..(n - 1), NEW bytes \in Seq(Int),
         Len(bytes) <= n, NEW from \in 0..(n - 1)
  PROVE  IsCopied(n, to, from, bytes)
<1> DEFINE m    == Len(bytes)
           tail == Ring!TailOf(Ring!Cardinality(DOMAIN to), from, m)
           copy == Ring!Copied(to, from, bytes)
<1>1. m \in 0..n
  OBVIOUS
<1>2. tail = IF n - from <= m THEN n - from ELSE m
  <2>1. Ring!Cardinality(DOMAIN to) = n
    BY FS_Interval DEF Ring!Cardinality, Cardinality
  <2> HIDE DEF m
  <2>2. QED
    BY <1>1, <2>1, RingMin DEF Ring!TailOf
<1>3. copy = [i \in 0..(n - 1) |->
                CASE i >= from /\ i < from + tail -> bytes[i - from + 1]
                  [] i < m - tail                 -> bytes[tail + i + 1]
                  [] OTHER -> to[i]]
  BY DEF Ring!Copied
<1> HIDE DEF tail, copy, m
<1>4. tail \in 0..m
  BY <1>1, <1>2
<1>5. ASSUME NEW i \in 0..(n - 1), i >= from, i < from + tail
      PROVE  copy[i] = bytes[i - from + 1]
  <2>1. copy[i] = CASE i >= from /\ i < from + tail -> bytes[i - from + 1]
                    [] i < m - tail                 -> bytes[tail + i + 1]
                    [] OTHER -> to[i]
    BY <1>3
  <2>2. ~(i < m - tail)
    <3>1. /\ n \in Int /\ from \in Int /\ m \in 0..n /\ i \in Int
          /\ tail = IF n - from <= m THEN n - from ELSE m
      BY <1>1, <1>2
    <3>2. QED
      BY <1>5, <3>1
  <2>3. QED
    BY <1>5, <2>1, <2>2
<1>6. ASSUME NEW i \in 0..(n - 1), ~(i >= from /\ i < from + tail), i < m - tail
      PROVE  copy[i] = bytes[tail + i + 1]
  BY <1>3, <1>6
<1>7. ASSUME NEW i \in 0..(n - 1), ~(i >= from /\ i < from + tail), ~(i < m - tail)
      PROVE  copy[i] = to[i]
  BY <1>3, <1>7
<1>8. ASSUME NEW k \in 1..m
      PROVE  copy[Wrapped(from + k - 1, n)] = bytes[k]
  <2>1. CASE k <= tail
    <3>1. from + k - 1 \in 0..(n - 1) /\ from + k - 1 >= from /\ from + k - 1 < from + tail
      BY <1>1, <1>2, <1>8, <2>1
    <3>2. Wrapped(from + k - 1, n) = from + k - 1 /\ (from + k - 1) - from + 1 = k
      BY <1>8, <3>1 DEF Wrapped
    <3>3. QED
      BY <1>5, <3>1, <3>2
  <2>2. CASE k > tail
    <3> DEFINE i == k - tail - 1
    <3>1. tail = n - from /\ i \in 0..(n - 1) /\ i < from /\ i < m - tail /\ tail + i + 1 = k
      BY <1>1, <1>2, <1>8, <2>2
    <3>2. Wrapped(from + k - 1, n) = i
      BY <1>8, <2>2, <3>1 DEF Wrapped
    <3> HIDE DEF i
    <3>3. ~(i >= from /\ i < from + tail)
      BY <3>1
    <3>4. QED
      BY <1>6, <3>1, <3>2, <3>3
  <2>3. QED
    BY <1>4, <1>8, <2>1, <2>2
<1>9. ASSUME NEW k \in (m + 1)..n
      PROVE  copy[Wrapped(from + k - 1, n)] = to[Wrapped(from + k - 1, n)]
  <2> DEFINE i == Wrapped(from + k - 1, n)
  <2>1. /\ i \in 0..(n - 1)
        /\ ~(i >= from /\ i < from + tail) /\ ~(i < m - tail)
    BY <1>1, <1>2, <1>9 DEF Wrapped
  <2> HIDE DEF i
  <2>2. copy[i] = to[i]
    BY <1>7, <2>1
  <2>3. QED
    BY <2>2 DEF i
<1>10. DOMAIN copy = 0..(n - 1)
  BY <1>3
<1>11. QED
  BY <1>8, <1>9, <1>10 DEF copy, m, IsCopied

(* Numbered bytes.                                                         *)
LEMMA BytesAre ==
  ASSUME NEW n \in Nat, made \in Int
  PROVE  Ring!Bytes(n) \in Seq(Int) /\ Len(Ring!Bytes(n)) = n
  BY DEF Ring!Bytes

(* What the decoder delivers goes in behind the rest.                      *)
LEMMA ReadyKeeps ==
  ASSUME RingInv, NEW size \in Sizes, Ring!BufferReady(size)
  PROVE  RingInv'
<1>1. PICK n \in Nat \ {0} : RingIn(n)
  BY DEF RingInv
<1>2. Ring!Capacity = n
  BY <1>1, CapacityIs
<1> DEFINE m    == Ring!Min({size, remain})
           there == n - remain
<1>3. size \in Nat \ {0} /\ remain \in 0..n /\ m \in 0..remain /\ there \in 0..n
      /\ m + there <= n
  <2>1. size \in Nat \ {0} /\ remain \in 0..n /\ size \in Int /\ remain \in Int
    BY <1>1, SizesAssumption DEF RingIn
  <2>2. m = IF size <= remain THEN size ELSE remain
    BY <2>1, RingMin
  <2> HIDE DEF m
  <2>3. QED
    BY <2>1, <2>2
<1> HIDE DEF m
<1> DEFINE bytes == Ring!Bytes(m)
<1>4. /\ mem' = Ring!Copied(mem, end, bytes) /\ end' = (end + m) % n
      /\ remain' = remain - m /\ queue' = queue \o bytes
      /\ made' = made + size /\ begin' = begin
  BY <1>2 DEF Ring!BufferReady, Ring!Write, m
<1>5. bytes \in Seq(Int) /\ Len(bytes) = m
  BY <1>3, BytesAre DEF RingInv
<1>6. /\ begin \in 0..(n - 1) /\ end = Wrapped(begin + there, n) /\ end \in 0..(n - 1)
      /\ DOMAIN mem = 0..(n - 1) /\ queue \in Seq(Int) /\ Len(queue) = there
      /\ \A i \in 1..there : queue[i] = mem[Wrapped(begin + i - 1, n)]
  BY <1>1, <1>3 DEF RingIn, Wrapped
<1> HIDE DEF bytes, there
<1>7. /\ DOMAIN mem' = 0..(n - 1)
      /\ \A k \in 1..m : mem'[Wrapped(end + k - 1, n)] = bytes[k]
      /\ \A k \in (m + 1)..n :
           mem'[Wrapped(end + k - 1, n)] = mem[Wrapped(end + k - 1, n)]
  <2>1. Len(bytes) <= n
    BY <1>3, <1>5
  <2>2. IsCopied(n, mem, end, bytes)
    BY <1>5, <1>6, <2>1, CopiedAround
  <2>3. mem' = Ring!Copied(mem, end, bytes) /\ Len(bytes) = m
    BY <1>4, <1>5
  <2>4. QED
    BY <2>2, <2>3 DEF IsCopied
<1>8. /\ queue' \in Seq(Int) /\ Len(queue') = there + m
      /\ \A i \in 1..(there + m) :
           queue'[i] = IF i <= there THEN queue[i] ELSE bytes[i - there]
  BY <1>4, <1>5, <1>6, ConcatProperties
<1>9. end' = Wrapped(begin + (there + m), n)
  <2>1. end + m \in 0..(2 * n - 1)
    BY <1>3, <1>6
  <2>2. (end + m) % n = Wrapped(end + m, n)
    BY <2>1, WrapAround
  <2>3. m \in 0..(n - there) /\ there \in 0..n /\ begin \in 0..(n - 1)
    BY <1>3, <1>6
  <2>4. Wrapped(Wrapped(begin + there, n) + m, n) = Wrapped(begin + (there + m), n)
    BY <2>3, WrappedOn
  <2>5. end' = (end + m) % n /\ end = Wrapped(begin + there, n)
    BY <1>4, <1>6
  <2>6. QED
    BY <2>2, <2>4, <2>5
<1>10. ASSUME NEW i \in 1..(there + m)
       PROVE  queue'[i] = mem'[Wrapped(begin + i - 1, n)]
  <2>1. CASE i <= there
    <3> DEFINE k == n - there + i
    <3>1. k \in (m + 1)..n /\ Wrapped(end + k - 1, n) = Wrapped(begin + i - 1, n)
      <4>1. /\ there \in 0..n /\ begin \in 0..(n - 1) /\ m \in Nat /\ m + there <= n
            /\ i \in 1..there /\ end = Wrapped(begin + there, n)
        BY <1>3, <1>6, <1>10, <2>1
      <4>2. Wrapped(Wrapped(begin + there, n) + (n - there + i) - 1, n)
              = Wrapped(begin + i - 1, n)
        BY <4>1, WrappedRound
      <4>3. k \in (m + 1)..n
        BY <4>1
      <4>4. QED
        BY <4>1, <4>2, <4>3
    <3> HIDE DEF k
    <3>2. mem'[Wrapped(begin + i - 1, n)] = mem[Wrapped(begin + i - 1, n)]
      BY <1>7, <3>1
    <3>3. i \in 1..there
      BY <1>3, <1>10, <2>1
    <3>4. QED
      BY <1>6, <1>8, <1>10, <2>1, <3>2, <3>3
  <2>2. CASE i > there
    <3> DEFINE k == i - there
    <3>1. k \in 1..m /\ Wrapped(end + k - 1, n) = Wrapped(begin + i - 1, n)
      <4>1. /\ there \in 0..n /\ begin \in 0..(n - 1) /\ m \in Nat /\ m + there <= n
            /\ i \in 1..(there + m) /\ i > there /\ end = Wrapped(begin + there, n)
            /\ end \in Int
        BY <1>3, <1>6, <1>10, <2>2
      <4>2. k - 1 \in 0..(n - there) /\ k \in 1..m
        BY <4>1
      <4>3. Wrapped(Wrapped(begin + there, n) + (k - 1), n) = Wrapped(begin + (there + (k - 1)), n)
        BY <4>1, <4>2, WrappedOn
      <4>4. end + (k - 1) = end + k - 1 /\ begin + (there + (k - 1)) = begin + i - 1
        BY <4>1
      <4>5. QED
        BY <4>1, <4>2, <4>3, <4>4
    <3>2. queue'[i] = bytes[k]
      BY <1>3, <1>8, <1>10, <2>2
    <3> HIDE DEF k
    <3>3. QED
      BY <1>7, <3>1, <3>2
  <2>3. QED
    BY <1>3, <1>10, <2>1, <2>2
<1>11. remain' \in 0..n /\ n - remain' = there + m /\ begin' = begin
  BY <1>3, <1>4 DEF there
<1>12. RingIn(n)'
  BY <1>6, <1>7, <1>8, <1>9, <1>10, <1>11 DEF RingIn
<1>13. made' \in Int
  BY <1>3, <1>4 DEF RingInv
<1>14. QED
  BY <1>12, <1>13 DEF RingInv

(* A ring that has been emptied, or is new.                                *)
LEMMA EmptiedRing ==
  ASSUME NEW n \in Nat \ {0}, DOMAIN mem' = 0..(n - 1), begin' = 0, end' = 0, remain' = n,
         queue' = <<>>
  PROVE  RingIn(n)'
  BY EmptySeq DEF RingIn, Wrapped

(* Raw data goes in from the beginning, all of it.                         *)
LEMMA DataKeeps ==
  ASSUME RingInv, NEW size \in Sizes, Ring!StartData(size)
  PROVE  RingInv'
<1>1. PICK c \in Nat \ {0} : RingIn(c)
  BY DEF RingInv
<1> DEFINE n  == IF size > c THEN size ELSE c
           to == IF size > c THEN [i \in 0..(size - 1) |-> 0] ELSE mem
           bytes == Ring!Bytes(size)
<1>2. size \in Nat \ {0} /\ n \in Nat \ {0} /\ size <= n
  BY SizesAssumption
<1>3. DOMAIN to = 0..(n - 1)
  BY <1>1, <1>2 DEF RingIn
<1>4. bytes \in Seq(Int) /\ Len(bytes) = size
  BY <1>2, BytesAre DEF RingInv
<1>5. /\ mem' = Ring!Copied(to, 0, bytes) /\ begin' = 0 /\ end' = size % n
      /\ remain' = n - size /\ queue' = bytes /\ made' = made + size
  BY <1>1, CapacityIs DEF Ring!StartData
<1> HIDE DEF n, to, bytes
<1>6. /\ DOMAIN mem' = 0..(n - 1)
      /\ \A k \in 1..size : mem'[Wrapped(0 + k - 1, n)] = bytes[k]
  <2>1. 0 \in 0..(n - 1) /\ Len(bytes) <= n
    BY <1>2, <1>4
  <2>2. IsCopied(n, to, 0, bytes)
    BY <1>2, <1>3, <1>4, <2>1, CopiedAround
  <2>3. mem' = Ring!Copied(to, 0, bytes) /\ Len(bytes) = size
    BY <1>4, <1>5
  <2>4. QED
    BY <2>2, <2>3 DEF IsCopied
<1>7. end' = Wrapped(0 + size, n)
  <2>1. size \in 0..(2 * n - 1)
    BY <1>2
  <2>2. QED
    BY <1>2, <1>5, <2>1, WrapAround
<1>8. n - remain' = size /\ remain' \in 0..n
  BY <1>2, <1>5
<1>9. RingIn(n)'
  BY <1>2, <1>4, <1>5, <1>6, <1>7, <1>8 DEF RingIn
<1>10. made' \in Int
  BY <1>2, <1>5 DEF RingInv
<1>11. QED
  BY <1>2, <1>9, <1>10 DEF RingInv

(* What is read goes from the beginning.                                   *)
LEMMA ReadKeeps ==
  ASSUME RingInv, NEW asked \in Sizes, Ring!ReadData(asked)
  PROVE  RingInv'
<1>1. PICK n \in Nat \ {0} : RingIn(n)
  BY DEF RingInv
<1> DEFINE m     == Ring!Min({asked, Ring!Available})
           there == n - remain
<1>2. Ring!Available = there /\ Ring!Capacity = n
  BY <1>1, CapacityIs DEF Ring!Available
<1>3. there \in 0..n /\ asked \in Nat \ {0} /\ remain \in 0..n
  BY <1>1, SizesAssumption DEF RingIn
<1>4. m \in 0..there
  BY <1>2, <1>3, RingMin
<1>5. /\ begin' = (begin + m) % n /\ remain' = remain + m
      /\ queue' = SubSeq(queue, m + 1, Len(queue))
      /\ UNCHANGED <<mem, end, made>>
  BY <1>2 DEF Ring!ReadData
<1>6. /\ begin \in 0..(n - 1) /\ end = Wrapped(begin + there, n)
      /\ DOMAIN mem = 0..(n - 1) /\ queue \in Seq(Int) /\ Len(queue) = there
      /\ \A i \in 1..there : queue[i] = mem[Wrapped(begin + i - 1, n)]
  BY <1>1 DEF RingIn
<1>7. remain' \in 0..n /\ n - remain' = there - m
  BY <1>3, <1>4, <1>5
<1> HIDE DEF m, there
<1>8. begin' = Wrapped(begin + m, n) /\ begin' \in 0..(n - 1)
  <2>1. begin + m \in 0..(2 * n - 1)
    BY <1>3, <1>4, <1>6
  <2>2. QED
    BY <1>5, <2>1, WrapAround
<1>9. /\ queue' \in Seq(Int) /\ Len(queue') = there - m
      /\ \A i \in 1..(there - m) : queue'[i] = queue[m + i]
  <2>1. \A i \in (m + 1)..there : queue[i] \in Int
    BY <1>3, <1>4, <1>6
  <2>2. /\ queue' \in Seq(Int)
        /\ Len(queue') = IF m + 1 <= there THEN there - (m + 1) + 1 ELSE 0
        /\ \A i \in 1..(there - (m + 1) + 1) : queue'[i] = queue[(m + 1) + i - 1]
    BY <1>3, <1>4, <1>5, <1>6, <2>1, SubSeqProperties
  <2>3. /\ there - (m + 1) + 1 = there - m
        /\ (IF m + 1 <= there THEN there - (m + 1) + 1 ELSE 0) = there - m
        /\ \A i \in 1..(there - m) : (m + 1) + i - 1 = m + i
    BY <1>3, <1>4
  <2>4. QED
    BY <2>2, <2>3
<1>10. ASSUME NEW i \in 1..(there - m)
       PROVE  queue'[i] = mem[Wrapped(begin' + i - 1, n)]
  <2>1. m + i \in 1..there
    BY <1>3, <1>4, <1>10
  <2>2. Wrapped(begin + (m + i) - 1, n) = Wrapped(begin' + i - 1, n)
    BY <1>3, <1>4, <1>6, <1>8, <1>10 DEF Wrapped
  <2>3. QED
    BY <1>6, <1>9, <1>10, <2>1, <2>2
<1>11. end' = Wrapped(begin' + (there - m), n)
  <2>1. /\ begin \in 0..(n - 1) /\ m \in 0..n /\ there - m \in 0..(n - m)
        /\ m + (there - m) = there
    BY <1>3, <1>4, <1>6
  <2>2. Wrapped(Wrapped(begin + m, n) + (there - m), n) = Wrapped(begin + (m + (there - m)), n)
    BY <2>1, WrappedOn
  <2>3. begin' = Wrapped(begin + m, n) /\ end' = end /\ end = Wrapped(begin + there, n)
    BY <1>5, <1>6, <1>8
  <2>4. QED
    BY <2>1, <2>2, <2>3
<1>12. RingIn(n)'
  BY <1>5, <1>6, <1>7, <1>8, <1>9, <1>10, <1>11 DEF RingIn
<1>13. QED
  BY <1>5, <1>12 DEF RingInv

LEMMA RingKept ==
  ASSUME RingInv, Ring!Next \/ UNCHANGED ringVars
  PROVE  RingInv'
<1>1. PICK n \in Nat \ {0} : RingIn(n)
  BY DEF RingInv
<1>2. CASE UNCHANGED ringVars
  BY <1>2 DEF ringVars, RingInv, RingIn
<1>3. CASE Ring!Finished \/ Ring!DecodeError
  BY <1>3 DEF Ring!Finished, Ring!DecodeError, RingInv, RingIn
<1>4. CASE Ring!StartFile
  <2>1. RingIn(n)'
    BY <1>1, <1>4, CapacityIs, EmptiedRing DEF Ring!StartFile, Ring!Reset, RingIn
  <2>2. QED
    BY <1>4, <2>1 DEF Ring!StartFile, RingInv
<1>5. ASSUME NEW size \in Sizes, Ring!SetBufferSize(size)
      PROVE  RingInv'
  <2>1. size \in Nat \ {0}
    BY SizesAssumption
  <2>2. CASE size = n
    <3>1. RingIn(n)'
      BY <1>1, <1>5, <2>2, CapacityIs, EmptiedRing DEF Ring!SetBufferSize, Ring!Reset, RingIn
    <3>2. QED
      BY <1>5, <3>1 DEF Ring!SetBufferSize, RingInv
  <2>3. CASE size # n
    <3>1. RingIn(size)'
      BY <1>1, <1>5, <2>1, <2>3, CapacityIs, EmptiedRing DEF Ring!SetBufferSize, Ring!Allocated
    <3>2. QED
      BY <1>5, <2>1, <3>1 DEF Ring!SetBufferSize, RingInv
  <2>4. QED
    BY <2>2, <2>3
<1>6. QED
  BY <1>2, <1>3, <1>4, <1>5, DataKeeps, ReadyKeeps, ReadKeeps DEF Ring!Next

(* Read out in a tail and a head, that is the bytes in their order.        *)
LEMMA RingReadsQueue ==
  ASSUME RingInv
  PROVE  Ring!RingIsQueue
<1>1. PICK n \in Nat \ {0} : RingIn(n)
  BY DEF RingInv
<1> DEFINE there == n - remain
           tail  == Ring!TailOf(n, begin, there)
<1>2. Ring!Available = there /\ Ring!Capacity = n
  BY <1>1, CapacityIs DEF Ring!Available
<1>3. /\ there \in 0..n /\ begin \in 0..(n - 1) /\ queue \in Seq(Int) /\ Len(queue) = there
      /\ \A i \in 1..there : queue[i] = mem[Wrapped(begin + i - 1, n)]
  BY <1>1 DEF RingIn
<1>4. Ring!ReadOut(there)
        = [i \in 1..there |-> IF i <= tail THEN mem[begin + i - 1] ELSE mem[i - tail - 1]]
  BY <1>2 DEF Ring!ReadOut
<1> HIDE DEF there
<1>5. tail = IF n - begin <= there THEN n - begin ELSE there
  BY <1>3, RingMin DEF Ring!TailOf
<1> HIDE DEF tail
<1>6. ASSUME NEW i \in 1..there
      PROVE  (IF i <= tail THEN mem[begin + i - 1] ELSE mem[i - tail - 1]) = queue[i]
  <2>1. Wrapped(begin + i - 1, n) = IF i <= tail THEN begin + i - 1 ELSE i - tail - 1
    BY <1>3, <1>5 DEF Wrapped
  <2>2. QED
    BY <1>3, <2>1
<1>7. queue = [i \in 1..there |-> queue[i]]
  BY <1>3
<1>8. Ring!ReadOut(there) = queue
  BY <1>4, <1>6, <1>7
<1>9. QED
  BY <1>2, <1>3, <1>8 DEF Ring!RingIsQueue

-----------------------------------------------------------------------------
(* The way of recorded audio.                                              *)

(* Numbers in a row, from the one after from.                              *)
IsRun(q, from) == q \in Seq(Int) /\ from \in Int /\ \A i \in 1..Len(q) : q[i] = from + i

(* The samples handed on to the chunk loops, those of them that are no     *)
(* longer in the buffer, and those the outermost loop has gone over.       *)
Passed == captured - Len(rawData)
Base   == Passed - Len(cacheData)
UpTo(i) == IF Base + i <= Passed THEN Base + i ELSE Passed
Gone   == IF stack = <<>> THEN Base ELSE UpTo(stack[1].index)

(* The audio of the next report.                                           *)
AudioOf(a) == IF stream THEN a.result \o a.heard ELSE a.cache
Audio == AudioOf(asr)

Ascends(q)    == \A i, j \in 1..Len(q) : i < j => q[i] < q[j]
RunsOn(q, b)  == \A i \in 1..(Len(q) - 1) : q[i] > b => q[i + 1] = q[i] + 1
AllBelow(q, r) == \A i \in 1..Len(q), j \in 1..Len(r) : q[i] < r[j]
UpMost(q, n)  == \A i \in 1..Len(q) : q[i] <= n

(* The reports passed on last, g1 and g2, and those made since, rs: up to  *)
(* n, each in order and after the one before it.                           *)
InOne(report) == ~report.nested => Ascends(report.audio) /\ RunsOn(report.audio, report.begun)
Before(r1, r2) == ~r1.nested /\ ~r2.nested => AllBelow(r1.audio, r2.audio)
PastOf(g, rs) == {g} \cup {rs[i] : i \in 1..Len(rs)}
Clear(g, rs, q) == \A r \in PastOf(g, rs) : ~r.nested => AllBelow(r.audio, q)
ReportsIn(g1, g2, rs, n) ==
  /\ \A r \in PastOf(g2, rs) : InOne(r) /\ (~r.nested => UpMost(r.audio, n))
  /\ \A i \in 1..Len(rs) : Before(g2, rs[i])
  /\ \A i, j \in 1..Len(rs) : i < j => Before(rs[i], rs[j])
  /\ Before(g1, g2)

(* A chime at the end of what was said to the program.                     *)
InChime  == stack # <<>> /\ stack[1].at = "chime"
EndsWell == InChime /\ stack[1].kind = "VAD" /\ ~stack[1].stop

Bound == IF nested \/ stack = <<>> \/ stack[Len(stack)].at = "chime" \/ detectState # "IDLE"
         THEN Base ELSE Gone

ReportType == [audio : Seq(Int), begun : Int, nested : BOOLEAN]
Asr    == [cache : Seq(Int), heard : Seq(Int), result : Seq(Int), reports : Seq(ReportType)]
Frames == [kind : {"WAKEUP", "VAD"}, at : {"loop", "chime"}, index : Nat, remain : Int,
           stop : BOOLEAN, data : Seq(Int)]
PathTypes ==
  /\ process \in BOOLEAN /\ enablePreVad \in BOOLEAN /\ stream \in BOOLEAN
  /\ nested \in BOOLEAN /\ isResponse \in BOOLEAN
  /\ detectState \in {"PREVAD", "WAKEUP", "VAD", "IDLE"}
  /\ isResponse => detectState = "VAD"
  /\ captured \in Int /\ begun \in Int
  /\ stack \in Seq(Frames) /\ asr \in Asr
  /\ given[1] \in ReportType /\ given[2] \in ReportType
Buffers ==
  /\ IsRun(rawData, Passed) /\ IsRun(cacheData, Base)
  /\ process \/ rawData = <<>>
Reports == ReportsIn(given[1], given[2], asr.reports, Bound)

(* As long as no loop runs inside another, the audio of the next report is *)
(* in order, none of it is still in the buffer, and, while one listens,    *)
(* that of this period goes on without a gap up to what is still there.    *)
Listens == detectState = "VAD" \/ EndsWell
Follows(q, n) ==
  /\ Ascends(q) /\ AllBelow(Audio, q) /\ UpMost(q, n)
  /\ Clear(given[2], asr.reports, q)
InTurn ==
  /\ Len(stack) <= 1
  /\ InChime => detectState # "VAD"
  /\ EndsWell => detectState = "IDLE"
  /\ Ascends(Audio) /\ UpMost(Audio, Gone)
  /\ InChime /\ stack[1].kind = "VAD" =>
       Follows(stack[1].data, UpTo(stack[1].index + VadChunk))
  /\ Listens => RunsOn(Audio, begun)
  /\ detectState = "VAD" /\ Audio # <<>> /\ Audio[Len(Audio)] > begun =>
       Audio[Len(Audio)] = Gone /\ (stack # <<>> => stack[1].kind = "VAD")
  /\ stream \/ detectState # "IDLE" \/ EndsWell => Clear(given[2], asr.reports, Audio)
PathInv == PathTypes /\ Buffers /\ Reports /\ (~nested => InTurn)

(* Numbers in a row, one piece behind the other, and cut out.              *)
LEMMA RunAppended ==
  ASSUME NEW q, NEW r, NEW from, IsRun(q, from), IsRun(r, from + Len(q))
  PROVE  IsRun(q \o r, from) /\ Len(q \o r) = Len(q) + Len(r)
<1>1. /\ q \in Seq(Int) /\ r \in Seq(Int) /\ from \in Int
      /\ \A i \in 1..Len(q) : q[i] = from + i
      /\ \A i \in 1..Len(r) : r[i] = from + Len(q) + i
  BY DEF IsRun
<1>2. Len(q) \in Nat /\ Len(r) \in Nat
  BY <1>1
<1> DEFINE j == q \o r
<1>3. /\ j \in Seq(Int) /\ Len(j) = Len(q) + Len(r)
      /\ \A i \in 1..(Len(q) + Len(r)) : j[i] = IF i <= Len(q) THEN q[i] ELSE r[i - Len(q)]
  BY <1>1, ConcatProperties
<1> HIDE DEF j
<1>4. ASSUME NEW i \in 1..Len(j)
      PROVE  j[i] = from + i
  <2>1. CASE i <= Len(q)
    <3>1. i \in 1..Len(q) /\ j[i] = q[i]
      BY <1>2, <1>3, <1>4, <2>1
    <3>2. QED
      BY <1>1, <3>1
  <2>2. CASE ~(i <= Len(q))
    <3>1. i - Len(q) \in 1..Len(r) /\ j[i] = r[i - Len(q)]
      BY <1>2, <1>3, <1>4, <2>2
    <3>2. j[i] = from + Len(q) + (i - Len(q))
      BY <1>1, <3>1
    <3>3. QED
      BY <1>1, <1>2, <1>3, <1>4, <3>2
  <2>3. QED
    BY <2>1, <2>2
<1>5. QED
  BY <1>1, <1>3, <1>4 DEF IsRun, j

LEMMA RunCut ==
  ASSUME NEW q, NEW from, IsRun(q, from), NEW m \in Nat \ {0}, NEW n \in Nat, n <= Len(q)
  PROVE  /\ IsRun(SubSeq(q, m, n), from + m - 1)
         /\ Len(SubSeq(q, m, n)) = IF m <= n THEN n - m + 1 ELSE 0
<1>1. q \in Seq(Int) /\ from \in Int /\ Len(q) \in Nat /\ \A i \in 1..Len(q) : q[i] = from + i
  BY DEF IsRun
<1>2. \A i \in m..n : q[i] \in Int
  BY <1>1
<1> DEFINE c == SubSeq(q, m, n)
<1>3. /\ c \in Seq(Int) /\ Len(c) = IF m <= n THEN n - m + 1 ELSE 0
      /\ \A i \in 1..(n - m + 1) : c[i] = q[m + i - 1]
  BY <1>1, <1>2, SubSeqProperties
<1> HIDE DEF c
<1>4. ASSUME NEW i \in 1..Len(c)
      PROVE  c[i] = from + m - 1 + i
  <2>1. i \in 1..(n - m + 1) /\ m + i - 1 \in 1..Len(q)
    BY <1>1, <1>3, <1>4
  <2>2. QED
    BY <1>1, <1>3, <2>1
<1>5. QED
  BY <1>1, <1>3, <1>4 DEF IsRun, c

(* A chunk is what follows on what the loop has gone over.                 *)
LEMMA ChunkFollows ==
  ASSUME Buffers, NEW frame \in Frames, NEW size \in Nat
  PROVE  /\ IsRun(Path!ChunkAt(frame, size), UpTo(frame.index))
         /\ UpTo(frame.index) + Len(Path!ChunkAt(frame, size)) = UpTo(frame.index + size)
         /\ UpTo(frame.index) \in Base..Passed /\ UpTo(frame.index + size) \in Base..Passed
<1> DEFINE at   == frame.index
           last == IF at + size <= Len(cacheData) THEN at + size ELSE Len(cacheData)
           c    == Path!ChunkAt(frame, size)
<1>1. at \in Nat
  BY DEF Frames
<1>2. Base \in Int /\ Len(cacheData) \in Nat /\ Passed = Base + Len(cacheData)
  <2>1. Base \in Int /\ Len(cacheData) \in Nat /\ Passed \in Int
    BY DEF Buffers, IsRun
  <2>2. QED
    BY <2>1 DEF Base
<1>3. c = SubSeq(cacheData, at + 1, last)
  BY DEF Path!ChunkAt
<1> HIDE DEF at, c
<1>4. last \in Nat /\ last <= Len(cacheData) /\ at + 1 \in Nat \ {0}
  BY <1>1, <1>2
<1>5. IsRun(c, Base + (at + 1) - 1) /\ Len(c) = IF at + 1 <= last THEN last - (at + 1) + 1 ELSE 0
  BY <1>3, <1>4, RunCut DEF Buffers
<1>6. Len(c) = IF at < last THEN last - at ELSE 0
  BY <1>1, <1>4, <1>5
<1>7. UpTo(at) + Len(c) = UpTo(at + size)
  <2>1. CASE at + size <= Len(cacheData)
    <3>1. at <= Len(cacheData) /\ last = at + size
      BY <1>1, <1>2, <2>1
    <3>2. UpTo(at) = Base + at /\ UpTo(at + size) = Base + (at + size)
      BY <1>1, <1>2, <2>1, <3>1 DEF UpTo
    <3>3. Len(c) = size
      BY <1>1, <1>6, <3>1
    <3>4. QED
      BY <1>1, <1>2, <3>2, <3>3
  <2>2. CASE at <= Len(cacheData) /\ ~(at + size <= Len(cacheData))
    <3>1. last = Len(cacheData)
      BY <1>1, <1>2, <2>2
    <3>2. UpTo(at) = Base + at /\ UpTo(at + size) = Passed
      BY <1>1, <1>2, <2>2 DEF UpTo
    <3> DEFINE n == Len(cacheData)
               l == Len(c)
    <3>5. at \in Nat /\ n \in Nat /\ at <= n
      BY <1>1, <1>2, <2>2
    <3>6. l = IF at < n THEN n - at ELSE 0
      BY <1>6, <3>1
    <3> HIDE DEF n, l
    <3>7. l = n - at
      BY <3>5, <3>6
    <3>3. Len(c) = Len(cacheData) - at
      BY <3>7 DEF n, l
    <3>4. QED
      BY <1>1, <1>2, <3>2, <3>3
  <2>3. CASE ~(at <= Len(cacheData))
    <3>1. last = Len(cacheData) /\ Len(c) = 0
      BY <1>1, <1>2, <1>6, <2>3
    <3>2. UpTo(at) = Passed /\ UpTo(at + size) = Passed
      BY <1>1, <1>2, <2>3 DEF UpTo
    <3>3. QED
      BY <1>2, <3>1, <3>2
  <2>4. QED
    BY <1>1, <1>2, <2>1, <2>2, <2>3
<1>8. IsRun(c, UpTo(at))
  <2>1. CASE at <= Len(cacheData)
    BY <1>1, <1>2, <1>5, <2>1 DEF UpTo
  <2>2. CASE at > Len(cacheData)
    <3>1. Len(c) = 0
      BY <1>1, <1>2, <1>4, <1>6, <2>2
    <3>2. UpTo(at) \in Int
      BY <1>1, <1>2 DEF UpTo
    <3>3. QED
      BY <1>5, <3>1, <3>2 DEF IsRun
  <2>3. QED
    BY <1>1, <1>2, <2>1, <2>2
<1>9. UpTo(at) \in Base..Passed /\ UpTo(at + size) \in Base..Passed
  BY <1>1, <1>2 DEF UpTo
<1>10. QED
  BY <1>7, <1>8, <1>9 DEF at, c

(* Of n numbers after b, up to p, i taken away, and l left.                *)
LEMMA Shortened ==
  ASSUME NEW b \in Int, NEW p \in Int, NEW n \in Nat, p = b + n, NEW i \in Nat, NEW l,
         l = IF i + 1 <= n THEN n - (i + 1) + 1 ELSE 0
  PROVE  /\ (IF b + i <= p THEN b + i ELSE p) = p - l /\ l \in 0..n
         /\ b + (i + 1) - 1 = b + i
         /\ i <= n => p - l = b + i
         /\ ~(i <= n) => l = 0
<1>1. CASE i <= n
  <2>1. l = n - i
    BY <1>1
  <2>2. QED
    BY <1>1, <2>1
<1>2. CASE ~(i <= n)
  <2>1. l = 0
    BY <1>2
  <2>2. QED
    BY <1>2, <2>1
<1>3. QED
  BY <1>1, <1>2

LEMMA UpToGrows ==
  ASSUME NEW b \in Int, NEW c \in Int, NEW p \in Int, NEW q \in Int, b <= c, p <= q, NEW i \in Nat
  PROVE  /\ (IF b + i <= p THEN b + i ELSE p) <= (IF c + i <= q THEN c + i ELSE q)
         /\ (IF b + i <= p THEN b + i ELSE p) \in Int /\ (IF c + i <= q THEN c + i ELSE q) \in Int
OBVIOUS

LEMMA UpMostRaised ==
  ASSUME NEW q \in Seq(Int), NEW n \in Int, NEW m \in Int, UpMost(q, n), n <= m
  PROVE  UpMost(q, m)
BY DEF UpMost

LEMMA Associates ==
  ASSUME NEW p \in Seq(Int), NEW q \in Seq(Int), NEW r \in Seq(Int)
  PROVE  (p \o q) \o r = p \o (q \o r)
BY ConcatAssociative

(* Two pieces behind one another.                                          *)
LEMMA Joined ==
  ASSUME NEW q \in Seq(Int), NEW r \in Seq(Int)
  PROVE  /\ q \o r \in Seq(Int) /\ Len(q \o r) = Len(q) + Len(r)
         /\ Len(q) \in Nat /\ Len(r) \in Nat
         /\ \A i \in 1..Len(q) : (q \o r)[i] = q[i] /\ q[i] \in Int
         /\ \A i \in 1..Len(r) : (q \o r)[Len(q) + i] = r[i] /\ r[i] \in Int
         /\ \A i \in 1..Len(q \o r) :
              i \in 1..Len(q) \/ \E j \in 1..Len(r) : i = Len(q) + j
<1> DEFINE j == q \o r
<1>1. /\ j \in Seq(Int) /\ Len(j) = Len(q) + Len(r)
      /\ \A i \in 1..(Len(q) + Len(r)) : j[i] = IF i <= Len(q) THEN q[i] ELSE r[i - Len(q)]
  BY ConcatProperties
<1>2. Len(q) \in Nat /\ Len(r) \in Nat
  OBVIOUS
<1> HIDE DEF j
<1>3. ASSUME NEW i \in 1..Len(r)
      PROVE  j[Len(q) + i] = r[i]
  <2>1. Len(q) + i \in 1..(Len(q) + Len(r)) /\ ~(Len(q) + i <= Len(q)) /\ Len(q) + i - Len(q) = i
    BY <1>2
  <2>2. QED
    BY <1>1, <2>1
<1>4. ASSUME NEW i \in 1..Len(j), i \notin 1..Len(q)
      PROVE  \E k \in 1..Len(r) : i = Len(q) + k
  <2>1. i - Len(q) \in 1..Len(r) /\ i = Len(q) + (i - Len(q))
    BY <1>1, <1>2, <1>4
  <2>2. QED
    BY <2>1
<1>5. \A i \in 1..Len(q) : j[i] = q[i] /\ q[i] \in Int
  BY <1>1, <1>2
<1>6. QED
  BY <1>1, <1>2, <1>3, <1>4, <1>5 DEF j

LEMMA JoinAscends ==
  ASSUME NEW q \in Seq(Int), NEW r \in Seq(Int), Ascends(q), Ascends(r), AllBelow(q, r)
  PROVE  Ascends(q \o r)
<1> DEFINE j == q \o r
<1>1. /\ \A i \in 1..Len(q) : j[i] = q[i]
      /\ \A i \in 1..Len(r) : j[Len(q) + i] = r[i]
      /\ \A i \in 1..Len(j) : i \in 1..Len(q) \/ \E k \in 1..Len(r) : i = Len(q) + k
      /\ Len(q) \in Nat /\ Len(r) \in Nat /\ Len(j) \in Nat
  BY Joined
<1> HIDE DEF j
<1>2. ASSUME NEW i \in 1..Len(j), NEW k \in 1..Len(j), i < k
      PROVE  j[i] < j[k]
  <2>1. CASE i \in 1..Len(q) /\ k \in 1..Len(q)
    BY <1>1, <1>2, <2>1 DEF Ascends
  <2>2. CASE i \in 1..Len(q) /\ k \notin 1..Len(q)
    <3>1. PICK m \in 1..Len(r) : k = Len(q) + m
      BY <1>1, <1>2, <2>2
    <3>2. QED
      BY <1>1, <2>2, <3>1 DEF AllBelow
  <2>3. CASE i \notin 1..Len(q)
    <3>1. PICK m \in 1..Len(r) : i = Len(q) + m
      BY <1>1, <1>2, <2>3
    <3>2. k \notin 1..Len(q)
      BY <1>1, <1>2, <3>1
    <3>3. PICK n \in 1..Len(r) : k = Len(q) + n
      BY <1>1, <1>2, <3>2
    <3>4. m < n
      BY <1>1, <1>2, <3>1, <3>3
    <3>5. QED
      BY <1>1, <3>1, <3>3, <3>4 DEF Ascends
  <2>4. QED
    BY <2>1, <2>2, <2>3
<1>3. QED
  BY <1>2 DEF Ascends, j

LEMMA JoinBounds ==
  ASSUME NEW q \in Seq(Int), NEW r \in Seq(Int)
  PROVE  /\ \A n : UpMost(q, n) /\ UpMost(r, n) => UpMost(q \o r, n)
         /\ \A p : AllBelow(p, q) /\ AllBelow(p, r) => AllBelow(p, q \o r)
         /\ \A p : AllBelow(p, q \o r) => AllBelow(p, r)
         /\ \A p : AllBelow(q \o r, p) => AllBelow(r, p)
         /\ \A n : UpMost(q \o r, n) => UpMost(r, n)
         /\ Ascends(q \o r) => Ascends(r)
<1> DEFINE j == q \o r
<1>1. /\ \A i \in 1..Len(q) : j[i] = q[i]
      /\ \A i \in 1..Len(r) : j[Len(q) + i] = r[i] /\ Len(q) + i \in 1..Len(j)
      /\ \A i \in 1..Len(j) : i \in 1..Len(q) \/ \E k \in 1..Len(r) : i = Len(q) + k
      /\ Len(q) \in Nat /\ Len(r) \in Nat /\ Len(j) \in Nat
  BY Joined
<1> HIDE DEF j
<1>2. \A n : UpMost(q, n) /\ UpMost(r, n) => UpMost(j, n)
  BY <1>1 DEF UpMost
<1>3. \A p : AllBelow(p, q) /\ AllBelow(p, r) => AllBelow(p, j)
  BY <1>1 DEF AllBelow
<1>4. /\ \A p : AllBelow(p, j) => AllBelow(p, r)
      /\ \A p : AllBelow(j, p) => AllBelow(r, p)
  BY <1>1 DEF AllBelow
<1>5. \A n : UpMost(j, n) => UpMost(r, n)
  BY <1>1 DEF UpMost
<1>6. ASSUME Ascends(j), NEW i \in 1..Len(r), NEW k \in 1..Len(r), i < k
      PROVE  r[i] < r[k]
  <2>1. Len(q) + i < Len(q) + k
    BY <1>1, <1>6
  <2>2. j[Len(q) + i] < j[Len(q) + k]
    BY <1>1, <1>6, <2>1 DEF Ascends
  <2>3. QED
    BY <1>1, <2>2
<1>7. QED
  BY <1>2, <1>3, <1>4, <1>5, <1>6 DEF Ascends, j

(* A run behind audio that ends where the run begins.                      *)
RunFact(q, b, n) ==
  /\ RunsOn(q, b)
  /\ q # <<>> /\ q[Len(q)] > b => q[Len(q)] = n
LEMMA RunGoesOn ==
  ASSUME NEW q \in Seq(Int), NEW r, NEW n, IsRun(r, n), Ascends(q), UpMost(q, n)
  PROVE  /\ Ascends(q \o r) /\ UpMost(q \o r, n + Len(r)) /\ q \o r \in Seq(Int)
         /\ AllBelow(q, r) /\ Ascends(r) /\ UpMost(r, n + Len(r))
         /\ \A b \in Int : RunFact(q, b, n) => RunFact(q \o r, b, n + Len(r))
<1>1. /\ r \in Seq(Int) /\ n \in Int /\ Len(r) \in Nat /\ \A i \in 1..Len(r) : r[i] = n + i
      /\ Len(q) \in Nat /\ \A i \in 1..Len(q) : q[i] \in Int
  BY DEF IsRun
<1>2. Ascends(r) /\ UpMost(r, n + Len(r)) /\ AllBelow(q, r) /\ UpMost(q, n + Len(r))
  BY <1>1 DEF Ascends, UpMost, AllBelow
<1>3. Ascends(q \o r) /\ UpMost(q \o r, n + Len(r))
  BY <1>1, <1>2, JoinAscends, JoinBounds
<1> DEFINE j == q \o r
<1>4. /\ \A i \in 1..Len(q) : j[i] = q[i]
      /\ \A i \in 1..Len(r) : j[Len(q) + i] = r[i]
      /\ \A i \in 1..Len(j) : i \in 1..Len(q) \/ \E k \in 1..Len(r) : i = Len(q) + k
      /\ j \in Seq(Int) /\ Len(j) = Len(q) + Len(r)
  BY <1>1, Joined
<1> HIDE DEF j
<1>5. ASSUME NEW b \in Int, RunFact(q, b, n)
      PROVE  RunFact(j, b, n + Len(r))
  <2>1. ASSUME NEW i \in 1..(Len(j) - 1), j[i] > b
        PROVE  j[i + 1] = j[i] + 1
    <3>1. CASE i < Len(q)
      <4>1. i \in 1..(Len(q) - 1) /\ i \in 1..Len(q) /\ i + 1 \in 1..Len(q)
        BY <1>1, <2>1, <3>1
      <4>2. QED
        BY <1>4, <1>5, <2>1, <4>1 DEF RunFact, RunsOn
    <3>2. CASE i = Len(q)
      <4>1. i \in 1..Len(q) /\ 1 \in 1..Len(r) /\ q # <<>>
        BY <1>1, <1>4, <2>1, <3>2
      <4>2. j[i] = n /\ j[i + 1] = r[1] /\ r[1] = n + 1
        BY <1>1, <1>4, <1>5, <2>1, <3>2, <4>1 DEF RunFact
      <4>3. QED
        BY <4>2
    <3>3. CASE i > Len(q)
      <4> DEFINE k == i - Len(q)
      <4>1. /\ k \in 1..Len(r) /\ k + 1 \in 1..Len(r)
            /\ i = Len(q) + k /\ i + 1 = Len(q) + (k + 1)
        BY <1>1, <1>4, <2>1, <3>3
      <4>2. j[i] = n + k /\ j[i + 1] = n + (k + 1)
        BY <1>1, <1>4, <4>1
      <4>3. QED
        BY <1>1, <4>1, <4>2
    <3>4. QED
      BY <1>1, <2>1, <3>1, <3>2, <3>3
  <2>2. ASSUME j # <<>>, j[Len(j)] > b
        PROVE  j[Len(j)] = n + Len(r)
    <3>1. CASE Len(r) = 0
      <4>1. Len(j) = Len(q) /\ Len(q) # 0 /\ n + Len(r) = n
        BY <1>1, <1>4, <2>2, <3>1
      <4>2. Len(q) \in 1..Len(q)
        BY <1>1, <4>1
      <4>3. q # <<>> /\ j[Len(j)] = q[Len(q)]
        BY <1>4, <4>1, <4>2, EmptySeq
      <4>4. QED
        BY <1>5, <2>2, <4>1, <4>3 DEF RunFact
    <3>2. CASE Len(r) # 0
      <4>1. Len(r) \in 1..Len(r) /\ Len(j) = Len(q) + Len(r)
        BY <1>1, <1>4, <3>2
      <4>2. QED
        BY <1>1, <1>4, <4>1
    <3>3. QED
      BY <3>1, <3>2
  <2>3. QED
    BY <2>1, <2>2 DEF RunFact, RunsOn
<1>6. QED
  BY <1>2, <1>3, <1>4, <1>5 DEF j

(* The numbers of a state.                                                 *)
LEMMA PathNums ==
  ASSUME PathTypes, Buffers
  PROVE  /\ Passed \in Int /\ Base \in Int /\ Len(cacheData) \in Nat /\ Len(rawData) \in Nat
         /\ Passed = Base + Len(cacheData) /\ captured = Passed + Len(rawData)
         /\ \A i \in Nat : UpTo(i) \in Base..Passed
         /\ \A i, k \in Nat : UpTo(i) <= UpTo(i + k)
         /\ Gone \in Base..Passed /\ Bound \in Base..Passed /\ Bound <= Gone
         /\ Audio \in Seq(Int)
<1>1. /\ Passed \in Int /\ Base \in Int /\ Len(cacheData) \in Nat /\ Len(rawData) \in Nat
      /\ captured \in Int
  BY DEF Buffers, IsRun, PathTypes
<1>2. Passed = Base + Len(cacheData) /\ captured = Passed + Len(rawData)
  BY <1>1 DEF Base, Passed
<1>3. \A i \in Nat : UpTo(i) \in Base..Passed
  BY <1>1, <1>2 DEF UpTo
<1>4. \A i, k \in Nat : UpTo(i) <= UpTo(i + k)
  BY <1>1, <1>2 DEF UpTo
<1>5. Gone \in Base..Passed
  <2>1. CASE stack = <<>>
    BY <1>1, <1>2, <2>1 DEF Gone
  <2>2. CASE stack # <<>>
    <3>1. stack[1] \in Frames
      BY <2>2 DEF PathTypes
    <3>2. QED
      BY <1>3, <2>2, <3>1 DEF Gone, Frames
  <2>3. QED
    BY <2>1, <2>2
<1>6. Bound \in Base..Passed /\ Bound <= Gone
  BY <1>1, <1>2, <1>5 DEF Bound
<1>7. Audio \in Seq(Int)
  BY ConcatProperties DEF PathTypes, Asr, Audio, AudioOf
<1>8. QED
  BY <1>1, <1>2, <1>3, <1>4, <1>5, <1>6, <1>7

(* The innermost loop, and that loop replaced.                             *)
LEMMA TopOf ==
  ASSUME PathTypes, stack # <<>>
  PROVE  /\ Path!Top = stack[Len(stack)] /\ Path!Top \in Frames /\ Len(stack) \in Nat \ {0}
         /\ stack[1] \in Frames /\ stack \in Seq(Frames)
<1>1. stack \in Seq(Frames) /\ Len(stack) \in Nat \ {0}
  BY EmptySeq DEF PathTypes
<1>2. QED
  BY <1>1 DEF Path!Top

LEMMA TopSet ==
  ASSUME PathTypes, stack # <<>>, NEW frame \in Frames, Path!SetTop(frame)
  PROVE  /\ stack' \in Seq(Frames) /\ stack' # <<>> /\ Len(stack') = Len(stack)
         /\ stack'[Len(stack)] = frame
         /\ Len(stack) = 1 => stack'[1] = frame /\ Path!Top = stack[1]
         /\ Len(stack) # 1 => stack'[1] = stack[1]
<1>1. stack \in Seq(Frames) /\ Len(stack) \in Nat \ {0} /\ Path!Top = stack[Len(stack)]
  BY TopOf
<1>2. Len(stack) \in 1..Len(stack)
  BY <1>1
<1>3. /\ stack' \in Seq(Frames) /\ Len(stack') = Len(stack)
      /\ \A i \in 1..Len(stack) : stack'[i] = IF i = Len(stack) THEN frame ELSE stack[i]
  BY <1>1, <1>2, ExceptSeq DEF Path!SetTop
<1>4. stack' # <<>>
  BY <1>1, <1>3
<1>5. QED
  BY <1>1, <1>2, <1>3, <1>4

LEMMA GoneOn ==
  ASSUME NEW frame \in Frames, NEW size \in Nat
  PROVE  /\ Path!GoOn(frame, size) \in Frames
         /\ Path!GoOn(frame, size).at = "loop"
         /\ Path!GoOn(frame, size).index = frame.index + size
         /\ Path!GoOn(frame, size).kind = frame.kind
<1>1. <<>> \in Seq(Int)
  OBVIOUS
<1>2. frame.index + size \in Nat /\ frame.remain - size \in Int
  BY DEF Frames
<1> DEFINE g == Path!GoOn(frame, size)
<1>3. g = [frame EXCEPT !.at = "loop", !.index = frame.index + size,
                        !.remain = frame.remain - size, !.data = <<>>]
  BY DEF Path!GoOn
<1> HIDE DEF g
<1>4. g \in Frames /\ g.at = "loop" /\ g.index = frame.index + size /\ g.kind = frame.kind
  BY <1>1, <1>2, <1>3 DEF Frames
<1>5. QED
  BY <1>4 DEF g

(* The recogniser: what it is handed comes behind what it has, and a       *)
(* report takes all of it, but that of audio handed on whole.              *)
LEMMA Receives ==
  ASSUME NEW a \in Asr, NEW data \in Seq(Int), NEW endpoint \in BOOLEAN, stream \in BOOLEAN
  PROVE  /\ Path!ReceiveData(a, data, endpoint) \in Asr
         /\ AudioOf(Path!ReceiveData(a, data, endpoint)) = AudioOf(a) \o data
         /\ Path!ReceiveData(a, data, endpoint).reports = a.reports
<1> DEFINE r == Path!ReceiveData(a, data, endpoint)
<1>1. /\ a.cache \in Seq(Int) /\ a.heard \in Seq(Int) /\ a.result \in Seq(Int)
      /\ a.reports \in Seq(ReportType)
  BY DEF Asr
<1>2. CASE ~stream
  <2>1. r = [a EXCEPT !.cache = a.cache \o data]
    BY <1>2 DEF Path!ReceiveData
  <2>2. a.cache \o data \in Seq(Int)
    BY <1>1, ConcatProperties
  <2> HIDE DEF r
  <2>3. r \in Asr /\ r.cache = a.cache \o data /\ r.reports = a.reports
    BY <2>1, <2>2 DEF Asr
  <2>4. QED
    BY <1>2, <2>3 DEF AudioOf, r
<1>3. CASE stream /\ endpoint
  <2>1. r = [a EXCEPT !.result = (a.result \o a.heard) \o data, !.heard = <<>>]
    BY <1>3 DEF Path!ReceiveData, Path!Feed
  <2>2. /\ (a.result \o a.heard) \o data \in Seq(Int)
        /\ ((a.result \o a.heard) \o data) \o <<>> = (a.result \o a.heard) \o data
    <3>1. (a.result \o a.heard) \o data \in Seq(Int)
      BY <1>1, ConcatProperties
    <3>2. QED
      BY <3>1, ConcatEmptySeq
  <2> HIDE DEF r
  <2>3. <<>> \in Seq(Int)
    OBVIOUS
  <2> DEFINE all == (a.result \o a.heard) \o data
  <2> HIDE DEF all
  <2>5. r = [a EXCEPT !.result = all, !.heard = <<>>] /\ all \in Seq(Int) /\ all \o <<>> = all
    BY <2>1, <2>2 DEF all
  <2>6. r \in Asr /\ r.result = all /\ r.heard = <<>> /\ r.reports = a.reports
    BY <2>3, <2>5 DEF Asr
  <2>4. QED
    BY <1>3, <2>5, <2>6 DEF AudioOf, r, all
<1>4. CASE stream /\ ~endpoint
  <2>1. r = [a EXCEPT !.heard = a.heard \o data]
    BY <1>4 DEF Path!ReceiveData, Path!Feed
  <2>2. /\ a.heard \o data \in Seq(Int)
        /\ a.result \o (a.heard \o data) = (a.result \o a.heard) \o data
    <3> DEFINE heardAll == a.heard
               results  == a.result
    <3>1. heardAll \in Seq(Int) /\ results \in Seq(Int)
      BY <1>1
    <3> HIDE DEF heardAll, results
    <3>2. heardAll \o data \in Seq(Int)
      BY <3>1, ConcatProperties
    <3>3. (results \o heardAll) \o data = results \o (heardAll \o data)
      BY <3>1, Associates
    <3>4. QED
      BY <3>2, <3>3 DEF heardAll, results
  <2> HIDE DEF r
  <2>3. /\ r \in Asr /\ r.result = a.result /\ r.heard = a.heard \o data
        /\ r.reports = a.reports
    BY <2>1, <2>2 DEF Asr
  <2>4. QED
    BY <1>4, <2>2, <2>3 DEF AudioOf, r
<1>5. QED
  BY <1>2, <1>3, <1>4

NewReport(a) == [audio |-> AudioOf(a), begun |-> begun, nested |-> nested']
LEMMA ReportsAll ==
  ASSUME NEW a \in Asr, stream \in BOOLEAN, nested' \in BOOLEAN, begun \in Int
  PROVE  /\ Path!FeedLast(a) \in Asr /\ NewReport(a) \in ReportType
         /\ Path!FeedLast(a).reports = Append(a.reports, NewReport(a))
         /\ AudioOf(Path!FeedLast(a)) = IF stream THEN <<>> ELSE AudioOf(a)
<1> DEFINE f == Path!FeedLast(a)
<1>1. /\ a.cache \in Seq(Int) /\ a.heard \in Seq(Int) /\ a.result \in Seq(Int)
      /\ a.reports \in Seq(ReportType) /\ <<>> \in Seq(Int)
  BY DEF Asr
<1>2. AudioOf(a) \in Seq(Int)
  BY <1>1, ConcatProperties DEF AudioOf
<1>3. NewReport(a) \in ReportType
  BY <1>2 DEF NewReport, ReportType
<1>4. Append(a.reports, NewReport(a)) \in Seq(ReportType)
  BY <1>1, <1>3, AppendProperties
<1> DEFINE all == Append(a.reports, NewReport(a))
<1>5. CASE stream
  <2>1. f = [a EXCEPT !.reports = all, !.result = <<>>, !.heard = <<>>]
    BY <1>5 DEF Path!FeedLast, Path!Report, NewReport, AudioOf, Asr
  <2> HIDE DEF f, all
  <2>2. f \in Asr /\ f.reports = all /\ f.result = <<>> /\ f.heard = <<>>
    BY <1>1, <1>4, <2>1 DEF Asr, all
  <2>3. <<>> \o <<>> = <<>>
    BY <1>1, ConcatEmptySeq
  <2>4. QED
    BY <1>3, <1>5, <2>2, <2>3 DEF AudioOf, f, all
<1>6. CASE ~stream
  <2>1. f = [a EXCEPT !.reports = all]
    BY <1>6 DEF Path!FeedLast, Path!Report, NewReport, AudioOf
  <2> HIDE DEF f, all
  <2>2. f \in Asr /\ f.reports = all /\ f.cache = a.cache
    BY <1>1, <1>4, <2>1 DEF Asr, all
  <2>3. QED
    BY <1>3, <1>6, <2>2 DEF AudioOf, f, all
<1>7. QED
  BY <1>5, <1>6

(* The end of a dialogue: dropped, but for what the stream is fed, or      *)
(* reported.                                                               *)
LEMMA DialogCleared ==
  ASSUME NEW a \in Asr, stream \in BOOLEAN
  PROVE  /\ Path!Dialog(a, TRUE) \in Asr /\ Path!Dialog(a, TRUE).reports = a.reports
         /\ AudioOf(Path!Dialog(a, TRUE)) = IF stream THEN a.heard ELSE <<>>
<1> DEFINE d == Path!Dialog(a, TRUE)
<1>1. d = [a EXCEPT !.result = <<>>, !.cache = <<>>]
  BY DEF Path!Dialog, Path!ClearASR, Asr
<1> HIDE DEF d
<1>5. <<>> \in Seq(Int)
  OBVIOUS
<1>2. d \in Asr /\ d.result = <<>> /\ d.cache = <<>> /\ d.heard = a.heard /\ d.reports = a.reports
  BY <1>1, <1>5 DEF Asr
<1>3. <<>> \o a.heard = a.heard
  BY ConcatEmptySeq DEF Asr
<1>4. QED
  BY <1>2, <1>3 DEF AudioOf, d

LEMMA DialogReported ==
  ASSUME NEW a \in Asr, stream \in BOOLEAN, nested' \in BOOLEAN, begun \in Int
  PROVE  /\ Path!Dialog(a, FALSE) \in Asr /\ AudioOf(Path!Dialog(a, FALSE)) = <<>>
         /\ Path!Dialog(a, FALSE).reports = Append(a.reports, NewReport(a))
<1> DEFINE d == Path!Dialog(a, FALSE)
           f == Path!FeedLast(a)
<1>1. /\ f \in Asr /\ f.reports = Append(a.reports, NewReport(a))
      /\ AudioOf(f) = IF stream THEN <<>> ELSE AudioOf(a)
  BY ReportsAll
<1>2. d = [f EXCEPT !.cache = <<>>]
  BY DEF Path!Dialog
<1> HIDE DEF d, f
<1>6. <<>> \in Seq(Int)
  OBVIOUS
<1>3. /\ d \in Asr /\ d.cache = <<>> /\ d.reports = f.reports
      /\ d.result = f.result /\ d.heard = f.heard
  BY <1>1, <1>2, <1>6 DEF Asr
<1>4. AudioOf(d) = <<>>
  BY <1>1, <1>3 DEF AudioOf
<1>5. QED
  BY <1>1, <1>3, <1>4 DEF d, f

(* The reports: one that comes behind them, the first of them passed on.   *)
LEMMA PastTypes ==
  ASSUME NEW g \in ReportType, NEW rs \in Seq(ReportType), NEW r \in PastOf(g, rs)
  PROVE  r \in ReportType /\ r.audio \in Seq(Int)
<1>1. r \in ReportType
  BY DEF PastOf
<1>2. QED
  BY <1>1 DEF ReportType

LEMMA ReportsRaised ==
  ASSUME NEW g1, NEW g2 \in ReportType, NEW rs \in Seq(ReportType), NEW n \in Int, NEW m \in Int,
         ReportsIn(g1, g2, rs, n), n <= m
  PROVE  ReportsIn(g1, g2, rs, m)
<1>1. ASSUME NEW r \in PastOf(g2, rs), UpMost(r.audio, n)
      PROVE  UpMost(r.audio, m)
  <2>1. r.audio \in Seq(Int)
    BY PastTypes
  <2>2. QED
    BY <1>1, <2>1, UpMostRaised
<1>2. \A r \in PastOf(g2, rs) : UpMost(r.audio, n) => UpMost(r.audio, m)
  BY <1>1
<1>3. QED
  BY <1>2 DEF ReportsIn

LEMMA ReportsGrow ==
  ASSUME NEW g1, NEW g2 \in ReportType, NEW rs \in Seq(ReportType), NEW n \in Int,
         ReportsIn(g1, g2, rs, n), NEW r \in ReportType,
         ~r.nested => /\ Ascends(r.audio) /\ RunsOn(r.audio, r.begun) /\ UpMost(r.audio, n)
                      /\ Clear(g2, rs, r.audio)
  PROVE  /\ ReportsIn(g1, g2, Append(rs, r), n)
         /\ \A q : Clear(g2, rs, q) /\ (~r.nested => AllBelow(r.audio, q)) =>
                     Clear(g2, Append(rs, r), q)
<1> DEFINE all == Append(rs, r)
<1>1. /\ Len(all) = Len(rs) + 1 /\ Len(rs) \in Nat /\ all[Len(rs) + 1] = r
      /\ \A i \in 1..Len(rs) : all[i] = rs[i]
  BY AppendProperties
<1> HIDE DEF all
<1>2. \A i \in 1..Len(all) : i \in 1..Len(rs) \/ i = Len(rs) + 1
  BY <1>1
<1>3. \A p \in PastOf(g2, all) : p \in PastOf(g2, rs) \/ p = r
  BY <1>1, <1>2 DEF PastOf
<1>4. \A p \in PastOf(g2, all) : InOne(p) /\ (~p.nested => UpMost(p.audio, n))
  BY <1>3 DEF ReportsIn, InOne
<1>5. \A p \in PastOf(g2, rs) : Before(p, r)
  BY DEF Clear, Before
<1>6. g2 \in PastOf(g2, rs) /\ \A i \in 1..Len(rs) : rs[i] \in PastOf(g2, rs)
  BY DEF PastOf
<1>7. \A i \in 1..Len(all) : Before(g2, all[i])
  BY <1>1, <1>2, <1>5, <1>6 DEF ReportsIn
<1>8. ASSUME NEW i \in 1..Len(all), NEW j \in 1..Len(all), i < j
      PROVE  Before(all[i], all[j])
  <2>1. i \in 1..Len(rs)
    BY <1>1, <1>8
  <2>2. CASE j \in 1..Len(rs)
    BY <1>1, <1>8, <2>1, <2>2 DEF ReportsIn
  <2>3. CASE j = Len(rs) + 1
    BY <1>1, <1>5, <1>6, <2>1, <2>3
  <2>4. QED
    BY <1>2, <2>2, <2>3
<1>9. ReportsIn(g1, g2, all, n)
  BY <1>4, <1>7, <1>8 DEF ReportsIn
<1>10. \A q : Clear(g2, rs, q) /\ (~r.nested => AllBelow(r.audio, q)) => Clear(g2, all, q)
  BY <1>3 DEF Clear
<1>11. QED
  BY <1>9, <1>10 DEF all

LEMMA ReportsPassed ==
  ASSUME NEW g1, NEW g2, NEW rs \in Seq(ReportType), NEW n,
         ReportsIn(g1, g2, rs, n), rs # <<>>
  PROVE  /\ ReportsIn(g2, Head(rs), Tail(rs), n)
         /\ \A q : Clear(g2, rs, q) => Clear(Head(rs), Tail(rs), q)
         /\ Head(rs) \in ReportType /\ Tail(rs) \in Seq(ReportType)
<1>1. /\ Head(rs) = rs[1] /\ Len(Tail(rs)) = Len(rs) - 1 /\ Len(rs) \in Nat \ {0}
      /\ \A i \in 1..(Len(rs) - 1) : Tail(rs)[i] = rs[i + 1]
      /\ Tail(rs) \in Seq(ReportType) /\ Head(rs) \in ReportType
  BY HeadTailProperties, EmptySeq
<1> DEFINE t == Tail(rs)
           h == Head(rs)
<1> HIDE DEF t, h
<1>2. \A i \in 1..Len(t) : i + 1 \in 1..Len(rs) /\ t[i] = rs[i + 1] /\ 1 < i + 1
  BY <1>1 DEF t
<1>3. 1 \in 1..Len(rs) /\ h = rs[1]
  BY <1>1 DEF h
<1>4. PastOf(h, t) \subseteq PastOf(g2, rs)
  BY <1>2, <1>3 DEF PastOf
<1>5. \A i \in 1..Len(t) : Before(h, t[i])
  BY <1>2, <1>3 DEF ReportsIn
<1>6. ASSUME NEW i \in 1..Len(t), NEW j \in 1..Len(t), i < j
      PROVE  Before(t[i], t[j])
  <2>1. i + 1 < j + 1
    BY <1>1, <1>6
  <2>2. QED
    BY <1>2, <1>6, <2>1 DEF ReportsIn
<1>7. Before(g2, h)
  BY <1>3 DEF ReportsIn
<1>8. ReportsIn(g2, h, t, n)
  BY <1>4, <1>5, <1>6, <1>7 DEF ReportsIn
<1>9. \A q : Clear(g2, rs, q) => Clear(h, t, q)
  BY <1>4 DEF Clear
<1>10. QED
  BY <1>1, <1>8, <1>9 DEF t, h

(* Whatever is past the reports' bound is clear of them, and what is clear *)
(* stays so cut in front and joined.                                       *)
LEMMA PastBound ==
  ASSUME NEW g1, NEW g2 \in ReportType, NEW rs \in Seq(ReportType), NEW n \in Int,
         ReportsIn(g1, g2, rs, n), NEW q, NEW m \in Int, IsRun(q, m), n <= m
  PROVE  Clear(g2, rs, q)
<1>1. \A r \in PastOf(g2, rs) : r.audio \in Seq(Int)
  BY PastTypes
<1>2. \A r \in PastOf(g2, rs) : ~r.nested => UpMost(r.audio, n)
  BY DEF ReportsIn
<1>3. \A i \in 1..Len(q) : q[i] = m + i
  BY DEF IsRun
<1>4. ASSUME NEW r \in PastOf(g2, rs), ~r.nested, NEW i \in 1..Len(r.audio), NEW j \in 1..Len(q)
      PROVE  r.audio[i] < q[j]
  <2>1. r.audio[i] \in Int /\ r.audio[i] <= n
    BY <1>1, <1>2, <1>4 DEF UpMost
  <2>2. q[j] = m + j /\ j \in Nat \ {0}
    BY <1>3
  <2>3. QED
    BY <2>1, <2>2
<1>5. QED
  BY <1>4 DEF Clear, AllBelow

LEMMA ClearJoined ==
  ASSUME NEW g, NEW rs, NEW q \in Seq(Int), NEW r \in Seq(Int)
  PROVE  /\ Clear(g, rs, q) /\ Clear(g, rs, r) => Clear(g, rs, q \o r)
         /\ Clear(g, rs, q \o r) => Clear(g, rs, r)
         /\ Clear(g, rs, <<>>)
<1>1. /\ \A p : AllBelow(p, q) /\ AllBelow(p, r) => AllBelow(p, q \o r)
      /\ \A p : AllBelow(p, q \o r) => AllBelow(p, r)
  BY JoinBounds
<1>2. \A p : AllBelow(p, <<>>)
  BY DEF AllBelow
<1>3. QED
  BY <1>1, <1>2 DEF Clear

LEMMA NoAudio ==
  /\ Ascends(<<>>) /\ <<>> \in Seq(Int)
  /\ \A n : UpMost(<<>>, n) /\ RunsOn(<<>>, n)
  /\ \A q \in Seq(Int) : <<>> \o q = q /\ q \o <<>> = q
BY ConcatEmptySeq DEF Ascends, UpMost, RunsOn

(* The innermost loop gone on by k, whatever it waits for then.            *)
LEMMA FrameSet ==
  ASSUME PathTypes, Buffers, stack # <<>>, NEW frame \in Frames, Path!SetTop(frame),
         UNCHANGED <<process, captured, rawData, cacheData>>,
         NEW k \in Nat, frame.index = Path!Top.index + k
  PROVE  /\ Buffers' /\ Base' = Base /\ Passed' = Passed /\ (\A i : UpTo(i)' = UpTo(i))
         /\ Gone \in Base..Passed /\ Gone' \in Base..Passed /\ Gone <= Gone'
         /\ Bound \in Int /\ Bound' \in Int
         /\ Bound = IF nested \/ Path!Top.at = "chime" \/ detectState # "IDLE" THEN Base ELSE Gone
         /\ Bound' = IF nested' \/ frame.at = "chime" \/ detectState' # "IDLE" THEN Base ELSE Gone'
         /\ stack' \in Seq(Frames) /\ stack' # <<>> /\ Len(stack') = Len(stack)
         /\ Len(stack) = 1 => /\ stack[1] = Path!Top /\ stack'[1] = frame
                              /\ Gone = UpTo(Path!Top.index) /\ Gone' = UpTo(frame.index)
<1>1. /\ Path!Top = stack[Len(stack)] /\ Path!Top \in Frames /\ stack[1] \in Frames
  BY TopOf
<1>2. /\ stack' \in Seq(Frames) /\ stack' # <<>> /\ Len(stack') = Len(stack)
      /\ stack'[Len(stack')] = frame
      /\ Len(stack) = 1 => stack'[1] = frame /\ Path!Top = stack[1]
      /\ Len(stack) # 1 => stack'[1] = stack[1]
  BY TopSet
<1>3. /\ Base \in Int /\ Passed \in Int /\ Gone \in Base..Passed /\ Bound \in Base..Passed
      /\ \A i \in Nat : UpTo(i) \in Base..Passed
      /\ \A i, m \in Nat : UpTo(i) <= UpTo(i + m)
  BY PathNums
<1>4. Base' = Base /\ Passed' = Passed
  BY DEF Base, Passed
<1>5. \A i : UpTo(i)' = UpTo(i)
  BY <1>4 DEF UpTo
<1>6. Buffers'
  BY <1>4 DEF Buffers
<1>7. Gone' = UpTo(stack'[1].index) /\ Gone = UpTo(stack[1].index)
  BY <1>2, <1>4 DEF Gone, UpTo
<1>8. /\ stack[1].index \in Nat /\ stack'[1].index \in Nat
      /\ stack'[1].index = stack[1].index \/ stack'[1].index = stack[1].index + k
  BY <1>1, <1>2 DEF Frames
<1>9. Gone' \in Base..Passed /\ Gone <= Gone'
  BY <1>3, <1>7, <1>8
<1>10. Bound = IF nested \/ Path!Top.at = "chime" \/ detectState # "IDLE" THEN Base ELSE Gone
  BY <1>1 DEF Bound
<1>11. Bound' = IF nested' \/ frame.at = "chime" \/ detectState' # "IDLE" THEN Base ELSE Gone'
  BY <1>2, <1>4 DEF Bound
<1>12. Bound \in Int /\ Bound' \in Int
  BY <1>3, <1>9, <1>10, <1>11
<1>13. QED
  BY <1>2, <1>3, <1>4, <1>5, <1>6, <1>7, <1>9, <1>10, <1>11, <1>12

LEMMA OneLoop ==
  ASSUME PathTypes, InTurn, stack # <<>>
  PROVE  Len(stack) = 1
<1> DEFINE n == Len(stack)
<1>1. n \in Nat \ {0}
  BY TopOf
<1>2. n <= 1
  BY DEF InTurn
<1> HIDE DEF n
<1>3. n = 1
  BY <1>1, <1>2
<1>4. QED
  BY <1>3 DEF n

LEMMA NoWordKept ==
  ASSUME PathInv, Path!NoWord
  PROVE  PathInv'
<1> DEFINE top   == Path!Top
           frame == Path!GoOn(top, WakeChunk)
<1>1. PathTypes /\ Buffers /\ Reports /\ (~nested => InTurn)
  BY DEF PathInv
<1>2. /\ stack # <<>> /\ top.kind = "WAKEUP" /\ top.at = "loop" /\ Path!SetTop(frame)
      /\ UNCHANGED <<process, enablePreVad, stream, detectState, isResponse, paused, captured,
                     rawData, cacheData, begun, nested, asr, given>>
  BY DEF Path!NoWord, Path!InLoop, Path!config, Path!bufferVars
<1>3. top \in Frames /\ top.index \in Nat
  BY <1>1, <1>2, TopOf DEF Frames
<1>4. /\ frame \in Frames /\ frame.at = "loop" /\ frame.index = top.index + WakeChunk
      /\ frame.kind = top.kind /\ WakeChunk \in Nat
  BY <1>3, GoneOn, SizesAssumption
<1> HIDE DEF frame
<1>5. /\ Buffers' /\ Base' = Base /\ Passed' = Passed /\ (\A i : UpTo(i)' = UpTo(i))
      /\ Gone \in Base..Passed /\ Gone' \in Base..Passed /\ Gone <= Gone'
      /\ Bound \in Int /\ Bound' \in Int
      /\ Bound = IF nested \/ top.at = "chime" \/ detectState # "IDLE" THEN Base ELSE Gone
      /\ Bound' = IF nested' \/ frame.at = "chime" \/ detectState' # "IDLE" THEN Base ELSE Gone'
      /\ stack' \in Seq(Frames) /\ stack' # <<>> /\ Len(stack') = Len(stack)
      /\ Len(stack) = 1 => /\ stack[1] = top /\ stack'[1] = frame
                           /\ Gone = UpTo(top.index) /\ Gone' = UpTo(frame.index)
  BY <1>1, <1>2, <1>3, <1>4, FrameSet
<1> HIDE DEF top
<1>6. PathTypes'
  BY <1>1, <1>2, <1>5 DEF PathTypes
<1>7. Base \in Int /\ Passed \in Int /\ Audio \in Seq(Int) /\ asr.reports \in Seq(ReportType)
  BY <1>1, PathNums DEF PathTypes, Asr
<1>8. Reports'
  <2>1. Bound <= Bound'
    BY <1>2, <1>4, <1>5, <1>7
  <2>2. ReportsIn(given[1], given[2], asr.reports, Bound')
    BY <1>1, <1>5, <1>7, <2>1, ReportsRaised DEF Reports, PathTypes
  <2>3. QED
    BY <1>2, <2>2 DEF Reports
<1>9. ASSUME ~nested
      PROVE  InTurn'
  <2>1. InTurn /\ Len(stack) = 1 /\ stack[1] = top /\ stack'[1] = frame
    BY <1>1, <1>2, <1>5, <1>9, OneLoop
  <2>2. ~InChime /\ ~InChime' /\ ~EndsWell /\ ~EndsWell'
    BY <1>2, <1>4, <2>1 DEF InChime, EndsWell
  <2>3. Audio' = Audio
    BY <1>2 DEF Audio, AudioOf
  <2>4. UpMost(Audio, Gone')
    BY <1>5, <1>7, <2>1 DEF InTurn, UpMost
  <2>5. ~(detectState = "VAD" /\ Audio # <<>> /\ Audio[Len(Audio)] > begun)
    BY <1>2, <2>1 DEF InTurn
  <2>6. QED
    BY <1>2, <1>5, <2>1, <2>2, <2>3, <2>4, <2>5 DEF InTurn, Listens
<1>10. QED
  BY <1>2, <1>5, <1>6, <1>8, <1>9 DEF PathInv

LEMMA WakeWordKept ==
  ASSUME PathInv, Path!WakeWord
  PROVE  PathInv'
<1> DEFINE top   == Path!Top
           frame == Path!GoOn(top, WakeChunk)
<1>1. PathTypes /\ Buffers /\ Reports /\ (~nested => InTurn)
  BY DEF PathInv
<1>2. /\ stack # <<>> /\ top.kind = "WAKEUP" /\ top.at = "loop" /\ Path!SetTop(frame)
      /\ detectState = "WAKEUP" /\ detectState' = "VAD" /\ begun' = Passed
      /\ UNCHANGED <<process, enablePreVad, stream, isResponse, paused, captured,
                     rawData, cacheData, nested, asr, given>>
  BY DEF Path!WakeWord, Path!InLoop, Path!config, Path!bufferVars, Passed
<1>3. top \in Frames /\ top.index \in Nat
  BY <1>1, <1>2, TopOf DEF Frames
<1>4. /\ frame \in Frames /\ frame.at = "loop" /\ frame.index = top.index + WakeChunk
      /\ frame.kind = top.kind /\ WakeChunk \in Nat
  BY <1>3, GoneOn, SizesAssumption
<1> HIDE DEF frame
<1>5. /\ Buffers' /\ Base' = Base /\ Passed' = Passed /\ (\A i : UpTo(i)' = UpTo(i))
      /\ Gone \in Base..Passed /\ Gone' \in Base..Passed /\ Gone <= Gone'
      /\ Bound \in Int /\ Bound' \in Int
      /\ Bound = IF nested \/ top.at = "chime" \/ detectState # "IDLE" THEN Base ELSE Gone
      /\ Bound' = IF nested' \/ frame.at = "chime" \/ detectState' # "IDLE" THEN Base ELSE Gone'
      /\ stack' \in Seq(Frames) /\ stack' # <<>> /\ Len(stack') = Len(stack)
      /\ Len(stack) = 1 => /\ stack[1] = top /\ stack'[1] = frame
                           /\ Gone = UpTo(top.index) /\ Gone' = UpTo(frame.index)
  BY <1>1, <1>2, <1>3, <1>4, FrameSet
<1> HIDE DEF top
<1>7. Base \in Int /\ Passed \in Int /\ Audio \in Seq(Int) /\ asr.reports \in Seq(ReportType)
  BY <1>1, PathNums DEF PathTypes, Asr
<1>6. PathTypes'
  BY <1>1, <1>2, <1>5, <1>7 DEF PathTypes
<1>8. Reports'
  BY <1>1, <1>2, <1>5 DEF Reports
<1>9. ASSUME ~nested
      PROVE  InTurn'
  <2>1. InTurn /\ Len(stack) = 1 /\ stack[1] = top /\ stack'[1] = frame
    BY <1>1, <1>2, <1>5, <1>9, OneLoop
  <2>2. ~InChime' /\ ~EndsWell'
    BY <1>4, <2>1 DEF InChime, EndsWell
  <2>3. Audio' = Audio
    BY <1>2 DEF Audio, AudioOf
  <2>4. UpMost(Audio, Gone') /\ \A i \in 1..Len(Audio) : Audio[i] \in Int /\ Audio[i] <= Passed
    BY <1>5, <1>7, <2>1 DEF InTurn, UpMost
  <2>5. RunsOn(Audio, Passed)
    BY <1>7, <2>4 DEF RunsOn
  <2>6. Audio # <<>> => ~(Audio[Len(Audio)] > Passed)
    <3>1. Audio # <<>> => Len(Audio) \in 1..Len(Audio)
      BY <1>7, EmptySeq
    <3>2. QED
      BY <1>7, <2>4, <3>1
  <2>7. Clear(given[2], asr.reports, Audio)
    BY <1>2, <2>1 DEF InTurn
  <2>8. QED
    BY <1>2, <1>5, <2>1, <2>2, <2>3, <2>4, <2>5, <2>6, <2>7 DEF InTurn
<1>10. QED
  BY <1>2, <1>5, <1>6, <1>8, <1>9 DEF PathInv

LEMMA WakeIntentKept ==
  ASSUME PathInv, Path!WakeIntent
  PROVE  PathInv'
<1> DEFINE top   == Path!Top
           frame == [top EXCEPT !.at = "chime"]
<1>1. PathTypes /\ Buffers /\ Reports /\ (~nested => InTurn)
  BY DEF PathInv
<1>2. /\ stack # <<>> /\ top.kind = "WAKEUP" /\ top.at = "loop" /\ Path!SetTop(frame)
      /\ detectState = "WAKEUP"
      /\ UNCHANGED <<process, enablePreVad, stream, detectState, isResponse, paused, captured,
                     rawData, cacheData, begun, nested, asr, given>>
  BY DEF Path!WakeIntent, Path!InLoop, Path!config, Path!bufferVars
<1>3. top \in Frames /\ top.index \in Nat
  BY <1>1, <1>2, TopOf DEF Frames
<1>4. /\ frame \in Frames /\ frame.at = "chime" /\ frame.index = top.index + 0
      /\ frame.kind = top.kind
  BY <1>3 DEF Frames
<1> HIDE DEF frame
<1>5. /\ Buffers' /\ Base' = Base /\ Passed' = Passed /\ (\A i : UpTo(i)' = UpTo(i))
      /\ Gone \in Base..Passed /\ Gone' \in Base..Passed /\ Gone <= Gone'
      /\ Bound \in Int /\ Bound' \in Int
      /\ Bound = IF nested \/ top.at = "chime" \/ detectState # "IDLE" THEN Base ELSE Gone
      /\ Bound' = IF nested' \/ frame.at = "chime" \/ detectState' # "IDLE" THEN Base ELSE Gone'
      /\ stack' \in Seq(Frames) /\ stack' # <<>> /\ Len(stack') = Len(stack)
      /\ Len(stack) = 1 => /\ stack[1] = top /\ stack'[1] = frame
                           /\ Gone = UpTo(top.index) /\ Gone' = UpTo(frame.index)
  BY <1>1, <1>2, <1>3, <1>4, FrameSet
<1> HIDE DEF top
<1>6. PathTypes'
  BY <1>1, <1>2, <1>5 DEF PathTypes
<1>7. Base \in Int /\ Passed \in Int /\ Audio \in Seq(Int)
  BY <1>1, PathNums
<1>8. Reports'
  BY <1>1, <1>2, <1>5 DEF Reports
<1>9. ASSUME ~nested
      PROVE  InTurn'
  <2>1. InTurn /\ Len(stack) = 1 /\ stack[1] = top /\ stack'[1] = frame
    BY <1>1, <1>2, <1>5, <1>9, OneLoop
  <2>2. stack'[1].kind # "VAD" /\ ~EndsWell'
    BY <1>2, <1>4, <2>1 DEF EndsWell
  <2>3. Audio' = Audio
    BY <1>2 DEF Audio, AudioOf
  <2>4. UpMost(Audio, Gone')
    BY <1>5, <1>7, <2>1 DEF InTurn, UpMost
  <2>5. QED
    BY <1>2, <1>5, <2>1, <2>2, <2>3, <2>4 DEF InTurn, Listens
<1>10. QED
  BY <1>2, <1>5, <1>6, <1>8, <1>9 DEF PathInv

LEMMA ListenKept ==
  ASSUME PathInv, Path!Listen
  PROVE  PathInv'
<1> DEFINE top   == Path!Top
           frame == Path!GoOn(top, VadChunk)
           more  == Path!ChunkAt(top, VadChunk)
<1>1. PathTypes /\ Buffers /\ Reports /\ (~nested => InTurn)
  BY DEF PathInv
<1>2. /\ stack # <<>> /\ top.kind = "VAD" /\ top.at = "loop" /\ Path!SetTop(frame)
      /\ UNCHANGED <<process, enablePreVad, stream, detectState, isResponse, paused, captured,
                     rawData, cacheData, begun, nested, given>>
  BY DEF Path!Listen, Path!InLoop, Path!config, Path!bufferVars
<1>3. PICK endpoint \in BOOLEAN : asr' = Path!ReceiveData(asr, more, endpoint)
  BY DEF Path!Listen
<1>4. top \in Frames /\ top.index \in Nat
  BY <1>1, <1>2, TopOf DEF Frames
<1>5. /\ frame \in Frames /\ frame.at = "loop" /\ frame.index = top.index + VadChunk
      /\ frame.kind = top.kind /\ VadChunk \in Nat
  BY <1>4, GoneOn, SizesAssumption
<1> HIDE DEF frame
<1>6. /\ Buffers' /\ Base' = Base /\ Passed' = Passed /\ (\A i : UpTo(i)' = UpTo(i))
      /\ Gone \in Base..Passed /\ Gone' \in Base..Passed /\ Gone <= Gone'
      /\ Bound \in Int /\ Bound' \in Int
      /\ Bound = IF nested \/ top.at = "chime" \/ detectState # "IDLE" THEN Base ELSE Gone
      /\ Bound' = IF nested' \/ frame.at = "chime" \/ detectState' # "IDLE" THEN Base ELSE Gone'
      /\ stack' \in Seq(Frames) /\ stack' # <<>> /\ Len(stack') = Len(stack)
      /\ Len(stack) = 1 => /\ stack[1] = top /\ stack'[1] = frame
                           /\ Gone = UpTo(top.index) /\ Gone' = UpTo(frame.index)
  BY <1>1, <1>2, <1>4, <1>5, FrameSet
<1>7. IsRun(more, UpTo(top.index)) /\ UpTo(top.index) + Len(more) = UpTo(frame.index)
  BY <1>1, <1>4, <1>5, ChunkFollows
<1> HIDE DEF top, more
<1>8. /\ Base \in Int /\ Passed \in Int /\ Audio \in Seq(Int) /\ asr.reports \in Seq(ReportType)
      /\ asr \in Asr /\ stream \in BOOLEAN /\ more \in Seq(Int) /\ begun \in Int
      /\ given[2] \in ReportType
  BY <1>1, <1>7, PathNums DEF PathTypes, Asr, IsRun
<1>9. asr' \in Asr /\ Audio' = Audio \o more /\ asr'.reports = asr.reports
  BY <1>2, <1>3, <1>8, Receives DEF Audio, AudioOf
<1>10. PathTypes'
  BY <1>1, <1>2, <1>6, <1>9 DEF PathTypes
<1>11. Reports'
  <2>1. Bound <= Bound'
    BY <1>2, <1>5, <1>6, <1>8
  <2>2. ReportsIn(given[1], given[2], asr.reports, Bound')
    BY <1>1, <1>6, <1>8, <2>1, ReportsRaised DEF Reports
  <2>3. QED
    BY <1>2, <1>9, <2>2 DEF Reports
<1>12. ASSUME ~nested
       PROVE  InTurn'
  <2>1. InTurn /\ Len(stack) = 1 /\ stack[1] = top /\ stack'[1] = frame
    BY <1>1, <1>2, <1>6, <1>12, OneLoop
  <2>2. ~InChime /\ ~InChime' /\ ~EndsWell /\ ~EndsWell'
    BY <1>2, <1>5, <2>1 DEF InChime, EndsWell
  <2>3. IsRun(more, Gone) /\ Gone + Len(more) = Gone'
    BY <1>6, <1>7, <2>1
  <2>4. Ascends(Audio) /\ UpMost(Audio, Gone)
    BY <2>1 DEF InTurn
  <2>5. /\ Ascends(Audio') /\ UpMost(Audio', Gone')
        /\ RunFact(Audio, begun, Gone) => RunFact(Audio', begun, Gone')
    BY <1>8, <1>9, <2>3, <2>4, RunGoesOn
  <2>6. detectState = "VAD" => RunFact(Audio', begun, Gone')
    <3>1. detectState = "VAD" => RunFact(Audio, begun, Gone)
      BY <2>1 DEF InTurn, Listens, RunFact
    <3>2. QED
      BY <2>5, <3>1
  <2>7. Clear(given[2], asr.reports, more)
    <3>1. Gone \in Int /\ Bound <= Gone
      BY <1>6, <1>8
    <3>2. QED
      BY <1>1, <1>6, <1>8, <2>3, <3>1, PastBound DEF Reports
  <2>8. stream \/ detectState # "IDLE" => Clear(given[2], asr.reports, Audio')
    <3>1. stream \/ detectState # "IDLE" => Clear(given[2], asr.reports, Audio)
      BY <2>1 DEF InTurn
    <3>2. QED
      BY <1>8, <1>9, <2>7, <3>1, ClearJoined
  <2>9. QED
    BY <1>2, <1>5, <1>6, <1>9, <2>1, <2>2, <2>5, <2>6, <2>8 DEF InTurn, Listens, RunFact
<1>13. QED
  BY <1>2, <1>6, <1>10, <1>11, <1>12 DEF PathInv

LEMMA AnswerEndsKept ==
  ASSUME PathInv, Path!AnswerEnds
  PROVE  PathInv'
<1> DEFINE top   == Path!Top
           frame == Path!GoOn(top, VadChunk)
           more  == Path!ChunkAt(top, VadChunk)
           fed   == Path!FeedLast(asr)
           report == NewReport(asr)
<1>1. PathTypes /\ Buffers /\ Reports /\ (~nested => InTurn)
  BY DEF PathInv
<1>2. /\ stack # <<>> /\ top.kind = "VAD" /\ top.at = "loop" /\ Path!SetTop(frame)
      /\ isResponse /\ isResponse' = FALSE /\ detectState' = "IDLE"
      /\ asr' = Path!ReceiveData(fed, more, FALSE)
      /\ UNCHANGED <<process, enablePreVad, stream, captured,
                     rawData, cacheData, begun, nested, given>>
  BY DEF Path!AnswerEnds, Path!InLoop, Path!config, Path!bufferVars, Path!OnResponse
<1>3. detectState = "VAD"
  BY <1>1, <1>2 DEF PathTypes
<1>4. top \in Frames /\ top.index \in Nat
  BY <1>1, <1>2, TopOf DEF Frames
<1>5. /\ frame \in Frames /\ frame.at = "loop" /\ frame.index = top.index + VadChunk
      /\ frame.kind = top.kind /\ VadChunk \in Nat
  BY <1>4, GoneOn, SizesAssumption
<1> HIDE DEF frame
<1>6. /\ Buffers' /\ Base' = Base /\ Passed' = Passed /\ (\A i : UpTo(i)' = UpTo(i))
      /\ Gone \in Base..Passed /\ Gone' \in Base..Passed /\ Gone <= Gone'
      /\ Bound \in Int /\ Bound' \in Int
      /\ Bound = IF nested \/ top.at = "chime" \/ detectState # "IDLE" THEN Base ELSE Gone
      /\ Bound' = IF nested' \/ frame.at = "chime" \/ detectState' # "IDLE" THEN Base ELSE Gone'
      /\ stack' \in Seq(Frames) /\ stack' # <<>> /\ Len(stack') = Len(stack)
      /\ Len(stack) = 1 => /\ stack[1] = top /\ stack'[1] = frame
                           /\ Gone = UpTo(top.index) /\ Gone' = UpTo(frame.index)
  BY <1>1, <1>2, <1>4, <1>5, FrameSet
<1>7. IsRun(more, UpTo(top.index)) /\ UpTo(top.index) + Len(more) = UpTo(frame.index)
  BY <1>1, <1>4, <1>5, ChunkFollows
<1> HIDE DEF top, more
<1>8. /\ Base \in Int /\ Passed \in Int /\ Audio \in Seq(Int) /\ asr.reports \in Seq(ReportType)
      /\ asr \in Asr /\ stream \in BOOLEAN /\ more \in Seq(Int) /\ begun \in Int
      /\ given[2] \in ReportType /\ nested \in BOOLEAN /\ nested' \in BOOLEAN
  BY <1>1, <1>2, <1>7, PathNums DEF PathTypes, Asr, IsRun
<1>9. /\ fed \in Asr /\ report \in ReportType /\ fed.reports = Append(asr.reports, report)
      /\ AudioOf(fed) = IF stream THEN <<>> ELSE Audio
  BY <1>8, ReportsAll DEF Audio
<1>10. report.audio = Audio /\ report.begun = begun /\ report.nested = nested
  BY <1>2 DEF NewReport, Audio
<1> HIDE DEF fed, report
<1>11. asr' \in Asr /\ Audio' = AudioOf(fed) \o more /\ asr'.reports = fed.reports
  BY <1>2, <1>8, <1>9, Receives DEF Audio, AudioOf
<1>12. PathTypes'
  BY <1>1, <1>2, <1>6, <1>11 DEF PathTypes
<1>13. Bound <= Bound' /\ (~nested => Bound' = Gone')
  BY <1>2, <1>3, <1>5, <1>6, <1>8
<1>14. ReportsIn(given[1], given[2], asr.reports, Bound')
  BY <1>1, <1>6, <1>8, <1>13, ReportsRaised DEF Reports
<1>15. ~nested => /\ Ascends(Audio) /\ RunsOn(Audio, begun) /\ UpMost(Audio, Gone)
                  /\ Clear(given[2], asr.reports, Audio)
  BY <1>1, <1>3 DEF InTurn, Listens
<1>16. ~nested => UpMost(Audio, Gone')
  BY <1>6, <1>8, <1>15 DEF UpMost
<1>17. /\ ReportsIn(given[1], given[2], asr'.reports, Bound')
       /\ \A q : Clear(given[2], asr.reports, q) /\ (~nested => AllBelow(Audio, q)) =>
                   Clear(given[2], asr'.reports, q)
  <2>1. ~report.nested => /\ Ascends(report.audio) /\ RunsOn(report.audio, report.begun)
                          /\ UpMost(report.audio, Bound')
                          /\ Clear(given[2], asr.reports, report.audio)
    BY <1>10, <1>13, <1>15, <1>16
  <2>2. Bound' \in Int /\ asr'.reports = Append(asr.reports, report)
    BY <1>6, <1>9, <1>11
  <2>3. /\ ReportsIn(given[1], given[2], Append(asr.reports, report), Bound')
        /\ \A q : Clear(given[2], asr.reports, q) /\ (~report.nested => AllBelow(report.audio, q))
                    => Clear(given[2], Append(asr.reports, report), q)
    BY <1>8, <1>9, <1>14, <2>1, <2>2, ReportsGrow
  <2>4. QED
    BY <1>10, <2>2, <2>3
<1>18. Reports'
  BY <1>2, <1>17 DEF Reports
<1>19. ASSUME ~nested
       PROVE  InTurn'
  <2>1. InTurn /\ Len(stack) = 1 /\ stack[1] = top /\ stack'[1] = frame
    BY <1>1, <1>2, <1>6, <1>19, OneLoop
  <2>2. ~InChime' /\ ~EndsWell'
    BY <1>5, <2>1 DEF InChime, EndsWell
  <2>3. IsRun(more, Gone) /\ Gone + Len(more) = Gone'
    BY <1>6, <1>7, <2>1
  <2>4. AudioOf(fed) \in Seq(Int) /\ Ascends(AudioOf(fed)) /\ UpMost(AudioOf(fed), Gone)
    BY <1>8, <1>9, <1>15, <1>19, NoAudio
  <2>5. Ascends(Audio') /\ UpMost(Audio', Gone') /\ AllBelow(Audio, more)
    BY <1>8, <1>11, <1>15, <1>19, <2>3, <2>4, RunGoesOn
  <2>6. Clear(given[2], asr.reports, more)
    <3>1. Gone \in Int /\ Bound <= Gone
      BY <1>6, <1>8
    <3>2. QED
      BY <1>1, <1>6, <1>8, <2>3, <3>1, PastBound DEF Reports
  <2>7. Clear(given[2], asr'.reports, more)
    BY <1>17, <2>5, <2>6
  <2>8. stream => Audio' = more
    BY <1>8, <1>9, <1>11, NoAudio
  <2>9. QED
    BY <1>2, <1>6, <2>1, <2>2, <2>5, <2>7, <2>8 DEF InTurn, Listens
<1>20. QED
  BY <1>2, <1>6, <1>12, <1>18, <1>19 DEF PathInv

LEMMA DialogueEndsKept ==
  ASSUME PathInv, Path!DialogueEnds
  PROVE  PathInv'
<1> DEFINE top   == Path!Top
           more  == Path!ChunkAt(top, VadChunk)
<1>1. PathTypes /\ Buffers /\ Reports /\ (~nested => InTurn)
  BY DEF PathInv
<1>2. PICK stop \in BOOLEAN :
        /\ detectState' = IF stop THEN Path!Resting ELSE "IDLE"
        /\ Path!SetTop([top EXCEPT !.at = "chime", !.stop = stop, !.data = more])
  BY DEF Path!DialogueEnds
<1> DEFINE frame == [top EXCEPT !.at = "chime", !.stop = stop, !.data = more]
<1>3. /\ stack # <<>> /\ top.kind = "VAD" /\ top.at = "loop" /\ Path!SetTop(frame)
      /\ ~isResponse /\ detectState = "VAD"
      /\ UNCHANGED <<process, enablePreVad, stream, isResponse, captured,
                     rawData, cacheData, begun, nested, asr, given>>
  BY <1>2 DEF Path!DialogueEnds, Path!InLoop, Path!config, Path!bufferVars
<1>4. /\ detectState' \in {"PREVAD", "WAKEUP", "IDLE"} /\ (~stop => detectState' = "IDLE")
  BY <1>2 DEF Path!Resting
<1>5. top \in Frames /\ top.index \in Nat /\ VadChunk \in Nat
  BY <1>1, <1>3, TopOf, SizesAssumption DEF Frames
<1>6. /\ IsRun(more, UpTo(top.index)) /\ UpTo(top.index) + Len(more) = UpTo(top.index + VadChunk)
      /\ more \in Seq(Int)
  BY <1>1, <1>5, ChunkFollows DEF IsRun
<1> HIDE DEF top, more
<1>7. /\ frame \in Frames /\ frame.at = "chime" /\ frame.index = top.index + 0
      /\ frame.kind = top.kind /\ frame.stop = stop /\ frame.data = more
  <2>1. top \in Frames /\ more \in Seq(Int) /\ top.index = top.index + 0
    BY <1>5, <1>6
  <2>2. frame \in Frames
    BY <2>1 DEF Frames
  <2>3. /\ frame.at = "chime" /\ frame.index = top.index /\ frame.kind = top.kind
        /\ frame.stop = stop /\ frame.data = more
    BY <2>1 DEF Frames
  <2>4. QED
    BY <2>1, <2>2, <2>3
<1> HIDE DEF frame
<1>8. /\ Buffers' /\ Base' = Base /\ Passed' = Passed /\ (\A i : UpTo(i)' = UpTo(i))
      /\ Gone \in Base..Passed /\ Gone' \in Base..Passed /\ Gone <= Gone'
      /\ Bound \in Int /\ Bound' \in Int
      /\ Bound = IF nested \/ top.at = "chime" \/ detectState # "IDLE" THEN Base ELSE Gone
      /\ Bound' = IF nested' \/ frame.at = "chime" \/ detectState' # "IDLE" THEN Base ELSE Gone'
      /\ stack' \in Seq(Frames) /\ stack' # <<>> /\ Len(stack') = Len(stack)
      /\ Len(stack) = 1 => /\ stack[1] = top /\ stack'[1] = frame
                           /\ Gone = UpTo(top.index) /\ Gone' = UpTo(frame.index)
  BY <1>1, <1>3, <1>5, <1>7, FrameSet DEF top
<1>9. PathTypes'
  BY <1>1, <1>3, <1>4, <1>8 DEF PathTypes
<1>10. /\ Base \in Int /\ Passed \in Int /\ Audio \in Seq(Int) /\ asr.reports \in Seq(ReportType)
       /\ given[2] \in ReportType
  BY <1>1, PathNums DEF PathTypes, Asr
<1>11. Reports'
  BY <1>1, <1>3, <1>7, <1>8 DEF Reports
<1>12. ASSUME ~nested
       PROVE  InTurn'
  <2>1. InTurn /\ Len(stack) = 1 /\ stack[1] = top /\ stack'[1] = frame
    BY <1>1, <1>3, <1>8, <1>12, OneLoop
  <2>2. (EndsWell' => ~stop) /\ Audio' = Audio
    BY <1>3, <1>7, <2>1 DEF EndsWell, Audio, AudioOf
  <2>3. IsRun(more, Gone) /\ Gone + Len(more) = UpTo(frame.index + VadChunk)
    BY <1>5, <1>6, <1>7, <1>8, <2>1
  <2>4. Ascends(Audio) /\ UpMost(Audio, Gone) /\ RunsOn(Audio, begun)
        /\ Clear(given[2], asr.reports, Audio)
    BY <1>3, <2>1 DEF InTurn, Listens
  <2>5. Ascends(more) /\ AllBelow(Audio, more) /\ UpMost(more, UpTo(frame.index + VadChunk))
    BY <1>10, <2>3, <2>4, RunGoesOn
  <2>6. Clear(given[2], asr.reports, more)
    <3>1. Gone \in Int /\ Bound <= Gone
      BY <1>8, <1>10
    <3>2. QED
      BY <1>1, <1>8, <1>10, <2>3, <3>1, PastBound DEF Reports
  <2>7. Follows(stack[1].data, UpTo(stack[1].index + VadChunk))'
    BY <1>3, <1>7, <1>8, <2>1, <2>2, <2>5, <2>6 DEF Follows
  <2>8. UpMost(Audio, Gone')
    BY <1>7, <1>8, <1>10, <2>1, <2>4 DEF UpMost
  <2>9. QED
    BY <1>3, <1>4, <1>8, <2>1, <2>2, <2>4, <2>7, <2>8 DEF InTurn, Listens
<1>13. QED
  BY <1>8, <1>9, <1>11, <1>12, <1>3 DEF PathInv

LEMMA ChimeOverKept ==
  ASSUME PathInv, Path!ChimeOver
  PROVE  PathInv'
<1> DEFINE top   == Path!Top
           size  == IF top.kind = "VAD" THEN VadChunk ELSE WakeChunk
           frame == Path!GoOn(top, size)
           said  == Path!Dialog(asr, top.stop)
           report == NewReport(asr)
<1>1. PathTypes /\ Buffers /\ Reports /\ (~nested => InTurn)
  BY DEF PathInv
<1>2. /\ stack # <<>> /\ top.at = "chime" /\ Path!SetTop(frame)
      /\ top.kind = "VAD" => asr' = Path!ReceiveData(said, top.data, FALSE)
      /\ top.kind # "VAD" => asr' = asr
      /\ UNCHANGED <<process, enablePreVad, stream, detectState, isResponse, paused, captured,
                     rawData, cacheData, begun, nested, given>>
  BY DEF Path!ChimeOver, Path!config, Path!bufferVars
<1>3. top \in Frames /\ top.index \in Nat /\ top.data \in Seq(Int) /\ top.stop \in BOOLEAN
  BY <1>1, <1>2, TopOf DEF Frames
<1>4. size \in Nat
  BY SizesAssumption
<1> HIDE DEF size
<1>5. /\ frame \in Frames /\ frame.at = "loop" /\ frame.index = top.index + size
      /\ frame.kind = top.kind
  BY <1>3, <1>4, GoneOn
<1> HIDE DEF frame
<1>6. /\ Buffers' /\ Base' = Base /\ Passed' = Passed /\ (\A i : UpTo(i)' = UpTo(i))
      /\ Gone \in Base..Passed /\ Gone' \in Base..Passed /\ Gone <= Gone'
      /\ Bound \in Int /\ Bound' \in Int
      /\ Bound = IF nested \/ top.at = "chime" \/ detectState # "IDLE" THEN Base ELSE Gone
      /\ Bound' = IF nested' \/ frame.at = "chime" \/ detectState' # "IDLE" THEN Base ELSE Gone'
      /\ stack' \in Seq(Frames) /\ stack' # <<>> /\ Len(stack') = Len(stack)
      /\ Len(stack) = 1 => /\ stack[1] = top /\ stack'[1] = frame
                           /\ Gone = UpTo(top.index) /\ Gone' = UpTo(frame.index)
  BY <1>1, <1>2, <1>3, <1>4, <1>5, FrameSet
<1> HIDE DEF top
<1>7. /\ Base \in Int /\ Passed \in Int /\ Audio \in Seq(Int) /\ asr.reports \in Seq(ReportType)
      /\ asr \in Asr /\ stream \in BOOLEAN /\ begun \in Int /\ asr.heard \in Seq(Int)
      /\ asr.result \in Seq(Int)
      /\ given[2] \in ReportType /\ nested \in BOOLEAN /\ nested' \in BOOLEAN
  BY <1>1, <1>2, PathNums DEF PathTypes, Asr
<1>8. Bound <= Bound'
  BY <1>2, <1>6, <1>7
<1>9. ReportsIn(given[1], given[2], asr.reports, Bound')
  BY <1>1, <1>6, <1>7, <1>8, ReportsRaised DEF Reports
<1>10. ~nested => /\ Len(stack) = 1 /\ stack[1] = top /\ stack'[1] = frame /\ InTurn
                  /\ InChime /\ detectState # "VAD" /\ ~InChime' /\ ~EndsWell'
                  /\ Ascends(Audio) /\ UpMost(Audio, Gone)
  BY <1>1, <1>2, <1>5, <1>6, OneLoop DEF InTurn, InChime, EndsWell
<1>11. CASE top.kind # "VAD"
  <2>1. PathTypes'
    BY <1>1, <1>2, <1>6, <1>11 DEF PathTypes
  <2>2. Reports'
    BY <1>2, <1>9, <1>11 DEF Reports
  <2>3. ASSUME ~nested
        PROVE  InTurn'
    <3>1. Audio' = Audio /\ ~EndsWell
      BY <1>2, <1>10, <1>11, <2>3 DEF Audio, AudioOf, EndsWell
    <3>2. UpMost(Audio, Gone')
      <4>1. Gone \in Int /\ Gone' \in Int /\ Gone <= Gone'
        BY <1>6, <1>7
      <4>2. QED
        BY <1>7, <1>10, <2>3, <4>1, UpMostRaised
    <3>3. stream \/ detectState # "IDLE" => Clear(given[2], asr.reports, Audio)
      BY <1>10, <2>3 DEF InTurn
    <3>4. QED
      BY <1>2, <1>6, <1>10, <1>11, <2>3, <3>1, <3>2, <3>3 DEF InTurn, Listens
  <2>4. QED
    BY <1>2, <1>6, <2>1, <2>2, <2>3 DEF PathInv
<1>12. CASE top.kind = "VAD"
  <2>1. ~nested => /\ Ascends(top.data) /\ AllBelow(Audio, top.data) /\ UpMost(top.data, Gone')
                   /\ Clear(given[2], asr.reports, top.data)
                   /\ ~top.stop => /\ EndsWell /\ detectState = "IDLE" /\ RunsOn(Audio, begun)
                                   /\ Clear(given[2], asr.reports, Audio)
    <3>1. size = VadChunk
      BY <1>12 DEF size
    <3>2. QED
      BY <1>5, <1>6, <1>10, <1>12, <3>1 DEF InTurn, Follows, EndsWell, Listens
  <2>2. CASE top.stop
    <3>1. said \in Asr /\ said.reports = asr.reports
      BY <1>7, <2>2, DialogCleared
    <3>2. AudioOf(said) = IF stream THEN asr.heard ELSE <<>>
      BY <1>7, <2>2, DialogCleared
    <3> HIDE DEF said
    <3>8. asr' = Path!ReceiveData(said, top.data, FALSE) /\ Audio' = AudioOf(asr')
      BY <1>2, <1>12 DEF Audio, AudioOf
    <3>3. asr' \in Asr /\ Audio' = AudioOf(said) \o top.data /\ asr'.reports = asr.reports
      BY <1>3, <1>7, <3>1, <3>8, Receives
    <3>4. PathTypes'
      BY <1>1, <1>2, <1>6, <3>3 DEF PathTypes
    <3>5. Reports'
      BY <1>2, <1>9, <3>3 DEF Reports
    <3>6. ASSUME ~nested
          PROVE  InTurn'
      <4> DEFINE rest == AudioOf(said)
      <4>1. rest \in Seq(Int)
        BY <1>7, <3>2, NoAudio
      <4>2. stream => Audio = asr.result \o asr.heard
        BY DEF Audio, AudioOf
      <4>3. Ascends(rest) /\ UpMost(rest, Gone) /\ AllBelow(rest, top.data)
        <5>1. CASE stream
          <6>1. /\ Ascends(asr.result \o asr.heard) /\ UpMost(asr.result \o asr.heard, Gone)
                /\ AllBelow(asr.result \o asr.heard, top.data)
            BY <1>10, <2>1, <3>6, <4>2, <5>1
          <6>2. Ascends(asr.heard) /\ UpMost(asr.heard, Gone) /\ AllBelow(asr.heard, top.data)
            BY <1>7, <6>1, JoinBounds
          <6>3. QED
            BY <3>2, <5>1, <6>2
        <5>2. CASE ~stream
          BY <3>2, <5>2, NoAudio DEF AllBelow
        <5>3. QED
          BY <5>1, <5>2
      <4>4. UpMost(rest, Gone')
        BY <1>6, <1>7, <4>1, <4>3 DEF UpMost
      <4>5. stream \/ detectState # "IDLE" => Clear(given[2], asr.reports, rest)
        <5>1. CASE stream
          <6>1. Clear(given[2], asr.reports, Audio)
            BY <1>10, <3>6, <5>1 DEF InTurn
          <6>2. Clear(given[2], asr.reports, asr.result \o asr.heard)
            BY <4>2, <5>1, <6>1
          <6>3. Clear(given[2], asr.reports, asr.heard)
            BY <1>7, <6>2, ClearJoined
          <6>4. QED
            BY <3>2, <5>1, <6>3
        <5>2. CASE ~stream
          BY <1>7, <3>2, <5>2, ClearJoined
        <5>3. QED
          BY <5>1, <5>2
      <4> HIDE DEF rest
      <4>6. Audio' = rest \o top.data
        BY <3>3 DEF rest
      <4>7. Ascends(Audio') /\ UpMost(Audio', Gone')
        BY <1>3, <2>1, <3>6, <4>1, <4>3, <4>4, <4>6, JoinAscends, JoinBounds
      <4>8. stream \/ detectState # "IDLE" => Clear(given[2], asr.reports, Audio')
        BY <1>3, <2>1, <3>6, <4>1, <4>5, <4>6, ClearJoined
      <4>9. QED
        BY <1>2, <1>6, <1>10, <3>3, <3>6, <4>7, <4>8 DEF InTurn, Listens
    <3>7. QED
      BY <1>2, <1>6, <3>4, <3>5, <3>6 DEF PathInv
  <2>3. CASE ~top.stop
    <3>1. /\ said \in Asr /\ AudioOf(said) = <<>>
          /\ said.reports = Append(asr.reports, report)
      BY <1>3, <1>7, <2>3, DialogReported
    <3>2. report \in ReportType
      BY <1>7, ReportsAll
    <3>3. report.audio = Audio /\ report.begun = begun /\ report.nested = nested
      BY <1>2 DEF NewReport, Audio
    <3> HIDE DEF said, report
    <3>11. asr' = Path!ReceiveData(said, top.data, FALSE) /\ Audio' = AudioOf(asr')
      BY <1>2, <1>12 DEF Audio, AudioOf
    <3>12. asr' \in Asr /\ Audio' = AudioOf(said) \o top.data /\ asr'.reports = said.reports
      BY <1>3, <1>7, <3>1, <3>11, Receives
    <3>4. asr' \in Asr /\ Audio' = top.data /\ asr'.reports = said.reports
      BY <1>3, <3>1, <3>12, ConcatEmptySeq
    <3>5. PathTypes'
      BY <1>1, <1>2, <1>6, <3>4 DEF PathTypes
    <3>6. ~nested => Bound' = Gone' /\ UpMost(Audio, Gone')
      BY <1>2, <1>5, <1>6, <1>7, <1>10, <2>1, <2>3 DEF UpMost
    <3>7. /\ ReportsIn(given[1], given[2], asr'.reports, Bound')
          /\ \A q : Clear(given[2], asr.reports, q) /\ (~nested => AllBelow(Audio, q)) =>
                      Clear(given[2], asr'.reports, q)
      <4>1. ~report.nested => /\ Ascends(report.audio) /\ RunsOn(report.audio, report.begun)
                              /\ UpMost(report.audio, Bound')
                              /\ Clear(given[2], asr.reports, report.audio)
        BY <1>10, <2>1, <2>3, <3>3, <3>6
      <4>2. Bound' \in Int /\ asr'.reports = Append(asr.reports, report)
        BY <1>6, <3>1, <3>4
      <4>3. /\ ReportsIn(given[1], given[2], Append(asr.reports, report), Bound')
            /\ \A q : /\ Clear(given[2], asr.reports, q)
                      /\ ~report.nested => AllBelow(report.audio, q)
                      => Clear(given[2], Append(asr.reports, report), q)
        BY <1>7, <1>9, <3>2, <4>1, <4>2, ReportsGrow
      <4>4. QED
        BY <3>3, <4>2, <4>3
    <3>8. Reports'
      BY <1>2, <3>7 DEF Reports
    <3>9. ASSUME ~nested
          PROVE  InTurn'
      <4>1. Clear(given[2], asr'.reports, top.data)
        BY <2>1, <3>7, <3>9
      <4>2. QED
        BY <1>2, <1>6, <1>10, <2>1, <3>4, <3>9, <4>1 DEF InTurn, Listens
    <3>10. QED
      BY <1>2, <1>6, <3>5, <3>8, <3>9 DEF PathInv
  <2>4. QED
    BY <1>3, <2>2, <2>3
<1>13. QED
  BY <1>11, <1>12

LEMMA LoopEndsKept ==
  ASSUME PathInv, Path!LoopEnds
  PROVE  PathInv'
<1> DEFINE top == Path!Top
<1>1. PathTypes /\ Buffers /\ Reports /\ (~nested => InTurn)
  BY DEF PathInv
<1>2. /\ stack # <<>> /\ top.at = "loop" /\ stack' = SubSeq(stack, 1, Len(stack) - 1)
      /\ cacheData' = SubSeq(cacheData, top.index + 1, Len(cacheData))
      /\ UNCHANGED <<process, enablePreVad, stream, detectState, isResponse, paused, captured,
                     rawData, begun, nested, asr, given>>
  BY DEF Path!LoopEnds, Path!Removed, Path!config
<1>3. /\ top = stack[Len(stack)] /\ top \in Frames /\ top.index \in Nat
      /\ stack \in Seq(Frames) /\ Len(stack) \in Nat \ {0}
  BY <1>1, <1>2, TopOf DEF Frames
<1>4. /\ Base \in Int /\ Passed \in Int /\ Len(cacheData) \in Nat
      /\ Passed = Base + Len(cacheData)
      /\ Gone \in Base..Passed /\ Bound \in Base..Passed /\ Bound <= Gone
      /\ Audio \in Seq(Int) /\ asr.reports \in Seq(ReportType) /\ given[2] \in ReportType
  BY <1>1, PathNums DEF PathTypes, Asr
<1>5. /\ stack' \in Seq(Frames) /\ Len(stack') = Len(stack) - 1
      /\ \A i \in 1..(Len(stack) - 1) : stack'[i] = stack[i]
  BY <1>2, <1>3, LastLeaves
<1>6. /\ IsRun(cacheData', Base + (top.index + 1) - 1)
      /\ Len(cacheData') = IF top.index + 1 <= Len(cacheData)
                           THEN Len(cacheData) - (top.index + 1) + 1 ELSE 0
  <2> DEFINE m == top.index + 1
             n == Len(cacheData)
  <2>1. m \in Nat \ {0} /\ n \in Nat /\ n <= Len(cacheData)
    BY <1>3, <1>4
  <2>2. cacheData' = SubSeq(cacheData, m, n) /\ IsRun(cacheData, Base)
    BY <1>1, <1>2 DEF Buffers
  <2> HIDE DEF m, n
  <2>3. IsRun(cacheData', Base + m - 1) /\ Len(cacheData') = IF m <= n THEN n - m + 1 ELSE 0
    BY <2>1, <2>2, RunCut
  <2>4. QED
    BY <2>3 DEF m, n
<1> HIDE DEF top
<1>7. Passed' = Passed
  BY <1>2 DEF Passed
<1>8. Base' = Passed - Len(cacheData')
  BY <1>7 DEF Base
<1>18. /\ (IF Base + top.index <= Passed THEN Base + top.index ELSE Passed)
            = Passed - Len(cacheData')
       /\ Len(cacheData') \in 0..Len(cacheData)
       /\ Base + (top.index + 1) - 1 = Base + top.index
       /\ top.index <= Len(cacheData) => Passed - Len(cacheData') = Base + top.index
       /\ ~(top.index <= Len(cacheData)) => Len(cacheData') = 0
  <2> DEFINE at == top.index
             n  == Len(cacheData)
             l  == Len(cacheData')
  <2>1. at \in Nat /\ n \in Nat /\ Base \in Int /\ Passed \in Int /\ Passed = Base + n
    BY <1>3, <1>4
  <2>2. l = IF at + 1 <= n THEN n - (at + 1) + 1 ELSE 0
    BY <1>6
  <2> HIDE DEF at, n, l
  <2>3. /\ (IF Base + at <= Passed THEN Base + at ELSE Passed) = Passed - l /\ l \in 0..n
        /\ Base + (at + 1) - 1 = Base + at
        /\ at <= n => Passed - l = Base + at
        /\ ~(at <= n) => l = 0
    BY <2>1, <2>2, Shortened
  <2>4. QED
    BY <2>3 DEF at, n, l
<1>9. Base' = UpTo(top.index) /\ Base <= Base' /\ Base' <= Passed /\ Base' \in Int
  <2>1. Base' = UpTo(top.index)
    BY <1>8, <1>18 DEF UpTo
  <2>2. QED
    BY <1>4, <1>8, <1>18, <2>1
<1>10. IsRun(cacheData', Base')
  <2>1. CASE top.index <= Len(cacheData)
    BY <1>6, <1>8, <1>18, <2>1
  <2>2. CASE ~(top.index <= Len(cacheData))
    <3>1. Len(cacheData') = 0
      BY <1>18, <2>2
    <3>2. QED
      BY <1>6, <1>9, <3>1 DEF IsRun
  <2>3. QED
    BY <2>1, <2>2
<1>11. Buffers'
  BY <1>1, <1>2, <1>7, <1>10 DEF Buffers
<1>12. PathTypes'
  BY <1>1, <1>2, <1>5 DEF PathTypes
<1>13. ~nested => /\ InTurn /\ Len(stack) = 1 /\ stack[1] = top /\ stack' = <<>>
                  /\ Gone = Base' /\ Gone' = Base' /\ ~EndsWell /\ ~EndsWell' /\ ~InChime'
  <2>1. ASSUME ~nested
        PROVE  Len(stack) = 1 /\ InTurn
    BY <1>1, <1>2, <2>1, OneLoop
  <2>2. ASSUME ~nested
        PROVE  stack[1] = top /\ stack' = <<>>
    BY <1>3, <1>5, <2>1, <2>2, EmptySeq
  <2>3. ASSUME ~nested
        PROVE  Gone = Base' /\ Gone' = Base' /\ ~EndsWell /\ ~EndsWell' /\ ~InChime'
    BY <1>2, <1>9, <2>2, <2>3 DEF Gone, EndsWell, InChime
  <2>4. QED
    BY <2>1, <2>2, <2>3
<1>14. Bound <= Bound' /\ Bound' \in Int
  <2>1. CASE nested
    BY <1>2, <1>4, <1>9, <2>1 DEF Bound
  <2>2. CASE ~nested
    BY <1>2, <1>4, <1>9, <1>13, <2>2 DEF Bound
  <2>3. QED
    BY <2>1, <2>2
<1>15. Reports'
  <2>1. ReportsIn(given[1], given[2], asr.reports, Bound')
    BY <1>1, <1>4, <1>14, ReportsRaised DEF Reports
  <2>2. QED
    BY <1>2, <2>1 DEF Reports
<1>16. ASSUME ~nested
       PROVE  InTurn'
  <2>1. Audio' = Audio
    BY <1>2 DEF Audio, AudioOf
  <2>2. Len(stack') = 0
    BY <1>13, <1>16
  <2>3. QED
    BY <1>2, <1>13, <1>16, <2>1, <2>2 DEF InTurn, Listens
<1>17. QED
  BY <1>2, <1>11, <1>12, <1>15, <1>16 DEF PathInv

LEMMA RecognizedKept ==
  ASSUME PathInv, Path!Recognized
  PROVE  PathInv'
<1> DEFINE first == Head(asr.reports)
           rest  == Tail(asr.reports)
<1>1. PathTypes /\ Buffers /\ Reports /\ (~nested => InTurn)
  BY DEF PathInv
<1>2. /\ stack = <<>> \/ Path!Top.at = "chime"
      /\ asr.reports # <<>> /\ given' = <<given[2], first>>
      /\ asr' = [asr EXCEPT !.reports = rest, !.cache = <<>>]
      /\ nested' = (stack # <<>> \/ (nested /\ asr.heard \o asr.result # <<>>))
      /\ \/ detectState' = Path!Resting /\ isResponse' = FALSE /\ UNCHANGED begun
         \/ detectState' = "VAD" /\ isResponse' = TRUE /\ begun' = Passed
      /\ UNCHANGED <<process, enablePreVad, stream, captured, rawData, cacheData, stack>>
  BY DEF Path!Recognized, Path!Dispatching, Path!Kept, Path!config, Path!bufferVars, Passed
<1>3. /\ Base \in Int /\ Passed \in Int
      /\ Gone \in Base..Passed /\ Bound \in Base..Passed /\ Bound <= Gone
      /\ Audio \in Seq(Int) /\ asr.reports \in Seq(ReportType) /\ given[2] \in ReportType
      /\ asr \in Asr /\ asr.heard \in Seq(Int) /\ asr.result \in Seq(Int)
  BY <1>1, PathNums DEF PathTypes, Asr
<1>4. /\ ReportsIn(given[2], first, rest, Bound)
      /\ \A q : Clear(given[2], asr.reports, q) => Clear(first, rest, q)
      /\ first \in ReportType /\ rest \in Seq(ReportType)
  BY <1>1, <1>2, <1>3, ReportsPassed DEF Reports
<1> HIDE DEF first, rest
<1>5. /\ asr' \in Asr /\ asr'.reports = rest /\ asr'.cache = <<>>
      /\ asr'.heard = asr.heard /\ asr'.result = asr.result
  <2>1. asr' = [asr EXCEPT !.reports = rest, !.cache = <<>>]
    BY <1>2
  <2>2. asr \in Asr /\ rest \in Seq(ReportType) /\ <<>> \in Seq(Int)
    BY <1>3, <1>4
  <2>3. QED
    BY <2>1, <2>2 DEF Asr
<1>6. given'[1] = given[2] /\ given'[2] = first
  BY <1>2
<1>7. /\ detectState' \in {"PREVAD", "WAKEUP", "VAD"} /\ begun' \in Int
      /\ isResponse' => detectState' = "VAD"
      /\ isResponse' \in BOOLEAN
      /\ detectState' = "VAD" => begun' = Passed
  BY <1>1, <1>2, <1>3 DEF Path!Resting, PathTypes
<1>8. Base' = Base /\ Passed' = Passed /\ Gone' = Gone /\ Buffers'
  BY <1>1, <1>2 DEF Base, Passed, Gone, UpTo, Buffers
<1>9. PathTypes'
  BY <1>1, <1>2, <1>3, <1>4, <1>5, <1>6, <1>7 DEF PathTypes
<1>10. Bound' = Bound
  <2>1. Bound = Base
    <3>1. stack = <<>> \/ stack[Len(stack)].at = "chime"
      BY <1>1, <1>2, TopOf
    <3>2. QED
      BY <3>1 DEF Bound
  <2>2. Bound' = Base'
    BY <1>7 DEF Bound
  <2>3. QED
    BY <1>8, <2>1, <2>2
<1>11. Reports'
  BY <1>4, <1>5, <1>6, <1>10 DEF Reports
<1>12. ASSUME ~nested'
       PROVE  InTurn'
  <2>1. stack = <<>> /\ stack' = <<>> /\ Len(stack') = 0 /\ ~EndsWell' /\ ~InChime'
    BY <1>2, <1>12 DEF EndsWell, InChime
  <2>2. CASE Audio' = <<>>
    <3>1. Clear(given'[2], asr'.reports, <<>>)
      BY ClearJoined, NoAudio
    <3>2. QED
      BY <1>7, <2>1, <2>2, <3>1, NoAudio DEF InTurn, Listens
  <2>3. CASE Audio' # <<>>
    <3>1. stream /\ Audio' = Audio
      BY <1>2, <1>5, <2>3 DEF Audio, AudioOf
    <3>2. ~nested
      <4>1. CASE nested
        <5>1. asr.heard \o asr.result = <<>>
          BY <1>2, <1>12, <4>1
        <5>2. Len(asr.heard) = 0 /\ Len(asr.result) = 0
          BY <1>3, <5>1, Joined
        <5>3. asr.heard = <<>> /\ asr.result = <<>>
          BY <1>3, <5>2, EmptySeq
        <5>4. Audio = <<>>
          BY <3>1, <5>3, NoAudio DEF Audio, AudioOf
        <5>5. QED
          BY <2>3, <3>1, <5>4
      <4>2. QED
        BY <1>1, <4>1 DEF PathTypes
    <3>3. Ascends(Audio) /\ UpMost(Audio, Gone) /\ Clear(given[2], asr.reports, Audio)
      BY <1>1, <3>1, <3>2 DEF InTurn
    <3>4. \A i \in 1..Len(Audio) : Audio[i] \in Int /\ Audio[i] <= Passed
      BY <1>3, <3>3 DEF UpMost
    <3>5. RunsOn(Audio, Passed)
      <4>1. ASSUME NEW i \in 1..(Len(Audio) - 1)
            PROVE  ~(Audio[i] > Passed)
        <5>1. Len(Audio) \in Nat /\ Passed \in Int
          BY <1>3
        <5>2. i \in 1..Len(Audio)
          BY <5>1
        <5>3. Audio[i] \in Int /\ Audio[i] <= Passed
          BY <3>4, <5>2
        <5>4. QED
          BY <5>1, <5>3
      <4>2. QED
        BY <4>1 DEF RunsOn
    <3>6. ~(Audio[Len(Audio)] > Passed)
      <4>1. Len(Audio) \in 1..Len(Audio)
        BY <1>3, <2>3, <3>1, EmptySeq
      <4>2. QED
        BY <1>3, <3>4, <4>1
    <3>7. Clear(given'[2], asr'.reports, Audio)
      BY <1>4, <1>5, <1>6, <3>3
    <3>8. detectState' # "IDLE" /\ (detectState' = "VAD" => begun' = Passed)
      BY <1>7
    <3>9. Listens' => RunsOn(Audio', begun')
      BY <2>1, <3>1, <3>5, <3>8 DEF Listens
    <3>10. Ascends(Audio') /\ UpMost(Audio', Gone') /\ Clear(given'[2], asr'.reports, Audio')
      BY <1>8, <3>1, <3>3, <3>7
    <3>11. detectState' = "VAD" => ~(Audio'[Len(Audio')] > begun')
      BY <3>1, <3>6, <3>8
    <3>12. QED
      BY <2>1, <3>9, <3>10, <3>11 DEF InTurn
  <2>4. QED
    BY <2>2, <2>3
<1>13. QED
  BY <1>8, <1>9, <1>11, <1>12 DEF PathInv

(* Whole chunks of a number of samples.                                    *)
LEMMA WholeChunks ==
  ASSUME NEW a \in Nat, NEW b \in Nat \ {0}
  PROVE  /\ a \div b \in Nat /\ (a \div b) * b \in 0..a
         /\ \A s \in 0..(a \div b) : s * b \in 0..a
<1> DEFINE q == a \div b
<1>1. q \in Int /\ a = b * q + (a % b) /\ a % b \in 0..(b - 1)
  OBVIOUS
<1> HIDE DEF q
<1>2. q >= 0
  <2>1. ASSUME q < 0
        PROVE  FALSE
    <3>1. b * q <= b * (-1)
      BY <1>1, <2>1
    <3>2. b * (-1) = -b
      OBVIOUS
    <3>3. QED
      BY <1>1, <3>1, <3>2
  <2>2. QED
    BY <1>1, <2>1
<1>3. q * b = b * q /\ q * b \in Int
  BY <1>1
<1>4. q * b <= a
  BY <1>1, <1>3
<1>5. ASSUME NEW s \in 0..q
      PROVE  s * b \in 0..a
  <2>1. s * b <= q * b /\ s * b \in Nat
    BY <1>1, <1>2
  <2>2. QED
    BY <1>3, <1>4, <2>1
<1>6. 0 * b = 0
  OBVIOUS
<1>7. QED
  BY <1>1, <1>2, <1>3, <1>4, <1>5 DEF q

(* What has arrived: pieces of the right length at the end of the buffer,  *)
(* and the rest of the samples kept back.                                  *)
LEMMA Arrives ==
  ASSUME PathTypes, Buffers, Path!Arrive
  PROVE  \E ready \in Seq(Int) :
    /\ IsRun(ready, Base) /\ Len(ready) = Passed' - Base /\ Passed' \in Int /\ Passed <= Passed'
    /\ captured' \in Int /\ IsRun(rawData', Passed') /\ (process \/ rawData' = <<>>)
    /\ \/ /\ detectState = "PREVAD"
          /\ \E silent \in 0..(Len(ready) \div VadChunk) :
               /\ cacheData' = SubSeq(ready, silent * VadChunk + 1, Len(ready))
               /\ detectState' = IF silent < Len(ready) \div VadChunk THEN "WAKEUP" ELSE "PREVAD"
          /\ UNCHANGED <<stack, nested>>
       \/ /\ detectState \in {"WAKEUP", "VAD"}
          /\ cacheData' = ready
          /\ stack' = Append(stack, [kind |-> detectState, at |-> "loop", index |-> 0,
                                     remain |-> Len(ready), stop |-> FALSE, data |-> <<>>])
          /\ nested' = (nested \/ stack # <<>>)
          /\ UNCHANGED detectState
<1> DEFINE data  == [i \in 1..Packet |-> captured + i]
           input == rawData \o data
           n     == (Len(input) \div ProcessChunk) * ProcessChunk
           ready == IF ~process THEN cacheData \o data
                    ELSE cacheData \o SubSeq(input, 1, n)
<1>1. /\ captured' = captured + Packet
      /\ rawData' = IF ~process THEN rawData ELSE SubSeq(input, n + 1, Len(input))
      /\ \/ /\ detectState = "PREVAD"
            /\ \E silent \in 0..(Len(ready) \div VadChunk) :
                 /\ cacheData' = SubSeq(ready, silent * VadChunk + 1, Len(ready))
                 /\ detectState' = IF silent < Len(ready) \div VadChunk THEN "WAKEUP"
                                   ELSE "PREVAD"
            /\ UNCHANGED <<stack, nested>>
         \/ /\ detectState \in {"WAKEUP", "VAD"}
            /\ cacheData' = ready
            /\ stack' = Append(stack, [kind |-> detectState, at |-> "loop", index |-> 0,
                                       remain |-> Len(ready), stop |-> FALSE, data |-> <<>>])
            /\ nested' = (nested \/ stack # <<>>)
            /\ UNCHANGED detectState
  BY DEF Path!Arrive
<1>2. /\ Passed \in Int /\ Base \in Int /\ Len(cacheData) \in Nat /\ Len(rawData) \in Nat
      /\ Passed = Base + Len(cacheData) /\ captured = Passed + Len(rawData)
      /\ IsRun(rawData, Passed) /\ IsRun(cacheData, Base) /\ captured \in Int
      /\ Packet \in Nat /\ ProcessChunk \in Nat \ {0}
      /\ process \in BOOLEAN /\ (process \/ rawData = <<>>)
  BY PathNums, SizesAssumption DEF Buffers, PathTypes
<1>3. IsRun(data, captured) /\ Len(data) = Packet
  BY <1>2 DEF IsRun
<1> HIDE DEF data
<1>4. IsRun(input, Passed) /\ Len(input) = Len(rawData) + Packet
  BY <1>2, <1>3, RunAppended
<1> HIDE DEF input
<1>5. n \in 0..Len(input)
  BY <1>2, <1>4, WholeChunks
<1> HIDE DEF n
<1>6. CASE ~process
  <2>1. /\ ready = cacheData \o data /\ Len(rawData) = 0 /\ captured = Base + Len(cacheData)
        /\ rawData' = <<>>
    BY <1>1, <1>2, <1>6
  <2>2. IsRun(ready, Base) /\ Len(ready) = Len(cacheData) + Packet
    BY <1>2, <1>3, <2>1, RunAppended
  <2>3. Passed' = captured + Packet
    <3>1. captured' = captured + Packet
      BY <1>1
    <3>2. Len(rawData') = 0
      BY <2>1, EmptySeq
    <3>3. Passed' = captured' - Len(rawData')
      BY DEF Passed
    <3>4. captured + Packet \in Int
      BY <1>2
    <3>5. QED
      BY <3>1, <3>2, <3>3, <3>4
  <2>4. IsRun(rawData', Passed')
    BY <1>2, <2>1, <2>3 DEF IsRun
  <2> HIDE DEF ready
  <2>5. Len(ready) = Passed' - Base /\ Passed' \in Int /\ Passed <= Passed'
    BY <1>2, <2>1, <2>2, <2>3
  <2>6. captured' \in Int /\ (process \/ rawData' = <<>>)
    BY <1>1, <1>2, <2>1
  <2>7. ready \in Seq(Int)
    BY <2>2 DEF IsRun
  <2>8. QED
    BY <1>1, <2>2, <2>4, <2>5, <2>6, <2>7
<1>7. CASE process
  <2> DEFINE whole == SubSeq(input, 1, n)
  <2>1. /\ ready = cacheData \o whole /\ rawData' = SubSeq(input, n + 1, Len(input))
    BY <1>1, <1>7
  <2>2. /\ IsRun(whole, Passed + 1 - 1) /\ Len(whole) = IF 1 <= n THEN n - 1 + 1 ELSE 0
    BY <1>2, <1>4, <1>5, RunCut
  <2>3. /\ IsRun(rawData', Passed + (n + 1) - 1)
        /\ Len(rawData') = IF n + 1 <= Len(input) THEN Len(input) - (n + 1) + 1 ELSE 0
    BY <1>2, <1>4, <1>5, <2>1, RunCut
  <2> HIDE DEF whole
  <2>4. Len(whole) = n /\ Len(rawData') = Len(input) - n /\ n \in Nat
        /\ Passed + 1 - 1 = Base + Len(cacheData) /\ Passed + (n + 1) - 1 = Passed + n
    BY <1>2, <1>4, <1>5, <2>2, <2>3
  <2>5. IsRun(ready, Base) /\ Len(ready) = Len(cacheData) + n
    BY <1>2, <2>1, <2>2, <2>4, RunAppended
  <2> HIDE DEF ready
  <2>6. Passed' = captured + Packet - Len(rawData')
    <3>1. captured' = captured + Packet
      BY <1>1
    <3>2. Passed' = captured' - Len(rawData')
      BY DEF Passed
    <3>3. captured \in Int /\ Packet \in Int /\ Len(rawData') \in Int
      BY <1>2, <1>4, <1>5, <2>4
    <3>4. QED
      BY <3>1, <3>2, <3>3
  <2>7. Passed' = Passed + n
    BY <1>2, <1>4, <2>4, <2>6
  <2>8. Len(ready) = Passed' - Base /\ Passed' \in Int /\ Passed <= Passed' /\ captured' \in Int
    BY <1>1, <1>2, <2>4, <2>5, <2>7
  <2>9. IsRun(rawData', Passed')
    BY <2>3, <2>4, <2>7
  <2>10. ready \in Seq(Int)
    BY <2>5 DEF IsRun
  <2>11. QED
    BY <1>1, <1>7, <2>5, <2>8, <2>9, <2>10
<1>8. QED
  BY <1>2, <1>6, <1>7

LEMMA ArriveKept ==
  ASSUME PathInv, Path!Arrive
  PROVE  PathInv'
<1>1. PathTypes /\ Buffers /\ Reports /\ (~nested => InTurn)
  BY DEF PathInv
<1>2. /\ stack = <<>> \/ Path!Top.at = "chime"
      /\ UNCHANGED <<process, enablePreVad, stream, isResponse, paused, begun, asr, given>>
  BY DEF Path!Arrive, Path!Dispatching, Path!config
<1>3. /\ Base \in Int /\ Passed \in Int /\ Passed = Base + Len(cacheData)
      /\ Gone \in Base..Passed /\ Len(cacheData) \in Nat
      /\ Audio \in Seq(Int) /\ asr.reports \in Seq(ReportType) /\ given[2] \in ReportType
      /\ stack \in Seq(Frames) /\ VadChunk \in Nat \ {0}
  BY <1>1, PathNums, SizesAssumption DEF PathTypes, Asr
<1>4. Bound = Base
  <2>1. stack = <<>> \/ stack[Len(stack)].at = "chime"
    BY <1>1, <1>2, TopOf
  <2>2. QED
    BY <2>1 DEF Bound
<1>5. Audio' = Audio
  BY <1>2 DEF Audio, AudioOf
<1>6. PICK ready \in Seq(Int) :
    /\ IsRun(ready, Base) /\ Len(ready) = Passed' - Base /\ Passed' \in Int /\ Passed <= Passed'
    /\ captured' \in Int /\ IsRun(rawData', Passed') /\ (process \/ rawData' = <<>>)
    /\ \/ /\ detectState = "PREVAD"
          /\ \E silent \in 0..(Len(ready) \div VadChunk) :
               /\ cacheData' = SubSeq(ready, silent * VadChunk + 1, Len(ready))
               /\ detectState' = IF silent < Len(ready) \div VadChunk THEN "WAKEUP" ELSE "PREVAD"
          /\ UNCHANGED <<stack, nested>>
       \/ /\ detectState \in {"WAKEUP", "VAD"}
          /\ cacheData' = ready
          /\ stack' = Append(stack, [kind |-> detectState, at |-> "loop", index |-> 0,
                                     remain |-> Len(ready), stop |-> FALSE, data |-> <<>>])
          /\ nested' = (nested \/ stack # <<>>)
          /\ UNCHANGED detectState
  BY <1>1, Arrives
<1>7. ReportsIn(given[1], given[2], asr.reports, Base)
  BY <1>1, <1>4 DEF Reports
<1>8. CASE detectState = "PREVAD"
  <2>1. PICK silent \in Nat :
          /\ silent \in 0..(Len(ready) \div VadChunk)
          /\ cacheData' = SubSeq(ready, silent * VadChunk + 1, Len(ready))
          /\ detectState' \in {"WAKEUP", "PREVAD"}
          /\ UNCHANGED <<stack, nested>>
    <3>1. PICK s \in 0..(Len(ready) \div VadChunk) :
            /\ cacheData' = SubSeq(ready, s * VadChunk + 1, Len(ready))
            /\ detectState' \in {"WAKEUP", "PREVAD"}
            /\ UNCHANGED <<stack, nested>>
      BY <1>6, <1>8
    <3>2. s \in Nat
      BY <3>1
    <3>3. QED
      BY <3>1, <3>2
  <2>2. Len(ready) \in Nat
    OBVIOUS
  <2> DEFINE cut == silent * VadChunk
  <2>3. cut \in 0..Len(ready)
    BY <1>3, <2>1, <2>2, WholeChunks
  <2>4. cacheData' = SubSeq(ready, cut + 1, Len(ready))
    BY <2>1
  <2> HIDE DEF cut
  <2>5. /\ IsRun(cacheData', Base + (cut + 1) - 1)
        /\ Len(cacheData') = IF cut + 1 <= Len(ready)
                             THEN Len(ready) - (cut + 1) + 1 ELSE 0
    BY <1>6, <2>2, <2>3, <2>4, RunCut
  <2>6. Base' = Passed' - Len(cacheData')
    BY DEF Base
  <2>7. Base' = Base + cut /\ Base + (cut + 1) - 1 = Base + cut
    <3> DEFINE n == Len(ready)
               l == Len(cacheData')
               p == Passed'
    <3>1. p \in Int /\ n = p - Base
      BY <1>6
    <3>2. n \in Nat /\ cut \in Nat /\ cut <= n /\ Base \in Int
      BY <1>3, <2>2, <2>3
    <3>3. l = IF cut + 1 <= n THEN n - (cut + 1) + 1 ELSE 0
      BY <2>5
    <3>4. Base' = p - l
      BY <2>6
    <3> HIDE DEF n, l, p
    <3>5. p = Base + n
      BY <3>1, <3>2
    <3>6. Base + (cut + 1) - 1 = Base + cut /\ p - l = Base + cut
      BY <3>1, <3>2, <3>3, <3>5, Shortened
    <3>7. QED
      BY <3>4, <3>6
  <2>8. Buffers'
    BY <1>2, <1>6, <2>5, <2>7 DEF Buffers
  <2>9. PathTypes'
    BY <1>1, <1>2, <1>6, <1>8, <2>1 DEF PathTypes
  <2>10. Base <= Base' /\ Base' \in Int /\ Base' <= Passed'
    <3> DEFINE n == Len(ready)
               p == Passed'
               b == Base'
    <3>1. n \in Nat /\ Base \in Int /\ cut \in 0..n
      BY <1>3, <2>2, <2>3
    <3>2. n = p - Base /\ p \in Int /\ b = Base + cut
      BY <1>6, <2>7
    <3> HIDE DEF n, p, b
    <3>3. Base <= b /\ b \in Int /\ b <= p
      BY <3>1, <3>2
    <3>4. QED
      BY <3>3 DEF b, p
  <2>17. Base \in Int /\ Base' \in Int /\ Base <= Base' /\ Passed \in Int /\ Passed' \in Int
         /\ Passed <= Passed'
    BY <1>3, <1>6, <2>10
  <2>11. \A i \in Nat : UpTo(i) <= UpTo(i)' /\ UpTo(i) \in Int /\ UpTo(i)' \in Int
    <3>1. ASSUME NEW i \in Nat
          PROVE  UpTo(i) <= UpTo(i)' /\ UpTo(i) \in Int /\ UpTo(i)' \in Int
      <4>1. UpTo(i) = IF Base + i <= Passed THEN Base + i ELSE Passed
        BY DEF UpTo
      <4>2. UpTo(i)' = IF Base' + i <= Passed' THEN Base' + i ELSE Passed'
        BY DEF UpTo
      <4> DEFINE u == UpTo(i)
                 v == UpTo(i)'
                 c == Base'
                 q == Passed'
      <4>3. /\ u = (IF Base + i <= Passed THEN Base + i ELSE Passed)
            /\ v = (IF c + i <= q THEN c + i ELSE q)
            /\ Base \in Int /\ c \in Int /\ Base <= c /\ Passed \in Int /\ q \in Int /\ Passed <= q
        BY <2>17, <4>1, <4>2
      <4> HIDE DEF u, v, c, q
      <4>4. u <= v /\ u \in Int /\ v \in Int
        BY <4>3
      <4>5. QED
        BY <4>4 DEF u, v
    <3>2. QED
      BY <3>1
  <2>12. Gone <= Gone' /\ Gone' \in Int
    <3>1. CASE stack = <<>>
      BY <2>1, <2>10, <3>1 DEF Gone
    <3>2. CASE stack # <<>>
      <4>1. stack[1].index \in Nat
        BY <1>1, <3>2, TopOf DEF Frames
      <4>2. Gone = UpTo(stack[1].index) /\ Gone' = UpTo(stack[1].index)'
        BY <2>1, <3>2 DEF Gone
      <4>3. UpTo(stack[1].index)' = IF Base' + stack[1].index <= Passed'
                                    THEN Base' + stack[1].index ELSE Passed'
        BY <2>1 DEF UpTo
      <4>4. UpTo(stack[1].index) = IF Base + stack[1].index <= Passed
                                   THEN Base + stack[1].index ELSE Passed
        BY DEF UpTo
      <4>5. QED
        BY <2>17, <4>1, <4>2, <4>3, <4>4, UpToGrows
    <3>3. QED
      BY <3>1, <3>2
  <2>13. Bound' = Base'
    BY <1>1, <1>2, <2>1, TopOf DEF Bound
  <2>14. Reports'
    <3>1. ReportsIn(given[1], given[2], asr.reports, Base')
      BY <1>3, <1>7, <2>10, ReportsRaised
    <3>2. QED
      BY <1>2, <2>13, <3>1 DEF Reports
  <2>15. ASSUME ~nested
         PROVE  InTurn'
    <3>1. InTurn
      BY <1>1, <2>15
    <3>2. UpMost(Audio, Gone')
      <4>1. UpMost(Audio, Gone) /\ Gone \in Int /\ Audio \in Seq(Int)
        BY <1>3, <3>1 DEF InTurn
      <4>2. QED
        BY <2>12, <4>1, UpMostRaised
    <3>3. ~EndsWell /\ ~EndsWell'
      BY <1>8, <2>1, <3>1 DEF InTurn, EndsWell, InChime
    <3>4. ASSUME InChime', stack'[1].kind = "VAD"
          PROVE  Follows(stack[1].data, UpTo(stack[1].index + VadChunk))'
      <4>1. /\ InChime /\ stack[1].kind = "VAD" /\ stack[1] \in Frames
        BY <1>1, <2>1, <3>4, TopOf DEF InChime
      <4> DEFINE more == stack[1].data
                 size == stack[1].index + VadChunk
      <4>2. more \in Seq(Int) /\ size \in Nat
        <5>1. stack[1] \in Frames /\ VadChunk \in Nat
          BY <1>3, <4>1
        <5>2. stack[1].data \in Seq(Int) /\ stack[1].index \in Nat
          BY <5>1 DEF Frames
        <5>3. QED
          BY <5>1, <5>2
      <4>3. Follows(more, UpTo(size))
        BY <3>1, <4>1 DEF InTurn
      <4>4. stack'[1].data = more /\ stack'[1].index + VadChunk = size
        BY <2>1
      <4> HIDE DEF more, size
      <4>7. size' = size /\ more' = more
        BY <4>4 DEF size, more
      <4>5. UpMost(more, UpTo(size)')
        <5>1. UpMost(more, UpTo(size))
          BY <4>3 DEF Follows
        <5>2. UpTo(size) <= UpTo(size)' /\ UpTo(size) \in Int /\ UpTo(size)' \in Int
          BY <2>11, <4>2, <4>7
        <5>3. QED
          BY <4>2, <5>1, <5>2, UpMostRaised
      <4>6. UpTo(size)' = IF Base' + size' <= Passed' THEN Base' + size' ELSE Passed'
        BY DEF UpTo
      <4>8. Follows(more, UpTo(size))'
        BY <1>2, <1>5, <4>3, <4>5, <4>7 DEF Follows, UpTo
      <4>9. QED
        BY <4>8 DEF more, size
    <3>5. detectState # "IDLE" /\ detectState' # "VAD"
      BY <1>8, <2>1
    <3>6. Clear(given[2], asr.reports, Audio)
      BY <3>1, <3>5 DEF InTurn
    <3>7. QED
      BY <1>2, <1>5, <2>1, <3>1, <3>2, <3>3, <3>4, <3>5, <3>6 DEF InTurn, Listens
  <2>16. QED
    BY <2>1, <2>8, <2>9, <2>14, <2>15 DEF PathInv
<1>9. CASE detectState \in {"WAKEUP", "VAD"}
  <2> DEFINE frame == [kind |-> detectState, at |-> "loop", index |-> 0,
                       remain |-> Len(ready), stop |-> FALSE, data |-> <<>>]
  <2>1. /\ cacheData' = ready /\ stack' = Append(stack, frame)
        /\ nested' = (nested \/ stack # <<>>) /\ detectState' = detectState
    BY <1>6, <1>9
  <2>2. frame \in Frames /\ frame.at = "loop" /\ frame.kind = detectState /\ frame.index = 0
    <3>1. Len(ready) \in Int
      BY <1>6 DEF IsRun
    <3>2. QED
      BY <1>9, <3>1, NoAudio DEF Frames
  <2> HIDE DEF frame
  <2>3. /\ stack' \in Seq(Frames) /\ Len(stack') = Len(stack) + 1 /\ Len(stack) \in Nat
        /\ stack'[Len(stack) + 1] = frame
    BY <1>3, <2>1, <2>2, AppendProperties
  <2>4. Base' = Base
    <3>1. Base' = Passed' - Len(ready)
      BY <2>1 DEF Base
    <3> DEFINE n == Len(ready)
               b == Base'
               p == Passed'
    <3>2. n = p - Base /\ p \in Int /\ Base \in Int /\ b = p - n
      BY <1>3, <1>6, <3>1
    <3> HIDE DEF n, b, p
    <3>3. b = Base
      BY <3>2
    <3>4. QED
      BY <3>3 DEF b
  <2>5. Buffers'
    BY <1>2, <1>6, <2>1, <2>4 DEF Buffers
  <2>6. PathTypes'
    BY <1>1, <1>2, <1>6, <1>9, <2>1, <2>3 DEF PathTypes
  <2>7. Bound' = Base
    BY <1>9, <2>1, <2>4 DEF Bound
  <2>8. Reports'
    BY <1>2, <1>7, <2>7 DEF Reports
  <2>9. ASSUME ~nested'
        PROVE  InTurn'
    <3>1. ~nested /\ stack = <<>> /\ InTurn
      BY <1>1, <2>1, <2>9
    <3>2. Len(stack') = 1 /\ stack'[1] = frame /\ stack' # <<>>
      <4>1. Len(stack) = 0
        BY <3>1, EmptySeq
      <4>2. Len(stack') = 1 /\ stack'[1] = frame
        BY <2>3, <4>1
      <4>3. stack' # <<>>
        BY <4>2, SeqFacts, <2>3
      <4>4. QED
        BY <4>2, <4>3
    <3>3. ~InChime' /\ ~EndsWell' /\ ~EndsWell
      BY <2>2, <3>1, <3>2 DEF InChime, EndsWell
    <3>4. Gone' = Base /\ Gone = Base
      <4>1. Gone' = UpTo(stack[1].index)'
        BY <3>2 DEF Gone
      <4>2. UpTo(stack[1].index)' = IF Base + 0 <= Passed' THEN Base + 0 ELSE Passed'
        BY <2>2, <2>4, <3>2 DEF UpTo
      <4>3. QED
        BY <1>3, <1>6, <3>1, <4>1, <4>2 DEF Gone
    <3>5. QED
      BY <1>2, <1>5, <2>1, <2>2, <3>1, <3>2, <3>3, <3>4 DEF InTurn, Listens
  <2>10. QED
    BY <2>5, <2>6, <2>8, <2>9 DEF PathInv
<1>10. QED
  BY <1>6, <1>8, <1>9

LEMMA PathAtFirst ==
  ASSUME Path!Init
  PROVE  PathInv
<1>1. /\ process \in BOOLEAN /\ enablePreVad \in BOOLEAN /\ stream \in BOOLEAN
      /\ detectState = Path!Resting /\ isResponse = FALSE /\ nested = FALSE
      /\ captured = 0 /\ rawData = <<>> /\ cacheData = <<>> /\ stack = <<>> /\ begun = 0
      /\ asr = [cache |-> <<>>, heard |-> <<>>, result |-> <<>>, reports |-> <<>>]
      /\ given[1] = Path!NoReport /\ given[2] = Path!NoReport
  BY DEF Path!Init
<1>2. <<>> \in Seq(Int) /\ <<>> \in Seq(ReportType) /\ <<>> \in Seq(Frames) /\ Len(<<>>) = 0
  BY EmptySeq
<1>3. Passed = 0 /\ Base = 0
  <2>1. Len(rawData) = 0 /\ Len(cacheData) = 0 /\ captured = 0
    BY <1>1, <1>2
  <2>2. Passed = 0
    BY <2>1 DEF Passed
  <2>3. QED
    BY <2>1, <2>2 DEF Base
<1>4. IsRun(<<>>, 0)
  BY <1>2 DEF IsRun
<1>5. Buffers
  BY <1>1, <1>3, <1>4 DEF Buffers
<1>6. /\ Path!NoReport \in ReportType /\ Path!NoReport.audio = <<>>
  BY <1>2 DEF Path!NoReport, ReportType
<1>7. asr \in Asr /\ asr.reports = <<>>
  BY <1>1, <1>2 DEF Asr
<1>8. PathTypes
  <2>1. detectState \in {"PREVAD", "WAKEUP", "VAD", "IDLE"}
    BY <1>1 DEF Path!Resting
  <2>2. stack \in Seq(Frames) /\ given[1] \in ReportType /\ given[2] \in ReportType
    BY <1>1, <1>2, <1>6
  <2>3. captured \in Int /\ begun \in Int
    BY <1>1
  <2>4. /\ nested \in BOOLEAN /\ isResponse \in BOOLEAN
        /\ isResponse => detectState = "VAD"
    BY <1>1
  <2>5. QED
    BY <1>1, <1>7, <2>1, <2>2, <2>3, <2>4 DEF PathTypes
<1>9. Audio = <<>>
  BY <1>1, <1>2, ConcatEmptySeq DEF Audio, AudioOf
<1>10. PastOf(Path!NoReport, <<>>) = {Path!NoReport}
  BY <1>2 DEF PastOf
<1>11. InOne(Path!NoReport) /\ Before(Path!NoReport, Path!NoReport)
  BY <1>2, <1>6, NoAudio DEF InOne, Before, AllBelow
<1>12. Reports
  <2>1. \A n : UpMost(Path!NoReport.audio, n)
    BY <1>6, NoAudio
  <2>2. ReportsIn(Path!NoReport, Path!NoReport, <<>>, Bound)
    BY <1>2, <1>10, <1>11, <2>1 DEF ReportsIn
  <2>3. QED
    BY <1>1, <1>7, <2>2 DEF Reports
<1>13. InTurn
  <2>1. Len(stack) = 0 /\ ~InChime /\ ~EndsWell
    BY <1>1, <1>2 DEF InChime, EndsWell
  <2>2. Clear(given[2], asr.reports, Audio)
    BY <1>9, NoAudio, ClearJoined
  <2>3. QED
    BY <1>9, <2>1, <2>2, NoAudio DEF InTurn
<1>14. QED
  BY <1>5, <1>8, <1>12, <1>13 DEF PathInv

LEMMA PathStays ==
  ASSUME PathInv, UNCHANGED pathVars
  PROVE  PathInv'
<1>1. UNCHANGED <<process, enablePreVad, stream, detectState, isResponse, paused, captured,
                  rawData, cacheData, stack, begun, nested, asr, given>>
  BY DEF pathVars
<1>2. Passed' = Passed /\ Base' = Base
  BY <1>1 DEF Passed, Base
<1>3. Gone' = Gone /\ \A i : UpTo(i)' = UpTo(i)
  BY <1>1, <1>2 DEF Gone, UpTo
<1>4. Bound' = Bound /\ Audio' = Audio
  BY <1>1, <1>2, <1>3 DEF Bound, Audio, AudioOf
<1>5. InChime' = InChime /\ EndsWell' = EndsWell /\ Listens' = Listens
  BY <1>1 DEF InChime, EndsWell, Listens
<1>6. PathTypes' /\ Buffers' /\ Reports'
  BY <1>1, <1>2, <1>4 DEF PathInv, PathTypes, Buffers, Reports
<1>7. ASSUME InTurn
      PROVE  InTurn'
  <2>1. Follows(stack[1].data, UpTo(stack[1].index + VadChunk))'
          = Follows(stack[1].data, UpTo(stack[1].index + VadChunk))
    BY <1>1, <1>2, <1>4 DEF Follows, UpTo
  <2>2. QED
    BY <1>1, <1>3, <1>4, <1>5, <1>7, <2>1 DEF InTurn
<1>8. QED
  BY <1>1, <1>6, <1>7 DEF PathInv

LEMMA PathKept ==
  ASSUME PathInv, Path!Next \/ UNCHANGED pathVars
  PROVE  PathInv'
BY PathStays, ArriveKept, NoWordKept, WakeWordKept, WakeIntentKept, ListenKept, AnswerEndsKept,
   DialogueEndsKept, ChimeOverKept, LoopEndsKept, RecognizedKept DEF Path!Next

LEMMA ReportedWhole ==
  ASSUME PathInv
  PROVE  Path!UtteranceWhole
<1> DEFINE p == given[1].audio
           q == given[2].audio
<1>1. given[1] \in ReportType /\ given[2] \in ReportType
  BY DEF PathInv, PathTypes
<1>2. /\ p \in Seq(Int) /\ q \in Seq(Int)
      /\ InOne(given[2]) /\ Before(given[1], given[2])
  BY <1>1 DEF PathInv, Reports, ReportsIn, PastOf, ReportType
<1>3. ASSUME ~given[2].nested
      PROVE  Path!Ascending(q) /\ Path!GoesOn(given[2])
  <2>1. Ascends(q) /\ RunsOn(q, given[2].begun) /\ Len(q) \in Nat
    BY <1>2, <1>3 DEF InOne
  <2>2. \A i \in 1..(Len(q) - 1) : i \in 1..Len(q) /\ i + 1 \in 1..Len(q) /\ i < i + 1
    BY <2>1
  <2>3. Path!Ascending(q)
    BY <2>1, <2>2 DEF Ascends, Path!Ascending
  <2>4. QED
    BY <2>1, <2>3 DEF RunsOn, Path!GoesOn
<1>4. ASSUME ~given[2].nested, ~given[1].nested
      PROVE  \A i \in DOMAIN p, j \in DOMAIN q : p[i] # q[j]
  <2>1. AllBelow(p, q)
    BY <1>2, <1>4 DEF Before
  <2> HIDE DEF p, q
  <2>2. ASSUME NEW i \in DOMAIN p, NEW j \in DOMAIN q
        PROVE  p[i] # q[j]
    <3>1. i \in 1..Len(p) /\ j \in 1..Len(q) /\ p[i] \in Int /\ q[j] \in Int
      BY <1>2
    <3>2. p[i] < q[j]
      BY <2>1, <3>1 DEF AllBelow
    <3>3. QED
      BY <3>1, <3>2
  <2>3. QED
    BY <2>2
<1>5. QED
  BY <1>3, <1>4 DEF Path!UtteranceWhole

(* From the device to the recogniser no audio is lost, repeated or mixed   *)
(* with another listening period's: in the play buffer's ring              *)
(* (audiobuffer.h:12-24), with one callback on the device (recorder.h:45), *)
(* and through the chunk loops of Wakeup (wakeup.cpp:184-208).             *)
THEOREM AudioStaysWhole == AudioSpec => []AudioWhole
<1>1. AudioInit => RingInv /\ MicInv /\ PathInv
  BY RingAtFirst, MicAtFirst, PathAtFirst DEF AudioInit
<1>2. RingInv /\ MicInv /\ PathInv /\ [AudioNext]_audioVars => RingInv' /\ MicInv' /\ PathInv'
  BY RunSteps, RingKept, MicKept, PathKept
<1>3. RingInv /\ MicInv /\ PathInv => AudioWhole
  BY RingReadsQueue, ReportedWhole DEF AudioWhole, MicInv
<1>4. QED
  BY <1>1, <1>2, <1>3, PTL DEF AudioSpec

-----------------------------------------------------------------------------
(* Numbers: a set of them has a least, and induction follows.              *)
LEMMA Least ==
  ASSUME NEW T, T \subseteq Nat, T # {}
  PROVE  \E x \in T : \A y \in T : x <= y
<1> DEFINE F == {0..n : n \in T}
<1>1. F \subseteq FiniteSubsetsOf(Nat) /\ F # {}
  <2>1. \A n \in Nat : 0..n \in FiniteSubsetsOf(Nat)
    BY FS_Interval DEF FiniteSubsetsOf
  <2>2. QED
    BY <2>1
<1>2. IsWellFoundedOn(StrictSubsetOrdering(Nat), FiniteSubsetsOf(Nat))
  BY FS_StrictSubsetOrderingWellFounded
<1> HIDE DEF F
<1>3. PICK s \in F : \A t \in F : ~(<<t, s>> \in StrictSubsetOrdering(Nat))
  BY <1>1, <1>2, WFMin
<1>4. PICK x \in T : s = 0..x
  BY DEF F
<1>5. ASSUME NEW y \in T, y < x
      PROVE  FALSE
  <2>1. 0..y \in F
    BY DEF F
  <2>2. 0..y \subseteq 0..x /\ 0..y # 0..x /\ 0..y \subseteq Nat /\ 0..x \subseteq Nat
    BY <1>5
  <2>3. <<0..y, 0..x>> \in StrictSubsetOrdering(Nat)
    BY <2>2 DEF StrictSubsetOrdering
  <2>4. QED
    BY <1>3, <1>4, <2>1, <2>3
<1>6. QED
  BY <1>5

LEMMA Inductive ==
  ASSUME NEW S, 0 \in S, \A n \in Nat : n \in S => n + 1 \in S
  PROVE  Nat \subseteq S
<1> SUFFICES ASSUME Nat \ S # {} PROVE FALSE
  OBVIOUS
<1>1. PICK x \in Nat \ S : \A y \in Nat \ S : x <= y
  BY Least
<1>2. x # 0 /\ x - 1 \in Nat /\ x - 1 \in S
  BY <1>1
<1>3. QED
  BY <1>1, <1>2

-----------------------------------------------------------------------------
(* The file cache.                                                         *)

(* What files are made of; that a name in quotes is a string the provers   *)
(* have to be told.                                                        *)
Ids   == STRING \cup {"RIFF", "fmt", "data"}
Cells == [id : Ids, length : Nat, rate : Nat]

(* Names ascend, and no three are the same: the files on disk are all      *)
(* named, and but for another of the oldest's name all named are on disk.  *)
CacheInv ==
  /\ now \in Nat /\ files \in Seq(Nat) /\ Len(files) <= Limit
  /\ \A i, j \in 1..Len(files) : i <= j => files[i] <= files[j]
  /\ \A i \in 1..Len(files) : files[i] <= now
  /\ \A i \in 1..(Len(files) - 2) : files[i] # files[i + 2]
  /\ Len(files) >= 2 /\ files[Len(files)] = now => files[Len(files) - 1] # now
  /\ \A name \in DOMAIN disk : \E i \in 1..Len(files) : files[i] = name
  /\ \A i \in 1..Len(files) : files[i] # files[1] \/ i = Len(files) => files[i] \in DOMAIN disk

(* The cache begins, and begins again, with nothing.                       *)
LEMMA EmptyCache ==
  ASSUME now \in Nat, files = <<>>, DOMAIN disk = {}
  PROVE  CacheInv
<1>1. files \in Seq(Nat) /\ Len(files) = 0
  BY EmptySeq
<1>2. QED
  BY <1>1, FilesAssumption DEF CacheInv

(* At most Limit names: at most Limit files.                               *)
LEMMA FewFiles == CacheInv => Cardinality(DOMAIN disk) <= Limit
<1> SUFFICES ASSUME CacheInv PROVE Cardinality(DOMAIN disk) <= Limit
  OBVIOUS
<1>1. files \in Seq(Nat) /\ Len(files) \in Nat /\ Len(files) <= Limit /\ Limit \in Nat
  BY SeqFacts, FilesAssumption DEF CacheInv
<1> DEFINE Names == {files[i] : i \in 1..Len(files)}
<1>2. IsFiniteSet(1..Len(files)) /\ Cardinality(1..Len(files)) = Len(files)
  <2>1. /\ IsFiniteSet(1..Len(files))
        /\ Cardinality(1..Len(files)) = IF 1 > Len(files) THEN 0 ELSE Len(files) - 1 + 1
    <3>1. 1 \in Int /\ Len(files) \in Int
      BY <1>1
    <3>2. QED
      BY <3>1, FS_Interval, Zenon
  <2>2. QED
    BY <1>1, <2>1
<1>3. IsFiniteSet(Names) /\ Cardinality(Names) <= Len(files)
  <2> DEFINE g == [i \in 1..Len(files) |-> files[i]]
  <2>1. g \in Surjection(1..Len(files), Names)
    BY DEF Surjection
  <2> HIDE DEF g, Names
  <2>2. QED
    BY <1>2, <2>1, FS_Surjection
<1>4. DOMAIN disk \subseteq Names
  BY DEF CacheInv
<1> HIDE DEF Names
<1>5. IsFiniteSet(DOMAIN disk) /\ Cardinality(DOMAIN disk) <= Cardinality(Names)
  BY <1>3, <1>4, FS_Subset
<1>6. Cardinality(DOMAIN disk) \in Nat /\ Cardinality(Names) \in Nat
  BY <1>3, <1>5, FS_CardinalityType
<1>7. QED
  BY <1>1, <1>3, <1>5, <1>6

LEMMA CacheKeepsLatest == CacheInv => Waves!LatestKept
<1> SUFFICES ASSUME CacheInv PROVE Waves!LatestKept
  OBVIOUS
<1>1. Waves!Cardinality(DOMAIN disk) <= Limit
  BY FewFiles DEF Waves!Cardinality, Cardinality
<1>2. files \in Seq(Nat) /\ Len(files) \in Nat /\ (files # <<>> <=> Len(files) # 0)
  BY SeqFacts DEF CacheInv
<1>3. ASSUME NEW i \in 1..Len(files), \A j \in 1..(i - 1) : files[j] # files[i], i > 1
      PROVE  files[i] \in DOMAIN disk
  <2>1. 1 \in 1..(i - 1)
    BY <1>2, <1>3
  <2>2. files[i] # files[1]
    BY <1>3, <2>1
  <2>3. QED
    BY <2>2 DEF CacheInv
<1>4. ASSUME files # <<>>
      PROVE  Waves!Last(files) \in DOMAIN disk
  <2>1. Len(files) \in 1..Len(files)
    BY <1>2, <1>4
  <2>2. QED
    BY <2>1 DEF CacheInv, Waves!Last
<1>5. QED
  BY <1>1, <1>3, <1>4 DEF Waves!LatestKept

(* A file more, and the oldest one less if there are too many.             *)
LEMMA WriteKeepsCache ==
  ASSUME CacheInv, NEW sound, NEW rate, Waves!WriteWav(sound, rate)
  PROVE  CacheInv'
<1> DEFINE names == Append(files, now)
           n     == Len(files)
           there == (DOMAIN disk \cup {now}) \ IF Len(names) > Limit THEN {names[1]} ELSE {}
<1>1. /\ now \in Nat /\ files \in Seq(Nat) /\ n \in Nat /\ n <= Limit
      /\ Limit \in Nat /\ Limit >= 2
  BY SeqFacts, FilesAssumption DEF CacheInv
<1>2. /\ names \in Seq(Nat) /\ Len(names) = n + 1 /\ names[n + 1] = now
      /\ \A i \in 1..n : names[i] = files[i]
  BY <1>1, AppendProperties
<1>3. DOMAIN disk' = there /\ now' \in {now, now + 1}
      /\ (n # 0 /\ files[n] = now => now' = now + 1)
  <2>1. Waves!Oldest(names) = names[1]
    BY <1>2 DEF Waves!Oldest
  <2>2. files # <<>> <=> n # 0
    BY <1>1, SeqFacts
  <2>3. QED
    BY <2>1, <2>2 DEF Waves!WriteWav, Waves!Last
<1>4. files' = IF n + 1 > Limit THEN Tail(names) ELSE names
  BY <1>2 DEF Waves!WriteWav, Waves!Without
<1>5. /\ \A i, j \in 1..(n + 1) : i <= j => names[i] <= names[j]
      /\ \A i \in 1..(n + 1) : names[i] \in Nat /\ names[i] <= now
  BY <1>1, <1>2 DEF CacheInv
<1>6. \A i \in 1..(n - 1) : names[i] # names[i + 2]
  <2> SUFFICES ASSUME NEW i \in 1..(n - 1) PROVE names[i] # names[i + 2]
    OBVIOUS
  <2>1. CASE i = n - 1
    <3>1. names[i] = files[n - 1] /\ names[i + 2] = now /\ n >= 2
      BY <1>1, <1>2, <2>1
    <3>2. files[n - 1] <= files[n] /\ files[n] <= now /\ files[n - 1] \in Nat /\ files[n] \in Nat
      <4>1. n - 1 \in 1..n /\ n \in 1..n /\ n - 1 <= n
        BY <1>1, <3>1
      <4>2. /\ \A j, k \in 1..n : j <= k => files[j] <= files[k]
            /\ \A j \in 1..n : files[j] <= now
        BY DEF CacheInv
      <4>3. files[n - 1] \in Nat /\ files[n] \in Nat
        BY <1>1, <4>1, SeqFacts
      <4>4. QED
        BY <4>1, <4>2, <4>3
    <3>3. files[n - 1] # now
      BY <1>1, <3>1, <3>2 DEF CacheInv
    <3>4. QED
      BY <3>1, <3>3
  <2>2. CASE i # n - 1
    <3>1. i \in 1..(n - 2) /\ i \in 1..n /\ i + 2 \in 1..n
      BY <1>1, <2>2
    <3>2. files[i] # files[i + 2]
      BY <3>1 DEF CacheInv
    <3>3. QED
      BY <1>2, <3>1, <3>2
  <2>3. QED
    BY <2>1, <2>2
<1>7. n >= 1 /\ now' = now => names[n] # now'
  BY <1>1, <1>2, <1>3
<1>8. \A name \in DOMAIN disk \cup {now} : \E i \in 1..(n + 1) : names[i] = name
  <2>1. ASSUME NEW name \in DOMAIN disk
        PROVE  \E i \in 1..(n + 1) : names[i] = name
    <3>1. PICK i \in 1..n : files[i] = name
      BY DEF CacheInv
    <3>2. i \in 1..(n + 1) /\ names[i] = name
      BY <1>1, <1>2, <3>1
    <3>3. QED
      BY <3>2
  <2>2. n + 1 \in 1..(n + 1)
    BY <1>1
  <2>3. QED
    BY <1>2, <2>1, <2>2
<1>9. \A i \in 1..(n + 1) : names[i] # names[1] \/ i = n + 1
                              => names[i] \in DOMAIN disk \cup {now}
  <2> SUFFICES ASSUME NEW i \in 1..(n + 1), names[i] # names[1], i # n + 1
               PROVE  names[i] \in DOMAIN disk
    BY <1>2
  <2>1. i \in 1..n /\ 1 \in 1..n
    BY <1>1
  <2>2. names[i] = files[i] /\ names[1] = files[1]
    BY <1>2, <2>1
  <2>3. QED
    BY <2>1, <2>2 DEF CacheInv
<1> HIDE DEF names
<1>10. CASE ~(n + 1 > Limit)
  <2>1. files' = names /\ DOMAIN disk' = DOMAIN disk \cup {now} /\ Len(files') = n + 1
    BY <1>2, <1>3, <1>4, <1>10
  <2> DEFINE m == Len(files')
  <2>2. /\ now' \in Nat /\ now <= now' /\ (now' = now + 1 => now < now')
        /\ m = n + 1 /\ m - 2 = n - 1 /\ m - 1 = n /\ m <= Limit
    BY <1>1, <1>3, <1>10, <2>1
  <2>3. \A i \in 1..m : files'[i] <= now'
    <3> SUFFICES ASSUME NEW i \in 1..m PROVE files'[i] <= now'
      OBVIOUS
    <3>1. files'[i] \in Nat /\ files'[i] <= now
      BY <1>5, <2>1, <2>2
    <3>2. now \in Nat /\ now' \in Nat /\ now <= now'
      BY <1>1, <2>2
    <3>3. QED
      BY <3>1, <3>2
  <2>4. m >= 2 /\ files'[m] = now' => files'[m - 1] # now'
    BY <1>1, <1>2, <1>7, <2>1, <2>2
  <2>5. \A i \in 1..m : files'[i] # files'[1] \/ i = m => files'[i] \in DOMAIN disk'
    BY <1>9, <2>1, <2>2
  <2>6. \A name \in DOMAIN disk' : \E i \in 1..m : files'[i] = name
    BY <1>8, <2>1, <2>2
  <2>7. \A i, j \in 1..m : i <= j => files'[i] <= files'[j]
    BY <1>5, <2>1, <2>2
  <2>8. \A i \in 1..(m - 2) : files'[i] # files'[i + 2]
    BY <1>6, <2>1, <2>2
  <2>9. files' \in Seq(Nat)
    BY <1>2, <2>1
  <2>10. QED
    BY <2>2, <2>3, <2>4, <2>5, <2>6, <2>7, <2>8, <2>9 DEF CacheInv
<1>11. CASE n + 1 > Limit
  <2>1. /\ files' = Tail(names) /\ DOMAIN disk' = (DOMAIN disk \cup {now}) \ {names[1]}
        /\ n = Limit /\ n >= 2
    BY <1>1, <1>2, <1>3, <1>4, <1>11
  <2>2. files' \in Seq(Nat) /\ Len(files') = n /\ \A i \in 1..n : files'[i] = names[i + 1]
    <3>1. names # <<>>
      BY <1>1, <1>2, SeqFacts
    <3>2. QED
      BY <1>1, <1>2, <2>1, <3>1, HeadTailProperties
  <2>3. now' \in Nat /\ now <= now' /\ (now' = now + 1 => now < now')
    BY <1>1, <1>3
  <2>4. \A i, j \in 1..n : i <= j => files'[i] <= files'[j]
    <3> SUFFICES ASSUME NEW i \in 1..n, NEW j \in 1..n, i <= j
                 PROVE  files'[i] <= files'[j]
      OBVIOUS
    <3>1. i + 1 \in 1..(n + 1) /\ j + 1 \in 1..(n + 1) /\ i + 1 <= j + 1
      BY <1>1
    <3>2. QED
      BY <1>5, <2>2, <3>1
  <2>5. \A i \in 1..n : files'[i] <= now'
    <3> SUFFICES ASSUME NEW i \in 1..n PROVE files'[i] <= now'
      OBVIOUS
    <3>1. i + 1 \in 1..(n + 1)
      BY <1>1
    <3>2. names[i + 1] \in Nat /\ names[i + 1] <= now
      BY <1>5, <3>1
    <3>3. QED
      BY <1>1, <2>2, <2>3, <3>2
  <2>6. \A i \in 1..(n - 2) : files'[i] # files'[i + 2]
    <3> SUFFICES ASSUME NEW i \in 1..(n - 2) PROVE files'[i] # files'[i + 2]
      OBVIOUS
    <3>1. i \in 1..n /\ i + 2 \in 1..n /\ i + 1 \in 1..(n - 1) /\ (i + 2) + 1 = (i + 1) + 2
      BY <1>1
    <3>2. files'[i] = names[i + 1] /\ files'[i + 2] = names[(i + 1) + 2]
      BY <2>2, <3>1
    <3>3. QED
      BY <1>6, <3>1, <3>2
  <2>7. n >= 2 /\ files'[n] = now' => files'[n - 1] # now'
    <3>1. n \in 1..n /\ n - 1 \in 1..n /\ (n - 1) + 1 = n
      BY <1>1, <2>1
    <3>2. files'[n] = now /\ files'[n - 1] = names[n]
      BY <1>2, <2>2, <3>1
    <3>3. QED
      BY <1>1, <1>7, <2>3, <3>2
  <2>8. \A name \in DOMAIN disk' : \E i \in 1..n : files'[i] = name
    <3> SUFFICES ASSUME NEW name \in DOMAIN disk' PROVE \E i \in 1..n : files'[i] = name
      OBVIOUS
    <3>1. PICK i \in 1..(n + 1) : names[i] = name
      BY <1>8, <2>1
    <3>2. i # 1
      BY <2>1, <3>1
    <3>3. i - 1 \in 1..n /\ (i - 1) + 1 = i
      BY <1>1, <3>2
    <3>4. files'[i - 1] = name
      BY <2>2, <3>1, <3>3
    <3>5. QED
      BY <3>3, <3>4
  <2>9. \A i \in 1..n : files'[i] # files'[1] \/ i = n => files'[i] \in DOMAIN disk'
    <3> SUFFICES ASSUME NEW i \in 1..n, files'[i] # files'[1] \/ i = n
                 PROVE  files'[i] \in DOMAIN disk'
      OBVIOUS
    <3>1. /\ i + 1 \in 1..(n + 1) /\ 1 \in 1..(n + 1) /\ 2 \in 1..(n + 1) /\ 1 \in 1..n
          /\ 1 <= 2 /\ 2 <= i + 1
      BY <1>1, <2>1
    <3>2. files'[i] = names[i + 1] /\ files'[1] = names[2]
      BY <2>2, <3>1
    <3>3. /\ names[1] \in Nat /\ names[2] \in Nat /\ names[i + 1] \in Nat
          /\ names[1] <= names[2] /\ names[2] <= names[i + 1]
      BY <1>5, <3>1
    <3>4. names[i + 1] # names[1]
      <4>1. CASE files'[i] # files'[1]
        BY <3>2, <3>3, <4>1
      <4>2. CASE i = n
        <5>1. 1 \in 1..(n - 1) /\ 3 \in 1..(n + 1) /\ 3 <= i + 1 /\ 1 + 2 = 3
          BY <1>1, <2>1, <4>2
        <5>2. names[1] # names[3]
          BY <1>6, <5>1
        <5>3. names[1] <= names[3] /\ names[3] <= names[i + 1] /\ names[3] \in Nat
          BY <1>5, <3>1, <5>1
        <5>4. QED
          BY <3>3, <5>2, <5>3
      <4>3. QED
        BY <4>1, <4>2
    <3>5. names[i + 1] \in DOMAIN disk \cup {now}
      BY <1>1, <1>9, <3>1, <3>4
    <3>6. QED
      BY <2>1, <3>2, <3>4, <3>5
  <2>10. QED
    BY <1>1, <2>1, <2>2, <2>3, <2>4, <2>5, <2>6, <2>7, <2>8, <2>9 DEF CacheInv
<1>12. QED
  BY <1>10, <1>11

-----------------------------------------------------------------------------
(* Wave files.                                                             *)

(* The walk from chunk to chunk: what follows from cell p, by the value    *)
(* after the chunk there; counted from the end, it goes to smaller numbers. *)
Found(cells, p, after) ==
  IF p > Len(cells) THEN 0
  ELSE IF cells[p].id = "data" THEN p
  ELSE IF cells[p].id = "LIST" /\ p + 1 + cells[p].length <= Len(cells) THEN after
  ELSE 0
Walk(f, cells) ==
  f = [p \in 3..(Len(cells) + 1) |-> Found(cells, p, f[p + 1 + cells[p].length])]
Stepwise(f, cells, k) ==
  \A d \in 0..k :
    f[d] = Found(cells, Len(cells) + 1 - d, f[d - 1 - cells[Len(cells) + 1 - d].length])

LEMMA CellsAre ==
  ASSUME NEW cells \in Seq(Cells)
  PROVE  Len(cells) \in Nat /\ \A p \in 1..Len(cells) : cells[p].length \in Nat
<1>1. Len(cells) \in Nat /\ \A p \in 1..Len(cells) : cells[p] \in Cells
  BY SeqFacts
<1>2. QED
  BY <1>1 DEF Cells

LEMMA WalkExists ==
  ASSUME NEW cells \in Seq(Cells), Len(cells) >= 3
  PROVE  \E f : Walk(f, cells)
<1> DEFINE n == Len(cells)
           at(d) == n + 1 - d
           Exists(k) == \E f \in [0..k -> 0..n] : Stepwise(f, cells, k)
           K == {k \in Nat : k <= n - 2 => Exists(k)}
<1>1. n \in Nat /\ n >= 3 /\ \A p \in 1..n : cells[p].length \in Nat
  BY CellsAre
<1>2. 0 \in K
  <2> DEFINE f == [d \in 0..0 |-> 0]
  <2>1. f \in [0..0 -> 0..n]
    BY <1>1
  <2>2. Stepwise(f, cells, 0)
    BY <1>1 DEF Stepwise, Found
  <2>3. Exists(0)
    BY <2>1, <2>2
  <2> HIDE DEF Exists
  <2>4. QED
    BY <2>3
<1>3. ASSUME NEW k \in Nat, k + 1 <= n - 2, Exists(k)
      PROVE  Exists(k + 1)
  <2>1. k + 1 <= n - 2
    BY <1>3
  <2>2. PICK f \in [0..k -> 0..n] : Stepwise(f, cells, k)
    BY <1>3
  <2> DEFINE p == n + 1 - (k + 1)
             e == Found(cells, p, f[k - cells[p].length])
             f2 == [d \in 0..(k + 1) |-> IF d = k + 1 THEN e ELSE f[d]]
  <2>3. p \in 3..n /\ cells[p].length \in Nat
    BY <1>1, <1>3
  <2>4. e \in 0..n
    <3> DEFINE l == cells[p].length
    <3>1. p + 1 + l <= n => f[k - l] \in 0..n
      <4>1. l \in Nat
        BY <2>3
      <4> HIDE DEF l
      <4>2. p + 1 + l <= n => k - l \in 0..k
        BY <1>1, <2>1, <4>1
      <4> HIDE DEF n
      <4>3. QED
        BY <2>2, <4>2
    <3>2. QED
      BY <1>1, <2>3, <3>1 DEF Found
  <2> HIDE DEF e
  <2>5. f2 \in [0..(k + 1) -> 0..n]
    BY <1>3, <2>2, <2>4
  <2>6. f2[k + 1] = e /\ \A d \in 0..k : f2[d] = f[d]
    BY <1>3
  <2> HIDE DEF f2
  <2>7. ASSUME NEW d \in 0..(k + 1)
        PROVE  f2[d] = Found(cells, at(d), f2[d - 1 - cells[at(d)].length])
    <3>1. CASE d = k + 1
      <4>1. at(d) = p /\ d - 1 - cells[p].length = k - cells[p].length /\ f2[d] = e
        BY <1>1, <1>3, <2>3, <2>6, <3>1
      <4>2. p + 1 + cells[p].length <= n =>
              f2[k - cells[p].length] = f[k - cells[p].length]
        <5> DEFINE l == cells[p].length
        <5>1. p + 1 + l <= n => k - l \in 0..k
          <6>1. l \in Nat
            BY <2>3
          <6> HIDE DEF l
          <6>2. QED
            BY <1>1, <2>1, <6>1
        <5>2. QED
          BY <2>6, <5>1
      <4>3. QED
        BY <4>1, <4>2 DEF Found, e
    <3>2. CASE d # k + 1
      <4>1. d \in 0..k /\ f2[d] = f[d] /\ at(d) \in 3..(n + 1)
        BY <1>1, <1>3, <2>6, <3>2
      <4>2. f[d] = Found(cells, at(d), f[d - 1 - cells[at(d)].length])
        BY <2>2, <4>1 DEF Stepwise
      <4>3. at(d) <= n /\ at(d) + 1 + cells[at(d)].length <= n =>
              f2[d - 1 - cells[at(d)].length] = f[d - 1 - cells[at(d)].length]
        <5> DEFINE l == cells[at(d)].length
        <5>1. at(d) <= n => l \in Nat
          BY <1>1, <4>1
        <5>2. at(d) <= n /\ at(d) + 1 + l <= n => d - 1 - l \in 0..k
          <6> SUFFICES ASSUME at(d) <= n, at(d) + 1 + l <= n
                       PROVE  d - 1 - l \in 0..k
            OBVIOUS
          <6> HIDE DEF l
          <6>1. l \in Nat
            BY <5>1
          <6>2. QED
            BY <1>1, <2>1, <4>1, <6>1
        <5>3. QED
          BY <2>6, <5>2
      <4>4. QED
        BY <4>1, <4>2, <4>3 DEF Found
    <3>3. QED
      BY <3>1, <3>2
  <2>8. Stepwise(f2, cells, k + 1)
    BY <2>7 DEF Stepwise
  <2>9. QED
    BY <2>5, <2>8
<1> HIDE DEF Exists
<1>4. \A k \in Nat : k \in K => k + 1 \in K
  BY <1>1, <1>3
<1> HIDE DEF K
<1>5. n - 2 \in K
  BY <1>1, <1>2, <1>4, Inductive
<1>6. PICK f \in [0..(n - 2) -> 0..n] : Stepwise(f, cells, n - 2)
  BY <1>1, <1>5 DEF K, Exists
<1> DEFINE g == [p \in 3..(n + 1) |-> f[n + 1 - p]]
<1>7. ASSUME NEW p \in 3..(n + 1)
      PROVE  g[p] = Found(cells, p, g[p + 1 + cells[p].length])
  <2>1. n + 1 - p \in 0..(n - 2) /\ at(n + 1 - p) = p
    BY <1>1
  <2>2. f[n + 1 - p] = Found(cells, p, f[(n + 1 - p) - 1 - cells[p].length])
    <3> DEFINE d == n + 1 - p
    <3>1. f[d] = Found(cells, at(d), f[d - 1 - cells[at(d)].length]) /\ at(d) = p
      BY <1>6, <2>1 DEF Stepwise
    <3> HIDE DEF at, d
    <3>2. f[d] = Found(cells, p, f[d - 1 - cells[p].length])
      BY <3>1
    <3>3. QED
      BY <3>2 DEF d
  <2>3. p <= n /\ p + 1 + cells[p].length <= n =>
          g[p + 1 + cells[p].length] = f[(n + 1 - p) - 1 - cells[p].length]
    <3> SUFFICES ASSUME p <= n, p + 1 + cells[p].length <= n
                 PROVE  g[p + 1 + cells[p].length] = f[(n + 1 - p) - 1 - cells[p].length]
      OBVIOUS
    <3>1. cells[p].length \in Nat
      BY <1>1
    <3>2. /\ p + 1 + cells[p].length \in 3..(n + 1)
          /\ n + 1 - (p + 1 + cells[p].length) = (n + 1 - p) - 1 - cells[p].length
      BY <1>1, <3>1
    <3>3. QED
      BY <3>2
  <2>4. g[p] = f[n + 1 - p]
    OBVIOUS
  <2>5. QED
    BY <2>2, <2>3, <2>4, <1>1 DEF Found
<1>8. g = [p \in 3..(n + 1) |-> Found(cells, p, g[p + 1 + cells[p].length])]
  BY <1>7
<1>9. QED
  BY <1>8 DEF Walk

(* DataChunk is a chunk of the file beyond its format, or none; a file     *)
(* whose first chunk is the data has it there.                             *)
LEMMA DataChunkIs ==
  ASSUME NEW cells \in Seq(Cells), Len(cells) >= 3
  PROVE  /\ Waves!DataChunk(cells) \in {0} \cup 3..Len(cells)
         /\ cells[3].id = "data" => Waves!DataChunk(cells) = 3
<1> DEFINE n == Len(cells)
           D == CHOOSE f : Walk(f, cells)
           Right(d) == D[n + 1 - d] \in {0} \cup 3..n
           K == {k \in Nat : \A d \in 0..k : d <= n - 2 => Right(d)}
<1>1. n \in Nat /\ n >= 3 /\ \A p \in 1..n : cells[p].length \in Nat
  BY CellsAre
<1>2. Walk(D, cells)
  BY WalkExists
<1>3. Waves!DataChunk(cells) = D[3]
  BY DEF Waves!DataChunk, Waves!NoData, Walk, Found
<1> HIDE DEF D
<1>4. \A p \in 3..(n + 1) : D[p] = Found(cells, p, D[p + 1 + cells[p].length])
  BY <1>2 DEF Walk
<1>5. 0 \in K
  BY <1>1, <1>4 DEF Found
<1>6. ASSUME NEW k \in Nat, \A d \in 0..k : d <= n - 2 => Right(d)
      PROVE  k + 1 <= n - 2 => Right(k + 1)
  <2> SUFFICES ASSUME k + 1 <= n - 2 PROVE Right(k + 1)
    OBVIOUS
  <2> DEFINE p == n + 1 - (k + 1)
  <2>1. p \in 3..n /\ cells[p].length \in Nat
    BY <1>1
  <2>2. D[p] = Found(cells, p, D[p + 1 + cells[p].length])
    BY <1>1, <1>4, <2>1
  <2>3. p + 1 + cells[p].length <= n => D[p + 1 + cells[p].length] \in {0} \cup 3..n
    <3> SUFFICES ASSUME p + 1 + cells[p].length <= n
                 PROVE  D[p + 1 + cells[p].length] \in {0} \cup 3..n
      OBVIOUS
    <3> DEFINE d == k - cells[p].length
    <3>1. d \in 0..k /\ d <= n - 2 /\ n + 1 - d = p + 1 + cells[p].length
      BY <1>1, <2>1
    <3>2. Right(d)
      BY <1>6, <3>1
    <3>3. QED
      BY <3>1, <3>2
  <2>4. QED
    BY <1>1, <2>1, <2>2, <2>3 DEF Found
<1> HIDE DEF Right
<1>7. ASSUME NEW k \in Nat, k \in K
      PROVE  k + 1 \in K
  <2>1. k + 1 <= n - 2 => Right(k + 1)
    BY <1>6, <1>7
  <2>2. \A d \in 0..(k + 1) : d \in 0..k \/ d = k + 1
    OBVIOUS
  <2>3. QED
    BY <1>7, <2>1, <2>2
<1> HIDE DEF K
<1>8. n - 2 \in K
  BY <1>1, <1>5, <1>7, Inductive
<1>9. Right(n - 2)
  BY <1>1, <1>8 DEF K
<1>10. D[3] \in {0} \cup 3..n
  BY <1>1, <1>9 DEF Right
<1>11. D[3] = Found(cells, 3, D[3 + 1 + cells[3].length])
  BY <1>1, <1>4
<1>12. QED
  BY <1>1, <1>3, <1>10, <1>11 DEF Found

(* What AudioWriter and FileCache make of a sound.                         *)
WaveOf(sound, rate) == Waves!GetHeader(rate, Len(sound)) \o Waves!Units(sound)

LEMMA UnitsAre ==
  ASSUME NEW sound \in Seq(STRING)
  PROVE  /\ Waves!Units(sound) \in Seq(Cells) /\ Len(Waves!Units(sound)) = Len(sound)
         /\ \A i \in 1..Len(sound) : Waves!Units(sound)[i] = Waves!Unit(sound[i])
<1>1. /\ Len(sound) \in Nat /\ DOMAIN sound = 1..Len(sound)
      /\ \A i \in 1..Len(sound) : sound[i] \in STRING
  BY SeqFacts
<1>2. \A i \in 1..Len(sound) : Waves!Unit(sound[i]) \in Cells
  BY <1>1 DEF Waves!Unit, Cells, Ids
<1>3. Waves!Units(sound) = [i \in 1..Len(sound) |-> Waves!Unit(sound[i])]
  BY <1>1 DEF Waves!Units
<1>4. QED
  BY <1>1, <1>2, <1>3

LEMMA WaveIs ==
  ASSUME NEW sound \in Sounds, NEW rate \in Rates
  PROVE  /\ WaveOf(sound, rate) \in Seq(Cells)
         /\ Len(WaveOf(sound, rate)) = 3 + Len(sound) /\ Len(sound) \in Nat
         /\ WaveOf(sound, rate)[1].id = "RIFF" /\ WaveOf(sound, rate)[2].id = "fmt"
         /\ WaveOf(sound, rate)[2].rate = rate
         /\ WaveOf(sound, rate)[3] = Waves!Chunk("data", Len(sound))
         /\ \A i \in 1..Len(sound) : WaveOf(sound, rate)[3 + i] = Waves!Units(sound)[i]
<1> DEFINE header == Waves!GetHeader(rate, Len(sound))
           units  == Waves!Units(sound)
<1>1. sound \in Seq(STRING) /\ rate \in Nat /\ Len(sound) \in Nat
  BY FilesAssumption, SeqFacts
<1>2. /\ header \in Seq(Cells) /\ Len(header) = 3
      /\ header[1].id = "RIFF" /\ header[2].id = "fmt" /\ header[2].rate = rate
      /\ header[3] = Waves!Chunk("data", Len(sound))
  <2> DEFINE a == Waves!Riff(Len(sound) + 2)
             b == Waves!Format(rate)
             c == Waves!Chunk("data", Len(sound))
  <2>1. a \in Cells /\ b \in Cells /\ c \in Cells
    <3>1. "RIFF" \in Ids /\ "fmt" \in Ids /\ "data" \in Ids
      BY DEF Ids
    <3>2. \A id \in Ids, length, r \in Nat : [id |-> id, length |-> length, rate |-> r] \in Cells
      BY DEF Cells
    <3>3. Len(sound) + 2 \in Nat /\ 0 \in Nat
      BY <1>1
    <3>4. QED
      BY <1>1, <3>1, <3>2, <3>3, Zenon DEF Waves!Riff, Waves!Format, Waves!Chunk
  <2>2. header = <<a, b, c>>
    BY DEF Waves!GetHeader, Waves!DataLength
  <2>3. header \in Seq(Cells) /\ Len(header) = 3
    <3> HIDE DEF a, b, c, header
    <3>1. <<a, b, c>> \in Seq(Cells) /\ Len(<<a, b, c>>) = 3
      BY <2>1
    <3>2. QED
      BY <2>2, <3>1
  <2>4. QED
    BY <2>2, <2>3 DEF Waves!Riff, Waves!Format
<1>3. units \in Seq(Cells) /\ Len(units) = Len(sound)
  BY <1>1, UnitsAre
<1> HIDE DEF header, units
<1>4. /\ header \o units \in Seq(Cells) /\ Len(header \o units) = 3 + Len(sound)
      /\ \A i \in 1..(3 + Len(sound)) :
           (header \o units)[i] = IF i <= 3 THEN header[i] ELSE units[i - 3]
  <2>1. /\ header \o units \in Seq(Cells) /\ Len(header \o units) = Len(header) + Len(units)
        /\ \A i \in 1..(Len(header) + Len(units)) :
             (header \o units)[i] = IF i <= Len(header) THEN header[i] ELSE units[i - Len(header)]
    <3>1. header \in Seq(Cells) /\ units \in Seq(Cells)
      BY <1>2, <1>3
    <3>2. QED
      BY <3>1, ConcatProperties
  <2>2. QED
    BY <1>2, <1>3, <2>1
<1> DEFINE w == header \o units
<1>5. w = WaveOf(sound, rate)
  BY DEF WaveOf, header, units
<1> HIDE DEF w
<1>6. w[1] = header[1] /\ w[2] = header[2] /\ w[3] = header[3]
  BY <1>1, <1>4 DEF w
<1>7. \A i \in 1..Len(sound) : w[3 + i] = units[i]
  BY <1>1, <1>4 DEF w
<1>8. w \in Seq(Cells) /\ Len(w) = 3 + Len(sound)
  BY <1>4 DEF w
<1>9. \A i \in 1..Len(sound) : w[3 + i] = Waves!Units(sound)[i]
  BY <1>7 DEF units
<1>10. QED
  BY <1>1, <1>2, <1>5, <1>6, <1>8, <1>9

(* A sound that was written comes back from the file, with its rate.       *)
LEMMA WaveComesBack ==
  ASSUME NEW sound \in Sounds, NEW rate \in Rates
  PROVE  LET w == WaveOf(sound, rate) IN
         /\ Waves!IsWav(w) /\ w[2].rate = rate
         /\ SubSeq(w, Waves!DataChunk(w) + 1, Waves!DataChunk(w) + w[Waves!DataChunk(w)].length)
              = Waves!Units(sound)
<1> DEFINE w == WaveOf(sound, rate)
           n == Len(sound)
<1>1. /\ w \in Seq(Cells) /\ Len(w) = 3 + n /\ n \in Nat
      /\ w[1].id = "RIFF" /\ w[2].id = "fmt" /\ w[2].rate = rate
      /\ w[3] = Waves!Chunk("data", n)
      /\ \A i \in 1..n : w[3 + i] = Waves!Units(sound)[i]
  BY WaveIs
<1>2. /\ Waves!Units(sound) \in Seq(Cells) /\ Len(Waves!Units(sound)) = n
  BY UnitsAre, FilesAssumption
<1> HIDE DEF w, n
<1>3. w[3].id = "data" /\ w[3].length = n
  BY <1>1 DEF Waves!Chunk
<1>4. Waves!DataChunk(w) = 3
  BY <1>1, <1>3, DataChunkIs
<1>5. Waves!IsWav(w)
  BY <1>1, <1>4 DEF Waves!IsWav, Waves!NoData
<1>6. SubSeq(w, 4, 3 + n) = Waves!Units(sound)
  <2>1. \A i \in 4..(3 + n) : w[i] \in Cells
    BY <1>1, SeqFacts
  <2>2. /\ SubSeq(w, 4, 3 + n) \in Seq(Cells)
        /\ Len(SubSeq(w, 4, 3 + n)) = IF 4 <= 3 + n THEN (3 + n) - 4 + 1 ELSE 0
        /\ \A i \in 1..((3 + n) - 4 + 1) : SubSeq(w, 4, 3 + n)[i] = w[4 + i - 1]
    <3> DEFINE m == 3 + n
    <3>1. m \in Int
      BY <1>1
    <3> HIDE DEF m
    <3>2. /\ SubSeq(w, 4, m) \in Seq(Cells)
          /\ Len(SubSeq(w, 4, m)) = IF 4 <= m THEN m - 4 + 1 ELSE 0
          /\ \A i \in 1..(m - 4 + 1) : SubSeq(w, 4, m)[i] = w[4 + i - 1]
      BY <2>1, <3>1, SubSeqProperties DEF m
    <3>3. QED
      BY <3>2 DEF m
  <2> DEFINE t == SubSeq(w, 4, 3 + n)
             u == Waves!Units(sound)
  <2>3. t \in Seq(Cells) /\ Len(t) = n /\ \A i \in 1..n : t[i] = w[4 + i - 1]
    BY <1>1, <2>2
  <2> HIDE DEF t, u
  <2>4. \A i \in 1..n : t[i] = u[i]
    BY <1>1, <2>3 DEF u
  <2>5. u \in Seq(Cells) /\ Len(u) = n
    BY <1>2 DEF u
  <2>6. t = u
    BY <2>3, <2>4, <2>5, SeqEqual
  <2>7. QED
    BY <2>6 DEF t, u
<1>7. Waves!DataChunk(w) + 1 = 4 /\ Waves!DataChunk(w) + w[Waves!DataChunk(w)].length = 3 + n
  BY <1>1, <1>3, <1>4
<1>8. QED
  BY <1>1, <1>5, <1>6, <1>7 DEF w

-----------------------------------------------------------------------------
(* What is on disk and what the reader has of it.                          *)

Stored(w, cells) ==
  \E sound \in Sounds, rate \in Rates :
    w = [sound |-> sound, rate |-> rate] /\ cells = WaveOf(sound, rate)
StoredInv ==
  /\ DOMAIN written = DOMAIN disk
  /\ \A name \in DOMAIN disk : Stored(written[name], disk[name])

(* What was read is what lies between the sound's beginning and the        *)
(* position.                                                               *)
ReaderInv ==
  file # <<>> =>
    /\ file \in Seq(Cells) /\ dataLength \in Nat
    /\ dataOffset \in 1..(Len(file) + 1) /\ pos \in dataOffset..(Len(file) + 1)
    /\ read = SubSeq(file, dataOffset, pos - 1)

LEMMA WriteStores ==
  ASSUME StoredInv, NEW sound \in Sounds, NEW rate \in Rates, Waves!WriteWav(sound, rate)
  PROVE  StoredInv'
<1> DEFINE content == Waves!GetHeader(rate, Len(sound)) \o Waves!Units(sound)
           w       == [sound |-> sound, rate |-> rate]
<1>1. PICK there :
        /\ there \subseteq DOMAIN disk \cup {now}
        /\ disk' = [n \in there |-> IF n = now THEN content ELSE disk[n]]
        /\ written' = [n \in there |-> IF n = now THEN w ELSE written[n]]
  <2> DEFINE gone == IF Len(Append(files, now)) > Limit
                     THEN {Waves!Oldest(Append(files, now))} ELSE {}
             all  == (DOMAIN disk \cup {now}) \ gone
  <2>1. /\ disk' = [n \in all |-> IF n = now THEN content ELSE disk[n]]
        /\ written' = [n \in all |-> IF n = now THEN w ELSE written[n]]
    BY DEF Waves!WriteWav
  <2> HIDE DEF gone, content, w
  <2>2. QED
    BY <2>1
<1>2. Stored(w, content)
  BY DEF Stored, WaveOf
<1> HIDE DEF content, w
<1>3. ASSUME NEW name \in there
      PROVE  Stored(written'[name], disk'[name])
  <2>1. CASE name = now
    BY <1>1, <1>2, <2>1
  <2>2. CASE name # now
    <3>1. name \in DOMAIN disk /\ written'[name] = written[name] /\ disk'[name] = disk[name]
      BY <1>1, <2>2
    <3>2. QED
      BY <3>1 DEF StoredInv
  <2>3. QED
    BY <2>1, <2>2
<1>4. DOMAIN disk' = there /\ DOMAIN written' = there
  BY <1>1
<1>5. QED
  BY <1>3, <1>4 DEF StoredInv

(* What a stored file holds and every other file is cells.                 *)
LEMMA FilesAreCells ==
  ASSUME StoredInv
  PROVE  /\ \A name \in DOMAIN disk : disk[name] \in Seq(Cells)
         /\ \A other \in Others : other \in Seq(Cells)
<1>1. ASSUME NEW name \in DOMAIN disk
      PROVE  disk[name] \in Seq(Cells)
  <2>1. PICK sound \in Sounds, rate \in Rates : disk[name] = WaveOf(sound, rate)
    BY DEF StoredInv, Stored
  <2>2. QED
    BY <2>1, WaveIs
<1>2. ASSUME NEW other \in Others
      PROVE  other \in Seq(Cells)
  <2>1. other \in Seq([id : STRING, length : Nat, rate : Nat])
    BY FilesAssumption
  <2>2. Len(other) \in Nat /\ \A i \in 1..Len(other) : other[i] \in [id : STRING, length : Nat, rate : Nat]
    BY <2>1, SeqFacts
  <2>3. [id : STRING, length : Nat, rate : Nat] \subseteq Cells
    BY DEF Cells, Ids
  <2>4. QED
    BY <2>1, <2>2, <2>3
<1>3. QED
  BY <1>1, <1>2

LEMMA OpenKeeps ==
  ASSUME ReaderInv, NEW cells \in Seq(Cells), Waves!OpenWavFile(cells)
  PROVE  ReaderInv'
<1>1. CASE ~Waves!IsWav(cells)
  BY <1>1 DEF Waves!OpenWavFile, ReaderInv
<1>2. CASE Waves!IsWav(cells)
  <2> DEFINE d == Waves!DataChunk(cells)
  <2>1. /\ file' = cells /\ pos' = d + 1 /\ dataOffset' = d + 1
        /\ dataLength' = cells[d].length /\ read' = <<>>
    BY <1>2 DEF Waves!OpenWavFile
  <2>2. Len(cells) \in Nat /\ Len(cells) >= 3 /\ d # 0
    BY <1>2, CellsAre DEF Waves!IsWav, Waves!NoData
  <2>3. d \in 3..Len(cells)
    BY <2>2, DataChunkIs
  <2> HIDE DEF d
  <2>4. cells[d].length \in Nat
    BY <2>2, <2>3, CellsAre
  <2>5. (d + 1) - 1 < d + 1 /\ d + 1 \in Int /\ (d + 1) - 1 \in Int
    BY <2>3
  <2>6. SubSeq(cells, d + 1, (d + 1) - 1) = <<>>
    BY <2>5, SubSeqEmpty
  <2>7. QED
    BY <2>1, <2>2, <2>3, <2>4, <2>6 DEF ReaderInv
<1>3. QED
  BY <1>1, <1>2

LEMMA ReaderReads ==
  ASSUME ReaderInv, Waves!ReadData
  PROVE  ReaderInv'
<1> DEFINE n == Len(file)
           upto == IF pos + BufLength - 1 <= n THEN pos + BufLength - 1 ELSE n
<1>1. /\ file # <<>> /\ file' = file /\ dataOffset' = dataOffset /\ dataLength' = dataLength
      /\ upto >= pos /\ read' = read \o SubSeq(file, pos, upto) /\ pos' = upto + 1
  BY DEF Waves!ReadData
<1>2. /\ file \in Seq(Cells) /\ dataLength \in Nat /\ n \in Nat
      /\ dataOffset \in 1..(n + 1) /\ pos \in dataOffset..(n + 1)
      /\ read = SubSeq(file, dataOffset, pos - 1)
  BY <1>1, SeqFacts DEF ReaderInv
<1>3. upto \in Nat /\ upto <= n
  BY <1>2, FilesAssumption
<1> HIDE DEF upto
<1> DEFINE k == pos - 1
<1>4. /\ k \in (dataOffset - 1)..n /\ upto \in k..n /\ k + 1 = pos
      /\ upto + 1 \in dataOffset..(n + 1) /\ (upto + 1) - 1 = upto
  BY <1>1, <1>2, <1>3
<1>5. SubSeq(file, dataOffset, k) \o SubSeq(file, pos, upto) = SubSeq(file, dataOffset, upto)
  <2> HIDE DEF k
  <2>1. SubSeq(file, dataOffset, k) \o SubSeq(file, k + 1, upto) = SubSeq(file, dataOffset, upto)
    BY <1>2, <1>4, ConcatAdjacentSubSeq
  <2>2. QED
    BY <1>4, <2>1
<1>6. read' = SubSeq(file, dataOffset, (upto + 1) - 1)
  BY <1>1, <1>2, <1>4, <1>5
<1>7. QED
  BY <1>1, <1>2, <1>4, <1>6 DEF ReaderInv

LEMMA PositionKeeps ==
  ASSUME ReaderInv, Waves!SetPosition(0)
  PROVE  ReaderInv'
<1>1. /\ file # <<>> /\ file' = file /\ dataOffset' = dataOffset /\ dataLength' = dataLength
      /\ pos' = dataOffset + 0 /\ read' = <<>>
  BY DEF Waves!SetPosition
<1>2. /\ file \in Seq(Cells) /\ dataLength \in Nat /\ Len(file) \in Nat
      /\ dataOffset \in 1..(Len(file) + 1)
  BY <1>1, SeqFacts DEF ReaderInv
<1>3. dataOffset \in Int /\ dataOffset - 1 \in Int /\ dataOffset - 1 < dataOffset /\ dataOffset + 0 = dataOffset
  BY <1>2
<1>4. SubSeq(file, dataOffset, dataOffset - 1) = <<>>
  BY <1>3, SubSeqEmpty
<1>5. QED
  BY <1>1, <1>2, <1>3, <1>4 DEF ReaderInv

LEMMA FilesAtFirst ==
  ASSUME Waves!Init
  PROVE  CacheInv /\ StoredInv /\ ReaderInv
<1>1. /\ now = 1 /\ files = <<>> /\ file = <<>>
      /\ DOMAIN disk = {} /\ DOMAIN written = {}
  BY DEF Waves!Init
<1>2. QED
  BY <1>1, EmptyCache DEF StoredInv, ReaderInv

LEMMA CacheKept ==
  ASSUME CacheInv, Waves!Next \/ UNCHANGED wavesVars
  PROVE  CacheInv'
<1>1. CASE \E sound \in Sounds, rate \in Rates : Waves!WriteWav(sound, rate)
  BY <1>1, WriteKeepsCache
<1>2. CASE Waves!Restart
  <2>1. now \in Nat /\ now' = now + 1 /\ files' = <<>> /\ DOMAIN disk' = {}
    BY <1>2 DEF Waves!Restart, CacheInv
  <2>2. files' \in Seq(Nat) /\ Len(files') = 0 /\ now' \in Nat
    BY <2>1, EmptySeq
  <2>3. QED
    BY <2>1, <2>2, FilesAssumption DEF CacheInv
<1>3. CASE UNCHANGED <<now, disk, files>>
  BY <1>3 DEF CacheInv
<1>4. QED
  BY <1>1, <1>2, <1>3 DEF Waves!Next, Waves!OpenWavFile, Waves!CloseFile, Waves!ReadData,
     Waves!SetPosition, Waves!cacheVars, wavesVars

LEMMA StoredKept ==
  ASSUME StoredInv, Waves!Next \/ UNCHANGED wavesVars
  PROVE  StoredInv'
<1>1. CASE \E sound \in Sounds, rate \in Rates : Waves!WriteWav(sound, rate)
  BY <1>1, WriteStores
<1>2. CASE Waves!Restart
  BY <1>2 DEF Waves!Restart, StoredInv
<1>3. CASE UNCHANGED <<disk, written>>
  BY <1>3 DEF StoredInv
<1>4. QED
  BY <1>1, <1>2, <1>3 DEF Waves!Next, Waves!OpenWavFile, Waves!CloseFile, Waves!ReadData,
     Waves!SetPosition, Waves!cacheVars, wavesVars

LEMMA ReaderKept ==
  ASSUME StoredInv, ReaderInv, Waves!Next \/ UNCHANGED wavesVars
  PROVE  ReaderInv'
<1>1. CASE \E sound \in Sounds, rate \in Rates : Waves!WriteWav(sound, rate)
  <2>1. UNCHANGED <<file, pos, dataOffset, dataLength, read>>
    BY <1>1 DEF Waves!WriteWav, Waves!readerVars
  <2>2. QED
    BY <2>1 DEF ReaderInv
<1>2. CASE Waves!Restart
  BY <1>2 DEF Waves!Restart, ReaderInv
<1>3. CASE \E name \in DOMAIN disk : Waves!OpenWavFile(disk[name])
  <2>1. PICK name \in DOMAIN disk : Waves!OpenWavFile(disk[name])
    BY <1>3
  <2>2. disk[name] \in Seq(Cells)
    BY FilesAreCells
  <2>3. QED
    BY <2>1, <2>2, OpenKeeps
<1>4. CASE \E other \in Others : Waves!OpenWavFile(other)
  <2>1. PICK other \in Others : Waves!OpenWavFile(other)
    BY <1>4
  <2>2. other \in Seq(Cells)
    BY FilesAreCells
  <2>3. QED
    BY <2>1, <2>2, OpenKeeps
<1>5. CASE Waves!CloseFile
  BY <1>5 DEF Waves!CloseFile, ReaderInv
<1>6. CASE Waves!ReadData
  BY <1>6, ReaderReads
<1>7. CASE Waves!SetPosition(0)
  BY <1>7, PositionKeeps
<1>8. CASE UNCHANGED wavesVars
  BY <1>8 DEF wavesVars, ReaderInv
<1>9. QED
  BY <1>1, <1>2, <1>3, <1>4, <1>5, <1>6, <1>7, <1>8 DEF Waves!Next

(* A reader at the end of the sound has all of it.                         *)
LEMMA WholeRead ==
  ASSUME ReaderInv, file # <<>>, Waves!AtEnd
  PROVE  Waves!IsPrefix(SubSeq(file, dataOffset, dataOffset + dataLength - 1), read)
<1> DEFINE n == Len(file)
           a == dataOffset + dataLength - 1
           b == pos - 1
           s == SubSeq(file, dataOffset, a)
<1>1. /\ file \in Seq(Cells) /\ dataLength \in Nat /\ n \in Nat /\ dataOffset \in 1..(n + 1)
      /\ pos \in dataOffset..(n + 1) /\ pos >= dataOffset + dataLength
      /\ read = SubSeq(file, dataOffset, b)
  BY SeqFacts DEF ReaderInv, Waves!AtEnd
<1>2. /\ a \in Int /\ b \in Int /\ a <= b /\ b <= n /\ dataOffset - 1 <= a /\ dataOffset \in Int
      /\ a - dataOffset + 1 = dataLength
  BY <1>1
<1>3. \A i \in dataOffset..b : file[i] \in Cells
  <2> SUFFICES ASSUME NEW i \in dataOffset..b PROVE file[i] \in Cells
    OBVIOUS
  <2>1. i \in 1..Len(file)
    BY <1>1, <1>2
  <2>2. QED
    BY <1>1, <2>1, SeqFacts
<1>4. \A i \in dataOffset..a : file[i] \in Cells
  BY <1>2, <1>3
<1> HIDE DEF a, b
<1>5. /\ s \in Seq(Cells) /\ Len(s) = IF dataOffset <= a THEN a - dataOffset + 1 ELSE 0
      /\ \A i \in 1..(a - dataOffset + 1) : s[i] = file[dataOffset + i - 1]
  BY <1>2, <1>4, SubSeqProperties
<1>6. /\ read \in Seq(Cells) /\ Len(read) = IF dataOffset <= b THEN b - dataOffset + 1 ELSE 0
      /\ \A i \in 1..(b - dataOffset + 1) : read[i] = file[dataOffset + i - 1]
  <2> DEFINE r == SubSeq(file, dataOffset, b)
  <2>1. /\ r \in Seq(Cells) /\ Len(r) = IF dataOffset <= b THEN b - dataOffset + 1 ELSE 0
        /\ \A i \in 1..(b - dataOffset + 1) : r[i] = file[dataOffset + i - 1]
    BY <1>2, <1>3, SubSeqProperties
  <2>2. QED
    BY <1>1, <2>1
<1> HIDE DEF s
<1>7. Len(s) = dataLength /\ dataLength <= Len(read) /\ dataLength <= b - dataOffset + 1
  BY <1>1, <1>2, <1>5, <1>6
<1>8. \A i \in 1..dataLength : s[i] = read[i]
  <2> SUFFICES ASSUME NEW i \in 1..dataLength PROVE s[i] = read[i]
    OBVIOUS
  <2>1. i \in 1..(a - dataOffset + 1) /\ i \in 1..(b - dataOffset + 1)
    BY <1>1, <1>2, <1>7
  <2>2. QED
    BY <1>5, <1>6, <2>1
<1> DEFINE f(q) == SubSeq(q, 1, dataLength)
<1>9. ASSUME NEW q \in Seq(Cells), Len(q) >= dataLength
      PROVE  /\ f(q) \in Seq(Cells) /\ Len(f(q)) = dataLength
             /\ \A i \in 1..dataLength : f(q)[i] = q[i]
  <2>1. Len(q) \in Nat /\ \A i \in 1..dataLength : q[i] \in Cells
    BY <1>1, <1>9, SeqFacts
  <2>2. /\ f(q) \in Seq(Cells) /\ Len(f(q)) = IF 1 <= dataLength THEN dataLength - 1 + 1 ELSE 0
        /\ \A i \in 1..(dataLength - 1 + 1) : f(q)[i] = q[1 + i - 1]
    <3>1. 1 \in Int /\ dataLength \in Int
      BY <1>1
    <3>2. QED
      BY <2>1, <3>1, SubSeqProperties
  <2> HIDE DEF f
  <2>3. \A i \in 1..dataLength : i \in 1..(dataLength - 1 + 1) /\ 1 + i - 1 = i
    BY <1>1
  <2>4. QED
    BY <1>1, <2>2, <2>3
<1>10. f(s) = f(read)
  <2>1. Len(s) >= dataLength /\ Len(read) >= dataLength
    BY <1>1, <1>6, <1>7
  <2> HIDE DEF f
  <2>2. /\ f(s) \in Seq(Cells) /\ Len(f(s)) = dataLength /\ \A i \in 1..dataLength : f(s)[i] = s[i]
    BY <1>5, <1>9, <2>1
  <2>3. /\ f(read) \in Seq(Cells) /\ Len(f(read)) = dataLength
        /\ \A i \in 1..dataLength : f(read)[i] = read[i]
    BY <1>6, <1>9, <2>1
  <2>4. QED
    BY <1>8, <2>2, <2>3, SeqEqual
<1>11. Waves!IsPrefix(s, read)
  BY <1>7, <1>10 DEF Waves!IsPrefix
<1>12. QED
  BY <1>11 DEF s, a

LEMMA SoundsBack == StoredInv /\ ReaderInv => Waves!SoundsComeBack
<1> SUFFICES ASSUME StoredInv, ReaderInv PROVE Waves!SoundsComeBack
  OBVIOUS
<1>1. ASSUME NEW name \in DOMAIN disk
      PROVE  LET cells == disk[name]
                 w     == written[name]
             IN  /\ Waves!IsWav(cells) /\ cells[2].rate = w.rate
                 /\ SubSeq(cells, Waves!DataChunk(cells) + 1,
                           Waves!DataChunk(cells) + cells[Waves!DataChunk(cells)].length)
                      = Waves!Units(w.sound)
  <2>1. PICK sound \in Sounds, rate \in Rates :
          written[name] = [sound |-> sound, rate |-> rate] /\ disk[name] = WaveOf(sound, rate)
    BY DEF StoredInv, Stored
  <2>2. written[name].sound = sound /\ written[name].rate = rate
    BY <2>1
  <2> DEFINE cells == disk[name]
  <2>3. /\ Waves!IsWav(cells) /\ cells[2].rate = rate
        /\ SubSeq(cells, Waves!DataChunk(cells) + 1,
                  Waves!DataChunk(cells) + cells[Waves!DataChunk(cells)].length)
             = Waves!Units(sound)
    BY <2>1, WaveComesBack
  <2>4. QED
    BY <2>2, <2>3
<1>2. QED
  BY <1>1, WholeRead DEF Waves!SoundsComeBack

(* A sound FileCache wrote comes back whole and at its rate, whatever is   *)
(* read of a file begins with its sound, and the names given out last are  *)
(* still files: from the invariants of the cache, of the disk and of the   *)
(* reader.                                                                 *)
THEOREM FilesStayKept == AudioSpec => []FilesKept
<1> DEFINE Inv == CacheInv /\ StoredInv /\ ReaderInv
<1>1. AudioInit => Inv
  BY FilesAtFirst DEF AudioInit
<1>2. Inv /\ [AudioNext]_audioVars => Inv'
  BY RunSteps, CacheKept, StoredKept, ReaderKept
<1>3. Inv => FilesKept
  BY SoundsBack, CacheKeepsLatest DEF FilesKept
<1>4. QED
  BY <1>1, <1>2, <1>3, PTL DEF AudioSpec
=============================================================================
