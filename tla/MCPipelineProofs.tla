------------------------- MODULE MCPipelineProofs --------------------------
(***************************************************************************)
(* Proofs about MCPipeline, for all bounds: the ends of listening, the     *)
(* wake-ups, and what a sentence is taken for.                             *)
(***************************************************************************)
EXTENDS MCPipeline, SequenceTheorems, FiniteSetTheorems, TLAPS

(* A step of the run is one of the part that is active, and the others     *)
(* stay as they are.                                                       *)
LEMMA RunSteps ==
  ASSUME [Next]_vars
  PROVE  /\ Detector!Next \/ UNCHANGED detectorVars
         /\ Trigger!Next \/ UNCHANGED triggerVars
         /\ Intents!Next \/ UNCHANGED nluVars
         /\ Rasa!Next \/ UNCHANGED rasaVars
  BY DEF Next, vars, AudioNext, audioVars, languageVars, OnlyDetector, OnlyPath, OnlyTrigger,
     OnlyLivekit, OnlyMic, OnlyRing, OnlyMixing, OnlyWaves, OnlySpeech, OnlySettings,
     OnlyFunasr, OnlyNlu, OnlySlots, OnlyClock, OnlyRasa, OnlyTree

-----------------------------------------------------------------------------
(* How listening ends.                                                     *)

DetectorTypes ==
  /\ engine \in Detector!Engines /\ session \in BOOLEAN /\ handle \in {"live", "gone"}
  /\ findVoice \in BOOLEAN /\ detectChunk \in Nat /\ quiet \in Nat
  /\ abandonCurrent \in Nat /\ voiced \in Nat
  /\ window \in {"none", "dialogue", "answer"}
  /\ ended.voiced \in Nat /\ ended.quiet \in Nat

(* The counter of the detector is that of the voiced chunks, but for those *)
(* silero discards after a start.                                          *)
Discarded == IF engine = "silero" THEN Detector!Min2(abandonCurrent, AbandonNum) ELSE 0
Counted ==
  /\ detectChunk <= voiced /\ (~findVoice => detectChunk = 0)
  /\ handle = "live" /\ session /\ detectChunk < MinChunk => voiced <= detectChunk + Discarded

DetectorInv == DetectorTypes /\ Counted /\ Detector!EndsSound

LEMMA DetectorAtFirst == Detector!Init => DetectorInv
<1> SUFFICES ASSUME Detector!Init PROVE DetectorInv
  OBVIOUS
<1> USE ListeningAssumption DEF Detector!Init
<1>1. DetectorTypes
  BY DEF DetectorTypes, Detector!Engines, Detector!InitOnnxModel
<1>2. Counted
  BY DEF Counted, Discarded, Detector!Min2
<1>3. Detector!EndsSound
  BY DEF Detector!EndsSound
<1>4. QED
  BY <1>1, <1>2, <1>3 DEF DetectorInv

(* Starting to listen begins to count anew.                                *)
LEMMA StartCounts ==
  ASSUME DetectorInv, NEW response, Detector!StartDetect(response)
  PROVE  DetectorInv'
<1>1. /\ UNCHANGED <<engine, session, handle, ended>>
      /\ findVoice' = FALSE /\ quiet' = 0 /\ voiced' = 0 /\ detectChunk' = 0
      /\ abandonCurrent' \in {0, abandonCurrent}
      /\ window' \in {"answer", "dialogue"}
  BY DEF Detector!StartDetect, Detector!Forgotten
<1>2. DetectorTypes'
  <2>1. engine' = engine /\ session' = session /\ handle' = handle /\ ended' = ended
    BY <1>1
  <2>2. abandonCurrent \in Nat
    BY DEF DetectorInv, DetectorTypes
  <2>3. abandonCurrent' \in Nat
    BY <1>1, <2>2
  <2>4. findVoice' \in BOOLEAN
    BY <1>1
  <2>5. DetectorTypes
    BY DEF DetectorInv
  <2>6. QED
    BY <1>1, <2>1, <2>3, <2>4, <2>5 DEF DetectorTypes
<1>3. Counted'
  <2> DEFINE d == Discarded'
  <2>1. d \in Nat
    BY <1>2, ListeningAssumption DEF Discarded, Detector!Min2, DetectorTypes
  <2>2. Counted' <=> /\ detectChunk' <= voiced' /\ (~findVoice' => detectChunk' = 0)
                     /\ handle' = "live" /\ session' /\ detectChunk' < MinChunk =>
                          voiced' <= detectChunk' + d
    BY DEF Counted
  <2> HIDE DEF d
  <2>3. QED
    BY <1>1, <2>1, <2>2
<1>4. Detector!EndsSound'
  BY <1>1 DEF DetectorInv, Detector!EndsSound
<1>5. QED
  BY <1>2, <1>3, <1>4 DEF DetectorInv

(* The end of a period is told for the reason there is.                    *)
LEMMA EndIsSound ==
  ASSUME DetectorInv, NEW stop \in BOOLEAN, NEW byTimer \in BOOLEAN,
         Detector!Detected(stop, byTimer),
         UNCHANGED <<engine, session, handle, detectChunk>>,
         voiced' \in Nat, quiet' \in Nat, detectChunk <= voiced',
         handle = "live" /\ session /\ detectChunk < MinChunk =>
           voiced' < MinChunk + IF engine = "silero" THEN AbandonNum ELSE 0,
         stop <=> (byTimer \/ detectChunk < MinChunk),
         byTimer => detectChunk < MinChunk,
         ~byTimer => quiet' > DetectSlient
  PROVE  /\ Detector!EndsSound' /\ window' = "none"
         /\ ended'.voiced \in Nat /\ ended'.quiet \in Nat
<1>1. window' = "none"
  BY DEF Detector!Detected
<1>2. CASE window = "none"
  <2>1. ended' = ended
    BY <1>2 DEF Detector!Detected
  <2>2. QED
    BY <1>1, <2>1 DEF DetectorInv, Detector!EndsSound, DetectorTypes
<1>3. CASE window # "none"
  <2>1. ended' = [how |-> IF window = "answer" THEN "answered"
                          ELSE IF stop THEN "dropped" ELSE "heard",
                  voiced |-> voiced', quiet |-> quiet', timer |-> byTimer]
    BY <1>3 DEF Detector!Detected
  <2>2. /\ ended'.voiced = voiced' /\ ended'.quiet = quiet' /\ ended'.timer = byTimer
        /\ ended'.how = "dropped" => stop
        /\ ended'.how = "heard" => ~stop
    BY <2>1
  <2>3. detectChunk \in Nat /\ MinChunk \in Nat
    BY ListeningAssumption DEF DetectorInv, DetectorTypes
  <2>4. QED
    BY <1>1, <2>2, <2>3 DEF Detector!EndsSound
<1>4. QED
  BY <1>2, <1>3

(* A chunk of audio is counted as what it is heard as.                     *)
LEMMA ChunkCounts ==
  ASSUME DetectorInv, NEW voice \in BOOLEAN, Detector!Chunk(voice)
  PROVE  DetectorInv'
<1> USE ListeningAssumption
<1>1. /\ UNCHANGED <<engine, session, handle>>
      /\ engine # "silero" => handle = "live"
      /\ voiced' = IF voice THEN voiced + 1 ELSE voiced
      /\ voiced' \in Nat
  BY DEF Detector!Chunk, DetectorInv, DetectorTypes
<1>2. /\ abandonCurrent' \in Nat
      /\ engine = "silero" /\ handle = "live" =>
           abandonCurrent' = IF abandonCurrent + 1 < AbandonNum + 1 THEN abandonCurrent + 1
                             ELSE AbandonNum + 1
  BY DEF Detector!Chunk, Detector!DetectVoice, Detector!Min2, DetectorInv, DetectorTypes
<1> DEFINE d == Discarded
           e == Discarded'
<1>3. /\ d \in Nat /\ e \in Nat
      /\ handle = "live" => d <= e
      /\ engine = "silero" /\ handle = "live" /\ session /\ voice /\ ~Detector!Hears(voice) =>
           e = d + 1
      /\ e <= IF engine = "silero" THEN AbandonNum ELSE 0
  BY <1>1, <1>2 DEF Discarded, Detector!Min2, Detector!Hears, DetectorInv, DetectorTypes
<1>20. Counted <=> /\ detectChunk <= voiced /\ (~findVoice => detectChunk = 0)
                   /\ handle = "live" /\ session /\ detectChunk < MinChunk => voiced <= detectChunk + d
  BY DEF Counted
<1>21. Counted' <=> /\ detectChunk' <= voiced' /\ (~findVoice' => detectChunk' = 0)
                    /\ handle' = "live" /\ session' /\ detectChunk' < MinChunk => voiced' <= detectChunk' + e
  BY DEF Counted
<1> HIDE DEF d, e
<1>4. detectChunk \in Nat /\ voiced \in Nat /\ quiet \in Nat /\ detectChunk <= voiced
  BY DEF DetectorInv, DetectorTypes, Counted
<1>5. CASE Detector!Hears(voice)
  <2>1. voice
    BY <1>5 DEF Detector!Hears
  <2>2. /\ findVoice' = TRUE /\ quiet' = 0
        /\ detectChunk' = IF detectChunk + 1 < MinChunk THEN detectChunk + 1 ELSE MinChunk
        /\ UNCHANGED <<window, ended>>
    BY <1>5 DEF Detector!Chunk, Detector!Voice, Detector!Min2
  <2>3. DetectorTypes'
    BY <1>1, <1>2, <1>4, <2>2 DEF DetectorInv, DetectorTypes
  <2>4. detectChunk' <= voiced'
    BY <1>1, <1>4, <2>1, <2>2
  <2>5. ASSUME handle' = "live", session', detectChunk' < MinChunk
        PROVE  voiced' <= detectChunk' + e
    <3>1. detectChunk' = detectChunk + 1 /\ detectChunk < MinChunk
      BY <1>4, <2>2, <2>5
    <3>2. voiced <= detectChunk + d
      BY <1>1, <1>20, <2>5, <3>1 DEF DetectorInv
    <3>3. d <= e
      BY <1>1, <1>3, <2>5
    <3>4. QED
      BY <1>1, <1>3, <1>4, <2>1, <3>1, <3>2, <3>3
  <2>6. Detector!EndsSound'
    BY <1>1, <2>2 DEF DetectorInv, Detector!EndsSound
  <2>7. QED
    BY <1>21, <2>2, <2>3, <2>4, <2>5, <2>6 DEF DetectorInv
<1>6. CASE ~Detector!Hears(voice)
  <2>1. /\ UNCHANGED <<findVoice, detectChunk>>
        /\ quiet' \in Nat
    BY <1>4, <1>6 DEF Detector!Chunk, Detector!Silence, Detector!Min2
  <2>2. engine # "silero" => ~voice
    BY <1>6 DEF Detector!Hears
  <2>3. ASSUME handle = "live", session, detectChunk < MinChunk
        PROVE  voiced' <= detectChunk + e
    <3>1. voiced <= detectChunk + d
      BY <1>20, <2>3 DEF DetectorInv
    <3>2. CASE voice
      <4>1. e = d + 1
        BY <1>3, <1>6, <2>2, <2>3, <3>2
      <4>2. voiced' = voiced + 1
        BY <1>1, <3>2
      <4>3. QED
        BY <1>3, <1>4, <3>1, <4>1, <4>2
    <3>3. CASE ~voice
      BY <1>1, <1>3, <1>4, <2>3, <3>1, <3>3
    <3>4. QED
      BY <3>2, <3>3
  <2>4. Counted'
    BY <1>1, <1>4, <1>20, <1>21, <2>1, <2>3 DEF DetectorInv
  <2>5. /\ Detector!EndsSound' /\ window' \in {"none", "dialogue", "answer"}
        /\ ended'.voiced \in Nat /\ ended'.quiet \in Nat
    <3>1. CASE UNCHANGED <<window, ended>>
      BY <1>1, <3>1 DEF DetectorInv, DetectorTypes, Detector!EndsSound
    <3>2. CASE /\ Detector!Over
               /\ Detector!Detected(detectChunk < MinChunk, FALSE)
      <4>1. quiet' > DetectSlient
        BY <3>2 DEF Detector!Over
      <4>2. handle = "live" /\ session /\ detectChunk < MinChunk =>
              voiced' < MinChunk + IF engine = "silero" THEN AbandonNum ELSE 0
        <5>1. SUFFICES ASSUME handle = "live", session, detectChunk < MinChunk
                       PROVE  voiced' < MinChunk + IF engine = "silero" THEN AbandonNum ELSE 0
          OBVIOUS
        <5>2. voiced' <= detectChunk + e
          BY <2>3, <5>1
        <5>3. QED
          BY <1>1, <1>3, <1>4, <5>1, <5>2
      <4>3. detectChunk <= voiced'
        BY <1>1, <1>4
      <4>4. (detectChunk < MinChunk) \in BOOLEAN
        BY <1>4
      <4>5. QED
        BY <1>1, <2>1, <3>2, <4>1, <4>2, <4>3, <4>4, EndIsSound
    <3>3. QED
      BY <1>6, <3>1, <3>2 DEF Detector!Chunk, Detector!Silence
  <2>6. DetectorTypes'
    BY <1>1, <1>2, <2>1, <2>5 DEF DetectorInv, DetectorTypes
  <2>7. QED
    BY <2>4, <2>5, <2>6 DEF DetectorInv
<1>7. QED
  BY <1>5, <1>6

(* undetectTimer tells of a period without enough voice.                   *)
LEMMA TimeoutCounts ==
  ASSUME DetectorInv, Detector!Timeout
  PROVE  DetectorInv'
<1> USE ListeningAssumption
<1>1. UNCHANGED <<engine, session, handle, findVoice, detectChunk, quiet, abandonCurrent, voiced>>
  BY DEF Detector!Timeout
<1>2. Counted' /\ detectChunk \in Nat /\ voiced \in Nat /\ quiet \in Nat /\ detectChunk <= voiced
  BY <1>1 DEF DetectorInv, DetectorTypes, Counted, Discarded, Detector!Min2
<1>3. /\ Detector!EndsSound' /\ window' \in {"none", "dialogue", "answer"}
      /\ ended'.voiced \in Nat /\ ended'.quiet \in Nat
  <2>1. CASE ~Detector!Nobody
    <3>1. UNCHANGED <<window, ended>>
      BY <2>1 DEF Detector!Timeout
    <3>2. QED
      BY <1>1, <3>1 DEF DetectorInv, DetectorTypes, Detector!EndsSound
  <2>2. CASE Detector!Nobody
    <3>1. Detector!Detected(TRUE, TRUE)
      BY <2>2 DEF Detector!Timeout
    <3>2. detectChunk < MinChunk
      BY <1>2, <2>2 DEF Detector!Nobody, DetectorInv, Counted
    <3>3. handle = "live" /\ session =>
            voiced' < MinChunk + IF engine = "silero" THEN AbandonNum ELSE 0
      BY <1>1, <1>2, <3>2 DEF DetectorInv, Counted, Discarded, Detector!Min2, DetectorTypes
    <3>4. QED
      BY <1>1, <1>2, <3>1, <3>2, <3>3, EndIsSound
  <2>3. QED
    BY <2>1, <2>2
<1>4. QED
  BY <1>1, <1>2, <1>3 DEF DetectorInv, DetectorTypes

LEMMA DetectorKept ==
  ASSUME DetectorInv, Detector!Next \/ UNCHANGED detectorVars
  PROVE  DetectorInv'
<1> USE ListeningAssumption
<1>1. CASE Detector!Wakes \/ Detector!Asks
  BY <1>1, StartCounts DEF Detector!Wakes, Detector!Asks
<1>2. CASE \E voice \in BOOLEAN : Detector!Chunk(voice)
  BY <1>2, ChunkCounts
<1>3. CASE Detector!Timeout
  BY <1>3, TimeoutCounts
<1>4. CASE \/ Detector!Missed \/ Detector!PreVad \/ Detector!HandlersReturn
          \/ Detector!Resume \/ UNCHANGED detectorVars
  <2>1. /\ UNCHANGED <<engine, session, findVoice, detectChunk, quiet, voiced, ended>>
        /\ handle' = handle \/ handle' = "gone"
        /\ window' = window \/ window' = "none"
        /\ abandonCurrent' \in Nat
        /\ handle' = "live" => abandonCurrent' >= abandonCurrent \/ abandonCurrent' > AbandonNum
    BY <1>4 DEF Detector!Missed, Detector!PreVad, Detector!HandlersReturn, Detector!Resume,
       Detector!Stop, detectorVars, Detector!DetectVoice, Detector!Min2, DetectorInv, DetectorTypes
  <2>2. DetectorTypes'
    BY <2>1 DEF DetectorInv, DetectorTypes
  <2>3. handle' = "live" => Discarded <= Discarded' /\ Discarded \in Nat /\ Discarded' \in Nat
    BY <2>1 DEF Discarded, Detector!Min2, DetectorInv, DetectorTypes
  <2>4. Counted' /\ Detector!EndsSound'
    BY <2>1, <2>3 DEF DetectorInv, DetectorTypes, Counted, Detector!EndsSound
  <2>5. QED
    BY <2>2, <2>4 DEF DetectorInv
<1>5. QED
  BY <1>1, <1>2, <1>3, <1>4 DEF Detector!Next

-----------------------------------------------------------------------------
(* Numbers: a set of them has a least, induction follows, and the maximum  *)
(* of a bounded set is in it.                                              *)
LEMMA Least ==
  ASSUME NEW T, T \subseteq Nat, T # {}
  PROVE  \E x \in T : \A y \in T : x <= y
<1> DEFINE F == {0..n : n \in T}
<1>1. F \subseteq FiniteSubsetsOf(Nat) /\ F # {}
  <2>1. \A n \in Nat : 0..n \in FiniteSubsetsOf(Nat)
    BY FS_Interval DEF FiniteSubsetsOf
  <2>2. QED
    BY <2>1
<1>2. IsWellFoundedOn(StrictSubsetOrdering(Nat), FiniteSubsetsOf(Nat))
  BY FS_StrictSubsetOrderingWellFounded
<1> HIDE DEF F
<1>3. PICK s \in F : \A t \in F : ~(<<t, s>> \in StrictSubsetOrdering(Nat))
  BY <1>1, <1>2, WFMin
<1>4. PICK x \in T : s = 0..x
  BY DEF F
<1>5. ASSUME NEW y \in T, y < x
      PROVE  FALSE
  <2>1. 0..y \in F
    BY DEF F
  <2>2. 0..y \subseteq 0..x /\ 0..y # 0..x /\ 0..y \subseteq Nat /\ 0..x \subseteq Nat
    BY <1>5
  <2>3. <<0..y, 0..x>> \in StrictSubsetOrdering(Nat)
    BY <2>2 DEF StrictSubsetOrdering
  <2>4. QED
    BY <1>3, <1>4, <2>1, <2>3
<1>6. QED
  BY <1>5

LEMMA Inductive ==
  ASSUME NEW S, 0 \in S, \A n \in Nat : n \in S => n + 1 \in S
  PROVE  Nat \subseteq S
<1> SUFFICES ASSUME Nat \ S # {} PROVE FALSE
  OBVIOUS
<1>1. PICK x \in Nat \ S : \A y \in Nat \ S : x <= y
  BY Least
<1>2. x # 0 /\ x - 1 \in Nat /\ x - 1 \in S
  BY <1>1
<1>3. QED
  BY <1>1, <1>2

LEMMA MaxIs ==
  ASSUME NEW n \in Nat, NEW S, S \subseteq 0..n, S # {}
  PROVE  Trigger!Max(S) \in S /\ \A y \in S : y <= Trigger!Max(S)
<1> DEFINE T == {n - y : y \in S}
<1>1. T \subseteq Nat /\ T # {}
  <2>1. \A y \in S : n - y \in Nat
    OBVIOUS
  <2>2. QED
    BY <2>1
<1>2. PICK t \in T : \A y \in T : t <= y
  BY <1>1, Least
<1>3. PICK x \in S : t = n - x
  OBVIOUS
<1>4. \A y \in S : x >= y
  BY <1>2, <1>3
<1>5. QED
  BY <1>4 DEF Trigger!Max

-----------------------------------------------------------------------------
(* How LiveKit's trigger wakes up.                                         *)

Scores == [hit : BOOLEAN, woke : BOOLEAN]

(* LastWake and Run of any sequence of scores.                             *)
WakeBefore(s, i) ==
  LET S == {j \in 1..(i - 1) : s[j].woke} IN IF S = {} THEN -Refractory ELSE Trigger!Max(S)
RunAt(s, most, i) ==
  /\ i - most + 1 >= WakeBefore(s, i) + Refractory + 1
  /\ \A j \in (i - most + 1)..i : s[j].hit

(* The streak is that of the hits since the pause after the last wake-up.  *)
Streak(s, streak, pause) ==
  LET n == Len(s)
      w == WakeBefore(s, Len(s) + 1)
  IN  /\ pause > 0 => n + pause = w + Refractory /\ streak = 0
      /\ pause = 0 => /\ w + Refractory <= n - streak
                      /\ \A j \in (n - streak + 1)..n : s[j].hit
                      /\ n - streak = w + Refractory \/ (n - streak >= 1 /\ ~s[n - streak].hit)

WakesRight(s, most) == \A i \in 1..Len(s) : s[i].woke <=> RunAt(s, most, i)

LEMMA WakeBeforeIs ==
  ASSUME NEW s \in Seq(Scores), NEW i \in 1..(Len(s) + 1)
  PROVE  /\ WakeBefore(s, i) \in Int /\ WakeBefore(s, i) + Refractory >= 0 /\ WakeBefore(s, i) < i
         /\ \/ WakeBefore(s, i) = -Refractory /\ \A j \in 1..(i - 1) : ~s[j].woke
            \/ /\ WakeBefore(s, i) \in 1..(i - 1) /\ s[WakeBefore(s, i)].woke
               /\ \A j \in (WakeBefore(s, i) + 1)..(i - 1) : ~s[j].woke
<1> DEFINE S == {j \in 1..(i - 1) : s[j].woke}
<1>1. i \in Nat /\ i >= 1 /\ Refractory \in Nat
  BY ListeningAssumption
<1>2. CASE S = {}
  <2>1. WakeBefore(s, i) = -Refractory
    BY <1>2 DEF WakeBefore
  <2>2. \A j \in 1..(i - 1) : ~s[j].woke
    BY <1>2
  <2>3. QED
    BY <1>1, <2>1, <2>2
<1>3. CASE S # {}
  <2>1. WakeBefore(s, i) = Trigger!Max(S)
    BY <1>3 DEF WakeBefore
  <2>2. S \subseteq 0..i
    BY <1>1
  <2>3. Trigger!Max(S) \in S /\ \A y \in S : y <= Trigger!Max(S)
    BY <1>1, <1>3, <2>2, MaxIs
  <2> DEFINE w == Trigger!Max(S)
  <2>4. w \in 1..(i - 1) /\ s[w].woke
    BY <2>3
  <2>5. \A j \in (w + 1)..(i - 1) : ~s[j].woke
    BY <2>3, <2>4
  <2> HIDE DEF w
  <2>6. QED
    BY <1>1, <2>1, <2>4, <2>5 DEF w
<1>4. QED
  BY <1>2, <1>3

(* One more score changes nothing of what came before.                     *)
LEMMA ScoreAppended ==
  ASSUME NEW s \in Seq(Scores), NEW r \in Scores, NEW most \in Nat \ {0}
  PROVE  LET t == Append(s, r)
         IN  /\ t \in Seq(Scores) /\ Len(t) = Len(s) + 1 /\ t[Len(s) + 1] = r
             /\ \A j \in 1..Len(s) : t[j] = s[j]
             /\ \A i \in 1..(Len(s) + 1) : WakeBefore(t, i) = WakeBefore(s, i)
             /\ WakeBefore(t, Len(s) + 2) = IF r.woke THEN Len(s) + 1 ELSE WakeBefore(s, Len(s) + 1)
             /\ WakesRight(s, most) /\ (r.woke <=> RunAt(t, most, Len(s) + 1)) => WakesRight(t, most)
<1> DEFINE t == Append(s, r)
           n == Len(s)
<1>1. /\ n \in Nat /\ t \in Seq(Scores) /\ Len(t) = n + 1 /\ t[n + 1] = r
      /\ \A j \in 1..n : t[j] = s[j]
  BY AppendProperties
<1> HIDE DEF t
<1>2. ASSUME NEW i \in 1..(n + 1)
      PROVE  WakeBefore(t, i) = WakeBefore(s, i)
  <2>1. {j \in 1..(i - 1) : t[j].woke} = {j \in 1..(i - 1) : s[j].woke}
    BY <1>1
  <2>2. QED
    BY <2>1 DEF WakeBefore
<1>3. WakeBefore(t, n + 2) = IF r.woke THEN n + 1 ELSE WakeBefore(s, n + 1)
  <2>1. CASE r.woke
    <3> DEFINE w == WakeBefore(t, n + 2)
    <3>1. /\ w \in Int
          /\ \/ \A j \in 1..((n + 2) - 1) : ~t[j].woke
             \/ /\ w \in 1..((n + 2) - 1) /\ t[w].woke
                /\ \A j \in (w + 1)..((n + 2) - 1) : ~t[j].woke
      BY <1>1, WakeBeforeIs
    <3> HIDE DEF w
    <3>2. n + 1 \in 1..((n + 2) - 1) /\ t[n + 1].woke
      BY <1>1, <2>1
    <3>3. w = n + 1
      BY <1>1, <3>1, <3>2
    <3>4. QED
      BY <2>1, <3>3 DEF w
  <2>2. CASE ~r.woke
    <3>1. {j \in 1..((n + 2) - 1) : t[j].woke} = {j \in 1..((n + 1) - 1) : s[j].woke}
      BY <1>1, <2>2
    <3>2. WakeBefore(t, n + 2) = WakeBefore(s, n + 1)
      BY <3>1 DEF WakeBefore
    <3>3. QED
      BY <2>2, <3>2
  <2>3. QED
    BY <2>1, <2>2
<1>4. ASSUME WakesRight(s, most), r.woke <=> RunAt(t, most, n + 1)
      PROVE  WakesRight(t, most)
  <2>1. ASSUME NEW i \in 1..n
        PROVE  t[i].woke <=> RunAt(t, most, i)
    <3> DEFINE w == WakeBefore(s, i)
    <3>1. w \in Int /\ w + Refractory >= 0 /\ WakeBefore(t, i) = w
      BY <1>2, WakeBeforeIs
    <3>2. s[i].woke <=> RunAt(s, most, i)
      BY <1>4 DEF WakesRight
    <3>3. /\ RunAt(s, most, i) <=> /\ i - most + 1 >= w + Refractory + 1
                                   /\ \A j \in (i - most + 1)..i : s[j].hit
          /\ RunAt(t, most, i) <=> /\ i - most + 1 >= w + Refractory + 1
                                   /\ \A j \in (i - most + 1)..i : t[j].hit
      BY <3>1 DEF RunAt
    <3> HIDE DEF w
    <3>4. Refractory \in Nat
      BY ListeningAssumption
    <3>5. i - most + 1 >= w + Refractory + 1 => \A j \in (i - most + 1)..i : j \in 1..n
      BY <1>1, <3>1, <3>4
    <3>6. t[i] = s[i]
      BY <1>1
    <3>7. RunAt(s, most, i) <=> RunAt(t, most, i)
      BY <1>1, <3>3, <3>5
    <3>8. QED
      BY <3>2, <3>6, <3>7
  <2>2. ASSUME NEW i \in 1..Len(t)
        PROVE  t[i].woke <=> RunAt(t, most, i)
    <3>1. CASE i = n + 1
      BY <1>1, <1>4, <3>1
    <3>2. CASE i # n + 1
      <4>1. i \in 1..n
        BY <1>1, <3>2
      <4>2. QED
        BY <2>1, <4>1
    <3>3. QED
      BY <3>1, <3>2
  <2>3. QED
    BY <2>2 DEF WakesRight
<1>5. QED
  BY <1>1, <1>2, <1>3, <1>4 DEF t

(* What a score makes of the streak and of the pause: one of four things.  *)
LEMMA StreakKept ==
  ASSUME NEW s \in Seq(Scores), NEW r \in Scores, NEW most \in Nat \ {0},
         NEW streak \in Nat, NEW pause \in Nat, streak < most,
         NEW streak2 \in Nat, NEW pause2 \in Nat,
         Streak(s, streak, pause), WakesRight(s, most),
         \/ pause > 0 /\ pause2 = pause - 1 /\ ~r.woke /\ streak2 = streak
         \/ pause = 0 /\ streak + 1 >= most /\ streak2 = 0 /\ pause2 = Refractory /\ r.hit /\ r.woke
         \/ pause = 0 /\ streak + 1 < most /\ streak2 = streak + 1 /\ pause2 = 0 /\ r.hit /\ ~r.woke
         \/ pause = 0 /\ streak2 = 0 /\ pause2 = 0 /\ ~r.hit /\ ~r.woke
  PROVE  /\ Append(s, r) \in Seq(Scores) /\ streak2 < most
         /\ Streak(Append(s, r), streak2, pause2) /\ WakesRight(Append(s, r), most)
<1> DEFINE t == Append(s, r)
           n == Len(s)
           w == WakeBefore(s, n + 1)
           w2 == WakeBefore(t, n + 2)
<1>1. /\ n \in Nat /\ t \in Seq(Scores) /\ Len(t) = n + 1 /\ t[n + 1] = r
      /\ \A j \in 1..n : t[j] = s[j]
      /\ WakeBefore(t, n + 1) = w /\ w2 = IF r.woke THEN n + 1 ELSE w
  <2>1. n \in Nat /\ n + 1 \in 1..(Len(s) + 1)
    BY LenProperties
  <2>2. QED
    BY <2>1, ScoreAppended
<1>2. w \in Int /\ w + Refractory >= 0 /\ w < n + 1 /\ Refractory \in Nat
  BY <1>1, WakeBeforeIs, ListeningAssumption
<1>3. /\ pause > 0 => n + pause = w + Refractory /\ streak = 0
      /\ pause = 0 => /\ w + Refractory <= n - streak
                      /\ \A j \in (n - streak + 1)..n : s[j].hit
                      /\ n - streak = w + Refractory \/ (n - streak >= 1 /\ ~s[n - streak].hit)
  BY DEF Streak
<1>4. RunAt(t, most, n + 1) <=> /\ (n + 1) - most + 1 >= w + Refractory + 1
                                /\ \A j \in ((n + 1) - most + 1)..(n + 1) : t[j].hit
  BY <1>1 DEF RunAt
<1>5. Streak(t, streak2, pause2) <=>
        /\ pause2 > 0 => (n + 1) + pause2 = w2 + Refractory /\ streak2 = 0
        /\ pause2 = 0 => /\ w2 + Refractory <= (n + 1) - streak2
                         /\ \A j \in ((n + 1) - streak2 + 1)..(n + 1) : t[j].hit
                         /\ \/ (n + 1) - streak2 = w2 + Refractory
                            \/ (n + 1) - streak2 >= 1 /\ ~t[(n + 1) - streak2].hit
  <2>1. Len(t) = n + 1 /\ (n + 1) + 1 = n + 2
    BY <1>1
  <2>2. WakeBefore(t, Len(t) + 1) = w2
    BY <2>1
  <2> HIDE DEF t, n, w, w2
  <2>3. QED
    BY <2>1, <2>2 DEF Streak
<1>6. (r.woke <=> RunAt(t, most, n + 1)) => WakesRight(t, most)
  BY ScoreAppended
<1> HIDE DEF t, n, w, w2
<1>7. CASE pause > 0 /\ pause2 = pause - 1 /\ ~r.woke /\ streak2 = streak
  <2>1. ~RunAt(t, most, n + 1)
    BY <1>1, <1>2, <1>3, <1>4, <1>7
  <2>2. Streak(t, streak2, pause2)
    <3>1. w2 = w /\ n + pause = w + Refractory /\ streak2 = 0
      BY <1>1, <1>3, <1>7
    <3>2. pause2 > 0 => (n + 1) + pause2 = w2 + Refractory
      BY <1>1, <1>2, <1>7, <3>1
    <3>3. pause2 = 0 => (n + 1) - streak2 = w2 + Refractory
      BY <1>1, <1>2, <1>7, <3>1
    <3>4. \A j \in ((n + 1) - streak2 + 1)..(n + 1) : t[j].hit
      BY <1>1, <3>1
    <3>5. QED
      BY <1>1, <1>2, <1>5, <3>1, <3>2, <3>3, <3>4
  <2>3. QED
    BY <1>1, <1>6, <1>7, <2>1, <2>2 DEF t
<1>8. CASE pause = 0 /\ streak + 1 >= most /\ streak2 = 0 /\ pause2 = Refractory /\ r.hit /\ r.woke
  <2>1. streak + 1 = most
    BY <1>8
  <2>2. (n + 1) - most + 1 >= w + Refractory + 1
    BY <1>1, <1>2, <1>3, <1>8, <2>1
  <2>3. ASSUME NEW j \in ((n + 1) - most + 1)..(n + 1)
        PROVE  t[j].hit
    <3>1. CASE j = n + 1
      BY <1>1, <1>8, <3>1
    <3>2. CASE j # n + 1
      <4>1. j \in (n - streak + 1)..n /\ j \in 1..n
        BY <1>1, <1>2, <1>3, <1>8, <2>1, <2>2, <3>2
      <4>2. QED
        BY <1>1, <1>3, <1>8, <4>1
    <3>3. QED
      BY <3>1, <3>2
  <2>4. RunAt(t, most, n + 1)
    BY <1>4, <2>2, <2>3
  <2>5. Streak(t, streak2, pause2)
    <3>1. w2 = n + 1 /\ streak2 = 0 /\ pause2 = Refractory
      BY <1>1, <1>8
    <3>2. \A j \in ((n + 1) - streak2 + 1)..(n + 1) : t[j].hit
      BY <1>1, <3>1
    <3>3. QED
      BY <1>1, <1>2, <1>5, <3>1, <3>2
  <2>6. QED
    BY <1>1, <1>6, <1>8, <2>4, <2>5 DEF t
<1>9. CASE pause = 0 /\ streak + 1 < most /\ streak2 = streak + 1 /\ pause2 = 0 /\ r.hit /\ ~r.woke
  <2>1. ~RunAt(t, most, n + 1)
    <3>1. SUFFICES ASSUME (n + 1) - most + 1 >= w + Refractory + 1,
                          \A j \in ((n + 1) - most + 1)..(n + 1) : t[j].hit
                   PROVE  FALSE
      BY <1>4
    <3>2. n - streak # w + Refractory
      BY <1>1, <1>2, <1>9, <3>1
    <3>3. n - streak >= 1 /\ ~s[n - streak].hit
      BY <1>3, <1>9, <3>2
    <3>4. n - streak \in ((n + 1) - most + 1)..(n + 1) /\ n - streak \in 1..n
      BY <1>1, <1>9, <3>3
    <3>5. QED
      BY <1>1, <3>1, <3>3, <3>4
  <2>2. Streak(t, streak2, pause2)
    <3>1. w2 = w /\ (n + 1) - streak2 = n - streak
      BY <1>1, <1>9
    <3>2. ASSUME NEW j \in ((n + 1) - streak2 + 1)..(n + 1)
          PROVE  t[j].hit
      <4>1. CASE j = n + 1
        BY <1>1, <1>9, <4>1
      <4>2. CASE j # n + 1
        <5>1. j \in (n - streak + 1)..n /\ j \in 1..n
          BY <1>1, <1>2, <1>3, <1>9, <3>1, <4>2
        <5>2. QED
          BY <1>1, <1>3, <1>9, <5>1
      <4>3. QED
        BY <4>1, <4>2
    <3>3. \/ (n + 1) - streak2 = w2 + Refractory
          \/ (n + 1) - streak2 >= 1 /\ ~t[(n + 1) - streak2].hit
      <4>1. CASE n - streak = w + Refractory
        BY <3>1, <4>1
      <4>2. CASE n - streak >= 1 /\ ~s[n - streak].hit
        <5>1. n - streak \in 1..n
          BY <1>1, <4>2
        <5>2. QED
          BY <1>1, <3>1, <4>2, <5>1
      <4>3. QED
        BY <1>3, <1>9, <4>1, <4>2
    <3>4. w2 + Refractory <= (n + 1) - streak2 /\ ~(pause2 > 0)
      BY <1>3, <1>9, <3>1
    <3>5. QED
      BY <1>5, <3>2, <3>3, <3>4
  <2>3. QED
    BY <1>1, <1>6, <1>9, <2>1, <2>2 DEF t
<1>10. CASE pause = 0 /\ streak2 = 0 /\ pause2 = 0 /\ ~r.hit /\ ~r.woke
  <2>1. ~RunAt(t, most, n + 1)
    <3>1. n + 1 \in ((n + 1) - most + 1)..(n + 1)
      BY <1>1
    <3>2. QED
      BY <1>1, <1>4, <1>10, <3>1
  <2>2. Streak(t, streak2, pause2)
    <3>1. w2 = w /\ (n + 1) - streak2 = n + 1
      BY <1>1, <1>10
    <3>2. w2 + Refractory <= n + 1
      BY <1>1, <1>2, <1>3, <1>10, <3>1
    <3>3. \A j \in ((n + 1) - streak2 + 1)..(n + 1) : t[j].hit
      BY <1>1, <3>1
    <3>4. QED
      BY <1>1, <1>5, <1>10, <3>1, <3>2, <3>3
  <2>3. QED
    BY <1>1, <1>6, <1>10, <2>1, <2>2 DEF t
<1>11. QED
  BY <1>7, <1>8, <1>9, <1>10

-----------------------------------------------------------------------------
(* A fold over a sequence is a function on the sets of its indices that    *)
(* takes the last one off: there is one.                                   *)
FoldOf(f, n, base, g) ==
  \A S \in SUBSET (1..n) :
    f[S] = IF S = {} THEN base ELSE g[<<f[S \ {Trigger!Max(S)}], Trigger!Max(S)>>]

LEMMA FoldExists ==
  ASSUME NEW Acc, NEW base \in Acc, NEW n \in Nat, NEW g \in [Acc \X (1..n) -> Acc]
  PROVE  \E f \in [SUBSET (1..n) -> Acc] : FoldOf(f, n, base, g)
<1> USE DEF FoldOf
<1> DEFINE Is(f, k) == FoldOf(f, k, base, g)
           Exists(k) == \E f \in [SUBSET (1..k) -> Acc] : Is(f, k)
           K == {k \in Nat : k <= n => Exists(k)}
<1>1. 0 \in K
  <2> DEFINE f == [S \in SUBSET (1..0) |-> base]
  <2>1. f \in [SUBSET (1..0) -> Acc]
    OBVIOUS
  <2>2. \A S \in SUBSET (1..0) : S = {} /\ f[S] = base
    OBVIOUS
  <2>3. Is(f, 0)
    BY <2>2
  <2>4. Exists(0)
    BY <2>1, <2>3
  <2> HIDE DEF Exists
  <2>5. QED
    BY <2>4
<1>2. ASSUME NEW k \in Nat, k + 1 <= n, Exists(k)
      PROVE  Exists(k + 1)
  <2> USE <1>2
  <2>1. PICK f \in [SUBSET (1..k) -> Acc] : Is(f, k)
    BY <1>2
  <2> DEFINE f2 == [S \in SUBSET (1..(k + 1)) |->
                      IF k + 1 \in S THEN g[<<f[S \ {k + 1}], k + 1>>] ELSE f[S]]
  <2>2. \A S \in SUBSET (1..(k + 1)) :
          /\ k + 1 \in S => S \ {k + 1} \in SUBSET (1..k)
          /\ k + 1 \notin S => S \in SUBSET (1..k)
    OBVIOUS
  <2>3. k + 1 \in 1..n
    OBVIOUS
  <2>4. f2 \in [SUBSET (1..(k + 1)) -> Acc]
    <3>1. ASSUME NEW S \in SUBSET (1..(k + 1))
          PROVE  (IF k + 1 \in S THEN g[<<f[S \ {k + 1}], k + 1>>] ELSE f[S]) \in Acc
      <4>1. CASE k + 1 \in S
        <5>1. f[S \ {k + 1}] \in Acc
          BY <2>2, <4>1
        <5>2. <<f[S \ {k + 1}], k + 1>> \in Acc \X (1..n)
          BY <2>3, <5>1
        <5>3. QED
          BY <4>1, <5>2
      <4>2. CASE k + 1 \notin S
        BY <2>2, <4>2
      <4>3. QED
        BY <4>1, <4>2
    <3>2. QED
      BY <3>1
  <2>5. ASSUME NEW S \in SUBSET (1..(k + 1))
        PROVE  f2[S] = IF S = {} THEN base ELSE g[<<f2[S \ {Trigger!Max(S)}], Trigger!Max(S)>>]
    <3>1. CASE k + 1 \in S
      <4>1. Trigger!Max(S) = k + 1
        <5>1. S \subseteq 0..(k + 1) /\ S # {} /\ k + 1 \in Nat
          BY <3>1
        <5>2. Trigger!Max(S) \in S /\ k + 1 <= Trigger!Max(S)
          BY <3>1, <5>1, MaxIs
        <5>3. Trigger!Max(S) \in 1..(k + 1)
          BY <5>2
        <5>4. QED
          BY <5>2, <5>3
      <4>2. f2[S \ {k + 1}] = f[S \ {k + 1}]
        OBVIOUS
      <4>3. f2[S] = g[<<f[S \ {k + 1}], k + 1>>]
        BY <3>1
      <4>4. QED
        BY <3>1, <4>1, <4>2, <4>3
    <3>2. CASE k + 1 \notin S
      <4>1. S \in SUBSET (1..k) /\ f2[S] = f[S]
        BY <2>2, <3>2
      <4>2. f2[S \ {Trigger!Max(S)}] = f[S \ {Trigger!Max(S)}]
        BY <3>2
      <4>3. f[S] = IF S = {} THEN base ELSE g[<<f[S \ {Trigger!Max(S)}], Trigger!Max(S)>>]
        BY <2>1, <4>1
      <4>4. QED
        BY <4>1, <4>2, <4>3
    <3>3. QED
      BY <3>1, <3>2
  <2> HIDE DEF f2
  <2>6. QED
    BY <2>4, <2>5
<1> HIDE DEF Exists
<1>3. \A k \in Nat : k \in K => k + 1 \in K
  BY <1>2
<1> HIDE DEF K
<1>4. Nat \subseteq K
  BY <1>1, <1>3, Inductive
<1>5. n \in K
  BY <1>4
<1>6. Exists(n)
  BY <1>5 DEF K
<1> HIDE DEF FoldOf
<1>7. QED
  BY <1>6 DEF Exists

(* The sets of the first indices are the steps of a fold.                  *)
LEMMA FirstIndices ==
  ASSUME NEW k \in Nat
  PROVE  /\ 1..(k + 1) # {} /\ Trigger!Max(1..(k + 1)) = k + 1
         /\ (1..(k + 1)) \ {k + 1} = 1..k
<1>1. 1..(k + 1) \subseteq 0..(k + 1) /\ k + 1 \in 1..(k + 1) /\ k + 1 \in Nat
  OBVIOUS
<1>2. Trigger!Max(1..(k + 1)) \in 1..(k + 1) /\ k + 1 <= Trigger!Max(1..(k + 1))
  BY <1>1, MaxIs
<1>3. QED
  BY <1>1, <1>2

-----------------------------------------------------------------------------
(* How OpenwakeOnnx takes its windows.                                     *)

(* One window more, and where a call begins.                               *)
OneMore(acc, hit) ==
  IF acc.woke THEN acc
  ELSE LET woke == hit /\ Trigger!Reached(acc.activation) IN
       [activation |-> IF hit THEN Trigger!Activated(acc.activation) ELSE acc.activation,
        woke |-> woke, done |-> IF woke THEN acc.done ELSE acc.done + 1,
        scores |-> Append(acc.scores, [hit |-> hit, woke |-> woke])]
Fresh == [activation |-> activation, woke |-> FALSE, done |-> 0, scores |-> <<>>]
Taken == [activation : Int, woke : BOOLEAN, done : Nat, scores : Seq(Scores)]
Folds(f, n, hits) ==
  f = [S \in SUBSET (1..n) |->
         IF S = {} THEN Fresh ELSE OneMore(f[S \ {Trigger!Max(S)}], hits[Trigger!Max(S)])]

LEMMA OneMoreTaken ==
  ASSUME NEW acc \in Taken, NEW hit \in BOOLEAN, triggerLevel \in Int
  PROVE  OneMore(acc, hit) \in Taken
<1> DEFINE woke == hit /\ Trigger!Reached(acc.activation)
           a == Trigger!Activated(acc.activation)
           s == Append(acc.scores, [hit |-> hit, woke |-> woke])
<1>1. acc.activation \in Int /\ acc.done \in Nat /\ acc.scores \in Seq(Scores)
  BY DEF Taken
<1>2. woke \in BOOLEAN
  BY <1>1 DEF Trigger!Reached
<1>3. a \in Int
  BY <1>1, ListeningAssumption DEF Trigger!Activated, Trigger!Reached
<1>4. s \in Seq(Scores)
  <2>1. [hit |-> hit, woke |-> woke] \in Scores
    BY <1>2 DEF Scores
  <2>2. QED
    BY <1>1, <2>1, AppendProperties
<1>5. OneMore(acc, hit) = IF acc.woke THEN acc
                          ELSE [activation |-> IF hit THEN a ELSE acc.activation, woke |-> woke,
                                done |-> IF woke THEN acc.done ELSE acc.done + 1, scores |-> s]
  BY DEF OneMore
<1> HIDE DEF woke, a, s
<1>6. CASE acc.woke
  BY <1>5, <1>6
<1>7. CASE ~acc.woke
  <2>1. /\ (IF hit THEN a ELSE acc.activation) \in Int
        /\ (IF woke THEN acc.done ELSE acc.done + 1) \in Nat
    BY <1>1, <1>2, <1>3
  <2>2. QED
    BY <1>2, <1>4, <1>5, <1>7, <2>1 DEF Taken
<1>8. QED
  BY <1>6, <1>7

(* Detected is the last of the steps from Fresh, one for each window.      *)
LEMMA DetectedSteps ==
  ASSUME NEW n \in Nat, NEW hits \in [1..n -> BOOLEAN], triggerLevel \in Int, activation \in Int
  PROVE  \E p \in [0..n -> Taken] :
           /\ p[0] = Fresh /\ Trigger!Detected(hits) = p[n]
           /\ \A k \in 0..(n - 1) : p[k + 1] = OneMore(p[k], hits[k + 1])
<1> DEFINE g == [x \in Taken \X (1..n) |-> OneMore(x[1], hits[x[2]])]
           D == CHOOSE f : Folds(f, n, hits)
<1>1. Fresh \in Taken
  <2>1. <<>> \in Seq(Scores)
    BY EmptySeq
  <2>2. QED
    BY <2>1 DEF Fresh, Taken
<1>2. g \in [Taken \X (1..n) -> Taken]
  <2>1. \A x \in Taken \X (1..n) : OneMore(x[1], hits[x[2]]) \in Taken
    BY OneMoreTaken
  <2>2. QED
    BY <2>1
<1> DEFINE F(f) == [S \in SUBSET (1..n) |->
                      IF S = {} THEN Fresh ELSE OneMore(f[S \ {Trigger!Max(S)}], hits[Trigger!Max(S)])]
<1>3. \E f \in [SUBSET (1..n) -> Taken] : Folds(f, n, hits)
  <2>1. PICK f \in [SUBSET (1..n) -> Taken] : FoldOf(f, n, Fresh, g)
    <3> HIDE DEF g
    <3>1. QED
      BY <1>1, <1>2, FoldExists
  <2>2. ASSUME NEW S \in SUBSET (1..n)
        PROVE  f[S] = IF S = {} THEN Fresh
                      ELSE OneMore(f[S \ {Trigger!Max(S)}], hits[Trigger!Max(S)])
    <3>1. CASE S = {}
      BY <2>1, <3>1 DEF FoldOf
    <3>2. CASE S # {}
      <4>1. Trigger!Max(S) \in 1..n
        <5>1. S \subseteq 0..n
          OBVIOUS
        <5>2. QED
          BY <3>2, <5>1, MaxIs
      <4>2. f[S \ {Trigger!Max(S)}] \in Taken
        OBVIOUS
      <4>3. g[<<f[S \ {Trigger!Max(S)}], Trigger!Max(S)>>]
              = OneMore(f[S \ {Trigger!Max(S)}], hits[Trigger!Max(S)])
        BY <4>1, <4>2
      <4>4. f[S] = g[<<f[S \ {Trigger!Max(S)}], Trigger!Max(S)>>]
        <5> HIDE DEF g
        <5>1. QED
          BY <2>1, <3>2 DEF FoldOf
      <4>5. QED
        BY <3>2, <4>3, <4>4
    <3>3. QED
      BY <3>1, <3>2
  <2>3. f = F(f)
    BY <2>2
  <2>4. QED
    BY <2>3 DEF Folds
<1>4. Folds(D, n, hits)
  BY <1>3
<1>5. Trigger!Detected(hits) = D[1..n]
  <2>1. DOMAIN hits = 1..n
    OBVIOUS
  <2>2. QED
    BY <2>1 DEF Trigger!Detected, Trigger!FoldLeft, Trigger!MapThenFoldSet, Folds, OneMore, Fresh
<1> HIDE DEF D, g
<1>6. \A S \in SUBSET (1..n) :
        D[S] = IF S = {} THEN Fresh ELSE OneMore(D[S \ {Trigger!Max(S)}], hits[Trigger!Max(S)])
  BY <1>4 DEF Folds
<1> DEFINE p == [k \in 0..n |-> D[1..k]]
<1>7. p[0] = Fresh /\ Trigger!Detected(hits) = p[n]
  <2>1. 1..0 = {} /\ {} \in SUBSET (1..n)
    OBVIOUS
  <2>2. D[{}] = Fresh
    BY <1>6, <2>1
  <2>3. p[0] = D[1..0] /\ p[n] = D[1..n]
    OBVIOUS
  <2>4. QED
    BY <1>5, <2>1, <2>2, <2>3
<1>8. ASSUME NEW k \in 0..(n - 1)
      PROVE  p[k + 1] = OneMore(p[k], hits[k + 1])
  <2>1. 1..(k + 1) \in SUBSET (1..n) /\ k \in 0..n /\ k + 1 \in 0..n /\ k \in Nat
    OBVIOUS
  <2> DEFINE S == 1..(k + 1)
  <2>4. S \in SUBSET (1..n) /\ S # {} /\ Trigger!Max(S) = k + 1 /\ S \ {k + 1} = 1..k
    BY <2>1, FirstIndices
  <2>2. D[S] = OneMore(D[1..k], hits[k + 1])
    <3> HIDE DEF S
    <3>1. D[S] = OneMore(D[S \ {Trigger!Max(S)}], hits[Trigger!Max(S)])
      BY <1>6, <2>4
    <3>2. QED
      BY <2>4, <3>1
  <2>3. QED
    BY <2>1, <2>2
<1>9. p = [k \in 0..n |-> p[k]]
  OBVIOUS
<1> HIDE DEF p
<1>10. p \in [0..n -> Taken]
  <2> DEFINE K == {k \in Nat : k <= n => p[k] \in Taken}
  <2>1. 0 \in K
    BY <1>1, <1>7
  <2>2. ASSUME NEW k \in Nat, k \in K
        PROVE  k + 1 \in K
    <3> SUFFICES ASSUME k + 1 <= n PROVE p[k + 1] \in Taken
      OBVIOUS
    <3>1. k \in 0..(n - 1) /\ hits[k + 1] \in BOOLEAN
      OBVIOUS
    <3>2. p[k] \in Taken
      BY <2>2, <3>1
    <3>3. QED
      BY <1>8, <3>1, <3>2, OneMoreTaken
  <2> HIDE DEF K
  <2>3. Nat \subseteq K
    BY <2>1, <2>2, Inductive
  <2>4. \A k \in 0..n : p[k] \in Taken
    BY <2>3 DEF K
  <2>5. QED
    BY <1>9, <2>4
<1>11. QED
  BY <1>7, <1>8, <1>10

(* After k windows: they are done unless one of them woke the program up,  *)
(* whose score is the last then; which a level above 1 does not let be.    *)
Fine(acc, k) ==
  /\ acc.done <= k /\ (~acc.woke => acc.done = k)
  /\ acc.woke => Len(acc.scores) > 0 /\ acc.scores[Len(acc.scores)].woke
  /\ triggerLevel > 1 => /\ acc.activation <= 0 /\ ~acc.woke
                         /\ \A i \in 1..Len(acc.scores) : ~acc.scores[i].woke

LEMMA OneMoreFine ==
  ASSUME NEW acc \in Taken, NEW hit \in BOOLEAN, NEW k \in Nat, triggerLevel \in Nat \ {0}, Fine(acc, k)
  PROVE  Fine(OneMore(acc, hit), k + 1)
<1> DEFINE woke == hit /\ Trigger!Reached(acc.activation)
           a == IF hit THEN Trigger!Activated(acc.activation) ELSE acc.activation
           r == [hit |-> hit, woke |-> woke]
           s == Append(acc.scores, r)
           d == IF woke THEN acc.done ELSE acc.done + 1
<1>1. acc.activation \in Int /\ acc.done \in Nat /\ acc.scores \in Seq(Scores)
  BY DEF Taken
<1>2. woke \in BOOLEAN /\ (triggerLevel > 1 /\ acc.activation <= 0 => ~woke)
  BY <1>1 DEF Trigger!Reached
<1>3. triggerLevel > 1 /\ acc.activation <= 0 => a <= 0
  BY <1>1, ListeningAssumption DEF Trigger!Activated, Trigger!Reached
<1>4. r \in Scores /\ r.woke = woke
  BY <1>2 DEF Scores
<1>5. OneMore(acc, hit) = IF acc.woke THEN acc
                          ELSE [activation |-> a, woke |-> woke, done |-> d, scores |-> s]
  BY DEF OneMore
<1> DEFINE m == Len(acc.scores)
<1>6. /\ m \in Nat /\ Len(s) = m + 1 /\ s[m + 1] = r
      /\ \A i \in 1..m : s[i] = acc.scores[i]
  <2> HIDE DEF r
  <2>1. QED
    BY <1>1, <1>4, AppendProperties, LenProperties
<1>7. d = IF woke THEN acc.done ELSE acc.done + 1
  OBVIOUS
<1> HIDE DEF woke, a, r, s, d, m
<1>8. CASE acc.woke
  BY <1>1, <1>5, <1>8 DEF Fine
<1>9. CASE ~acc.woke
  <2> DEFINE new == [activation |-> a, woke |-> woke, done |-> d, scores |-> s]
  <2>1. new.activation = a /\ new.woke = woke /\ new.done = d /\ new.scores = s
    OBVIOUS
  <2> HIDE DEF new
  <2>2. acc.done = k
    BY <1>9 DEF Fine
  <2>3. d <= k + 1 /\ (~woke => d = k + 1)
    BY <1>2, <1>7, <2>2
  <2>4. ASSUME woke
        PROVE  Len(s) > 0 /\ s[Len(s)].woke
    <3>1. s[Len(s)] = r
      BY <1>6
    <3>2. r.woke
      BY <1>4, <2>4
    <3>3. QED
      BY <1>6, <3>1, <3>2
  <2>5. ASSUME triggerLevel > 1
        PROVE  a <= 0 /\ ~woke /\ \A i \in 1..Len(s) : ~s[i].woke
    <3>1. acc.activation <= 0 /\ \A i \in 1..m : ~acc.scores[i].woke
      BY <2>5 DEF Fine, m
    <3>2. a <= 0 /\ ~woke
      BY <1>2, <1>3, <2>5, <3>1
    <3>3. ASSUME NEW i \in 1..Len(s)
          PROVE  ~s[i].woke
      <4>1. CASE i = m + 1
        BY <1>4, <1>6, <3>2, <4>1
      <4>2. CASE i # m + 1
        <5>1. i \in 1..m
          BY <1>6, <4>2
        <5>2. QED
          BY <1>6, <3>1, <5>1
      <4>3. QED
        BY <4>1, <4>2
    <3>4. QED
      BY <3>2, <3>3
  <2>6. Fine(new, k + 1)
    BY <2>1, <2>3, <2>4, <2>5 DEF Fine
  <2>7. QED
    BY <1>5, <1>9, <2>6 DEF new
<1>10. QED
  BY <1>8, <1>9

LEMMA DetectedFine ==
  ASSUME NEW n \in Nat, NEW hits \in [1..n -> BOOLEAN], triggerLevel \in Nat \ {0},
         activation \in Int, triggerLevel > 1 => activation <= 0
  PROVE  Trigger!Detected(hits) \in Taken /\ Fine(Trigger!Detected(hits), n)
<1>1. PICK p \in [0..n -> Taken] :
        /\ p[0] = Fresh /\ Trigger!Detected(hits) = p[n]
        /\ \A k \in 0..(n - 1) : p[k + 1] = OneMore(p[k], hits[k + 1])
  BY DetectedSteps
<1> DEFINE K == {k \in Nat : k <= n => Fine(p[k], k)}
<1>2. 0 \in K
  <2>1. /\ Fresh.activation = activation /\ Fresh.woke = FALSE /\ Fresh.done = 0
        /\ Fresh.scores = <<>>
    BY DEF Fresh
  <2>2. Fine(Fresh, 0)
    <3>1. \A i \in 1..Len(<<>>) : FALSE
      OBVIOUS
    <3>2. QED
      BY <2>1, <3>1 DEF Fine
  <2>3. QED
    BY <1>1, <2>2
<1>3. ASSUME NEW k \in Nat, k \in K
      PROVE  k + 1 \in K
  <2> SUFFICES ASSUME k + 1 <= n PROVE Fine(p[k + 1], k + 1)
    OBVIOUS
  <2>1. k \in 0..(n - 1) /\ p[k] \in Taken /\ hits[k + 1] \in BOOLEAN /\ Fine(p[k], k)
    BY <1>3
  <2>2. p[k + 1] = OneMore(p[k], hits[k + 1])
    BY <1>1, <2>1
  <2>3. Fine(OneMore(p[k], hits[k + 1]), k + 1)
    BY <2>1, OneMoreFine
  <2>4. QED
    BY <2>2, <2>3
<1> HIDE DEF K
<1>4. Nat \subseteq K
  BY <1>2, <1>3, Inductive
<1>5. Fine(p[n], n)
  BY <1>4 DEF K
<1>6. QED
  BY <1>1, <1>5

-----------------------------------------------------------------------------
(* What holds of both triggers.                                            *)

LivekitInv ==
  /\ hitStreak \in Nat /\ hitStreak < triggerLevel /\ cooldown \in Nat
  /\ Streak(scores, hitStreak, cooldown) /\ WakesRight(scores, triggerLevel)
OpenwakeInv ==
  /\ activation \in Int /\ (triggerLevel > 1 => activation <= 0)
  /\ samples \in Nat /\ samples < ChunkSamples
  /\ melsOut \in Int /\ melsOut < EmbWindow
  /\ featuresOut \in Nat
  /\ featuresOut >= WwFeatures => Len(scores) > 0 /\ scores[Len(scores)].woke
  /\ triggerLevel > 1 => \A i \in 1..Len(scores) : ~scores[i].woke
TriggerInv ==
  /\ livekit \in BOOLEAN /\ triggerLevel \in Nat \ {0} /\ scores \in Seq(Scores)
  /\ livekit => LivekitInv
  /\ ~livekit => OpenwakeInv

LEMMA TriggerSound == TriggerInv => Trigger!WakesOnRuns /\ Trigger!WindowsTaken
<1> SUFFICES ASSUME TriggerInv PROVE Trigger!WakesOnRuns /\ Trigger!WindowsTaken
  OBVIOUS
<1>1. scores \in Seq(Scores) /\ Len(scores) \in Nat /\ DOMAIN scores = 1..Len(scores)
  BY LenProperties DEF TriggerInv
<1>2. Trigger!WakesOnRuns
  <2>1. ASSUME livekit, NEW i \in DOMAIN scores
        PROVE  Trigger!Woke(i) <=> Trigger!Run(i)
    <3>1. scores[i].woke <=> RunAt(scores, triggerLevel, i)
      BY <1>1, <2>1 DEF TriggerInv, LivekitInv, WakesRight
    <3>2. Trigger!LastWake(i) = WakeBefore(scores, i)
      BY DEF Trigger!LastWake, Trigger!Woke, WakeBefore
    <3>3. Trigger!Run(i) <=> RunAt(scores, triggerLevel, i)
      BY <3>2 DEF Trigger!Run, RunAt
    <3>4. QED
      BY <3>1, <3>3 DEF Trigger!Woke
  <2>2. QED
    BY <2>1 DEF Trigger!WakesOnRuns
<1>3. Trigger!WindowsTaken
  <2>1. SUFFICES ASSUME ~livekit PROVE Trigger!WindowsTaken
    BY DEF Trigger!WindowsTaken
  <2>2. OpenwakeInv
    BY <2>1 DEF TriggerInv
  <2>3. Len(scores) > 0 => scores # <<>> /\ Trigger!Last(scores) = scores[Len(scores)]
    BY <1>1 DEF Trigger!Last
  <2>4. QED
    BY <1>1, <2>2, <2>3 DEF Trigger!WindowsTaken, OpenwakeInv, Trigger!Woke
<1>4. QED
  BY <1>2, <1>3

LEMMA NoScores ==
  ASSUME NEW most \in Nat \ {0}
  PROVE  <<>> \in Seq(Scores) /\ Len(<<>>) = 0 /\ Streak(<<>>, 0, 0) /\ WakesRight(<<>>, most)
<1>1. <<>> \in Seq(Scores) /\ Len(<<>>) = 0
  BY EmptySeq
<1>2. WakeBefore(<<>>, 1) = -Refractory
  <2>1. {j \in 1..(1 - 1) : <<>>[j].woke} = {}
    OBVIOUS
  <2>2. QED
    BY <2>1 DEF WakeBefore
<1>3. Streak(<<>>, 0, 0)
  <2>1. Len(<<>>) + 1 = 1 /\ WakeBefore(<<>>, Len(<<>>) + 1) + Refractory = 0
    BY <1>1, <1>2, ListeningAssumption
  <2>2. QED
    BY <1>1, <2>1 DEF Streak
<1>4. WakesRight(<<>>, most)
  BY <1>1 DEF WakesRight
<1>5. QED
  BY <1>1, <1>3, <1>4

LEMMA TriggerAtFirst == Trigger!Init => TriggerInv
<1> SUFFICES ASSUME Trigger!Init PROVE TriggerInv
  OBVIOUS
<1>1. /\ livekit \in BOOLEAN /\ triggerLevel \in Nat \ {0} /\ scores = <<>>
      /\ hitStreak = 0 /\ cooldown = 0 /\ activation = 0 /\ samples = 0 /\ melsOut = 0
      /\ featuresOut = 0
  BY ListeningAssumption DEF Trigger!Init
<1>2. scores \in Seq(Scores) /\ Len(scores) = 0
  BY <1>1, NoScores
<1>3. LivekitInv
  BY <1>1, NoScores DEF LivekitInv
<1>4. OpenwakeInv
  BY <1>1, <1>2, ListeningAssumption DEF OpenwakeInv
<1>5. QED
  BY <1>1, <1>2, <1>3, <1>4 DEF TriggerInv

LEMMA LivekitKept ==
  ASSUME TriggerInv, Trigger!Livekit
  PROVE  TriggerInv'
<1>1. /\ livekit = TRUE /\ livekit' = livekit /\ triggerLevel' = triggerLevel
      /\ triggerLevel \in Nat \ {0} /\ scores \in Seq(Scores) /\ LivekitInv
  BY DEF Trigger!Livekit, TriggerInv
<1>2. PICK r \in Scores :
        /\ scores' = Append(scores, r)
        /\ \/ cooldown > 0 /\ cooldown' = cooldown - 1 /\ ~r.woke /\ hitStreak' = hitStreak
           \/ /\ cooldown = 0 /\ hitStreak + 1 >= triggerLevel /\ hitStreak' = 0
              /\ cooldown' = Refractory /\ r.hit /\ r.woke
           \/ /\ cooldown = 0 /\ hitStreak + 1 < triggerLevel /\ hitStreak' = hitStreak + 1
              /\ cooldown' = 0 /\ r.hit /\ ~r.woke
           \/ cooldown = 0 /\ hitStreak' = 0 /\ cooldown' = 0 /\ ~r.hit /\ ~r.woke
  <2>1. \A a, b \in BOOLEAN :
          [hit |-> a, woke |-> b] \in Scores /\ [hit |-> a, woke |-> b].hit = a
            /\ [hit |-> a, woke |-> b].woke = b
    BY DEF Scores
  <2>2. CASE \E hit \in BOOLEAN : Trigger!CoolDown(hit)
    <3>1. PICK hit \in BOOLEAN : Trigger!CoolDown(hit)
      BY <2>2
    <3> DEFINE r == [hit |-> hit, woke |-> FALSE]
    <3>2. r \in Scores /\ ~r.woke
      BY <2>1
    <3>3. /\ cooldown > 0 /\ cooldown' = cooldown - 1 /\ hitStreak' = hitStreak
          /\ scores' = Append(scores, r)
      BY <3>1 DEF Trigger!CoolDown, Trigger!Scored
    <3> HIDE DEF r
    <3>4. QED
      BY <3>2, <3>3
  <2>3. CASE Trigger!Wake
    <3> DEFINE r == [hit |-> TRUE, woke |-> TRUE]
    <3>1. r \in Scores /\ r.hit /\ r.woke
      BY <2>1
    <3>2. /\ cooldown = 0 /\ hitStreak + 1 >= triggerLevel /\ hitStreak' = 0
          /\ cooldown' = Refractory /\ scores' = Append(scores, r)
      BY <2>3 DEF Trigger!Wake, Trigger!Scored, Trigger!Rest
    <3> HIDE DEF r
    <3>3. QED
      BY <3>1, <3>2
  <2>4. CASE Trigger!Hit
    <3> DEFINE r == [hit |-> TRUE, woke |-> FALSE]
    <3>1. r \in Scores /\ r.hit /\ ~r.woke
      BY <2>1
    <3>2. /\ cooldown = 0 /\ hitStreak + 1 < triggerLevel /\ hitStreak' = hitStreak + 1
          /\ cooldown' = 0 /\ scores' = Append(scores, r)
      BY <2>4 DEF Trigger!Hit, Trigger!Scored
    <3> HIDE DEF r
    <3>3. QED
      BY <3>1, <3>2
  <2>5. CASE Trigger!Miss
    <3> DEFINE r == [hit |-> FALSE, woke |-> FALSE]
    <3>1. r \in Scores /\ ~r.hit /\ ~r.woke
      BY <2>1
    <3>2. /\ cooldown = 0 /\ hitStreak' = 0 /\ cooldown' = 0 /\ scores' = Append(scores, r)
      BY <2>5 DEF Trigger!Miss, Trigger!Scored, Trigger!MissStreak
    <3> HIDE DEF r
    <3>3. QED
      BY <3>1, <3>2
  <2>6. QED
    BY <2>2, <2>3, <2>4, <2>5 DEF Trigger!Livekit
<1>3. /\ hitStreak \in Nat /\ cooldown \in Nat /\ hitStreak < triggerLevel
      /\ Streak(scores, hitStreak, cooldown) /\ WakesRight(scores, triggerLevel)
  BY <1>1 DEF LivekitInv
<1>4. hitStreak' \in Nat /\ cooldown' \in Nat
  BY <1>2, <1>3, ListeningAssumption
<1>5. /\ scores' \in Seq(Scores) /\ hitStreak' < triggerLevel
      /\ Streak(scores', hitStreak', cooldown') /\ WakesRight(scores', triggerLevel)
  BY <1>1, <1>2, <1>3, <1>4, StreakKept
<1>6. LivekitInv'
  BY <1>1, <1>4, <1>5 DEF LivekitInv
<1>7. QED
  BY <1>1, <1>5, <1>6 DEF TriggerInv

(* Windows that do not fit into what is held are none.                     *)
LEMMA WindowsLeft ==
  ASSUME NEW n \in Int, NEW w \in Nat \ {0}, NEW s \in Nat \ {0}
  PROVE  /\ Trigger!Windows(n, w, s) \in Nat
         /\ n - Trigger!Windows(n, w, s) * s < w
<1>1. CASE n < w
  BY <1>1 DEF Trigger!Windows
<1>2. CASE n >= w
  <2> DEFINE q == (n - w) \div s
  <2>1. q \in Nat /\ n - w < (q + 1) * s
    <3>1. n - w \in Nat
      BY <1>2
    <3>2. q \in Int /\ q >= 0 /\ (n - w) = s * q + ((n - w) % s) /\ (n - w) % s < s /\ (n - w) % s \in Int
      BY <3>1
    <3>3. QED
      BY <3>1, <3>2
  <2>2. Trigger!Windows(n, w, s) = q + 1
    BY <1>2 DEF Trigger!Windows
  <2> HIDE DEF q
  <2>3. (q + 1) * s \in Int
    BY <2>1
  <2>4. QED
    BY <2>1, <2>2, <2>3
<1>3. QED
  BY <1>1, <1>2

LEMMA OpenwakeKept ==
  ASSUME TriggerInv, NEW n \in 1..ChunkSamples, Trigger!Openwake(n)
  PROVE  TriggerInv'
<1> USE ListeningAssumption
<1> DEFINE all == samples + n
           mels == melsOut + ((all \div ChunkSamples) * ChunkMels)
           embs == Trigger!Windows(mels, EmbWindow, EmbStep)
           features == featuresOut + embs
           windows == Trigger!Windows(features, WwFeatures, 1)
<1>1. /\ livekit = FALSE /\ livekit' = livekit /\ triggerLevel' = triggerLevel
      /\ triggerLevel \in Nat \ {0} /\ scores \in Seq(Scores) /\ OpenwakeInv
  BY DEF Trigger!Openwake, TriggerInv
<1>2. /\ samples' = all % ChunkSamples /\ melsOut' = mels - (embs * EmbStep)
      /\ \E hits \in [1..windows -> BOOLEAN] :
           /\ activation' = Trigger!Detected(hits).activation
           /\ featuresOut' = features - Trigger!Detected(hits).done
           /\ scores' = scores \o Trigger!Detected(hits).scores
  BY DEF Trigger!Openwake
<1>3. PICK hits \in [1..windows -> BOOLEAN] :
        /\ activation' = Trigger!Detected(hits).activation
        /\ featuresOut' = features - Trigger!Detected(hits).done
        /\ scores' = scores \o Trigger!Detected(hits).scores
  BY <1>2
<1>4. all \in Nat /\ all \div ChunkSamples \in Nat
  BY <1>1 DEF OpenwakeInv
<1>5. samples' \in Nat /\ samples' < ChunkSamples
  <2> HIDE DEF all, mels
  <2>1. ChunkSamples \in Nat \ {0}
    OBVIOUS
  <2>2. all % ChunkSamples \in 0..(ChunkSamples - 1)
    BY <1>4, <2>1
  <2>3. QED
    BY <1>2, <2>1, <2>2
<1>6. mels \in Int
  <2>1. (all \div ChunkSamples) * ChunkMels \in Int
    BY <1>4
  <2>2. QED
    BY <1>1, <2>1 DEF OpenwakeInv
<1> HIDE DEF all, mels
<1>7. embs \in Nat /\ melsOut' \in Int /\ melsOut' < EmbWindow
  <2>1. embs \in Nat /\ mels - embs * EmbStep < EmbWindow
    BY <1>6, WindowsLeft
  <2>2. embs * EmbStep \in Int
    BY <2>1
  <2>3. QED
    BY <1>2, <1>6, <2>1, <2>2
<1> HIDE DEF embs
<1>8. features \in Nat
  BY <1>1, <1>7 DEF OpenwakeInv
<1>9. /\ windows \in Nat /\ windows <= features /\ features - windows < WwFeatures
  <2>1. windows \in Nat /\ features - windows * 1 < WwFeatures
    BY <1>8, WindowsLeft
  <2>2. windows <= features
    BY <1>8 DEF Trigger!Windows
  <2>3. QED
    BY <1>8, <2>1, <2>2
<1> HIDE DEF features, windows
<1> DEFINE done == Trigger!Detected(hits)
<1>10. done \in Taken /\ Fine(done, windows)
  BY <1>1, <1>9, DetectedFine DEF OpenwakeInv
<1>11. /\ done.activation \in Int /\ done.done \in Nat /\ done.scores \in Seq(Scores)
  BY <1>10 DEF Taken
<1>12. activation' \in Int /\ (triggerLevel > 1 => activation' <= 0)
  BY <1>3, <1>10, <1>11 DEF Fine
<1>13. featuresOut' \in Nat /\ (featuresOut' >= WwFeatures => done.woke)
  <2>1. done.done <= windows /\ (~done.woke => done.done = windows)
    BY <1>10 DEF Fine
  <2> HIDE DEF done
  <2>2. featuresOut' = features - done.done
    BY <1>3 DEF done
  <2>3. QED
    BY <1>8, <1>9, <1>11, <2>1, <2>2
<1> DEFINE m == Len(scores)
           k == Len(done.scores)
<1>14. /\ m \in Nat /\ k \in Nat /\ scores' \in Seq(Scores) /\ Len(scores') = m + k
       /\ \A i \in 1..(m + k) : scores'[i] = IF i <= m THEN scores[i] ELSE done.scores[i - m]
  <2> HIDE DEF done
  <2>1. scores' = scores \o done.scores
    BY <1>3 DEF done
  <2>2. QED
    BY <1>1, <1>11, <2>1, ConcatProperties, LenProperties
<1> HIDE DEF done, m, k
<1>15. featuresOut' >= WwFeatures => Len(scores') > 0 /\ scores'[Len(scores')].woke
  <2> SUFFICES ASSUME featuresOut' >= WwFeatures
               PROVE  Len(scores') > 0 /\ scores'[Len(scores')].woke
    OBVIOUS
  <2>1. k > 0 /\ done.scores[k].woke
    BY <1>10, <1>13 DEF Fine, k
  <2>2. m + k \in 1..(m + k) /\ ~(m + k <= m) /\ (m + k) - m = k
    BY <1>14, <2>1
  <2>3. scores'[m + k] = done.scores[k]
    BY <1>14, <2>2
  <2>4. QED
    BY <1>14, <2>1, <2>2, <2>3
<1>16. ASSUME triggerLevel > 1, NEW i \in 1..Len(scores')
       PROVE  ~scores'[i].woke
  <2>1. CASE i <= m
    <3>1. scores'[i] = scores[i] /\ i \in 1..Len(scores)
      BY <1>14, <2>1 DEF m
    <3>2. QED
      BY <1>1, <1>16, <3>1 DEF OpenwakeInv
  <2>2. CASE ~(i <= m)
    <3>1. scores'[i] = done.scores[i - m] /\ i - m \in 1..Len(done.scores)
      BY <1>14, <2>2 DEF k
    <3>2. QED
      BY <1>10, <1>16, <3>1 DEF Fine
  <2>3. QED
    BY <2>1, <2>2
<1>17. OpenwakeInv'
  BY <1>1, <1>5, <1>7, <1>12, <1>13, <1>15, <1>16 DEF OpenwakeInv
<1>18. QED
  BY <1>1, <1>14, <1>17 DEF TriggerInv

LEMMA TriggerKept ==
  ASSUME TriggerInv, Trigger!Next \/ UNCHANGED triggerVars
  PROVE  TriggerInv'
<1>1. CASE Trigger!Livekit
  BY <1>1, LivekitKept
<1>2. CASE Trigger!Stop
  <2>1. /\ livekit' = TRUE /\ triggerLevel' = triggerLevel /\ triggerLevel \in Nat \ {0}
        /\ hitStreak' = 0 /\ cooldown' = 0 /\ scores' = <<>>
    BY <1>2 DEF Trigger!Stop, TriggerInv
  <2>2. LivekitInv'
    BY <2>1, NoScores DEF LivekitInv
  <2>3. QED
    BY <2>1, <2>2, NoScores DEF TriggerInv
<1>3. CASE \E n \in 1..ChunkSamples : Trigger!Openwake(n)
  BY <1>3, OpenwakeKept
<1>4. CASE UNCHANGED triggerVars
  BY <1>4 DEF TriggerInv, LivekitInv, OpenwakeInv, triggerVars
<1>5. QED
  BY <1>1, <1>2, <1>3, <1>4 DEF Trigger!Next


-----------------------------------------------------------------------------
(* Listening ends for the reason the settings name, and a wake-up comes    *)
(* after just as many hits in a row as configured: of the run, from the    *)
(* invariants of the detector and of the trigger.                          *)
THEOREM ListeningStaysSound == Spec => []ListeningSound
<1>1. Init => DetectorInv /\ TriggerInv
  BY DetectorAtFirst, TriggerAtFirst DEF Init, AudioInit
<1>2. DetectorInv /\ [Next]_vars => DetectorInv'
  BY RunSteps, DetectorKept
<1>3. TriggerInv /\ [Next]_vars => TriggerInv'
  BY RunSteps, TriggerKept
<1>4. DetectorInv /\ TriggerInv => ListeningSound
  BY TriggerSound DEF DetectorInv, ListeningSound
<1>5. QED
  BY <1>1, <1>2, <1>3, <1>4, PTL DEF Spec

-----------------------------------------------------------------------------
(* What a sentence is taken for: the slots of its intent.                  *)

(* What is known of any sequence.                                          *)
LEMMA NatSeq ==
  ASSUME NEW S, NEW q \in Seq(S)
  PROVE  /\ Len(q) \in Nat /\ DOMAIN q = 1..Len(q)
         /\ \A i \in 1..Len(q) : q[i] \in S
         /\ q # <<>> <=> Len(q) # 0
  BY EmptySeq

(* Sequences joined one after the other are a sequence of what they hold.  *)
Joins(f, n, seqs) == f = [i \in 1..n |-> IF i = 1 THEN seqs[i] ELSE f[i - 1] \o seqs[i]]
LEMMA FlattenIs ==
  ASSUME NEW P, NEW seqs \in Seq(Seq(P))
  PROVE  Intents!FlattenSeq(seqs) \in Seq(P)
<1> DEFINE n == Len(seqs)
           g == [x \in Seq(P) \X (1..n) |-> x[1] \o seqs[x[2]]]
           D == CHOOSE f : Joins(f, n, seqs)
<1>1. n \in Nat /\ (\A i \in 1..n : seqs[i] \in Seq(P)) /\ (seqs # <<>> <=> n # 0)
  BY NatSeq
<1>2. CASE n = 0
  <2>1. Intents!FlattenSeq(seqs) = seqs /\ seqs = <<>>
    BY <1>1, <1>2 DEF Intents!FlattenSeq
  <2>2. QED
    BY <2>1, EmptySeq
<1>3. CASE n # 0
  <2>1. <<>> \in Seq(P)
    BY EmptySeq
  <2>2. \A s, t \in Seq(P) : s \o t \in Seq(P)
    BY ConcatProperties
  <2>3. g \in [Seq(P) \X (1..n) -> Seq(P)]
    BY <1>1, <2>2
  <2>4. \E f : Joins(f, n, seqs)
    <3>1. PICK f \in [SUBSET (1..n) -> Seq(P)] : FoldOf(f, n, <<>>, g)
      <4> HIDE DEF g, n
      <4>1. QED
        BY <1>1, <2>1, <2>3, FoldExists
    <3> DEFINE h == [i \in 1..n |-> f[1..i]]
    <3>2. ASSUME NEW k \in 0..(n - 1)
          PROVE  f[1..(k + 1)] = f[1..k] \o seqs[k + 1]
      <4> DEFINE S == 1..(k + 1)
      <4>1. /\ k \in Nat /\ k + 1 \in 1..n /\ S \in SUBSET (1..n) /\ 1..k \in SUBSET (1..n)
        BY <1>1
      <4>2. S # {} /\ Trigger!Max(S) = k + 1 /\ S \ {k + 1} = 1..k
        BY <4>1, FirstIndices
      <4> HIDE DEF S
      <4>3. f[S] = g[<<f[1..k], k + 1>>]
        <5> HIDE DEF g, n
        <5>1. QED
          BY <3>1, <4>1, <4>2 DEF FoldOf
      <4>4. f[1..k] \in Seq(P)
        BY <3>1, <4>1
      <4>5. g[<<f[1..k], k + 1>>] = f[1..k] \o seqs[k + 1]
        BY <4>1, <4>4
      <4>6. QED
        BY <4>3, <4>5 DEF S
    <3>3. f[1..0] = <<>>
      <4>1. 1..0 = {} /\ {} \in SUBSET (1..n)
        OBVIOUS
      <4> HIDE DEF g, n
      <4>2. QED
        BY <3>1, <4>1 DEF FoldOf
    <3>4. ASSUME NEW i \in 1..n
          PROVE  h[i] = IF i = 1 THEN seqs[i] ELSE h[i - 1] \o seqs[i]
      <4>1. i - 1 \in 0..(n - 1) /\ (i - 1) + 1 = i
        BY <1>1
      <4>2. f[1..i] = f[1..(i - 1)] \o seqs[i]
        BY <3>2, <4>1
      <4>3. CASE i = 1
        <5>1. seqs[1] \in Seq(P) /\ <<>> \o seqs[1] = seqs[1]
          <6>1. seqs[1] \in Seq(P)
            BY <1>1, <4>3
          <6>2. QED
            BY <6>1, ConcatEmptySeq
        <5>2. i - 1 = 0
          BY <4>3
        <5>3. QED
          BY <3>3, <4>2, <4>3, <5>1, <5>2
      <4>4. CASE i # 1
        <5>1. i - 1 \in 1..n
          BY <4>1, <4>4
        <5>2. QED
          BY <4>2, <4>4, <5>1
      <4>5. QED
        BY <4>3, <4>4
    <3>5. h = [i \in 1..n |-> IF i = 1 THEN seqs[i] ELSE h[i - 1] \o seqs[i]]
      BY <3>4
    <3> HIDE DEF h
    <3>6. QED
      BY <3>5 DEF Joins
  <2>5. Joins(D, n, seqs)
    BY <2>4
  <2>6. Intents!FlattenSeq(seqs) = D[n]
    BY <1>3 DEF Intents!FlattenSeq, Joins
  <2> HIDE DEF D
  <2> DEFINE K == {k \in Nat : k < n => D[k + 1] \in Seq(P)}
  <2>7. 0 \in K
    BY <1>1, <1>3, <2>5 DEF Joins
  <2>8. ASSUME NEW k \in Nat, k \in K
        PROVE  k + 1 \in K
    <3> SUFFICES ASSUME k + 1 < n PROVE D[k + 1 + 1] \in Seq(P)
      OBVIOUS
    <3>1. D[k + 1] \in Seq(P) /\ k + 1 + 1 \in 1..n /\ k + 1 + 1 # 1 /\ (k + 1 + 1) - 1 = k + 1
      BY <1>1, <2>8
    <3>2. D[k + 1 + 1] = D[k + 1] \o seqs[k + 1 + 1] /\ seqs[k + 1 + 1] \in Seq(P)
      BY <1>1, <2>5, <3>1 DEF Joins
    <3>3. QED
      BY <2>2, <3>1, <3>2
  <2> HIDE DEF K
  <2>9. Nat \subseteq K
    BY <2>7, <2>8, Inductive
  <2>10. D[(n - 1) + 1] \in Seq(P) /\ (n - 1) + 1 = n
    <3>1. n - 1 \in K /\ n - 1 < n /\ (n - 1) + 1 = n
      BY <1>1, <1>3, <2>9
    <3>2. QED
      BY <3>1 DEF K
  <2>11. QED
    BY <2>6, <2>10
<1>4. QED
  BY <1>2, <1>3

(* What a plugin may be handed for an intent by an engine.                 *)
Handed(by, intent, slot) ==
  /\ intent = "CHANGE_VOL" =>
       slot.name = "user_v" \/ (slot.name = "user_d" /\ slot.value \in {"--HIGHER--", "--SMALLER--"})
  /\ intent = "MUSICINFO" => slot.name \in {"user_music_name", "user_singer_name"}
  /\ slot.name = "time" => slot.value = "seconds"
  /\ by = "llm" /\ intent \notin {"CHANGE_VOL", "MUSICINFO"} =>
       slot.name \in Intents!Schema[intent]

(* An entity becomes one slot or none.                                     *)
LEMMA SlotHanded ==
  ASSUME NEW by, NEW intent, NEW slot \in Intents!EntitySlots,
         by = "llm" => Intents!Allowed(intent, slot)
  PROVE  \/ Intents!SlotOf(by, intent, slot) = <<>>
         \/ \E s : Intents!SlotOf(by, intent, slot) = <<s>> /\ Handed(by, intent, s)
<1> DEFINE is == Intents!SlotOf(by, intent, slot)
<1>1. \A name, word : Intents!Slot(name, word).name = name /\ Intents!Slot(name, word).value = word
  BY DEF Intents!Slot
<1>2. CASE intent = "CHANGE_VOL"
  <2>1. \/ is = <<Intents!Slot("user_v", slot.value)>>
        \/ is = Intents!Direction(by, slot.value) \/ is = <<>>
    BY <1>2 DEF Intents!SlotOf
  <2>2. \/ Intents!Direction(by, slot.value) = <<Intents!Slot("user_d", "--HIGHER--")>>
        \/ Intents!Direction(by, slot.value) = <<Intents!Slot("user_d", "--SMALLER--")>>
        \/ Intents!Direction(by, slot.value) = <<>>
    <3> DEFINE signs == Intents!Signs(IF by = "onnx" THEN "rasa" ELSE by)
               has == IF by = "onnx" THEN {Intents!Trend(slot.value)} ELSE Intents!CharsOf[slot.value]
    <3>1. Intents!Direction(by, slot.value) =
            CASE has \cap signs.up # {} -> <<Intents!Slot("user_d", "--HIGHER--")>>
              [] has \cap signs.up = {} /\ has \cap signs.down # {} -> <<Intents!Slot("user_d", "--SMALLER--")>>
              [] OTHER -> <<>>
      BY DEF Intents!Direction
    <3> HIDE DEF signs, has
    <3>2. QED
      BY <3>1
  <2>3. \A v : Handed(by, intent, Intents!Slot("user_v", v))
    BY <1>1, <1>2 DEF Handed
  <2>4. \A v \in {"--HIGHER--", "--SMALLER--"} : Handed(by, intent, Intents!Slot("user_d", v))
    BY <1>1, <1>2 DEF Handed
  <2>5. QED
    BY <2>1, <2>2, <2>3, <2>4
<1>3. CASE intent = "MUSICINFO"
  <2>1. \/ is = <<Intents!Slot("user_music_name", slot.value)>>
        \/ is = <<Intents!Slot("user_singer_name", slot.value)>> \/ is = <<>>
    BY <1>3 DEF Intents!SlotOf
  <2>2. \A v : /\ Handed(by, intent, Intents!Slot("user_music_name", v))
               /\ Handed(by, intent, Intents!Slot("user_singer_name", v))
    BY <1>1, <1>3 DEF Handed
  <2>3. QED
    BY <2>1, <2>2
<1>4. CASE intent \notin {"CHANGE_VOL", "MUSICINFO"}
  <2>1. is = IF slot.name = "time" THEN Intents!Normalized(slot.value) ELSE <<slot>>
    BY <1>4 DEF Intents!SlotOf
  <2>2. by = "llm" => slot.name \in Intents!Schema[intent]
    BY DEF Intents!Allowed
  <2>3. CASE slot.name = "time"
    <3>1. is = <<Intents!Slot("time", "seconds")>> \/ is = <<>>
      BY <2>1, <2>3 DEF Intents!Normalized
    <3>2. Handed(by, intent, Intents!Slot("time", "seconds"))
      BY <1>1, <1>4, <2>2, <2>3 DEF Handed
    <3>3. QED
      BY <3>1, <3>2
  <2>4. CASE slot.name # "time"
    BY <1>4, <2>1, <2>2, <2>4 DEF Handed
  <2>5. QED
    BY <2>3, <2>4
<1>5. QED
  BY <1>2, <1>3, <1>4

(* So does each of a list of entities.                                     *)
LEMMA EntitiesHanded ==
  ASSUME NEW by, NEW intent, NEW found,
         found \in Seq({slot \in Intents!EntitySlots : by = "llm" => Intents!Allowed(intent, slot)})
  PROVE  /\ Intents!Entity2Slot(by, intent, found).name = intent
         /\ LET slots == Intents!Entity2Slot(by, intent, found).slots
            IN  \A i \in 1..Len(slots) : Handed(by, intent, slots[i])
<1> DEFINE n == Len(found)
           seqs == [i \in 1..n |-> Intents!SlotOf(by, intent, found[i])]
           All == {slot \in Intents!EntitySlots : by = "llm" => Intents!Allowed(intent, slot)}
           P == {s \in UNION {{x} \cup {Intents!SlotOf(by, intent, x)[1]} : x \in All} : Handed(by, intent, s)}
<1>1. n \in Nat /\ \A i \in 1..n : found[i] \in All
  BY NatSeq
<1>2. ASSUME NEW i \in 1..n
      PROVE  seqs[i] \in Seq(P)
  <2>1. found[i] \in All
    BY <1>1
  <2>2. \/ Intents!SlotOf(by, intent, found[i]) = <<>>
        \/ \E s : Intents!SlotOf(by, intent, found[i]) = <<s>> /\ Handed(by, intent, s)
    BY <2>1, SlotHanded
  <2>3. CASE Intents!SlotOf(by, intent, found[i]) = <<>>
    <3>1. seqs[i] = <<>>
      BY <2>3
    <3>2. QED
      BY <3>1, EmptySeq
  <2>4. ASSUME NEW s, Intents!SlotOf(by, intent, found[i]) = <<s>>, Handed(by, intent, s)
        PROVE  seqs[i] \in Seq(P)
    <3>1. Intents!SlotOf(by, intent, found[i])[1] = s
      BY <2>4
    <3>2. s \in P
      BY <2>1, <2>4, <3>1
    <3>3. seqs[i] = <<s>>
      BY <2>4
    <3> HIDE DEF P, seqs
    <3>4. QED
      BY <3>2, <3>3
  <2>5. QED
    BY <2>2, <2>3, <2>4
<1>3. seqs \in Seq(Seq(P))
  <2> DEFINE T == Seq(P)
  <2>1. \A i \in 1..n : seqs[i] \in T
    BY <1>2
  <2> HIDE DEF T
  <2>2. seqs \in [1..n -> T]
    BY <2>1
  <2> HIDE DEF seqs, n
  <2>3. seqs \in Seq(T)
    BY <1>1, <2>2
  <2>4. QED
    BY <2>3 DEF T
<1> HIDE DEF P
<1>4. Intents!FlattenSeq(seqs) \in Seq(P)
  <2> HIDE DEF seqs
  <2>1. QED
    BY <1>3, FlattenIs
<1>5. Intents!Entity2Slot(by, intent, found) = [name |-> intent, slots |-> Intents!FlattenSeq(seqs)]
  BY DEF Intents!Entity2Slot
<1> HIDE DEF seqs
<1> DEFINE slots == Intents!FlattenSeq(seqs)
<1>6. \A i \in 1..Len(slots) : slots[i] \in P
  BY <1>4, NatSeq
<1>7. \A i \in 1..Len(slots) : Handed(by, intent, slots[i])
  BY <1>6 DEF P
<1> HIDE DEF slots
<1>8. QED
  BY <1>5, <1>7 DEF slots

(* A language model's entities are those of the intent.                    *)
LEMMA GrantedAllowed ==
  ASSUME NEW intent, NEW found \in Seq(Intents!EntitySlots)
  PROVE  Intents!Granted(intent, found)
           \in Seq({slot \in Intents!EntitySlots : Intents!Allowed(intent, slot)})
<1> DEFINE n == Len(found)
           P == {slot \in Intents!EntitySlots : Intents!Allowed(intent, slot)}
           seqs == [i \in 1..n |-> IF Intents!Allowed(intent, found[i]) THEN <<found[i]>> ELSE <<>>]
<1>1. n \in Nat /\ \A i \in 1..n : found[i] \in Intents!EntitySlots
  BY NatSeq
<1>2. ASSUME NEW i \in 1..n
      PROVE  seqs[i] \in Seq(P)
  <2>1. CASE Intents!Allowed(intent, found[i])
    <3>1. seqs[i] = <<found[i]>> /\ found[i] \in P
      BY <1>1, <2>1
    <3> HIDE DEF P, seqs
    <3>2. QED
      BY <3>1
  <2>2. CASE ~Intents!Allowed(intent, found[i])
    <3>1. seqs[i] = <<>>
      BY <2>2
    <3>2. QED
      BY <3>1, EmptySeq
  <2>3. QED
    BY <2>1, <2>2
<1>3. seqs \in Seq(Seq(P))
  <2> DEFINE T == Seq(P)
  <2>1. \A i \in 1..n : seqs[i] \in T
    BY <1>2
  <2> HIDE DEF T
  <2>2. seqs \in [1..n -> T]
    BY <2>1
  <2> HIDE DEF seqs, n
  <2>3. seqs \in Seq(T)
    BY <1>1, <2>2
  <2>4. QED
    BY <2>3 DEF T
<1>4. Intents!Granted(intent, found) = Intents!FlattenSeq(seqs)
  BY DEF Intents!Granted
<1> HIDE DEF P, seqs
<1>5. Intents!FlattenSeq(seqs) \in Seq(P)
  BY <1>3, FlattenIs
<1>6. QED
  BY <1>4, <1>5 DEF P

HandedInv == \A i \in 1..Len(parsed.slots) : Handed(nluEngine, parsed.name, parsed.slots[i])

LEMMA SeqOfIsSeq ==
  ASSUME NEW S, NEW n \in Nat, NEW list \in Intents!SeqOf(S, n)
  PROVE  list \in Seq(S)
<1>1. PICK m \in 0..n : list \in [1..m -> S]
  BY DEF Intents!SeqOf
<1>2. QED
  BY <1>1

LEMMA NoneHanded == Intents!None.slots = <<>> /\ Len(Intents!None.slots) = 0
  BY DEF Intents!None

LEMMA HandedKept ==
  ASSUME HandedInv, Intents!Next \/ UNCHANGED nluVars
  PROVE  HandedInv'
<1>1. CASE UNCHANGED <<nluEngine, parsed>>
  BY <1>1 DEF HandedInv
<1>2. ASSUME parsed' = Intents!None
      PROVE  HandedInv'
  <2>1. 1..Len(parsed'.slots) = {}
    BY <1>2, NoneHanded
  <2>2. QED
    BY <2>1 DEF HandedInv
<1>3. ASSUME NEW intent, NEW found \in Seq(Intents!EntitySlots), nluEngine' = nluEngine,
             nluEngine # "llm", parsed' = Intents!Entity2Slot(nluEngine, intent, found)
      PROVE  HandedInv'
  <2>1. {slot \in Intents!EntitySlots : nluEngine = "llm" => Intents!Allowed(intent, slot)}
          = Intents!EntitySlots
    BY <1>3
  <2>2. QED
    BY <1>3, <2>1, EntitiesHanded DEF HandedInv
<1>4. ASSUME NEW answered, NEW intent, NEW found \in Seq(Intents!EntitySlots),
             Intents!LLMParseIntent(answered, intent, found)
      PROVE  HandedInv'
  <2>1. /\ nluEngine = "llm" /\ nluEngine' = nluEngine
        /\ parsed' = IF answered THEN Intents!ParseOutput(intent, found) ELSE Intents!None
    BY <1>4 DEF Intents!LLMParseIntent
  <2>2. CASE parsed' = Intents!None
    BY <1>2, <2>2
  <2>3. CASE parsed' = Intents!Entity2Slot("llm", intent, Intents!Granted(intent, found))
    <3> DEFINE list == Intents!Granted(intent, found)
    <3>1. list \in Seq({slot \in Intents!EntitySlots : Intents!Allowed(intent, slot)})
      BY GrantedAllowed
    <3>2. {slot \in Intents!EntitySlots : Intents!Allowed(intent, slot)}
            = {slot \in Intents!EntitySlots : nluEngine = "llm" => Intents!Allowed(intent, slot)}
      BY <2>1
    <3> HIDE DEF list
    <3>3. list \in Seq({slot \in Intents!EntitySlots : nluEngine = "llm" => Intents!Allowed(intent, slot)})
      BY <3>1, <3>2
    <3>4. parsed' = Intents!Entity2Slot(nluEngine, intent, list)
      BY <2>1, <2>3 DEF list
    <3>5. QED
      BY <2>1, <3>3, <3>4, EntitiesHanded DEF HandedInv
  <2>4. QED
    BY <2>1, <2>2, <2>3 DEF Intents!ParseOutput
<1>5. ASSUME NEW answered, NEW intent, NEW found \in Seq(Intents!EntitySlots), NEW confidence,
             Intents!RasaParseIntent(answered, intent, found, confidence)
      PROVE  HandedInv'
  <2>1. /\ nluEngine = "rasa" /\ nluEngine' = nluEngine
        /\ parsed' = Intents!Entity2Slot("rasa", intent, found) \/ parsed' = Intents!None
    BY <1>5 DEF Intents!RasaParseIntent
  <2>2. QED
    BY <1>2, <1>3, <2>1
<1>6. ASSUME NEW answered, NEW intent, NEW found \in Seq(Intents!EntitySlots), NEW confidence,
             Intents!OnnxParseIntent(answered, intent, found, confidence)
      PROVE  HandedInv'
  <2>1. /\ nluEngine = "onnx" /\ nluEngine' = nluEngine
        /\ parsed' = Intents!Entity2Slot("onnx", intent, found) \/ parsed' = Intents!None
    BY <1>6 DEF Intents!OnnxParseIntent
  <2>2. QED
    BY <1>2, <1>3, <2>1
<1>7. CASE Intents!Dispatched
  BY <1>2, <1>7 DEF Intents!Dispatched
<1>8. CASE Intents!Stop \/ UNCHANGED nluVars
  BY <1>1, <1>8 DEF Intents!Stop, nluVars
<1>9. Intents!SeqOf(Intents!EntitySlots, MaxSlots) \subseteq Seq(Intents!EntitySlots)
  BY LanguageAssumption, SeqOfIsSeq
<1>10. QED
  BY <1>4, <1>5, <1>6, <1>7, <1>8, <1>9 DEF Intents!Next

-----------------------------------------------------------------------------
(* The Rasa service: at most one is alive, and the pid file names no other *)
(* one; the steps that start one find the port free.                       *)
OneAlive(procs) == \A p, q \in DOMAIN procs : procs[p].alive /\ procs[q].alive => p = q
RasaInv ==
  /\ model \in Models /\ servers \in Seq([model : Models, alive : BOOLEAN])
  /\ OneAlive(servers)

LEMMA KilledFewer ==
  ASSUME RasaInv, NEW p
  PROVE  /\ Rasa!Killed(servers, p) \in Seq([model : Models, alive : BOOLEAN])
         /\ DOMAIN Rasa!Killed(servers, p) = DOMAIN servers
         /\ \A q \in DOMAIN servers :
              Rasa!Killed(servers, p)[q].alive => servers[q].alive /\ q # p
<1>1. /\ servers \in Seq([model : Models, alive : BOOLEAN]) /\ DOMAIN servers = 1..Len(servers)
      /\ \A q \in DOMAIN servers : servers[q] \in [model : Models, alive : BOOLEAN]
  BY NatSeq DEF RasaInv
<1>2. CASE p \notin DOMAIN servers
  BY <1>1, <1>2 DEF Rasa!Killed
<1>3. CASE p \in DOMAIN servers
  <2> DEFINE r == [servers[p] EXCEPT !.alive = FALSE]
             s == [servers EXCEPT ![p] = r]
  <2>1. Rasa!Killed(servers, p) = s
    BY <1>3 DEF Rasa!Killed
  <2>2. r \in [model : Models, alive : BOOLEAN] /\ ~r.alive
    BY <1>1, <1>3
  <2> HIDE DEF r
  <2>3. s \in Seq([model : Models, alive : BOOLEAN]) /\ DOMAIN s = DOMAIN servers
    BY <1>1, <1>3, <2>2
  <2>4. \A q \in DOMAIN servers : s[q] = IF q = p THEN r ELSE servers[q]
    OBVIOUS
  <2> HIDE DEF s
  <2>5. QED
    BY <2>1, <2>2, <2>3, <2>4
<1>4. QED
  BY <1>2, <1>3

LEMMA AliveIs ==
  ASSUME RasaInv
  PROVE  /\ Rasa!Alive \subseteq DOMAIN servers /\ Rasa!Alive \subseteq Nat
         /\ \A p, q \in Rasa!Alive : p = q
         /\ \A p \in Rasa!Alive : Rasa!Alive = {p} /\ Rasa!Listening = p
<1>1. DOMAIN servers = 1..Len(servers) /\ Len(servers) \in Nat
  BY NatSeq DEF RasaInv
<1>2. /\ Rasa!Alive \subseteq DOMAIN servers /\ Rasa!Alive \subseteq Nat
      /\ \A p, q \in Rasa!Alive : p = q
  BY <1>1 DEF Rasa!Alive, RasaInv, OneAlive
<1>3. ASSUME NEW p \in Rasa!Alive
      PROVE  Rasa!Alive = {p} /\ Rasa!Listening = p
  <2>1. Rasa!Alive = {p} /\ p \in Nat
    BY <1>2
  <2>2. Rasa!Min({p}) = p
    BY <2>1 DEF Rasa!Min
  <2>3. QED
    BY <2>1, <2>2 DEF Rasa!Listening
<1>4. QED
  BY <1>2, <1>3

LEMMA ServiceKept ==
  ASSUME RasaInv, Rasa!Next \/ UNCHANGED rasaVars
  PROVE  RasaInv'
<1> DEFINE Procs == [model : Models, alive : BOOLEAN]
<1>1. model \in Models /\ servers \in Seq(Procs) /\ OneAlive(servers)
  BY DEF RasaInv
<1>2. ASSUME NEW p
      PROVE  Rasa!Killed(servers, p) \in Seq(Procs) /\ OneAlive(Rasa!Killed(servers, p))
  BY <1>1, KilledFewer DEF OneAlive
<1>3. CASE UNCHANGED <<model, servers>>
  BY <1>3 DEF RasaInv, OneAlive
<1>4. CASE \E configured \in Models : Rasa!Construct(configured)
  <2>1. model' \in Models /\ servers' = servers
    BY <1>4 DEF Rasa!Construct
  <2>2. QED
    BY <1>1, <2>1 DEF RasaInv, OneAlive
<1>5. CASE Rasa!ServerEnds
  <2>1. model' = model /\ servers' = Rasa!Killed(servers, Rasa!Listening)
    BY <1>5 DEF Rasa!ServerEnds
  <2>2. QED
    BY <1>1, <1>2, <2>1 DEF RasaInv, OneAlive
<1>6. ASSUME NEW finished \in BOOLEAN, NEW lives \in BOOLEAN, Rasa!Answered(finished, lives)
      PROVE  RasaInv'
  <2> DEFINE new == [model |-> model, alive |-> lives]
             k == Len(Rasa!Stopped)
             s == Append(Rasa!Stopped, new)
  <2>1. model' = model
    BY <1>6 DEF Rasa!Answered
  <2>2. servers' = servers \/ servers' = Rasa!Stopped \/ (Rasa!PortFree /\ servers' = s)
    <3>1. Rasa!StartRasa(finished, lives) \/ servers' = servers
      BY <1>6 DEF Rasa!Answered
    <3>2. ASSUME Rasa!StartRasa(finished, lives)
          PROVE  servers' = Rasa!Stopped \/ (Rasa!PortFree /\ servers' = s)
      <4> HIDE DEF s
      <4>1. CASE finished /\ Rasa!PortFree /\ servers' = s
        BY <4>1
      <4>2. CASE servers' \in {Rasa!Stopped} \cup (IF Rasa!PortFree THEN {s} ELSE {})
        BY <4>2
      <4>3. QED
        BY <3>2, <4>1, <4>2 DEF Rasa!StartRasa, s
    <3>3. QED
      BY <3>1, <3>2
  <2>3. Rasa!Stopped \in Seq(Procs) /\ OneAlive(Rasa!Stopped)
    BY <1>2 DEF Rasa!Stopped
  <2>4. ASSUME Rasa!PortFree
        PROVE  s \in Seq(Procs) /\ OneAlive(s)
    <3>1. new \in Procs
      BY <1>1
    <3> HIDE DEF new
    <3>2. /\ s \in Seq(Procs) /\ k \in Nat /\ Len(s) = k + 1 /\ DOMAIN s = 1..(k + 1)
          /\ \A p \in 1..k : s[p] = Rasa!Stopped[p]
      <4> DEFINE t == Rasa!Stopped
      <4>1. t \in Seq(Procs)
        BY <2>3
      <4> HIDE DEF t, Procs
      <4>2. Append(t, new) \in Seq(Procs) /\ Len(Append(t, new)) = Len(t) + 1 /\ Len(t) \in Nat
            /\ \A p \in 1..Len(t) : Append(t, new)[p] = t[p]
        BY <3>1, <4>1, AppendProperties
      <4>3. QED
        BY <4>2, NatSeq DEF t
    <3>3. \A p \in 1..k : ~Rasa!Stopped[p].alive
      BY <2>3, <2>4, NatSeq DEF Rasa!PortFree
    <3> HIDE DEF s, k
    <3>4. \A p \in DOMAIN s : s[p].alive => p = k + 1
      BY <3>2, <3>3
    <3>5. QED
      BY <3>2, <3>4 DEF OneAlive
  <2> HIDE DEF s
  <2>5. servers' \in Seq(Procs) /\ OneAlive(servers')
    BY <1>1, <2>2, <2>3, <2>4
  <2>6. QED
    BY <1>1, <2>1, <2>5 DEF RasaInv, OneAlive
<1>7. QED
  BY <1>3, <1>4, <1>5, <1>6 DEF Rasa!Next, Rasa!ParseIntent, Rasa!ParseFails, Rasa!service, rasaVars

(* One service is alive at a time, and the pid file does not name another. *)
LEMMA ServiceIsOne == RasaInv => Rasa!OneService
<1> SUFFICES ASSUME RasaInv PROVE Rasa!OneService
  OBVIOUS
<1>1. Cardinality(Rasa!Alive) <= 1
  <2>1. CASE Rasa!Alive = {}
    BY <2>1, FS_EmptySet
  <2>2. CASE Rasa!Alive # {}
    <3>1. PICK p \in Rasa!Alive : Rasa!Alive = {p}
      BY <2>2, AliveIs
    <3>2. QED
      BY <3>1, FS_Singleton
  <2>3. QED
    BY <2>1, <2>2
<1>2. Rasa!Cardinality(Rasa!Alive) <= 1
  BY <1>1 DEF Rasa!Cardinality, Cardinality
<1>3. QED
  BY <1>2, AliveIs DEF Rasa!OneService

-----------------------------------------------------------------------------
(* The sample of a sentence: parts that follow on one another, up to a     *)
(* position in it.                                                         *)
Parts == [s : Nat, e : Nat, entity : BOOLEAN]
Follows(pieces, pos2) ==
  /\ pieces \in Seq(Parts) /\ (pieces = <<>> => pos2 = 0)
  /\ pieces # <<>> =>
       /\ pieces[1].s = 0 /\ pieces[Len(pieces)].e = pos2
       /\ \A i \in 1..(Len(pieces) - 1) : pieces[i].e = pieces[i + 1].s
Lines == [pos : 0..MaxText, pieces : Seq(Parts)]

LEMMA OnePartMore ==
  ASSUME NEW pieces, NEW p \in Nat, NEW q \in Nat, NEW entity \in BOOLEAN, Follows(pieces, p)
  PROVE  /\ Follows(Append(pieces, Rasa!Piece(p, q, entity)), q)
         /\ Append(pieces, Rasa!Piece(p, q, entity)) # <<>>
<1> DEFINE part == Rasa!Piece(p, q, entity)
           n == Len(pieces)
           t == Append(pieces, part)
<1>1. part \in Parts /\ part.s = p /\ part.e = q
  BY DEF Rasa!Piece, Parts
<1> HIDE DEF part
<1>2. pieces \in Seq(Parts) /\ n \in Nat /\ (pieces # <<>> <=> n # 0)
  BY NatSeq DEF Follows
<1>3. t \in Seq(Parts) /\ Len(t) = n + 1 /\ t[n + 1] = part /\ \A i \in 1..n : t[i] = pieces[i]
  BY <1>1, <1>2, AppendProperties
<1> HIDE DEF t
<1>4. t # <<>>
  BY <1>2, <1>3, NatSeq
<1>5. t[1].s = 0
  <2>1. CASE n = 0
    BY <1>1, <1>2, <1>3, <2>1 DEF Follows
  <2>2. CASE n # 0
    <3>1. 1 \in 1..n
      BY <1>2, <2>2
    <3>2. QED
      BY <1>2, <1>3, <2>2, <3>1 DEF Follows
  <2>3. QED
    BY <2>1, <2>2
<1>6. ASSUME NEW i \in 1..n
      PROVE  t[i].e = t[i + 1].s
  <2>1. n # 0 /\ t[i] = pieces[i]
    BY <1>2, <1>3
  <2>2. CASE i = n
    BY <1>1, <1>2, <1>3, <2>1, <2>2 DEF Follows
  <2>3. CASE i # n
    <3>1. i \in 1..(n - 1) /\ i + 1 \in 1..n
      BY <1>2, <2>3
    <3>2. QED
      BY <1>2, <1>3, <2>1, <3>1 DEF Follows
  <2>4. QED
    BY <2>2, <2>3
<1>7. Len(t) - 1 = n
  BY <1>2, <1>3
<1>8. Follows(t, q)
  BY <1>1, <1>3, <1>4, <1>5, <1>6, <1>7 DEF Follows
<1>9. QED
  BY <1>4, <1>8 DEF t, part

(* The entities of a sentence lie in it, so each step gives such parts.    *)
Spans == {Rasa!Entity(s, e) : s \in 0..(MaxText - 1), e \in 1..MaxText}

LEMMA MarkedFollows ==
  ASSUME NEW line \in Lines, NEW entity \in Spans, Follows(line.pieces, line.pos)
  PROVE  /\ Rasa!Marked(line, entity) \in Lines
         /\ Follows(Rasa!Marked(line, entity).pieces, Rasa!Marked(line, entity).pos)
<1>1. PICK s \in 0..(MaxText - 1), e \in 1..MaxText : entity = Rasa!Entity(s, e)
  BY DEF Spans
<1>2. entity.start = s /\ entity.end = e
  BY <1>1 DEF Rasa!Entity
<1>3. MaxText \in Nat /\ s \in Nat /\ e \in Nat /\ e \in 0..MaxText
  BY LanguageAssumption
<1>4. line.pos \in Nat /\ line.pieces \in Seq(Parts)
  BY <1>3 DEF Lines
<1>5. CASE s <= line.pos
  BY <1>2, <1>5 DEF Rasa!Marked
<1>6. CASE ~(s <= line.pos)
  <2> DEFINE a == Rasa!Piece(line.pos, s, FALSE)
             b == Rasa!Piece(s, e, TRUE)
             t == Append(Append(line.pieces, a), b)
  <2>1. Follows(t, e)
    <3>1. Follows(Append(line.pieces, a), s)
      BY <1>3, <1>4, OnePartMore
    <3>2. QED
      BY <1>3, <3>1, OnePartMore
  <2>2. a \in Parts /\ b \in Parts
    BY <1>3, <1>4 DEF Rasa!Piece, Parts
  <2> HIDE DEF a, b
  <2>3. line.pieces \o <<a, b>> = t
    <3>1. Append(line.pieces, a) = line.pieces \o <<a>>
      BY <1>4, <2>2, AppendIsConcat
    <3>2. <<a>> \in Seq(Parts) /\ <<b>> \in Seq(Parts) /\ line.pieces \o <<a>> \in Seq(Parts)
      <4>1. <<a>> \in Seq(Parts) /\ <<b>> \in Seq(Parts)
        BY <2>2
      <4>2. QED
        BY <1>4, <4>1, ConcatProperties
    <3>3. t = (line.pieces \o <<a>>) \o <<b>>
      BY <2>2, <3>1, <3>2, AppendIsConcat
    <3>4. (line.pieces \o <<a>>) \o <<b>> = line.pieces \o (<<a>> \o <<b>>)
      BY <1>4, <3>2, ConcatAssociative
    <3>5. <<a>> \o <<b>> = <<a, b>>
      <4> DEFINE u == <<a>> \o <<b>>
                 v == <<a, b>>
      <4>1. /\ u \in Seq(Parts) /\ Len(u) = Len(<<a>>) + Len(<<b>>)
            /\ \A i \in 1..(Len(<<a>>) + Len(<<b>>)) :
                 u[i] = IF i <= Len(<<a>>) THEN <<a>>[i] ELSE <<b>>[i - Len(<<a>>)]
        BY <3>2, ConcatProperties
      <4>2. Len(<<a>>) = 1 /\ Len(<<b>>) = 1 /\ <<a>>[1] = a /\ <<b>>[1] = b
        OBVIOUS
      <4>3. v \in Seq(Parts) /\ Len(v) = 2 /\ v[1] = a /\ v[2] = b
        BY <2>2
      <4> HIDE DEF u, v
      <4>4. Len(u) = 2 /\ u[1] = a /\ u[2] = b
        BY <4>1, <4>2
      <4>5. \A i \in 1..Len(u) : u[i] = v[i]
        BY <4>3, <4>4
      <4>6. u = v
        BY <4>1, <4>3, <4>4, <4>5, SeqEqual
      <4>7. QED
        BY <4>6 DEF u, v
    <3>6. QED
      BY <3>3, <3>4, <3>5
  <2>4. Rasa!Marked(line, entity) = [pos |-> e, pieces |-> line.pieces \o <<a, b>>]
    BY <1>2, <1>6 DEF Rasa!Marked, a, b
  <2>5. t \in Seq(Parts)
    BY <2>1 DEF Follows
  <2> HIDE DEF t
  <2> DEFINE m == [pos |-> e, pieces |-> t]
  <2>6. m \in Lines /\ m.pos = e /\ m.pieces = t
    BY <1>3, <2>5 DEF Lines
  <2>7. Rasa!Marked(line, entity) = m
    BY <2>3, <2>4
  <2> HIDE DEF m
  <2>8. QED
    BY <2>1, <2>6, <2>7
<1>7. QED
  BY <1>5, <1>6

(* What a sentence's line has become after some of its entities.           *)
Marks(f, n, list) ==
  f = [S \in SUBSET (1..n) |->
         IF S = {} THEN [pos |-> 0, pieces |-> <<>>]
         ELSE Rasa!Marked(f[S \ {Rasa!Max(S)}], list[Rasa!Max(S)])]

LEMMA SampleFollows ==
  ASSUME NEW list \in Seq(Spans)
  PROVE  Rasa!SampleOf(MaxText, list) # <<>> => Follows(Rasa!SampleOf(MaxText, list), MaxText)
<1> DEFINE n == Len(list)
           Good == {line \in Lines : Follows(line.pieces, line.pos)}
           blank == [pos |-> 0, pieces |-> <<>>]
           g == [x \in Good \X (1..n) |-> Rasa!Marked(x[1], list[x[2]])]
           D == CHOOSE f : Marks(f, n, list)
<1>1. n \in Nat /\ DOMAIN list = 1..n /\ (\A i \in 1..n : list[i] \in Spans) /\ MaxText \in Nat
  BY NatSeq, LanguageAssumption
<1>2. \A S : Rasa!Max(S) = Trigger!Max(S)
  BY DEF Rasa!Max, Trigger!Max
<1>3. blank \in Good
  <2>1. <<>> \in Seq(Parts) /\ 0 \in 0..MaxText
    BY <1>1, EmptySeq
  <2>2. QED
    BY <2>1 DEF Lines, Follows
<1>4. \A line \in Good, i \in 1..n : Rasa!Marked(line, list[i]) \in Good
  BY <1>1, MarkedFollows
<1> HIDE DEF Good, blank
<1>5. g \in [Good \X (1..n) -> Good]
  BY <1>4
<1>6. \E f : Marks(f, n, list)
  <2>1. PICK f \in [SUBSET (1..n) -> Good] : FoldOf(f, n, blank, g)
    <3> HIDE DEF g, n
    <3>1. QED
      BY <1>1, <1>3, <1>5, FoldExists
  <2>2. ASSUME NEW S \in SUBSET (1..n)
        PROVE  f[S] = IF S = {} THEN blank
                      ELSE Rasa!Marked(f[S \ {Rasa!Max(S)}], list[Rasa!Max(S)])
    <3>1. CASE S = {}
      BY <2>1, <3>1 DEF FoldOf
    <3>2. CASE S # {}
      <4>1. Trigger!Max(S) \in 1..n
        <5>1. S \subseteq 0..n
          BY <1>1
        <5>2. QED
          BY <1>1, <3>2, <5>1, MaxIs
      <4>2. f[S \ {Trigger!Max(S)}] \in Good
        BY <2>1
      <4>3. g[<<f[S \ {Trigger!Max(S)}], Trigger!Max(S)>>]
              = Rasa!Marked(f[S \ {Trigger!Max(S)}], list[Trigger!Max(S)])
        BY <4>1, <4>2
      <4>4. f[S] = g[<<f[S \ {Trigger!Max(S)}], Trigger!Max(S)>>]
        <5> HIDE DEF g
        <5>1. QED
          BY <2>1, <3>2 DEF FoldOf
      <4>5. QED
        BY <1>2, <3>2, <4>3, <4>4
    <3>3. QED
      BY <3>1, <3>2
  <2>3. f = [S \in SUBSET (1..n) |->
               IF S = {} THEN blank ELSE Rasa!Marked(f[S \ {Rasa!Max(S)}], list[Rasa!Max(S)])]
    <3>1. f = [S \in SUBSET (1..n) |-> f[S]]
      BY <2>1
    <3> HIDE DEF n
    <3>2. QED
      BY <2>2, <3>1
  <2>4. QED
    BY <2>3 DEF Marks, blank
<1>7. Marks(D, n, list)
  BY <1>6
<1>8. Rasa!FoldLeft(Rasa!Marked, blank, list) = D[1..n]
  BY <1>1 DEF Rasa!FoldLeft, Rasa!MapThenFoldSet, Marks, blank
<1> HIDE DEF D, g
<1>9. \A S \in SUBSET (1..n) :
        D[S] = IF S = {} THEN blank ELSE Rasa!Marked(D[S \ {Trigger!Max(S)}], list[Trigger!Max(S)])
  BY <1>2, <1>7 DEF Marks, blank
<1> DEFINE K == {k \in Nat : k <= n => D[1..k] \in Good}
<1>10. 0 \in K
  <2>1. 1..0 = {} /\ {} \in SUBSET (1..n)
    OBVIOUS
  <2>2. QED
    BY <1>3, <1>9, <2>1
<1>11. ASSUME NEW k \in Nat, k \in K
       PROVE  k + 1 \in K
  <2> SUFFICES ASSUME k + 1 <= n PROVE D[1..(k + 1)] \in Good
    OBVIOUS
  <2> DEFINE S == 1..(k + 1)
  <2>1. /\ S \in SUBSET (1..n) /\ k + 1 \in 1..n
        /\ S # {} /\ Trigger!Max(S) = k + 1 /\ S \ {k + 1} = 1..k
    <3>1. S \in SUBSET (1..n) /\ k + 1 \in 1..n
      BY <1>1
    <3>2. S # {} /\ Trigger!Max(S) = k + 1 /\ S \ {k + 1} = 1..k
      BY FirstIndices
    <3>3. QED
      BY <3>1, <3>2
  <2>2. D[1..k] \in Good
    BY <1>1, <1>11
  <2> HIDE DEF S
  <2>3. D[S] = Rasa!Marked(D[1..k], list[k + 1])
    BY <1>9, <2>1
  <2>4. QED
    BY <1>4, <2>1, <2>2, <2>3 DEF S
<1> HIDE DEF K
<1>12. D[1..n] \in Good
  <2>1. n \in K
    BY <1>1, <1>10, <1>11, Inductive
  <2>2. QED
    BY <1>1, <2>1 DEF K
<1> DEFINE line == Rasa!FoldLeft(Rasa!Marked, blank, list)
<1>13. line \in Good
  BY <1>8, <1>12
<1>14. Rasa!SampleOf(MaxText, list)
         = IF line.pos < MaxText THEN Append(line.pieces, Rasa!Piece(line.pos, MaxText, FALSE))
           ELSE line.pieces
  BY DEF Rasa!SampleOf, blank
<1> HIDE DEF line
<1>15. line.pos \in 0..MaxText /\ Follows(line.pieces, line.pos)
  BY <1>13 DEF Good, Lines
<1>16. CASE line.pos < MaxText
  <2>1. line.pos \in Nat /\ MaxText \in Nat
    BY <1>1, <1>15
  <2>2. Follows(Append(line.pieces, Rasa!Piece(line.pos, MaxText, FALSE)), MaxText)
    BY <1>15, <2>1, OnePartMore
  <2>3. QED
    BY <1>14, <1>16, <2>2
<1>17. CASE ~(line.pos < MaxText)
  <2>1. line.pos = MaxText
    BY <1>1, <1>15, <1>17
  <2>2. QED
    BY <1>14, <1>15, <1>17, <2>1
<1>18. QED
  BY <1>16, <1>17

SampleInv == sample # <<>> => Follows(sample, MaxText)

LEMMA SampleKept ==
  ASSUME SampleInv, Rasa!Next \/ UNCHANGED rasaVars
  PROVE  SampleInv'
<1>1. CASE sample' = sample
  BY <1>1 DEF SampleInv, Follows
<1>2. CASE sample' = <<>>
  BY <1>2 DEF SampleInv
<1>3. ASSUME NEW list \in Rasa!EntityLists(MaxText), NEW confident \in BOOLEAN,
             Rasa!ParseIntent(MaxText, list, "Weather", confident)
      PROVE  SampleInv'
  <2>1. list \in Rasa!SeqOf(Spans, MaxEntities)
    BY DEF Rasa!EntityLists, Spans
  <2>2. list \in Seq(Spans)
    <3>1. PICK m \in 0..MaxEntities : list \in [1..m -> Spans]
      BY <2>1 DEF Rasa!SeqOf
    <3>2. QED
      BY <3>1, LanguageAssumption
  <2>3. sample' = Rasa!SampleOf(MaxText, list)
    BY <1>3 DEF Rasa!ParseIntent
  <2>4. QED
    BY <2>2, <2>3, SampleFollows DEF SampleInv
<1>4. QED
  BY <1>1, <1>2, <1>3 DEF Rasa!Next, Rasa!Construct, Rasa!Answered, Rasa!ServerEnds,
     Rasa!ParseFails, rasaVars

LEMMA SampleIsWhole == SampleInv => Rasa!SampleWhole
<1> SUFFICES ASSUME SampleInv, sample # <<>>
             PROVE  /\ sample[1].s = 0 /\ Rasa!Last(sample).e = MaxText
                    /\ \A i \in 1..(Len(sample) - 1) : sample[i].e = sample[i + 1].s
  BY DEF Rasa!SampleWhole
<1>1. Rasa!Last(sample) = sample[Len(sample)]
  BY DEF Rasa!Last
<1>2. QED
  BY <1>1 DEF SampleInv, Follows

(* A plugin is handed no slot that its intent does not have and no time    *)
(* but in seconds, whatever the engine finds and however long the sentence *)
(* is; the row it is recorded as is the sentence whole; and one service of *)
(* Rasa runs at a time.                                                    *)
THEOREM MeaningStaysSound == Spec => []MeaningSound
<1> DEFINE Inv == HandedInv /\ RasaInv /\ SampleInv
<1>1. Init => Inv
  <2> SUFFICES ASSUME Init PROVE Inv
    OBVIOUS
  <2>1. Intents!Init /\ Rasa!Init
    BY DEF Init
  <2>2. HandedInv
    <3>1. parsed.slots = <<>>
      BY <2>1 DEF Intents!Init, Intents!None
    <3>2. 1..Len(parsed.slots) = {}
      BY <3>1
    <3>3. QED
      BY <3>2 DEF HandedInv
  <2>3. RasaInv
    <3>1. model \in Models /\ servers = <<>> /\ servers \in Seq([model : Models, alive : BOOLEAN])
      BY <2>1, EmptySeq DEF Rasa!Init
    <3>2. DOMAIN servers = {}
      BY <3>1
    <3>3. QED
      BY <3>1, <3>2 DEF RasaInv, OneAlive
  <2>4. SampleInv
    BY <2>1 DEF Rasa!Init, SampleInv
  <2>5. QED
    BY <2>2, <2>3, <2>4
<1>2. Inv /\ [Next]_vars => Inv'
  BY RunSteps, HandedKept, ServiceKept, SampleKept
<1>3. Inv => MeaningSound
  <2>1. HandedInv => Intents!SlotsOfIntent
    BY DEF HandedInv, Handed, Intents!SlotsOfIntent
  <2>2. QED
    BY <2>1, ServiceIsOne, SampleIsWhole DEF MeaningSound, Rasa!RasaSound
<1>4. QED
  BY <1>1, <1>2, <1>3, PTL DEF Spec
=============================================================================
