----------------------------- MODULE WakeTrigger -----------------------------
(***************************************************************************)
(* From the classifier's scores to a wake-up.  LivekitWakeup::detect asks  *)
(* for triggerLevel hits in a row and is silent for refractory scores      *)
(* after one.  OpenwakeOnnx::detect cuts the audio into mel frames, those  *)
(* into windows of an embedding model and the embeddings into windows of   *)
(* the classifier, and counts activations.  Nothing of the program uses    *)
(* OpenwakeOnnx; it is modelled for what its default values promise.       *)
(*                                                                         *)
(* A buffer is the number of items it holds.  Wake-up handlers may stop    *)
(* the engine.  The definitions named ..._Slip are defects the runs must   *)
(* notice; no action uses them.                                            *)
(***************************************************************************)
EXTENDS Integers, Sequences, SequencesExt

CONSTANTS
  TriggerLevels,   (* livekit_wakeup.trigger_level, or the constructor's     *)
  Refractory,
  ChunkSamples,    (* OpenwakeOnnx::chunkSize                                *)
  ChunkMels,       (* mel frames of one chunk                                *)
  EmbWindow,       (* embWindowSize                                          *)
  EmbStep,         (* embStepSize                                            *)
  WwFeatures,      (* wwFeatures                                             *)
  MaxScores        (* bound on the scores                                    *)

VARIABLES
  livekit,         (* which engine                                           *)
  triggerLevel,
  hitStreak, cooldown,                     (* LivekitWakeup                  *)
  activation, samples, melsOut, featuresOut, (* OpenwakeOnnx                 *)
  scores           (* the scores since the last stop: a hit or not, and      *)
                   (* whether the engine woke the program up with it         *)

triggerVars == <<livekit, triggerLevel, hitStreak, cooldown, activation, samples,
                 melsOut, featuresOut, scores>>
openwakeVars == <<activation, samples, melsOut, featuresOut>>

Init ==
  /\ livekit \in BOOLEAN /\ triggerLevel \in TriggerLevels
  /\ hitStreak = 0 /\ cooldown = 0
  /\ activation = 0 /\ samples = 0 /\ melsOut = 0 /\ featuresOut = 0
  /\ scores = <<>>

Scored(hit, woke) == scores' = Append(scores, [hit |-> hit, woke |-> woke])

-----------------------------------------------------------------------------
(* LivekitWakeup::detect with a full window.                               *)
Rest == Refractory
CoolDown(hit) ==
  /\ cooldown > 0
  /\ cooldown' = cooldown - 1
  /\ Scored(hit, FALSE)
  /\ UNCHANGED hitStreak
Wake ==
  /\ cooldown = 0 /\ hitStreak + 1 >= triggerLevel
  /\ hitStreak' = 0
  /\ cooldown' = Rest
  /\ Scored(TRUE, TRUE)
Hit ==
  /\ cooldown = 0 /\ hitStreak + 1 < triggerLevel
  /\ hitStreak' = hitStreak + 1
  /\ Scored(TRUE, FALSE)
  /\ UNCHANGED cooldown
MissStreak_Slip == hitStreak
MissStreak == 0
Miss ==
  /\ cooldown = 0
  /\ hitStreak' = MissStreak
  /\ Scored(FALSE, FALSE)
  /\ UNCHANGED cooldown
Livekit ==
  /\ livekit /\ Len(scores) < MaxScores
  /\ (\E hit \in BOOLEAN : CoolDown(hit)) \/ Wake \/ Hit \/ Miss
  /\ UNCHANGED <<livekit, triggerLevel, openwakeVars>>

(* LivekitWakeup::stop, from a wake-up handler or at any time.             *)
Stop ==
  /\ livekit /\ scores # <<>>
  /\ hitStreak' = 0 /\ cooldown' = 0 /\ scores' = <<>>
  /\ UNCHANGED <<livekit, triggerLevel, openwakeVars>>

-----------------------------------------------------------------------------
(* OpenwakeOnnx::detect: windows of size w in n items, step s apart.       *)
Windows(n, w, s) == IF n < w THEN 0 ELSE (n - w) \div s + 1

(* The activations of one probability above the threshold: a wake-up at    *)
(* the trigger level, else back towards 0.                                 *)
Reached(a) == a + 1 >= triggerLevel
Activated_Slip(a) == a + 1
Activated(a) == IF Reached(a) THEN -Refractory
                ELSE IF a + 1 > 0 THEN a
                ELSE IF a + 2 < 0 THEN a + 2 ELSE 0

(* The windows of this call, as far as one that wakes the program up; its  *)
(* features stay.                                                          *)
Detected(hits) ==
  FoldLeft(LAMBDA acc, hit :
             IF acc.woke THEN acc
             ELSE LET woke == hit /\ Reached(acc.activation) IN
                  [activation |-> IF hit THEN Activated(acc.activation) ELSE acc.activation,
                   woke |-> woke,
                   done |-> IF woke THEN acc.done ELSE acc.done + 1,
                   scores |-> Append(acc.scores, [hit |-> hit, woke |-> woke])],
           [activation |-> activation, woke |-> FALSE, done |-> 0, scores |-> <<>>], hits)

Openwake(n) ==
  LET all      == samples + n
      mels     == melsOut + (all \div ChunkSamples) * ChunkMels
      embs     == Windows(mels, EmbWindow, EmbStep)
      features == featuresOut + embs
  IN  /\ ~livekit
      /\ Len(scores) + Windows(features, WwFeatures, 1) <= MaxScores
      /\ samples' = all % ChunkSamples
      /\ melsOut' = mels - embs * EmbStep
      /\ \E hits \in [1..Windows(features, WwFeatures, 1) -> BOOLEAN] :
           LET done == Detected(hits)
           IN  /\ activation' = done.activation
               /\ featuresOut' = features - done.done
               /\ scores' = scores \o done.scores
      /\ UNCHANGED <<livekit, triggerLevel, hitStreak, cooldown>>

Next == Livekit \/ Stop \/ \E n \in 1..ChunkSamples : Openwake(n)

Spec == Init /\ [][Next]_triggerVars

-----------------------------------------------------------------------------
(* livekitwakeup.h:49-50: every wake-up follows triggerLevel hits in a     *)
(* row, none of them a part of the wake-up before, and comes no sooner     *)
(* than refractory scores after it; and triggerLevel hits in a row outside *)
(* that time do wake the program up.                                       *)
Woke(i) == scores[i].woke
LastWake(i) == LET S == {j \in 1..(i - 1) : Woke(j)} IN IF S = {} THEN -Refractory ELSE Max(S)
Run(i) == LET from == LastWake(i) + Refractory + 1
          IN  /\ i - triggerLevel + 1 >= from
              /\ \A j \in (i - triggerLevel + 1)..i : scores[j].hit
WakesOnRuns == livekit => \A i \in DOMAIN scores : Woke(i) <=> Run(i)

(* OpenwakeOnnx never holds a whole window back unless a wake-up ended the *)
(* call, and with a trigger level above 1, its default, wakes nobody.      *)
WindowsTaken ==
  ~livekit =>
    /\ featuresOut >= WwFeatures => scores # <<>> /\ Last(scores).woke
    /\ melsOut < EmbWindow /\ samples < ChunkSamples
    /\ triggerLevel > 1 => \A i \in DOMAIN scores : ~Woke(i)
=============================================================================
