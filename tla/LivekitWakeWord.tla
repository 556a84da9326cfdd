--------------------------- MODULE LivekitWakeWord ---------------------------
(***************************************************************************)
(* The streaming half of the wake-word engine                              *)
(* (Wakeup/Livekit/livekitwakeword.cpp): instead of computing the mel      *)
(* spectrum of the whole window of audio and all its embeddings in every   *)
(* step, it computes the new frames and the newest embedding, and keeps    *)
(* the others in rings.                                                    *)
(*                                                                         *)
(* A frame of the spectrum is its number in the stream and one level.  The *)
(* model that computes a spectrum is external: it raises every level to    *)
(* TopDb below the highest one it was given.  An embedding is known by the *)
(* first frame of its window.                                              *)
(***************************************************************************)
EXTENDS Integers, Sequences, FiniteSetsExt

CONSTANTS
  Hop, Kernel,       (* kMelHop and kMelKernel, in samples                   *)
  FramesPerStep,     (* kMelFramesPerStep, and kEmbStride                    *)
  WindowSamples,     (* windowSamples                                        *)
  EmbWindow,         (* kEmbWindow, in frames                                *)
  MinEmbeddings,     (* kMinEmbeddings                                       *)
  TopDb,             (* melTopDb                                             *)
  Levels,            (* levels of a frame                                    *)
  MaxSteps           (* bound on the steps pushed                            *)

VARIABLES
  streamAudio,       (* number of samples in the sliding window              *)
  absSamples,        (* number of samples ever put into it                   *)
  level,             (* history: the levels of the frames so far, from 0     *)
  nextFrame,
  melRows, melRowHead, melRowCount,
  embRing, embHead, primed,
  melScratch,        (* the spectrum of this step, if it got that far        *)
  seq                (* the embeddings the classifier got                    *)

livekitVars == <<streamAudio, absSamples, level, nextFrame, melRows, melRowHead,
                 melRowCount, embRing, embHead, primed, melScratch, seq>>

StreamStep == Hop * FramesPerStep

FramesOf(samples) == IF samples < Kernel THEN 0 ELSE (samples - Kernel) \div Hop + 1

RowTarget == FramesOf(WindowSamples)
RowCap    == RowTarget + FramesPerStep

NoRow == [frame |-> 0 - 1, db |-> 0]

Init ==
  /\ streamAudio = 0 /\ absSamples = 0 /\ level = <<>> /\ nextFrame = 0
  /\ melRows = [i \in 0..(RowCap - 1) |-> NoRow] /\ melRowHead = 0 /\ melRowCount = 0
  /\ embRing = [i \in 0..(MinEmbeddings - 1) |-> 0] /\ embHead = 0 /\ primed = FALSE
  /\ melScratch = <<>> /\ seq = <<>>

LevelOf(frame) == level'[frame + 1]

-----------------------------------------------------------------------------
(* External: the spectrum of the frames first..last.                       *)
RunMel(first, last) ==
  LET top == Max({LevelOf(k) : k \in first..last})
  IN  [i \in 1..(last - first + 1) |->
         [frame |-> first + i - 1, db |-> Max({LevelOf(first + i - 1), top - TopDb})]]

(* pushMelRow, and the loop that drops the rows that left the window.      *)
Ring == [rows |-> melRows, head |-> melRowHead, count |-> melRowCount]

PushMelRow(ring, row) ==
  IF ring.count < RowCap
  THEN [ring EXCEPT !.rows[(ring.head + ring.count) % RowCap] = row, !.count = @ + 1]
  ELSE [ring EXCEPT !.rows[ring.head] = row, !.head = (@ + 1) % RowCap]

Dropped(ring) ==
  IF ring.count <= RowTarget THEN ring
  ELSE [ring EXCEPT !.head = (@ + ring.count - RowTarget) % RowCap, !.count = RowTarget]

PushRows(ring, rows) ==
  LET after[i \in 0..Len(rows)] ==
        IF i = 0 THEN ring ELSE PushMelRow(after[i - 1], rows[i])
  IN  Dropped(after[Len(rows)])

(* updateMelIncremental(): the frames whose samples have all arrived, one  *)
(* batch in a step.                                                        *)
Truncated(a, b) == IF a >= 0 THEN a \div b ELSE 0 - ((0 - a) \div b)
UpdateMelIncremental ==
  LET last == Truncated(absSamples' - Kernel, Hop)
      f1   == Min({last, nextFrame + FramesPerStep - 1})
      end  == f1 * Hop + Kernel
      ring == PushRows(Ring, RunMel(nextFrame, f1))
  IN  IF nextFrame > last \/ end > absSamples'
      THEN UNCHANGED <<nextFrame, melRows, melRowHead, melRowCount>>
      ELSE /\ nextFrame' = f1 + 1
           /\ melRows' = ring.rows /\ melRowHead' = ring.head /\ melRowCount' = ring.count

(* buildMelFromRing().                                                     *)
RowAt(i) == melRows'[(melRowHead' + i - 1) % RowCap]
BuildMelFromRing ==
  LET floor == Max({RowAt(i).db : i \in 1..melRowCount'}) - TopDb
  IN  [i \in 1..melRowCount' |-> [RowAt(i) EXCEPT !.db = Max({@, floor})]]

(* The windows of a spectrum: of the last ones the first frames.           *)
LastStart(frames) == ((frames - EmbWindow) \div FramesPerStep) * FramesPerStep
CollectWindows(mel) ==
  LET first == LastStart(Len(mel)) - (MinEmbeddings - 1) * FramesPerStep
  IN  [i \in 1..MinEmbeddings |-> mel[first + (i - 1) * FramesPerStep + 1].frame]

(* The embeddings of the window, all of them or the newest one.            *)
NextHead_Slip == embHead
NextHead == (embHead + 1) % MinEmbeddings
Embed ==
  IF ~primed
  THEN /\ embRing' = [i \in 0..(MinEmbeddings - 1) |-> CollectWindows(melScratch')[i + 1]]
       /\ embHead' = 0 /\ primed' = TRUE
       /\ seq' = CollectWindows(melScratch')
  ELSE /\ embRing' = [embRing EXCEPT ![embHead] =
                        melScratch'[LastStart(Len(melScratch')) + 1].frame]
       /\ embHead' = NextHead
       /\ seq' = [i \in 1..MinEmbeddings |-> embRing'[(embHead' + i - 1) % MinEmbeddings]]
       /\ UNCHANGED primed

-----------------------------------------------------------------------------
(* pushFloat() with one step of samples.  Any frame they complete may be   *)
(* louder than the others, but (a bound) one at most.                      *)
NewLevels(n) == {[k \in 1..n |-> IF k = loud THEN high ELSE Min(Levels)] :
                   loud \in 1..n, high \in Levels}

PushFloat ==
  /\ absSamples < MaxSteps * StreamStep
  /\ absSamples' = absSamples + StreamStep
  /\ streamAudio' = Min({streamAudio + StreamStep, WindowSamples})
  /\ \E new \in NewLevels(FramesOf(absSamples') - Len(level)) : level' = level \o new
  /\ UpdateMelIncremental
  /\ IF melRowCount' < RowTarget
     THEN /\ melScratch' = <<>> /\ seq' = <<>>
          /\ UNCHANGED <<embRing, embHead, primed>>
     ELSE /\ melScratch' = BuildMelFromRing
          /\ Embed

(* resetStream(), when listening starts anew.                              *)
ResetStream ==
  /\ streamAudio' = 0 /\ absSamples' = 0 /\ level' = <<>> /\ nextFrame' = 0
  /\ melRows' = [i \in 0..(RowCap - 1) |-> NoRow] /\ melRowHead' = 0 /\ melRowCount' = 0
  /\ embRing' = [i \in 0..(MinEmbeddings - 1) |-> 0] /\ embHead' = 0 /\ primed' = FALSE
  /\ melScratch' = <<>> /\ seq' = <<>>

Next == PushFloat \/ ResetStream

Spec == Init /\ [][Next]_livekitVars

-----------------------------------------------------------------------------
(* The frames of the window, as a computation of it as a whole counts      *)
(* them.                                                                   *)
FirstFrame == (absSamples - streamAudio) \div Hop
TopLevel   == Max({level[k + 1] : k \in FirstFrame..(FirstFrame + RowTarget - 1)})
Whole(frame) == Max({level[frame + 1], TopLevel - TopDb})

(* The first frame of the batch a frame was computed in.                   *)
Segment(frame) ==
  LET odd == FramesOf(StreamStep)
  IN  IF frame < odd THEN 0 ELSE odd + ((frame - odd) \div FramesPerStep) * FramesPerStep

(* The rings hold what a computation of the whole window gives             *)
(* (livekitwakeword.cpp:77-82): its frames in order, each with the level   *)
(* the whole window gives it, and its embeddings in order.  A frame whose  *)
(* batch has partly left the window is excepted, see MelIsExact.           *)
RingsAreWindow ==
  melScratch # <<>> =>
    /\ Len(melScratch) = RowTarget
    /\ \A i \in 1..RowTarget :
         /\ melScratch[i].frame = FirstFrame + i - 1
         /\ Segment(melScratch[i].frame) >= FirstFrame =>
              melScratch[i].db = Whole(melScratch[i].frame)
    /\ \A i \in 1..MinEmbeddings :
         seq[i] = FirstFrame + LastStart(RowTarget) - (MinEmbeddings - i) * FramesPerStep

(* "Value by value the same as computing the whole window at once"         *)
(* (livekitwakeword.cpp:79-82, doc/livekit_wakeup.md, 9.5).                *)
MelIsExact ==
  melScratch # <<>> => \A i \in 1..RowTarget : melScratch[i].db = Whole(FirstFrame + i - 1)
=============================================================================
