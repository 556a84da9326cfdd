------------------------------- MODULE Speech -------------------------------
(***************************************************************************)
(* What the assistant says aloud (Conversation::say and sayRawData, the    *)
(* synthesiser's thread, the player's list of notifications).              *)
(*                                                                         *)
(* A sentence is [say, kind]; what kinds there are is who says it.         *)
(***************************************************************************)
EXTENDS Integers, Sequences

CONSTANTS
  Kinds,           (* the types of what is said                                *)
  MaxSays,         (* bound on the calls of say()                              *)
  MaxSentences,    (* bound on the sentences of one                            *)
  MaxFailures      (* bound on the sentences that cannot be synthesised        *)

VARIABLES
  says,            (* the calls so far: [sentences, block]                     *)
  ttsQueue,        (* feedTTS: sentences to be synthesised                     *)
  index, endIndex,
  playing,         (* the notifications: [index, say, kind], the first plays   *)
  waiting,         (* the say() in ttsEventLoop, 0 for none                    *)
  heardTo,         (* history: how many sentences of a say() have been played  *)
  failures,
  alone            (* history: the waiting one was said into silence, and      *)
                   (* nothing was said, stopped or failed since                *)

speechVars == <<says, ttsQueue, index, endIndex, playing, waiting, heardTo, failures, alone>>

Init ==
  /\ says = <<>> /\ ttsQueue = <<>> /\ index = 0 /\ endIndex = 0 /\ playing = <<>>
  /\ waiting = 0 /\ heardTo = <<>> /\ failures = 0 /\ alone = FALSE

-----------------------------------------------------------------------------
(* say(): a text without sentences says nothing, and is waited for all the *)
(* same; ttsEventLoop does not run twice, so only the outer one waits.     *)
EndIndex_First(n) == index
EndIndex_Slip(n) == index + n
EndIndex(n) == index + n - 1
Say(n, block, kind) ==
  /\ Len(says) < MaxSays
  /\ says' = Append(says, [sentences |-> n, block |-> block])
  /\ endIndex' = EndIndex(n)
  /\ ttsQueue' = ttsQueue \o [i \in 1..n |-> [say |-> Len(says) + 1, kind |-> kind]]
  /\ waiting' = IF block /\ waiting = 0 THEN Len(says) + 1 ELSE waiting
  /\ alone' = (block /\ waiting = 0 /\ n > 0 /\ ttsQueue = <<>> /\ playing = <<>>)
  /\ heardTo' = Append(heardTo, 0)
  /\ UNCHANGED <<index, playing, failures>>

(* SherpaTTS::detect() and sayRawData(); what fails is not heard of again. *)
Synthesised ==
  /\ ttsQueue # <<>>
  /\ ttsQueue' = Tail(ttsQueue)
  /\ LET first == Head(ttsQueue)
     IN  playing' = Append(playing, [index |-> index, say |-> first.say, kind |-> first.kind])
  /\ index' = index + 1
  /\ UNCHANGED <<says, endIndex, waiting, heardTo, failures, alone>>
SynthesisFails ==
  /\ ttsQueue # <<>> /\ failures < MaxFailures
  /\ ttsQueue' = Tail(ttsQueue)
  /\ failures' = failures + 1 /\ alone' = FALSE
  /\ UNCHANGED <<says, index, endIndex, playing, waiting, heardTo>>

(* playEnd of a sentence: the one with endIndex ends the wait.             *)
PlayEnd ==
  /\ playing # <<>>
  /\ LET ended == Head(playing)
     IN  /\ heardTo' = [heardTo EXCEPT ![ended.say] = @ + 1]
         /\ waiting' = IF ended.index = endIndex THEN 0 ELSE waiting
  /\ playing' = Tail(playing)
  /\ UNCHANGED <<says, ttsQueue, index, endIndex, failures, alone>>

(* The timer that guards what is said for somebody elsewhere.              *)
GuardTimeout ==
  /\ waiting # 0 /\ waiting' = 0
  /\ UNCHANGED <<says, ttsQueue, index, endIndex, playing, heardTo, failures, alone>>

(* stopSay(): what is queued of a kind, and what plays of it, without an   *)
(* end; sentences being synthesised come all the same.                     *)
StopSay(kind) ==
  /\ playing' = SelectSeq(playing, LAMBDA s : s.kind # kind)
  /\ playing' # playing /\ alone' = FALSE
  /\ UNCHANGED <<says, ttsQueue, index, endIndex, waiting, heardTo, failures>>

Next ==
  \/ \E n \in 0..MaxSentences, block \in BOOLEAN, kind \in Kinds : Say(n, block, kind)
  \/ Synthesised \/ SynthesisFails \/ PlayEnd \/ GuardTimeout
  \/ \E kind \in Kinds : StopSay(kind)

Spec == Init /\ [][Next]_speechVars

(* The synthesiser and the loudspeaker go on.                              *)
FairSpec == Spec /\ WF_speechVars(Synthesised) /\ WF_speechVars(PlayEnd)

-----------------------------------------------------------------------------
(* Said into silence, a blocking say() returns with its last sentence and  *)
(* not before (conversation.cpp:239 and :189): what follows is listening.  *)
WaitsToTheEnd ==
  [][waiting # 0 /\ waiting' = 0 /\ alone /\ PlayEnd =>
       heardTo'[waiting] = says[waiting].sentences]_speechVars

(* And it does return.                                                     *)
SayReturns == (waiting # 0 /\ alone) ~> (waiting = 0 \/ ~alone)

(* A blocking say() is over when its sentences have been played: what      *)
(* listens next would take the rest for an answer (conversation.cpp:392).  *)
HeardBeforeListening ==
  [][waiting # 0 /\ waiting' = 0 /\ PlayEnd /\ failures = 0 =>
       heardTo'[waiting] = says[waiting].sentences]_speechVars
=============================================================================
