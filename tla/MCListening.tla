---------------------------- MODULE MCListening -----------------------------
(***************************************************************************)
(* The recorder and the player under the wake-up chain and the play list,  *)
(* for one run: in every behaviour one of them is active, so their state   *)
(* spaces add up.                                                          *)
(***************************************************************************)
EXTENDS AudioPlaylist

CONSTANTS Vads, WebAsks, MaxDepth, MaxJobs

ASSUME WakeAssumption ==
  WebAsks \in BOOLEAN /\ {MaxDepth, MaxJobs} \subseteq Nat

VARIABLES enablePreVad, enableNotify, vad, detectState, isResponse, paused,
          prevadTimer, undetectTimer, voice, vadLoaded, soundLoop, calls,
          answered, jobs
VARIABLE  active

Wake == INSTANCE Wakeup

wakeVars == <<enablePreVad, enableNotify, vad, detectState, isResponse, paused,
  prevadTimer, undetectTimer, voice, vadLoaded, soundLoop, calls, answered,
  jobs>>

OnlyPlaylist ==
  /\ active = "playlist"
  /\ UNCHANGED <<active, wakeVars>>
OnlyWake ==
  /\ active = "wake"
  /\ UNCHANGED <<active, playlistVars>>

MCInit ==
  /\ active \in {"playlist", "wake"}
  /\ Init /\ (active # "playlist" => ~p.playsAtOnce)
  /\ Wake!Init /\ (active # "wake" =>
       ~enablePreVad /\ ~enableNotify /\ vad = "silero")

MCNext ==
  \/ OnlyPlaylist /\ Next
  \/ OnlyWake /\ Wake!Next

MCVars == <<active, playlistVars, wakeVars>>
MCSpec == MCInit /\ [][MCNext]_MCVars

-----------------------------------------------------------------------------
(* The list of songs keeps its order: the next track is in it or just      *)
(* behind it, and none up to the current one was passed over               *)
(* (audioplaylist.cpp:132).                                                *)
OrderKept == IndexInList /\ NonePassedOver

(* The microphone is never off for good (wakeup.cpp:258).                  *)
PausedIsOwed == Wake!PausedIsOwed

(* An answer window belongs to a question in progress, listens, and with a *)
(* detector that stops it takes its timer with it (wakeup.cpp:316, 327).   *)
AnswerWindow == Wake!WindowHasAsker /\ Wake!ResponseTimerInWindow /\ Wake!WindowListens
=============================================================================
