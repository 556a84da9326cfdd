------------------------------- MODULE Player -------------------------------
(***************************************************************************)
(* The volume (Recorder/player.cpp on Linux): amixer sets it, and what it  *)
(* prints is read for it.                                                  *)
(***************************************************************************)
EXTENDS Integers, FiniteSetsExt

CONSTANTS
  Steps            (* what is asked for, in and out of 0..100                  *)

VARIABLES
  mixer,           (* the volume of the system                                 *)
  volume,          (* the one last known                                       *)
  reading,         (* getVolumeProcess is running, from an earlier call        *)
  answer           (* what getVolume() gave last                               *)

playerVars == <<mixer, volume, reading, answer>>

Bound(level) == Max({0, Min({level, 100})})

Init == mixer \in {0, 30, 100} /\ volume = 100 /\ reading = FALSE /\ answer = 100

SetVolume(level) ==
  /\ mixer' = Bound(level) /\ volume' = Bound(level)
  /\ UNCHANGED <<reading, answer>>

(* A step of the mixer itself, up or down.                                 *)
ModifyVolume(value) ==
  /\ mixer' = Bound(mixer + value)
  /\ UNCHANGED <<volume, reading, answer>>

(* parseAmixerVolume(): the first thing in brackets, when it is a number.  *)
Unread == 0 - 1
ParseAmixerVolume_Slip(bracketed) == IF bracketed = "number" THEN mixer ELSE 0
ParseAmixerVolume(bracketed) == IF bracketed = "number" THEN mixer ELSE Unread

(* getVolume(): an earlier process is killed, one that does not end in a   *)
(* second too; then, and when nothing can be read, the volume is kept.     *)
GetVolume(ends, bracketed) ==
  LET parsed == IF ends THEN ParseAmixerVolume(bracketed) ELSE Unread
  IN  /\ volume' = IF parsed = Unread THEN volume ELSE parsed
      /\ answer' = volume'
      /\ reading' \in {FALSE, ~ends}
      /\ UNCHANGED mixer

Next ==
  \/ \E level \in Steps : SetVolume(level) \/ ModifyVolume(level)
  \/ \E ends \in BOOLEAN, bracketed \in {"number", "word", "nothing"} : GetVolume(ends, bracketed)

Spec == Init /\ [][Next]_playerVars

-----------------------------------------------------------------------------
(* A volume that cannot be read is not taken for silence, from which       *)
(* "louder" would start (player.h:36-41): what is answered was so once.    *)
VolumeKept == [][answer' # answer => answer' \in {mixer, volume}]_playerVars
=============================================================================
