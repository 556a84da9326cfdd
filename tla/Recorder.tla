------------------------------ MODULE Recorder ------------------------------
(***************************************************************************)
(* The recorder and the ChunkReader in it (Recorder/recorder.h and .cpp):  *)
(* what the microphone has is handed out in chunks, and whoever is handed  *)
(* one may pause or stop the recorder, change the size of chunks, or run   *)
(* an event loop in which the next readyRead is answered.                  *)
(*                                                                         *)
(* Bytes are numbered as they are recorded.  The device start() returns    *)
(* may be the one it returned before.                                      *)
(***************************************************************************)
EXTENDS Integers, Sequences, FiniteSetsExt

CONSTANTS
  ChunkSizes,      (* sizes that are set, 0 among them                         *)
  MaxBytes,        (* bound on the bytes recorded                              *)
  MaxDevice,       (* bound on the devices start() returns                     *)
  MaxNesting       (* bound on the chunks being handled at a time              *)

VARIABLES
  buffer,          (* the device, 0 before startRecord(): m_device             *)
  connected,       (* how many times readyRead is connected, by device         *)
  held,            (* the bytes in it: from held[1]+1 to held[2]               *)
  chunkSize, paused,
  suspended,       (* the state of the input                                   *)
  drains,          (* drain() calls, innermost last: [device, left]            *)
  chunk            (* the last chunk handed out                                *)

recorderVars == <<buffer, connected, held, chunkSize, paused, suspended, drains, chunk>>

NoChunk == <<>>
Held == held[2] - held[1]

Init ==
  /\ buffer = 0 /\ connected = [d \in 1..MaxDevice |-> 0] /\ held = <<0, 0>>
  /\ chunkSize \in ChunkSizes \ {0} /\ paused = FALSE /\ suspended = FALSE
  /\ drains = <<>> /\ chunk = NoChunk

(* The drain that is inside all others.                                   *)
Inmost == drains[Len(drains)]

(* Handlers run between events and inside the callback of a chunk.         *)
Outside == drains # <<>> => Inmost.inCallback

-----------------------------------------------------------------------------
(* completeChunks()                                                        *)
CompleteChunks(available, size) == available \div size

(* The device has more; drain() counts the chunks once.                    *)
Record(n) ==
  /\ buffer # 0 /\ ~suspended /\ held[2] + n <= MaxBytes
  /\ held' = <<held[1], held[2] + n>>
  /\ UNCHANGED <<buffer, connected, chunkSize, paused, suspended, drains, chunk>>

Drain ==
  /\ Outside /\ Len(drains) < MaxNesting
  /\ buffer # 0 /\ connected[buffer] > 0 /\ ~paused
  /\ CompleteChunks(Held, chunkSize) > 0
  /\ drains' = Append(drains, [device |-> buffer, left |-> CompleteChunks(Held, chunkSize), inCallback |-> FALSE])
  /\ UNCHANGED <<buffer, connected, held, chunkSize, paused, suspended, chunk>>

(* One round of its loop, which looks again at who reads and whether.      *)
Stale_Slip(drain) == buffer # drain.device
Stale(drain) == paused \/ buffer # drain.device
NextChunk ==
  /\ drains # <<>> /\ ~Inmost.inCallback
  /\ LET drain == Inmost
         taken == Min({chunkSize, Held})
     IN  IF drain.left = 0 \/ Stale(drain) \/ Held = 0
         THEN drains' = SubSeq(drains, 1, Len(drains) - 1) /\ UNCHANGED <<held, chunk>>
         ELSE /\ chunk' = [i \in 1..taken |-> held[1] + i]
              /\ held' = <<held[1] + taken, held[2]>>
              /\ drains' = [drains EXCEPT ![Len(drains)] =
                              [drain EXCEPT !.left = drain.left - 1, !.inCallback = TRUE]]
  /\ UNCHANGED <<buffer, connected, chunkSize, paused, suspended>>

(* dataArrive has been handled.                                            *)
CallbackReturns ==
  /\ drains # <<>> /\ Inmost.inCallback
  /\ drains' = [drains EXCEPT ![Len(drains)].inCallback = FALSE]
  /\ chunk' = NoChunk
  /\ UNCHANGED <<buffer, connected, held, chunkSize, paused, suspended>>

-----------------------------------------------------------------------------
(* startRecord(): attach() detaches first, so one connection is left; the  *)
(* input runs again.  It may fail, which changes nothing.                  *)
Detached_Slip(conns) == conns
Detached(conns) == IF buffer = 0 THEN conns ELSE [conns EXCEPT ![buffer] = 0]
StartRecord(device) ==
  /\ Outside /\ device \in {Max({buffer, 1}), buffer + 1} \cap 1..MaxDevice
  /\ buffer' = device
  /\ connected' = [Detached(connected) EXCEPT ![device] = 1]
  /\ held' = <<held[2], held[2]>>
  /\ suspended' = FALSE /\ paused' = FALSE
  /\ UNCHANGED <<chunkSize, drains, chunk>>

StopRecord ==
  /\ Outside /\ buffer # 0
  /\ connected' = Detached(connected) /\ buffer' = 0
  /\ held' = <<held[2], held[2]>> /\ suspended' = FALSE /\ paused' = FALSE
  /\ UNCHANGED <<chunkSize, drains, chunk>>

(* A recorder that has not started has nothing to suspend.                 *)
Pause ==
  /\ Outside /\ paused' = TRUE /\ suspended' = (buffer # 0)
  /\ UNCHANGED <<buffer, connected, held, chunkSize, drains, chunk>>
Resume ==
  /\ Outside /\ paused' = FALSE /\ suspended' = FALSE
  /\ UNCHANGED <<buffer, connected, held, chunkSize, drains, chunk>>

SetChunkSize(size) ==
  /\ Outside /\ chunkSize' = Max({size, 1})
  /\ UNCHANGED <<buffer, connected, held, paused, suspended, drains, chunk>>

ClearCache ==
  /\ Outside /\ buffer # 0 /\ held' = <<held[2], held[2]>>
  /\ UNCHANGED <<buffer, connected, chunkSize, paused, suspended, drains, chunk>>

Next ==
  \/ \E n \in 1..2 : Record(n)
  \/ Drain \/ NextChunk \/ CallbackReturns
  \/ \E device \in 1..MaxDevice : StartRecord(device)
  \/ StopRecord \/ Pause \/ Resume \/ ClearCache
  \/ \E size \in ChunkSizes : SetChunkSize(size)

Spec == Init /\ [][Next]_recorderVars

-----------------------------------------------------------------------------
(* A paused recorder hands out nothing, nor does a stopped one: only the   *)
(* device that reads now, after what was handed out before.                *)
HandedInOrder ==
  [][chunk' # chunk /\ chunk' # NoChunk =>
       /\ ~paused /\ buffer = Inmost.device
       /\ chunk'[1] = held[1] + 1]_recorderVars

(* One callback on the device that reads, whatever was started and stopped *)
(* (recorder.h:45-51), and none on another.                                *)
OneConnection == \A d \in 1..MaxDevice : connected[d] = IF d = buffer THEN 1 ELSE 0

(* Only complete chunks are handed out (recorder.h:23).                    *)
ChunksWhole == [][chunk' # chunk /\ chunk' # NoChunk => Len(chunk') = chunkSize]_recorderVars
=============================================================================
