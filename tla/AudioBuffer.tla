----------------------------- MODULE AudioBuffer -----------------------------
(***************************************************************************)
(* The buffer a player reads from (Recorder/audiobuffer.h and .cpp): a     *)
(* ring of bytes filled at once with raw data, or by a decoder that does   *)
(* not wait for the reader.  Bytes are numbered as they are produced.      *)
(***************************************************************************)
EXTENDS Integers, Sequences, FiniteSetsExt

CONSTANTS
  Default,         (* DefaultCapacity                                          *)
  Sizes,           (* sizes of what is written, read and allocated             *)
  MaxBytes         (* bound on the bytes produced                              *)

VARIABLES
  mem,             (* m_data, 0 where nothing was written                      *)
  begin, end, remain,
  state, isFinish,
  decoding,        (* the decoder may still deliver                            *)
  made,            (* the last byte produced                                   *)
  queue,           (* history: the bytes taken and not read, in order          *)
  dropped          (* history: bytes of this source that were not taken        *)

bufferVars == <<mem, begin, end, remain, state, isFinish, decoding, made, queue, dropped>>
ring == <<mem, begin, end, remain>>

Capacity == Cardinality(DOMAIN mem)
Available == Capacity - remain
BufferEmpty == remain >= Capacity

Allocated(size) ==
  /\ mem' = [i \in 0..(size - 1) |-> 0]
  /\ begin' = 0 /\ end' = 0 /\ remain' = size
Reset == begin' = 0 /\ end' = 0 /\ remain' = Capacity /\ UNCHANGED mem

Init ==
  /\ mem = [i \in 0..(Default - 1) |-> 0] /\ begin = 0 /\ end = 0 /\ remain = Default
  /\ state = "Idle" /\ isFinish = FALSE /\ decoding = FALSE
  /\ made = 0 /\ queue = <<>> /\ dropped = 0

-----------------------------------------------------------------------------
(* AudioRingBuffer::write() copies a tail and a head; what does not fit is *)
(* left out.                                                               *)
Bytes(n) == [i \in 1..n |-> made + i]
TailOf_Slip(capacity, at, size) == Min({capacity - at - 1, size})
TailOf(capacity, at, size) == Min({capacity - at, size})
Copied(to, at, bytes) ==
  LET tail == TailOf(Cardinality(DOMAIN to), at, Len(bytes))
  IN  [i \in DOMAIN to |->
         CASE i >= at /\ i < at + tail -> bytes[i - at + 1]
           [] i < Len(bytes) - tail    -> bytes[tail + i + 1]
           [] OTHER -> to[i]]
Write(n) ==
  LET size == Min({n, remain})
  IN  /\ mem' = Copied(mem, end, Bytes(size))
      /\ end' = (end + size) % Capacity
      /\ remain' = remain - size
      /\ queue' = queue \o Bytes(size) /\ dropped' = dropped + (n - size)
      /\ made' = made + n /\ begin' = begin

(* read()                                                                  *)
ReadOut(size) ==
  LET tail == TailOf(Capacity, begin, size)
  IN  [i \in 1..size |-> IF i <= tail THEN mem[begin + i - 1] ELSE mem[i - tail - 1]]

-----------------------------------------------------------------------------
(* start(data): all of it, in a buffer made large enough.                  *)
StartData(n) ==
  LET capacity == IF n > Capacity THEN n ELSE Capacity
  IN  /\ made + n <= MaxBytes
      /\ decoding' = FALSE /\ isFinish' = TRUE /\ state' = "Playing"
      /\ mem' = Copied(IF n > Capacity THEN [i \in 0..(n - 1) |-> 0] ELSE mem, 0, Bytes(n))
      /\ begin' = 0 /\ end' = n % capacity /\ remain' = capacity - n
      /\ queue' = Bytes(n) /\ dropped' = 0 /\ made' = made + n

StartFile ==
  /\ made < MaxBytes
  /\ decoding' = TRUE /\ isFinish' = FALSE /\ state' = "Playing"
  /\ Reset
  /\ queue' = <<>> /\ dropped' = 0 /\ UNCHANGED made

(* The decoder's bufferReady, finished and error.                          *)
BufferReady(n) ==
  /\ decoding /\ ~isFinish /\ made + n <= MaxBytes
  /\ Write(n)
  /\ UNCHANGED <<state, isFinish, decoding>>
Finished ==
  /\ decoding /\ decoding' = FALSE /\ isFinish' = TRUE
  /\ UNCHANGED <<mem, begin, end, remain, state, made, queue, dropped>>
DecodeError ==
  /\ decoding /\ decoding' = FALSE /\ isFinish' = TRUE /\ state' = "Stopped"
  /\ UNCHANGED <<mem, begin, end, remain, made, queue, dropped>>

(* readData(): the read that takes the last byte ends the playing.         *)
ReadData(n) ==
  /\ state = "Playing" /\ ~(BufferEmpty /\ ~isFinish)
  /\ LET size == Min({n, Available})
         ends == isFinish /\ size = Available
     IN  /\ begin' = (begin + size) % Capacity /\ remain' = remain + size
         /\ queue' = SubSeq(queue, size + 1, Len(queue))
         /\ state' = IF ends THEN "Stopped" ELSE state
         /\ decoding' = (decoding /\ ~ends)
  /\ UNCHANGED <<mem, end, isFinish, made, dropped>>

(* setBufferSize(): of a size it has, the ring is only emptied.            *)
SetBufferSize(n) ==
  /\ IF n = Capacity THEN Reset ELSE Allocated(n)
  /\ queue' = <<>>
  /\ UNCHANGED <<state, isFinish, decoding, made, dropped>>

Next ==
  \/ StartFile \/ Finished \/ DecodeError
  \/ \E n \in Sizes : StartData(n) \/ BufferReady(n) \/ ReadData(n) \/ SetBufferSize(n)

Spec == Init /\ [][Next]_bufferVars

-----------------------------------------------------------------------------
(* The ring holds the bytes taken and not read, in their order, around its *)
(* end (audiobuffer.h:12-24).                                              *)
RingIsQueue == Available = Len(queue) /\ ReadOut(Available) = queue
=============================================================================
