------------------------------ MODULE WavFiles ------------------------------
(***************************************************************************)
(* Sound files: the header AudioWriter writes, the files FileCache keeps   *)
(* for the play list, and WavFileReader, which the wake-up chain reads its *)
(* chimes with.                                                            *)
(*                                                                         *)
(* A file is a sequence of cells: "RIFF" and "fmt" with their fields, the  *)
(* header of a chunk, and one cell for each unit of sound or other         *)
(* content.  A header is as long as one cell, so cells count for the bytes *)
(* of a header as well as for those it announces.  The definitions named   *)
(* ..._Slip are defects the runs must notice.                              *)
(***************************************************************************)
EXTENDS Naturals, Sequences, SequencesExt, FiniteSets

CONSTANTS
  Limit,           (* files FileCache keeps                                  *)
  Rates, Sounds,   (* sample rates, and sounds as sequences of units         *)
  Others,          (* files of other programs                                *)
  MaxWrites,       (* bound on the files written                             *)
  BufLength        (* what ReadData is asked for at a time                   *)

VARIABLES
  now,             (* currentMSecsSinceEpoch                                 *)
  disk,            (* files by name                                          *)
  files,           (* FileCache::files, names as the time of the write       *)
  writes,          (* files written                                          *)
  written,         (* what was written last under the names on disk          *)
  file, pos,       (* the open file of the reader and its position, or none  *)
  dataOffset, dataLength, sampleRate,
  read             (* what was read of it                                    *)

cacheVars  == <<now, disk, files, writes, written>>
readerVars == <<file, pos, dataOffset, dataLength, sampleRate, read>>
wavVars    == <<cacheVars, readerVars>>

Riff(length) == [id |-> "RIFF", length |-> length, rate |-> 0]
Format(rate) == [id |-> "fmt", length |-> 0, rate |-> rate]
Chunk(id, length) == [id |-> id, length |-> length, rate |-> 0]
Unit(u) == [id |-> u, length |-> 0, rate |-> 0]
Units(sound) == [i \in DOMAIN sound |-> Unit(sound[i])]

(* AudioWriter::getHeader.                                                 *)
DataLength_Slip(length) == IF length > 0 THEN length - 1 ELSE 0
DataLength(length) == length
GetHeader(rate, length) == <<Riff(length + 2), Format(rate), Chunk("data", DataLength(length))>>

Init ==
  /\ now = 1 /\ disk = [n \in {} |-> <<>>] /\ files = <<>> /\ writes = 0
  /\ written = [n \in {} |-> <<>>]
  /\ file = <<>> /\ pos = 0 /\ dataOffset = 0 /\ dataLength = 0 /\ sampleRate = 0
  /\ read = <<>>

-----------------------------------------------------------------------------
(* FileCache::writeWav: a name for every millisecond, in which at most two *)
(* files are written; the oldest file goes when there are too many.        *)
Oldest_Slip(names) == Last(names)
Oldest(names) == Head(names)
Without(names) == IF Len(names) > Limit THEN Tail(names) ELSE names
WriteWav(sound, rate) ==
  LET names   == Append(files, now)
      content == GetHeader(rate, Len(sound)) \o Units(sound)
      there   == (DOMAIN disk \cup {now}) \ IF Len(names) > Limit THEN {Oldest(names)} ELSE {}
  IN  /\ writes < MaxWrites
      /\ disk' = [n \in there |-> IF n = now THEN content ELSE disk[n]]
      /\ files' = Without(names)
      /\ written' = [n \in there |-> IF n = now THEN [sound |-> sound, rate |-> rate] ELSE written[n]]
      /\ writes' = writes + 1
      /\ now' \in {now, now + 1} /\ (files # <<>> /\ Last(files) = now => now' = now + 1)
      /\ UNCHANGED readerVars

(* A start of the program: FileCache empties its directory.                *)
Restart ==
  /\ files # <<>>
  /\ disk' = [n \in {} |-> <<>>] /\ files' = <<>> /\ written' = [n \in {} |-> <<>>]
  /\ now' = now + 1
  /\ file' = <<>> /\ pos' = 0 /\ dataOffset' = 0 /\ dataLength' = 0 /\ sampleRate' = 0
  /\ read' = <<>>
  /\ UNCHANGED writes

-----------------------------------------------------------------------------
(* OpenWavFile goes from chunk to chunk to the first named data; a seek    *)
(* beyond the end succeeds, the read after it fails.  What stands where a  *)
(* header is expected is taken for one; no chunk of content announces less *)
(* than the rest of the file.                                              *)
NoData == 0
DataChunk(cells) ==
  LET from[p \in 3..(Len(cells) + 1)] ==
        IF p > Len(cells) THEN NoData
        ELSE IF cells[p].id = "data" THEN p
        ELSE IF cells[p].id = "LIST" /\ p + 1 + cells[p].length <= Len(cells)
             THEN from[p + 1 + cells[p].length]
        ELSE NoData
  IN  from[3]

IsWav(cells) ==
  Len(cells) >= 3 /\ cells[1].id = "RIFF" /\ cells[2].id = "fmt" /\ DataChunk(cells) # NoData

OpenWavFile(cells) ==
  /\ file = <<>>
  /\ IF IsWav(cells)
     THEN /\ file' = cells /\ pos' = DataChunk(cells) + 1
          /\ dataOffset' = DataChunk(cells) + 1
          /\ dataLength' = cells[DataChunk(cells)].length
          /\ sampleRate' = cells[2].rate
     ELSE UNCHANGED <<file, pos, dataOffset, dataLength, sampleRate>>
  /\ read' = <<>>
  /\ UNCHANGED cacheVars

CloseFile ==
  /\ file # <<>>
  /\ file' = <<>> /\ read' = <<>>
  /\ UNCHANGED <<cacheVars, pos, dataOffset, dataLength, sampleRate>>

(* ReadData gives what is left of the file, as long as it begins before    *)
(* the end of the sound.                                                   *)
AtEnd == pos >= dataOffset + dataLength
ReadData ==
  /\ file # <<>> /\ ~AtEnd
  /\ LET upto == IF pos + BufLength - 1 <= Len(file) THEN pos + BufLength - 1 ELSE Len(file)
     IN  /\ upto >= pos
         /\ read' = read \o SubSeq(file, pos, upto)
         /\ pos' = upto + 1
  /\ UNCHANGED <<cacheVars, file, dataOffset, dataLength, sampleRate>>

SetPosition(position) ==
  /\ file # <<>>
  /\ pos' = dataOffset + position
  /\ read' = <<>>
  /\ UNCHANGED <<cacheVars, file, dataOffset, dataLength, sampleRate>>

Next ==
  \/ \E sound \in Sounds, rate \in Rates : WriteWav(sound, rate)
  \/ Restart
  \/ \E name \in DOMAIN disk : OpenWavFile(disk[name])
  \/ \E other \in Others : OpenWavFile(other)
  \/ CloseFile \/ ReadData \/ SetPosition(0)

Spec == Init /\ [][Next]_wavVars

-----------------------------------------------------------------------------
(* A sound written by FileCache is read back whole, with its rate, unless  *)
(* another was written in the same millisecond; and what is read of any    *)
(* file begins with its sound.                                             *)
SoundsComeBack ==
  /\ \A name \in DOMAIN disk :
       LET w == written[name] IN
       /\ IsWav(disk[name])
       /\ SubSeq(disk[name], DataChunk(disk[name]) + 1,
                 DataChunk(disk[name]) + disk[name][DataChunk(disk[name])].length) = Units(w.sound)
       /\ disk[name][2].rate = w.rate
  /\ file # <<>> /\ AtEnd => IsPrefix(SubSeq(file, dataOffset, dataOffset + dataLength - 1), read)

(* The cache stays small, and the files written last are there: names in   *)
(* the play list do not go stale before Limit others have been written.    *)
LatestKept ==
  /\ Cardinality(DOMAIN disk) <= Limit
  /\ \A i \in 1..Len(files) :
       (\A j \in 1..(i - 1) : files[j] # files[i]) /\ i > 1 => files[i] \in DOMAIN disk
  /\ files # <<>> => Last(files) \in DOMAIN disk

(* wavfilereader.h:60, the position is one in the sound: nothing but sound *)
(* is read.                                                                *)
OnlySound == Len(read) <= dataLength
=============================================================================
