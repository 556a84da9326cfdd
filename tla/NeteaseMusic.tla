---------------------------- MODULE NeteaseMusic ----------------------------
(***************************************************************************)
(* What the NetEase plugin plays (Plugins/neteasemusic/neteasemusic.cpp):  *)
(* songs found by a search, of which three get their addresses at once and *)
(* the rest wait in readyMusic until the player has played what it has.    *)
(*                                                                         *)
(* Every request to the service waits in an event loop, in which the       *)
(* player reports the end of a sound and the user searches again: the      *)
(* calls in progress form a stack.  Undefined behaviour ends the run in a  *)
(* state with a fault.                                                     *)
(***************************************************************************)
EXTENDS Naturals, Sequences, FiniteSets, SequencesExt

CONSTANTS
  Batch,        (* the 3 songs that get their addresses at once              *)
  MaxFound,     (* bound on the songs of one search                          *)
  MaxSongs,     (* bound on the songs ever found                             *)
  MaxCalls      (* bound on the calls nested in one another                  *)

VARIABLES
  steps,        (* calls that wait for the service, innermost last           *)
  readyMusic,
  playlist,     (* the songs given to the player, in order; those it gives   *)
                (* up when it has played everything are kept here            *)
  isPlaying,
  jumped,       (* history: what the player was told to jump to, by search   *)
  found,        (* history: number of songs found                            *)
  nestedCall,   (* history: a call came while another waited                 *)
  failure       (* the undefined behaviour that was met                      *)

musicVars == <<steps, readyMusic, playlist, isPlaying, jumped, found,
               nestedCall, failure>>

Fine == failure = ""
Step == Last(steps)
Outer == Front(steps)
CanCall == Fine /\ Len(steps) < MaxCalls
Call(step) == steps' = Append(steps, step)
Go(step) == steps' = Append(Outer, step)
Waits(at) == Fine /\ steps # <<>> /\ Step.at = at

(* An iterator into readyMusic does not survive a change of it by another  *)
(* call.                                                                   *)
Spoil(calls) ==
  [i \in DOMAIN calls |->
     IF calls[i].at = "refill" THEN [calls[i] EXCEPT !.spoilt = TRUE] ELSE calls[i]]

-----------------------------------------------------------------------------
Init ==
  /\ steps = <<>> /\ readyMusic = <<>> /\ playlist = <<>>
  /\ isPlaying = FALSE /\ jumped = {} /\ found = 0
  /\ nestedCall = FALSE /\ failure = ""

(* setPlaylist() with something to look for, or searchDefault(), which     *)
(* drops the songs that wait.                                              *)
Search(default) ==
  /\ CanCall
  /\ steps' = Append(IF default THEN Spoil(steps) ELSE steps, [at |-> "search"])
  /\ readyMusic' = IF default THEN <<>> ELSE readyMusic
  /\ nestedCall' = (nestedCall \/ steps # <<>>)
  /\ UNCHANGED <<playlist, isPlaying, jumped, found, failure>>

(* The songs of a search, which parseSongs() begins to handle; the number  *)
(* of sounds and isPlaying are read here.                                  *)
SearchAnswered(number) ==
  /\ Waits("search") /\ found + number <= MaxSongs
  /\ found' = found + number
  /\ IF number = 0 THEN steps' = Outer
     ELSE Go([at |-> "parse", songs |-> [i \in 1..number |-> found + i], i |-> 1,
              currentNumber |-> Len(playlist), wasPlaying |-> isPlaying,
              parseSuccess |-> FALSE])
  /\ UNCHANGED <<readyMusic, playlist, isPlaying, jumped, nestedCall, failure>>

(* parseSongs() has the address of a song, or learns that there is none;   *)
(* after the first three it keeps the rest and may jump to what it added.  *)
JumpTo_Slip(step) == step.currentNumber
JumpTo(step) == step.currentNumber + 1
Songs(step) == {step.songs[i] : i \in DOMAIN step.songs}
ParsedSong(url) ==
  LET step == [Step EXCEPT !.i = @ + 1, !.parseSuccess = @ \/ url]
      done == step.i > Batch \/ step.i > Len(step.songs)
      rest == SubSeq(step.songs, step.i, Len(step.songs))
      list == IF url THEN Append(playlist, step.songs[Step.i]) ELSE playlist
      jump == JumpTo(step)
  IN
  /\ Waits("parse")
  /\ playlist' = list
  /\ IF done
     THEN /\ steps' = IF rest = <<>> THEN Outer ELSE Spoil(Outer)
          /\ readyMusic' = readyMusic \o rest
          /\ jumped' = IF step.parseSuccess /\ step.wasPlaying
                       THEN jumped \cup {[to |-> jump, own |-> Songs(step)]} ELSE jumped
     ELSE Go(step) /\ UNCHANGED <<readyMusic, jumped>>
  /\ isPlaying' = (isPlaying \/ url)
  /\ UNCHANGED <<found, nestedCall, failure>>

-----------------------------------------------------------------------------
(* A sound has ended, and the player has nothing more to play: the next    *)
(* songs that wait, or a new search.                                       *)
PlayEnd ==
  /\ CanCall
  /\ isPlaying' = FALSE
  /\ nestedCall' = (nestedCall \/ steps # <<>>)
  /\ IF readyMusic = <<>> THEN Call([at |-> "search"])
     ELSE Call([at |-> "refill", spoilt |-> FALSE,
                left |-> IF Len(readyMusic) >= Batch THEN Batch ELSE Len(readyMusic)])
  /\ UNCHANGED <<readyMusic, playlist, jumped, found, failure>>

(* The address of the first song that waits; the song is then erased.      *)
Erased_Slip == readyMusic
Erased == Tail(readyMusic)
RefilledSong(url) ==
  /\ Waits("refill")
  /\ IF Step.spoilt
     THEN failure' = "iterator"
          /\ UNCHANGED <<steps, readyMusic, playlist, isPlaying>>
     ELSE /\ playlist' = IF url THEN Append(playlist, Head(readyMusic)) ELSE playlist
          /\ isPlaying' = (isPlaying \/ url)
          /\ readyMusic' = Erased
          /\ steps' = IF Step.left > 1
                      THEN Append(Spoil(Outer), [Step EXCEPT !.left = @ - 1])
                      ELSE Spoil(Outer)
          /\ UNCHANGED failure
  /\ UNCHANGED <<jumped, found, nestedCall>>

(* No answer to the request for an address: getAudio() returns no address  *)
(* at all, and parseUrl() takes the first.                                 *)
AddressLost ==
  /\ Fine /\ steps # <<>> /\ Step.at \in {"parse", "refill"}
  /\ failure' = "range"
  /\ UNCHANGED <<steps, readyMusic, playlist, isPlaying, jumped, found, nestedCall>>

-----------------------------------------------------------------------------
Next ==
  \/ \E default \in BOOLEAN : Search(default)
  \/ \E number \in 0..MaxFound : SearchAnswered(number)
  \/ \E url \in BOOLEAN : ParsedSong(url) \/ RefilledSong(url)
  \/ PlayEnd \/ AddressLost

Spec == Init /\ [][Next]_musicVars

-----------------------------------------------------------------------------
(* No song is given to the player twice, unless calls overlapped: a refill *)
(* inside a refill takes the song whose address is on its way.             *)
SongsOnce ==
  Fine /\ ~nestedCall =>
    /\ IsInjective(playlist \o readyMusic)
    /\ Len(playlist) + Len(readyMusic) <= found

(* A search that interrupts what is played jumps to a song of its own,     *)
(* unless another search added songs while it waited                       *)
(* (neteasemusic.cpp:1327, 1348).                                          *)
JumpsToItsOwn ==
  ~nestedCall => \A jump \in jumped :
    jump.to \in DOMAIN playlist /\ playlist[jump.to] \in jump.own

(* A request for an address that gets no answer is survived: message of    *)
(* neteasemusic.cpp:1132.                                                  *)
AnswersMayBeLost == failure # "range"
=============================================================================
