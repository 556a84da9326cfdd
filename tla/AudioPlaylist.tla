--------------------------- MODULE AudioPlaylist ---------------------------
(***************************************************************************)
(* What the assistant plays (Recorder/audioplaylist.cpp, player.cpp): songs,*)
(* speech in front of them, and the chimes of the wake-up in front of both, *)
(* all through one QMediaPlayer.                                           *)
(*                                                                         *)
(* Everybody interrupts everybody, and the player reports back later: media *)
(* load, are buffered, end or fail in events of their own.  A chime waits   *)
(* in an event loop, and so does the music plugin inside playEnd, when it   *)
(* fetches the next songs: the call that emitted playEnd goes on later.     *)
(*                                                                         *)
(* Songs are numbered as they are added.  Positions within a medium and     *)
(* seeking are left out.  The definitions named ..._Slip are defects the    *)
(* runs must notice; no action uses them.                                  *)
(***************************************************************************)
EXTENDS Naturals, Sequences, FiniteSets

CONSTANTS
  MaxPlayedHistory, (* kMaxPlayedHistory                                     *)
  MaxSongs,         (* bound on the songs ever added                         *)
  MaxSpeech,        (* bound on the sentences ever added                     *)
  MaxNested         (* bound on calls that wait, for listeners of playEnd     *)

ASSUME AudioPlaylistAssumption ==
  {MaxPlayedHistory, MaxSongs, MaxSpeech, MaxNested} \subseteq Nat

VARIABLES
  p,          (* the members of AudioPlaylist and, from source on, the player *)
              (* (started is history: songs started or jumped over on demand; *)
              (* playsAtOnce: a backend is Playing while its media load)       *)
  eventLoop,  (* the QEventLoop of a chime that blocks                       *)
  frames,     (* calls that wait, innermost last: in a chime, or in playEnd   *)
  songs,      (* history: number of songs added                              *)
  sentences,  (* history: number of sentences added                          *)
  cut,        (* history: a stop or the user's pause came during the chime   *)
  overtaken   (* history: playNext(true) went on with another list than the  *)
              (* one that plays                                              *)

ghostVars    == <<songs, sentences, cut, overtaken>>
playlistVars == <<p, eventLoop, frames, ghostVars>>

NORMAL   == 0
NOTIFY   == 1
Priority == {NORMAL, NOTIFY}

Nothing  == [kind |-> "none", n |-> 0]
Chime    == [kind |-> "chime", n |-> 0]
Song(n)  == [kind |-> "song", n |-> n]

(* A sentence, with the id under which it is taken back.                   *)
SpeechIds   == {"chat", "other"}
Sentence(id) == [kind |-> id, n |-> 0]

Track == {Song(n) : n \in 1..MaxSongs} \cup {Sentence(id) : id \in SpeechIds}
Media == Track \cup {Nothing, Chime}

Statuses == {"NoMedia", "Loading", "Loaded", "Buffered", "EndOfMedia", "Invalid"}

(* A call that waits: for its chime, or in the emission of playEnd, after   *)
(* which it calls playNext, or goes on in it with the list it had chosen.  *)
Frame == [wait : {"chime", "playNext", "goOn"}, chosen : Priority]
Wait(wait, c) == frames' = Append(frames, [wait |-> wait, chosen |-> c])
Top    == frames[Len(frames)]
Return == frames' = SubSeq(frames, 1, Len(frames) - 1)

-----------------------------------------------------------------------------
(* setMedia: the new medium loads; play() takes effect at once or later.    *)
SetMedia(q, m) ==
  [q EXCEPT !.source = m, !.currentMeta = m, !.status = "Loading",
            !.state = IF q.playsAtOnce THEN "Playing" ELSE "Stopped", !.wanted = TRUE,
            !.started = @ \cup ({m.n} \ {0})]

(* pause(): holds what plays, for something more important.                *)
Pause(q) ==
  IF q.state # "Playing" THEN q
  ELSE [q EXCEPT !.block[q.currentPriority] = TRUE,
                 !.state = "Paused", !.wanted = FALSE]

EnforceUserPause_Slip(q) == q

(* enforceUserPause: the pause the user asked for, once media are ready.   *)
EnforceUserPause(q) ==
  IF ~q.userPaused \/ q.isSound \/ q.currentPriority # NORMAL THEN q
  ELSE [q EXCEPT !.state = "Paused", !.wanted = FALSE]

(* Playlist::clear.                                                        *)
ClearList(q, c) ==
  [q EXCEPT !.list[c] = <<>>, !.block[c] = FALSE, !.index[c] = 0]

Trim_Slip(q, c) ==
  LET excess == Len(q.list[c]) - MaxPlayedHistory
  IN  IF Len(q.list[c]) <= MaxPlayedHistory THEN q
      ELSE [q EXCEPT !.list[c] = SubSeq(@, excess + 1, Len(@))]

(* The songs played longest ago are given up.                              *)
Trim(q, c) ==
  LET excess == Len(q.list[c]) - MaxPlayedHistory
  IN  IF Len(q.list[c]) <= MaxPlayedHistory THEN q
      ELSE [q EXCEPT !.list[c] = SubSeq(@, excess + 1, Len(@)),
                     !.index[c] = IF q.index[c] < excess THEN 0 ELSE q.index[c] - excess]

(* The part of playNext that starts something from list c: what was held,  *)
(* or the next track.                                                      *)
Held(q, c) ==
  IF q.userPaused /\ q.currentPriority = NORMAL THEN q
  ELSE LET r == [q EXCEPT !.block[c] = FALSE]
       IN  IF r.index[c] \in DOMAIN r.list[c]
           THEN SetMedia(r, r.list[c][r.index[c]]) ELSE r

NextTrack(q, c) ==
  [SetMedia(q, q.list[c][q.index[c] + 1]) EXCEPT !.index[c] = q.index[c] + 1]

Exhausted(q, c) == Len(q.list[c]) <= q.index[c]

AdvanceNormal(q, c) ==
  IF q.block[c] THEN Held(q, c)
  ELSE IF Exhausted(q, c) THEN Trim(q, c) ELSE NextTrack(q, c)

Advance_Slip(q, c) ==
  IF q.block[c] THEN Held(q, c)
  ELSE IF ~Exhausted(q, c) THEN NextTrack(q, c)
  ELSE [ClearList(q, c) EXCEPT !.currentPriority = @ - 1]

(* A list of speech that is exhausted is cleared, and the songs go on.     *)
Advance(q, c) ==
  IF q.currentPriority = NORMAL THEN AdvanceNormal(q, c)
  ELSE IF q.block[c] THEN Held(q, c)
  ELSE IF ~Exhausted(q, c) THEN NextTrack(q, c)
  ELSE LET r == [ClearList(q, NOTIFY) EXCEPT !.currentPriority = NORMAL]
       IN  IF r.state = "Playing" THEN r ELSE AdvanceNormal(r, NORMAL)

(* playNext().                                                             *)
PlayNext(q) == IF q.state = "Playing" THEN q ELSE Advance(q, q.currentPriority)

NormalEnd(q) == q.currentPriority = NORMAL /\ Exhausted(q, NORMAL)

Quit(loop) == IF loop = "exec" THEN "quit" ELSE loop

-----------------------------------------------------------------------------
Init ==
  /\ \E playsAtOnce \in BOOLEAN : p =
         [list |-> [c \in Priority |-> <<>>], index |-> [c \in Priority |-> 0],
          block |-> [c \in Priority |-> FALSE],
          currentPriority |-> NORMAL, currentMeta |-> Nothing,
          isSound |-> FALSE, isBlock |-> FALSE, isPlaying |-> FALSE,
          userPaused |-> FALSE,
          source |-> Nothing, state |-> "Stopped", status |-> "NoMedia",
          wanted |-> FALSE, started |-> {}, playsAtOnce |-> playsAtOnce]
  /\ eventLoop = "idle" /\ frames = <<>>
  /\ songs = 0 /\ sentences = 0 /\ cut = FALSE /\ overtaken = FALSE

-----------------------------------------------------------------------------
(* Calls.                                                                  *)

Idle(q) == q.status \in {"NoMedia", "EndOfMedia"}

Push_Slip(q, c, m) == [q EXCEPT !.list[c] = <<m>> \o @]

Push(q, c, m) == [q EXCEPT !.list[c] = Append(@, m)]

(* addAudio with NORMAL: the music plugin adds a song.  It ends the user's  *)
(* pause.                                                                  *)
AddAudio ==
  /\ songs < MaxSongs
  /\ songs' = songs + 1
  /\ LET q == Push(p, NORMAL, Song(songs + 1))
         r == IF p.userPaused
              THEN [q EXCEPT !.userPaused = FALSE, !.block[NORMAL] = FALSE] ELSE q
     IN  p' = IF p.userPaused \/ (p.state # "Paused" /\ Idle(p))
              THEN PlayNext(r) ELSE r
  /\ UNCHANGED <<eventLoop, frames, sentences, cut, overtaken>>

(* addRaw with NOTIFY: a synthesised sentence.  It goes in front of songs   *)
(* even while the user pauses them.                                        *)
AddRaw(id) ==
  /\ sentences < MaxSpeech
  /\ sentences' = sentences + 1
  /\ LET q == Push(p, NOTIFY, Sentence(id))
     IN  p' = IF p.currentPriority = NORMAL
              THEN PlayNext([Pause(q) EXCEPT !.currentPriority = NOTIFY])
              ELSE IF p.state # "Paused" /\ Idle(p) THEN PlayNext(q) ELSE q
  /\ UNCHANGED <<eventLoop, frames, songs, cut, overtaken>>

(* play(index) with NORMAL.                                                *)
Start(q, i) ==
  [SetMedia([q EXCEPT !.userPaused = FALSE, !.block[NORMAL] = FALSE],
            q.list[NORMAL][i])
     EXCEPT !.index[NORMAL] = i,
            !.started = @ \cup {q.list[NORMAL][k].n : k \in 1..i}]

PlayIndex(i) ==
  /\ p.currentPriority = NORMAL
  /\ p' = Start(p, i)
  /\ UNCHANGED <<eventLoop, frames, songs, sentences, cut, overtaken>>

(* playPrevious.                                                           *)
PlayPrevious ==
  /\ p.currentPriority = NORMAL
  /\ p.index[NORMAL] >= 2
  /\ p' = Start(p, p.index[NORMAL] - 1)
  /\ UNCHANGED <<eventLoop, frames, songs, sentences, cut, overtaken>>

(* playNext(true).  What plays, or is to be resumed after a chime, has      *)
(* ended for those who listen to playEnd.                                  *)
GoOn(c) == p' = Advance(p, c)

Skip ==
  /\ \/ /\ (p.state = "Playing" \/ p.isPlaying) /\ NormalEnd(p)
        /\ Len(frames) < MaxNested
        /\ Wait("goOn", p.currentPriority)
        /\ UNCHANGED p
     \/ GoOn(p.currentPriority) /\ UNCHANGED frames
  /\ UNCHANGED <<eventLoop, songs, sentences, cut, overtaken>>

(* pauseByUser.  The player may lose the request while media load.         *)
PauseByUser ==
  /\ ~p.userPaused
  /\ LET c == p.currentPriority
         q == [p EXCEPT !.userPaused = TRUE, !.block[c] = TRUE]
     IN  \/ p' = IF p.state = "Playing"
                 THEN [q EXCEPT !.state = "Paused", !.wanted = FALSE] ELSE q
         \/ p.status = "Loading" /\ p' = q
  /\ cut' = (cut \/ p.isSound)
  /\ UNCHANGED <<eventLoop, frames, songs, sentences, overtaken>>

(* resumeByUser.                                                           *)
ResumeByUser ==
  /\ p' = PlayNext([p EXCEPT !.userPaused = FALSE])
  /\ UNCHANGED <<eventLoop, frames, ghostVars>>

(* Player::stop.  The player reports that its medium is merely loaded.     *)
Stop ==
  /\ LET q == [p EXCEPT !.state = "Stopped", !.wanted = FALSE]
         r == IF p.status \in {"Buffered", "EndOfMedia"}
              THEN EnforceUserPause([q EXCEPT !.status = "Loaded"]) ELSE q
     IN  p' = [ClearList(ClearList(r, NORMAL), NOTIFY)
                 EXCEPT !.currentPriority = NORMAL, !.userPaused = FALSE,
                        !.isSound = FALSE, !.isPlaying = FALSE]
  /\ cut' = (cut \/ p.isSound)
  /\ UNCHANGED <<eventLoop, frames, songs, sentences, overtaken>>

(* eraseUnplayedById: what is left of the sentences, and in their order.    *)
Left(q, id) ==
  {k \in DOMAIN q.list[NOTIFY] :
     k > q.index[NOTIFY] => q.list[NOTIFY][k].kind # id}
InOrder(positions) ==
  {f \in [1..Cardinality(positions) -> positions] :
     \A i, k \in DOMAIN f : i < k => f[i] < f[k]}
Unplayed(q, order) ==
  [q EXCEPT !.list[NOTIFY] = [k \in DOMAIN order |-> @[order[k]]]]

(* clearType with NOTIFY: sentences not spoken yet are taken back.         *)
ClearType(id) ==
  /\ \E order \in InOrder(Left(p, id)) :
       LET q == Unplayed(p, order)
       IN  p' = IF p.currentPriority = NOTIFY /\ p.currentMeta.kind = id
                THEN PlayNext(q) ELSE q
  /\ UNCHANGED <<eventLoop, frames, ghostVars>>

(* playSound, blocking.  Wakeup says whether to resume afterwards: not      *)
(* after its first chime, after the second if something played when it     *)
(* woke up, or what its flag said before.                                  *)
PlaySound(currentPlaying) ==
  /\ p' = [Pause([p EXCEPT !.isPlaying = currentPlaying, !.isBlock = TRUE,
                           !.isSound = TRUE])
             EXCEPT !.source = Chime, !.status = "Loading",
                    !.state = IF p.playsAtOnce THEN "Playing" ELSE "Stopped",
                    !.wanted = TRUE]
  /\ IF eventLoop = "idle"
     THEN eventLoop' = "exec" /\ Wait("chime", NORMAL)
     ELSE UNCHANGED <<eventLoop, frames>>
  /\ cut' = FALSE
  /\ UNCHANGED <<songs, sentences, overtaken>>

SoundOver ==
  /\ eventLoop = "quit" /\ Top.wait = "chime"
  /\ eventLoop' = "idle"
  /\ Return
  /\ UNCHANGED <<p, ghostVars>>

-----------------------------------------------------------------------------
(* The player's events.                                                    *)

LoadedMedia ==
  /\ p.status = "Loading"
  /\ p' = EnforceUserPause([p EXCEPT !.status = "Loaded"])
  /\ UNCHANGED <<eventLoop, frames, ghostVars>>

BufferedMedia ==
  /\ p.status = "Loaded" /\ (p.wanted \/ p.state # "Stopped")
  /\ p' = EnforceUserPause([p EXCEPT !.status = "Buffered", !.wanted = FALSE,
                               !.state = IF @ = "Paused" THEN @ ELSE "Playing"])
  /\ UNCHANGED <<eventLoop, frames, songs, sentences, cut, overtaken>>

SoundEnded_Slip(q) == UNCHANGED eventLoop

(* A chime is over: its caller goes on, and so does what it interrupted.   *)
SoundEnded(q) == eventLoop' = IF q.isBlock THEN Quit(eventLoop) ELSE eventLoop

(* A medium has ended or failed.                                           *)
Ended(q) ==
  IF q.isSound
  THEN /\ LET r == [q EXCEPT !.isSound = FALSE, !.isPlaying = FALSE]
          IN  p' = IF q.isPlaying THEN PlayNext(r) ELSE r
       /\ SoundEnded(q)
       /\ UNCHANGED frames
  ELSE /\ UNCHANGED eventLoop
       /\ \/ NormalEnd(q) /\ Len(frames) < MaxNested
             /\ Wait("playNext", NORMAL)
             /\ p' = q
          \/ p' = PlayNext(q) /\ UNCHANGED frames

EndOfMedia ==
  /\ p.status = "Buffered" /\ p.state = "Playing"
  /\ Ended([p EXCEPT !.state = "Stopped", !.status = "EndOfMedia"])
  /\ UNCHANGED ghostVars

ErrorOccurred ==
  /\ p.status \in {"Loading", "Loaded", "Buffered"}
  /\ Ended([p EXCEPT !.state = "Stopped", !.status = "Invalid", !.wanted = FALSE])
  /\ UNCHANGED <<songs, sentences, cut, overtaken>>

(* The listener of playEnd returns, and the call that emitted it goes on:   *)
(* playNext with the list it chose before.                                 *)
ListenerReturns ==
  /\ frames # <<>> /\ Top.wait # "chime"
  /\ Return
  /\ IF Top.wait = "goOn"
     THEN GoOn(Top.chosen) /\ overtaken' = (overtaken \/ Top.chosen # p.currentPriority)
     ELSE p' = PlayNext(p) /\ UNCHANGED overtaken
  /\ UNCHANGED <<eventLoop, songs, sentences, cut>>

Next ==
  \/ AddAudio \/ (\E id \in SpeechIds : AddRaw(id) \/ ClearType(id))
  \/ (\E i \in DOMAIN p.list[NORMAL] : PlayIndex(i))
  \/ PlayPrevious \/ Skip \/ PauseByUser \/ ResumeByUser \/ Stop
  \/ (\E currentPlaying \in BOOLEAN : PlaySound(currentPlaying)) \/ SoundOver
  \/ LoadedMedia \/ BufferedMedia \/ EndOfMedia \/ ErrorOccurred
  \/ ListenerReturns

Spec == Init /\ [][Next]_playlistVars

-----------------------------------------------------------------------------
TypeOK ==
  /\ p \in [list : [Priority -> Seq(Track)], index : [Priority -> Nat],
            block : [Priority -> BOOLEAN], currentPriority : Priority,
            currentMeta : Track \cup {Nothing},
            isSound : BOOLEAN, isBlock : BOOLEAN, isPlaying : BOOLEAN,
            userPaused : BOOLEAN,
            source : Media, state : {"Stopped", "Playing", "Paused"},
            status : Statuses, wanted : BOOLEAN, started : SUBSET (1..MaxSongs),
            playsAtOnce : BOOLEAN]
  /\ eventLoop \in {"idle", "exec", "quit"}
  /\ frames \in Seq(Frame)
  /\ songs \in 0..MaxSongs /\ sentences \in 0..MaxSpeech
  /\ {cut, overtaken} \subseteq BOOLEAN

(* The next track to play is in the list or just behind it, however the     *)
(* list is trimmed, cleared and jumped in while calls wait.                *)
IndexInList == \A c \in Priority : p.index[c] <= Len(p.list[c])

(* What the user paused stays paused (header, enforceUserPause): no chime, *)
(* no speech and no late report of the player makes songs sound.           *)
UserPauseHolds ==
  /\ p.userPaused /\ ~p.isSound /\ ~overtaken
  /\ p.currentPriority = NORMAL /\ p.source.kind = "song" /\ p.status = "Buffered"
  => p.state # "Playing"

(* A chime's caller is not kept for ever (errorOccurred): the player is     *)
(* playing something whose end lets it go.                                 *)
ChimeReturns ==
  eventLoop = "exec" /\ ~cut =>
    p.isSound /\ p.isBlock /\ (p.state = "Playing" \/ p.wanted)

(* No song is lost from the order: each one up to the current was started, *)
(* or jumped over on demand, whatever came in front and whoever waited.    *)
NonePassedOver ==
  \A i \in 1..p.index[NORMAL] : p.list[NORMAL][i].n \in p.started

(* High-priority content is heard even while the user pauses the music     *)
(* (comment in addRaw): a sentence added then plays, or others before it.  *)
SpeechIsHeard ==
  [][sentences' > sentences /\ p.userPaused => p'.state = "Playing" \/ p'.wanted]_playlistVars
=============================================================================
