------------------------- MODULE MCListeningProofs --------------------------
(***************************************************************************)
(* Proofs about MCListening, for all bounds: the player under the play     *)
(* list (where the next track is to be found, what the user paused, who    *)
(* waits for a chime), the recorder under the wake-up chain, and the two   *)
(* in one run.                                                             *)
(*                                                                         *)
(* The play list's state is one record, and most of a step is a chain of   *)
(* operators on it: each gets a lemma that it keeps the record Sound, the  *)
(* invariants that need more than that are Fine, and a step shows that it  *)
(* keeps Fine.                                                             *)
(***************************************************************************)
EXTENDS MCListening, SequenceTheorems, FiniteSetTheorems, TLAPS

USE DEF NORMAL, NOTIFY, Priority

(* The record that TypeOK describes.                                       *)
PlayerState ==
  [list : [Priority -> Seq(Track)], index : [Priority -> Nat],
   block : [Priority -> BOOLEAN], currentPriority : Priority,
   currentMeta : Track \cup {Nothing},
   isSound : BOOLEAN, isBlock : BOOLEAN, isPlaying : BOOLEAN,
   userPaused : BOOLEAN,
   source : Media, state : {"Stopped", "Playing", "Paused"},
   status : Statuses, wanted : BOOLEAN, started : SUBSET (1..MaxSongs),
   playsAtOnce : BOOLEAN]

(* The songs are in one list, the speech in the other, up to where the     *)
(* next track is to be found; a held medium does not wait to start.        *)
Ordered(q) ==
  /\ \A i \in DOMAIN q.list[NORMAL] : q.list[NORMAL][i].kind = "song"
  /\ \A i \in DOMAIN q.list[NOTIFY] : q.list[NOTIFY][i].kind # "song"
  /\ \A c \in Priority : q.index[c] <= Len(q.list[c])
  /\ \A i \in 1..q.index[NORMAL] : q.list[NORMAL][i].n \in q.started
  /\ q.currentPriority = NORMAL => ~q.block[NOTIFY]
  /\ q.state = "Paused" => ~q.wanted
Sound(q) == q \in PlayerState /\ Ordered(q)

(* What sounds stays as it is, or a new medium loads.                      *)
Moved(q, r) ==
  /\ r.isSound = q.isSound /\ r.isBlock = q.isBlock
  /\ r.userPaused = q.userPaused
  /\ \/ r.status = "Loading" /\ r.wanted
     \/ /\ r.source = q.source /\ r.state = q.state
        /\ r.status = q.status /\ r.wanted = q.wanted

(* A new medium.                                                           *)
LEMMA SetMediaSound ==
  ASSUME NEW q, Sound(q), NEW m \in Track
  PROVE  Sound(SetMedia(q, m))
<1> DEFINE r == SetMedia(q, m)
<1>1. r \in PlayerState
  <2>1. m.n \in 0..MaxSongs
    BY AudioPlaylistAssumption DEF Track, Song, Sentence
  <2>2. m \in Media /\ m \in Track \cup {Nothing}
    BY DEF Media
  <2>3. q.started \cup ({m.n} \ {0}) \in SUBSET (1..MaxSongs)
    BY <2>1, AudioPlaylistAssumption DEF Sound, PlayerState
  <2>4. QED
    BY <2>2, <2>3 DEF SetMedia, Sound, PlayerState, Statuses
<1>2. Ordered(r)
  BY DEF SetMedia, Sound, PlayerState, Ordered
<1>3. QED
  BY <1>1, <1>2 DEF Sound

(* What plays is held.                                                     *)
LEMMA PauseSound ==
  ASSUME NEW q, Sound(q)
  PROVE  Sound(Pause(q))
<1>1. Pause(q) \in PlayerState
  BY DEF Sound, Pause, PlayerState
<1>2. Ordered(Pause(q))
  BY DEF Sound, Pause, PlayerState, Ordered
<1>3. QED
  BY <1>1, <1>2 DEF Sound

(* What is left of a row of n when more than m are given up, and where in  *)
(* it one finds what was at x.                                             *)
LEMMA Rest ==
  ASSUME NEW n \in Nat, NEW m \in Nat, NEW x \in Nat, x <= n, ~(n <= m),
         NEW left, left = IF x < n - m THEN 0 ELSE x - (n - m)
  PROVE  /\ n - m \in 1..n /\ n - (n - m) = m
         /\ left \in Nat /\ left <= m
         /\ \A i \in 1..left : (n - m) + i \in 1..x
         /\ \A i \in 1..m : (n - m) + i \in 1..n
  OBVIOUS

(* The same with other lists and other marks: only those change.           *)
Relist(q, L, I, B) == [q EXCEPT !.list = L, !.index = I, !.block = B]

(* What other lists and marks leave alone.                                 *)
LEMMA Relisted ==
  ASSUME NEW q \in PlayerState, NEW L \in [Priority -> Seq(Track)],
         NEW I \in [Priority -> Nat], NEW B \in [Priority -> BOOLEAN],
         NEW r, r = Relist(q, L, I, B)
  PROVE  /\ r \in PlayerState
         /\ r.list = L /\ r.index = I /\ r.block = B
         /\ r.currentPriority = q.currentPriority /\ r.started = q.started
         /\ r.state = q.state /\ r.wanted = q.wanted
         /\ r.isSound = q.isSound /\ r.isBlock = q.isBlock
         /\ r.userPaused = q.userPaused /\ r.source = q.source
         /\ r.status = q.status
<1>1. r \in PlayerState
  BY DEF PlayerState, Relist
<1>2. /\ r.list = L /\ r.index = I /\ r.block = B
      /\ r.currentPriority = q.currentPriority /\ r.started = q.started
      /\ r.state = q.state /\ r.wanted = q.wanted
      /\ r.isSound = q.isSound /\ r.isBlock = q.isBlock
  BY DEF PlayerState, Relist
<1>3. /\ r.userPaused = q.userPaused /\ r.source = q.source
      /\ r.status = q.status
  BY DEF PlayerState, Relist
<1>4. QED
  BY <1>1, <1>2, <1>3

(* An empty list.                                                          *)
LEMMA ClearListSound ==
  ASSUME NEW q, Sound(q), NEW c \in Priority
  PROVE  /\ Sound(ClearList(q, c)) /\ Moved(q, ClearList(q, c))
         /\ ClearList(q, c).currentPriority = q.currentPriority
<1> DEFINE L == [q.list EXCEPT ![c] = <<>>]
           I == [q.index EXCEPT ![c] = 0]
           B == [q.block EXCEPT ![c] = FALSE]
           r == Relist(q, L, I, B)
<1>1. L \in [Priority -> Seq(Track)] /\ I \in [Priority -> Nat] /\ B \in [Priority -> BOOLEAN]
  BY DEF Sound, PlayerState
<1>2. ClearList(q, c) = r
  BY DEF ClearList, Relist, Sound, PlayerState
<1>3. /\ L[c] = <<>> /\ I[c] = 0 /\ B[c] = FALSE
      /\ \A d \in Priority \ {c} : L[d] = q.list[d] /\ I[d] = q.index[d] /\ B[d] = q.block[d]
  BY DEF Sound, PlayerState
<1> HIDE DEF L, I, B
<1>4. q \in PlayerState
  BY DEF Sound
<1>5. /\ r \in PlayerState
      /\ r.list = L /\ r.index = I /\ r.block = B
      /\ r.currentPriority = q.currentPriority /\ r.started = q.started
      /\ r.state = q.state /\ r.wanted = q.wanted
      /\ r.isSound = q.isSound /\ r.isBlock = q.isBlock
      /\ r.userPaused = q.userPaused /\ r.source = q.source
      /\ r.status = q.status
  BY <1>4, <1>1, Relisted
<1> HIDE DEF r
<1>6. Ordered(r)
  BY <1>3, <1>5 DEF Sound, Ordered
<1>7. QED
  BY <1>2, <1>5, <1>6 DEF Sound, Moved

(* The pause the user asked for.                                           *)
LEMMA EnforceSound ==
  ASSUME NEW q, Sound(q)
  PROVE  Sound(EnforceUserPause(q))
<1>1. EnforceUserPause(q) \in PlayerState
  BY DEF Sound, EnforceUserPause, PlayerState
<1>2. Ordered(EnforceUserPause(q))
  BY DEF Sound, EnforceUserPause, PlayerState, Ordered
<1>3. QED
  BY <1>1, <1>2 DEF Sound

(* A list that gives up what was played long ago: its positions move       *)
(* with it.                                                                *)
LEMMA TrimSound ==
  ASSUME NEW q, Sound(q), NEW c \in Priority
  PROVE  /\ Sound(Trim(q, c)) /\ Moved(q, Trim(q, c))
         /\ Trim(q, c).currentPriority = q.currentPriority
         /\ Trim(q, c).source = q.source
<1> DEFINE row == q.list[c]
           excess == Len(row) - MaxPlayedHistory
           kept == SubSeq(row, excess + 1, Len(row))
           left == IF q.index[c] < excess THEN 0 ELSE q.index[c] - excess
           L == [q.list EXCEPT ![c] = kept]
           I == [q.index EXCEPT ![c] = left]
           r == Relist(q, L, I, q.block)
<1>1. CASE Len(row) <= MaxPlayedHistory
  BY <1>1 DEF Trim, Moved
<1>2. CASE ~(Len(row) <= MaxPlayedHistory)
  <2>1. /\ row \in Seq(Track) /\ MaxPlayedHistory \in Nat /\ Len(row) \in Nat
        /\ q.index[c] \in Nat /\ q.index[c] <= Len(row)
    BY AudioPlaylistAssumption DEF Sound, PlayerState, Ordered
  <2>2. /\ excess \in 1..Len(row) /\ Len(row) - excess = MaxPlayedHistory
        /\ left \in Nat /\ left <= MaxPlayedHistory
        /\ \A i \in 1..left : excess + i \in 1..q.index[c]
        /\ \A i \in 1..MaxPlayedHistory : excess + i \in 1..Len(row)
    <3> DEFINE n == Len(row)
               x == q.index[c]
    <3>1. n \in Nat /\ x \in Nat /\ x <= n /\ MaxPlayedHistory \in Nat /\ ~(n <= MaxPlayedHistory)
      BY <1>2, <2>1
    <3>2. left = IF x < n - MaxPlayedHistory THEN 0 ELSE x - (n - MaxPlayedHistory)
      OBVIOUS
    <3> HIDE DEF n, x, left
    <3>3. /\ n - MaxPlayedHistory \in 1..n /\ n - (n - MaxPlayedHistory) = MaxPlayedHistory
          /\ left \in Nat /\ left <= MaxPlayedHistory
          /\ \A i \in 1..left : (n - MaxPlayedHistory) + i \in 1..x
          /\ \A i \in 1..MaxPlayedHistory : (n - MaxPlayedHistory) + i \in 1..n
      BY <3>1, <3>2, Rest
    <3>4. QED
      BY <3>3 DEF n, x
  <2>3. /\ kept \in Seq(Track) /\ Len(kept) = MaxPlayedHistory
        /\ \A i \in 1..MaxPlayedHistory : kept[i] = row[excess + i]
    <3>1. \A i \in excess + 1..Len(row) : row[i] \in Track
      BY <2>1, <2>2
    <3>2. /\ kept \in Seq(Track) /\ Len(kept) = Len(row) - excess
          /\ \A i \in 1..Len(row) - excess : kept[i] = row[excess + i]
      <4> HIDE DEF row
      <4>1. /\ row \in Seq(Track) /\ Len(row) \in Nat /\ excess \in 1..Len(row)
        BY <2>1, <2>2
      <4>2. QED
        BY <4>1, <3>1, SubSeqProperties, SMTT(30)
    <3>3. QED
      BY <2>2, <3>2
  <2>5. Trim(q, c) = r
    BY <1>2, <2>1 DEF Trim, Relist, Sound, PlayerState
  <2> HIDE DEF kept, left
  <2>6. L \in [Priority -> Seq(Track)] /\ I \in [Priority -> Nat]
    BY <2>2, <2>3 DEF Sound, PlayerState
  <2>7. /\ L[c] = kept /\ I[c] = left
        /\ \A d \in Priority \ {c} : L[d] = q.list[d] /\ I[d] = q.index[d]
    BY DEF Sound, PlayerState
  <2> HIDE DEF L, I
  <2>8. q \in PlayerState /\ q.block \in [Priority -> BOOLEAN]
    BY DEF Sound, PlayerState
  <2>9. /\ r \in PlayerState
        /\ r.list = L /\ r.index = I /\ r.block = q.block
        /\ r.currentPriority = q.currentPriority /\ r.started = q.started
        /\ r.state = q.state /\ r.wanted = q.wanted
        /\ r.isSound = q.isSound /\ r.isBlock = q.isBlock
        /\ r.userPaused = q.userPaused /\ r.source = q.source
        /\ r.status = q.status
    BY <2>6, <2>8, Relisted
  <2> HIDE DEF r
  <2>10. ASSUME NEW i \in DOMAIN kept
         PROVE  excess + i \in DOMAIN row /\ kept[i] = row[excess + i]
    <3>1. DOMAIN kept = 1..MaxPlayedHistory /\ DOMAIN row = 1..Len(row)
      BY <2>1, <2>3
    <3>2. QED
      BY <2>2, <2>3, <3>1
  <2> HIDE DEF excess, row
  <2>11. /\ \A i \in DOMAIN r.list[NORMAL] : r.list[NORMAL][i].kind = "song"
         /\ \A i \in DOMAIN r.list[NOTIFY] : r.list[NOTIFY][i].kind # "song"
    BY <2>7, <2>9, <2>10 DEF Sound, Ordered, row
  <2>12. \A d \in Priority : r.index[d] <= Len(r.list[d])
    BY <2>2, <2>3, <2>7, <2>9 DEF Sound, Ordered
  <2>13. ASSUME NEW i \in 1..r.index[NORMAL]
         PROVE  r.list[NORMAL][i].n \in r.started
    <3>1. CASE c = NORMAL
      <4>1. i \in 1..left /\ r.list[NORMAL] = kept
        BY <2>7, <2>9, <2>13, <3>1
      <4>2. excess + i \in 1..q.index[NORMAL]
        BY <2>2, <3>1, <4>1
      <4>3. i \in 1..MaxPlayedHistory
        BY <2>1, <2>2, <4>1
      <4>4. kept[i] = q.list[NORMAL][excess + i]
        BY <2>3, <3>1, <4>3 DEF row
      <4>5. QED
        BY <2>9, <4>1, <4>2, <4>4 DEF Sound, Ordered
    <3>2. CASE c # NORMAL
      BY <2>7, <2>9, <2>13, <3>2 DEF Sound, Ordered
    <3>3. QED
      BY <3>1, <3>2
  <2>14. Ordered(r)
    BY <2>9, <2>11, <2>12, <2>13 DEF Sound, Ordered
  <2>15. QED
    BY <2>5, <2>9, <2>14 DEF Sound, Moved
<1>3. QED
  BY <1>1, <1>2

(* What was held loads again.                                              *)
LEMMA HeldSound ==
  ASSUME NEW q, Sound(q), NEW c \in Priority
  PROVE  /\ Sound(Held(q, c)) /\ Moved(q, Held(q, c))
         /\ Held(q, c).currentPriority = q.currentPriority
         /\ Held(q, c).source = q.source \/ (c = NOTIFY => Held(q, c).source.kind # "song")
<1> DEFINE r == [q EXCEPT !.block[c] = FALSE]
<1>1. r \in PlayerState
  BY DEF Sound, PlayerState
<1>2. Ordered(r)
  BY DEF Sound, PlayerState, Ordered
<1>3. /\ Moved(q, r) /\ r.currentPriority = q.currentPriority
      /\ r.source = q.source /\ r.list = q.list
  BY DEF Sound, PlayerState, Moved
<1>4. Held(q, c) \in {q, r, SetMedia(r, r.list[c][r.index[c]])}
  BY DEF Held
<1>5. Moved(q, q)
  BY DEF Moved
<1> HIDE DEF r
<1>6. Sound(r)
  BY <1>1, <1>2 DEF Sound
<1>7. CASE r.index[c] \in DOMAIN r.list[c]
  <2> DEFINE m == r.list[c][r.index[c]]
  <2>1. m \in Track
    BY <1>1, <1>7 DEF PlayerState
  <2>2. Sound(SetMedia(r, m))
    BY <1>6, <2>1, SetMediaSound
  <2>3. /\ Moved(q, SetMedia(r, m))
        /\ SetMedia(r, m).currentPriority = q.currentPriority
    BY <1>1, <1>3 DEF Moved, SetMedia, PlayerState
  <2>4. SetMedia(r, m).source = m
    BY <1>1 DEF SetMedia, PlayerState
  <2>5. c = NOTIFY => m.kind # "song"
    BY <1>3, <1>7 DEF Sound, Ordered
  <2>6. Held(q, c) \in {q, r, SetMedia(r, m)}
    BY <1>4
  <2> HIDE DEF m
  <2>7. CASE Held(q, c) = SetMedia(r, m)
    BY <2>2, <2>3, <2>4, <2>5, <2>7
  <2>8. CASE Held(q, c) \in {q, r}
    BY <1>3, <1>5, <1>6, <2>8
  <2>9. QED
    BY <2>6, <2>7, <2>8
<1>8. CASE r.index[c] \notin DOMAIN r.list[c]
  <2>1. Held(q, c) \in {q, r}
    BY <1>8 DEF Held, r
  <2>2. Sound(q) /\ Moved(q, q)
    BY <1>5
  <2>3. QED
    BY <1>3, <1>6, <2>1, <2>2
<1>9. QED
  BY <1>7, <1>8

(* The songs carry their numbers.                                          *)
LEMMA SongsAreNumbered ==
  ASSUME NEW m \in Track, m.kind = "song"
  PROVE  m.n \in 1..MaxSongs
<1>1. CASE m \in {Song(n) : n \in 1..MaxSongs}
  <2>1. PICK n \in 1..MaxSongs : m = Song(n)
    BY <1>1
  <2>2. QED
    BY <2>1 DEF Song
<1>2. CASE m \in {Sentence(id) : id \in SpeechIds}
  <2>1. PICK id \in SpeechIds : m = Sentence(id)
    BY <1>2
  <2>2. m.kind = id
    BY <2>1 DEF Sentence
  <2>3. QED
    BY <2>2 DEF SpeechIds
<1>3. QED
  BY <1>1, <1>2 DEF Track

(* What comes next is started, or what was held, or nothing: a list of     *)
(* speech is left for the songs only, and only speech comes from it.       *)
FromList(q, c, r) == /\ Sound(r) /\ Moved(q, r)
                     /\ r.currentPriority = q.currentPriority
                     /\ r.source = q.source \/ (c = NOTIFY => r.source.kind # "song")

(* The next track counts as started.                                       *)
LEMMA NextTrackSound ==
  ASSUME NEW q, Sound(q), NEW c \in Priority, ~Exhausted(q, c)
  PROVE  /\ FromList(q, c, NextTrack(q, c))
         /\ NextTrack(q, c).wanted /\ NextTrack(q, c).status = "Loading"
         /\ c = NOTIFY => NextTrack(q, c).source.kind # "song"
<1> DEFINE x == q.index[c]
           m == q.list[c][x + 1]
           s == SetMedia(q, m)
           I == [q.index EXCEPT ![c] = x + 1]
           r == Relist(s, q.list, I, q.block)
<1>1. /\ q \in PlayerState /\ q.list \in [Priority -> Seq(Track)]
      /\ q.index \in [Priority -> Nat] /\ q.block \in [Priority -> BOOLEAN]
      /\ q.list[c] \in Seq(Track) /\ Len(q.list[c]) \in Nat /\ x \in Nat
  BY DEF Sound, PlayerState
<1>2. x + 1 \in 1..Len(q.list[c])
  BY <1>1 DEF Exhausted
<1>3. m \in Track /\ x + 1 \in DOMAIN q.list[c]
  BY <1>1, <1>2, ElementOfSeq
<1>4. m.kind = "song" <=> c = NORMAL
  BY <1>3 DEF Sound, Ordered
<1>5. m.kind = "song" => m.n \in 1..MaxSongs
  BY <1>3, SongsAreNumbered
<1>6. Sound(s)
  BY <1>3, SetMediaSound
<1>7. /\ s.list = q.list /\ s.index = q.index /\ s.block = q.block
      /\ s.currentPriority = q.currentPriority /\ s.source = m
      /\ s.wanted /\ s.status = "Loading"
      /\ s.isSound = q.isSound /\ s.isBlock = q.isBlock /\ s.userPaused = q.userPaused
      /\ s.started = q.started \cup ({m.n} \ {0})
  BY <1>1 DEF SetMedia, PlayerState
<1>8. NextTrack(q, c) = r
  BY ZenonT(40), <1>1 DEF NextTrack, Relist, SetMedia, PlayerState
<1>9. I \in [Priority -> Nat] /\ I[c] = x + 1 /\ \A d \in Priority \ {c} : I[d] = q.index[d]
  BY <1>1
<1> HIDE DEF s, I
<1>10. s \in PlayerState
  BY <1>6 DEF Sound
<1>11. /\ r \in PlayerState
       /\ r.list = q.list /\ r.index = I /\ r.block = q.block
       /\ r.currentPriority = s.currentPriority /\ r.started = s.started
       /\ r.state = s.state /\ r.wanted = s.wanted
       /\ r.isSound = s.isSound /\ r.isBlock = s.isBlock
       /\ r.userPaused = s.userPaused /\ r.source = s.source
       /\ r.status = s.status
  BY <1>1, <1>9, <1>10, Relisted
<1> HIDE DEF r, m, x
<1>12. \A d \in Priority : r.index[d] <= Len(r.list[d])
  BY <1>2, <1>9, <1>11 DEF Sound, Ordered
<1>13. ASSUME NEW i \in 1..r.index[NORMAL]
       PROVE  r.list[NORMAL][i].n \in r.started
  <2>1. CASE c = NORMAL /\ i = x + 1
    BY <1>4, <1>5, <1>7, <1>11, <2>1, AudioPlaylistAssumption DEF m
  <2>2. CASE ~(c = NORMAL /\ i = x + 1)
    <3>1. i \in 1..q.index[NORMAL]
      BY <1>1, <1>9, <1>11, <1>13, <2>2 DEF x
    <3>2. QED
      BY <1>7, <1>11, <3>1 DEF Sound, Ordered
  <2>3. QED
    BY <2>1, <2>2
<1>14. Ordered(r)
  <2>1. /\ \A i \in DOMAIN r.list[NORMAL] : r.list[NORMAL][i].kind = "song"
        /\ \A i \in DOMAIN r.list[NOTIFY] : r.list[NOTIFY][i].kind # "song"
        /\ r.currentPriority = NORMAL => ~r.block[NOTIFY]
    BY <1>7, <1>11 DEF Sound, Ordered
  <2>2. r.state = "Paused" => ~r.wanted
    BY <1>6, <1>11 DEF Sound, Ordered
  <2>3. QED
    BY <1>12, <1>13, <2>1, <2>2 DEF Ordered
<1>15. Sound(r) /\ Moved(q, r) /\ r.currentPriority = q.currentPriority
  BY <1>7, <1>11, <1>14 DEF Sound, Moved
<1>16. c = NOTIFY => r.source.kind # "song"
  BY <1>4, <1>7, <1>11
<1>17. QED
  BY <1>7, <1>8, <1>11, <1>15, <1>16 DEF FromList

(* The songs go on, or their list is trimmed.                              *)
LEMMA AdvanceNormalSound ==
  ASSUME NEW q, Sound(q), NEW c \in Priority
  PROVE  FromList(q, c, AdvanceNormal(q, c))
<1>1. CASE q.block[c]
  BY <1>1, HeldSound DEF AdvanceNormal, FromList
<1>2. CASE ~q.block[c] /\ Exhausted(q, c)
  BY <1>2, TrimSound DEF AdvanceNormal, FromList
<1>3. CASE ~q.block[c] /\ ~Exhausted(q, c)
  BY <1>3, NextTrackSound DEF AdvanceNormal
<1>4. QED
  BY <1>1, <1>2, <1>3

(* The next track starts, whatever list it comes from.                     *)
LEMMA AdvanceSound ==
  ASSUME NEW q, Sound(q), NEW c \in Priority
  PROVE  LET r == Advance(q, c)
         IN  /\ Sound(r) /\ Moved(q, r)
             /\ r.currentPriority \in {q.currentPriority, NORMAL}
             /\ (c = NOTIFY \/ c = q.currentPriority) /\ r.currentPriority = NOTIFY =>
                  r.source = q.source \/ r.source.kind # "song"
<1> DEFINE s == ClearList(q, NOTIFY)
           t == [s EXCEPT !.currentPriority = NORMAL]
<1>1. CASE q.currentPriority = NORMAL
  BY <1>1, AdvanceNormalSound DEF Advance, FromList
<1>2. CASE q.currentPriority # NORMAL /\ q.block[c]
  BY <1>2, HeldSound DEF Advance, FromList
<1>3. CASE q.currentPriority # NORMAL /\ ~q.block[c] /\ ~Exhausted(q, c)
  BY <1>3, NextTrackSound DEF Advance, FromList
<1>4. CASE q.currentPriority # NORMAL /\ ~q.block[c] /\ Exhausted(q, c)
  <2>1. /\ Sound(s) /\ Moved(q, s)
        /\ s.currentPriority = q.currentPriority
    BY ClearListSound
  <2>2. ~s.block[NOTIFY]
    BY DEF ClearList, Sound, PlayerState
  <2> HIDE DEF s
  <2>3. t \in PlayerState
    BY <2>1 DEF Sound, PlayerState
  <2>4. Ordered(t)
    BY <2>1, <2>2 DEF Sound, PlayerState, Ordered
  <2>5. Moved(q, t) /\ t.currentPriority = NORMAL
    BY <2>1 DEF Sound, PlayerState, Moved
  <2>6. Advance(q, c) = IF t.state = "Playing" THEN t ELSE AdvanceNormal(t, NORMAL)
    BY <1>4 DEF Advance, s
  <2> HIDE DEF t
  <2>7. FromList(t, NORMAL, AdvanceNormal(t, NORMAL)) /\ Sound(t)
    BY <2>3, <2>4, AdvanceNormalSound DEF Sound
  <2> DEFINE r == AdvanceNormal(t, NORMAL)
  <2> HIDE DEF r
  <2>8. Moved(q, r) /\ r.currentPriority = NORMAL /\ Sound(r)
    BY <2>5, <2>7 DEF FromList, Moved, r
  <2>9. QED
    BY <2>5, <2>6, <2>7, <2>8 DEF r
<1>5. QED
  BY <1>1, <1>2, <1>3, <1>4

(* A sequence with one more member.                                        *)
LEMMA OneMore ==
  ASSUME NEW S, NEW s \in Seq(S), NEW e \in S, NEW t, t = Append(s, e)
  PROVE  /\ t \in Seq(S) /\ Len(t) = Len(s) + 1 /\ Len(s) \in Nat
         /\ \A i \in DOMAIN t : t[i] = e \/ (i \in DOMAIN s /\ t[i] = s[i])
         /\ \A i \in DOMAIN s : i \in DOMAIN t /\ t[i] = s[i]
  BY AppendProperties

(* A track of its kind goes to the end of a list, which is then not        *)
(* exhausted.                                                              *)
LEMMA PushSound ==
  ASSUME NEW q, Sound(q), NEW c \in Priority, NEW m \in Track,
         m.kind = "song" <=> c = NORMAL, NEW r, r = Push(q, c, m)
  PROVE  /\ Sound(r) /\ Moved(q, r)
         /\ r.currentPriority = q.currentPriority /\ r.source = q.source
         /\ r.block = q.block /\ r.state = q.state /\ r.status = q.status
         /\ r.wanted = q.wanted
         /\ ~Exhausted(r, c)
<1> DEFINE row == Append(q.list[c], m)
           L == [q.list EXCEPT ![c] = row]
<1>1. /\ q \in PlayerState /\ q.list \in [Priority -> Seq(Track)]
      /\ q.index \in [Priority -> Nat] /\ q.block \in [Priority -> BOOLEAN]
      /\ q.list[c] \in Seq(Track)
  BY DEF Sound, PlayerState
<1>2. r = Relist(q, L, q.index, q.block)
  BY <1>1 DEF Push, Relist, PlayerState
<1>3. /\ row \in Seq(Track) /\ Len(row) = Len(q.list[c]) + 1 /\ Len(q.list[c]) \in Nat
      /\ \A i \in DOMAIN row : row[i] = m \/ (i \in DOMAIN q.list[c] /\ row[i] = q.list[c][i])
      /\ \A i \in DOMAIN q.list[c] : i \in DOMAIN row /\ row[i] = q.list[c][i]
  BY <1>1, OneMore
<1> HIDE DEF row
<1>4. L \in [Priority -> Seq(Track)] /\ L[c] = row /\ \A d \in Priority \ {c} : L[d] = q.list[d]
  BY <1>1, <1>3
<1> HIDE DEF L
<1>5. /\ r \in PlayerState
      /\ r.list = L /\ r.index = q.index /\ r.block = q.block
      /\ r.currentPriority = q.currentPriority /\ r.started = q.started
      /\ r.state = q.state /\ r.wanted = q.wanted
      /\ r.isSound = q.isSound /\ r.isBlock = q.isBlock
      /\ r.userPaused = q.userPaused /\ r.source = q.source
      /\ r.status = q.status
  BY <1>1, <1>2, <1>4, Relisted
<1>6. \A d \in Priority : q.index[d] \in Nat /\ q.index[d] <= Len(q.list[d])
  BY <1>1 DEF Sound, Ordered
<1>7. q.index[c] \in Nat /\ q.index[c] < Len(row) /\ Len(row) \in Nat
  BY <1>3, <1>6
<1>8. ~Exhausted(r, c)
  BY <1>4, <1>5, <1>7 DEF Exhausted
<1>9. \A d \in Priority : r.index[d] <= Len(r.list[d])
  BY <1>4, <1>5, <1>6, <1>7
<1>10. /\ \A i \in DOMAIN r.list[NORMAL] : r.list[NORMAL][i].kind = "song"
       /\ \A i \in DOMAIN r.list[NOTIFY] : r.list[NOTIFY][i].kind # "song"
  BY SMTT(30), <1>3, <1>4, <1>5 DEF Sound, Ordered
<1>11. ASSUME NEW i \in 1..r.index[NORMAL]
       PROVE  r.list[NORMAL][i].n \in r.started
  <2>1. i \in DOMAIN q.list[NORMAL]
    <3>1. q.list[NORMAL] \in Seq(Track) /\ Len(q.list[NORMAL]) \in Nat
      BY <1>1
    <3>2. i \in 1..Len(q.list[NORMAL])
      BY <1>5, <1>6, <1>11, <3>1
    <3>3. QED
      BY <3>1, <3>2
  <2>2. r.list[NORMAL][i] = q.list[NORMAL][i]
    BY <1>3, <1>4, <1>5, <2>1
  <2>3. QED
    BY <1>5, <1>11, <2>2 DEF Sound, Ordered
<1>12. Sound(r)
  BY <1>5, <1>9, <1>10, <1>11 DEF Sound, Ordered
<1>13. QED
  BY <1>5, <1>8, <1>12 DEF Moved

(* A song that is jumped to loads, and those before it count as started.   *)
LEMMA StartSound ==
  ASSUME NEW q, Sound(q), q.currentPriority = NORMAL,
         NEW i \in DOMAIN q.list[NORMAL], NEW r, r = Start(q, i)
  PROVE  /\ Sound(r) /\ r.currentPriority = NORMAL
         /\ r.status = "Loading" /\ r.wanted /\ ~r.userPaused
         /\ r.isSound = q.isSound /\ r.isBlock = q.isBlock
<1> DEFINE m == q.list[NORMAL][i]
           before == {q.list[NORMAL][k].n : k \in 1..i}
           B == [q.block EXCEPT ![NORMAL] = FALSE]
           I == [q.index EXCEPT ![NORMAL] = i]
           u == [q EXCEPT !.userPaused = FALSE, !.block = B]
           s == SetMedia(u, m)
           D == s.started \cup before
<1>1. /\ q \in PlayerState /\ q.list \in [Priority -> Seq(Track)]
      /\ q.index \in [Priority -> Nat] /\ q.block \in [Priority -> BOOLEAN]
      /\ q.list[NORMAL] \in Seq(Track) /\ Len(q.list[NORMAL]) \in Nat
      /\ q.started \in SUBSET (1..MaxSongs)
  BY DEF Sound, PlayerState
<1>2. i \in Nat /\ i \in 1..Len(q.list[NORMAL])
  BY <1>1
<1>3. m \in Track /\ \A k \in 1..i : k \in DOMAIN q.list[NORMAL] /\ q.list[NORMAL][k] \in Track
  BY <1>1, <1>2, ElementOfSeq
<1>4. \A k \in 1..i : q.list[NORMAL][k].n \in 1..MaxSongs
  BY <1>3, SongsAreNumbered DEF Sound, Ordered
<1>5. before \subseteq 1..MaxSongs /\ m.n \in 1..MaxSongs
  BY <1>2, <1>4
<1> HIDE DEF before, m
<1>6. /\ B \in [Priority -> BOOLEAN] /\ I \in [Priority -> Nat]
      /\ B[NORMAL] = FALSE /\ B[NOTIFY] = q.block[NOTIFY]
      /\ I[NORMAL] = i /\ I[NOTIFY] = q.index[NOTIFY]
  BY <1>1, <1>2
<1>7. u = [q EXCEPT !.userPaused = FALSE, !.block[NORMAL] = FALSE]
  BY <1>1 DEF PlayerState
<1> HIDE DEF B
<1>8. /\ u \in PlayerState
      /\ u.list = q.list /\ u.index = q.index /\ u.block = B /\ ~u.userPaused
      /\ u.currentPriority = q.currentPriority /\ u.started = q.started
      /\ u.state = q.state /\ u.wanted = q.wanted
      /\ u.isSound = q.isSound /\ u.isBlock = q.isBlock
  BY <1>1, <1>6 DEF PlayerState
<1>9. r = [s EXCEPT !.index[NORMAL] = i, !.started = @ \cup before]
  BY <1>7 DEF Start, before, m
<1> HIDE DEF u
<1>10. Sound(u)
  BY <1>6, <1>8 DEF Sound, Ordered
<1>11. /\ Sound(s) /\ s \in PlayerState
  BY <1>3, <1>10, SetMediaSound DEF Sound
<1>12. /\ s.list = u.list /\ s.index = u.index /\ s.block = u.block
       /\ s.userPaused = u.userPaused /\ s.currentPriority = u.currentPriority
       /\ s.isSound = u.isSound /\ s.isBlock = u.isBlock
       /\ s.status = "Loading" /\ s.wanted /\ s.state # "Paused"
  BY <1>8 DEF SetMedia, PlayerState
<1>13. s.started \in SUBSET (1..MaxSongs)
  BY <1>11 DEF PlayerState
<1> HIDE DEF s
<1>14. /\ D \in SUBSET (1..MaxSongs) /\ before \subseteq D
  BY <1>5, <1>13
<1>15. r = [s EXCEPT !.index = I, !.started = D]
  BY <1>8, <1>11, <1>12, <1>9 DEF PlayerState
<1> HIDE DEF D, I
<1>16. r \in PlayerState
  BY ZenonT(40), <1>6, <1>11, <1>14, <1>15 DEF PlayerState
<1>17. /\ r.list = s.list /\ r.index = I /\ r.block = s.block /\ r.started = D
       /\ r.userPaused = s.userPaused /\ r.currentPriority = s.currentPriority
       /\ r.isSound = s.isSound /\ r.isBlock = s.isBlock
       /\ r.status = s.status /\ r.wanted = s.wanted /\ r.state = s.state
  BY <1>11, <1>15 DEF PlayerState
<1>18. /\ r.list = q.list /\ r.block = B /\ ~r.userPaused
       /\ r.currentPriority = NORMAL
       /\ r.isSound = q.isSound /\ r.isBlock = q.isBlock
       /\ r.status = "Loading" /\ r.wanted /\ r.state # "Paused"
  BY <1>8, <1>12, <1>17
<1>19. \A c \in Priority : r.index[c] <= Len(r.list[c])
  BY <1>2, <1>6, <1>18, <1>17 DEF Sound, Ordered
<1>20. \A k \in 1..r.index[NORMAL] : r.list[NORMAL][k].n \in r.started
  BY <1>6, <1>14, <1>18, <1>17 DEF before
<1>21. Ordered(r)
  BY <1>6, <1>19, <1>20, <1>18 DEF Sound, Ordered
<1>22. QED
  BY <1>21, <1>18, <1>16 DEF Sound

(* What was spoken stays where it is when sentences are taken back.        *)
LEMMA UnplayedSound ==
  ASSUME NEW q, Sound(q), NEW id, NEW order \in InOrder(Left(q, id)),
         NEW r, r = Unplayed(q, order)
  PROVE  /\ Sound(r) /\ Moved(q, r)
         /\ r.currentPriority = q.currentPriority /\ r.source = q.source
<1> DEFINE row == q.list[NOTIFY]
           left == Left(q, id)
           n == Cardinality(left)
           kept == [k \in 1..n |-> row[order[k]]]
           L == [q.list EXCEPT ![NOTIFY] = kept]
           x == q.index[NOTIFY]
<1>1. /\ q \in PlayerState /\ q.list \in [Priority -> Seq(Track)]
      /\ q.index \in [Priority -> Nat] /\ q.block \in [Priority -> BOOLEAN]
      /\ row \in Seq(Track) /\ Len(row) \in Nat /\ DOMAIN row = 1..Len(row)
      /\ x \in Nat /\ x <= Len(row)
  BY DEF Sound, PlayerState, Ordered
<1>2. left \subseteq DOMAIN row /\ IsFiniteSet(left) /\ n \in Nat
  <2>1. left \subseteq 1..Len(row)
    BY <1>1 DEF Left
  <2>2. IsFiniteSet(1..Len(row))
    BY <1>1, FS_Interval
  <2>3. QED
    BY <1>1, <2>1, <2>2, FS_Subset, FS_CardinalityType
<1>3. x <= n
  <2>1. 1..x \subseteq left
    BY <1>1 DEF Left
  <2>2. Cardinality(1..x) = x
    <3> HIDE DEF x
    <3>1. x \in Nat /\ x \in Int /\ 1 \in Int
      BY <1>1
    <3>2. Cardinality(1..x) = IF 1 > x THEN 0 ELSE x - 1 + 1
      BY <3>1, FS_Interval
    <3>3. QED
      BY <3>1, <3>2
  <2>3. Cardinality(1..x) <= n
    BY <1>2, <2>1, FS_Subset
  <2>4. QED
    BY <2>2, <2>3
<1>4. order \in [1..n -> left]
  BY DEF InOrder
<1>5. r = Relist(q, L, q.index, q.block)
  BY <1>1, <1>4 DEF Unplayed, Relist, PlayerState
<1>6. /\ kept \in Seq(Track) /\ Len(kept) = n /\ DOMAIN kept = 1..n
      /\ \A k \in 1..n : \E j \in DOMAIN row : kept[k] = row[j]
  <2>1. \A k \in 1..n : order[k] \in DOMAIN row /\ row[order[k]] \in Track
    BY <1>1, <1>2, <1>4, ElementOfSeq
  <2>2. kept \in [1..n -> Track]
    BY <2>1
  <2>3. QED
    BY <1>2, <2>1, <2>2
<1> HIDE DEF kept, left, n
<1>7. L \in [Priority -> Seq(Track)] /\ L[NOTIFY] = kept /\ L[NORMAL] = q.list[NORMAL]
  BY <1>1, <1>6
<1> HIDE DEF L
<1>8. /\ r \in PlayerState
      /\ r.list = L /\ r.index = q.index /\ r.block = q.block
      /\ r.currentPriority = q.currentPriority /\ r.started = q.started
      /\ r.state = q.state /\ r.wanted = q.wanted
      /\ r.isSound = q.isSound /\ r.isBlock = q.isBlock
      /\ r.userPaused = q.userPaused /\ r.source = q.source
      /\ r.status = q.status
  BY <1>1, <1>5, <1>7, Relisted
<1>9. \A c \in Priority : r.index[c] <= Len(r.list[c])
  BY <1>3, <1>6, <1>7, <1>8 DEF Sound, Ordered
<1>10. \A i \in DOMAIN r.list[NOTIFY] : r.list[NOTIFY][i].kind # "song"
  BY <1>6, <1>7, <1>8 DEF Sound, Ordered
<1>11. Ordered(r)
  BY <1>7, <1>8, <1>9, <1>10 DEF Sound, Ordered
<1>12. QED
  BY <1>8, <1>11 DEF Sound, Moved

(* The next track, and what plays goes on unless it is over.               *)
LEMMA PlayNextSound ==
  ASSUME NEW q, Sound(q), NEW r, r = PlayNext(q)
  PROVE  /\ Sound(r) /\ Moved(q, r)
         /\ r.currentPriority \in {q.currentPriority, NORMAL}
         /\ r.currentPriority = NOTIFY => r.source = q.source \/ r.source.kind # "song"
<1>1. q.currentPriority \in Priority
  BY DEF Sound, PlayerState
<1>2. Moved(q, q)
  BY DEF Moved
<1>3. CASE q.state = "Playing"
  BY <1>2, <1>3 DEF PlayNext
<1>4. CASE q.state # "Playing"
  BY <1>1, <1>4, AdvanceSound DEF PlayNext
<1>5. QED
  BY <1>3, <1>4

(* The speech in front is speech, what the user paused does not sound, and *)
(* a chime somebody waits for is playing.                                  *)
Fine(q, loop, c, o) ==
  /\ Sound(q)
  /\ ~o /\ q.currentPriority = NOTIFY => q.source.kind # "song"
  /\ /\ q.userPaused /\ ~q.isSound /\ ~o
     /\ q.currentPriority = NORMAL /\ q.source.kind = "song" /\ q.status = "Buffered"
     => q.state # "Playing"
  /\ loop = "exec" /\ ~c => q.isSound /\ q.isBlock /\ (q.state = "Playing" \/ q.wanted)

(* playNext() changes none of it.                                          *)
LEMMA PlayNextFine ==
  ASSUME NEW q, NEW loop, NEW c, NEW o, Fine(q, loop, c, o)
  PROVE  Fine(PlayNext(q), loop, c, o)
<1> DEFINE r == PlayNext(q)
<1>1. /\ Sound(r) /\ Moved(q, r)
      /\ r.currentPriority \in {q.currentPriority, NORMAL}
      /\ r.currentPriority = NOTIFY => r.source = q.source \/ r.source.kind # "song"
  BY PlayNextSound DEF Fine
<1> HIDE DEF r
<1>2. q.currentPriority \in {NORMAL, NOTIFY}
  BY DEF Fine, Sound, PlayerState
<1>3. Fine(r, loop, c, o)
  BY <1>1, <1>2 DEF Fine, Moved
<1>4. QED
  BY <1>3 DEF r

(* Nor does playNext(true), unless it goes on with a list that no longer   *)
(* plays, which is what overtaken records.                                 *)
LEMMA AdvanceFine ==
  ASSUME NEW q, NEW loop, NEW c, NEW o, Fine(q, loop, c, o), NEW d \in Priority,
         NEW o1 \in BOOLEAN, o1 <=> (o \/ d # q.currentPriority)
  PROVE  Fine(Advance(q, d), loop, c, o1)
<1> DEFINE r == Advance(q, d)
<1>1. /\ Sound(r) /\ Moved(q, r)
      /\ r.currentPriority \in {q.currentPriority, NORMAL}
      /\ (d = NOTIFY \/ d = q.currentPriority) /\ r.currentPriority = NOTIFY =>
            r.source = q.source \/ r.source.kind # "song"
  BY AdvanceSound DEF Fine
<1> HIDE DEF r
<1>2. q.currentPriority \in {NORMAL, NOTIFY}
  BY DEF Fine, Sound, PlayerState
<1>3. Fine(r, loop, c, o1)
  BY <1>1, <1>2 DEF Fine, Moved
<1>4. QED
  BY <1>3 DEF r


-----------------------------------------------------------------------------
(* The inductive invariant.                                                *)
PlayInv == TypeOK /\ Fine(p, eventLoop, cut, overtaken)

(* Calls that wait, one more or one less.                                  *)
LEMMA FramesKept ==
  ASSUME frames \in Seq(Frame)
  PROVE  /\ \A w \in {"chime", "playNext", "goOn"}, c \in Priority :
              Wait(w, c) => frames' \in Seq(Frame)
         /\ Return => frames' \in Seq(Frame)
<1>1. ASSUME NEW w \in {"chime", "playNext", "goOn"}, NEW c \in Priority, Wait(w, c)
      PROVE  frames' \in Seq(Frame)
  <2>1. [wait |-> w, chosen |-> c] \in Frame
    BY DEF Frame
  <2>2. QED
    BY <1>1, <2>1 DEF Wait
<1>2. ASSUME Return
      PROVE  frames' \in Seq(Frame)
  <2>1. Len(frames) \in Nat /\ frames' = SubSeq(frames, 1, Len(frames) - 1)
    BY <1>2 DEF Return
  <2>2. \A i \in 1..Len(frames) - 1 : frames[i] \in Frame
    BY <2>1, ElementOfSeq
  <2>3. QED
    BY <2>1, <2>2, SubSeqProperties
<1>3. QED
  BY <1>1, <1>2

(* A song is added.                                                        *)
LEMMA AddAudioFine ==
  ASSUME PlayInv, AddAudio
  PROVE  PlayInv'
<1> DEFINE m == Song(songs + 1)
           q == Push(p, NORMAL, m)
           r == IF p.userPaused
                THEN [q EXCEPT !.userPaused = FALSE, !.block[NORMAL] = FALSE] ELSE q
<1>1. m \in Track /\ m.kind = "song" /\ songs' \in 0..MaxSongs
  BY AudioPlaylistAssumption DEF AddAudio, PlayInv, TypeOK, Track, Song
<1>2. /\ Sound(q) /\ Moved(p, q)
      /\ q.currentPriority = p.currentPriority /\ q.source = p.source
      /\ q.state = p.state /\ q.status = p.status /\ q.wanted = p.wanted
  BY <1>1, PushSound DEF PlayInv, Fine
<1>3. Fine(q, eventLoop, cut, overtaken)
  BY <1>2 DEF PlayInv, Fine, Moved
<1>4. p' = PlayNext(r) \/ p' = r
  BY DEF AddAudio
<1> HIDE DEF q
<1>5. Fine(r, eventLoop, cut, overtaken)
  <2>1. r \in PlayerState
    BY ZenonT(40), <1>2 DEF Sound, PlayerState
  <2>2. Ordered(r)
    BY <1>2 DEF Sound, PlayerState, Ordered
  <2>3. QED
    BY <1>2, <1>3, <2>1, <2>2 DEF Fine, Sound, PlayerState
<1> HIDE DEF r
<1>6. Fine(p', eventLoop, cut, overtaken)
  BY <1>4, <1>5, PlayNextFine
<1>7. QED
  BY <1>1, <1>6 DEF AddAudio, PlayInv, TypeOK, Fine, Sound, PlayerState

(* A sentence is added: it always starts when songs are in front, because  *)
(* no speech is held then and the list just grew.                          *)
LEMMA AddRawFine ==
  ASSUME PlayInv, NEW id \in SpeechIds, AddRaw(id)
  PROVE  PlayInv'
<1> DEFINE m == Sentence(id)
           q == Push(p, NOTIFY, m)
           h == Pause(q)
           r == [h EXCEPT !.currentPriority = NOTIFY]
<1>1. m \in Track /\ m.kind # "song" /\ sentences' \in 0..MaxSpeech
  BY AudioPlaylistAssumption DEF AddRaw, PlayInv, TypeOK, Track, Sentence, SpeechIds
<1>2. /\ Sound(q) /\ Moved(p, q) /\ ~Exhausted(q, NOTIFY)
      /\ q.currentPriority = p.currentPriority /\ q.source = p.source
      /\ q.state = p.state /\ q.status = p.status /\ q.wanted = p.wanted
      /\ q.block = p.block
  BY <1>1, PushSound DEF PlayInv, Fine
<1>3. Fine(q, eventLoop, cut, overtaken)
  BY <1>2 DEF PlayInv, Fine, Moved
<1>4. p' = IF p.currentPriority = NORMAL THEN PlayNext(r)
           ELSE IF p.state # "Paused" /\ Idle(p) THEN PlayNext(q) ELSE q
  BY DEF AddRaw
<1> HIDE DEF q
<1>5. Fine(p', eventLoop, cut, overtaken)
  <2>1. CASE p.currentPriority # NORMAL
    BY <1>3, <1>4, <2>1, PlayNextFine
  <2>2. CASE p.currentPriority = NORMAL
    <3>1. Sound(h)
      BY <1>2, PauseSound
    <3>2. /\ h.state # "Playing" /\ ~h.block[NOTIFY]
          /\ h.list = q.list /\ h.index = q.index
          /\ h.isSound = q.isSound /\ h.isBlock = q.isBlock
      BY <1>2, <2>2 DEF Pause, Sound, PlayerState, Ordered
    <3> HIDE DEF h
    <3>3. /\ r \in PlayerState
          /\ r.currentPriority = NOTIFY /\ r.state # "Playing" /\ ~r.block[NOTIFY]
          /\ r.list = q.list /\ r.index = q.index
          /\ r.isSound = q.isSound /\ r.isBlock = q.isBlock
      BY <3>1, <3>2 DEF Sound, PlayerState
    <3>4. Ordered(r)
      BY <3>1 DEF Sound, PlayerState, Ordered
    <3> HIDE DEF r
    <3>5. Sound(r) /\ ~Exhausted(r, NOTIFY)
      BY <1>2, <3>3, <3>4 DEF Sound, Exhausted
    <3>6. p' = NextTrack(r, NOTIFY)
      BY <1>4, <2>2, <3>3, <3>5 DEF PlayNext, Advance
    <3>7. /\ FromList(r, NOTIFY, p') /\ p'.wanted /\ p'.status = "Loading"
          /\ p'.source.kind # "song"
      BY <3>5, <3>6, NextTrackSound
    <3>8. QED
      BY <1>3, <3>3, <3>6, <3>7 DEF Fine, FromList, Moved
  <2>3. QED
    BY <2>1, <2>2
<1>6. QED
  BY <1>1, <1>5 DEF AddRaw, PlayInv, TypeOK, Fine, Sound, PlayerState

(* Another song is chosen, from those in the list.                         *)
LEMMA JumpsFine ==
  ASSUME PlayInv,
         PlayPrevious \/ \E i \in DOMAIN p.list[NORMAL] : PlayIndex(i)
  PROVE  PlayInv'
<1>1. PICK i \in DOMAIN p.list[NORMAL] : p' = Start(p, i)
  <2>1. CASE PlayPrevious
    <3>1. /\ p.index[NORMAL] \in Nat /\ p.index[NORMAL] <= Len(p.list[NORMAL])
          /\ p.list[NORMAL] \in Seq(Track)
      BY DEF PlayInv, Fine, Sound, PlayerState, Ordered
    <3>2. p.index[NORMAL] - 1 \in DOMAIN p.list[NORMAL]
      BY <2>1, <3>1 DEF PlayPrevious
    <3>3. QED
      BY <2>1, <3>2 DEF PlayPrevious
  <2>2. CASE \E i \in DOMAIN p.list[NORMAL] : PlayIndex(i)
    BY <2>2 DEF PlayIndex
  <2>3. QED
    BY <2>1, <2>2
<1>2. p.currentPriority = NORMAL /\ Sound(p)
  BY DEF PlayPrevious, PlayIndex, PlayInv, Fine
<1>3. /\ Sound(p') /\ p'.currentPriority = NORMAL
      /\ p'.status = "Loading" /\ p'.wanted /\ ~p'.userPaused
      /\ p'.isSound = p.isSound /\ p'.isBlock = p.isBlock
  BY <1>1, <1>2, StartSound
<1>4. Fine(p', eventLoop, cut, overtaken)
  BY <1>3 DEF PlayInv, Fine
<1>5. QED
  BY <1>4 DEF PlayPrevious, PlayIndex, PlayInv, TypeOK, Fine, Sound, PlayerState

(* playNext(true), or the emission of playEnd before it.                   *)
LEMMA SkipFine ==
  ASSUME PlayInv, Skip
  PROVE  PlayInv'
<1>1. p.currentPriority \in Priority /\ frames \in Seq(Frame) /\ overtaken \in BOOLEAN
  BY DEF PlayInv, TypeOK, Fine, Sound, PlayerState
<1>2. frames' \in Seq(Frame)
  BY <1>1, FramesKept DEF Skip
<1>3. Fine(Advance(p, p.currentPriority), eventLoop, cut, overtaken)
  BY <1>1, AdvanceFine DEF PlayInv
<1>4. Fine(p', eventLoop, cut, overtaken)
  BY <1>3 DEF Skip, GoOn, PlayInv
<1>5. QED
  BY <1>2, <1>4 DEF Skip, PlayInv, TypeOK, Fine, Sound, PlayerState

(* The user's pause: songs that sound are held at once, and a chime that   *)
(* it stops is cut.                                                        *)
LEMMA PauseByUserFine ==
  ASSUME PlayInv, PauseByUser
  PROVE  PlayInv'
<1> DEFINE B == [p.block EXCEPT ![p.currentPriority] = TRUE]
           q == [p EXCEPT !.userPaused = TRUE, !.block = B]
           r == [q EXCEPT !.state = "Paused", !.wanted = FALSE]
<1>1. p \in PlayerState /\ Ordered(p) /\ p.currentPriority \in Priority
  BY DEF PlayInv, Fine, Sound, PlayerState
<1>2. B \in [Priority -> BOOLEAN] /\ (p.currentPriority = NORMAL => B[NOTIFY] = p.block[NOTIFY])
  <2>1. p.block \in [Priority -> BOOLEAN]
    BY <1>1 DEF PlayerState
  <2>2. B \in [Priority -> BOOLEAN]
    BY <2>1
  <2>3. p.currentPriority = NORMAL => B[NOTIFY] = p.block[NOTIFY]
    BY <2>1
  <2>4. QED
    BY <2>2, <2>3
<1>3. q = [p EXCEPT !.userPaused = TRUE, !.block[p.currentPriority] = TRUE]
  BY <1>1 DEF PlayerState
<1> HIDE DEF B
<1>4. /\ q \in PlayerState
      /\ q.list = p.list /\ q.index = p.index /\ q.block = B
      /\ q.currentPriority = p.currentPriority /\ q.started = p.started
      /\ q.state = p.state /\ q.wanted = p.wanted
      /\ q.isSound = p.isSound /\ q.isBlock = p.isBlock
      /\ q.source = p.source /\ q.status = p.status
  BY <1>1, <1>2 DEF PlayerState
<1>5. p' = r \/ p' = q
  BY <1>3 DEF PauseByUser
<1>6. (p' = q => p.state # "Playing" \/ p.status = "Loading") /\ cut' = (cut \/ p.isSound)
  BY <1>3, <1>4 DEF PauseByUser, PlayerState
<1> HIDE DEF q
<1>7. Ordered(q)
  BY <1>1, <1>2, <1>4 DEF Ordered
<1>8. r \in PlayerState /\ Ordered(r)
  BY <1>4, <1>7 DEF PlayerState, Ordered
<1>9. Fine(q, eventLoop, cut', overtaken) \/ p' # q
  BY <1>4, <1>6, <1>7 DEF PlayInv, Fine, Sound
<1>10. Fine(r, eventLoop, cut', overtaken)
  <2>1. /\ r.state = "Paused" /\ r.isSound = q.isSound /\ r.source = q.source
        /\ r.currentPriority = q.currentPriority
    BY <1>4 DEF PlayerState
  <2>2. eventLoop = "exec" => cut'
    BY <1>6 DEF PlayInv, Fine
  <2>3. QED
    BY <1>4, <1>8, <2>1, <2>2 DEF PlayInv, Fine, Sound
<1>11. Fine(p', eventLoop, cut', overtaken)
  BY <1>5, <1>9, <1>10
<1>12. QED
  BY <1>11 DEF PauseByUser, PlayInv, TypeOK, Fine, Sound, PlayerState

(* The end of the user's pause.                                            *)
LEMMA ResumeByUserFine ==
  ASSUME PlayInv, ResumeByUser
  PROVE  PlayInv'
<1> DEFINE q == [p EXCEPT !.userPaused = FALSE]
<1>1. q \in PlayerState /\ Ordered(q)
  BY DEF PlayInv, Fine, Sound, PlayerState, Ordered
<1>2. Fine(q, eventLoop, cut, overtaken)
  BY <1>1 DEF PlayInv, Fine, Sound, PlayerState
<1> HIDE DEF q
<1>3. Fine(PlayNext(q), eventLoop, cut, overtaken)
  BY <1>2, PlayNextFine
<1>4. p' = PlayNext(q)
  BY DEF ResumeByUser, q
<1>5. QED
  BY <1>3, <1>4 DEF ResumeByUser, ghostVars, PlayInv, TypeOK, Fine, Sound, PlayerState

(* The stop of everything.                                                 *)
LEMMA StopFine ==
  ASSUME PlayInv, Stop
  PROVE  PlayInv'
<1> DEFINE q == [p EXCEPT !.state = "Stopped", !.wanted = FALSE]
           e == [q EXCEPT !.status = "Loaded"]
           r == IF p.status \in {"Buffered", "EndOfMedia"}
                THEN EnforceUserPause(e) ELSE q
           s == ClearList(ClearList(r, NORMAL), NOTIFY)
           t == [s EXCEPT !.currentPriority = NORMAL, !.userPaused = FALSE,
                          !.isSound = FALSE, !.isPlaying = FALSE]
<1>1. q \in PlayerState /\ Ordered(q)
  BY DEF PlayInv, Fine, Sound, PlayerState, Ordered
<1> HIDE DEF q
<1>2. e \in PlayerState /\ Ordered(e)
  BY <1>1 DEF PlayerState, Ordered, Statuses
<1> HIDE DEF e
<1>3. Sound(r)
  BY <1>1, <1>2, EnforceSound DEF Sound
<1>4. p' = t /\ cut' = (cut \/ p.isSound)
  BY DEF Stop, q, e
<1> HIDE DEF r
<1>5. Sound(s) /\ ~s.block[NOTIFY]
  <2>1. Sound(ClearList(r, NORMAL))
    BY <1>3, ClearListSound
  <2>2. Sound(s)
    BY <2>1, ClearListSound
  <2>3. ~s.block[NOTIFY]
    BY <2>1 DEF ClearList, Sound, PlayerState
  <2>4. QED
    BY <2>2, <2>3
<1> HIDE DEF s
<1>6. t \in PlayerState /\ Ordered(t)
  BY <1>5 DEF Sound, PlayerState, Ordered
<1>7. ~t.userPaused /\ t.currentPriority = NORMAL
  BY <1>5 DEF Sound, PlayerState
<1> HIDE DEF t
<1>8. eventLoop = "exec" => cut'
  BY <1>4 DEF PlayInv, Fine
<1>9. Fine(p', eventLoop, cut', overtaken)
  BY <1>4, <1>6, <1>7, <1>8 DEF Fine, Sound
<1>10. QED
  BY <1>9 DEF Stop, PlayInv, TypeOK, Fine, Sound, PlayerState

(* Sentences are taken back.                                               *)
LEMMA ClearTypeFine ==
  ASSUME PlayInv, NEW id \in SpeechIds, ClearType(id)
  PROVE  PlayInv'
<1>1. PICK order \in InOrder(Left(p, id)) :
        p' \in {Unplayed(p, order), PlayNext(Unplayed(p, order))}
  BY DEF ClearType
<1> DEFINE q == Unplayed(p, order)
<1>2. /\ Sound(q) /\ Moved(p, q)
      /\ q.currentPriority = p.currentPriority /\ q.source = p.source
  BY <1>1, UnplayedSound DEF PlayInv, Fine
<1> HIDE DEF q
<1>3. Fine(q, eventLoop, cut, overtaken)
  BY <1>2 DEF PlayInv, Fine, Moved
<1>4. Fine(PlayNext(q), eventLoop, cut, overtaken)
  BY <1>3, PlayNextFine
<1>5. Fine(p', eventLoop, cut, overtaken)
  BY <1>1, <1>3, <1>4 DEF q
<1>6. QED
  BY <1>5 DEF ClearType, ghostVars, PlayInv, TypeOK, Fine, Sound, PlayerState

(* A chime begins, in front of everything.                                 *)
LEMMA PlaySoundFine ==
  ASSUME PlayInv, NEW b \in BOOLEAN, PlaySound(b)
  PROVE  PlayInv'
<1> DEFINE q == [p EXCEPT !.isPlaying = b, !.isBlock = TRUE, !.isSound = TRUE]
           h == Pause(q)
           S == IF p.playsAtOnce THEN "Playing" ELSE "Stopped"
           r == [h EXCEPT !.source = Chime, !.status = "Loading", !.state = S, !.wanted = TRUE]
<1>1. q \in PlayerState /\ Ordered(q) /\ q.isBlock /\ q.isSound
  BY DEF PlayInv, Fine, Sound, PlayerState, Ordered
<1>2. p' = r /\ ~cut'
  BY DEF PlaySound
<1> HIDE DEF q
<1>3. Sound(h) /\ h.isBlock /\ h.isSound
  <2>1. Sound(h)
    BY <1>1, PauseSound DEF Sound
  <2>2. h.isBlock /\ h.isSound
    BY <1>1 DEF Pause, PlayerState
  <2>3. QED
    BY <2>1, <2>2
<1> HIDE DEF h
<1>4. S \in {"Stopped", "Playing"}
  OBVIOUS
<1> HIDE DEF S
<1>5. Chime \in Media /\ Chime.kind # "song"
  BY DEF Media, Chime
<1>6. /\ r \in PlayerState /\ r.isBlock /\ r.isSound /\ r.wanted
      /\ r.source = Chime /\ r.status = "Loading"
  BY <1>3, <1>4, <1>5 DEF Sound, PlayerState, Statuses
<1>7. Ordered(r)
  BY <1>3, <1>4 DEF Sound, PlayerState, Ordered
<1> HIDE DEF r
<1>8. Fine(p', eventLoop', cut', overtaken)
  BY <1>2, <1>5, <1>6, <1>7 DEF Fine, Sound
<1>9. frames \in Seq(Frame) /\ frames' \in Seq(Frame)
  BY FramesKept DEF PlaySound, PlayInv, TypeOK
<1>10. QED
  BY ZenonT(40), <1>8, <1>9 DEF PlaySound, PlayInv, TypeOK, Fine, Sound, PlayerState

(* The chime's caller goes on.                                             *)
LEMMA SoundOverFine ==
  ASSUME PlayInv, SoundOver
  PROVE  PlayInv'
<1>1. frames' \in Seq(Frame)
  BY FramesKept DEF SoundOver, PlayInv, TypeOK
<1>2. QED
  BY <1>1 DEF SoundOver, ghostVars, PlayInv, TypeOK, Fine

(* The player's own pause for what the user asked: only songs are held.    *)
LEMMA EnforceFine ==
  ASSUME NEW q, NEW loop, NEW c, NEW o, Sound(q),
         ~o /\ q.currentPriority = NOTIFY => q.source.kind # "song",
         loop = "exec" /\ ~c => q.isSound /\ q.isBlock /\ (q.state = "Playing" \/ q.wanted)
  PROVE  Fine(EnforceUserPause(q), loop, c, o)
<1> DEFINE r == EnforceUserPause(q)
<1>1. Sound(r)
  BY EnforceSound
<1>2. CASE ~q.userPaused \/ q.isSound \/ q.currentPriority # NORMAL
  <2>1. r = q
    BY <1>2 DEF EnforceUserPause
  <2>2. QED
    BY <1>1, <1>2, <2>1 DEF Fine
<1>3. CASE q.userPaused /\ ~q.isSound /\ q.currentPriority = NORMAL
  <2>1. /\ r.currentPriority = NORMAL /\ r.state = "Paused"
    BY <1>3 DEF EnforceUserPause, Sound, PlayerState
  <2> HIDE DEF r
  <2>2. Fine(r, loop, c, o)
    BY <1>1, <1>3, <2>1 DEF Fine
  <2>3. QED
    BY <2>2 DEF r
<1>4. QED
  BY <1>2, <1>3

(* Media are loaded.                                                       *)
LEMMA LoadedFine ==
  ASSUME PlayInv, LoadedMedia
  PROVE  PlayInv'
<1> DEFINE q == [p EXCEPT !.status = "Loaded"]
<1>1. q \in PlayerState /\ Ordered(q)
  BY DEF PlayInv, Fine, Sound, PlayerState, Ordered, Statuses
<1>2. /\ q.currentPriority = p.currentPriority /\ q.source = p.source
      /\ q.isSound = p.isSound /\ q.isBlock = p.isBlock
      /\ q.state = p.state /\ q.wanted = p.wanted
  BY DEF PlayInv, Fine, Sound, PlayerState
<1>3. p' = EnforceUserPause(q)
  BY DEF LoadedMedia
<1> HIDE DEF q
<1>4. Fine(p', eventLoop, cut, overtaken)
  BY <1>1, <1>2, <1>3, EnforceFine DEF PlayInv, Fine, Sound
<1>5. QED
  BY <1>4 DEF LoadedMedia, ghostVars, PlayInv, TypeOK, Fine, Sound, PlayerState

(* Media are ready: a chime sounds, since what waits to start is not held. *)
LEMMA BufferedFine ==
  ASSUME PlayInv, BufferedMedia
  PROVE  PlayInv'
<1> DEFINE S == IF p.state = "Paused" THEN p.state ELSE "Playing"
           q == [p EXCEPT !.status = "Buffered", !.wanted = FALSE, !.state = S]
<1>1. p \in PlayerState /\ Ordered(p) /\ S \in {"Paused", "Playing"}
  BY DEF PlayInv, Fine, Sound
<1>2. p' = EnforceUserPause(q)
  BY DEF BufferedMedia
<1>3. p.state # "Paused" => S = "Playing"
  OBVIOUS
<1> HIDE DEF S
<1>4. q \in PlayerState /\ Ordered(q)
  BY <1>1 DEF PlayerState, Ordered, Statuses
<1>5. /\ q.currentPriority = p.currentPriority /\ q.source = p.source
      /\ q.isSound = p.isSound /\ q.isBlock = p.isBlock /\ q.state = S
  BY <1>1 DEF PlayerState
<1> HIDE DEF q
<1>6. eventLoop = "exec" /\ ~cut => q.isSound /\ q.isBlock /\ q.state = "Playing"
  BY <1>1, <1>3, <1>5 DEF PlayInv, Fine, Ordered
<1>7. Fine(p', eventLoop, cut, overtaken)
  BY <1>2, <1>4, <1>5, <1>6, EnforceFine DEF PlayInv, Fine, Sound
<1>8. QED
  BY <1>7 DEF BufferedMedia, PlayInv, TypeOK, Fine, Sound, PlayerState

(* A medium that ends or fails no longer sounds, whoever waits for it.     *)
LEMMA EndedFine ==
  ASSUME PlayInv, NEW q, q \in PlayerState, Ordered(q), Ended(q),
         q.currentPriority = p.currentPriority, q.source = p.source,
         q.isSound = p.isSound, q.isBlock = p.isBlock,
         q.state = "Stopped", q.status \in {"EndOfMedia", "Invalid"},
         UNCHANGED <<songs, sentences, cut, overtaken>>
  PROVE  PlayInv'
<1> DEFINE r == [q EXCEPT !.isSound = FALSE, !.isPlaying = FALSE]
<1>1. frames \in Seq(Frame) /\ eventLoop \in {"idle", "exec", "quit"}
  BY DEF PlayInv, TypeOK
<1>2. frames' \in Seq(Frame) /\ eventLoop' \in {"idle", "exec", "quit"}
  BY <1>1, FramesKept DEF Ended, SoundEnded, Quit
<1>3. Fine(p', eventLoop', cut, overtaken)
  <2>1. CASE q.isSound
    <3>1. /\ r \in PlayerState /\ Ordered(r)
          /\ r.currentPriority = p.currentPriority /\ r.source = p.source
          /\ r.state = "Stopped"
      BY DEF PlayerState, Ordered
    <3>2. p' \in {r, PlayNext(r)}
      BY <2>1 DEF Ended
    <3>3. eventLoop' = "exec" => cut
      BY <1>1, <2>1 DEF Ended, SoundEnded, Quit, PlayInv, Fine
    <3> HIDE DEF r
    <3>4. Fine(r, eventLoop', cut, overtaken)
      BY <3>1, <3>3 DEF PlayInv, Fine, Sound
    <3>5. QED
      BY <3>2, <3>4, PlayNextFine
  <2>2. CASE ~q.isSound
    <3>1. eventLoop' = eventLoop /\ p' \in {q, PlayNext(q)}
      BY <2>2 DEF Ended
    <3>2. Fine(q, eventLoop, cut, overtaken)
      BY <2>2 DEF PlayInv, Fine, Sound
    <3>3. QED
      BY <3>1, <3>2, PlayNextFine
  <2>3. QED
    BY <2>1, <2>2
<1>4. QED
  BY <1>2, <1>3 DEF PlayInv, TypeOK, Fine, Sound, PlayerState

(* Media end or fail.                                                      *)
LEMMA EndOfMediaFine ==
  ASSUME PlayInv, EndOfMedia \/ ErrorOccurred
  PROVE  PlayInv'
<1> DEFINE q == [p EXCEPT !.state = "Stopped", !.status = "EndOfMedia"]
           e == [p EXCEPT !.state = "Stopped", !.status = "Invalid", !.wanted = FALSE]
<1>1. CASE EndOfMedia
  <2>1. /\ q \in PlayerState /\ Ordered(q)
        /\ q.currentPriority = p.currentPriority /\ q.source = p.source
        /\ q.isSound = p.isSound /\ q.isBlock = p.isBlock
        /\ q.state = "Stopped" /\ q.status = "EndOfMedia"
    BY DEF PlayInv, Fine, Sound, PlayerState, Ordered, Statuses
  <2>2. Ended(q) /\ UNCHANGED <<songs, sentences, cut, overtaken>>
    BY <1>1 DEF EndOfMedia, ghostVars
  <2> HIDE DEF q
  <2>3. QED
    BY <2>1, <2>2, EndedFine
<1>2. CASE ErrorOccurred
  <2>1. /\ e \in PlayerState /\ Ordered(e)
        /\ e.currentPriority = p.currentPriority /\ e.source = p.source
        /\ e.isSound = p.isSound /\ e.isBlock = p.isBlock
        /\ e.state = "Stopped" /\ e.status = "Invalid"
    BY DEF PlayInv, Fine, Sound, PlayerState, Ordered, Statuses
  <2>2. Ended(e) /\ UNCHANGED <<songs, sentences, cut, overtaken>>
    BY <1>2 DEF ErrorOccurred
  <2> HIDE DEF e
  <2>3. QED
    BY <2>1, <2>2, EndedFine
<1>3. QED
  BY <1>1, <1>2

(* The listener of playEnd returns.                                        *)
LEMMA ListenerReturnsFine ==
  ASSUME PlayInv, ListenerReturns
  PROVE  PlayInv'
<1>1. frames' \in Seq(Frame) /\ overtaken \in BOOLEAN
  BY FramesKept DEF ListenerReturns, PlayInv, TypeOK
<1>2. Top.chosen \in Priority
  <2>1. frames \in Seq(Frame) /\ frames # <<>>
    BY DEF ListenerReturns, PlayInv, TypeOK
  <2>2. Top \in Frame
    BY <2>1 DEF Top
  <2>3. QED
    BY <2>2 DEF Frame
<1>3. CASE Top.wait = "goOn"
  <2>1. /\ p' = Advance(p, Top.chosen)
        /\ overtaken' = (overtaken \/ Top.chosen # p.currentPriority)
    BY <1>3 DEF ListenerReturns, GoOn
  <2>2. /\ overtaken' \in BOOLEAN
        /\ overtaken' <=> (overtaken \/ Top.chosen # p.currentPriority)
    BY <2>1
  <2>3. Fine(p', eventLoop, cut, overtaken')
    <3>1. Fine(p, eventLoop, cut, overtaken)
      BY DEF PlayInv
    <3>2. Fine(Advance(p, Top.chosen), eventLoop, cut, overtaken')
      BY <1>2, <2>2, <3>1, AdvanceFine
    <3>3. QED
      BY <2>1, <3>2
  <2>4. QED
    BY <1>1, <2>2, <2>3 DEF ListenerReturns, PlayInv, TypeOK, Fine, Sound, PlayerState
<1>4. CASE Top.wait # "goOn"
  <2>1. p' = PlayNext(p) /\ overtaken' = overtaken
    BY <1>4 DEF ListenerReturns
  <2>2. Fine(p', eventLoop, cut, overtaken)
    BY <2>1, PlayNextFine DEF PlayInv
  <2>3. QED
    BY <1>1, <2>1, <2>2 DEF ListenerReturns, PlayInv, TypeOK, Fine, Sound, PlayerState
<1>5. QED
  BY <1>3, <1>4

(* Every step of the play list keeps all of this.                          *)
LEMMA PlayStep ==
  ASSUME PlayInv, Next
  PROVE  PlayInv'
<1>1. CASE AddAudio
  BY <1>1, AddAudioFine
<1>2. CASE \E id \in SpeechIds : AddRaw(id) \/ ClearType(id)
  BY <1>2, AddRawFine, ClearTypeFine
<1>3. CASE PlayPrevious \/ \E i \in DOMAIN p.list[NORMAL] : PlayIndex(i)
  BY <1>3, JumpsFine
<1>4. CASE Skip
  BY <1>4, SkipFine
<1>5. CASE PauseByUser
  BY <1>5, PauseByUserFine
<1>6. CASE ResumeByUser
  BY <1>6, ResumeByUserFine
<1>7. CASE Stop
  BY <1>7, StopFine
<1>8. CASE \E b \in BOOLEAN : PlaySound(b)
  BY <1>8, PlaySoundFine
<1>9. CASE SoundOver
  BY <1>9, SoundOverFine
<1>10. CASE LoadedMedia
  BY <1>10, LoadedFine
<1>11. CASE BufferedMedia
  BY <1>11, BufferedFine
<1>12. CASE EndOfMedia \/ ErrorOccurred
  BY <1>12, EndOfMediaFine
<1>13. CASE ListenerReturns
  BY <1>13, ListenerReturnsFine
<1>14. QED
  BY <1>1, <1>2, <1>3, <1>4, <1>5, <1>6, <1>7, <1>8, <1>9, <1>10, <1>11,
     <1>12, <1>13 DEF Next

(* It holds before anything was added.                                     *)
LEMMA PlayStart ==
  ASSUME Init
  PROVE  PlayInv
<1>1. PICK playsAtOnce \in BOOLEAN : p =
         [list |-> [c \in Priority |-> <<>>], index |-> [c \in Priority |-> 0],
          block |-> [c \in Priority |-> FALSE],
          currentPriority |-> NORMAL, currentMeta |-> Nothing,
          isSound |-> FALSE, isBlock |-> FALSE, isPlaying |-> FALSE,
          userPaused |-> FALSE,
          source |-> Nothing, state |-> "Stopped", status |-> "NoMedia",
          wanted |-> FALSE, started |-> {}, playsAtOnce |-> playsAtOnce]
  BY DEF Init
<1>2. p \in PlayerState
  BY <1>1 DEF PlayerState, Media, Statuses
<1>3. Ordered(p)
  BY <1>1 DEF Ordered
<1>4. Fine(p, eventLoop, cut, overtaken)
  BY <1>1, <1>2, <1>3 DEF Init, Fine, Sound
<1>5. /\ songs \in 0..MaxSongs /\ sentences \in 0..MaxSpeech
      /\ frames \in Seq(Frame)
  BY AudioPlaylistAssumption DEF Init
<1>6. TypeOK
  BY <1>2, <1>5 DEF Init, TypeOK, PlayerState
<1>7. QED
  BY <1>4, <1>6 DEF PlayInv

(* It holds for ever.                                                      *)
LEMMA PlayBehaves == Spec => []PlayInv
<1>1. PlayInv /\ [Next]_playlistVars => PlayInv'
  <2> SUFFICES ASSUME PlayInv, [Next]_playlistVars
               PROVE  PlayInv'
    OBVIOUS
  <2>1. CASE UNCHANGED playlistVars
    BY <2>1 DEF playlistVars, ghostVars, PlayInv, TypeOK, Fine, Sound, Ordered
  <2>2. QED
    BY <2>1, PlayStep
<1>2. QED
  BY <1>1, PlayStart, PTL DEF Spec

-----------------------------------------------------------------------------
(* The members of the play list and of the player keep their types.        *)
THEOREM PlaylistTypes == Spec => []TypeOK
  BY PlayBehaves, PTL DEF PlayInv

(* The list of songs keeps its order: however it is trimmed, cleared and   *)
(* jumped in while calls wait, the next track is in it or just behind it,  *)
(* and no song up to the current one was passed over                       *)
(* (audioplaylist.cpp:132).                                                *)
THEOREM SongsKeepOrder == Spec => [](IndexInList /\ NonePassedOver)
<1>1. PlayInv => IndexInList /\ NonePassedOver
  BY DEF PlayInv, Fine, Sound, Ordered, IndexInList, NonePassedOver
<1>2. QED
  BY <1>1, PlayBehaves, PTL

(* What the user paused stays paused (enforceUserPause): no chime, no      *)
(* speech in front and no late report of the player makes songs sound.     *)
THEOREM PauseIsKept == Spec => []UserPauseHolds
<1>1. PlayInv => UserPauseHolds
  BY DEF PlayInv, Fine, UserPauseHolds
<1>2. QED
  BY <1>1, PlayBehaves, PTL

(* Whoever waits in a chime's event loop waits for something that plays or *)
(* is about to, whose end lets it go (playSound, errorOccurred).           *)
THEOREM ChimesReturn == Spec => []ChimeReturns
<1>1. PlayInv => ChimeReturns
  BY DEF PlayInv, Fine, ChimeReturns
<1>2. QED
  BY <1>1, PlayBehaves, PTL

HIDE DEF NORMAL, NOTIFY, Priority

-----------------------------------------------------------------------------
(* The wake-up chain.                                                      *)

USE DEF Wake!config, Wake!detectorVars, Wake!askVars, Wake!wakeupVars

(* The timer of the voice check only runs where the check is enabled.      *)
CheckTimerFits == prevadTimer => enablePreVad

(* A call that ends with Recorder::resume().                               *)
Resumes(frame) ==
  \/ frame.kind \in {"start", "ask"}
  \/ frame.kind = "end" /\ ~frame.stop
  \/ frame.kind = "plugin" /\ frame.from = "voice"

(* What a call that begins, ends or goes on does to the calls in progress. *)
Pushed(frame) ==
  /\ calls' \in Seq(Wake!Frame) /\ Len(calls') = Len(calls) + 1
  /\ \A i \in 1..Len(calls) : calls'[i] = calls[i]
  /\ calls'[Len(calls) + 1] = frame
Popped ==
  /\ calls' \in Seq(Wake!Frame) /\ Len(calls') = Len(calls) - 1
  /\ \A i \in 1..Len(calls) - 1 : calls'[i] = calls[i]
TopIs(kinds) ==
  /\ Len(calls) \in Nat \ {0} /\ Wake!Top = calls[Len(calls)]
  /\ Wake!Top \in Wake!Frame /\ Wake!Top.kind \in kinds

(* A call that begins is the last one in progress.                         *)
LEMMA PushAddsCall ==
  ASSUME calls \in Seq(Wake!Frame), NEW frame \in Wake!Frame, Wake!Push(frame)
  PROVE  Pushed(frame)
  BY AppendProperties DEF Wake!Push, Pushed

(* A call that ends leaves the others.                                     *)
LEMMA PopEndsCall ==
  ASSUME calls \in Seq(Wake!Frame), calls # <<>>, Wake!Pop
  PROVE  Popped
<1>1. Len(calls) \in Nat \ {0}
  BY EmptySeq
<1>2. \A i \in 1..Len(calls) - 1 : calls[i] \in Wake!Frame
  BY <1>1, ElementOfSeq
<1> DEFINE outer == SubSeq(calls, 1, Len(calls) - 1)
<1>3. /\ outer \in Seq(Wake!Frame)
      /\ Len(outer) = IF 1 <= Len(calls) - 1 THEN (Len(calls) - 1) - 1 + 1 ELSE 0
      /\ \A i \in 1..(Len(calls) - 1) - 1 + 1 : outer[i] = calls[1 + i - 1]
  <2>1. 1 \in Int /\ Len(calls) - 1 \in Int
    BY <1>1
  <2>2. QED
    BY <1>2, <2>1, SubSeqProperties
<1>4. calls' = outer
  BY DEF Wake!Pop
<1> HIDE DEF outer
<1>5. QED
  BY <1>1, <1>3, <1>4 DEF Popped

(* The innermost call is one of those in progress.                         *)
LEMMA OnTopIs ==
  ASSUME calls \in Seq(Wake!Frame), NEW kind, Wake!OnTop(kind)
  PROVE  calls # <<>> /\ TopIs({kind})
<1>1. calls # <<>> /\ Len(calls) \in Nat \ {0}
  BY EmptySeq DEF Wake!OnTop
<1>2. calls[Len(calls)] \in Wake!Frame
  BY <1>1, ElementOfSeq
<1>3. QED
  BY <1>1, <1>2 DEF Wake!OnTop, Wake!Top, TopIs

(* A chime is a call.                                                      *)
LEMMA ChimeIsCall ==
  ASSUME Wake!TypeOK, NEW kind \in Wake!Chimes, NEW stop \in BOOLEAN,
         Wake!Chime(kind, stop)
  PROVE  /\ Pushed([kind |-> kind, stop |-> stop, own |-> soundLoop = "idle",
                    from |-> "wake"])
         /\ soundLoop' \in {"idle", "exec", "quit"}
<1> DEFINE frame == [kind |-> kind, stop |-> stop, own |-> soundLoop = "idle",
                     from |-> "wake"]
<1>1. frame \in Wake!Frame
  BY DEF Wake!Frame
<1>2. Wake!Push(frame) /\ soundLoop' \in {"idle", "exec", "quit"}
  BY DEF Wake!Chime, Wake!TypeOK
<1> HIDE DEF frame
<1>3. Pushed(frame)
  BY <1>1, <1>2, PushAddsCall DEF Wake!TypeOK
<1>4. QED
  BY <1>2, <1>3 DEF frame

(* A plugin's chime makes room for the plugin itself.                      *)
LEMMA IntentGoesOn ==
  ASSUME calls \in Seq(Wake!Frame), Wake!IntentChimeOver
  PROVE  /\ TopIs({"intent"})
         /\ calls' \in Seq(Wake!Frame) /\ Len(calls') = Len(calls)
         /\ \A i \in 1..Len(calls) - 1 : calls'[i] = calls[i]
<1>1. calls # <<>> /\ TopIs({"intent"})
  BY OnTopIs DEF Wake!IntentChimeOver, Wake!ChimeOver
<1>2. Len(calls) \in Nat \ {0} /\ DOMAIN calls = 1..Len(calls)
      /\ \A i \in 1..Len(calls) : calls[i] \in Wake!Frame
  BY <1>1, ElementOfSeq DEF TopIs
<1> DEFINE top == [calls[Len(calls)] EXCEPT !.kind = "plugin", !.own = FALSE]
<1>3. top \in Wake!Frame
  <2>1. \A f \in Wake!Frame : [f EXCEPT !.kind = "plugin", !.own = FALSE] \in Wake!Frame
    BY DEF Wake!Frame
  <2>2. calls[Len(calls)] \in Wake!Frame
    BY <1>2
  <2>3. QED
    BY <2>1, <2>2
<1>4. calls' = [calls EXCEPT ![Len(calls)] = top]
  BY DEF Wake!IntentChimeOver
<1> HIDE DEF top
<1>5. calls' \in Seq(Wake!Frame) /\ Len(calls') = Len(calls)
  BY <1>2, <1>3, <1>4, ExceptSeq
<1>6. \A i \in 1..Len(calls) : i # Len(calls) => calls'[i] = calls[i]
  BY <1>2, <1>4
<1>7. ASSUME NEW i \in 1..Len(calls) - 1 PROVE calls'[i] = calls[i]
  <2>1. Len(calls) \in Nat
    BY <1>2
  <2>2. i \in 1..Len(calls) /\ i # Len(calls)
    BY <1>7, <2>1
  <2>3. QED
    BY <1>6, <2>2
<1>8. QED
  BY <1>1, <1>5, <1>7

(* Some call in progress is one of these.                                  *)
Waits(kinds) == \E i \in 1..Len(calls) : calls[i] \in kinds

(* They wait on when another begins, and so does the new one.              *)
LEMMA PushedWaits ==
  ASSUME calls \in Seq(Wake!Frame), NEW frame, NEW kinds, Pushed(frame),
         Waits(kinds) \/ frame \in kinds
  PROVE  Waits(kinds)'
<1>1. Len(calls) \in Nat
  OBVIOUS
<1>2. CASE Waits(kinds)
  BY <1>1, <1>2 DEF Waits, Pushed
<1>3. CASE frame \in kinds
  <2>1. Len(calls) + 1 \in 1..Len(calls') /\ calls'[Len(calls) + 1] \in kinds
    BY <1>1, <1>3 DEF Pushed
  <2>2. QED
    BY <2>1 DEF Waits
<1>4. QED
  BY <1>2, <1>3

(* They wait on when another ends.                                         *)
LEMMA PoppedWaits ==
  ASSUME calls \in Seq(Wake!Frame), NEW kinds, Waits(kinds),
         Wake!Top \notin kinds, TopIs({Wake!Top.kind}), Len(calls') >= Len(calls) - 1,
         Len(calls') \in Nat,
         \A i \in 1..Len(calls) - 1 : calls'[i] = calls[i]
  PROVE  Waits(kinds)'
<1>1. PICK i \in 1..Len(calls) : calls[i] \in kinds
  BY DEF Waits
<1>2. i # Len(calls) /\ Len(calls) \in Nat
  BY <1>1 DEF TopIs
<1>3. i \in 1..Len(calls) - 1 /\ i \in 1..Len(calls')
  BY <1>1, <1>2
<1>4. QED
  BY <1>1, <1>3 DEF Waits

(* The calls in progress stay calls.                                       *)
LEMMA CallsKeepType ==
  ASSUME Wake!TypeOK, [Wake!Next]_(Wake!wakeupVars)
  PROVE  calls' \in Seq(Wake!Frame)
<1>1. calls \in Seq(Wake!Frame)
  BY DEF Wake!TypeOK
<1>2. ASSUME NEW kind \in Wake!Chimes, NEW stop \in BOOLEAN, Wake!Chime(kind, stop)
      PROVE  calls' \in Seq(Wake!Frame)
  BY <1>2, ChimeIsCall DEF Pushed
<1>3. ASSUME NEW kind \in {"plugin", "ask"}, NEW from \in {"wake", "voice", "web"},
             Wake!Call(kind, from)
      PROVE  calls' \in Seq(Wake!Frame)
  <2>1. [kind |-> kind, stop |-> FALSE, own |-> FALSE, from |-> from] \in Wake!Frame
    BY DEF Wake!Frame
  <2>2. QED
    BY <1>1, <1>3, <2>1, PushAddsCall DEF Wake!Call, Pushed
<1>4. ASSUME NEW kind, Wake!OnTop(kind), Wake!Pop
      PROVE  calls' \in Seq(Wake!Frame)
  BY <1>1, <1>4, OnTopIs, PopEndsCall DEF Popped
<1>5. CASE Wake!WakeIntent \/ Wake!WakeWord
  BY <1>1, <1>2, <1>5 DEF Wake!WakeIntent, Wake!WakeWord, Wake!Chimes
<1>6. CASE Wake!VadSilence \/ Wake!UndetectTimeout
  BY <1>1, <1>2, <1>6 DEF Wake!VadSilence, Wake!UndetectTimeout, Wake!VadDetected,
     Wake!AnswerEnds, Wake!DialogueEnds, Wake!NobodyListens, Wake!Chimes
<1>7. CASE Wake!StartChimeOver \/ Wake!EndChimeOver \/ Wake!AskOver \/ Wake!PluginReturns
  BY <1>4, <1>7 DEF Wake!StartChimeOver, Wake!EndChimeOver, Wake!AskOver,
     Wake!PluginReturns, Wake!ChimeOver
<1>8. CASE Wake!IntentChimeOver
  BY <1>1, <1>8, IntentGoesOn
<1>9. CASE Wake!WebRequest \/ Wake!RecognizedCommand
  BY <1>1, <1>3, <1>9 DEF Wake!WebRequest, Wake!RecognizedCommand
<1>10. CASE Wake!Ask
  <2>1. Wake!Top.from \in {"wake", "voice", "web"}
    BY <1>1, <1>10, OnTopIs DEF Wake!Ask, TopIs, Wake!Frame
  <2>2. QED
    BY <1>3, <1>10, <2>1 DEF Wake!Ask
<1>11. CASE UNCHANGED calls
  BY <1>1, <1>11
<1>12. QED
  BY <1>5, <1>6, <1>7, <1>8, <1>9, <1>10, <1>11
     DEF Wake!Next, Wake!PreVadAudio, Wake!VadVoice, Wake!PrevadTimeout,
         Wake!SoundEnds, Wake!RecognizedAnswer

(* Every variable keeps its type.                                          *)
LEMMA WakeTypeKept ==
  Wake!TypeOK /\ CheckTimerFits /\ [Wake!Next]_(Wake!wakeupVars)
    => Wake!TypeOK' /\ CheckTimerFits'
<1> SUFFICES ASSUME Wake!TypeOK, CheckTimerFits, [Wake!Next]_(Wake!wakeupVars)
             PROVE  Wake!TypeOK' /\ CheckTimerFits'
  OBVIOUS
<1> USE DEF Wake!Next, Wake!PreVadAudio, Wake!WakeIntent, Wake!WakeWord,
        Wake!VadVoice, Wake!VadSilence, Wake!PrevadTimeout, Wake!UndetectTimeout,
        Wake!SoundEnds, Wake!StartChimeOver, Wake!EndChimeOver,
        Wake!IntentChimeOver, Wake!WebRequest, Wake!RecognizedAnswer,
        Wake!RecognizedCommand, Wake!Ask, Wake!AskOver, Wake!PluginReturns,
        Wake!Resume, Wake!DoResponse, Wake!VadDetected, Wake!AnswerEnds,
        Wake!DialogueEnds, Wake!NobodyListens, Wake!TypeOK
<1>1. UNCHANGED <<enablePreVad, enableNotify>>
  OBVIOUS
<1>2. CheckTimerFits'
  BY <1>1 DEF CheckTimerFits, Wake!AudioFor
<1>3. detectState' \in IF enablePreVad THEN Wake!States ELSE Wake!States \ {"PREVAD"}
  BY DEF CheckTimerFits, Wake!States, Wake!Resting, Wake!ListenForAnswer, Wake!AudioFor
<1>4. {isResponse, paused, prevadTimer, vadLoaded, answered}' \subseteq BOOLEAN
  BY DEF Wake!CloseWindow, Wake!StopDetect
<1>5. undetectTimer' \in {"off", "undetect", "response", "firing"}
  BY DEF Wake!CloseWindow, Wake!StopDetect, Wake!StartDetect
<1>6. voice' \in {"none", "short", "long"}
  BY DEF Wake!StartDetect
<1>7. soundLoop' \in {"idle", "exec", "quit"}
  BY DEF Wake!Chime, Wake!ChimeOver
<1>8. jobs' \in 0..MaxJobs
  <2>1. MaxJobs \in Nat /\ jobs \in Nat /\ jobs <= MaxJobs
    BY WakeAssumption
  <2>2. \/ jobs' = jobs
        \/ jobs > 0 /\ jobs' = jobs - 1
        \/ jobs < MaxJobs /\ jobs' = jobs + 1
    OBVIOUS
  <2>3. QED
    BY <2>1, <2>2
<1>9. calls' \in Seq(Wake!Frame)
  BY CallsKeepType
<1>10. QED
  BY <1>1, <1>2, <1>3, <1>4, <1>5, <1>6, <1>7, <1>8, <1>9 DEF Wake!TypeOK, Wake!States

Recovering == {frame \in Wake!Frame : Resumes(frame)}
Questions  == {frame \in Wake!Frame : frame.kind = "ask"}

(* Both promises, as calls that wait.                                      *)
LEMMA OwedByCalls ==
  ASSUME calls \in Seq(Wake!Frame)
  PROVE  /\ Wake!PausedIsOwed <=> (paused => jobs > 0 \/ Waits(Recovering))
         /\ Wake!WindowHasAsker <=> (isResponse => Waits(Questions))
<1>1. \A i \in 1..Len(calls) : calls[i] \in Wake!Frame
  BY ElementOfSeq
<1>2. QED
  BY <1>1 DEF Wake!PausedIsOwed, Wake!WindowHasAsker, Waits, Recovering, Questions,
     Resumes

(* The microphone is never off for good.  A step that ends what was to     *)
(* switch it on switches it on, or leaves it to something else.            *)
LEMMA OwedKept ==
  Wake!TypeOK /\ Wake!PausedIsOwed /\ [Wake!Next]_(Wake!wakeupVars)
    => Wake!PausedIsOwed'
<1> SUFFICES ASSUME Wake!TypeOK, Wake!PausedIsOwed, [Wake!Next]_(Wake!wakeupVars), paused'
             PROVE  jobs' > 0 \/ Waits(Recovering)'
  <2>1. Waits(Recovering)' => \E i \in 1..Len(calls') : Resumes(calls'[i])
    BY DEF Waits, Recovering
  <2>2. QED
    BY <2>1 DEF Wake!PausedIsOwed, Resumes
<1>1. /\ calls \in Seq(Wake!Frame) /\ jobs \in Nat
      /\ paused => jobs > 0 \/ Waits(Recovering)
  BY OwedByCalls, WakeAssumption DEF Wake!TypeOK
<1>2. ASSUME NEW kind \in Wake!Chimes, NEW stop \in BOOLEAN, Wake!Chime(kind, stop),
             Waits(Recovering) \/ kind = "start" \/ (kind = "end" /\ ~stop)
      PROVE  Waits(Recovering)'
  <2> DEFINE frame == [kind |-> kind, stop |-> stop, own |-> soundLoop = "idle",
                       from |-> "wake"]
  <2>1. Pushed(frame)
    BY <1>2, ChimeIsCall
  <2>2. Waits(Recovering) \/ frame \in Recovering
    BY <1>2 DEF Recovering, Resumes, Wake!Frame
  <2> HIDE DEF frame
  <2>3. QED
    BY <1>1, <2>1, <2>2, PushedWaits
<1>3. ASSUME NEW from \in {"wake", "voice", "web"}, Wake!Call("plugin", from),
             Waits(Recovering) \/ from = "voice"
      PROVE  Waits(Recovering)'
  <2> DEFINE frame == [kind |-> "plugin", stop |-> FALSE, own |-> FALSE, from |-> from]
  <2>1. frame \in Wake!Frame
    BY DEF Wake!Frame
  <2>2. Pushed(frame)
    BY <1>1, <1>3, <2>1, PushAddsCall DEF Wake!Call
  <2>3. Waits(Recovering) \/ frame \in Recovering
    BY <1>3, <2>1 DEF Recovering, Resumes
  <2> HIDE DEF frame
  <2>4. QED
    BY <1>1, <2>2, <2>3, PushedWaits
<1>4. ASSUME NEW kind, Wake!OnTop(kind), Wake!Pop, ~Resumes(Wake!Top), Waits(Recovering)
      PROVE  Waits(Recovering)'
  <2>1. TopIs({kind}) /\ Popped
    BY <1>1, <1>4, OnTopIs, PopEndsCall
  <2>2. Wake!Top \notin Recovering /\ TopIs({Wake!Top.kind})
    BY <1>4, <2>1 DEF Recovering, TopIs
  <2>3. /\ Len(calls') \in Nat /\ Len(calls') >= Len(calls) - 1
        /\ \A i \in 1..Len(calls) - 1 : calls'[i] = calls[i]
    BY <2>1 DEF Popped, TopIs
  <2>4. QED
    BY <1>1, <1>4, <2>2, <2>3, PoppedWaits
<1>5. CASE Wake!WakeIntent
  BY <1>1, <1>2, <1>5 DEF Wake!WakeIntent, Wake!Chimes
<1>6. CASE Wake!WakeWord
  <2>1. CASE enableNotify
    BY <1>2, <1>6, <2>1 DEF Wake!WakeWord, Wake!Chimes
  <2>2. CASE ~enableNotify
    BY <1>6, <2>2 DEF Wake!WakeWord, Wake!AudioFor
  <2>3. QED
    BY <2>1, <2>2
<1>7. ASSUME NEW stop \in BOOLEAN, NEW timer, Wake!VadDetected(stop, timer)
      PROVE  jobs' > 0 \/ Waits(Recovering)'
  <2>1. CASE Wake!AnswerEnds
    BY <1>1, <2>1 DEF Wake!AnswerEnds
  <2>2. CASE Wake!DialogueEnds(stop, timer)
    <3>1. Wake!Chime("end", stop) /\ jobs' = jobs
      BY <2>2 DEF Wake!DialogueEnds
    <3>2. jobs > 0 \/ Waits(Recovering) \/ ~stop
      BY <1>1, <2>2 DEF Wake!DialogueEnds, Wake!Pauses
    <3>3. QED
      BY <1>2, <3>1, <3>2 DEF Wake!Chimes
  <2>3. CASE Wake!NobodyListens
    BY <1>1, <2>3 DEF Wake!NobodyListens, Waits
  <2>4. QED
    BY <1>7, <2>1, <2>2, <2>3 DEF Wake!VadDetected
<1>8. CASE Wake!VadSilence \/ Wake!UndetectTimeout
  <2>1. CASE Wake!VadSilence
    BY <1>7, <2>1 DEF Wake!VadSilence
  <2>2. CASE Wake!UndetectTimeout /\ voice # "long"
    BY <1>7, <2>2 DEF Wake!UndetectTimeout
  <2>3. CASE Wake!UndetectTimeout /\ voice = "long"
    BY <1>1, <2>3 DEF Wake!UndetectTimeout, Waits
  <2>4. QED
    BY <1>8, <2>1, <2>2, <2>3
<1>9. CASE Wake!EndChimeOver
  <2>1. CASE Wake!Top.stop
    <3>1. Wake!OnTop("end") /\ Wake!Pop /\ jobs' = jobs /\ paused' = paused
      BY <1>9, <2>1 DEF Wake!EndChimeOver, Wake!ChimeOver
    <3>2. ~Resumes(Wake!Top)
      BY <2>1, <3>1 DEF Resumes, Wake!OnTop
    <3>3. QED
      BY <1>1, <1>4, <3>1, <3>2
  <2>2. CASE ~Wake!Top.stop
    BY <1>1, <1>9, <2>2 DEF Wake!EndChimeOver
  <2>3. QED
    BY <2>1, <2>2
<1>10. CASE Wake!IntentChimeOver
  <2>1. /\ TopIs({"intent"}) /\ Len(calls') = Len(calls)
        /\ \A i \in 1..Len(calls) - 1 : calls'[i] = calls[i]
    BY <1>1, <1>10, IntentGoesOn
  <2>2. Wake!Top \notin Recovering /\ TopIs({Wake!Top.kind})
    BY <2>1 DEF Recovering, Resumes, TopIs
  <2>3. jobs' = jobs /\ paused' = paused
    BY <1>10 DEF Wake!IntentChimeOver
  <2>4. Len(calls') \in Nat /\ Len(calls') >= Len(calls) - 1
    BY <2>1 DEF TopIs
  <2>5. QED
    BY <1>1, <2>1, <2>2, <2>3, <2>4, PoppedWaits
<1>11. CASE Wake!WebRequest
  BY <1>1, <1>3, <1>11 DEF Wake!WebRequest
<1>12. CASE Wake!RecognizedAnswer
  <2>1. PICK i \in 1..Len(calls) : calls[i].kind = "ask"
    BY <1>12 DEF Wake!RecognizedAnswer
  <2>2. calls[i] \in Recovering /\ calls' = calls
    BY <1>1, <1>12, <2>1, ElementOfSeq DEF Recovering, Resumes, Wake!RecognizedAnswer
  <2>3. QED
    BY <2>2 DEF Waits
<1>13. CASE Wake!RecognizedCommand
  <2>1. ~Wake!Resume
    BY DEF Wake!Resume
  <2>2. QED
    BY <1>3, <1>13, <2>1 DEF Wake!RecognizedCommand
<1>14. CASE Wake!PluginReturns
  <2>1. Wake!Top.from # "voice"
    BY <1>14 DEF Wake!PluginReturns, Wake!Resume
  <2>2. Wake!OnTop("plugin") /\ Wake!Pop /\ jobs' = jobs /\ paused' = paused
    BY <1>14, <2>1 DEF Wake!PluginReturns
  <2>3. ~Resumes(Wake!Top)
    BY <2>1, <2>2 DEF Resumes, Wake!OnTop
  <2>4. QED
    BY <1>1, <1>4, <2>2, <2>3
<1>15. CASE Wake!Ask \/ Wake!AskOver \/ Wake!StartChimeOver
  BY <1>15 DEF Wake!Ask, Wake!DoResponse, Wake!AskOver, Wake!Resume, Wake!StartChimeOver
<1>16. CASE UNCHANGED <<calls, jobs, paused>>
  BY <1>1, <1>16 DEF Waits
<1>17. QED
  BY <1>5, <1>6, <1>8, <1>9, <1>10, <1>11, <1>12, <1>13, <1>14, <1>15, <1>16
     DEF Wake!Next, Wake!PreVadAudio, Wake!VadVoice, Wake!PrevadTimeout,
         Wake!SoundEnds

(* The window of an answer opens with its question() and closes before it  *)
(* returns.                                                                *)
LEMMA WindowHasAskerKept ==
  Wake!TypeOK /\ Wake!WindowHasAsker /\ [Wake!Next]_(Wake!wakeupVars)
    => Wake!WindowHasAsker'
<1> SUFFICES ASSUME Wake!TypeOK, Wake!WindowHasAsker, [Wake!Next]_(Wake!wakeupVars),
                    isResponse'
             PROVE  Waits(Questions)'
  <2>1. Waits(Questions)' => \E i \in 1..Len(calls') : calls'[i].kind = "ask"
    BY DEF Waits, Questions
  <2>2. QED
    BY <2>1 DEF Wake!WindowHasAsker
<1>1. /\ calls \in Seq(Wake!Frame)
      /\ isResponse => Waits(Questions)
  BY OwedByCalls DEF Wake!TypeOK
<1>2. CASE Wake!Ask
  <2> DEFINE frame == [kind |-> "ask", stop |-> FALSE, own |-> FALSE,
                       from |-> Wake!Top.from]
  <2>1. Wake!Top.from \in {"wake", "voice", "web"}
    BY <1>1, <1>2, OnTopIs DEF Wake!Ask, TopIs, Wake!Frame
  <2>2. frame \in Wake!Frame /\ frame \in Questions
    BY <2>1 DEF Wake!Frame, Questions
  <2>3. Wake!Push(frame)
    BY <1>2 DEF Wake!Ask, Wake!Call
  <2> HIDE DEF frame
  <2>4. Pushed(frame)
    BY <1>1, <2>2, <2>3, PushAddsCall
  <2>5. QED
    BY <1>1, <2>2, <2>4, PushedWaits
<1>3. CASE ~Wake!Ask
  <2>1. isResponse
    BY <1>3 DEF Wake!Next, Wake!PreVadAudio, Wake!WakeIntent, Wake!WakeWord,
       Wake!VadVoice, Wake!VadSilence, Wake!PrevadTimeout, Wake!UndetectTimeout,
       Wake!SoundEnds, Wake!StartChimeOver, Wake!EndChimeOver, Wake!IntentChimeOver,
       Wake!WebRequest, Wake!RecognizedAnswer, Wake!RecognizedCommand,
       Wake!AskOver, Wake!PluginReturns, Wake!VadDetected, Wake!AnswerEnds,
       Wake!DialogueEnds, Wake!NobodyListens, Wake!Resume, Wake!CloseWindow
  <2>2. Waits(Questions)
    BY <1>1, <2>1
  <2>3. ASSUME NEW kind \in Wake!Chimes, NEW stop \in BOOLEAN, Wake!Chime(kind, stop)
        PROVE  Waits(Questions)'
    <3>1. PICK frame \in Wake!Frame : Pushed(frame)
      BY <2>3, ChimeIsCall DEF Wake!Frame
    <3>2. QED
      BY <1>1, <2>2, <3>1, PushedWaits
  <2>4. ASSUME NEW from \in {"wake", "voice", "web"}, Wake!Call("plugin", from)
        PROVE  Waits(Questions)'
    <3>1. [kind |-> "plugin", stop |-> FALSE, own |-> FALSE, from |-> from]
            \in Wake!Frame
      BY DEF Wake!Frame
    <3>2. PICK frame \in Wake!Frame : Pushed(frame)
      BY <1>1, <2>4, <3>1, PushAddsCall DEF Wake!Call
    <3>3. QED
      BY <1>1, <2>2, <3>2, PushedWaits
  <2>5. ASSUME NEW kind, kind # "ask", Wake!OnTop(kind), Wake!Pop
        PROVE  Waits(Questions)'
    <3>1. TopIs({kind}) /\ Popped
      BY <1>1, <2>5, OnTopIs, PopEndsCall
    <3>2. Wake!Top \notin Questions /\ TopIs({Wake!Top.kind})
      BY <2>5, <3>1 DEF Questions, TopIs
    <3>3. /\ Len(calls') \in Nat /\ Len(calls') >= Len(calls) - 1
          /\ \A i \in 1..Len(calls) - 1 : calls'[i] = calls[i]
      BY <3>1 DEF Popped, TopIs
    <3>4. QED
      BY <1>1, <2>2, <3>2, <3>3, PoppedWaits
  <2>6. CASE Wake!WakeIntent \/ Wake!WakeWord
    BY <2>2, <2>3, <2>6 DEF Wake!WakeIntent, Wake!WakeWord, Wake!Chimes, Waits
  <2>7. CASE Wake!VadSilence \/ Wake!UndetectTimeout
    BY <2>2, <2>3, <2>7 DEF Wake!VadSilence, Wake!UndetectTimeout, Wake!VadDetected,
       Wake!AnswerEnds, Wake!DialogueEnds, Wake!NobodyListens, Wake!Chimes, Waits
  <2>8. CASE Wake!StartChimeOver \/ Wake!EndChimeOver \/ Wake!PluginReturns
    BY <2>5, <2>8 DEF Wake!StartChimeOver, Wake!EndChimeOver, Wake!PluginReturns,
       Wake!ChimeOver
  <2>9. CASE Wake!IntentChimeOver
    <3>1. /\ TopIs({"intent"}) /\ Len(calls') = Len(calls)
          /\ \A i \in 1..Len(calls) - 1 : calls'[i] = calls[i]
      BY <1>1, <2>9, IntentGoesOn
    <3>2. Wake!Top \notin Questions /\ TopIs({Wake!Top.kind})
      BY <3>1 DEF Questions, TopIs
    <3>3. Len(calls') \in Nat /\ Len(calls') >= Len(calls) - 1
      BY <3>1 DEF TopIs
    <3>4. QED
      BY <1>1, <2>2, <3>1, <3>2, <3>3, PoppedWaits
  <2>10. CASE Wake!WebRequest \/ Wake!RecognizedCommand
    BY <2>2, <2>4, <2>10 DEF Wake!WebRequest, Wake!RecognizedCommand, Waits
  <2>11. CASE Wake!AskOver
    BY <2>11 DEF Wake!AskOver, Wake!Resume, Wake!CloseWindow
  <2>12. CASE UNCHANGED calls
    BY <2>2, <2>12 DEF Waits
  <2>13. QED
    BY <1>3, <2>6, <2>7, <2>8, <2>9, <2>10, <2>11, <2>12
       DEF Wake!Next, Wake!PreVadAudio, Wake!VadVoice, Wake!PrevadTimeout,
           Wake!SoundEnds, Wake!RecognizedAnswer
<1>4. QED
  BY <1>2, <1>3

(* A detector whose stop() stops the timer takes it with the window, and   *)
(* audio goes to it while the window is open: a chime only starts from     *)
(* another state.                                                          *)
LEMMA WindowKept ==
  /\ Wake!TypeOK /\ CheckTimerFits /\ Wake!ResponseTimerInWindow /\ Wake!WindowListens
  /\ [Wake!Next]_(Wake!wakeupVars)
  => Wake!ResponseTimerInWindow' /\ Wake!WindowListens'
<1> SUFFICES ASSUME Wake!TypeOK, CheckTimerFits, Wake!ResponseTimerInWindow,
                    Wake!WindowListens, [Wake!Next]_(Wake!wakeupVars)
             PROVE  Wake!ResponseTimerInWindow' /\ Wake!WindowListens'
  OBVIOUS
<1> USE DEF Wake!Next, Wake!PreVadAudio, Wake!WakeIntent, Wake!WakeWord,
        Wake!VadVoice, Wake!VadSilence, Wake!PrevadTimeout, Wake!UndetectTimeout,
        Wake!SoundEnds, Wake!StartChimeOver, Wake!EndChimeOver,
        Wake!IntentChimeOver, Wake!WebRequest, Wake!RecognizedAnswer,
        Wake!RecognizedCommand, Wake!Ask, Wake!AskOver, Wake!PluginReturns,
        Wake!Resume, Wake!CloseWindow, Wake!DoResponse, Wake!VadDetected,
        Wake!AnswerEnds, Wake!DialogueEnds, Wake!NobodyListens
<1>1. Wake!ResponseTimerInWindow'
  <2>1. vad' = vad
    OBVIOUS
  <2>2. Wake!StopsTimer' = Wake!StopsTimer
    BY <2>1 DEF Wake!StopsTimer
  <2>3. CASE ~Wake!StopsTimer
    BY <2>2, <2>3 DEF Wake!ResponseTimerInWindow
  <2>4. CASE Wake!StopsTimer
    <3>1. undetectTimer = "response" => isResponse
      BY <2>4 DEF Wake!ResponseTimerInWindow
    <3>2. CASE Wake!RecognizedCommand \/ Wake!AskOver \/ Wake!PluginReturns
      BY <2>4, <3>1, <3>2 DEF Wake!StopDetect, Wake!ResponseTimerInWindow
    <3>3. CASE ~(Wake!RecognizedCommand \/ Wake!AskOver \/ Wake!PluginReturns)
      BY <3>1, <3>3 DEF Wake!StartDetect, Wake!ResponseTimerInWindow
    <3>4. QED
      BY <3>2, <3>3
  <2>5. QED
    BY <2>3, <2>4
<1>2. Wake!WindowListens'
  BY DEF Wake!WindowListens, CheckTimerFits, Wake!AudioFor, Wake!ListenForAnswer,
     Wake!TypeOK
<1>3. QED
  BY <1>1, <1>2

(* The wake-up chain by itself.                                            *)
LEMMA WakeBehaves ==
  Wake!Spec => [](/\ Wake!TypeOK /\ CheckTimerFits
                  /\ Wake!PausedIsOwed /\ Wake!WindowHasAsker
                  /\ Wake!ResponseTimerInWindow /\ Wake!WindowListens)
<1>1. Wake!Init => /\ Wake!TypeOK /\ CheckTimerFits
                   /\ Wake!PausedIsOwed /\ Wake!WindowHasAsker
                   /\ Wake!ResponseTimerInWindow /\ Wake!WindowListens
  <2> SUFFICES ASSUME Wake!Init
               PROVE  /\ Wake!TypeOK /\ CheckTimerFits
                      /\ Wake!PausedIsOwed /\ Wake!WindowHasAsker
                      /\ Wake!ResponseTimerInWindow /\ Wake!WindowListens
    OBVIOUS
  <2>1. calls \in Seq(Wake!Frame) /\ jobs \in 0..MaxJobs
    BY WakeAssumption DEF Wake!Init
  <2>2. {isResponse, paused, prevadTimer, vadLoaded, answered} \subseteq BOOLEAN
    BY DEF Wake!Init
  <2>3. Wake!TypeOK
    BY <2>1, <2>2 DEF Wake!Init, Wake!TypeOK, Wake!States, Wake!Resting
  <2>4. QED
    BY <2>3 DEF Wake!Init, CheckTimerFits, Wake!PausedIsOwed, Wake!WindowHasAsker,
       Wake!ResponseTimerInWindow, Wake!WindowListens
<1>2. QED
  BY <1>1, WakeTypeKept, OwedKept, WindowHasAskerKept, WindowKept, PTL DEF Wake!Spec

(* The wake-up chain's part of the run behaves as the chain by itself.     *)
LEMMA WakeInRun == MCSpec => Wake!Spec
<1>1. MCInit => Wake!Init
  BY DEF MCInit
<1>2. [MCNext]_MCVars => [Wake!Next]_(Wake!wakeupVars)
  BY DEF MCNext, MCVars, OnlyPlaylist, OnlyWake, wakeVars
<1>3. QED
  BY <1>1, <1>2, PTL DEF MCSpec, Wake!Spec

(* The microphone is never off for good, whatever chimes, questions and    *)
(* web requests nest (wakeup.cpp:258).                                     *)
THEOREM PausedStaysOwed == MCSpec => []PausedIsOwed
  BY WakeInRun, WakeBehaves, PTL DEF PausedIsOwed

(* An answer window belongs to a question in progress, listens, and with a *)
(* detector that stops it takes its timer with it (wakeup.cpp:316, 327).   *)
THEOREM WindowStaysSound == MCSpec => []AnswerWindow
  BY WakeInRun, WakeBehaves, PTL DEF AnswerWindow

-----------------------------------------------------------------------------
(* The play list.                                                          *)

(* The play list's part of the run behaves as the play list by itself.     *)
LEMMA PlaylistInRun == MCSpec => Spec
<1>1. MCInit => Init
  BY DEF MCInit
<1>2. [MCNext]_MCVars => [Next]_playlistVars
  BY DEF MCNext, MCVars, OnlyPlaylist, OnlyWake, playlistVars, ghostVars
<1>3. QED
  BY <1>1, <1>2, PTL DEF MCSpec, Spec

(* The list of songs keeps its order (audioplaylist.cpp:132).              *)
THEOREM OrderStaysKept == MCSpec => []OrderKept
  BY PlaylistInRun, SongsKeepOrder, PTL DEF OrderKept

(* What the user paused stays paused (audioplaylist.cpp, enforceUserPause), *)
(* in the same run.                                                        *)
THEOREM PauseStaysKept == MCSpec => []UserPauseHolds
  BY PlaylistInRun, PauseIsKept, PTL

(* Nobody waits in a chime for ever (audioplaylist.cpp, errorOccurred), in *)
(* the same run.                                                           *)
THEOREM ChimesStayReturned == MCSpec => []ChimeReturns
  BY PlaylistInRun, ChimesReturn, PTL
=============================================================================
