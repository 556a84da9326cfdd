------------------------------- MODULE OnnxNLU -------------------------------
(***************************************************************************)
(* The tokenizer and the decoder of the ONNX engine (onnxnlu.cpp): a       *)
(* sentence is cut into tokens that know their place in it, the model      *)
(* labels every token, and runs of a label are the spans of the slots.     *)
(*                                                                         *)
(* A sentence is a sequence of characters of a class: "zh" is Chinese,     *)
(* "punct", "space", and "latin".  A place is [s, e), counted from 0.      *)
(***************************************************************************)
EXTENDS Integers, Sequences, FiniteSets, SequencesExt, FiniteSetsExt

CONSTANTS
  MaxText,         (* bound on the characters of a sentence                    *)
  MaxLen,          (* maxLen, in tokens                                        *)
  Heads, Tails,    (* lengths of the pieces the vocabulary has, at the start   *)
                   (* of a word and in it (##)                                 *)
  Codes            (* entityCodes                                              *)

VARIABLES
  text,
  tokens,          (* their offsets; [CLS] and [SEP] have the place [0, 0)     *)
  tags,            (* the label of every token, 0 for none                     *)
  slotMap,         (* the span of a code, <<>> for none                        *)
  stage

onnxVars == <<text, tokens, tags, slotMap, stage>>

Place(s, e) == [s |-> s, e |-> e]
Outside == Place(0, 0)
Bad == Place(0 - 1, 0 - 1)
NoSlots == [c \in ToSet(Codes) |-> <<>>]

Init == text = <<>> /\ tokens = <<>> /\ tags = <<>> /\ slotMap = NoSlots /\ stage = "idle"

-----------------------------------------------------------------------------
(* tokenize(), first half: the words, a Chinese character or a mark being  *)
(* one of its own.                                                         *)
Class(i) == text'[i + 1]
Starts == {i \in 0..(Len(text') - 1) :
             \/ Class(i) \in {"zh", "punct"}
             \/ Class(i) = "latin" /\ (i = 0 \/ Class(i - 1) # "latin")}
EndOf(s) ==
  IF Class(s) # "latin" THEN s + 1
  ELSE Min({e \in (s + 1)..Len(text') : e = Len(text') \/ Class(e) # "latin"})
Words ==
  LET starts == SelectSeq([i \in 1..Len(text') |-> i - 1], LAMBDA i : i \in Starts)
  IN  [k \in DOMAIN starts |-> Place(starts[k], EndOf(starts[k]))]

(* Second half: the longest piece in the vocabulary first, and [UNK] for a *)
(* word that cannot be cut; too long a sentence ends in [SEP] early.       *)
Known(word, s, e) ==
  Class(word.s) # "latin" \/ e - s \in IF s = word.s THEN Heads ELSE Tails
Pieces(word) ==
  LET cut[s \in word.s..word.e] ==
        LET ends == {e \in (s + 1)..word.e : Known(word, s, e)}
        IN  CASE s = word.e -> <<>>
              [] s < word.e /\ ends = {} -> <<Bad>>
              [] OTHER -> <<Place(s, Max(ends))>> \o cut[Max(ends)]
      pieces == cut[word.s]
  IN  IF pieces # <<>> /\ Last(pieces) = Bad THEN <<word>> ELSE pieces

Whole == <<Outside>> \o FlattenSeq([k \in 1..Len(Words) |-> Pieces(Words[k])]) \o <<Outside>>
Cut(offsets) ==
  IF Len(offsets) <= MaxLen THEN offsets ELSE Append(SubSeq(offsets, 1, MaxLen - 1), Outside)

Tokenize(sentence) ==
  /\ stage = "idle" /\ stage' = "tokens"
  /\ text' = sentence
  /\ tokens' = Cut(Whole)
  /\ tags' = <<>> /\ slotMap' = NoSlots

-----------------------------------------------------------------------------
(* parseRaw(): the labels the model gives.                                 *)
Label(labels) ==
  /\ stage = "tokens" /\ stage' = "labelled"
  /\ tags' = labels
  /\ UNCHANGED <<text, tokens, slotMap>>

(* emitRun(): a span takes the place of an earlier one of its code.  Of a  *)
(* trend without a direction, known by a mark in it, nothing is kept.      *)
Directed(span) == \A i \in span.s..(span.e - 1) : text[i + 1] # "punct"
EmitRun_Slip(found, run) ==
  IF run.tag = 0 \/ found[Codes[run.tag]] # <<>> THEN found
  ELSE [found EXCEPT ![Codes[run.tag]] = <<Place(run.s, run.e)>>]
EmitRun(found, run) ==
  IF run.tag = 0 \/ (Codes[run.tag] = "t" /\ ~Directed(run)) THEN found
  ELSE [found EXCEPT ![Codes[run.tag]] = <<Place(run.s, run.e)>>]

NoRun == [tag |-> 0, s |-> 0, e |-> 0]
NextRun(state, place, tag) ==
  CASE place.s = place.e ->
         [found |-> EmitRun(state.found, state.run), run |-> NoRun]
    [] place.s # place.e /\ tag # state.run.tag ->
         [found |-> EmitRun(state.found, state.run),
          run |-> [tag |-> tag, s |-> place.s, e |-> place.e]]
    [] OTHER -> [state EXCEPT !.run.e = place.e]

Decode ==
  /\ stage = "labelled" /\ stage' = "idle"
  /\ LET after[k \in 0..Len(tokens)] ==
           IF k = 0 THEN [found |-> NoSlots, run |-> NoRun]
           ELSE NextRun(after[k - 1], tokens[k], tags[k])
     IN  slotMap' = EmitRun(after[Len(tokens)].found, after[Len(tokens)].run)
  /\ UNCHANGED <<text, tokens, tags>>

(* One sentence; nothing is kept for the next one.                         *)
Next ==
  \/ /\ stage = "idle" /\ text = <<>>
     /\ \E sentence \in SeqOf({"zh", "punct", "space", "latin"}, MaxText) : Tokenize(sentence)
  \/ /\ stage = "tokens"
     /\ \E labels \in [1..Len(tokens) -> 0..Len(Codes)] : Label(labels)
  \/ Decode

Spec == Init /\ [][Next]_onnxVars

-----------------------------------------------------------------------------
Inner == SelectSeq(tokens, LAMBDA p : p # Outside)

(* The tokens are places of the sentence one after another that leave out  *)
(* spaces and nothing else, unless it is too long (onnxnlu.h:76-80).       *)
TokensCoverText ==
  stage # "idle" =>
    /\ Len(tokens) <= MaxLen /\ tokens[1] = Outside /\ Last(tokens) = Outside
    /\ \A k \in 1..Len(Inner) : Inner[k].s < Inner[k].e
    /\ \A k \in 1..(Len(Inner) - 1) :
         /\ Inner[k].e <= Inner[k + 1].s
         /\ \A i \in Inner[k].e..(Inner[k + 1].s - 1) : text[i + 1] = "space"
    /\ Len(tokens) < MaxLen =>
         \A i \in 1..Len(text) : text[i] # "space" =>
           \E k \in 1..Len(Inner) : Inner[k].s < i /\ i <= Inner[k].e

(* The slot of a code is the last run of its label, from the first token   *)
(* of the run to the last (onnxnlu.cpp:412-417).                           *)
RunOf(tag, a, b) ==
  /\ a <= b
  /\ \A k \in a..b : tags[k] = tag /\ tokens[k] # Outside
  /\ a = 1 \/ tags[a - 1] # tag \/ tokens[a - 1] = Outside
  /\ b = Len(tokens) \/ tags[b + 1] # tag \/ tokens[b + 1] = Outside
SlotsAreRuns ==
  stage = "idle" /\ tags # <<>> =>
    \A tag \in 1..Len(Codes) :
      LET runs == {r \in (1..Len(tokens)) \X (1..Len(tokens)) :
                     /\ RunOf(tag, r[1], r[2])
                     /\ Codes[tag] = "t" => Directed(Place(tokens[r[1]].s, tokens[r[2]].e))}
      IN  slotMap[Codes[tag]] =
            IF runs = {} THEN <<>>
            ELSE LET last == CHOOSE r \in runs : \A q \in runs : q[1] <= r[1]
                 IN  <<Place(tokens[last[1]].s, tokens[last[2]].e)>>

SlotsSound == TokensCoverText /\ SlotsAreRuns
=============================================================================
