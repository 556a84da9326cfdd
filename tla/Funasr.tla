-------------------------------- MODULE Funasr --------------------------------
(***************************************************************************)
(* The default speech recogniser (Conversation/ASR/funasr.cpp): features   *)
(* of the audio, stacked and shifted for the model, the greedy choice of a *)
(* token per position, and the text made of the tokens.                    *)
(*                                                                         *)
(* A token is a record: its kind and the letters of a foreign one.  "zh"   *)
(* is a Chinese character, "sub" a piece of a word that goes on (ends in   *)
(* @@), "word" a word or the end of one, "special" one of <s>, </s>,       *)
(* <unk> and <blank>.  In a text a token is known by its position.         *)
(***************************************************************************)
EXTENDS Integers, Sequences, FiniteSets, SequencesExt

CONSTANTS
  Stackings,     (* lfr_m and lfr_n: frames per stacked frame, and the shift   *)
  MaxFrames,     (* bound on the frames of an audio                            *)
  MaxTokens,     (* bound on the tokens of an answer                           *)
  MaxHotword,    (* maxHotwordLen                                              *)
  Hotwords,      (* lists of hot words, each a sequence of tokens; 0 is one    *)
                 (* the vocabulary does not have                               *)
  Weights,       (* us_alphas, longer than an answer                           *)
  EpsInv         (* the threshold of a peak is 1 - 1/EpsInv                    *)

VARIABLES
  modelInputs,   (* inputs of the recognition model: 2, or 3 with hot words    *)
  stacking,
  valid,         (* ASRModel::valid                                            *)
  use_hotword, hw_session, hw_emb,
  hotwordFile,   (* the hot words configured                                   *)
  feats,         (* the stacked features, a frame known by its number          *)
  frames,        (* history: number of frames they were made of                *)
  hyps,          (* the tokens chosen                                          *)
  result,        (* the text, before it is reported                            *)
  stamps         (* number of time stamps, -1 when the model gives none        *)

funasrVars == <<modelInputs, stacking, valid, use_hotword, hw_session, hw_emb, hotwordFile,
                feats, frames, hyps, result, stamps>>

Tokens == [kind : {"zh", "special"}, size : {1}] \cup [kind : {"sub", "word"}, size : {1, 2}]

MinOf(a, b) == IF a < b THEN a ELSE b

-----------------------------------------------------------------------------
(* compileHotwordEmbedding(): the embedding of a word is that of its last  *)
(* character; a word with an unknown character is left out; a last row is  *)
(* the blank.  Of the model's output only its place is known.              *)
Kept(words) == SelectSeq(words, LAMBDA w : w # <<>> /\ \A i \in 1..MinOf(Len(w), MaxHotword) : w[i] # 0)
LengthOf_Slip(word) == Len(word)
LengthOf(word) == MinOf(Len(word), MaxHotword)
CompileHotwordEmbedding(words) ==
  LET kept == Kept(words)
  IN  [j \in 1..(Len(kept) + 1) |->
         [step |-> IF j > Len(kept) THEN 1 ELSE LengthOf(kept[j]), word |-> j]]

(* The constructor: initMain() needs everything the model reads (names are *)
(* two inputs and two outputs at least, lengths an integer type);          *)
(* initHotword(), which comes only after it, leaves hot words off unless   *)
(* each of its parts can be used and there is an embedding.                *)
MainParts    == {"config", "paths", "model", "cmvn", "tokens", "session", "names", "lengths"}
HotwordParts == {"paths", "session", "segdict", "hotwords"}
InitMain(there) == MainParts \subseteq there
InitHotword(there, words) == HotwordParts \subseteq there /\ CompileHotwordEmbedding(words) # <<>>

Init ==
  /\ modelInputs \in {2, 3} /\ stacking \in Stackings /\ hotwordFile \in Hotwords
  /\ valid \in {InitMain(there) : there \in SUBSET MainParts}
  /\ use_hotword \in {valid /\ InitHotword(there, hotwordFile) : there \in SUBSET HotwordParts}
  /\ hw_session = use_hotword
  /\ hw_emb = IF use_hotword THEN CompileHotwordEmbedding(hotwordFile) ELSE <<>>
  /\ feats = <<>> /\ frames = 0 /\ hyps = <<>> /\ result = <<>> /\ stamps = 0 - 1

-----------------------------------------------------------------------------
(* applyLfrCmvn(): copies of the first frame in front, then stacks of m    *)
(* frames every n, the last filled up with the last frame.                 *)
Padding_Slip(m) == m \div 2
Padding(m) == (m - 1) \div 2
Padded(n) == [k \in 1..(n + Padding(stacking.m)) |->
                IF k <= Padding(stacking.m) THEN 0 ELSE k - 1 - Padding(stacking.m)]
ApplyLfrCmvn(n) ==
  LET padded == Padded(n)
      stacks == (n + stacking.n - 1) \div stacking.n
      left(i) == Len(padded) - i * stacking.n
  IN  [i \in 1..stacks |->
         [j \in 1..stacking.m |->
            IF j <= left(i - 1) THEN padded[(i - 1) * stacking.n + j] ELSE Last(padded)]]

(* Detect(): forward() ends here with no text when the recogniser is       *)
(* stopped, the audio too short, or the inputs are not those of the model. *)
InputsFit == modelInputs = IF use_hotword THEN 3 ELSE 2
Detect(n) ==
  /\ feats = <<>> /\ hyps' = <<>> /\ result' = <<>> /\ stamps' = 0 - 1
  /\ frames' = n
  /\ feats' = IF valid /\ n > 0 /\ Len(ApplyLfrCmvn(n)) >= 2 /\ InputsFit
              THEN ApplyLfrCmvn(n) ELSE <<>>
  /\ UNCHANGED <<modelInputs, stacking, valid, use_hotword, hw_session, hw_emb, hotwordFile>>

-----------------------------------------------------------------------------
(* Pieces of a text: a word, or a space.                                   *)
Space == [tokens |-> <<>>, size |-> 1]

Kind(ids, i) == ids[i].kind
NextIsChinese(ids, i) == i < Len(ids) /\ Kind(ids, i + 1) = "zh"
EndsHere(ids, i) == i = Len(ids) \/ NextIsChinese(ids, i)

(* detokenize(): `combine` collects the pieces of a word, `pre` is the     *)
(* size of a foreign word just before, 0 after a Chinese one.              *)
Start == [words |-> <<>>, combine |-> [tokens |-> <<>>, size |-> 0], combining |-> FALSE, pre |-> 0]
Joined(combine, token, size) == [tokens |-> Append(combine.tokens, token), size |-> combine.size + size]
Nothing == Start.combine

Separated(st, word, always) ==
  IF st.pre > 1 \/ (st.pre = 1 /\ (always \/ word.size > 1)) THEN <<Space, word>> ELSE <<word>>
Worded(st, word, chinese, always) ==
  [st EXCEPT !.words = @ \o (IF chinese THEN <<word>> ELSE Separated(st, word, always)),
             !.pre = IF chinese THEN 0 ELSE word.size,
             !.combining = FALSE, !.combine = Nothing]

Combined_Slip(st, token, size) == Joined(Nothing, token, size)
Combined(st, token, size) == Joined(IF st.combining THEN st.combine ELSE Nothing, token, size)

Step(ids, i, st, always) ==
  LET size == ids[i].size
  IN  CASE Kind(ids, i) = "special" -> st
        [] Kind(ids, i) = "sub" /\ ~EndsHere(ids, i) ->
             [st EXCEPT !.combine = Joined(st.combine, i, size), !.combining = TRUE]
        [] Kind(ids, i) = "sub" /\ EndsHere(ids, i) ->
             Worded(st, Combined(st, i, size + 1), FALSE, always)
        [] Kind(ids, i) \in {"word", "zh"} ->
             Worded(st, Combined(st, i, size), Kind(ids, i) = "zh" /\ ~st.combining, always)

Text(ids, always) ==
  LET after[i \in 0..Len(ids)] == IF i = 0 THEN Start ELSE Step(ids, i, after[i - 1], always)
  IN  after[Len(ids)].words
Detokenize(ids)  == Text(ids, FALSE)
PostProcess(ids) == Text(ids, TRUE)

(* timestampOnnx(): the frames at which the peaks reach the threshold, as  *)
(* they are if exactly one more than tokens, and else found anew in the *)
(* weights scaled to that number.  Sums are kept as fractions of EpsInv    *)
(* times the total.                                                        *)
Sum(s) == FoldSeq(LAMBDA x, y : x + y, 0, s)
Accumulate(acc, i, alpha, unit) ==
  IF acc.sum + alpha >= unit
  THEN [sum |-> acc.sum + alpha - unit, fired |-> acc.fired \cup {i}]
  ELSE [acc EXCEPT !.sum = @ + alpha]
FireLate(acc, i, unit) ==
  IF acc.sum >= unit /\ i \notin acc.fired
  THEN [sum |-> acc.sum - unit, fired |-> acc.fired \cup {i}]
  ELSE acc
Fires(alphas, wanted) ==
  LET n     == Len(alphas)
      unit  == Sum(alphas) * (EpsInv - 1)
      acc[i \in 0..n] ==
        IF i = 0 THEN [sum |-> 0, fired |-> {}]
        ELSE Accumulate(acc[i - 1], i, alphas[i] * wanted * EpsInv, unit)
      late[i \in 0..n] == IF i = 0 THEN acc[n] ELSE FireLate(late[i - 1], n + 1 - i, unit)
  IN  late[n].fired

TimestampOnnx(ids, ended, exact, alphas) ==
  LET chars == IF ended THEN Len(ids) - 1 ELSE Len(ids)
  IN  CASE chars = 0 -> 0
        [] chars > 0 /\ exact -> chars
        [] chars > 0 /\ ~exact /\ Sum(alphas) = 0 -> 0
        [] chars > 0 /\ ~exact /\ Sum(alphas) > 0 ->
             LET fired == Cardinality(Fires(alphas, chars + 1))
             IN  IF fired = 0 THEN 0 ELSE fired - 1

(* What the model answers: tokens, or nothing that can be used.            *)
Run(ids) ==
  /\ feats # <<>> /\ feats' = <<>>
  /\ hyps' = ids /\ result' = Detokenize(ids) /\ stamps' = 0 - 1
  /\ UNCHANGED <<modelInputs, stacking, valid, use_hotword, hw_session, hw_emb, hotwordFile, frames>>
RunWithStamps(ids, ended, exact, alphas) ==
  /\ feats # <<>> /\ feats' = <<>>
  /\ hyps' = ids /\ result' = PostProcess(ids)
  /\ stamps' = TimestampOnnx(ids, ended, exact, alphas)
  /\ UNCHANGED <<modelInputs, stacking, valid, use_hotword, hw_session, hw_emb, hotwordFile, frames>>
RunFails ==
  /\ feats # <<>> /\ feats' = <<>>
  /\ UNCHANGED <<modelInputs, stacking, valid, use_hotword, hw_session, hw_emb, hotwordFile, frames,
                 hyps, result, stamps>>

Stop ==
  /\ valid /\ feats = <<>>
  /\ valid' = FALSE /\ hw_session' = FALSE /\ hw_emb' = <<>>
  /\ UNCHANGED <<modelInputs, stacking, use_hotword, hotwordFile, feats, frames, hyps, result, stamps>>

Next ==
  \/ \E n \in 0..MaxFrames : Detect(n)
  \/ /\ feats # <<>>
     /\ \E ids \in SeqOf(Tokens, MaxTokens) :
          \/ Run(ids)
          \/ \E ended \in IF ids # <<>> /\ Last(ids).kind = "special" THEN BOOLEAN ELSE {FALSE},
                 exact \in BOOLEAN, alphas \in Weights :
               RunWithStamps(ids, ended, exact, alphas)
  \/ RunFails
  \/ Stop

Spec == Init /\ [][Next]_funasrVars

-----------------------------------------------------------------------------
(* The hot words are on as a whole or not at all, and every embedding is   *)
(* read at a step the encoder has (compileHotwordEmbedding's startPos).    *)
HotwordsWhole ==
  valid /\ use_hotword =>
    hw_session /\ hw_emb # <<>> /\ \A j \in 1..Len(hw_emb) : hw_emb[j].step \in 1..MaxHotword

(* A stack is m frames in a row around every n-th one, the ends repeated   *)
(* ("as FunASR's apply_lfr", funasr.h).                                    *)
Clamped(k) == IF k < 0 THEN 0 ELSE MinOf(k, frames - 1)
StacksAreWindows ==
  \A i \in 1..Len(feats), j \in 1..stacking.m :
    feats[i][j] = Clamped((i - 1) * stacking.n + j - 1 - (stacking.m - 1) \div 2)

(* The tokens that are lost: a word broken off before a special token that *)
(* ends the answer, see NothingLost.                                       *)
Lost(ids) ==
  {i \in 1..Len(ids) : /\ Last(ids).kind = "special" /\ Kind(ids, i) = "sub"
                       /\ \A k \in i..Len(ids) : Kind(ids, k) \in {"sub", "special"}}
Spoken(ids) == {i \in 1..Len(ids) : Kind(ids, i) # "special"}
WordsOf(text) == SelectSeq(text, LAMBDA w : w # Space)
TokensOf(text) == FlattenSeq([i \in 1..Len(WordsOf(text)) |-> WordsOf(text)[i].tokens])
Foreign(word) == \E i \in ToSet(word.tokens) : Kind(hyps, i) # "zh"

(* The text is the tokens in their order, the pieces of a word together,   *)
(* and a space between two foreign words and nowhere else, two letters of  *)
(* an acronym excepted (detokenize(), postProcess()).                      *)
TextIsWords ==
  /\ TokensOf(result) = SetToSortSeq(Spoken(hyps) \ Lost(hyps), <) \/ result = <<>>
  /\ \A w \in ToSet(WordsOf(result)) : \A i \in ToSet(Front(w.tokens)) : Kind(hyps, i) = "sub"
  /\ \A k \in 1..Len(result) :
       result[k] = Space => /\ 1 < k /\ k < Len(result)
                            /\ Foreign(result[k - 1]) /\ Foreign(result[k + 1])
  /\ \A k \in 1..(Len(result) - 1) :
       result[k] # Space /\ result[k + 1] # Space /\ Foreign(result[k]) /\ Foreign(result[k + 1]) =>
         stamps < 0 /\ result[k].size = 1 /\ result[k + 1].size = 1

(* postProcess() reads a time stamp for every token it keeps; if there are *)
(* any, there is one.  That there are any is not certain: with weights     *)
(* that sum to 0 timestampOnnx() gives none, and the read is out of range. *)
StampsReach == stamps > 0 => \A i \in Spoken(hyps) : i <= stamps

FunasrSound == HotwordsWhole /\ StacksAreWindows /\ TextIsWords /\ StampsReach

(* "Hot words only help, recognition works without them" (funasr.cpp:799). *)
HotwordsOnlyHelp == valid => InputsFit

(* No token the model chose is missing in the text.                        *)
NothingLost == result # <<>> => TokensOf(result) = SetToSortSeq(Spoken(hyps), <)
=============================================================================
