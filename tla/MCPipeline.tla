---------------------------- MODULE MCPipeline ------------------------------
(***************************************************************************)
(* The way of a sentence and of its answer: the sound (AudioChain), the    *)
(* recogniser, the parsers of intents, slots and times, and the settings   *)
(* file as text, for one run.  In every behaviour one of them is active,   *)
(* so their state spaces add up.                                           *)
(***************************************************************************)
EXTENDS AudioChain, TLC

CONSTANTS Stackings, MaxFrames, MaxTokens, MaxHotword, Hotwords, Weights,
          EpsInv, MaxSlots, Thresholds, MaxSentence, MaxLen, Heads, Tails,
          Codes, MonthDays, Nows, Numbers, Phrases, Venvs, Models, MaxServers,
          MaxText, MaxEntities, Values, Commented, ShortArray, MaxTree

ASSUME LanguageAssumption == MaxSlots \in Nat /\ MaxText \in Nat /\ MaxEntities \in Nat

VARIABLES modelInputs, stacking, valid, use_hotword, hw_session, hw_emb,
          hotwordFile, feats, frames, hyps, result, stamps
VARIABLES nluEngine, conf, started, heard, parsed
VARIABLES text, tokens, tags, slotMap, stage
VARIABLES clockNow, phrase, clockAnswer
VARIABLES venv, model, status, servers, pidFile, sample, csv, intents
VARIABLES value, explained, treeFile, readBack, comments

Recogniser == INSTANCE Funasr
Intents == INSTANCE NLU WITH engine <- nluEngine
Slots == INSTANCE OnnxNLU WITH MaxText <- MaxSentence
Clock == INSTANCE TimeNormalizer WITH now <- clockNow, answer <- clockAnswer
Rasa == INSTANCE RasaNLU
Tree == INSTANCE Yaml WITH file <- treeFile

funasrVars == <<modelInputs, stacking, valid, use_hotword, hw_session, hw_emb,
  hotwordFile, feats, frames, hyps, result, stamps>>
nluVars == <<nluEngine, conf, started, heard, parsed>>
slotsVars == <<text, tokens, tags, slotMap, stage>>
clockVars == <<clockNow, phrase, clockAnswer>>
rasaVars == <<venv, model, status, servers, pidFile, sample, csv, intents>>
treeVars == <<value, explained, treeFile, readBack, comments>>
languageVars == <<funasrVars, nluVars, slotsVars, clockVars, rasaVars, treeVars>>

OnlyFunasr ==
  /\ active = "funasr"
  /\ UNCHANGED <<audioVars, nluVars, slotsVars, clockVars, rasaVars, treeVars>>
OnlyNlu ==
  /\ active = "nlu"
  /\ UNCHANGED <<audioVars, funasrVars, slotsVars, clockVars, rasaVars, treeVars>>
OnlySlots ==
  /\ active = "slots"
  /\ UNCHANGED <<audioVars, funasrVars, nluVars, clockVars, rasaVars, treeVars>>
OnlyClock ==
  /\ active = "clock"
  /\ UNCHANGED <<audioVars, funasrVars, nluVars, slotsVars, rasaVars, treeVars>>
OnlyRasa ==
  /\ active = "rasa"
  /\ UNCHANGED <<audioVars, funasrVars, nluVars, slotsVars, clockVars, treeVars>>
OnlyTree ==
  /\ active = "tree"
  /\ UNCHANGED <<audioVars, funasrVars, nluVars, slotsVars, clockVars, rasaVars>>

Init ==
  /\ active \in AudioParts \cup {"funasr", "nlu", "slots", "clock", "rasa", "tree"}
  /\ AudioInit
  /\ Recogniser!Init /\ (active # "funasr" =>
       /\ modelInputs = 2 /\ stacking = [m |-> 3, n |-> 2]
       /\ hotwordFile = <<>> /\ ~valid /\ ~use_hotword)
       /\ (stacking # [m |-> 3, n |-> 2] =>
       hotwordFile = <<>> /\ modelInputs = 2 /\ valid)
  /\ Intents!Init /\ (active # "nlu" =>
       nluEngine = "onnx")
  /\ Slots!Init
  /\ Clock!Init /\ (active # "clock" =>
       clockNow = 9 * 86400 + 28800)
  /\ Rasa!Init /\ (active # "rasa" =>
       venv = <<{}>> /\ model = "a")
  /\ Tree!Init

Next ==
  \/ AudioNext /\ UNCHANGED languageVars
  \/ OnlyFunasr /\ Recogniser!Next
  \/ OnlyNlu /\ Intents!Next
  \/ OnlySlots /\ Slots!Next
  \/ OnlyClock /\ Clock!Next
  \/ OnlyRasa /\ Rasa!Next
  \/ OnlyTree /\ Tree!Next

vars == <<audioVars, languageVars>>
Spec == Init /\ [][Next]_vars

FairSpec ==
  /\ Spec
  /\ WF_vars(OnlyDetector /\ UNCHANGED languageVars /\ Detector!Chunk(FALSE))
  /\ WF_vars(OnlyDetector /\ UNCHANGED languageVars /\ Detector!Timeout)
  /\ WF_vars(OnlySpeech /\ UNCHANGED languageVars /\ Voice!Synthesised)
  /\ WF_vars(OnlySpeech /\ UNCHANGED languageVars /\ Voice!PlayEnd)

-----------------------------------------------------------------------------

(* The values of the constants that are made of the modules' own parts,    *)
(* put together here: an instance takes its constants from these.          *)

Str(class)   == [t |-> "string", v |-> class]
Bool         == [t |-> "bool", v |-> "on"]
Num          == [t |-> "number", v |-> "digits"]
Null         == [t |-> "null", v |-> "null"]
Arr(items)   == [t |-> "array", items |-> items]
Obj(entries) == [t |-> "object", entries |-> entries]
Entry(k, v)  == [key |-> k, value |-> v]

Few     == {Str("on"), Arr(<<>>), Obj(<<>>)}
Scalars == {Str(c) : c \in {"word", "on", "null", "digits", "mark", "comma", "lines", "linesEnded"}}
           \cup {Bool, Num, Null}
ArrOf(S)    == {Arr(<<x>>) : x \in S} \cup {Arr(<<x, y>>) : x, y \in S}
ObjOf(S, T) == {Obj(<<Entry("a", x)>>) : x \in S}
               \cup {Obj(<<Entry("a", x), Entry("b", y)>>) : x \in S, y \in T}
One(key)    == Obj(<<Entry(key, Num)>>)
Inner == ArrOf(Few) \cup ObjOf(Few, Few) \cup {Arr(<<x, Num>>) : x \in Scalars}
Items == ObjOf({Str("word"), Arr(<<Num, Num, Num>>), One("c")},
               {Str("lines"), Arr(<<Arr(<<Num>>)>>), One("c"),
                Arr(<<Obj(<<Entry("c", Num), Entry("d", Bool)>>)>>)})
Deep  == {Arr(<<x>>) : x \in Items}
         \cup {Arr(<<x, y>>) : x \in Items,
               y \in {Num, Arr(<<Num, Arr(<<>>)>>),
                      Obj(<<Entry("a", Num), Entry("b", One("c"))>>)}}
YamlValues ==
  ObjOf(Scalars \cup Inner, {Str("word"), Arr(<<Num>>)})
  \cup ObjOf(Deep, {Num}) \cup ObjOf({One("c")}, ObjOf(Inner, {Num}))
YamlComments ==
  {{}, {<<"a">>, <<"b">>, <<"a", "b">>, <<"b", "a">>},
   {<<"a">>, <<"a", "a">>, <<"a", "1", "b">>, <<"a", "1", "b", "c">>}}

Months == <<3, 2, 4>>
Times  == {d * 86400 + t : d \in 9..22, t \in {28800, 72000}}
ManyNumbers == (1..119) \cup {200, 203, 250, 999, 1000, 1005, 1050, 1500, 3005, 9999, 10000,
                             20005, 20050, 20500, 25000, 35001, 99999}
Opt(S)  == {<<>>} \cup {<<x>> : x \in S}
Amounts == [cn : {<<>>, <<1>>, <<2>>, <<1, 10>>}, half : BOOLEAN,
            arabic : {<<>>, <<5>>, <<3, 0>>, <<1, 0 - 2, 5>>}]
PointPart ==
  {[kind |-> "point", hour |-> h, minute |-> m, period |-> w] :
     h \in Opt({0, 8, 12, 20, 24}), m \in {0, 30, 75},
     w \in Opt({"dawn", "noon", "afternoon", "midnight"})}
Points == {p \in PointPart : p.hour = <<>> => p.minute = 0}
TimePhrases ==
  {[kind |-> "weekend"], [kind |-> "now"]}
  \cup {[kind |-> "span", from |-> s[1], to |-> s[2]] : s \in {<<1, 3>>, <<0, 2>>}}
  \cup {[kind |-> "future", amount |-> a] : a \in Amounts}
  \cup {[kind |-> "duration", amount |-> a, unit |-> u, andHalf |-> b] :
          a \in Amounts, u \in {"hour", "quarter", "minute", "second", "day"}, b \in BOOLEAN}
  \cup {[kind |-> "month", year |-> y, month |-> <<m>>] : y \in Opt({1, 2}), m \in 1..4}
  \cup {p @@ [day |-> "none"] : p \in Points}
  \cup {p @@ [day |-> "short", evening |-> e, offset |-> o] :
          p \in {q \in Points : q.period = <<>>}, e \in BOOLEAN, o \in {-1, 0, 2}}
  \cup {p @@ [day |-> "word", offset |-> o] : p \in {q \in Points : q.minute = 30}, o \in {-3, 0, 2}}
  \cup {p @@ [day |-> "week", weeks |-> k, target |-> t] :
          p \in {q \in Points : q.period = <<>> /\ q.minute = 0}, k \in 0..2, t \in 1..7}
  \cup {p @@ [day |-> "date", year |-> y, month |-> m, date |-> d] :
          p \in {q \in Points : q.period \in Opt({"noon"}) /\ q.hour \in Opt({8})},
          y \in Opt({4}), m \in Opt(1..4), d \in {1, 3, 4}}

Stackings3 == {[m |-> 3, n |-> 2], [m |-> 4, n |-> 3], [m |-> 1, n |-> 1]}
Words      == {<<>>, << <<1, 2>>, <<0, 1>>, <<3>> >>, << <<1, 2, 3>>, <<>> >>}
Alphas     == {<<0, 0, 0, 0, 0, 0>>, <<1, 1, 1, 1, 1, 1>>, <<9, 0, 0, 0, 0, 1>>,
               <<0, 0, 0, 0, 0, 5>>, <<1, 0, 2, 0, 0, 3>>}
SlotCodes  == <<"n", "t">>
VenvTrees  == {<<{"bin/rasa", "bin/activate"}>>, <<{}, {"bin/activate"}>>, <<{"file"}>>, <<{}>>}
VolumeSteps == {-50, 10, 50, 150}
TwoSounds  == {<<"a">>, <<"b", "c">>}
Part(id, length, rate) == [id |-> id, length |-> length, rate |-> rate]
OtherFiles ==
  LET R(n) == Part("RIFF", n, 0)
      F    == Part("fmt", 0, 8)
      L(n) == Part("LIST", n, 0)
      Sound(n) == Part("data", n, 0)
      U(x) == Part(x, 0, 0)
  IN {<<R(1), F>>,
      <<R(9), F, L(1), U("x"), Sound(2), U("a"), U("b")>>,
      <<R(9), F, L(1), U("x"), U("pad"), Sound(1), U("a")>>,
      <<R(9), F, Sound(1), U("a"), L(2), U("y"), U("z")>>,
      <<Sound(0), F, Sound(1), U("a")>>}

-----------------------------------------------------------------------------
(* What is turned into another form stands for what it came from: the      *)
(* rings of LiveKit for the window of sound, as if computed from all of it *)
(* (livekitwakeword.cpp:77-82); the recogniser's windows, words and stamps *)
(* for audio and tokens (funasr.cpp); a slot for a run of tokens           *)
(* (onnxnlu.cpp); a time for the words that name it                        *)
(* (TimeNormalizer.h:26-29); and the settings file for the settings        *)
(* (Yaml.cpp).                                                             *)
ConversionsSound ==
  /\ Livekit!RingsAreWindow
  /\ Recogniser!FunasrSound /\ Slots!SlotsSound
  /\ Clock!TimeSound /\ Tree!YamlSound

(* What a sentence is taken for can be used: slots the intent may have     *)
(* (llmnlu.cpp:303-307) with values of their kind, training rows that are  *)
(* the sentence whole, under one service (rasanlu.cpp).                    *)
MeaningSound == Intents!SlotsOfIntent /\ Rasa!RasaSound
=============================================================================
