--------------------------------- MODULE NLU ---------------------------------
(***************************************************************************)
(* What the engines of natural language understanding make of a sentence   *)
(* (Conversation/NLU): the choice of an engine when the program starts,    *)
(* the one-line answer of a language model, and the slots the plugins are  *)
(* handed, which every engine maps from its entities for itself.           *)
(*                                                                         *)
(* The words of an entity are known by what they contain (CharsOf).        *)
(***************************************************************************)
EXTENDS Naturals, Sequences, SequencesExt

CONSTANTS
  MaxSlots,        (* bound on the entities of a sentence                      *)
  Thresholds       (* conf, in tenths                                          *)

VARIABLES
  engine,          (* nlu                                                      *)
  conf,
  started,         (* isStart()                                                *)
  heard,           (* history: the entities the engine found, with their words *)
  parsed           (* the ParsedIntent of the last sentence, "none" without    *)

nluVars == <<engine, conf, started, heard, parsed>>

(* Data/nlu_schema.json, as much as tells intents apart: their entities.   *)
IntentNames == {"FALLBACK", "CHANGE_VOL", "MUSICINFO", "CLOSE_FURNITURE", "PAUSE"}
Schema == [FALLBACK |-> {}, CHANGE_VOL |-> {"number", "trend"}, MUSICINFO |-> {"song", "human"},
           CLOSE_FURNITURE |-> {"furniture", "time"}, PAUSE |-> {}]
Entities == {"number", "trend", "song", "human", "furniture", "time"}

(* Words, by the characters in them that are looked for.                   *)
CharsOf == [plain |-> {}, louder |-> {"da"}, higher |-> {"gao"}, softer |-> {"xiao"},
             tooSoft |-> {"tai", "xiao"}, inAnHour |-> {"hour"}]
Words == DOMAIN CharsOf

Slot(name, value) == [name |-> name, value |-> value]
EntitySlots == {Slot(n, "plain") : n \in Entities \cup {"unknown"}}
                 \cup {Slot("trend", w) : w \in Words} \cup {Slot("time", "inAnHour")}

None == [name |-> "none", slots |-> <<>>]

-----------------------------------------------------------------------------
(* trendOf() of the ONNX engine: said of what is too soft is louder.       *)
Inverted(word) == {"tai", "xiao"} \subseteq CharsOf[word]
Trend(word) ==
  CASE Inverted(word) -> "da"
    [] ~Inverted(word) /\ CharsOf[word] \cap {"da", "gao"} # {} -> "da"
    [] ~Inverted(word) /\ CharsOf[word] \cap {"da", "gao"} = {} /\ "xiao" \in CharsOf[word] -> "xiao"
    [] OTHER -> "none"

(* entity2Slot(): the direction of a volume, which may be none.            *)
Signs(by) ==
  CASE by = "rasa" -> [up |-> {"da"}, down |-> {"xiao"}]
    [] by = "llm"  -> [up |-> {"da", "gao", "xiang"}, down |-> {"xiao", "di", "qing"}]
Direction(by, word) ==
  LET has == IF by = "onnx" THEN {Trend(word)} ELSE CharsOf[word]
      signs == Signs(IF by = "onnx" THEN "rasa" ELSE by)
  IN  CASE has \cap signs.up # {} -> <<Slot("user_d", "--HIGHER--")>>
        [] has \cap signs.up = {} /\ has \cap signs.down # {} -> <<Slot("user_d", "--SMALLER--")>>
        [] OTHER -> <<>>

(* TimeNormalizer::normalize(): seconds, or nothing.                       *)
Normalized(word) == IF "hour" \in CharsOf[word] THEN <<Slot("time", "seconds")>> ELSE <<>>

SlotOf(by, intent, slot) ==
  CASE intent = "CHANGE_VOL" ->
         CASE slot.name = "number" -> <<Slot("user_v", slot.value)>>
           [] slot.name = "trend"  -> Direction(by, slot.value)
           [] OTHER -> <<>>
    [] intent = "MUSICINFO" ->
         CASE slot.name = "song"  -> <<Slot("user_music_name", slot.value)>>
           [] slot.name = "human" -> <<Slot("user_singer_name", slot.value)>>
           [] OTHER -> <<>>
    [] OTHER -> IF slot.name = "time" THEN Normalized(slot.value) ELSE <<slot>>

Entity2Slot(by, intent, found) ==
  [name |-> intent, slots |-> FlattenSeq([i \in 1..Len(found) |-> SlotOf(by, intent, found[i])])]

-----------------------------------------------------------------------------
(* Conversation's constructor: the engine configured if it can be built,   *)
(* and Rasa behind it.                                                     *)
Chosen(backend, loads) == IF backend # "rasa" /\ loads THEN backend ELSE "rasa"

Init ==
  /\ \E backend \in {"onnx", "llm", "rasa"}, loads \in BOOLEAN : engine = Chosen(backend, loads)
  /\ conf \in Thresholds
  /\ started = (engine = "onnx")
  /\ heard = None /\ parsed = None

(* LLMNLU::parseOutput(): the first line of the answer, the number or the  *)
(* name of an intent and its entities; what the schema does not know, or   *)
(* does not grant to that intent, is dropped.                              *)
Allowed_Slip(intent, slot) == slot.name \in Entities /\ (Schema[intent] # {} => slot.name \in Schema[intent])
Allowed(intent, slot) == slot.name \in Entities /\ slot.name \in Schema[intent]
Granted(intent, found) ==
  FlattenSeq([i \in 1..Len(found) |-> IF Allowed(intent, found[i]) THEN <<found[i]>> ELSE <<>>])
ParseOutput(intent, found) ==
  IF intent \notin IntentNames \ {"FALLBACK"} THEN None
  ELSE Entity2Slot("llm", intent, Granted(intent, found))

(* LLMNLU::parseIntent(): complete() may have given nothing in time.       *)
LLMParseIntent(answered, intent, found) ==
  /\ engine = "llm"
  /\ started' = TRUE
  /\ heard' = [name |-> intent, slots |-> found]
  /\ parsed' = IF answered THEN ParseOutput(intent, found) ELSE None
  /\ UNCHANGED <<engine, conf>>

(* RasaNLU::parseIntent(): a request that fails leaves it not started.     *)
RasaParseIntent(answered, intent, found, confidence) ==
  /\ engine = "rasa"
  /\ started' = answered
  /\ heard' = [name |-> intent, slots |-> found]
  /\ parsed' = IF answered /\ confidence > conf THEN Entity2Slot("rasa", intent, found) ELSE None
  /\ UNCHANGED <<engine, conf>>

(* ONNXNLU::parseIntent(), after parseRaw(): one span per entity.          *)
OnnxParseIntent(answered, intent, found, confidence) ==
  /\ engine = "onnx" /\ (answered => started)
  /\ \A i, j \in 1..Len(found) : found[i].name = found[j].name => i = j
  /\ heard' = [name |-> intent, slots |-> found]
  /\ parsed' = IF answered /\ confidence > conf THEN Entity2Slot("onnx", intent, found) ELSE None
  /\ UNCHANGED <<engine, conf, started>>

(* requestNLU() hands the intents to the plugins.                          *)
Dispatched ==
  /\ heard # None /\ heard' = None /\ parsed' = None
  /\ UNCHANGED <<engine, conf, started>>

Stop == engine = "onnx" /\ started /\ started' = FALSE /\ UNCHANGED <<engine, conf, heard, parsed>>

Next ==
  \/ /\ heard = None
     /\ \E answered \in BOOLEAN, intent \in IntentNames \cup {"unknown"},
           found \in SeqOf(EntitySlots, MaxSlots) :
          \/ LLMParseIntent(answered, intent, found)
          \/ \E confidence \in {0, 6, 9} :
               \/ intent # "unknown" /\ RasaParseIntent(answered, intent, found, confidence)
               \/ intent # "unknown" /\ OnnxParseIntent(answered, intent, found, confidence)
  \/ Dispatched
  \/ Stop

Spec == Init /\ [][Next]_nluVars

-----------------------------------------------------------------------------
(* What a plugin is handed can be used as it is: of a language model       *)
(* nothing the schema does not grant to the intent (llmnlu.cpp:303-307),   *)
(* a volume without its entities' words, a time in seconds.                *)
SlotsOfIntent ==
  \A i \in 1..Len(parsed.slots) :
    LET slot == parsed.slots[i]
    IN  /\ parsed.name = "CHANGE_VOL" =>
             slot.name = "user_v" \/ (slot.name = "user_d" /\ slot.value \in {"--HIGHER--", "--SMALLER--"})
        /\ parsed.name = "MUSICINFO" => slot.name \in {"user_music_name", "user_singer_name"}
        /\ slot.name = "time" => slot.value = "seconds"
        /\ engine = "llm" /\ parsed.name \notin {"CHANGE_VOL", "MUSICINFO"} =>
             slot.name \in Schema[parsed.name]

(* "It is too soft" means louder, although it has the character of soft    *)
(* (llmnlu.cpp:346-348; the ONNX engine's header says the same).           *)
TooSoftMeansLouder ==
  heard.slots = <<Slot("trend", "tooSoft")>> /\ parsed.name = "CHANGE_VOL" =>
    parsed.slots = <<Slot("user_d", "--HIGHER--")>>

(* The engines map the same entities to the same slots (llmnlu.h:86-89,    *)
(* onnxnlu.cpp:516-518).                                                   *)
EnginesAgree ==
  parsed # None => \A by \in {"rasa", "llm"} :
    Entity2Slot(by, parsed.name, heard.slots) = Entity2Slot(engine, parsed.name, heard.slots)
=============================================================================
