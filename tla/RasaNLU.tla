------------------------------- MODULE RasaNLU -------------------------------
(***************************************************************************)
(* The Rasa service behind RasaNLU on Linux (Conversation/NLU/rasanlu.cpp  *)
(* and Data/start-rasa.sh, stop-rasa.sh), and the samples it records.      *)
(*                                                                         *)
(* Rasa processes are numbered as they are started; the port is held by    *)
(* the first of those alive.  The program may be started again.            *)
(***************************************************************************)
EXTENDS Integers, Sequences, FiniteSets, FiniteSetsExt, SequencesExt

CONSTANTS
  Venvs,           (* what the candidates of resolveRasaVenv() hold: sets of   *)
                   (* leafs, {"file"} when the candidate is a file             *)
  Models,          (* the files of models that may be configured               *)
  MaxServers,      (* bound on the processes started                           *)
  MaxText, MaxEntities  (* bounds on a sentence recorded and its entities      *)

VARIABLES
  venv,            (* the candidates                                           *)
  model,           (* the configured model                                     *)
  status,          (* the constructor's request: none, asked or answered       *)
  servers,         (* sequence of [model, alive]                               *)
  pidFile,         (* 0 when there is none                                     *)
  sample,          (* the line last written, as pieces of the sentence         *)
  csv,             (* the intents of qa.csv, last row                          *)
  intents          (* the intents returned                                     *)

rasaVars == <<venv, model, status, servers, pidFile, sample, csv, intents>>
service == <<venv, model, status, servers, pidFile>>
recorded == <<sample, csv, intents>>

Alive == {p \in DOMAIN servers : servers[p].alive}
Listening == IF Alive = {} THEN 0 ELSE Min(Alive)

-----------------------------------------------------------------------------
(* resolveRasaVenv(): the first leaf of the first candidate with one.      *)
Leafs == <<"Scripts/rasa", "bin/rasa", "rasa", "Scripts/activate", "bin/activate", "activate">>
Hits(candidate) ==
  IF candidate = {"file"} THEN <<"file">> ELSE SelectSeq(Leafs, LAMBDA l : l \in candidate)
ResolveRasaVenv(candidates) ==
  LET hits == FlattenSeq([i \in DOMAIN candidates |-> Hits(candidates[i])])
  IN  IF hits = <<>> THEN "" ELSE hits[1]

-----------------------------------------------------------------------------
(* stop-rasa.sh: ends what the pid file names, and forgets it.             *)
Killed(procs, p) == IF p \in DOMAIN procs THEN [procs EXCEPT ![p].alive = FALSE] ELSE procs

(* start-rasa.sh: stops the old one, waits for the port ten seconds and    *)
(* starts the new one, which may end at once; the pid is written last.     *)
(* runRasash() kills a script that has taken ten seconds, which leaves     *)
(* what it had started: a port in use all that time, it does not get far.  *)
Stopped == Killed(servers, pidFile)
PortFree == \A p \in DOMAIN Stopped : ~Stopped[p].alive
StartRasa(finished, lives) ==
  LET new == [model |-> model, alive |-> lives]
  IN  \/ /\ finished /\ PortFree
         /\ servers' = Append(Stopped, new)
         /\ pidFile' = IF lives THEN Len(servers) + 1 ELSE 0
      \/ /\ ~finished
         /\ servers' \in {Stopped} \cup (IF PortFree THEN {Append(Stopped, new)} ELSE {})
         /\ pidFile' = 0

(* RasaNLU(): asks the service what model it has.                          *)
Construct(configured) ==
  /\ status # "asked" /\ Len(servers) < MaxServers
  /\ status' = "asked" /\ model' = configured
  /\ UNCHANGED <<venv, servers, pidFile, sample, csv, intents>>

(* The answer: a service with another model, or none, is started anew, by  *)
(* a script that gives up at once when it has no environment.              *)
Other(procs) == Listening = 0 \/ procs[Listening].model # model
Answered(finished, lives) ==
  /\ status = "asked" /\ status' = "answered"
  /\ IF Other(servers) /\ ResolveRasaVenv(venv) # "" THEN StartRasa(finished, lives)
     ELSE UNCHANGED <<servers, pidFile>>
  /\ UNCHANGED <<venv, model, sample, csv, intents>>

(* The service ends by itself.                                             *)
ServerEnds ==
  /\ Listening # 0 /\ servers' = Killed(servers, Listening)
  /\ UNCHANGED <<venv, model, status, pidFile, sample, csv, intents>>

-----------------------------------------------------------------------------
(* parseIntent() with record_samples: the sentence with its entities       *)
(* marked, as far as they stand after the last one with a word between.    *)
Piece(s, e, of) == [s |-> s, e |-> e, entity |-> of]
Marked_Slip(line, entity) ==
  IF entity.start < line.pos THEN line
  ELSE [pos |-> entity.end,
        pieces |-> Append(line.pieces, Piece(entity.start, entity.end, TRUE))]
Marked(line, entity) ==
  IF entity.start <= line.pos THEN line
  ELSE [pos |-> entity.end,
        pieces |-> line.pieces \o <<Piece(line.pos, entity.start, FALSE),
                                    Piece(entity.start, entity.end, TRUE)>>]
SampleOf(length, entities) ==
  LET line == FoldLeft(Marked, [pos |-> 0, pieces |-> <<>>], entities)
  IN  IF line.pos < length THEN Append(line.pieces, Piece(line.pos, length, FALSE)) ELSE line.pieces

(* The row of qa.csv is written with intents[0], which is the intent of    *)
(* the empty name: a map has no first element, and is given that one.      *)
ParseIntent(length, entities, intent, confident) ==
  /\ Listening # 0
  /\ sample' = SampleOf(length, entities)
  /\ intents' = IF confident THEN {intent, ""} ELSE {}
  /\ csv' = IF confident THEN <<intent, "">> ELSE <<>>
  /\ UNCHANGED service
ParseFails ==
  /\ Listening = 0 /\ sample' = <<>> /\ csv' = <<>> /\ intents' = {}
  /\ UNCHANGED service

Entity(s, e) == [start |-> s, end |-> e]
EntityLists(length) ==
  {list \in SeqOf({Entity(s, e) : s \in 0..(length - 1), e \in 1..length}, MaxEntities) :
     /\ \A i \in DOMAIN list : list[i].start < list[i].end
     /\ \A i, j \in DOMAIN list : i < j => list[i].end <= list[j].start}

Init ==
  /\ venv \in Venvs /\ model \in Models
  /\ status = "none" /\ servers = <<>> /\ pidFile = 0
  /\ sample = <<>> /\ csv = <<>> /\ intents = {}

Next ==
  \/ \E configured \in Models : Construct(configured)
  \/ \E finished, lives \in BOOLEAN : Answered(finished, lives)
  \/ ServerEnds
  \/ /\ sample = <<>>
     /\ \E entities \in EntityLists(MaxText), confident \in BOOLEAN :
          ParseIntent(MaxText, entities, "Weather", confident)
  \/ ParseFails

Spec == Init /\ [][Next]_rasaVars

-----------------------------------------------------------------------------
(* A recorded sample is the whole sentence, each part once, in order.      *)
SampleWhole ==
  sample # <<>> =>
    /\ sample[1].s = 0 /\ Last(sample).e = MaxText
    /\ \A i \in 1..(Len(sample) - 1) : sample[i].e = sample[i + 1].s

(* One service at a time, and the pid file names none but that one.        *)
OneService == Cardinality(Alive) <= 1 /\ (pidFile \in Alive => pidFile = Listening)

RasaSound == SampleWhole /\ OneService

(* Linux is given the activate script (rasanlu.cpp:24-25), which           *)
(* start-rasa.sh sources.                                                  *)
PosixGetsActivate ==
  ResolveRasaVenv(venv) \in {"", "file", "Scripts/activate", "bin/activate", "activate"}

(* A row of qa.csv names the intent of the sentence (rasanlu.cpp:336).     *)
RowNamesIntent == csv # <<>> => csv[1] = csv[2]

(* The service that runs can be stopped: it is in the pid file             *)
(* (start-rasa.sh:17-18).                                                  *)
CanBeStopped == status = "answered" /\ Alive # {} => pidFile \in Alive
=============================================================================
