-------------------------------- MODULE Hass --------------------------------
(***************************************************************************)
(* The Home Assistant plugin (Plugins/hass/hass.cpp): commands go over a   *)
(* web socket; what is said of their success waits for a message with the  *)
(* id of the command, or for an event, for some seconds.                   *)
(*                                                                         *)
(* The server is external: it may answer in any order, late or never, and  *)
(* the connection may break; the plugin does not open it again.            *)
(***************************************************************************)
EXTENDS Naturals, FiniteSets

CONSTANTS MaxCommands   (* bound on the commands ever sent                   *)

VARIABLES
  link,          (* the socket: opening, greeted, authorized, lost           *)
  socketId,      (* the id of the next message                               *)
  responses,     (* awaited by id: the function id -> entry                  *)
  responsesList, (* awaited by event                                         *)
  currentId,     (* the conversation of the last command                     *)
  wire,          (* external: what the server may still answer               *)
  commands,      (* history: number of commands; each is its own number      *)
  idOf,          (* history: the message id a command was sent with          *)
  said           (* history: what was said, of which command and to whom     *)

hassVars == <<link, socketId, responses, responsesList, currentId, wire,
              commands, idOf, said>>

(* How the configuration wants the outcome of a command: one of the ways.  *)
(* An assistant's command that has a response too is said twice (README).  *)
Service == {"silent", "byId", "byEvent", "assistant"}
Entry(n) == [command |-> n, late |-> FALSE]
Nothing == [i \in {} |-> Entry(0)]

Init ==
  /\ link = "opening" /\ socketId = 1
  /\ responses = Nothing /\ responsesList = {}
  /\ currentId = 0 /\ wire = {}
  /\ commands = 0 /\ idOf = [n \in 1..MaxCommands |-> 0] /\ said = {}

(* The greeting of the server; the features and one subscription are sent. *)
AuthRequired ==
  /\ link = "opening" /\ link' = "greeted"
  /\ UNCHANGED <<socketId, responses, responsesList, currentId, wire, commands,
                 idOf, said>>
AuthOk ==
  /\ link = "greeted" /\ link' = "authorized"
  /\ socketId' = socketId + 2
  /\ UNCHANGED <<responses, responsesList, currentId, wire, commands, idOf, said>>
Lost ==
  /\ link # "lost" /\ link' = "lost"
  /\ wire' = {}
  /\ UNCHANGED <<socketId, responses, responsesList, currentId, commands, idOf, said>>

(* executeService(): the outcome is awaited under the id that              *)
(* sendMessage() gives the command next.  The server takes commands only   *)
(* of who is authorized, and drops the others.                             *)
AwaitedId_Slip == socketId + 1
AwaitedId == socketId
ExecuteService(service, id) ==
  LET n == commands + 1 IN
  /\ n <= MaxCommands
  /\ commands' = n /\ idOf' = [idOf EXCEPT ![n] = socketId]
  /\ currentId' = id
  /\ responses' = IF service # "byId" THEN responses
                  ELSE [i \in DOMAIN responses \cup {AwaitedId} |->
                          IF i = AwaitedId THEN Entry(n) ELSE responses[i]]
  /\ responsesList' = IF service = "byEvent" THEN responsesList \cup {Entry(n)}
                                             ELSE responsesList
  /\ socketId' = socketId + 1
  /\ wire' = IF link # "authorized" THEN wire
             ELSE wire \cup {[type |-> "result", id |-> socketId]} \cup
                  (IF service = "assistant" THEN {[type |-> "intent-end", id |-> socketId]}
                                            ELSE {})
  /\ UNCHANGED <<link, said>>

(* The timeout of an entry passes; nothing happens before a message that   *)
(* fits it.                                                                *)
GrowOld ==
  /\ \/ \E i \in DOMAIN responses :
          /\ ~responses[i].late
          /\ responses' = [responses EXCEPT ![i].late = TRUE]
          /\ UNCHANGED responsesList
     \/ \E e \in responsesList :
          /\ ~e.late
          /\ responsesList' = (responsesList \ {e}) \cup {[e EXCEPT !.late = TRUE]}
          /\ UNCHANGED responses
  /\ UNCHANGED <<link, socketId, currentId, wire, commands, idOf, said>>

(* responseMatch(): the entry is done with, and is silent when it is late. *)
Announced(entries) ==
  {[command |-> e.command, to |-> currentId, last |-> commands,
    times |-> Cardinality({s \in said : s.command = e.command}) + 1] :
     e \in {x \in entries : ~x.late}}

(* A message with the id of a command, and one without.                    *)
Remaining(id) == DOMAIN responses \ {id}
ResultReceived(id) ==
  /\ [type |-> "result", id |-> id] \in wire
  /\ wire' = wire \ {[type |-> "result", id |-> id]}
  /\ said' = said \cup Announced({responses[i] : i \in DOMAIN responses \cap {id}})
  /\ responses' = [i \in Remaining(id) |-> responses[i]]
  /\ UNCHANGED <<link, socketId, responsesList, currentId, commands, idOf>>
IntentEnd(id) ==
  /\ [type |-> "intent-end", id |-> id] \in wire
  /\ wire' = wire \ {[type |-> "intent-end", id |-> id]}
  /\ said' = said \cup Announced({Entry(CHOOSE n \in 1..commands : idOf[n] = id)})
  /\ UNCHANGED <<link, socketId, responses, responsesList, currentId, commands, idOf>>
EventReceived ==
  /\ link = "authorized" /\ responsesList # {}
  /\ said' = said \cup Announced(responsesList)
  /\ responsesList' = {}
  /\ UNCHANGED <<link, socketId, responses, currentId, wire, commands, idOf>>

Next ==
  \/ AuthRequired \/ AuthOk \/ Lost
  \/ \E service \in Service, id \in {0, 1} : ExecuteService(service, id)
  \/ GrowOld
  \/ \E id \in 1..(MaxCommands + 2) : ResultReceived(id) \/ IntentEnd(id)
  \/ EventReceived

Spec == Init /\ [][Next]_hassVars

-----------------------------------------------------------------------------
(* An outcome is said once, only of a command whose answer did not go to   *)
(* another, and what is awaited by id is awaited under the id the command  *)
(* was sent with: ids are given while messages are under way and before    *)
(* the connection is authorized (hass.cpp:258-269, 284-287).               *)
SaidOnce == \A s \in said : s.times = 1
AwaitedAsSent == \A i \in DOMAIN responses : idOf[responses[i].command] = i
HassSound == SaidOnce /\ AwaitedAsSent

(* The outcome of a command is said to who gave it.  It does not hold:     *)
(* currentId is that of the last command when two are under way.           *)
SaidToLast == \A s \in said : s.last = s.command
=============================================================================
