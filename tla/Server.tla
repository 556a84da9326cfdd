------------------------------- MODULE Server -------------------------------
(***************************************************************************)
(* The session layer of the web server (Server/server.cpp): WebSocket      *)
(* clients connect and close, ask questions, and answer the questions the  *)
(* conversation logic asks them back.  All of it runs on the main thread,  *)
(* but a running question handler may block in a nested event loop, and    *)
(* every handler below may run inside that loop.                           *)
(*                                                                         *)
(* Message text is abstracted away; a conversation is its id.              *)
(***************************************************************************)
EXTENDS Naturals, Sequences, FiniteSets

CONSTANTS
  Socket,             (* the WebSocket clients that may connect              *)
  MaxConversationId,  (* kMaxConversationId: after it, ids start at 1 again  *)
  MaxTracked,         (* kMaxTrackedConversations                            *)
  MaxPending          (* bound on the questions waiting for the logic        *)

ASSUME ServerAssumption ==
  /\ MaxConversationId \in Nat \ {0}
  /\ MaxTracked \in Nat \ {0}
  /\ MaxPending \in Nat

VARIABLES
  sockets,               (* clients online                                   *)
  socketByConv,          (* conversation id -> the client that owns it       *)
  awaitingAnswer,        (* ids whose pushed question takes an answer        *)
  nextId,                (* the id the next request gets                     *)
  pendingConversations,  (* ids accepted and not yet given to the logic      *)
  handlingConversation,  (* a question was given to the logic                *)
  job,                   (* that question: its queued call, or its handler   *)
  frame,                 (* the last protocol step about a conversation      *)
  answered               (* history: by id, answers handed to the logic for  *)
                         (* the question pushed last (1 before the first)    *)

sessionVars == <<sockets, socketByConv, awaitingAnswer>>
queueVars   == <<pendingConversations, handlingConversation, job>>
serverVars  == <<sessionVars, nextId, queueVars, frame, answered>>

Id       == 1..MaxConversationId
NoJob    == [stage |-> "none", id |-> 0]
NoFrame  == [op |-> "none", id |-> 0]
Tracked  == DOMAIN socketByConv

-----------------------------------------------------------------------------
(* Slips of this code that the runs must notice are defined next to the    *)
(* definition they replace and named for it (..._Slip).                      *)

(* allocateId without the wrap-around.                                     *)
NextIdAfter_Slip(id) == id + 1

(* allocateId: the id handed out is nextId; this is what follows it.       *)
NextIdAfter(id) == IF id >= MaxConversationId THEN 1 ELSE id + 1

(* The first key of the ordered map, the one a full map gives up.          *)
FirstKey(map) == CHOOSE k \in DOMAIN map : \A j \in DOMAIN map : k <= j

Without(map, ids) == [c \in DOMAIN map \ ids |-> map[c]]
With(map, id, s)  == [c \in DOMAIN map \cup {id} |-> IF c = id THEN s ELSE map[c]]

(* The size test one too late.                                             *)
Evicted_Slip == IF Cardinality(Tracked) > MaxTracked
                THEN {FirstKey(socketByConv)} ELSE {}

(* The ids dropped to make room for one more conversation.                 *)
Evicted == IF Cardinality(Tracked) >= MaxTracked
           THEN {FirstKey(socketByConv)} ELSE {}

(* takeLast for takeFirst.                                                 *)
StartNext_Slip(waiting, handling) ==
  IF handling \/ waiting = <<>>
  THEN /\ pendingConversations' = waiting
       /\ handlingConversation' = handling
       /\ job' = IF handling THEN job ELSE NoJob
  ELSE /\ pendingConversations' = SubSeq(waiting, 1, Len(waiting) - 1)
       /\ handlingConversation' = TRUE
       /\ job' = [stage |-> "queued", id |-> waiting[Len(waiting)]]

(* startNextConversation: post the first waiting question to the event     *)
(* queue unless one is being handled.                                      *)
StartNext(waiting, handling) ==
  IF handling \/ waiting = <<>>
  THEN /\ pendingConversations' = waiting
       /\ handlingConversation' = handling
       /\ job' = IF handling THEN job ELSE NoJob
  ELSE /\ pendingConversations' = Tail(waiting)
       /\ handlingConversation' = TRUE
       /\ job' = [stage |-> "queued", id |-> Head(waiting)]

-----------------------------------------------------------------------------
Init ==
  /\ sockets = {}
  /\ socketByConv = [c \in {} |-> c]
  /\ awaitingAnswer = {}
  /\ nextId = 1
  /\ pendingConversations = <<>>
  /\ handlingConversation = FALSE
  /\ job = NoJob
  /\ frame = NoFrame
  /\ answered = [c \in Id |-> 1]

Connect(s) ==
  /\ s \notin sockets
  /\ sockets' = sockets \cup {s}
  /\ UNCHANGED <<socketByConv, awaitingAnswer, nextId, queueVars, frame, answered>>

(* A close that forgets the open questions of the client.                  *)
OnClosed_Slip(s) ==
  /\ s \in sockets
  /\ sockets' = sockets \ {s}
  /\ socketByConv' = Without(socketByConv, {c \in Tracked : socketByConv[c] = s})
  /\ UNCHANGED <<awaitingAnswer, nextId, queueVars, frame, answered>>

(* onClosed: disconnected and errorOccurred may both come; the second one  *)
(* finds the client gone and returns.                                      *)
OnClosed(s) ==
  /\ s \in sockets
  /\ sockets' = sockets \ {s}
  /\ LET owned == {c \in Tracked : socketByConv[c] = s}
     IN  /\ awaitingAnswer' = awaitingAnswer \ owned
         /\ socketByConv' = Without(socketByConv, owned)
  /\ UNCHANGED <<nextId, queueVars, frame, answered>>

(* onTextMessage, {"op":"conversation"} with a question that is not blank. *)
OnConversation(s) ==
  /\ s \in sockets
  /\ Len(pendingConversations) < MaxPending
  /\ nextId' = NextIdAfter(nextId)
  /\ awaitingAnswer' = awaitingAnswer \ Evicted
  /\ socketByConv' = With(Without(socketByConv, Evicted), nextId, s)
  /\ StartNext(Append(pendingConversations, nextId), handlingConversation)
  /\ frame' = [op |-> "accepted", id |-> nextId]
  /\ UNCHANGED <<sockets, answered>>

(* An answer that does not use up the question.                            *)
OnAnswer_Slip(s, id) ==
  /\ s \in sockets /\ id \in awaitingAnswer /\ id \in Tracked
  /\ socketByConv[id] = s
  /\ answered' = [answered EXCEPT ![id] = @ + 1]
  /\ frame' = [op |-> "answer", id |-> id]
  /\ UNCHANGED <<sessionVars, nextId, queueVars>>

(* The question used up before its owner is checked.                       *)
OnAnswer_EarlySlip(s, id) ==
  /\ s \in sockets /\ id \in awaitingAnswer /\ id \in Tracked
  /\ awaitingAnswer' = awaitingAnswer \ {id}
  /\ IF socketByConv[id] = s
     THEN /\ answered' = [answered EXCEPT ![id] = @ + 1]
          /\ frame' = [op |-> "answer", id |-> id]
     ELSE UNCHANGED <<answered, frame>>
  /\ UNCHANGED <<sockets, socketByConv, nextId, queueVars>>

(* onTextMessage, {"op":"answer"}: consumed only by the owner of a         *)
(* conversation that waits for it, then handed to the answer handler.      *)
OnAnswer(s, id) ==
  /\ s \in sockets
  /\ id \in awaitingAnswer
  /\ id \in Tracked
  /\ socketByConv[id] = s
  /\ awaitingAnswer' = awaitingAnswer \ {id}
  /\ answered' = [answered EXCEPT ![id] = @ + 1]
  /\ frame' = [op |-> "answer", id |-> id]
  /\ UNCHANGED <<sockets, socketByConv, nextId, queueVars>>

(* GET /intent: takes an id; no client is tracked for it, and its call     *)
(* does not go through the queue.                                          *)
OnIntent ==
  /\ nextId' = NextIdAfter(nextId)
  /\ UNCHANGED <<sessionVars, queueVars, frame, answered>>

(* The queued call starts: the question handler runs.                      *)
RunJob ==
  /\ job.stage = "queued"
  /\ job' = [job EXCEPT !.stage = "running"]
  /\ UNCHANGED <<sessionVars, nextId, pendingConversations,
                 handlingConversation, frame, answered>>

(* The handler returns and nothing starts the next waiting question.       *)
FinishJob_Slip ==
  /\ job.stage = "running"
  /\ handlingConversation' = FALSE
  /\ job' = NoJob
  /\ UNCHANGED <<sessionVars, nextId, pendingConversations, frame, answered>>

(* The question handler returns; the next waiting question is posted.      *)
FinishJob ==
  /\ job.stage = "running"
  /\ StartNext(pendingConversations, FALSE)
  /\ UNCHANGED <<sessionVars, nextId, frame, answered>>

(* pushQuestion: only the running conversation asks back.                  *)
PushQuestion ==
  /\ job.stage = "running"
  /\ job.id \in Tracked
  /\ awaitingAnswer' = awaitingAnswer \cup {job.id}
  /\ answered' = [answered EXCEPT ![job.id] = 0]
  /\ frame' = [op |-> "ask", id |-> job.id]
  /\ UNCHANGED <<sockets, socketByConv, nextId, queueVars>>

(* pushResponse: a reply of any conversation, late ones included, closes   *)
(* the question of that conversation.                                      *)
PushResponse(id) ==
  /\ awaitingAnswer' = awaitingAnswer \ {id}
  /\ frame' = [op |-> "response", id |-> id]
  /\ UNCHANGED <<sockets, socketByConv, nextId, queueVars, answered>>

Next ==
  \/ \E s \in Socket : Connect(s)
  \/ \E s \in Socket : OnClosed(s)
  \/ \E s \in Socket : OnConversation(s)
  \/ \E s \in Socket, id \in Id : OnAnswer(s, id)
  \/ OnIntent
  \/ RunJob
  \/ FinishJob
  \/ PushQuestion
  \/ \E id \in Id : PushResponse(id)

Spec == Init /\ [][Next]_serverVars

(* The event queue delivers the posted call, and the handler returns: each *)
(* wait inside a web conversation is bounded by a timer (Conversation).    *)
Fairness == WF_serverVars(RunJob) /\ WF_serverVars(FinishJob)
FairSpec == Spec /\ Fairness

-----------------------------------------------------------------------------
TypeOK ==
  /\ sockets \subseteq Socket
  /\ Tracked \subseteq Id
  /\ socketByConv \in [Tracked -> Socket]
  /\ awaitingAnswer \subseteq Id
  /\ nextId \in Id
  /\ pendingConversations \in Seq(Id)
  /\ handlingConversation \in BOOLEAN
  /\ job \in [stage : {"queued", "running"}, id : Id] \cup {NoJob}
  /\ frame \in [op : {"accepted", "ask", "answer", "response"}, id : Id]
               \cup {NoFrame}
  /\ answered \in [Id -> Nat]

(* No conversation outlives its client: what is tracked belongs to a       *)
(* client online, so nothing is sent through a deleted socket, and a       *)
(* question waits only where its answer may still come from.               *)
OwnersOnline ==
  /\ \A c \in Tracked : socketByConv[c] \in sockets
  /\ awaitingAnswer \subseteq Tracked

(* A pushed question is answered at most once, however often clients send  *)
(* answers, reconnect or are evicted, and an open one is not yet answered. *)
OneAnswerPerAsk ==
  \A c \in Id : /\ answered[c] <= 1
                /\ c \in awaitingAnswer => answered[c] = 0

(* The flag and the posted call agree, so a waiting question always has a  *)
(* call in front of it that will start it: none is stranded.               *)
NoneStranded ==
  /\ handlingConversation <=> job.stage # "none"
  /\ pendingConversations # <<>> => handlingConversation

(* The map of owners stays within kMaxTrackedConversations.                *)
TrackingBounded == Cardinality(Tracked) <= MaxTracked

(* An open question is not voided by the messages of other clients: it is  *)
(* closed by its answer, by a reply of its conversation, by its client     *)
(* leaving, or by eviction, never otherwise.                               *)
AskClosedByItsOwn ==
  [][\A c \in awaitingAnswer \ awaitingAnswer' :
        \/ frame' \in [op : {"answer", "response"}, id : {c}]
        \/ socketByConv[c] \notin sockets'
        \/ c \in Evicted /\ frame'.op = "accepted"]_serverVars

(* Every accepted question reaches the conversation logic.                 *)
AcceptedIsServed ==
  \A c \in Id :
    (\E i \in DOMAIN pendingConversations : pendingConversations[i] = c)
      ~> (job.stage = "running" /\ job.id = c)

(* The queued call and the waiting list are one serial queue: the server   *)
(* implements SerialQueue, its posted but unstarted call still waiting.    *)
Queue == INSTANCE SerialQueue WITH
  Conv    <- Id,
  waiting <- IF job.stage = "queued"
             THEN <<job.id>> \o pendingConversations
             ELSE pendingConversations,
  running <- IF job.stage = "running" THEN job.id ELSE 0

(* Questions reach the logic one at a time and in their order of arrival.  *)
ServesInOrder == Queue!Spec
=============================================================================
