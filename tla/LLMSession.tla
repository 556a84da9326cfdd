----------------------------- MODULE LLMSession -----------------------------
(***************************************************************************)
(* One question-and-answer session with a language model                   *)
(* (Utils/LLM/LLMSession.cpp) over the HTTP backend                        *)
(* (OpenAICompatibleBackend.cpp), as the Chat plugin uses it.              *)
(*                                                                         *)
(* A question posts a request; the reply is text or tool calls; the calls  *)
(* are run one after the other and their results posted as the next        *)
(* request, for a limited number of rounds.  A tool may wait in an event   *)
(* loop, in which the user asks again or interrupts, and other replies     *)
(* arrive: tool loops nest, and the outer one goes on afterwards.          *)
(*                                                                         *)
(* Questions are numbered, and a run is known by its question: currentId   *)
(* is a fresh UUID for each ask().  Of a text only matters whether it is   *)
(* empty, and in Chat which questions it replies to.  The definitions      *)
(* named ..._Slip are defects the runs must notice; no action uses them.   *)
(***************************************************************************)
EXTENDS Naturals, Sequences, FiniteSets

CONSTANTS
  MaxToolRounds,    (* maxToolRounds                                         *)
  HistoryLimit,     (* historyLimit, in messages; 0 is none                  *)
  MaxCalls,         (* bound on the tool calls of one reply                  *)
  MaxAsks           (* bound on the questions ever asked                     *)

ASSUME LLMSessionAssumption ==
  /\ MaxToolRounds \in Nat \ {0} /\ HistoryLimit \in Nat
  /\ MaxCalls \in Nat \ {0} /\ MaxAsks \in Nat

VARIABLES
  history,          (* the messages, oldest first                            *)
  currentId,        (* the run whose callbacks count; 0 is the empty id      *)
  busy,
  currentText,      (* text of this round has arrived                        *)
  pendingToolCalls, (* number of tool calls received                         *)
  toolRoundsUsed,
  states,           (* the backend's requests in flight                      *)
  loops,            (* tool loops in progress, innermost last: calls left    *)
  output,           (* Chat: questions whose replies' text waits for its     *)
                    (* sentence to be complete                               *)
  asked,            (* history: number of questions asked                    *)
  stopped,          (* history: the last question the user interrupted       *)
  posted,           (* history: requests posted since the last question      *)
  nested            (* history: a question or a reset came in a tool loop    *)

runVars   == <<currentId, busy, currentText, pendingToolCalls, toolRoundsUsed>>
ghostVars == <<asked, stopped, posted, nested>>
llmVars   == <<history, runVars, states, loops, output, ghostVars>>

(* A message, with the number of the question it asks or of the tool calls *)
(* it makes.                                                               *)
Message == [role : {"user"}, n : 1..MaxAsks]
           \cup [role : {"calls"}, n : 1..MaxCalls]
           \cup [role : {"assistant", "tool"}, n : {0}]
Say(role, n) == [role |-> role, n |-> n]

(* A request: the run that posted it, the question asked last by then, and *)
(* whether its messages have a result for every tool call they make.       *)
Request == [run : 1..MaxAsks, about : 1..MaxAsks, complete : BOOLEAN]

-----------------------------------------------------------------------------
CallsHaveResultsIn(messages) ==
  \A i \in DOMAIN messages : messages[i].role = "calls" =>
    \A k \in 1..messages[i].n :
      i + k \in DOMAIN messages /\ messages[i + k].role = "tool"

(* The check that drops the callbacks of a run that was replaced or        *)
(* aborted.                                                                *)
Live_Slip(request) == TRUE
Live(request) == currentId # 0 /\ request.run = currentId

Others(i) == SubSeq(states, 1, i - 1) \o SubSeq(states, i + 1, Len(states))

(* step(): the history is posted under the current id.  The backend        *)
(* refuses an empty id and calls back with an error nobody listens to.     *)
Step(messages, id, inFlight, question) ==
  /\ history' = messages
  /\ pendingToolCalls' = 0
  /\ currentId' = id
  /\ states' = IF id = 0 THEN inFlight
               ELSE Append(inFlight, [run |-> id, about |-> question,
                                      complete |-> CallsHaveResultsIn(messages)])

(* What ask() leaves in flight.  A busy session aborts everything.         *)
Kept == IF busy THEN <<>> ELSE states

(* ask().                                                                  *)
Ask(messages, inFlight) ==
  /\ asked < MaxAsks
  /\ asked' = asked + 1
  /\ Step(Append(messages, Say("user", asked + 1)), asked + 1, inFlight,
          asked + 1)
  /\ busy' = TRUE
  /\ currentText' = FALSE
  /\ toolRoundsUsed' = 0
  /\ posted' = 1
  /\ nested' = (nested \/ loops # <<>>)
  /\ UNCHANGED loops

(* abort(): clears the id first, so that no callback of the run counts.    *)
AbortedId_Slip == currentId
AbortedId == 0
Remaining == IF currentId = 0 THEN states ELSE <<>>

Stop == output' = {} /\ stopped' = asked

-----------------------------------------------------------------------------
Init ==
  /\ history = <<>> /\ currentId = 0 /\ busy = FALSE
  /\ currentText = FALSE /\ pendingToolCalls = 0 /\ toolRoundsUsed = 0
  /\ states = <<>> /\ loops = <<>> /\ output = {}
  /\ asked = 0 /\ stopped = 0 /\ posted = 0 /\ nested = FALSE

-----------------------------------------------------------------------------
(* Chat.                                                                   *)

(* recvMessage("chat"): another plugin hands a question over.              *)
RecvChat ==
  /\ Ask(history, Kept)
  /\ UNCHANGED <<output, stopped>>

(* handle() in chat mode: the user speaks, which interrupts the reply, and *)
(* asks the next question.                                                 *)
Handle ==
  /\ Ask(history, IF busy THEN <<>> ELSE Remaining)
  /\ Stop

(* recvMessage("quit").                                                    *)
Quit ==
  /\ Stop
  /\ currentId' = AbortedId
  /\ busy' = (busy /\ currentId = 0)
  /\ states' = Remaining
  /\ UNCHANGED <<history, currentText, pendingToolCalls, toolRoundsUsed, loops,
                 asked, posted, nested>>

(* handle() of the closing words: reset(), after an abort() if Chat is the  *)
(* immersive plugin.                                                       *)
Close(immersive) ==
  /\ IF immersive THEN Stop /\ states' = Remaining
     ELSE UNCHANGED <<output, stopped, states>>
  /\ currentId' = 0 /\ busy' = FALSE
  /\ currentText' = FALSE /\ pendingToolCalls' = 0 /\ toolRoundsUsed' = 0
  /\ history' = <<>>
  /\ nested' = (nested \/ loops # <<>>)
  /\ UNCHANGED <<loops, asked, posted>>

-----------------------------------------------------------------------------
(* The reply i.                                                            *)

(* A piece of text.  feedSpeech speaks the first complete sentence.        *)
Delta(i) ==
  /\ Live(states[i])
  /\ currentText' = TRUE
  /\ output' \in SUBSET (output \cup {states[i].about})
  /\ UNCHANGED <<history, currentId, busy, pendingToolCalls, toolRoundsUsed, states,
                 loops, ghostVars>>

(* The end of a reply whose run was replaced or aborted is ignored.        *)
StaleReply(i) ==
  /\ ~Live(states[i])
  /\ states' = Others(i)
  /\ UNCHANGED <<history, runVars, loops, output, ghostVars>>

(* An error: the run is over, and Chat gives up the sentence.              *)
RunFails(i) ==
  /\ Live(states[i])
  /\ states' = Others(i)
  /\ busy' = FALSE
  /\ output' = {}
  /\ UNCHANGED <<history, currentId, currentText, pendingToolCalls,
                 toolRoundsUsed, loops, ghostVars>>

Received(n) == IF n = 0 THEN pendingToolCalls ELSE n

LimitReached_Slip == toolRoundsUsed > MaxToolRounds
LimitReached == toolRoundsUsed >= MaxToolRounds

(* A reply with tool calls after the last round.                           *)
TooManyRounds(i) ==
  /\ Live(states[i])
  /\ LimitReached
  /\ \E n \in 0..MaxCalls :
       Received(n) > 0 /\ pendingToolCalls' = Received(n)
  /\ states' = Others(i)
  /\ busy' = FALSE
  /\ output' = {}
  /\ UNCHANGED <<history, currentId, currentText, toolRoundsUsed, loops, ghostVars>>

(* A reply with tool calls: runToolCalls puts them into the history and    *)
(* starts the first one.                                                   *)
RunToolCalls(i) ==
  /\ Live(states[i])
  /\ ~LimitReached
  /\ \E n \in 0..MaxCalls :
       LET calls == Received(n)
       IN  /\ calls > 0
           /\ pendingToolCalls' = calls
           /\ loops' = Append(loops, calls)
           /\ history' = history
                \o (IF currentText THEN <<Say("assistant", 0)>> ELSE <<>>)
                \o <<Say("calls", calls)>>
  /\ states' = Others(i)
  /\ toolRoundsUsed' = toolRoundsUsed + 1
  /\ currentText' = FALSE
  /\ UNCHANGED <<currentId, busy, output, ghostVars>>

(* trimHistory gives up the oldest messages, all of them taken for equally *)
(* long.                                                                   *)
Trimmed(messages) ==
  IF HistoryLimit = 0 \/ Len(messages) <= HistoryLimit THEN messages
  ELSE SubSeq(messages, Len(messages) - HistoryLimit + 1, Len(messages))

Idle_Slip == UNCHANGED busy
Idle == busy' = FALSE

(* A reply without tool calls ends the run, whether it has text or not.    *)
RunEnds(i) ==
  /\ Live(states[i])
  /\ pendingToolCalls = 0
  /\ states' = Others(i)
  /\ IF currentText
     THEN history' = Trimmed(Append(history, Say("assistant", 0)))
     ELSE UNCHANGED history
  /\ Idle
  /\ currentText' = FALSE
  /\ output' = {}
  /\ UNCHANGED <<currentId, pendingToolCalls, toolRoundsUsed, loops, ghostVars>>

(* The history without the result of a tool that failed.                   *)
WithResult_Slip == IF loops[Len(loops)] > 1
                   THEN Append(history, Say("tool", 0)) ELSE history

(* Every call, also one that fails or is unknown, has its result.          *)
WithResult == Append(history, Say("tool", 0))

(* step() inside the loop over the calls.                                  *)
ToolReturns_Slip ==
  /\ loops # <<>>
  /\ LET calls == loops[Len(loops)]
         outer == SubSeq(loops, 1, Len(loops) - 1)
     IN  loops' = IF calls > 1 THEN Append(outer, calls - 1) ELSE outer
  /\ Step(WithResult, currentId, states, asked)
  /\ posted' = posted + 1
  /\ UNCHANGED <<busy, currentText, toolRoundsUsed, output, asked, stopped, nested>>

(* The innermost tool returns; the next call runs, or the results are      *)
(* posted under the id that is current now.                                *)
ToolReturns ==
  /\ loops # <<>>
  /\ LET calls == loops[Len(loops)]
         outer == SubSeq(loops, 1, Len(loops) - 1)
     IN  IF calls > 1
         THEN /\ loops' = Append(outer, calls - 1)
              /\ history' = WithResult
              /\ UNCHANGED <<currentId, pendingToolCalls, states, posted>>
         ELSE /\ loops' = outer
              /\ Step(WithResult, currentId, states, asked)
              /\ posted' = posted + 1
  /\ UNCHANGED <<busy, currentText, toolRoundsUsed, output, asked, stopped, nested>>

Next ==
  \/ RecvChat \/ Handle \/ Quit
  \/ \E immersive \in BOOLEAN : Close(immersive)
  \/ \E i \in DOMAIN states :
       \/ Delta(i) \/ StaleReply(i) \/ RunFails(i)
       \/ TooManyRounds(i) \/ RunToolCalls(i) \/ RunEnds(i)
  \/ ToolReturns

Spec == Init /\ [][Next]_llmVars

-----------------------------------------------------------------------------
TypeOK ==
  /\ history \in Seq(Message)
  /\ currentId \in 0..MaxAsks
  /\ {busy, currentText, nested} \subseteq BOOLEAN
  /\ pendingToolCalls \in 0..MaxCalls
  /\ toolRoundsUsed \in 0..MaxToolRounds
  /\ states \in Seq(Request)
  /\ loops \in Seq(1..MaxCalls)
  /\ output \subseteq 1..MaxAsks
  /\ asked \in 0..MaxAsks /\ stopped \in 0..MaxAsks
  /\ posted \in Nat

LiveRequests == {i \in DOMAIN states : Live(states[i])}

(* A question invalidates the callbacks of the run before, so that two     *)
(* replies do not get mixed up (comment in LLMSession::ask): the answers   *)
(* of at most one request count at a time.                                 *)
RepliesDoNotMix == Cardinality(LiveRequests) <= 1

(* Replies do not mix, and one that counts comes only while the session is *)
(* busy with it, if no tool call waits while a question is asked or the    *)
(* history is reset.  If one does, the tool loop posts its results under   *)
(* the id of the new question, see README.                                 *)
OneReplyAtATime == ~nested => RepliesDoNotMix /\ (LiveRequests # {} => busy)

(* LLMSession.cpp:150: the session is never busy for ever.  Whenever it is *)
(* busy, a reply that counts is on its way or a tool is running.           *)
BusyIsServed == busy => LiveRequests # {} \/ loops # <<>>

(* A reply the user interrupted is never spoken, however late its text     *)
(* arrives and whatever its tools still do.                                *)
StoppedStaysSilent == \A q \in output : q > stopped

(* What is spoken replies to the question asked last, never to one that    *)
(* was replaced.                                                           *)
RepliesToLatest == [][output' \ output \subseteq {asked}]_llmVars

(* Chat services refuse tool calls without results: every posted request   *)
(* has them, whatever was aborted, failed or trimmed before.               *)
CallsHaveResults == ~nested => \A i \in DOMAIN states : states[i].complete

(* setMaxToolRounds: the model cannot call tools without end, a question   *)
(* costs at most that many requests and one.                               *)
RoundsBounded == ~nested => posted <= MaxToolRounds + 1
=============================================================================
