---------------------------- MODULE Conversation ----------------------------
(***************************************************************************)
(* The dialogue logic of Conversation/conversation.cpp on the main thread. *)
(*                                                                         *)
(* Plugins run synchronously, and question() blocks in two event loops,    *)
(* ttsEventLoop while the prompt is spoken and eventLoop while the answer  *)
(* is awaited.  Both loops dispatch every other event of the main thread,  *)
(* so handlers nest: the calls in progress form a stack, an event runs on  *)
(* top of a blocked call, and a call goes on only when it is the top one   *)
(* and its loop was told to quit.                                          *)
(*                                                                         *)
(* Texts are abstracted to the question they answer.  The definitions      *)
(* named ..._Slip and ..._Lost are defects the runs must notice; no action  *)
(* uses them.                                                              *)
(***************************************************************************)
EXTENDS Naturals, Sequences, FiniteSets

CONSTANTS
  WebConv,      (* ids of WebSocket conversations, which can be asked back   *)
  HttpConv,     (* ids of GET /intent requests, which cannot                 *)
  Speaker,      (* what the microphone delivers: a subset of SpeakerKinds    *)
  MaxDepth,     (* bound on calls nested in one another                      *)
  MaxQuestions, (* bound on the questions ever asked                         *)
  MaxJobs       (* bound on the utterances queued for the recogniser         *)

(* Spoken commands, wake words that are commands, and both at once.        *)
SpeakerKinds == {"command", "intent", "impatient"}

ASSUME ConversationAssumption ==
  /\ WebConv \subseteq Nat \ {0}
  /\ HttpConv \subseteq Nat \ {0}
  /\ WebConv \cap HttpConv = {}
  /\ Speaker \subseteq SpeakerKinds
  /\ MaxDepth \in Nat /\ MaxQuestions \in Nat /\ MaxJobs \in Nat

VARIABLES
  stack,              (* calls of the logic in progress, innermost last      *)
  externalId,         (* the request being served; 0 is the microphone       *)
  externalCanAnswer,  (* that request can be asked back                      *)
  askId,              (* the request whose answer is awaited; 0 is none      *)
  askAnswered,        (* the question asked last has its answer              *)
  askAnswer,          (* that answer, as askExternal() reads it              *)
  resultCache,        (* that answer, as question() reads it                 *)
  isResponse,         (* what is recognised next is an answer                *)
  eventLoop,          (* the loop question() waits in                        *)
  ttsEventLoop,       (* the loop say(block) waits in                        *)
  askTimer,           (* externalAskTimer is running                         *)
  mic,                (* the wake-up chain: Wakeup's promise to this module  *)
  micQuestion,        (* history: the question the answer window was opened for *)
  asrJobs,            (* utterances the recogniser has not reported yet      *)
  fresh,              (* requests still to come                              *)
  online,             (* WebSocket conversations whose client is there       *)
  open,               (* the server's awaitingAnswer                         *)
  shown,              (* questions a web client still displays               *)
  round,              (* history: how many questions were asked              *)
  result              (* history: what the last question() returned          *)

callVars   == <<stack, externalId, externalCanAnswer, fresh>>
answerVars == <<askId, askAnswered, askAnswer, resultCache>>
loopVars   == <<eventLoop, ttsEventLoop, askTimer>>
voiceVars  == <<isResponse, mic, micQuestion, asrJobs>>
webVars    == <<online, open, shown>>
ghostVars  == <<round, result>>
conversationVars == <<callVars, answerVars, loopVars, voiceVars, webVars, ghostVars>>

Conv      == WebConv \cup HttpConv
Question  == 1..MaxQuestions
NoAnswer  == [by |-> "none", to |-> 0]
Answer    == [by : {"voice", "web"}, to : Question \cup {0}] \cup {NoAnswer}
Origin    == {"command", "intent", "web", "http"}
External  == {"web", "http"}

(* Where a call stands.  It runs plugin code; it has entered question();   *)
(* it waits for the prompt; the prompt is over; it waits for the answer;   *)
(* the wait is over; or the plugin waits in a loop of its own, such as the *)
(* one around an HTTP request.                                             *)
Blocked == {"saying", "waiting", "busy"}
Points  == {"plugin", "asked", "said", "heard"} \cup Blocked
Frame   == [origin : Origin, id : Conv \cup {0}, savedId : Conv \cup {0},
            savedCanAnswer : BOOLEAN, at : Points, ext : BOOLEAN,
            question : Question \cup {0}]

-----------------------------------------------------------------------------
Depth     == Len(stack)
Top       == stack[Depth]
Running(points) == stack # <<>> /\ Top.at \in points

(* Events are dispatched by the idle main loop or by a blocked call.       *)
Dispatching == stack # <<>> => Top.at \in Blocked

Goto(point) == stack' = [stack EXCEPT ![Depth].at = point]

Call(origin, id) ==
  stack' = Append(stack,
    [origin |-> origin, id |-> id, savedId |-> externalId,
     savedCanAnswer |-> externalCanAnswer, at |-> "plugin", ext |-> FALSE,
     question |-> 0])

Return == stack' = SubSeq(stack, 1, Depth - 1)

(* QEventLoop: quit() reaches a loop that is executing and is lost         *)
(* otherwise; exec() of a loop already executing returns at once.          *)
Quit(loop) == IF loop = "idle" THEN "idle" ELSE "quit"

Finish_Slip == UNCHANGED mic

(* Conversation::finish -> Wakeup::resume.                                 *)
Finish == mic' = "listening"

DeliverAnswer_Slip(answer) ==
  /\ askAnswered' = TRUE
  /\ askAnswer' = answer
  /\ resultCache' = answer
  /\ eventLoop' = Quit(eventLoop)

(* The wait is not told that the answer is there.                          *)
DeliverAnswer_Lost(answer) ==
  /\ askAnswered' = TRUE
  /\ askAnswer' = answer
  /\ resultCache' = answer
  /\ UNCHANGED eventLoop

(* canAsk: the microphone always, a request only if it can answer.         *)
CanAsk_Slip == TRUE
CanAsk == externalId = 0 \/ externalCanAnswer

(* intentRequest puts back what it saved.                                  *)
Restore_Slip == externalId' = 0 /\ externalCanAnswer' = FALSE
Restore == externalId' = Top.savedId /\ externalCanAnswer' = Top.savedCanAnswer

(* A request's question has a time limit.                                  *)
StartAskTimer_Slip == UNCHANGED askTimer
StartAskTimer == askTimer' = (askTimer \/ Top.ext)

(* The answer of a request's question is taken; later ones are late.       *)
CloseAsk_Slip == askAnswer' = NoAnswer /\ UNCHANGED askId
CloseAsk == askAnswer' = NoAnswer /\ askId' = 0

(* deliverAnswer: the first answer wins and ends the wait.                 *)
DeliverAnswer(answer) ==
  IF askAnswered
  THEN UNCHANGED <<askAnswered, askAnswer, resultCache, eventLoop>>
  ELSE /\ askAnswered' = TRUE
       /\ askAnswer' = answer
       /\ resultCache' = answer
       /\ eventLoop' = Quit(eventLoop)

-----------------------------------------------------------------------------
Init ==
  /\ stack = <<>> /\ externalId = 0 /\ externalCanAnswer = FALSE
  /\ askId = 0 /\ askAnswered = FALSE
  /\ askAnswer = NoAnswer /\ resultCache = NoAnswer
  /\ eventLoop = "idle" /\ ttsEventLoop = "idle" /\ askTimer = FALSE
  /\ isResponse = FALSE /\ mic = "listening" /\ micQuestion = 0
  /\ asrJobs = <<>>
  /\ fresh = Conv /\ online = WebConv /\ open = {} /\ shown = {}
  /\ round = 0
  /\ result = [question |-> 0, answer |-> NoAnswer]

-----------------------------------------------------------------------------
(* Calls into the plugins.                                                 *)

(* intentRequest: the request is made current for the plugin it runs.  The *)
(* server hands over one WebSocket conversation at a time (Server,         *)
(* ServesInOrder), and each id once.                                       *)
IntentRequest(id) ==
  /\ Dispatching /\ Depth < MaxDepth
  /\ id \in fresh
  /\ id \in WebConv => \A i \in 1..Depth : stack[i].origin # "web"
  /\ fresh' = fresh \ {id}
  /\ Call(IF id \in WebConv THEN "web" ELSE "http", id)
  /\ externalId' = id
  /\ externalCanAnswer' = (id \in WebConv)
  /\ UNCHANGED <<answerVars, loopVars, voiceVars, webVars, ghostVars>>

(* A speaker who is not impatient says nothing while what was said before, *)
(* in the other way, is not done with.                                     *)
MayTalk(underWay) == "impatient" \in Speaker \/ ~underWay

(* Wakeup::detectedIntent -> handlePlugin: a wake word that is a command.  *)
WakeIntent ==
  /\ Dispatching /\ Depth < MaxDepth
  /\ "intent" \in Speaker /\ mic = "listening" /\ MayTalk(asrJobs # <<>>)
  /\ Call("intent", 0)
  /\ UNCHANGED <<externalId, externalCanAnswer, fresh, answerVars, loopVars,
                 voiceVars, webVars, ghostVars>>

(* The plugin returns.  intentRequest restores what it saved; a command    *)
(* from the microphone ends with finish().                                 *)
PluginReturns ==
  /\ Running({"plugin"})
  /\ Return
  /\ IF Top.origin \in External
     THEN Restore
     ELSE UNCHANGED <<externalId, externalCanAnswer>>
  /\ UNCHANGED fresh
  /\ IF Top.origin = "command" THEN Finish ELSE UNCHANGED mic
  /\ UNCHANGED <<answerVars, loopVars, isResponse, micQuestion, asrJobs,
                 webVars, ghostVars>>

(* A plugin waits for the network, or parseIntent for its service, in an   *)
(* event loop of its own, and goes on.                                     *)
PluginWaits ==
  /\ Running({"plugin"})
  /\ Goto("busy")
  /\ UNCHANGED <<externalId, externalCanAnswer, fresh, answerVars, loopVars,
                 voiceVars, webVars, ghostVars>>

PluginResumes ==
  /\ Running({"busy"})
  /\ Goto("plugin")
  /\ UNCHANGED <<externalId, externalCanAnswer, fresh, answerVars, loopVars,
                 voiceVars, webVars, ghostVars>>

(* say(text, id) of a request, at once or by a late asynchronous plugin:   *)
(* the server closes the question of that conversation (pushResponse).     *)
Reply(id) ==
  /\ id \in open
  /\ open' = open \ {id}
  /\ UNCHANGED <<callVars, answerVars, loopVars, voiceVars, online, shown, ghostVars>>

-----------------------------------------------------------------------------
(* question() and askExternal().                                           *)

(* A request that cannot be asked back gets the question as a reply, and   *)
(* the plugin an empty answer.                                             *)
AskRefused ==
  /\ Running({"plugin"}) /\ round < MaxQuestions
  /\ externalId # 0 /\ ~CanAsk
  /\ open' = open \ {externalId}
  /\ round' = round + 1
  /\ result' = [question |-> round + 1, answer |-> NoAnswer]
  /\ UNCHANGED <<callVars, answerVars, loopVars, voiceVars, online, shown>>

EnterQuestion(ext) ==
  /\ round' = round + 1
  /\ stack' = [stack EXCEPT ![Depth].at = "asked", ![Depth].ext = ext,
                            ![Depth].question = round + 1]
  /\ UNCHANGED <<externalId, externalCanAnswer, fresh, resultCache, loopVars,
                 voiceVars, result>>

(* askExternal up to requestQuestion: pushQuestion opens the conversation  *)
(* for an answer.                                                          *)
AskExternal ==
  /\ Running({"plugin"}) /\ round < MaxQuestions
  /\ externalId # 0 /\ CanAsk
  /\ EnterQuestion(TRUE)
  /\ askId' = externalId
  /\ askAnswered' = FALSE
  /\ askAnswer' = NoAnswer
  /\ IF externalId \in online
     THEN /\ open' = open \cup {externalId}
          /\ shown' = shown \cup {[id |-> externalId, question |-> round + 1]}
     ELSE UNCHANGED <<open, shown>>
  /\ UNCHANGED online

AskLocal ==
  /\ Running({"plugin"}) /\ round < MaxQuestions
  /\ externalId = 0
  /\ EnterQuestion(FALSE)
  /\ UNCHANGED <<askId, askAnswered, askAnswer, webVars>>

(* The prompt waits in the loop of the answer.                             *)
SayPrompt_Slip ==
  /\ Running({"asked"})
  /\ IF eventLoop = "idle"
     THEN eventLoop' = "exec" /\ Goto("saying")
     ELSE Goto("said") /\ UNCHANGED eventLoop
  /\ UNCHANGED <<externalId, externalCanAnswer, fresh, answerVars, ttsEventLoop, askTimer,
                 voiceVars, webVars, ghostVars>>

(* say(question, 0, true): wait for the prompt in ttsEventLoop.            *)
SayPrompt ==
  /\ Running({"asked"})
  /\ IF ttsEventLoop = "idle"
     THEN ttsEventLoop' = "exec" /\ Goto("saying")
     ELSE Goto("said") /\ UNCHANGED ttsEventLoop
  /\ UNCHANGED <<externalId, externalCanAnswer, fresh, answerVars, eventLoop, askTimer,
                 voiceVars, webVars, ghostVars>>

PromptOver ==
  /\ Running({"saying"}) /\ ttsEventLoop = "quit"
  /\ ttsEventLoop' = "idle"
  /\ Goto("said")
  /\ UNCHANGED <<externalId, externalCanAnswer, fresh, answerVars, eventLoop, askTimer,
                 voiceVars, webVars, ghostVars>>

(* requestResponse opens the answer window; then wait in eventLoop, with a *)
(* timer if a request waits.  A request already answered skips both.       *)
AwaitAnswer ==
  /\ Running({"said"}) /\ ~(Top.ext /\ askAnswered)
  /\ mic' = "window"
  /\ micQuestion' = Top.question
  /\ StartAskTimer
  /\ IF eventLoop = "idle"
     THEN eventLoop' = "exec" /\ Goto("waiting")
     ELSE Goto("heard") /\ UNCHANGED eventLoop
  /\ UNCHANGED <<externalId, externalCanAnswer, fresh, answerVars, ttsEventLoop,
                 isResponse, asrJobs, webVars, ghostVars>>

WaitOver ==
  /\ Running({"waiting"}) /\ eventLoop = "quit"
  /\ eventLoop' = "idle"
  /\ Goto("heard")
  /\ UNCHANGED <<externalId, externalCanAnswer, fresh, answerVars, ttsEventLoop,
                 askTimer, voiceVars, webVars, ghostVars>>

(* question() returns to the plugin.                                       *)
ReturnAnswer(answer) ==
  /\ result' = [question |-> Top.question, answer |-> answer]
  /\ stack' = [stack EXCEPT ![Depth].at = "plugin", ![Depth].ext = FALSE,
                            ![Depth].question = 0]
  /\ resultCache' = NoAnswer
  /\ UNCHANGED <<externalId, externalCanAnswer, fresh, askAnswered, eventLoop,
                 ttsEventLoop, micQuestion, asrJobs, webVars, round>>

AnswerLocal ==
  /\ Running({"heard"}) /\ ~Top.ext
  /\ isResponse' = FALSE
  /\ Finish
  /\ ReturnAnswer(resultCache)
  /\ UNCHANGED <<askId, askAnswer, askTimer>>

AnswerExternal ==
  /\ Running({"heard", "said"}) /\ Top.ext
  /\ IF Top.at = "heard"
     THEN askTimer' = FALSE /\ isResponse' = FALSE /\ Finish
     ELSE askAnswered /\ UNCHANGED <<askTimer, isResponse, mic>>
  /\ ReturnAnswer(askAnswer)
  /\ CloseAsk

-----------------------------------------------------------------------------
(* Events.                                                                 *)

(* Player::playEnd of the last clip of the prompt, or the guard timer a    *)
(* request's prompt has, ends the wait for the prompt.                     *)
PlayEnd ==
  /\ Dispatching /\ ttsEventLoop = "exec"
  /\ ttsEventLoop' = "quit"
  /\ UNCHANGED <<callVars, answerVars, eventLoop, askTimer, voiceVars, webVars,
                 ghostVars>>

GuardTimeout ==
  /\ Dispatching /\ ttsEventLoop = "exec"
  /\ \E i \in 1..Depth : stack[i].at = "saying" /\ stack[i].ext
  /\ ttsEventLoop' = "quit"
  /\ UNCHANGED <<callVars, answerVars, eventLoop, askTimer, voiceVars, webVars,
                 ghostVars>>

AskTimeout ==
  /\ Dispatching /\ askTimer
  /\ askTimer' = FALSE
  /\ eventLoop' = Quit(eventLoop)
  /\ UNCHANGED <<callVars, answerVars, ttsEventLoop, voiceVars, webVars,
                 ghostVars>>

Utterance(kind, words) ==
  /\ Len(asrJobs) < MaxJobs
  /\ asrJobs' = Append(asrJobs,
       [kind |-> kind, to |-> IF kind = "answer" THEN micQuestion ELSE 0,
        words |-> words])
  /\ mic' = "closed"

(* Wakeup::detected(false) -> dialog: a spoken command goes to the         *)
(* recogniser, and the microphone rests until finish().                    *)
Dialog ==
  /\ Dispatching /\ "command" \in Speaker /\ mic = "listening"
  /\ MayTalk(\E i \in 1..Depth : stack[i].origin = "intent")
  /\ isResponse' = FALSE
  /\ \E words \in BOOLEAN : Utterance("command", words)
  /\ UNCHANGED <<callVars, answerVars, loopVars, micQuestion, webVars, ghostVars>>

(* Wakeup::finishResponse -> onResponse: the answer window ends.           *)
OnResponse ==
  /\ Dispatching /\ mic = "window"
  /\ isResponse' = TRUE
  /\ \E words \in BOOLEAN : Utterance("answer", words)
  /\ UNCHANGED <<callVars, answerVars, loopVars, micQuestion, webVars, ghostVars>>

Heard(job) == IF job.words THEN [by |-> "voice", to |-> job.to] ELSE NoAnswer

(* ASRModel::recognized in answer mode: the text is the answer.            *)
RecognizedAnswer ==
  /\ Dispatching /\ asrJobs # <<>> /\ isResponse
  /\ asrJobs' = Tail(asrJobs)
  /\ DeliverAnswer(Heard(Head(asrJobs)))
  /\ UNCHANGED <<callVars, askId, ttsEventLoop, askTimer, isResponse, mic,
                 micQuestion, webVars, ghostVars>>

(* ASRModel::recognized otherwise: the text is a command for the plugins,  *)
(* and an empty one ends the dialogue.                                     *)
RecognizedCommand ==
  /\ Dispatching /\ asrJobs # <<>> /\ ~isResponse
  /\ asrJobs' = Tail(asrJobs)
  /\ IF Head(asrJobs).words
     THEN Depth < MaxDepth /\ Call("command", 0) /\ UNCHANGED mic
     ELSE Finish /\ UNCHANGED stack
  /\ UNCHANGED <<externalId, externalCanAnswer, fresh, answerVars, loopVars,
                 isResponse, micQuestion, webVars, ghostVars>>

(* A client answers a question it displays.  The server forwards it while  *)
(* the conversation is open; onExternalAnswer takes it only for askId.     *)
OnExternalAnswer(ask) ==
  /\ Dispatching
  /\ shown' = shown \ {ask}
  /\ open' = open \ {ask.id}
  /\ IF ask.id \in open /\ askId # 0 /\ ask.id = askId
     THEN DeliverAnswer([by |-> "web", to |-> ask.question])
     ELSE UNCHANGED <<askAnswered, askAnswer, resultCache, eventLoop>>
  /\ UNCHANGED <<callVars, askId, ttsEventLoop, askTimer, voiceVars, online,
                 ghostVars>>

(* The client of a conversation leaves (Server::onClosed).                 *)
ClientLeaves(id) ==
  /\ Dispatching
  /\ id \in online
  /\ online' = online \ {id}
  /\ open' = open \ {id}
  /\ shown' = {ask \in shown : ask.id # id}
  /\ UNCHANGED <<callVars, answerVars, loopVars, voiceVars, ghostVars>>

-----------------------------------------------------------------------------
Step ==
  \/ PluginReturns \/ PluginWaits \/ PluginResumes
  \/ AskRefused \/ AskExternal \/ AskLocal
  \/ SayPrompt \/ PromptOver \/ AwaitAnswer \/ WaitOver
  \/ AnswerLocal \/ AnswerExternal

Event ==
  \/ \E id \in Conv : IntentRequest(id)
  \/ \E id \in Conv : Reply(id)
  \/ WakeIntent
  \/ PlayEnd \/ GuardTimeout \/ AskTimeout
  \/ Dialog \/ OnResponse
  \/ RecognizedAnswer \/ RecognizedCommand
  \/ \E ask \in shown : OnExternalAnswer(ask)
  \/ \E id \in WebConv : ClientLeaves(id)

Next == Step \/ Event

Spec == Init /\ [][Next]_conversationVars

(* The call on top goes on, and a loop told to quit does so once it is on  *)
(* top: strong fairness, since calls come and go above it.                 *)
LoopFairness ==
  /\ WF_conversationVars(SayPrompt) /\ WF_conversationVars(AwaitAnswer)
  /\ WF_conversationVars(AnswerLocal) /\ WF_conversationVars(AnswerExternal)
  /\ SF_conversationVars(PromptOver) /\ SF_conversationVars(WaitOver)

(* The plugins return and their own waits end; when calls can come and go  *)
(* for ever, each of them does.                                            *)
PluginFairness ==
  SF_conversationVars(PluginReturns) /\ SF_conversationVars(PluginResumes)

DepthFairness ==
  \A d \in 1..MaxDepth :
    /\ SF_conversationVars(Depth = d /\ PluginResumes)
    /\ SF_conversationVars(Depth = d /\ PluginReturns)

(* The timers of external questions run out.  Strong fairness here and     *)
(* below: a plugin may run whenever the event is due, but the next event   *)
(* loop dispatches it.                                                     *)
TimerFairness ==
  SF_conversationVars(GuardTimeout) /\ SF_conversationVars(AskTimeout)

(* The audio chain works: prompts end, the answer window ends (at the      *)
(* latest after responseSlient), and the recogniser reports.               *)
VoiceFairness ==
  /\ SF_conversationVars(PlayEnd) /\ SF_conversationVars(OnResponse)
  /\ SF_conversationVars(RecognizedAnswer)
  /\ SF_conversationVars(RecognizedCommand)

TimerSpec == Spec /\ LoopFairness /\ PluginFairness /\ TimerFairness
FairSpec  == Spec /\ LoopFairness /\ DepthFairness /\ TimerFairness /\ VoiceFairness

-----------------------------------------------------------------------------
TypeOK ==
  /\ stack \in Seq(Frame)
  /\ externalId \in Conv \cup {0} /\ externalCanAnswer \in BOOLEAN
  /\ askId \in WebConv \cup {0} /\ askAnswered \in BOOLEAN
  /\ askAnswer \in Answer /\ resultCache \in Answer
  /\ isResponse \in BOOLEAN
  /\ {eventLoop, ttsEventLoop} \subseteq {"idle", "exec", "quit"}
  /\ askTimer \in BOOLEAN
  /\ mic \in {"listening", "window", "closed"}
  /\ micQuestion \in Question \cup {0}
  /\ asrJobs \in Seq([kind : {"command", "answer"}, to : Question \cup {0},
                       words : BOOLEAN])
  /\ fresh \subseteq Conv
  /\ online \subseteq WebConv /\ open \subseteq WebConv
  /\ shown \subseteq [id : WebConv, question : Question]
  /\ round \in 0..MaxQuestions
  /\ result \in [question : Question \cup {0}, answer : Answer]

(* c is the request in force after the n outermost calls: the innermost    *)
(* external one of them, or none; and it can be asked back as can says.    *)
InForce(n, c, can) ==
  \/ /\ c = 0 /\ ~can
     /\ \A i \in 1..n : stack[i].origin \notin External
  \/ \E i \in 1..n :
       /\ stack[i].origin \in External
       /\ stack[i].id = c /\ can = (c \in WebConv)
       /\ \A j \in i + 1..n : stack[j].origin \notin External

(* However calls nest, the current request is that of the innermost        *)
(* external call, and each call will restore what was in force around it:  *)
(* a plugin is never asked about, or answered for, another request.        *)
ExternalInForce ==
  /\ InForce(Depth, externalId, externalCanAnswer)
  /\ \A i \in 1..Depth : stack[i].origin \in External =>
       InForce(i - 1, stack[i].savedId, stack[i].savedCanAnswer)

(* A web answer can only reach a question that is still being asked.       *)
AskIdAwaited ==
  askId # 0 => \E i \in 1..Depth : stack[i].ext

(* Each loop that executes belongs to exactly one call that waits in it.   *)
LoopsHaveWaiters ==
  /\ Cardinality({i \in 1..Depth : stack[i].at = "waiting"})
       = IF eventLoop = "idle" THEN 0 ELSE 1
  /\ Cardinality({i \in 1..Depth : stack[i].at = "saying"})
       = IF ttsEventLoop = "idle" THEN 0 ELSE 1

(* GET /intent has no way to answer, so it never waits for an answer.      *)
HttpNeverWaits ==
  \A i \in 1..Depth :
    stack[i].origin = "http" => stack[i].at \notin {"saying", "waiting"}

(* A GET /intent request served while a web question waits leaves the      *)
(* state of that question alone (conversation.cpp:375).                    *)
HttpLeavesAskAlone ==
  [][stack # <<>> /\ Top.origin = "http" /\ Step
       => UNCHANGED <<answerVars, loopVars>>]_conversationVars

(* The first answer to a question wins: until question() returns, nothing  *)
(* replaces it.                                                            *)
FirstAnswerWins ==
  [][askAnswered /\ askAnswered' /\ askAnswer # NoAnswer
       => askAnswer' \in {askAnswer, NoAnswer}]_conversationVars

(* However calls nest, the request in force, the request whose answer is   *)
(* awaited and the two event loops belong to the right call, and a request *)
(* that cannot be asked back never waits (conversation.cpp:367, 407, 418,  *)
(* 498).                                                                   *)
CallsInOrder ==
  ExternalInForce /\ AskIdAwaited /\ LoopsHaveWaiters /\ HttpNeverWaits

(* A request served during the wait leaves the awaited answer alone, and   *)
(* of two answers that race, the first is the one that is returned         *)
(* (conversation.cpp:160, 427).                                            *)
AnswersKept == HttpLeavesAskAlone /\ FirstAnswerWins

(* conversation.cpp:362 (whichever comes later is dropped) and the comment *)
(* of onExternalAnswer: the answer question() returns was given to that    *)
(* question, not to an earlier one.                                        *)
AnswerFitsQuestion ==
  result.answer # NoAnswer => result.answer.to = result.question

Asking(q, ext) == \E i \in 1..Depth : stack[i].question = q /\ stack[i].ext = ext

(* The question() of a request returns to its plugin even if nobody speaks *)
(* or the audio chain is dead: the comment of externalAskTimer             *)
(* (conversation.cpp:405) promises that the request never hangs.           *)
WebQuestionsReturn ==
  \A q \in Question : Asking(q, TRUE) ~> ~Asking(q, TRUE)

(* A question() asked at the microphone returns to its plugin, if the      *)
(* audio chain works.                                                      *)
LocalQuestionsReturn ==
  \A q \in Question : Asking(q, FALSE) ~> ~Asking(q, FALSE)

(* The comment of finish() in question() (conversation.cpp:335): asking    *)
(* never leaves the assistant deaf, it listens for wake words again.       *)
ListensAgain == []<>(mic = "listening")
=============================================================================
