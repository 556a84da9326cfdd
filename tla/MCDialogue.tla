---------------------------- MODULE MCDialogue ------------------------------
(***************************************************************************)
(* A session with a language model, and the conversation that asks and     *)
(* answers aloud, for one run: in every behaviour one of them is active,   *)
(* so their state spaces add up.                                           *)
(***************************************************************************)
EXTENDS LLMSession

CONSTANTS WebConv, HttpConv, Speaker, MaxDepth, MaxQuestions, MaxJobs

VARIABLES stack, externalId, externalCanAnswer, askId, askAnswered, askAnswer,
          resultCache, isResponse, eventLoop, ttsEventLoop, askTimer, mic,
          micQuestion, asrJobs, fresh, online, open, shown, round, result
VARIABLE  active

Talk == INSTANCE Conversation

ASSUME TalkAssumption == Talk!ConversationAssumption

talkVars == <<stack, externalId, externalCanAnswer, askId, askAnswered,
  askAnswer, resultCache, isResponse, eventLoop, ttsEventLoop, askTimer, mic,
  micQuestion, asrJobs, fresh, online, open, shown, round, result>>

OnlySession ==
  /\ active = "session"
  /\ UNCHANGED <<active, talkVars>>
OnlyTalk ==
  /\ active = "talk"
  /\ UNCHANGED <<active, llmVars>>

MCInit ==
  /\ active \in {"session", "talk"}
  /\ Init
  /\ Talk!Init

MCNext ==
  \/ OnlySession /\ Next
  \/ OnlyTalk /\ Talk!Next

MCVars == <<active, llmVars, talkVars>>
MCSpec == MCInit /\ [][MCNext]_MCVars

-----------------------------------------------------------------------------
(* What is sent to the service is whole and finite: every call has its      *)
(* result, and there are no more rounds than allowed (LLMSession.cpp:167,  *)
(* 209).                                                                   *)
RequestsWhole == CallsHaveResults /\ RoundsBounded

(* The calls of Conversation nest properly, and the answers reach the      *)
(* questions they were first given to (conversation.cpp:160, 367).         *)
CallsInOrder == Talk!CallsInOrder
AnswersKept == Talk!AnswersKept
=============================================================================
