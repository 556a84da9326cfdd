----------------------------- MODULE MCModels -------------------------------
(***************************************************************************)
(* The back ends of the language model, the servers of its tools and the   *)
(* registry of tools and skills, for one run: in every behaviour one of    *)
(* them is active, so their state spaces add up.                           *)
(***************************************************************************)
EXTENDS Integers, Sequences

CONSTANTS Requests, MaxIndex, MaxLines, Dirs, NCtx, Limit, Margin, Prompts,
          AbortIds, MaxSyncs, MaxServerCalls, MaxPages, MaxToolCalls

VARIABLES net, arrived, states, stream, partialCalls, syncs, syncDone, heard,
          ended, told, sent, broken, calls
VARIABLES inMap, abortId, worker, prompt, sync, llamaSyncs, used, left,
          posted, llamaHeard, llamaEnded, refused, aborted
VARIABLES windows, process, nextId, inFlight, owed, stdout, pending, specs,
          initialized, registered, mcpSent, returned, crashed
VARIABLES toolsInitialized, backends, defaultName, dir, servers, skills,
          tools, starting, starts, toolsUsed, toolsCalls, session
VARIABLE  active

(* What the skill folder and the configured servers may hold.              *)
Line(k, v, s) == [key |-> k, value |-> v, style |-> s]
SkillFile(b, r, c, ls, text) == [base |-> b, readable |-> r, closed |-> c, lines |-> ls, body |-> text]
SkillFolders == { <<>>,
  << SkillFile("x", TRUE, TRUE, <<Line("name", "w", "plain"), Line("description", "d", "plain")>>, "b1"),
     SkillFile("y", TRUE, TRUE, <<Line("name", "w!", "quoted"), Line("description", "d", "both")>>, "b2"),
     SkillFile("w", TRUE, TRUE, <<Line("description", "d", "comment")>>, "b3") >>,
  << SkillFile("x", TRUE, FALSE, <<Line("name", "w", "plain"), Line("description", "d", "plain")>>, "b1"),
     SkillFile("y", FALSE, TRUE, <<Line("name", "w", "plain"), Line("description", "d", "plain")>>, "b2"),
     SkillFile("z", TRUE, TRUE, <<Line("name", "w", "both"), Line("name", "x", "plain"),
                                  Line("description", "d", "plain")>>, "b4") >> }
NormalNames == [n \in {"x", "y", "z", "w", "w!"} |-> IF n = "w!" THEN "w_" ELSE n]
ServerOf(n, e, t) == [name |-> n, enabled |-> e, tools |-> t]
ServerLists == { <<>>,
  << ServerOf(<<"a">>, TRUE, << <<"b", "c">>, <<"d">> >>),
     ServerOf(<<"a", "b">>, TRUE, << <<"c">>, <<"e">> >>), ServerOf(<<"f">>, FALSE, <<>>) >>,
  << ServerOf(<<"a">>, FALSE, <<>>), ServerOf(<<"g">>, TRUE, << <<"c">>, <<"c">> >>) >> }

OpenAI == INSTANCE OpenAIBackend
Llama == INSTANCE LlamaBackend WITH syncs <- llamaSyncs, heard <- llamaHeard,
    ended <- llamaEnded
Client == INSTANCE MCPClient WITH sent <- mcpSent, MaxCalls <- MaxServerCalls
Tools == INSTANCE LLMTools WITH initialized <- toolsInitialized, used <-
    toolsUsed, calls <- toolsCalls, Backends <- <<"p", "q">>, Skills <-
    SkillFolders, Normal <- NormalNames, Servers <- ServerLists, MaxCalls <-
    MaxToolCalls

openaiVars == <<net, arrived, states, stream, partialCalls, syncs, syncDone,
  heard, ended, told, sent, broken, calls>>
llamaVars == <<inMap, abortId, worker, prompt, sync, llamaSyncs, used, left,
  posted, llamaHeard, llamaEnded, refused, aborted>>
mcpVars == <<windows, process, nextId, inFlight, owed, stdout, pending, specs,
  initialized, registered, mcpSent, returned, crashed>>
toolsVars == <<toolsInitialized, backends, defaultName, dir, servers, skills,
  tools, starting, starts, toolsUsed, toolsCalls, session>>

OnlyOpenai ==
  /\ active = "openai"
  /\ UNCHANGED <<active, llamaVars, mcpVars, toolsVars>>
OnlyLlama ==
  /\ active = "llama"
  /\ UNCHANGED <<active, openaiVars, mcpVars, toolsVars>>
OnlyMcp ==
  /\ active = "mcp"
  /\ UNCHANGED <<active, openaiVars, llamaVars, toolsVars>>
OnlyTools ==
  /\ active = "tools"
  /\ UNCHANGED <<active, openaiVars, llamaVars, mcpVars>>

Init ==
  /\ active \in {"openai", "llama", "mcp", "tools"}
  /\ OpenAI!Init
  /\ Llama!Init /\ (active # "llama" =>
       \A r \in DOMAIN prompt : prompt[r] = 3)
  /\ Client!Init /\ (active # "mcp" =>
       ~windows)
  /\ Tools!Init /\ (active # "tools" =>
       dir = <<>> /\ servers = <<>>)

Next ==
  \/ OnlyOpenai /\ OpenAI!Next
  \/ OnlyLlama /\ Llama!Next
  \/ OnlyMcp /\ Client!Next
  \/ OnlyTools /\ Tools!Next

vars == <<active, openaiVars, llamaVars, mcpVars, toolsVars>>
Spec == Init /\ [][Next]_vars

FairSpec ==
  /\ Spec
  /\ WF_vars(OnlyOpenai /\ OpenAI!Timers) /\ WF_vars(OnlyOpenai /\ OpenAI!Return)
  /\ WF_vars(OnlyLlama /\ Llama!Dispatch)
  /\ \A r \in Requests \cup {0} : WF_vars(OnlyLlama /\ Llama!Infer(r))

-----------------------------------------------------------------------------
(* LLMBackend.h:30-43: both back ends implement the abstract one: each     *)
(* request hears its pieces, is done once, and hears nothing after that.   *)
BackendsKeepPromise == OpenAI!KeepsPromise /\ Llama!KeepsPromise

(* A call gets its own result, although answers come after their timeout   *)
(* (MCPClient.cpp:316, 399-418), and tool calls have all the fragments of  *)
(* their stream (OpenAICompatibleBackend.cpp:195).                         *)
AnswersWhole == Client!ResultIsOwn /\ OpenAI!CallsWhole

(* LLMToolRegistry.h:18-19: every server is started once, a tool never     *)
(* changes its implementation, and every skill in the catalog can be read. *)
ToolsSound == Tools!ToolsSound

(* Nobody waits for ever: complete() returns (OpenAICompatible-            *)
(* Backend.cpp:334), and every request of the local model is answered      *)
(* (LlamaCppBackend.cpp:429-432).                                          *)
RequestsEnd == OpenAI!CompleteReturns /\ Llama!EveryoneServed
=============================================================================
