---------------------------- MODULE PluginManager ----------------------------
(***************************************************************************)
(* How a request finds its plugin (Plugins/pluginmanager.cpp), with the    *)
(* handle() of the plugins that wait, take over the dialogue or speak      *)
(* later.                                                                  *)
(*                                                                         *)
(* The plugins are asked in the order of the order file; a plugin may set  *)
(* the immersive flag, through a reference, and is then asked first.  A    *)
(* plugin may wait in an event loop (an answer, an HTTP reply, a log-in),  *)
(* where the next request comes in: the calls in progress form a stack.    *)
(* Undefined behaviour ends the run in a state with a fault.               *)
(*                                                                         *)
(* An utterance is reduced to what the plugins look for in it.             *)
(***************************************************************************)
EXTENDS Naturals, Sequences, FiniteSets

CONSTANTS
  MaxRequests,   (* bound on the requests ever made                          *)
  MaxNesting,    (* bound on the calls nested in one another                 *)
  MaxSources     (* the 512 of setSource()                                   *)

VARIABLES
  calls,            (* handlePlugin() in progress, innermost last            *)
  request,          (* text and parsedIntent, the members                    *)
  immersive,
  immersivePlugin,
  sources,          (* who speaks in a conversation                          *)
  isLogin,          (* NeteaseMusic::isLogin                                 *)
  loggingIn,
  isSearch,         (* NeteaseMusic::isSearch and isSearchTrigger            *)
  chatMode,         (* Chat::chatMode                                        *)
  judging,          (* the request Fallback waits for the verdict on         *)
  loaded,           (* the plugins are loaded                                *)
  fault,            (* the undefined behaviour that was met                  *)
  asked,            (* history: number of requests                           *)
  overlapped        (* history: a request came while another was handled     *)

managerVars == <<calls, request, immersive, immersivePlugin, sources>>
neteaseVars == <<isLogin, loggingIn, isSearch>>
pluginVars  == <<managerVars, neteaseVars, chatMode, judging, loaded, fault,
                 asked, overlapped>>

(* The order file, of the plugins that behave differently.                 *)
Order == <<"NeteaseMusic", "Weather", "VoiceControl", "QuitRobot", "Chat",
           "Fallback">>
Plugins == {Order[i] : i \in DOMAIN Order}
NoPlugin == ""
After(p) == LET i == CHOOSE i \in DOMAIN Order : Order[i] = p
            IN  IF i = Len(Order) THEN NoPlugin ELSE Order[i + 1]

(* What an utterance asks for, and what a plugin waits for.                *)
Wanted == {"music", "weather", "volume", "close", "chat", "other"}
Request == [n : Nat, id : Nat, wants : Wanted]
Nobody == [n |-> 0, id |-> 0, wants |-> "other"]

Top == calls[Len(calls)]
Below == SubSeq(calls, 1, Len(calls) - 1)
Running == loaded /\ fault = ""
Serving(p) == Running /\ calls # <<>> /\ Top.plugin = p /\ Top.at = "handle"
Waiting(p, at) == Running /\ calls # <<>> /\ Top.plugin = p /\ Top.at = at
Dispatching == Running /\ (calls # <<>> => Top.at # "handle")

(* setSource(): a full table gives up the smallest id.                     *)
GivenUp_Slip(id) == {}
GivenUpLast_Slip(id) ==
  IF Cardinality(DOMAIN sources) > MaxSources /\ id \notin DOMAIN sources
  THEN {i \in DOMAIN sources : \A j \in DOMAIN sources : i >= j} ELSE {}
GivenUp(id) ==
  IF Cardinality(DOMAIN sources) > MaxSources /\ id \notin DOMAIN sources
  THEN {i \in DOMAIN sources : \A j \in DOMAIN sources : i <= j} ELSE {}
SetSource(id, name) ==
  [i \in (DOMAIN sources \ GivenUp(id)) \cup {id} |->
     IF i = id THEN name ELSE sources[i]]

(* The flag the plugin was given a reference to: the member, or the local  *)
(* of the loop over the others.                                            *)
Flag == IF Top.branch = "others" THEN Top.immersiveTmp ELSE immersive
Give(flag) == immersive' = IF Top.branch = "others" THEN immersive ELSE flag
With(flag) == [Top EXCEPT !.immersiveTmp =
                 IF Top.branch = "others" THEN flag ELSE @]

(* handle() returned true, and handlePlugin() ends.                        *)
Owner_Slip(flag) == immersivePlugin
Owner(flag) ==
  CASE Top.branch = "all" -> IF flag THEN Top.plugin ELSE immersivePlugin
    [] Top.branch = "immersive" -> IF flag THEN immersivePlugin ELSE NoPlugin
    [] Top.branch = "others" -> IF immersive THEN immersivePlugin ELSE NoPlugin

(* The immersive plugin is asked for its name again, and may be gone.      *)
Hit == IF Top.branch = "immersive" THEN immersivePlugin ELSE Top.plugin
Handled(flag) ==
  /\ Give(flag)
  /\ calls' = Below
  /\ IF Hit = NoPlugin
     THEN fault' = "null" /\ UNCHANGED <<immersivePlugin, sources>>
     ELSE /\ immersivePlugin' = Owner(flag)
          /\ sources' = SetSource(Top.request.id, Hit)
          /\ UNCHANGED fault

(* handle() returned false: the next plugin, the first of the others, or   *)
(* the end without a hit.                                                  *)
NextCall(flag) ==
  IF Top.branch = "immersive"
  THEN [Top EXCEPT !.branch = "others", !.plugin = Order[1], !.at = "handle",
                   !.immersiveTmp = FALSE]
  ELSE [With(flag) EXCEPT !.plugin = After(Top.plugin), !.at = "handle"]
Refused(flag) ==
  /\ Give(flag)
  /\ sources' = SetSource(Top.request.id, NextCall(flag).plugin)
  /\ IF NextCall(flag).plugin # NoPlugin
     THEN /\ calls' = Append(Below, NextCall(flag))
          /\ UNCHANGED immersivePlugin
     ELSE /\ calls' = Below
          /\ immersivePlugin' = IF Top.branch = "others" /\ ~immersive
                                THEN NoPlugin ELSE immersivePlugin
  /\ UNCHANGED fault

(* The plugin runs an event loop.                                          *)
WaitAt(at, flag) ==
  /\ Give(flag)
  /\ calls' = Append(Below, [With(flag) EXCEPT !.at = at])
  /\ UNCHANGED <<immersivePlugin, sources, fault>>

-----------------------------------------------------------------------------
Init ==
  /\ calls = <<>> /\ request = Nobody
  /\ immersive = FALSE /\ immersivePlugin = NoPlugin
  /\ sources = [i \in {} |-> NoPlugin]
  /\ isLogin = FALSE /\ loggingIn = FALSE /\ isSearch = FALSE
  /\ chatMode = FALSE /\ judging = Nobody
  /\ loaded = TRUE /\ fault = "" /\ asked = 0 /\ overlapped = FALSE

(* handlePlugin() is called, in whatever event loop runs, for the          *)
(* microphone (0) or a conversation with an id of its own.                 *)
FirstAsked == IF immersive THEN immersivePlugin ELSE Order[1]
HandlePlugin(id, wants) ==
  /\ Dispatching /\ Len(calls) < MaxNesting /\ asked < MaxRequests
  /\ id \in {0, asked + 1}
  /\ asked' = asked + 1
  /\ overlapped' = (overlapped \/ calls # <<>>)
  /\ request' = [n |-> asked + 1, id |-> id, wants |-> wants]
  /\ IF FirstAsked = NoPlugin
     THEN fault' = "null" /\ UNCHANGED <<calls, sources>>
     ELSE /\ sources' = SetSource(id, FirstAsked)
          /\ calls' = Append(calls,
               [request |-> request', plugin |-> FirstAsked, at |-> "handle",
                branch |-> IF immersive THEN "immersive" ELSE "all",
                immersiveTmp |-> FALSE])
          /\ UNCHANGED fault
  /\ UNCHANGED <<immersive, immersivePlugin, neteaseVars, chatMode, judging, loaded>>

(* shutdownPlugins() when the event loop of the program has ended.         *)
ShutdownPlugins ==
  /\ Running /\ calls = <<>>
  /\ loaded' = FALSE /\ immersive' = FALSE /\ immersivePlugin' = NoPlugin
  /\ UNCHANGED <<calls, request, sources, neteaseVars, chatMode, judging, fault,
                 asked, overlapped>>

pluginFrame == <<request, loaded, asked, overlapped>>

-----------------------------------------------------------------------------
(* NeteaseMusic::handle().  A request for music may wait for the log-in    *)
(* and then waits for the search; doHandle() looks at the members that     *)
(* every request writes.                                                   *)
NeedHandle == Top.request.wants = "music"

DoHandle(flag, search) ==
  LET wants == Top.request.wants IN
  \/ wants = "close" /\ Handled(FALSE)
  \/ wants = "volume" /\ Handled(flag)
  \/ wants \notin {"close", "volume"} /\ search /\ WaitAt("search", flag)
  \/ wants \notin {"close", "volume"} /\ ~search /\ Refused(flag)

NeteaseHandle ==
  /\ Serving("NeteaseMusic")
  /\ isSearch' = NeedHandle
  /\ IF ~NeedHandle /\ ~Flag THEN Refused(Flag) /\ UNCHANGED loggingIn
     ELSE IF isLogin THEN DoHandle(TRUE, NeedHandle) /\ UNCHANGED loggingIn
     ELSE IF loggingIn THEN Refused(Flag) /\ UNCHANGED loggingIn
     ELSE WaitAt("login", Flag) /\ loggingIn' = TRUE
  /\ UNCHANGED <<isLogin, chatMode, judging, pluginFrame>>

(* ensureNodeStarted() and login() are over; node may be missing.          *)
NeteaseLogin(ok) ==
  /\ Waiting("NeteaseMusic", "login")
  /\ loggingIn' = FALSE /\ isLogin' = ok
  /\ IF ok THEN DoHandle(TRUE, isSearch) ELSE Refused(Flag)
  /\ UNCHANGED <<isSearch, chatMode, judging, pluginFrame>>

(* searchAlbum() is over.                                                  *)
NeteaseSearched ==
  /\ Waiting("NeteaseMusic", "search")
  /\ Handled(Flag)
  /\ UNCHANGED <<neteaseVars, chatMode, judging, pluginFrame>>

(* Weather waits for its service, VoiceControl answers at once.            *)
WeatherHandle ==
  /\ Serving("Weather")
  /\ IF Top.request.wants = "weather" THEN WaitAt("http", Flag) ELSE Refused(Flag)
  /\ UNCHANGED <<neteaseVars, chatMode, judging, pluginFrame>>
WeatherAnswers ==
  /\ Waiting("Weather", "http")
  /\ Handled(Flag)
  /\ UNCHANGED <<neteaseVars, chatMode, judging, pluginFrame>>
VoiceControlHandle ==
  /\ Serving("VoiceControl")
  /\ IF Top.request.wants = "volume" THEN Handled(Flag) ELSE Refused(Flag)
  /\ UNCHANGED <<neteaseVars, chatMode, judging, pluginFrame>>

(* QuitRobot asks whether to quit, the microphone only.  exit() unloads    *)
(* the plugins and then returns into this one.                             *)
QuitRobotHandle ==
  /\ Serving("QuitRobot")
  /\ CASE Top.request.wants # "close" -> Refused(Flag)
       [] Top.request.wants = "close" /\ Top.request.id = 0 -> WaitAt("confirm", Flag)
       [] OTHER -> Handled(Flag)
  /\ UNCHANGED <<neteaseVars, chatMode, judging, pluginFrame>>
QuitDeclined ==
  /\ Waiting("QuitRobot", "confirm")
  /\ Handled(Flag)
  /\ UNCHANGED <<neteaseVars, chatMode, judging, pluginFrame>>
QuitConfirmed ==
  /\ Waiting("QuitRobot", "confirm")
  /\ loaded' = FALSE /\ fault' = "unloaded"
  /\ immersive' = FALSE /\ immersivePlugin' = NoPlugin
  /\ UNCHANGED <<calls, request, sources, neteaseVars, chatMode, judging, asked, overlapped>>

(* Chat::handle().  Chat mode, once begun, does not end.                   *)
ChatFlag == Flag /\ chatMode
ChatHandle ==
  /\ Serving("Chat")
  /\ CASE Top.request.wants = "close" /\ chatMode -> Handled(FALSE)
       [] Top.request.wants # "close" /\ chatMode -> Handled(TRUE)
       [] Top.request.wants = "chat" /\ ~chatMode -> WaitAt("question", TRUE)
       [] OTHER -> Refused(ChatFlag)
  /\ UNCHANGED <<neteaseVars, chatMode, judging, pluginFrame>>
ChatAnswered ==
  /\ Waiting("Chat", "question")
  /\ chatMode' = TRUE
  /\ Handled(Flag)
  /\ UNCHANGED <<neteaseVars, judging, pluginFrame>>

(* Fallback asks the model about every text it is given; ask() drops the   *)
(* question before.  A question is forwarded to Chat by handleMessage().   *)
FallbackHandle ==
  /\ Serving("Fallback")
  /\ judging' = Top.request
  /\ Handled(Flag)
  /\ UNCHANGED <<neteaseVars, chatMode, pluginFrame>>
Verdict(question) ==
  /\ Dispatching /\ judging # Nobody
  /\ judging' = Nobody
  /\ sources' = IF question THEN SetSource(judging.id, "Chat") ELSE sources
  /\ UNCHANGED <<calls, request, immersive, immersivePlugin, neteaseVars,
                 chatMode, loaded, fault, asked, overlapped>>

-----------------------------------------------------------------------------
Next ==
  \/ \E id \in 0..MaxRequests, wants \in Wanted : HandlePlugin(id, wants)
  \/ ShutdownPlugins
  \/ NeteaseHandle \/ NeteaseSearched
  \/ \E ok \in BOOLEAN : NeteaseLogin(ok)
  \/ WeatherHandle \/ WeatherAnswers \/ VoiceControlHandle
  \/ QuitRobotHandle \/ QuitDeclined \/ QuitConfirmed
  \/ ChatHandle \/ ChatAnswered
  \/ FallbackHandle
  \/ \E question \in BOOLEAN : Verdict(question)

Spec == Init /\ [][Next]_pluginVars

-----------------------------------------------------------------------------
(* As long as requests do not overlap, the flag is up between requests     *)
(* exactly when a plugin that asked for the dialogue holds it.             *)
ImmersionOwned ==
  Running /\ calls = <<>> /\ ~overlapped =>
    /\ immersive <=> immersivePlugin # NoPlugin
    /\ immersivePlugin \in {NoPlugin, "NeteaseMusic", "Chat"}

(* What a plugin says on behalf of a conversation is attributed to it,     *)
(* also after other requests were handled inside its own, unless so many   *)
(* came that the entry was given up, or a forwarded text speaks in it.     *)
SpeakerIsSource ==
  \A i \in DOMAIN calls : Running /\ calls[i].request.id # 0 =>
    LET id == calls[i].request.id IN
    IF id \in DOMAIN sources THEN sources[id] = calls[i].plugin
                             ELSE asked - id >= MaxSources

(* The table of speakers stays bounded.                                    *)
SourcesBounded == Cardinality(DOMAIN sources) <= MaxSources + 1

(* While a plugin holds the dialogue, its handle() can be called: comment  *)
(* of pluginmanager.cpp:140.                                               *)
ImmersivePluginThere == fault # "null"

(* No code of a plugin runs after the plugins were unloaded.               *)
NothingDangles == fault # "unloaded"
=============================================================================
