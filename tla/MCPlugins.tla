----------------------------- MODULE MCPlugins ------------------------------
(***************************************************************************)
(* The dispatch of requests to plugins and the plugins that keep state,    *)
(* for one run: in every behaviour one of them is active, so their state   *)
(* spaces add up.                                                          *)
(***************************************************************************)
EXTENDS Integers, Sequences

CONSTANTS MaxRequests, MaxNesting, MaxSources, MaxWaiting, MaxProbes,
          MaxAttempts, MaxSilent, Batch, MaxFound, MaxSongs, MaxMusicCalls,
          MaxPolls, MaxCommands, Sizes, Patterns, Scale, QuietZone

ASSUME PluginsAssumption ==
  MaxSources \in Nat /\ MaxFound \in Nat /\ Batch \in Nat /\ MaxCommands \in Nat

VARIABLES calls, request, immersive, immersivePlugin, sources, isLoginM,
          loggingInM, isSearch, chatMode, judging, loaded, fault, asked,
          overlapped
VARIABLES config, node, probe, waiting, isLogin, loggingIn, at, cookie,
          params, success, attempts, silent, canAsk, said, sms, prompted,
          leaked, cached
VARIABLES steps, readyMusic, playlist, isPlaying, jumped, found, nestedCall,
          failure
VARIABLES session, saved, qrLogin, officialTried, loggedIn, awaits, polls,
          userOnce
VARIABLES link, socketId, responses, responsesList, currentId, wire, commands,
          idOf, hassSaid
VARIABLES exp, log, payload, stage, index, gen, words, bestScore, best
VARIABLE  active

Manager == INSTANCE PluginManager WITH isLogin <- isLoginM, loggingIn <-
    loggingInM
Login == INSTANCE NeteaseLogin
Music == INSTANCE NeteaseMusic WITH MaxCalls <- MaxMusicCalls
Official == INSTANCE NeteaseOfficial
HomeAssistant == INSTANCE Hass WITH said <- hassSaid
Code == INSTANCE QRCode

managerVars == <<calls, request, immersive, immersivePlugin, sources,
  isLoginM, loggingInM, isSearch, chatMode, judging, loaded, fault, asked,
  overlapped>>
loginVars == <<config, node, probe, waiting, isLogin, loggingIn, at, cookie,
  params, success, attempts, silent, canAsk, said, sms, prompted, leaked,
  cached>>
musicVars == <<steps, readyMusic, playlist, isPlaying, jumped, found,
  nestedCall, failure>>
officialVars == <<session, saved, qrLogin, officialTried, loggedIn, awaits,
  polls, userOnce>>
hassVars == <<link, socketId, responses, responsesList, currentId, wire,
  commands, idOf, hassSaid>>
codeVars == <<exp, log, payload, stage, index, gen, words, bestScore, best>>

OnlyManager ==
  /\ active = "manager"
  /\ UNCHANGED <<active, loginVars, musicVars, officialVars, hassVars,
                 codeVars>>
OnlyLogin ==
  /\ active = "login"
  /\ UNCHANGED <<active, managerVars, musicVars, officialVars, hassVars,
                 codeVars>>
OnlyMusic ==
  /\ active = "music"
  /\ UNCHANGED <<active, managerVars, loginVars, officialVars, hassVars,
                 codeVars>>
OnlyOfficial ==
  /\ active = "official"
  /\ UNCHANGED <<active, managerVars, loginVars, musicVars, hassVars,
                 codeVars>>
OnlyHass ==
  /\ active = "hass"
  /\ UNCHANGED <<active, managerVars, loginVars, musicVars, officialVars,
                 codeVars>>
OnlyCode ==
  /\ active = "code"
  /\ UNCHANGED <<active, managerVars, loginVars, musicVars, officialVars,
                 hassVars>>

Init ==
  /\ active \in {"manager", "login", "music", "official", "hass", "code"}
  /\ Manager!Init
  /\ Login!Init /\ (active # "login" =>
       config = "none" /\ ~cookie /\ ~cached)
  /\ Music!Init
  /\ Official!Init /\ (active # "official" =>
       ~qrLogin /\ saved = Official!NoSession)
  /\ HomeAssistant!Init
  /\ Code!Init

Next ==
  \/ OnlyManager /\ Manager!Next
  \/ OnlyLogin /\ Login!Next
  \/ OnlyMusic /\ Music!Next
  \/ OnlyOfficial /\ Official!Next
  \/ OnlyHass /\ HomeAssistant!Next
  \/ OnlyCode /\ Code!Next

vars == <<active, managerVars, loginVars, musicVars, officialVars, hassVars,
  codeVars>>
Spec == Init /\ [][Next]_vars

FairSpec ==
  /\ Spec
  /\ WF_vars(OnlyLogin /\ Login!Replies)
  /\ WF_vars(OnlyOfficial /\ Official!PollQrLogin)

-----------------------------------------------------------------------------
(* pluginmanager.cpp:140-141, 207: as long as requests do not overlap, the *)
(* immersive flag and its owner agree between requests; what a plugin says *)
(* is attributed to its conversation also after nested requests; and the   *)
(* table of speakers stays bounded.                                        *)
DispatchSound == Manager!ImmersionOwned /\ Manager!SpeakerIsSource /\ Manager!SourcesBounded

(* neteasemusic.cpp:574-582, 641-643, 807-808: one log-in sends one        *)
(* message, and says so only if it was sent; no password goes out with an  *)
(* old session; and who is logged in as a user stays so through restarts   *)
(* and late answers.                                                       *)
LoginSound ==
  /\ Login!PromptedMeansSent /\ Login!OneMessage /\ Login!NoOldSession
  /\ Official!UserStays

(* A result is that of the request it is used for: no song is given to the *)
(* player twice, a search jumps to a song of its own as long as calls do   *)
(* not overlap (neteasemusic.cpp:1327, 1348), and a command reports its    *)
(* own outcome (hass.cpp:116-125, 258-269, 284-287).                       *)
ResultsAreOwn == Music!SongsOnce /\ Music!JumpsToItsOwn /\ HomeAssistant!HassSound

(* A log-in ends, at worst as a guest, and a QR code is one that can be    *)
(* scanned, and is scanned, expires or is given up.                        *)
LoginsEnd == Login!LoginEnds /\ Official!QrEnds /\ []Code!Scannable
=============================================================================
