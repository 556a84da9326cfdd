---------------------------- MODULE NeteaseLogin ----------------------------
(***************************************************************************)
(* How the NetEase plugin starts its node service and logs in              *)
(* (Plugins/neteasemusic/neteasemusic.cpp and captchaflow.h).              *)
(*                                                                         *)
(* The first request for music starts the service and waits for its port;  *)
(* then login() tries the stored cookie, the password, a code sent by SMS  *)
(* and asked for in the dialogue, and at last goes on as a guest.  Each    *)
(* step waits in an event loop, where further requests come in.  Answers   *)
(* of the service come in two shapes, get lost, or come from its cache.    *)
(***************************************************************************)
EXTENDS Naturals

CONSTANTS
  MaxWaiting,    (* bound on requests that wait for the service              *)
  MaxProbes,     (* the 60 probes of the readiness timer                     *)
  MaxAttempts,   (* maxAttempts of requestCaptchaByVoice()                   *)
  MaxSilent      (* maxSilent                                                *)

VARIABLES
  config,        (* the credential that is configured                        *)
  node,          (* the service: attempted, ready, failed                    *)
  probe,         (* readiness timer: running, retry, inFlight                *)
  waiting,       (* calls of waitForNodeReady() in progress                  *)
  isLogin, loggingIn,
  at,            (* what login() waits for                                   *)
  cookie,        (* there is a cookie                                        *)
  params,        (* params holds the cookie                                  *)
  success,
  attempts, silent,
  canAsk,        (* the request that logs in can be asked back               *)
  said,          (* the code the user gave is the right one                  *)
  sms,           (* history: messages sent in this login                     *)
  prompted,      (* history: the user was told that a code was sent          *)
  leaked,        (* history: the cookie was sent along with a password       *)
  cached         (* external: the service keeps an answer to /captcha/sent   *)

nodeVars  == <<node, probe, waiting>>
askVars   == <<attempts, silent, canAsk, said>>
smsVars   == <<sms, prompted, leaked, cached>>
loginVars == <<isLogin, loggingIn, at, cookie, params, success>>
neteaseLoginVars == <<config, nodeVars, loginVars, askVars, smsVars>>

-----------------------------------------------------------------------------
(* Answers.  The code of a plain answer is at its top; an envelope has the *)
(* status of HTTP at its top and the answer inside.  A timeout leaves an   *)
(* empty map.                                                              *)
NoCode == 0
Answer == [shape : {"plain", "envelope"}, code : {NoCode, 200, 400, 503},
           cookie : BOOLEAN]
Timeout == [shape |-> "plain", code |-> NoCode, cookie |-> FALSE]
Yes == {a \in Answer : a.code = 200}
No  == {a \in Answer : a.code \notin {NoCode, 200} /\ ~a.cookie}

(* What invokeMethod() makes of it: status is 200 unless a code is at hand. *)
Status(answer) == IF answer.shape = "plain" /\ answer.code # NoCode
                  THEN answer.code ELSE 200

(* isSuccess(): only a code that was read counts.                          *)
IsSuccess_Slip(answer) == Status(answer) = 200
IsSuccess(answer) == answer.code = 200

(* classifyVerify().                                                       *)
ClassifyVerify(answer) ==
  CASE answer.code = 200 -> "ok"
    [] answer.code = 503 -> "wrong"
    [] OTHER -> "unknown"

(* classifyAnswer() on what was heard, with the attempts that are left.    *)
Heard == {"code", "words", "nothing"}
ClassifyAnswer(heard, attemptsLeft, silentLeft) ==
  CASE heard = "code" -> "accept"
    [] heard = "nothing" -> IF silentLeft > 0 THEN "silent" ELSE "giveUp"
    [] heard = "words" -> IF attemptsLeft > 0 THEN "format" ELSE "giveUp"

(* forceFetch: past the cache of the service.                              *)
ForceFetch_Slip == FALSE
ForceFetch == TRUE

(* params.clear() before the password goes into the map.                   *)
Cleared_Slip == params
Cleared == FALSE

-----------------------------------------------------------------------------
Init ==
  /\ config \in {"phone", "email", "none"}
  /\ node = [attempted |-> FALSE, ready |-> FALSE, failed |-> FALSE]
  /\ probe = [running |-> FALSE, retry |-> 0, inFlight |-> FALSE]
  /\ waiting = 0
  /\ isLogin = FALSE /\ loggingIn = FALSE /\ at = "idle"
  /\ cookie \in BOOLEAN /\ params = FALSE /\ success = FALSE
  /\ attempts = 0 /\ silent = 0 /\ canAsk = FALSE /\ said = FALSE
  /\ sms = 0 /\ prompted = FALSE /\ leaked = FALSE
  /\ cached \in BOOLEAN

(* A request for music before the log-in: ensureNodeStarted() starts the   *)
(* service once; its directory may be missing.                             *)
StartNode(found) ==
  /\ ~isLogin /\ ~node.attempted
  /\ node' = [node EXCEPT !.attempted = TRUE, !.failed = ~found]
  /\ probe' = [probe EXCEPT !.running = found]
  /\ waiting' = IF found THEN 1 ELSE 0
  /\ UNCHANGED <<config, loginVars, askVars, smsVars>>

(* A further request waits as well, in an event loop of its own, unless    *)
(* the outcome is known.                                                   *)
WaitForNode ==
  /\ ~isLogin /\ node.attempted /\ ~node.ready /\ ~node.failed
  /\ waiting < MaxWaiting
  /\ waiting' = waiting + 1
  /\ UNCHANGED <<config, node, probe, loginVars, askVars, smsVars>>

(* The readiness timer.                                                    *)
ProbeNode ==
  /\ probe.running
  /\ IF node.ready \/ node.failed
     THEN probe' = [probe EXCEPT !.running = FALSE] /\ UNCHANGED node
     ELSE /\ ~probe.inFlight
          /\ IF probe.retry + 1 > MaxProbes
             THEN /\ probe' = [probe EXCEPT !.running = FALSE, !.retry = @ + 1]
                  /\ node' = [node EXCEPT !.failed = TRUE]
             ELSE /\ probe' = [probe EXCEPT !.inFlight = TRUE, !.retry = @ + 1]
                  /\ UNCHANGED node
  /\ UNCHANGED <<config, waiting, loginVars, askVars, smsVars>>

(* Any status of HTTP shows that the service listens.                      *)
ProbeAnswered(http) ==
  /\ probe.inFlight
  /\ node' = [node EXCEPT !.ready = @ \/ http]
  /\ probe' = [probe EXCEPT !.inFlight = FALSE, !.running = @ /\ ~http]
  /\ UNCHANGED <<config, waiting, loginVars, askVars, smsVars>>

(* The process could not be started.                                       *)
FailedToStart ==
  /\ node.attempted /\ ~node.ready /\ ~node.failed
  /\ node' = [node EXCEPT !.failed = TRUE]
  /\ probe' = [probe EXCEPT !.running = FALSE]
  /\ UNCHANGED <<config, waiting, loginVars, askVars, smsVars>>

(* waitForNodeReady() gives up at its deadline or when the start failed.   *)
GiveUpNode ==
  /\ waiting > 0 /\ ~node.ready
  /\ waiting' = waiting - 1
  /\ UNCHANGED <<config, node, probe, loginVars, askVars, smsVars>>

(* A request that waited while another logged in finds the log-in done.    *)
FindLoggedIn ==
  /\ waiting > 0 /\ isLogin /\ ~loggingIn
  /\ waiting' = waiting - 1
  /\ UNCHANGED <<config, node, probe, loginVars, askVars, smsVars>>

-----------------------------------------------------------------------------
(* login(), for a request that waited or for a new one.  A request that    *)
(* comes in the event loops of login() is turned away.                     *)
Login(can) ==
  /\ node.ready /\ ~isLogin
  /\ IF loggingIn THEN UNCHANGED <<waiting, loginVars, askVars, smsVars>>
     ELSE /\ waiting' \in {w \in 0..MaxWaiting : w + 1 = waiting \/ w = waiting}
          /\ loggingIn' = TRUE /\ at' = "status" /\ params' = cookie
          /\ success' = FALSE /\ canAsk' = can
          /\ sms' = 0 /\ prompted' = FALSE
          /\ UNCHANGED <<isLogin, cookie, attempts, silent, said, leaked, cached>>
  /\ UNCHANGED <<config, node, probe>>

Goto(step) == at' = step
Tried(answer) ==
  /\ success' = IsSuccess(answer)
  /\ isLogin' = IsSuccess(answer)
  /\ cookie' = (cookie \/ (IsSuccess(answer) /\ answer.cookie))
loginFrame == <<config, nodeVars, loggingIn>>

(* /login/status.                                                          *)
StatusAnswered(answer, anonymous) ==
  /\ at = "status"
  /\ IF ~cookie \/ anonymous \/ Status(answer) # 200
     THEN /\ Goto(IF config = "none" THEN "guest" ELSE "password")
          /\ params' = (IF config = "none" THEN params ELSE Cleared)
          /\ UNCHANGED isLogin
     ELSE Goto("style") /\ isLogin' = TRUE /\ UNCHANGED params
  /\ UNCHANGED <<loginFrame, cookie, success, askVars, smsVars>>

(* /login or /login/cellphone with the password.                           *)
PasswordAnswered(answer) ==
  /\ at = "password"
  /\ Tried(answer)
  /\ leaked' = (leaked \/ params)
  /\ CASE success' /\ cookie' -> Goto("style")
       [] ~(success' /\ cookie') /\ config = "phone" /\ canAsk -> Goto("send1")
       [] OTHER -> Goto("guest")
  /\ UNCHANGED <<loginFrame, params, askVars, sms, prompted, cached>>

(* sendCaptcha(): the new endpoint, and the old one if the new one surely  *)
(* failed.  The message is sent when the service says yes, or its answer   *)
(* is lost.                                                                *)
SendsTwice_Slip(answer) == ~IsSuccess(answer)
SendsTwice(answer) == answer.code # NoCode /\ ~IsSuccess(answer)
FromCache == cached /\ ~ForceFetch
CaptchaSent(answer, sent) ==
  /\ at \in {"send1", "send2"}
  /\ FromCache => IsSuccess(answer) /\ ~sent
  /\ sent => sms < 3
  /\ sms' = IF sent THEN sms + 1 ELSE sms
  /\ cached' = (cached \/ IsSuccess(answer))
  /\ CASE IsSuccess(answer) ->
            Goto("question") /\ prompted' = TRUE /\ attempts' = 0 /\ silent' = 0
       [] ~IsSuccess(answer) /\ SendsTwice(answer) /\ at = "send1" ->
            Goto("send2") /\ UNCHANGED <<prompted, attempts, silent>>
       [] OTHER -> Goto("guest") /\ UNCHANGED <<prompted, attempts, silent>>
  /\ UNCHANGED <<loginFrame, isLogin, cookie, params, success, canAsk, said, leaked>>
CacheExpires ==
  /\ cached /\ cached' = FALSE
  /\ UNCHANGED <<config, nodeVars, loginVars, askVars, sms, prompted, leaked>>

(* question() returns, or the time to ask is over.                         *)
CodeHeard(heard, right) ==
  /\ at = "question"
  /\ said' = right
  /\ CASE ClassifyAnswer(heard, MaxAttempts - attempts, MaxSilent - silent) = "accept" ->
            Goto("verify") /\ UNCHANGED <<attempts, silent>>
       [] ClassifyAnswer(heard, MaxAttempts - attempts, MaxSilent - silent) = "silent" ->
            silent' = silent + 1 /\ UNCHANGED <<attempts, at>>
       [] ClassifyAnswer(heard, MaxAttempts - attempts, MaxSilent - silent) = "format" ->
            /\ attempts' = attempts + 1 /\ UNCHANGED silent
            /\ Goto(IF attempts + 1 < MaxAttempts THEN "question" ELSE "guest")
       [] OTHER -> Goto("guest") /\ UNCHANGED <<attempts, silent>>
  /\ UNCHANGED <<loginFrame, isLogin, cookie, params, success, canAsk, smsVars>>
DeadlinePassed ==
  /\ at = "question" /\ attempts + silent > 0
  /\ Goto("guest")
  /\ UNCHANGED <<loginFrame, isLogin, cookie, params, success, askVars, smsVars>>

(* /captcha/verify: only a code that is surely wrong is asked for again.   *)
Verified(answer) ==
  /\ at = "verify"
  /\ IF ClassifyVerify(answer) = "wrong"
     THEN /\ attempts' = attempts + 1
          /\ Goto(IF attempts + 1 < MaxAttempts THEN "question" ELSE "guest")
     ELSE Goto("captcha") /\ UNCHANGED attempts
  /\ UNCHANGED <<loginFrame, isLogin, cookie, params, success, silent, canAsk, said, smsVars>>

(* /login/cellphone with the code.                                         *)
CaptchaAnswered(answer) ==
  /\ at = "captcha"
  /\ IF IsSuccess(answer) THEN Tried(answer) ELSE UNCHANGED <<isLogin, success, cookie>>
  /\ Goto(IF success' /\ cookie' THEN "style" ELSE "guest")
  /\ UNCHANGED <<loginFrame, params, askVars, smsVars>>

(* /register/anonimous: the guest is logged in whatever the answer.        *)
GuestStays_Slip(answer) == Status(answer) = 200
GuestStays(answer) == TRUE
GuestAnswered(answer) ==
  /\ at = "guest"
  /\ cookie' = (cookie \/ (Status(answer) = 200 /\ answer.cookie))
  /\ IF GuestStays(answer)
     THEN isLogin' = TRUE /\ Goto("style") /\ UNCHANGED loggingIn
     ELSE isLogin' = FALSE /\ Goto("idle") /\ loggingIn' = FALSE
  /\ UNCHANGED <<config, nodeVars, params, success, askVars, smsVars>>

(* /style/preference, and login() returns.                                 *)
StyleAnswered ==
  /\ at = "style"
  /\ loggingIn' = FALSE /\ Goto("idle")
  /\ UNCHANGED <<config, nodeVars, isLogin, cookie, params, success, askVars, smsVars>>

-----------------------------------------------------------------------------
Replies ==
  \/ \E answer \in Yes \cup No \cup {Timeout}, anonymous \in BOOLEAN :
       StatusAnswered(answer, anonymous)
  \/ \E answer \in Yes \cup No \cup {Timeout} : PasswordAnswered(answer)
  \/ \E answer \in Yes : CaptchaSent(answer, ~FromCache)
  \/ \E answer \in No : CaptchaSent(answer, FALSE)
  \/ \E sent \in BOOLEAN : CaptchaSent(Timeout, sent)
  \/ \E heard \in Heard, right \in BOOLEAN : CodeHeard(heard, right)
  \/ DeadlinePassed
  \/ \E answer \in (IF said THEN Yes ELSE No) \cup {Timeout} :
       Verified(answer) \/ CaptchaAnswered(answer)
  \/ \E answer \in Yes \cup No \cup {Timeout} : GuestAnswered(answer)
  \/ StyleAnswered

Next ==
  \/ \E found \in BOOLEAN : StartNode(found)
  \/ WaitForNode \/ ProbeNode \/ FailedToStart \/ GiveUpNode \/ FindLoggedIn
  \/ \E http \in BOOLEAN : ProbeAnswered(http)
  \/ \E can \in BOOLEAN : Login(can)
  \/ CacheExpires
  \/ Replies

Spec == Init /\ [][Next]_neteaseLoginVars
(* Every wait of login() has a timeout, and question() returns.            *)
FairSpec == Spec /\ WF_neteaseLoginVars(Replies) /\ WF_neteaseLoginVars(GiveUpNode)

-----------------------------------------------------------------------------
(* The user is told that a code was sent only after one was: comment of    *)
(* neteasemusic.cpp:641-643.                                               *)
PromptedMeansSent == prompted => sms > 0

(* One log-in sends one message, whatever gets lost                        *)
(* (neteasemusic.cpp:807-808).                                             *)
OneMessage == sms <= 1

(* A password is not sent together with an old session, although the map   *)
(* of parameters is used again (neteasemusic.cpp:574-582).                 *)
NoOldSession == ~leaked

(* A log-in that begins ends, in the worst case as a guest.                *)
LoginEnds == loggingIn ~> (~loggingIn /\ isLogin)
=============================================================================
