--------------------------- MODULE NeteaseOfficial ---------------------------
(***************************************************************************)
(* The session of the NetEase plugin with the official platform            *)
(* (Plugins/neteasemusic/neteaseofficialclient.cpp, and the second half of *)
(* neteasemusic.cpp): an anonymous token on first use, a user's token by a *)
(* QR code, both kept in a file across restarts.                           *)
(*                                                                         *)
(* Every request waits in an event loop, in which the timer of the QR code *)
(* ticks on.                                                               *)
(***************************************************************************)
EXTENDS Naturals

CONSTANTS MaxPolls   (* the 120 polls of a QR code                           *)

VARIABLES
  session,         (* token, refresh token and userSession of the client     *)
  saved,           (* the same in the file                                   *)
  qrLogin,         (* config: a QR code is wanted                            *)
  officialTried,
  loggedIn,        (* isLogin                                                *)
  awaits,          (* what the first use waits for                           *)
  polls,           (* the QR code: shown, polls, requests in flight          *)
  userOnce         (* history: a user has logged in                          *)

officialVars == <<session, saved, qrLogin, officialTried, loggedIn, awaits, polls,
                  userOnce>>

NoSession == [token |-> FALSE, refresh |-> FALSE, user |-> FALSE]
NoCodeShown == [shown |-> FALSE, count |-> 0, inFlight |-> 0]

(* tokenChanged: a new token is saved at once.                             *)
Saved_Slip(new) == [new EXCEPT !.user = saved.user]
Saved(new) == new
Hold(new) == session' = new /\ saved' = Saved(new)

(* The program writes both tokens or none; a file with the refresh token   *)
(* alone is one somebody has edited.                                       *)
Edited == [token |-> FALSE, refresh |-> TRUE, user |-> TRUE]

Init ==
  /\ saved \in {NoSession, Edited} /\ session = saved
  /\ qrLogin \in BOOLEAN
  /\ officialTried = FALSE /\ loggedIn = FALSE /\ awaits = "nothing"
  /\ polls = NoCodeShown /\ userOnce = FALSE

(* The program starts again and loads the file.                            *)
Restart ==
  /\ session' = saved
  /\ officialTried' = FALSE /\ loggedIn' = FALSE /\ awaits' = "nothing"
  /\ polls' = NoCodeShown
  /\ UNCHANGED <<saved, qrLogin, userOnce>>

(* officialLogin() is left, and ensureNodeStarted() may show a QR code.    *)
Leave(token) ==
  /\ loggedIn' = token
  /\ awaits' = IF ~token /\ qrLogin /\ ~session'.user THEN "qrCode" ELSE "nothing"

(* officialLogin(): a token at hand is taken as it is.                     *)
FirstUse ==
  /\ ~officialTried /\ officialTried' = TRUE
  /\ UNCHANGED session
  /\ IF session.token THEN Leave(TRUE)
     ELSE /\ awaits' = IF session.refresh THEN "refresh" ELSE "anonymous"
          /\ UNCHANGED loggedIn
  /\ UNCHANGED <<saved, qrLogin, polls, userOnce>>
RefreshAnswered(ok) ==
  /\ awaits = "refresh"
  /\ IF ok THEN Hold([session EXCEPT !.token = TRUE]) /\ Leave(TRUE)
     ELSE awaits' = "anonymous" /\ UNCHANGED <<session, saved, loggedIn>>
  /\ UNCHANGED <<qrLogin, officialTried, polls, userOnce>>
AnonymousAnswered(ok) ==
  /\ awaits = "anonymous"
  /\ IF ok THEN Hold([token |-> TRUE, refresh |-> TRUE, user |-> FALSE])
           ELSE UNCHANGED <<session, saved>>
  /\ Leave(session'.token)
  /\ UNCHANGED <<qrLogin, officialTried, polls, userOnce>>

(* startOfficialQrLogin().                                                 *)
CodeAnswered(ok) ==
  /\ awaits = "qrCode" /\ awaits' = "nothing"
  /\ polls' = IF ok THEN [polls EXCEPT !.shown = TRUE, !.count = 0] ELSE polls
  /\ UNCHANGED <<session, saved, qrLogin, officialTried, loggedIn, userOnce>>

(* pollOfficialQrLogin(): a tick, and the answer to one of the requests in *)
(* flight; the answers of the outer calls come last.                       *)
AtLimit_Slip == polls
AtLimit == [polls EXCEPT !.shown = FALSE]
PollQrLogin ==
  /\ polls.shown
  /\ polls' = IF polls.count >= MaxPolls THEN AtLimit
              ELSE [polls EXCEPT !.count = @ + 1, !.inFlight = @ + 1]
  /\ UNCHANGED <<session, saved, qrLogin, officialTried, loggedIn, awaits, userOnce>>
QrPending ==
  /\ polls.inFlight > 0
  /\ polls' = [polls EXCEPT !.inFlight = @ - 1]
  /\ UNCHANGED <<session, saved, qrLogin, officialTried, loggedIn, awaits, userOnce>>
QrConfirmed ==
  /\ polls.inFlight > 0
  /\ Hold([token |-> TRUE, refresh |-> TRUE, user |-> TRUE])
  /\ polls' = [polls EXCEPT !.inFlight = @ - 1, !.shown = FALSE]
  /\ loggedIn' = TRUE /\ userOnce' = TRUE
  /\ UNCHANGED <<qrLogin, officialTried, awaits>>
QrExpired ==
  /\ polls.inFlight > 0
  /\ polls' = [polls EXCEPT !.inFlight = @ - 1, !.shown = FALSE]
  /\ UNCHANGED <<session, saved, qrLogin, officialTried, loggedIn, awaits, userOnce>>

Next ==
  \/ Restart \/ FirstUse \/ PollQrLogin \/ QrPending \/ QrConfirmed \/ QrExpired
  \/ \E ok \in BOOLEAN :
       RefreshAnswered(ok) \/ AnonymousAnswered(ok) \/ CodeAnswered(ok)

Spec == Init /\ [][Next]_officialVars
FairSpec == Spec /\ WF_officialVars(PollQrLogin)

-----------------------------------------------------------------------------
(* A user who has logged in stays logged in as a user, through restarts    *)
(* and late answers.                                                       *)
UserStays == userOnce => session.user /\ saved.user

(* A QR code that is polled is scanned, expires or is given up.            *)
QrEnds == polls.shown ~> ~polls.shown

(* With an anonymous token and a QR code wanted, the code is shown:        *)
(* comment of neteasemusic.cpp:354.                                        *)
QrOffered ==
  officialTried /\ awaits = "nothing" /\ qrLogin /\ polls.count = 0 => session.user
=============================================================================
