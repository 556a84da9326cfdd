---------------------------- MODULE OpenAIBackend ----------------------------
(***************************************************************************)
(* The backend that asks an HTTP endpoint                                  *)
(* (Utils/LLM/OpenAICompatibleBackend.cpp).                                *)
(*                                                                         *)
(* A reply is sent in lines or comes as a whole.  complete() waits in  *)
(* an event loop for a whole reply; in that loop anything else may happen, *)
(* another complete() too, so that these calls form a stack.               *)
(*                                                                         *)
(* A line is a piece of text, a fragment of tool call 1, 2, ..., or an     *)
(* error.  Its bytes are abstracted: a line counts as arrived with its     *)
(* newline, the bytes of the next one wait in the buffer.                  *)
(***************************************************************************)
EXTENDS Naturals, Sequences, FiniteSets, SequencesExt

CONSTANTS
  Requests,    (* requests ever made                                         *)
  MaxIndex,    (* bound on the tool calls of a reply                         *)
  MaxLines     (* bound on the lines of a reply                              *)

VARIABLES
  net,         (* external: fresh, open, complete, failed, closed            *)
  arrived,     (* lines that arrived and were not read                       *)
  states,      (* requests in the table                                      *)
  stream,      (* requests with stream set                                   *)
  partialCalls,(* number of fragments read, of each tool call                *)
  syncs,       (* complete() in progress, innermost last                     *)
  syncDone,    (* those whose flag done is set                               *)
  heard,       (* history: calls of onChunk                                  *)
  ended,       (* history: calls of onDone                                   *)
  told,        (* history: what onDone was told                              *)
  sent,        (* history: the lines the server sent                         *)
  broken,      (* history: requests whose connection failed                  *)
  calls        (* history: the tool calls handed over, their fragments       *)

TextLine  == 0
ErrorLine == MaxIndex + 1
Lines     == 0..ErrorLine
Indices   == 1..MaxIndex
NoCalls   == [i \in Indices |-> 0]

openaiVars == <<net, arrived, states, stream, partialCalls, syncs, syncDone, heard, ended,
                told, sent, broken, calls>>

Each(value) == [r \in Requests |-> value]

Init ==
  /\ net = Each("fresh") /\ arrived = Each(<<>>)
  /\ states = {} /\ stream = {} /\ partialCalls = Each(NoCalls)
  /\ syncs = <<>> /\ syncDone = {}
  /\ heard = Each(0) /\ ended = Each(0) /\ told = Each("nothing")
  /\ sent = Each(<<>>) /\ broken = {} /\ calls = Each(NoCalls)

(* onDone(what) of the requests R; a complete() among them notes it.       *)
OnDone(R, what) ==
  /\ ended' = [r \in Requests |-> ended[r] + IF r \in R THEN 1 ELSE 0]
  /\ told' = [r \in Requests |-> IF r \in R THEN what ELSE told[r]]
  /\ syncDone' = syncDone \cup (R \cap ToSet(syncs))

-----------------------------------------------------------------------------
Post(r) ==
  /\ net[r] = "fresh"
  /\ net' = [net EXCEPT ![r] = "open"]
  /\ states' = states \cup {r}
  /\ UNCHANGED <<arrived, partialCalls, heard, sent, broken, calls>>

Chat(r, streaming) ==
  /\ Post(r)
  /\ stream' = IF streaming THEN stream \cup {r} ELSE stream
  /\ UNCHANGED <<syncs, syncDone, ended, told>>

(* chat() with an empty id.                                                *)
Refused(r) ==
  /\ net[r] = "fresh"
  /\ net' = [net EXCEPT ![r] = "closed"]
  /\ OnDone({r}, "error")
  /\ UNCHANGED <<arrived, states, stream, partialCalls, syncs, heard, sent, broken, calls>>

Complete(r) ==
  /\ Post(r)
  /\ syncs' = Append(syncs, r)
  /\ UNCHANGED <<stream, syncDone, ended, told>>

-----------------------------------------------------------------------------
(* External.                                                               *)
Send(r, line) ==
  /\ net[r] = "open" /\ Len(sent[r]) < MaxLines
  /\ arrived' = [arrived EXCEPT ![r] = Append(@, line)]
  /\ sent' = [sent EXCEPT ![r] = Append(@, line)]
  /\ UNCHANGED <<net, states, stream, partialCalls, syncs, syncDone, heard, ended, told, broken, calls>>

Close(r, how) ==
  /\ net[r] = "open"
  /\ net' = [net EXCEPT ![r] = how]
  /\ broken' = IF how = "failed" THEN broken \cup {r} ELSE broken
  /\ UNCHANGED <<arrived, states, stream, partialCalls, syncs, syncDone, heard, ended, told,
                 sent, calls>>

-----------------------------------------------------------------------------
(* handleStreamData.  The lines up to an error, and what they hold.        *)
HasError(lines) == ErrorLine \in ToSet(lines)
Handled(lines) == {k \in DOMAIN lines : \A j \in 1..k : lines[j] # ErrorLine}
BeforeError(lines) == SubSeq(lines, 1, Cardinality(Handled(lines)))
Count(lines, kind) == Cardinality({k \in DOMAIN lines : lines[k] = kind})
Texts(lines) == Count(lines, TextLine)
Fragments(lines) == [i \in Indices |-> Count(lines, i)]

(* The fragments of each call are put together, by index.                  *)
Merged_Slip(partial, lines) ==
  [i \in Indices |-> IF Fragments(lines)[i] > 0 THEN Fragments(lines)[i] ELSE partial[i]]
Merged(partial, lines) ==
  [i \in Indices |-> partial[i] + Fragments(lines)[i]]

Read(r) ==
  /\ arrived' = [arrived EXCEPT ![r] = <<>>]
  /\ partialCalls' = [partialCalls EXCEPT ![r] = Merged(@, BeforeError(arrived[r]))]

ReadyRead(r) ==
  /\ net[r] = "open" /\ r \in states \cap stream /\ arrived[r] # <<>>
  /\ Read(r)
  /\ heard' = [heard EXCEPT ![r] = @ + Texts(BeforeError(arrived[r]))
                                     + IF HasError(arrived[r]) THEN 1 ELSE 0]
  /\ IF HasError(arrived[r])
     THEN OnDone({r}, "error") /\ states' = states \ {r}
     ELSE UNCHANGED <<states, ended, told, syncDone>>
  /\ UNCHANGED <<net, stream, syncs, sent, broken, calls>>

(* finished, for a request that is not in the table any more.              *)
FinishedLate(r) ==
  /\ net[r] \in {"complete", "failed"} /\ r \notin states
  /\ net' = [net EXCEPT ![r] = "closed"]
  /\ UNCHANGED <<arrived, states, stream, partialCalls, syncs, syncDone, heard, ended, told,
                 sent, broken, calls>>

(* finished: the request leaves the table.                                 *)
Finish(r) ==
  /\ net[r] \in {"complete", "failed"} /\ r \in states
  /\ net' = [net EXCEPT ![r] = "closed"]
  /\ states' = states \ {r}

(* Of a stream the rest is read, and the tool calls are handed over.       *)
(* reply->error() is not looked at.                                        *)
StreamFinished(r) ==
  /\ Finish(r) /\ r \in stream
  /\ Read(r)
  /\ LET merged == partialCalls'[r]
         error  == HasError(arrived[r])
     IN  /\ calls' = [calls EXCEPT ![r] = IF error THEN NoCalls ELSE merged]
         /\ heard' = [heard EXCEPT ![r] = @ + Texts(BeforeError(arrived[r])) + 1
                                            + IF error \/ merged = NoCalls THEN 0 ELSE 1]
         /\ OnDone({r}, IF error THEN "error" ELSE "ok")
  /\ UNCHANGED <<stream, syncs, sent, broken>>

(* A whole reply: what it holds is one chunk.                              *)
WholeFinished(r) ==
  /\ Finish(r) /\ r \notin stream
  /\ arrived' = [arrived EXCEPT ![r] = <<>>]
  /\ heard' = [heard EXCEPT ![r] = @ + IF net[r] = "complete" THEN 1 ELSE 0]
  /\ calls' = [calls EXCEPT ![r] = IF net[r] = "complete" THEN Fragments(arrived[r]) ELSE NoCalls]
  /\ OnDone({r}, IF net[r] = "complete" THEN "ok" ELSE "error")
  /\ UNCHANGED <<partialCalls, stream, syncs, sent, broken>>

-----------------------------------------------------------------------------
(* abort(): also the connections are closed, and their finished ignored.   *)
Kept_Slip(R) == states
Kept(R) == states \ R
Abort(R) ==
  /\ states' = Kept(R)
  /\ net' = [r \in Requests |-> IF r \in R THEN "closed" ELSE net[r]]
  /\ OnDone(R, "aborted")
  /\ UNCHANGED <<arrived, stream, partialCalls, syncs, heard, sent, broken, calls>>

(* LLMSession and LLMNLU abort everything the backend does.                *)
AbortAll == states # {} /\ Abort(states)

(* The timer of complete().                                                *)
Waiting_Slip(r) == r \in ToSet(syncs) \ syncDone /\ arrived[r] # <<>>
Waiting(r) == r \in ToSet(syncs) \ syncDone
Timeout(r) == Waiting(r) /\ Abort({r} \cap states)

Return ==
  /\ syncs # <<>> /\ Last(syncs) \in syncDone
  /\ syncs' = Front(syncs)
  /\ syncDone' = syncDone \ {Last(syncs)}
  /\ UNCHANGED <<net, arrived, states, stream, partialCalls, heard, ended, told, sent, broken,
                 calls>>

-----------------------------------------------------------------------------
Next ==
  \/ \E r \in Requests :
       \/ \E streaming \in BOOLEAN : Chat(r, streaming)
       \/ Refused(r) \/ Complete(r)
       \/ \E line \in Lines : Send(r, line)
       \/ \E how \in {"complete", "failed"} : Close(r, how)
       \/ ReadyRead(r) \/ FinishedLate(r) \/ StreamFinished(r) \/ WholeFinished(r)
       \/ Timeout(r)
  \/ AbortAll \/ Return

Spec == Init /\ [][Next]_openaiVars

(* The timers run, and a loop that was told to quit does.                  *)
Timers == \E r \in Requests : Timeout(r)
FairSpec == Spec /\ WF_openaiVars(Timers) /\ WF_openaiVars(Return)

-----------------------------------------------------------------------------
(* LLMBackend.h:30-43: every request is done once, and nothing comes after  *)
(* that, whatever races with its abort, its timer and the end of its reply. *)
Promise == INSTANCE LLMBackend WITH open <- states
KeepsPromise == Promise!Spec

(* OpenAICompatibleBackend.cpp:334: a caller never stays in complete()     *)
(* for ever, although the backend itself knows no timeout and calls nest.  *)
CompleteReturns == \A r \in Requests : r \in ToSet(syncs) ~> r \notin ToSet(syncs)

(* However a stream is cut into pieces, the tool calls handed over have    *)
(* all the fragments the server sent (OpenAICompatibleBackend.cpp:195).    *)
CallsWhole ==
  \A r \in stream : told[r] = "ok" =>
    \A i \in Indices : calls[r][i] = Count(sent[r], i)

(* LLMBackend.h:36: an empty error means success.                          *)
DoneTellsFailure == \A r \in broken : told[r] # "ok"
=============================================================================
