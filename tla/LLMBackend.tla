----------------------------- MODULE LLMBackend -----------------------------
(***************************************************************************)
(* What a backend for language models promises (Utils/LLM/LLMBackend.h):   *)
(* a request gets pieces of its reply through onChunk and then one call of *)
(* onDone, and after that nothing; abort() ends requests at once.          *)
(***************************************************************************)
EXTENDS Naturals

CONSTANT Requests

VARIABLES
  open,      (* requests that were made and not answered                     *)
  heard,     (* number of calls of a request's onChunk                       *)
  ended      (* number of calls of its onDone                                *)

backendVars == <<open, heard, ended>>

Init == open = {} /\ heard = [r \in Requests |-> 0] /\ ended = [r \in Requests |-> 0]

Finished(R) == ended' = [r \in Requests |-> ended[r] + IF r \in R THEN 1 ELSE 0]

Chat(r) ==
  /\ r \notin open /\ ended[r] = 0
  /\ open' = open \cup {r}
  /\ UNCHANGED <<heard, ended>>

(* A request the backend cannot even post is done when chat() returns.     *)
Refuse(r) ==
  /\ r \notin open /\ ended[r] = 0
  /\ Finished({r})
  /\ UNCHANGED <<open, heard>>

Chunks(r) ==
  /\ r \in open
  /\ heard' = [heard EXCEPT ![r] = heard'[r]] /\ heard'[r] >= heard[r]
  /\ UNCHANGED <<open, ended>>

Done(r) ==
  /\ r \in open
  /\ open' = open \ {r}
  /\ heard' = [heard EXCEPT ![r] = heard'[r]] /\ heard'[r] >= heard[r]
  /\ Finished({r})

(* abort(requestId), or abort("") for all.                                 *)
Abort(R) ==
  /\ open' = open \ R
  /\ Finished(R)
  /\ UNCHANGED heard

Next == \/ \E r \in Requests : Chat(r) \/ Refuse(r) \/ Chunks(r) \/ Done(r)
        \/ \E R \in SUBSET open : Abort(R)

Spec == Init /\ [][Next]_backendVars
=============================================================================
