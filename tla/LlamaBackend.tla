---------------------------- MODULE LlamaBackend ----------------------------
(***************************************************************************)
(* The backend that runs a model in this process                           *)
(* (Utils/LLM/LlamaCppBackend.cpp over Utils/LLM/LlamaApi.cpp).            *)
(*                                                                         *)
(* chat() starts a thread that generates under inferMutex and posts its    *)
(* callbacks to the main thread; complete() generates on the main thread,  *)
(* which handles no event meanwhile.                                       *)
(*                                                                         *)
(* llama.cpp is external: decode appends to the context, which holds NCtx  *)
(* tokens, and may fail; sample gives a token or the end.                  *)
(***************************************************************************)
EXTENDS Naturals, Sequences

CONSTANTS
  Requests,    (* requests ever made with chat()                             *)
  Dirs,        (* number of directories llama.dll is searched in             *)
  NCtx,        (* nCtx                                                       *)
  Limit,       (* maxTokens of a request                                     *)
  Margin,      (* the tokens generate() leaves free                          *)
  Prompts,     (* lengths of prompts                                         *)
  AbortIds,    (* ids abort() is called with; 0 is the empty one             *)
  MaxSyncs     (* bound on the calls of complete()                           *)

VARIABLES
  inMap,       (* LLMManager has the backend                                 *)
  abortId,     (* the request to stop; 0 is the empty id                     *)
  worker,      (* of each request: fresh, waiting, running, over             *)
  prompt,      (* length of each request's prompt; 0 is complete()           *)
  sync,        (* the main thread: free, waits for inferMutex, generates     *)
  syncs,       (* number of calls of complete()                              *)
  used,        (* external: tokens in the context                            *)
  left,        (* tokens the generation in progress may still produce        *)
  posted,      (* callbacks posted to the main thread                        *)
  heard,       (* history: calls of onChunk                                  *)
  ended,       (* history: calls of onDone                                   *)
  refused,     (* history: a request that fits was refused                   *)
  aborted      (* history: requests in flight when abort("") was called      *)

llamaVars == <<inMap, abortId, worker, prompt, sync, syncs, used, left, posted,
               heard, ended, aborted, refused>>
runVars == <<inMap, syncs, prompt>>

(* "nothing": no library, or not all of its symbols.                       *)
Holds == {"nothing", "no backends", "all"}

Init ==
  /\ inMap = FALSE /\ abortId = 0
  /\ worker = [r \in Requests |-> "fresh"] /\ prompt \in [Requests \cup {0} -> Prompts]
  /\ sync = "free" /\ syncs = 0 /\ used = 0 /\ left = 0
  /\ posted = <<>>
  /\ heard = [r \in Requests |-> 0] /\ ended = [r \in Requests |-> 0]
  /\ refused = FALSE /\ aborted = {}

(* load(): the first directory whose library has every required symbol.    *)
Loaded(found) ==
  \E d \in 1..Dirs : /\ found[d] = "all"
                     /\ \A e \in 1..(d - 1) : found[e] = "nothing"

(* load(): the model's file, its weights, then its context.                *)
Load(found, has) == Loaded(found) /\ {"file", "weights", "context"} \subseteq has

(* initialize(): a backend whose model does not load is not put in the     *)
(* map; without compute backends no model loads.                           *)
Initialize ==
  /\ ~inMap
  /\ \E found \in [1..Dirs -> Holds], has \in SUBSET {"file", "weights", "context"} :
        inMap' = Load(found, has)
  /\ UNCHANGED <<abortId, worker, prompt, sync, syncs, used, left, posted, heard, ended,
                 aborted, refused>>

-----------------------------------------------------------------------------
Main == inMap /\ sync = "free"
InferMutexFree == sync # "generates" /\ \A r \in Requests : worker[r] # "running"
InFlight == {r \in Requests : worker[r] # "fresh" /\ ended[r] = 0}

Chat(r) ==
  /\ Main /\ worker[r] = "fresh"
  /\ worker' = [worker EXCEPT ![r] = "waiting"]
  /\ UNCHANGED <<runVars, abortId, sync, used, left, posted, heard, ended,
                 aborted, refused>>

Complete ==
  /\ Main /\ syncs < MaxSyncs
  /\ sync' = "waits" /\ syncs' = syncs + 1
  /\ UNCHANGED <<inMap, abortId, worker, prompt, used, left, posted, heard, ended,
                 aborted, refused>>

(* abort(""), which clears the id, or abort(requestId), which only         *)
(* LLMManager::abort() passes on.                                          *)
Abort(id) ==
  /\ Main /\ InFlight # {}
  /\ abortId' = id
  /\ aborted' = IF id = 0 THEN aborted \cup InFlight ELSE aborted
  /\ UNCHANGED <<runVars, worker, sync, used, left, posted, heard, ended, refused>>

(* An event of the main thread.                                            *)
Dispatch ==
  /\ Main /\ posted # <<>>
  /\ LET event == Head(posted)
     IN  IF event.done
         THEN ended' = [ended EXCEPT ![event.of] = @ + 1] /\ UNCHANGED heard
         ELSE heard' = [heard EXCEPT ![event.of] = @ + 1] /\ UNCHANGED ended
  /\ posted' = Tail(posted)
  /\ UNCHANGED <<runVars, abortId, worker, sync, used, left, aborted, refused>>

-----------------------------------------------------------------------------
(* generate(), by a worker or, for r = 0, by the main thread.              *)
IsAbortRequested == abortId # 0
Fits(n) == n + Limit + Margin <= NCtx

Generating(r) == IF r = 0 THEN sync = "generates" ELSE worker[r] = "running"
Over(r) == IF r = 0 THEN sync' = "free" /\ UNCHANGED worker
                    ELSE worker' = [worker EXCEPT ![r] = "over"] /\ UNCHANGED sync

Chunk(r) == [of |-> r, done |-> FALSE]
Done(r)  == [of |-> r, done |-> TRUE]

(* A callback is posted and the worker goes on.                            *)
CanPost_Slip(r) == r = 0 \/ sync = "free"
CanPost(r) == TRUE
Post_Slip(r, events) ==
  /\ posted' = IF Done(r) \in {events[i] : i \in DOMAIN events}
               THEN <<Done(r)>> \o posted ELSE posted \o events
Post(r, events) ==
  /\ posted' = posted \o events

(* The callbacks of a worker; the main thread has none in complete().      *)
Callbacks(r, events) ==
  /\ CanPost(r)
  /\ IF r = 0 THEN UNCHANGED posted ELSE Post(r, events)

Begin(r) ==
  /\ InferMutexFree
  /\ IF r = 0 THEN sync = "waits" /\ sync' = "generates" /\ UNCHANGED worker
     ELSE worker[r] = "waiting" /\ worker' = [worker EXCEPT ![r] = "running"] /\ UNCHANGED sync
  /\ left' = Limit + 1
  /\ UNCHANGED <<runVars, abortId, used, posted, heard, ended, aborted, refused>>

(* External: llama_decode, which asks the abort callback.                  *)
Decodes(n) == used + n <= NCtx /\ ~IsAbortRequested

(* The whole prompt is decoded, or refused.                                *)
DecodePrompt(r) ==
  /\ Generating(r) /\ left = Limit + 1
  /\ Fits(prompt[r]) /\ Decodes(prompt[r])
  /\ used' = used + prompt[r]
  /\ left' = Limit
  /\ UNCHANGED <<runVars, abortId, worker, sync, posted, heard, ended, aborted, refused>>

(* No text was produced, or it is thrown away with an error.               *)
Refuse(r) ==
  /\ Generating(r) /\ left = Limit + 1
  /\ ~Fits(prompt[r]) \/ ~Decodes(prompt[r])
  /\ Over(r)
  /\ Callbacks(r, <<Done(r)>>)
  /\ refused' = (refused \/ Fits(prompt[r]))
  /\ UNCHANGED <<runVars, abortId, used, left, heard, ended, aborted>>

(* A token: its text is handed over, then it is decoded.                   *)
Token(r) ==
  /\ Generating(r) /\ left \in 1..Limit
  /\ IF Decodes(1)
     THEN /\ used' = used + 1 /\ left' = left - 1
          /\ Callbacks(r, <<Chunk(r)>>)
          /\ UNCHANGED <<worker, sync, refused>>
     ELSE /\ Over(r) /\ refused' = TRUE
          /\ Callbacks(r, <<Chunk(r), Done(r)>>)
          /\ UNCHANGED <<used, left>>
  /\ UNCHANGED <<runVars, abortId, heard, ended, aborted>>

(* shouldAbort() compares abortId with a local variable of chat(), which   *)
(* has returned: whatever it reads there.                                  *)
Stops(r) ==
  /\ Generating(r) /\ r # 0 /\ left \in 1..Limit
  /\ abortId # 0
  /\ Over(r)
  /\ Callbacks(r, IF left = Limit THEN <<Done(r)>> ELSE <<Chunk(r), Done(r)>>)
  /\ UNCHANGED <<runVars, abortId, used, left, heard, ended, aborted, refused>>

(* The end token, or the limit.                                            *)
Ends(r) ==
  /\ Generating(r) /\ left \in 0..Limit
  /\ Over(r)
  /\ Callbacks(r, <<Chunk(r), Done(r)>>)
  /\ UNCHANGED <<runVars, abortId, used, left, heard, ended, aborted, refused>>

Infer(r) == Begin(r) \/ DecodePrompt(r) \/ Refuse(r) \/ Token(r) \/ Stops(r) \/ Ends(r)

Next ==
  \/ Initialize \/ Complete \/ Dispatch
  \/ \E id \in AbortIds : Abort(id)
  \/ \E r \in Requests : Chat(r)
  \/ \E r \in Requests \cup {0} : Infer(r)

Spec == Init /\ [][Next]_llamaVars

(* The threads run, and the main thread handles its events.                *)
FairSpec == Spec /\ WF_llamaVars(Dispatch)
                 /\ \A r \in Requests \cup {0} : WF_llamaVars(Infer(r))

-----------------------------------------------------------------------------
(* LLMBackend.h:30-38: every request gets its pieces and then one onDone,   *)
(* in the order of the generation, although they cross threads.            *)
Promise == INSTANCE LLMBackend WITH open <- InFlight
KeepsPromise == Promise!Spec

(* Every request is answered, also while complete() holds the main thread  *)
(* or waits for the mutex a worker holds (LlamaCppBackend.cpp:429-432).    *)
EveryoneServed ==
  /\ \A r \in Requests : worker[r] = "waiting" ~> ended[r] = 1
  /\ sync = "waits" ~> sync = "free"

(* LLMBackend.h:40-42: abort("") ends all requests in flight.              *)
AbortStops == [][\A r \in aborted : heard'[r] = heard[r]]_llamaVars

(* A request that fits into nCtx is not refused (LlamaCppBackend.cpp:308). *)
FitsIsServed == ~refused
=============================================================================
