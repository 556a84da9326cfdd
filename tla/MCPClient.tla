------------------------------ MODULE MCPClient ------------------------------
(***************************************************************************)
(* A server of tools for the language model in a process of its own        *)
(* (Utils/LLM/MCPClient.cpp), with the registry its tools go to.           *)
(*                                                                         *)
(* Requests and responses are lines on the pipes of the process, matched   *)
(* by id.  request() waits in an event loop, in which another tool may be  *)
(* called.  The server is external: it answers late, in another order, or  *)
(* not at all, and may die.                                                *)
(***************************************************************************)
EXTENDS Naturals, FiniteSets

CONSTANTS
  MaxCalls,    (* bound on the requests sent                                 *)
  MaxPages     (* bound on the pages of tools/list                           *)

VARIABLES
  windows,      (* the build is for Windows                                  *)
  process,      (* none, running, dead                                       *)
  nextId,
  inFlight,     (* the request that waits: its method, id and number         *)
  owed,         (* external: requests the server may answer                  *)
  stdout,       (* external: answers on their way                            *)
  pending,      (* answers that were read                                    *)
  specs,        (* number of pages of tools that are known                   *)
  initialized,
  registered,   (* the tools are in the registry                             *)
  sent,         (* history: number of requests                               *)
  returned,     (* history: which request got whose answer                   *)
  crashed       (* history: the server died of itself                        *)

mcpVars == <<windows, process, nextId, inFlight, owed, stdout, pending, specs,
             initialized, registered, sent, returned, crashed>>

Idle == [method |-> "none", id |-> 0, number |-> 0]
Running == process = "running"

Init ==
  /\ windows \in BOOLEAN
  /\ process = "none" /\ nextId = 0 /\ inFlight = Idle
  /\ owed = {} /\ stdout = {} /\ pending = {}
  /\ specs = 0 /\ initialized = FALSE /\ registered = FALSE
  /\ sent = 0 /\ returned = {} /\ crashed = FALSE

(* request(): refused inside another one; else written with the next id.   *)
NewId_Slip == IF nextId = 0 THEN 1 ELSE nextId
NewId == nextId + 1
Request(method) ==
  /\ sent < MaxCalls
  /\ sent' = sent + 1
  /\ nextId' = NewId
  /\ inFlight' = [method |-> method, id |-> NewId, number |-> sent + 1]
  /\ owed' = owed \cup {[id |-> NewId, number |-> sent + 1]}

(* start(): the process, then initialize.                                  *)
Start ==
  /\ process = "none"
  /\ process' = "running"
  /\ Request("initialize")
  /\ UNCHANGED <<windows, stdout, pending, specs, initialized, registered,
                 returned, crashed>>

(* The server writes a line; the event loop reads what there is and leaves *)
(* when the answer is among it.                                            *)
Write(answer) ==
  /\ Running /\ answer \in owed
  /\ owed' = owed \ {answer} /\ stdout' = stdout \cup {answer}
  /\ UNCHANGED <<windows, process, nextId, inFlight, pending, specs, initialized,
                 registered, sent, returned, crashed>>
DrainBuffer == pending' = pending \cup stdout /\ stdout' = {}
ReadyRead ==
  /\ stdout # {} /\ inFlight # Idle
  /\ \A answer \in stdout \cup pending : answer.id # inFlight.id
  /\ DrainBuffer
  /\ UNCHANGED <<windows, process, nextId, inFlight, owed, specs, initialized,
                 registered, sent, returned, crashed>>

(* takeResponse().                                                         *)
Own == {answer \in pending \cup stdout : answer.id = inFlight.id}
Take(answer) ==
  /\ pending' = (pending \cup stdout) \ {answer} /\ stdout' = {}
  /\ returned' = returned \cup {[asked |-> inFlight.number, got |-> answer.number]}

(* start() returns.  On Windows the handle of the job object is a local of *)
(* it, and closing the handle kills what runs in the job.                  *)
Started ==
  /\ initialized' = TRUE /\ registered' = TRUE /\ inFlight' = Idle
  /\ process' = IF windows THEN "dead" ELSE process
  /\ UNCHANGED <<nextId, owed, sent>>

(* A request returns with its answer.                                      *)
Answered(more) ==
  /\ inFlight # Idle
  /\ \E answer \in Own : Take(answer)
  /\ CASE inFlight.method = "initialize" ->
            Request("tools/list") /\ UNCHANGED <<process, specs, initialized, registered>>
       [] inFlight.method = "tools/list" /\ more /\ specs < MaxPages ->
            /\ specs' = specs + 1
            /\ Request("tools/list") /\ UNCHANGED <<process, initialized, registered>>
       [] inFlight.method = "tools/list" /\ ~more ->
            specs' = specs + 1 /\ Started
       [] inFlight.method = "tools/call" ->
            /\ inFlight' = Idle
            /\ UNCHANGED <<process, nextId, owed, specs, initialized, registered, sent>>
       [] OTHER -> FALSE   \* more pages than MaxPages
  /\ UNCHANGED <<windows, crashed>>

(* A request fails: an error for an answer, no answer in time, or a dead   *)
(* server.  Without initialize the client is given up; a list that cannot  *)
(* be had is empty.                                                        *)
Unanswered == Own = {} /\ DrainBuffer /\ UNCHANGED returned
ErrorAnswered == \E answer \in Own : Take(answer)
Failed ==
  /\ inFlight # Idle
  /\ Unanswered \/ ErrorAnswered
  /\ IF inFlight.method = "tools/list" THEN Started
     ELSE /\ inFlight' = Idle
          /\ process' = IF inFlight.method = "initialize" THEN "dead" ELSE process
          /\ UNCHANGED <<nextId, owed, initialized, registered, sent>>
  /\ UNCHANGED <<windows, specs, crashed>>

(* callTool() by the model.  Inside another request, or with a dead        *)
(* server, it returns an error at once, and nothing changes.               *)
CallTool ==
  /\ registered /\ specs > 0
  /\ IF inFlight # Idle \/ ~Running THEN UNCHANGED <<nextId, inFlight, owed, sent>>
                                    ELSE Request("tools/call")
  /\ UNCHANGED <<windows, process, stdout, pending, specs, initialized, registered,
                 returned, crashed>>

ServerDies ==
  /\ Running
  /\ process' = "dead" /\ crashed' = TRUE
  /\ owed' = {}
  /\ UNCHANGED <<windows, nextId, inFlight, stdout, pending, specs, initialized,
                 registered, sent, returned>>

Return == Failed \/ \E more \in BOOLEAN : Answered(more)
Next == Start \/ ReadyRead \/ Return \/ CallTool \/ ServerDies
        \/ \E answer \in owed : Write(answer)

Spec == Init /\ [][Next]_mcpVars
FairSpec == Spec /\ WF_mcpVars(Return)

-----------------------------------------------------------------------------
(* An answer that comes after its request was given up is not taken for    *)
(* the answer to a later one (MCPClient.cpp:399-418, 445-459).             *)
ResultIsOwn == \A r \in returned : r.asked = r.got

(* The server runs until the program ends, unless it dies of itself:       *)
(* comment of MCPClient.cpp:29.                                            *)
ServerOutlivesStart == registered => Running \/ crashed
=============================================================================
