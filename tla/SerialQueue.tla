---------------------------- MODULE SerialQueue ----------------------------
(***************************************************************************)
(* What the web server promises the conversation logic (server.h:117 and   *)
(* the comment of startNextConversation): the questions it accepts are     *)
(* handed over one at a time, in the order of their acceptance, and none   *)
(* is dropped or handed over twice.                                        *)
(***************************************************************************)
EXTENDS Naturals, Sequences

CONSTANT Conv           (* conversation ids, all positive                  *)

VARIABLES waiting,      (* accepted and not handed over yet, oldest first  *)
          running       (* the conversation being handled; 0 is none       *)

vars == <<waiting, running>>

Init == waiting = <<>> /\ running = 0

Accept(c) == waiting' = Append(waiting, c) /\ UNCHANGED running

Begin ==
  /\ running = 0
  /\ waiting # <<>>
  /\ running' = Head(waiting)
  /\ waiting' = Tail(waiting)

Finish == running # 0 /\ running' = 0 /\ UNCHANGED waiting

Next == (\E c \in Conv : Accept(c)) \/ Begin \/ Finish

Spec == Init /\ [][Next]_vars
=============================================================================
