-------------------------- MODULE MCDialogueProofs --------------------------
(***************************************************************************)
(* Proofs about MCDialogue, for all bounds and every set of requests:      *)
(* first about a session (LLMSession), then about a conversation           *)
(* (Conversation, as Talk), and last that what is proved of each holds of  *)
(* the two in one run.                                                     *)
(***************************************************************************)
EXTENDS MCDialogue, SequenceTheorems, FiniteSetTheorems, TLAPS

USE DEF llmVars, runVars, ghostVars

(* The current run is that of the question asked last.                     *)
RunIsLatest == currentId # 0 => currentId = asked

(* Removing a request from those in flight moves the later ones forward.   *)
LEMMA OthersAt ==
  ASSUME NEW i \in DOMAIN states, states \in Seq(Request)
  PROVE  /\ Others(i) \in Seq(Request)
         /\ DOMAIN Others(i) = 1..Len(states) - 1
         /\ \A j \in 1..Len(states) - 1 :
              Others(i)[j] = states[IF j < i THEN j ELSE j + 1]
<1> DEFINE before == SubSeq(states, 1, i - 1)
           after  == SubSeq(states, i + 1, Len(states))
<1>1. Len(states) \in Nat /\ i \in 1..Len(states)
  OBVIOUS
<1>2. /\ before \in Seq(Request) /\ Len(before) = i - 1
      /\ \A j \in 1..i - 1 : before[j] = states[j]
  <2>1. \A j \in 1..i - 1 : states[j] \in Request
    BY <1>1
  <2>2. QED
    BY <1>1, <2>1, SubSeqProperties, SMTT(30)
<1>3. /\ after \in Seq(Request) /\ Len(after) = Len(states) - i
      /\ \A j \in 1..Len(states) - i : after[j] = states[i + j]
  BY <1>1, SubSeqProperties, SMTT(30)
<1>4. Others(i) = before \o after
  BY DEF Others
<1> HIDE DEF before, after
<1>5. /\ before \o after \in Seq(Request)
      /\ Len(before \o after) = Len(before) + Len(after)
      /\ \A j \in 1..Len(before) + Len(after) :
           (before \o after)[j] = IF j <= Len(before) THEN before[j]
                                  ELSE after[j - Len(before)]
  BY <1>2, <1>3, ConcatProperties
<1>6. Len(before) + Len(after) = Len(states) - 1
  BY <1>1, <1>2, <1>3
<1>7. DOMAIN (before \o after) = 1..Len(states) - 1
  BY <1>5, <1>6
<1>8. ASSUME NEW j \in 1..Len(states) - 1
      PROVE  (before \o after)[j] = states[IF j < i THEN j ELSE j + 1]
  <2>1. CASE j < i
    BY <1>1, <1>2, <1>5, <1>6, <2>1
  <2>2. CASE ~(j < i)
    <3>1. /\ ~(j <= Len(before)) /\ j - Len(before) \in 1..Len(states) - i
          /\ i + (j - Len(before)) = j + 1
      BY <1>1, <1>2, <2>2
    <3>2. QED
      BY <1>3, <1>5, <1>6, <2>2, <3>1
  <2>3. QED
    BY <2>1, <2>2
<1>9. QED
  BY <1>4, <1>5, <1>7, <1>8

(* Removing a request from those in flight leaves the others.              *)
LEMMA OthersAreRequests ==
  ASSUME NEW i \in DOMAIN states, states \in Seq(Request)
  PROVE  /\ Others(i) \in Seq(Request)
         /\ \A j \in DOMAIN Others(i) : \E k \in DOMAIN states :
              Others(i)[j] = states[k]
         /\ \A k \in DOMAIN states \ {i} : \E j \in DOMAIN Others(i) :
              Others(i)[j] = states[k]
<1>1. Len(states) \in Nat /\ i \in 1..Len(states) /\ DOMAIN states = 1..Len(states)
  OBVIOUS
<1>2. ASSUME NEW j \in 1..Len(states) - 1
      PROVE  \E k \in DOMAIN states : Others(i)[j] = states[k]
  BY <1>1, OthersAt
<1>3. ASSUME NEW k \in DOMAIN states \ {i}
      PROVE  \E j \in 1..Len(states) - 1 : Others(i)[j] = states[k]
  <2>1. CASE k < i
    BY <1>1, <2>1, OthersAt
  <2>2. CASE k > i
    <3>1. k - 1 \in 1..Len(states) - 1 /\ ~(k - 1 < i) /\ (k - 1) + 1 = k
      BY <1>1, <2>2
    <3>2. QED
      BY <3>1, OthersAt
  <2>3. QED
    BY <1>1, <2>1, <2>2
<1>4. QED
  BY <1>2, <1>3, OthersAt

(* A request appended to those in flight.                                  *)
LEMMA AppendedRequest ==
  ASSUME NEW inFlight \in Seq(Request), NEW r \in Request
  PROVE  /\ Append(inFlight, r) \in Seq(Request)
         /\ DOMAIN Append(inFlight, r) = 1..Len(inFlight) + 1
         /\ Append(inFlight, r)[Len(inFlight) + 1] = r
         /\ \A i \in DOMAIN Append(inFlight, r) :
              \/ Append(inFlight, r)[i] = r
              \/ \E k \in DOMAIN inFlight : Append(inFlight, r)[i] = inFlight[k]
  BY AppendProperties

(* The type of what step() changes.                                        *)
LEMMA StepTypes ==
  ASSUME TypeOK,
         NEW messages \in Seq(Message), NEW id \in 0..MaxAsks,
         NEW inFlight \in Seq(Request), NEW question \in 0..MaxAsks,
         id # 0 => question # 0,
         Step(messages, id, inFlight, question)
  PROVE  /\ history' \in Seq(Message)
         /\ pendingToolCalls' \in 0..MaxCalls
         /\ currentId' \in 0..MaxAsks
         /\ states' \in Seq(Request)
<1>1. CallsHaveResultsIn(messages) \in BOOLEAN
  BY DEF CallsHaveResultsIn
<1>2. id # 0 => [run |-> id, about |-> question,
                 complete |-> CallsHaveResultsIn(messages)] \in Request
  <2>1. id # 0 => id \in 1..MaxAsks /\ question \in 1..MaxAsks
    BY LLMSessionAssumption
  <2>2. QED
    BY <1>1, <2>1 DEF Request
<1>3. states' \in Seq(Request)
  BY <1>2, AppendedRequest DEF Step
<1>4. QED
  BY <1>3, LLMSessionAssumption DEF Step

(* The type of what ask() changes.                                         *)
LEMMA AskTypes ==
  ASSUME TypeOK, NEW inFlight \in Seq(Request), Ask(history, inFlight)
  PROVE  /\ history' \in Seq(Message)
         /\ currentId' \in 0..MaxAsks /\ asked' \in 0..MaxAsks
         /\ busy' \in BOOLEAN /\ currentText' \in BOOLEAN /\ nested' \in BOOLEAN
         /\ pendingToolCalls' \in 0..MaxCalls
         /\ toolRoundsUsed' \in 0..MaxToolRounds
         /\ states' \in Seq(Request)
         /\ loops' \in Seq(1..MaxCalls)
         /\ posted' \in Nat
<1>1. asked + 1 \in 1..MaxAsks /\ asked + 1 \in 0..MaxAsks
  BY LLMSessionAssumption DEF Ask, TypeOK
<1>2. Say("user", asked + 1) \in Message
  BY <1>1 DEF Say, Message
<1>3. Append(history, Say("user", asked + 1)) \in Seq(Message)
  BY <1>2, AppendProperties DEF TypeOK
<1>4. Step(Append(history, Say("user", asked + 1)), asked + 1, inFlight, asked + 1)
  BY DEF Ask
<1>5. /\ history' \in Seq(Message) /\ currentId' \in 0..MaxAsks
      /\ pendingToolCalls' \in 0..MaxCalls /\ states' \in Seq(Request)
  BY <1>1, <1>3, <1>4, StepTypes
<1>6. nested' \in BOOLEAN /\ busy' \in BOOLEAN /\ currentText' \in BOOLEAN
  BY DEF Ask
<1>7. /\ asked' \in 0..MaxAsks /\ toolRoundsUsed' \in 0..MaxToolRounds
      /\ loops' \in Seq(1..MaxCalls) /\ posted' \in Nat
  BY <1>1, LLMSessionAssumption DEF Ask, TypeOK
<1>8. QED
  BY <1>5, <1>6, <1>7

(* Requests left after an abort.                                           *)
LEMMA RemainingTypes ==
  ASSUME TypeOK
  PROVE  /\ Kept \in Seq(Request) /\ Remaining \in Seq(Request)
         /\ (IF busy THEN <<>> ELSE Remaining) \in Seq(Request)
  BY DEF TypeOK, Kept, Remaining

(* A message that runToolCalls appends, or the reply.                      *)
LEMMA MessageTypes ==
  /\ Say("assistant", 0) \in Message /\ Say("tool", 0) \in Message
  /\ \A n \in 1..MaxCalls : Say("calls", n) \in Message
  BY DEF Say, Message

(* Every variable keeps its type; for the number of rounds this is the     *)
(* limit on them.                                                          *)
THEOREM TypeCorrect == Spec => [](TypeOK /\ RunIsLatest)
<1>1. Init => TypeOK /\ RunIsLatest
  <2> SUFFICES ASSUME Init PROVE TypeOK /\ RunIsLatest
    OBVIOUS
  <2>1. {busy, currentText, nested} \subseteq BOOLEAN
    BY DEF Init
  <2>2. history \in Seq(Message) /\ states \in Seq(Request) /\ loops \in Seq(1..MaxCalls)
    BY DEF Init
  <2>3. QED
    BY <2>1, <2>2, LLMSessionAssumption DEF Init, TypeOK, RunIsLatest
<1>2. RunIsLatest /\ [Next]_llmVars => RunIsLatest'
  BY DEF RunIsLatest, Next, RecvChat, Handle, Quit, Close, Delta, StaleReply,
         RunFails, TooManyRounds, RunToolCalls, RunEnds, ToolReturns, Ask, Step,
         AbortedId, Stop
<1>3. TypeOK /\ RunIsLatest /\ [Next]_llmVars => TypeOK'
  <2> SUFFICES ASSUME TypeOK, RunIsLatest, [Next]_llmVars PROVE TypeOK'
    OBVIOUS
  <2>1. CASE RecvChat
    <3>1. Ask(history, Kept)
      BY <2>1 DEF RecvChat
    <3>2. QED
      BY <2>1, <3>1, AskTypes, RemainingTypes DEF RecvChat, TypeOK
  <2>2. CASE Handle
    <3>1. Ask(history, IF busy THEN <<>> ELSE Remaining)
      BY <2>2 DEF Handle
    <3>2. output' \subseteq 1..MaxAsks /\ stopped' \in 0..MaxAsks
      BY <2>2 DEF Handle, Stop, TypeOK
    <3>3. QED
      BY <3>1, <3>2, AskTypes, RemainingTypes DEF TypeOK
  <2>3. CASE Quit
    <3>1. busy' \in BOOLEAN
      BY <2>3 DEF Quit
    <3>2. states' \in Seq(Request)
      BY <2>3, RemainingTypes DEF Quit
    <3>3. /\ output' \subseteq 1..MaxAsks /\ stopped' \in 0..MaxAsks
          /\ currentId' \in 0..MaxAsks
      BY <2>3, LLMSessionAssumption DEF Quit, Stop, AbortedId, TypeOK
    <3>4. QED
      BY <2>3, <3>1, <3>2, <3>3 DEF Quit, TypeOK
  <2>4. ASSUME NEW immersive \in BOOLEAN, Close(immersive) PROVE TypeOK'
    <3>1. nested' \in BOOLEAN
      BY <2>4 DEF Close
    <3>2. states' \in Seq(Request)
      BY <2>4, RemainingTypes DEF Close, TypeOK
    <3>3. output' \subseteq 1..MaxAsks /\ stopped' \in 0..MaxAsks
      BY <2>4 DEF Close, Stop, TypeOK
    <3>4. {busy, currentText, nested}' \subseteq BOOLEAN
      BY <2>4, <3>1 DEF Close
    <3>5. /\ history' \in Seq(Message) /\ currentId' \in 0..MaxAsks
          /\ pendingToolCalls' \in 0..MaxCalls /\ toolRoundsUsed' \in 0..MaxToolRounds
          /\ loops' \in Seq(1..MaxCalls) /\ asked' \in 0..MaxAsks /\ posted' \in Nat
      BY <2>4, LLMSessionAssumption DEF Close, TypeOK
    <3>6. QED
      BY <3>2, <3>3, <3>4, <3>5 DEF TypeOK
  <2>5. ASSUME NEW i \in DOMAIN states,
               \/ Delta(i) \/ StaleReply(i) \/ RunFails(i)
               \/ TooManyRounds(i) \/ RunToolCalls(i) \/ RunEnds(i)
        PROVE  TypeOK'
    <3>1. Others(i) \in Seq(Request)
      BY OthersAreRequests DEF TypeOK
    <3>2. states[i] \in Request
      BY DEF TypeOK
    <3>3. CASE Delta(i)
      <4>1. output' \subseteq 1..MaxAsks
        BY <3>2, <3>3 DEF Delta, Request, TypeOK
      <4>2. QED
        BY <3>3, <4>1 DEF Delta, TypeOK
    <3>4. CASE StaleReply(i)
      BY <3>1, <3>4 DEF StaleReply, TypeOK
    <3>5. CASE RunFails(i)
      BY <3>1, <3>5 DEF RunFails, TypeOK
    <3>6. CASE TooManyRounds(i)
      <4>1. pendingToolCalls' \in 0..MaxCalls
        BY <3>6 DEF TooManyRounds, Received, TypeOK
      <4>2. QED
        BY <3>1, <3>6, <4>1 DEF TooManyRounds, TypeOK
    <3>7. CASE RunToolCalls(i)
      <4>1. PICK calls \in 1..MaxCalls :
              /\ pendingToolCalls' = calls
              /\ loops' = Append(loops, calls)
              /\ history' = history
                   \o (IF currentText THEN <<Say("assistant", 0)>> ELSE <<>>)
                   \o <<Say("calls", calls)>>
        <5>1. \A n \in 0..MaxCalls : Received(n) > 0 => Received(n) \in 1..MaxCalls
          BY LLMSessionAssumption DEF Received, TypeOK
        <5>2. QED
          BY <3>7, <5>1 DEF RunToolCalls
      <4>2. loops' \in Seq(1..MaxCalls)
        BY <4>1, AppendProperties DEF TypeOK
      <4>3. history' \in Seq(Message)
        <5>1. /\ (IF currentText THEN <<Say("assistant", 0)>> ELSE <<>>) \in Seq(Message)
              /\ <<Say("calls", calls)>> \in Seq(Message)
          BY MessageTypes
        <5>2. QED
          BY <4>1, <5>1, ConcatProperties DEF TypeOK
      <4>4. toolRoundsUsed' \in 0..MaxToolRounds
        BY <3>7, LLMSessionAssumption DEF RunToolCalls, LimitReached, TypeOK
      <4>5. pendingToolCalls' \in 0..MaxCalls
        BY <4>1
      <4>6. QED
        BY <3>1, <3>7, <4>2, <4>3, <4>4, <4>5 DEF RunToolCalls, TypeOK
    <3>8. CASE RunEnds(i)
      <4>1. Append(history, Say("assistant", 0)) \in Seq(Message)
        BY MessageTypes, AppendProperties DEF TypeOK
      <4>2. ASSUME NEW m \in Seq(Message) PROVE Trimmed(m) \in Seq(Message)
        <5>1. CASE HistoryLimit = 0 \/ Len(m) <= HistoryLimit
          BY <5>1 DEF Trimmed
        <5>2. CASE ~(HistoryLimit = 0 \/ Len(m) <= HistoryLimit)
          <6>1. /\ Len(m) \in Nat /\ HistoryLimit \in Nat \ {0}
                /\ Len(m) - HistoryLimit + 1 \in 1..Len(m) + 1
            BY <5>2, LLMSessionAssumption
          <6>2. SubSeq(m, Len(m) - HistoryLimit + 1, Len(m)) \in Seq(Message)
            BY <6>1, SubSeqProperties
          <6>3. QED
            BY <5>2, <6>2 DEF Trimmed
        <5>3. QED
          BY <5>1, <5>2
      <4>3. history' \in Seq(Message)
        BY <3>8, <4>1, <4>2 DEF RunEnds, TypeOK
      <4>4. QED
        BY <3>1, <3>8, <4>3 DEF RunEnds, Idle, TypeOK
    <3>9. QED
      BY <2>5, <3>3, <3>4, <3>5, <3>6, <3>7, <3>8
  <2>6. CASE ToolReturns
    <3> DEFINE calls == loops[Len(loops)]
               outer == SubSeq(loops, 1, Len(loops) - 1)
    <3>1. WithResult \in Seq(Message)
      BY MessageTypes, AppendProperties DEF WithResult, TypeOK
    <3>2. /\ loops # <<>> /\ Len(loops) \in Nat \ {0}
          /\ \A j \in 1..Len(loops) : loops[j] \in 1..MaxCalls
          /\ calls \in 1..MaxCalls
      <4>1. loops # <<>> /\ loops \in Seq(1..MaxCalls)
        BY <2>6 DEF ToolReturns, TypeOK
      <4>2. Len(loops) \in Nat \ {0}
        BY <4>1, EmptySeq
      <4>3. \A j \in 1..Len(loops) : loops[j] \in 1..MaxCalls
        BY <4>1, ElementOfSeq
      <4>4. Len(loops) \in 1..Len(loops)
        BY <4>2
      <4>5. QED
        BY <4>1, <4>2, <4>3, <4>4
    <3>3. outer \in Seq(1..MaxCalls)
      <4>1. \A j \in 1..Len(loops) - 1 : loops[j] \in 1..MaxCalls
        BY <3>2
      <4>2. QED
        BY <3>2, <4>1, SubSeqProperties
    <3>4. CASE calls > 1
      <4>1. loops' \in Seq(1..MaxCalls)
        <5>1. calls - 1 \in 1..MaxCalls
          BY <3>2, <3>4, LLMSessionAssumption
        <5>2. QED
          BY ZenonT(40), <2>6, <3>3, <3>4, <5>1,
             AppendProperties DEF ToolReturns
      <4>2. history' \in Seq(Message)
        BY <2>6, <3>1, <3>4 DEF ToolReturns
      <4>3. QED
        BY <2>6, <3>4, <4>1, <4>2 DEF ToolReturns, TypeOK
    <3>5. CASE ~(calls > 1)
      <4>1. Step(WithResult, currentId, states, asked) /\ loops' = outer
        BY <2>6, <3>5 DEF ToolReturns
      <4>2. posted' \in Nat
        BY <2>6, <3>5 DEF ToolReturns, TypeOK
      <4>3. /\ history' \in Seq(Message) /\ pendingToolCalls' \in 0..MaxCalls
            /\ currentId' \in 0..MaxAsks /\ states' \in Seq(Request)
        BY <3>1, <4>1, StepTypes DEF TypeOK, RunIsLatest
      <4>4. QED
        BY <2>6, <3>3, <4>1, <4>2, <4>3 DEF ToolReturns, TypeOK
    <3>6. QED
      BY <3>4, <3>5
  <2>7. CASE UNCHANGED llmVars
    BY <2>7 DEF TypeOK
  <2>8. QED
    BY <2>1, <2>2, <2>3, <2>4, <2>5, <2>6, <2>7 DEF Next
<1>4. QED
  BY <1>1, <1>2, <1>3, PTL DEF Spec

-----------------------------------------------------------------------------
(* A request posted by the current run was posted after the last question, *)
(* and that question was asked after the last interruption.                *)
PostedByItsRun == \A i \in DOMAIN states : states[i].run = states[i].about
RunIsWanted    == stopped <= asked /\ (currentId # 0 => stopped < asked)

LEMMA PostedByItsRunKept ==
  TypeOK /\ RunIsLatest /\ PostedByItsRun /\ [Next]_llmVars => PostedByItsRun'
<1> SUFFICES ASSUME TypeOK, RunIsLatest, PostedByItsRun, [Next]_llmVars
             PROVE  PostedByItsRun'
  OBVIOUS
<1> DEFINE Wired(s) == \A i \in DOMAIN s : s[i].run = s[i].about
<1>1. ASSUME NEW messages, NEW id \in 0..MaxAsks, NEW inFlight \in Seq(Request),
             Wired(inFlight), Step(messages, id, inFlight, id)
      PROVE  PostedByItsRun'
  <2>1. CASE id = 0
    BY <1>1, <2>1 DEF Step, PostedByItsRun
  <2>2. CASE id # 0
    <3> DEFINE r == [run |-> id, about |-> id,
                     complete |-> CallsHaveResultsIn(messages)]
    <3>1. states' = Append(inFlight, r)
      BY <1>1, <2>2 DEF Step
    <3>2. r \in Request
      <4>1. CallsHaveResultsIn(messages) \in BOOLEAN
        BY DEF CallsHaveResultsIn
      <4>2. id \in 1..MaxAsks
        BY <1>1, <2>2, LLMSessionAssumption
      <4>3. QED
        BY <4>1, <4>2 DEF Request
    <3>3. r.run = r.about
      OBVIOUS
    <3> HIDE DEF r
    <3>4. \A i \in DOMAIN Append(inFlight, r) :
            \/ Append(inFlight, r)[i] = r
            \/ \E k \in DOMAIN inFlight : Append(inFlight, r)[i] = inFlight[k]
      BY <1>1, <3>2, AppendedRequest
    <3>5. QED
      BY <1>1, <3>1, <3>3, <3>4 DEF PostedByItsRun
  <2>3. QED
    BY <2>1, <2>2
<1>2. Wired(<<>>) /\ Wired(states) /\ Wired(Kept) /\ Wired(Remaining)
  BY DEF PostedByItsRun, Kept, Remaining
<1>3. ASSUME NEW inFlight \in Seq(Request), Wired(inFlight), Ask(history, inFlight)
      PROVE  PostedByItsRun'
  <2>1. asked + 1 \in 0..MaxAsks
    BY <1>3, LLMSessionAssumption DEF Ask, TypeOK
  <2>2. QED
    BY <1>1, <1>3, <2>1 DEF Ask
<1>4. CASE RecvChat
  BY <1>2, <1>3, <1>4, RemainingTypes DEF RecvChat
<1>5. CASE Handle
  BY <1>2, <1>3, <1>5, RemainingTypes DEF Handle
<1>6. CASE Quit
  BY <1>2, <1>6 DEF Quit, PostedByItsRun
<1>7. ASSUME NEW immersive \in BOOLEAN, Close(immersive) PROVE PostedByItsRun'
  BY <1>2, <1>7 DEF Close, PostedByItsRun
<1>8. ASSUME NEW i \in DOMAIN states,
             \/ Delta(i) \/ StaleReply(i) \/ RunFails(i)
             \/ TooManyRounds(i) \/ RunToolCalls(i) \/ RunEnds(i)
      PROVE  PostedByItsRun'
  <2>1. states' \in {states, Others(i)}
    BY <1>8 DEF Delta, StaleReply, RunFails, TooManyRounds, RunToolCalls,
       RunEnds
  <2>2. \A j \in DOMAIN Others(i) : \E k \in DOMAIN states : Others(i)[j] = states[k]
    BY OthersAreRequests DEF TypeOK
  <2>3. Wired(Others(i))
    BY <2>2 DEF PostedByItsRun
  <2>4. QED
    BY <2>1, <2>3 DEF PostedByItsRun
<1>9. CASE ToolReturns
  <2>1. CASE loops[Len(loops)] > 1
    BY <1>9, <2>1 DEF ToolReturns, PostedByItsRun
  <2>2. CASE ~(loops[Len(loops)] > 1)
    <3>1. Step(WithResult, currentId, states, asked)
      BY <1>9, <2>2 DEF ToolReturns
    <3>2. CASE currentId = 0
      BY <3>1, <3>2 DEF Step, PostedByItsRun
    <3>3. CASE currentId # 0
      BY <1>1, <1>2, <3>1, <3>3 DEF RunIsLatest, TypeOK
    <3>4. QED
      BY <3>2, <3>3
  <2>3. QED
    BY <2>1, <2>2
<1>10. CASE UNCHANGED llmVars
  BY <1>10 DEF PostedByItsRun
<1>11. QED
  BY <1>4, <1>5, <1>6, <1>7, <1>8, <1>9, <1>10 DEF Next

LEMMA RunIsWantedKept ==
  TypeOK /\ RunIsWanted /\ [Next]_llmVars => RunIsWanted'
<1> SUFFICES ASSUME TypeOK, RunIsWanted, [Next]_llmVars PROVE RunIsWanted'
  OBVIOUS
<1>1. asked \in Nat /\ stopped \in Nat
  BY LLMSessionAssumption DEF TypeOK
<1>2. QED
  BY <1>1 DEF RunIsWanted, Next, RecvChat, Handle, Quit, Close, Delta,
     StaleReply,
     RunFails, TooManyRounds, RunToolCalls, RunEnds, ToolReturns, Ask, Step,
     AbortedId, Stop

(* The inductive invariant: text is only taken from a request of the run   *)
(* that is wanted.                                                         *)
LEMMA Session ==
  Spec => [](TypeOK /\ RunIsLatest /\ PostedByItsRun /\ RunIsWanted)
<1>1. Init => PostedByItsRun /\ RunIsWanted
  BY DEF Init, PostedByItsRun, RunIsWanted
<1>2. QED
  BY <1>1, TypeCorrect, PostedByItsRunKept, RunIsWantedKept, PTL DEF Spec

(* A reply that streams text is one to the question asked last.            *)
LEMMA DeltaIsLatest ==
  ASSUME TypeOK, RunIsLatest, PostedByItsRun, RunIsWanted,
         NEW i \in DOMAIN states, Delta(i)
  PROVE  output' \subseteq output \cup {asked} /\ stopped < asked
<1>1. states[i].run = currentId /\ currentId # 0
  BY DEF Delta, Live
<1>2. states[i].about = asked /\ stopped < asked
  BY <1>1 DEF RunIsLatest, PostedByItsRun, RunIsWanted
<1>3. QED
  BY <1>2 DEF Delta

(* However tools, questions and interruptions nest: what is spoken replies *)
(* to the question asked last (the checks of runId in LLMSession::step).   *)
THEOREM LatestIsSpoken == Spec => RepliesToLatest
<1>1. /\ TypeOK /\ RunIsLatest /\ PostedByItsRun /\ RunIsWanted
      /\ [Next]_llmVars
      => [output' \ output \subseteq {asked}]_llmVars
  <2> SUFFICES ASSUME TypeOK, RunIsLatest, PostedByItsRun, RunIsWanted,
                      [Next]_llmVars
               PROVE  output' \ output \subseteq {asked}
    OBVIOUS
  <2>1. ASSUME NEW i \in DOMAIN states, Delta(i)
        PROVE  output' \ output \subseteq {asked}
    BY <2>1, DeltaIsLatest
  <2>2. CASE output' = output \/ output' = {}
    BY <2>2
  <2>3. QED
    BY <2>1, <2>2 DEF Next, RecvChat, Handle, Quit, Close, StaleReply, RunFails,
       TooManyRounds, RunToolCalls, RunEnds, ToolReturns, Stop
<1>2. QED
  BY <1>1, Session, PTL DEF RepliesToLatest, Spec

(* A reply the user interrupted is never spoken, whatever its tools and    *)
(* its requests still do (LLMSession::abort, Chat::handle).                *)
THEOREM InterruptedStaysSilent == Spec => []StoppedStaysSilent
<1>1. Init => StoppedStaysSilent
  BY DEF Init, StoppedStaysSilent
<1>2. /\ TypeOK /\ RunIsLatest /\ PostedByItsRun /\ RunIsWanted
      /\ StoppedStaysSilent /\ [Next]_llmVars
      => StoppedStaysSilent'
  <2> SUFFICES ASSUME TypeOK, RunIsLatest, PostedByItsRun, RunIsWanted,
                      StoppedStaysSilent, [Next]_llmVars
               PROVE  StoppedStaysSilent'
    OBVIOUS
  <2>1. ASSUME NEW i \in DOMAIN states, Delta(i)
        PROVE  StoppedStaysSilent'
    <3>1. stopped' = stopped
      BY <2>1 DEF Delta
    <3>2. QED
      BY <2>1, <3>1, DeltaIsLatest DEF StoppedStaysSilent
  <2>2. CASE output' = output /\ stopped' = stopped
    BY <2>2 DEF StoppedStaysSilent
  <2>3. CASE output' = {}
    BY <2>3 DEF StoppedStaysSilent
  <2>4. QED
    BY <2>1, <2>2, <2>3 DEF Next, RecvChat, Handle, Quit, Close, StaleReply,
       RunFails, TooManyRounds, RunToolCalls, RunEnds, ToolReturns, Stop
<1>3. QED
  BY <1>1, <1>2, Session, PTL DEF Spec

-----------------------------------------------------------------------------
BusyHasId == busy => currentId # 0

(* step() under an id puts a request in flight that counts.                *)
LEMMA StepIsLive ==
  ASSUME NEW messages, NEW id \in 1..MaxAsks, NEW inFlight \in Seq(Request),
         NEW question \in 1..MaxAsks, Step(messages, id, inFlight, question)
  PROVE  LiveRequests' # {}
<1> DEFINE r == [run |-> id, about |-> question,
                 complete |-> CallsHaveResultsIn(messages)]
<1>1. CallsHaveResultsIn(messages) \in BOOLEAN
  BY DEF CallsHaveResultsIn
<1>2. r \in Request
  BY <1>1 DEF Request
<1>3. id # 0 /\ currentId' = id /\ states' = Append(inFlight, r) /\ r.run = id
  BY LLMSessionAssumption DEF Step
<1> HIDE DEF r
<1>4. /\ Len(inFlight) + 1 \in DOMAIN states'
      /\ states'[Len(inFlight) + 1] = r
  <2>1. Len(inFlight) + 1 \in 1..Len(inFlight) + 1
    OBVIOUS
  <2>2. QED
    BY <1>2, <1>3, <2>1, AppendedRequest
<1>5. Len(inFlight) + 1 \in LiveRequests'
  BY <1>3, <1>4 DEF LiveRequests, Live
<1>6. QED
  BY <1>5

(* No path leaves the session busy with nothing that will end it: the      *)
(* comment in LLMSession::step.                                            *)
THEOREM BusyIsAlwaysServed == Spec => []BusyIsServed
<1>1. Init => BusyHasId /\ BusyIsServed
  BY DEF Init, BusyHasId, BusyIsServed
<1>2. TypeOK /\ BusyHasId /\ [Next]_llmVars => BusyHasId'
  <2> SUFFICES ASSUME TypeOK, BusyHasId, [Next]_llmVars PROVE BusyHasId'
    OBVIOUS
  <2>1. ASSUME NEW inFlight \in Seq(Request), Ask(history, inFlight)
        PROVE  currentId' # 0
    BY <2>1, LLMSessionAssumption DEF Ask, Step, TypeOK
  <2>2. CASE RecvChat \/ Handle
    BY <2>1, <2>2, RemainingTypes DEF RecvChat, Handle, BusyHasId
  <2>3. CASE Quit \/ \E immersive \in BOOLEAN : Close(immersive)
    BY <2>3 DEF Quit, Close, BusyHasId
  <2>4. ASSUME NEW i \in DOMAIN states,
               \/ Delta(i) \/ StaleReply(i) \/ RunFails(i)
               \/ TooManyRounds(i) \/ RunToolCalls(i) \/ RunEnds(i)
        PROVE  currentId' = currentId /\ (busy' = busy \/ busy' = FALSE)
    BY <2>4 DEF Delta, StaleReply, RunFails, TooManyRounds, RunToolCalls,
       RunEnds,
       Idle, runVars
  <2>5. CASE ToolReturns
    BY <2>5 DEF ToolReturns, Step, BusyHasId
  <2>6. CASE UNCHANGED llmVars
    BY <2>6 DEF llmVars, runVars, BusyHasId
  <2>7. CASE \E i \in DOMAIN states :
               \/ Delta(i) \/ StaleReply(i) \/ RunFails(i)
               \/ TooManyRounds(i) \/ RunToolCalls(i) \/ RunEnds(i)
    BY <2>4, <2>7 DEF BusyHasId
  <2>8. QED
    BY <2>2, <2>3, <2>5, <2>6, <2>7 DEF Next
<1>3. /\ TypeOK /\ RunIsLatest /\ BusyHasId /\ BusyIsServed /\ [Next]_llmVars
      => BusyIsServed'
  <2> SUFFICES ASSUME TypeOK, RunIsLatest, BusyHasId, BusyIsServed, [Next]_llmVars
               PROVE  BusyIsServed'
    OBVIOUS
  <2>1. ASSUME NEW inFlight \in Seq(Request), Ask(history, inFlight)
        PROVE  BusyIsServed'
    <3>1. asked + 1 \in 1..MaxAsks
      BY <2>1, LLMSessionAssumption DEF Ask, TypeOK
    <3>2. QED
      BY <2>1, <3>1, StepIsLive DEF Ask, BusyIsServed
  <2>2. CASE RecvChat \/ Handle
    BY <2>1, <2>2, RemainingTypes DEF RecvChat, Handle
  <2>3. CASE Quit \/ \E immersive \in BOOLEAN : Close(immersive)
    BY <2>3 DEF Quit, Close, BusyHasId, BusyIsServed
  <2>4. ASSUME NEW i \in DOMAIN states, Delta(i)
        PROVE  BusyIsServed'
    BY <2>4 DEF Delta, BusyIsServed, LiveRequests, Live
  <2>5. ASSUME NEW i \in DOMAIN states, StaleReply(i)
        PROVE  BusyIsServed'
    <3> SUFFICES ASSUME busy, LiveRequests # {} PROVE LiveRequests' # {}
      BY <2>5 DEF StaleReply, BusyIsServed
    <3>1. PICK k \in DOMAIN states : Live(states[k])
      BY DEF LiveRequests
    <3>2. k # i
      BY <2>5, <3>1 DEF StaleReply
    <3>3. PICK j \in DOMAIN Others(i) : Others(i)[j] = states[k]
      BY <3>2, OthersAreRequests DEF TypeOK
    <3>4. j \in LiveRequests'
      BY <2>5, <3>1, <3>3 DEF StaleReply, LiveRequests, Live
    <3>5. QED
      BY <3>4
  <2>6. ASSUME NEW i \in DOMAIN states,
               RunFails(i) \/ TooManyRounds(i) \/ RunEnds(i)
        PROVE  BusyIsServed'
    BY <2>6 DEF RunFails, TooManyRounds, RunEnds, Idle, BusyIsServed
  <2>7. ASSUME NEW i \in DOMAIN states, RunToolCalls(i)
        PROVE  BusyIsServed'
    <3>1. PICK calls \in Nat : loops' = Append(loops, calls)
      BY <2>7, LLMSessionAssumption DEF RunToolCalls, Received, TypeOK
    <3>2. loops' # <<>>
      BY SMTT(30), <3>1, AppendProperties DEF TypeOK
    <3>3. QED
      BY <3>2 DEF BusyIsServed
  <2>8. CASE ToolReturns
    <3>1. CASE loops[Len(loops)] > 1
      <4>1. loops' = Append(SubSeq(loops, 1, Len(loops) - 1), loops[Len(loops)] - 1)
        BY <2>8, <3>1 DEF ToolReturns
      <4>2. loops' # <<>>
        BY <4>1
      <4>3. QED
        BY <4>2 DEF BusyIsServed
    <3>2. CASE ~(loops[Len(loops)] > 1)
      <4>1. Step(WithResult, currentId, states, asked) /\ busy' = busy
        BY <2>8, <3>2 DEF ToolReturns
      <4>2. busy => currentId \in 1..MaxAsks /\ asked \in 1..MaxAsks
        BY LLMSessionAssumption DEF BusyHasId, RunIsLatest, TypeOK
      <4>3. busy => LiveRequests' # {}
        BY <4>1, <4>2, StepIsLive DEF TypeOK
      <4>4. QED
        BY <4>1, <4>3 DEF BusyIsServed
    <3>3. QED
      BY <3>1, <3>2
  <2>9. CASE UNCHANGED llmVars
    BY <2>9 DEF BusyIsServed, LiveRequests, Live
  <2>10. QED
    BY <2>2, <2>3, <2>4, <2>5, <2>6, <2>7, <2>8, <2>9 DEF Next
<1>4. QED
  BY <1>1, <1>2, <1>3, TypeCorrect, PTL DEF Spec

-----------------------------------------------------------------------------
(* What holds of a session as long as no question and no reset came in a   *)
(* tool loop.                                                              *)

(* The results the history still lacks: those of the calls to come.        *)
CallsLeft == IF loops = <<>> THEN 0 ELSE loops[1]

(* Behind the calls of a message stand their results, of which the last    *)
(* ones, as many as lacking, may be missing at the end.                    *)
ResultsFollow(messages, lacking) ==
  \A i \in DOMAIN messages : messages[i].role = "calls" =>
    /\ i + messages[i].n <= Len(messages) + lacking
    /\ \A k \in 1..messages[i].n :
         i + k <= Len(messages) => messages[i + k].role = "tool"

LoopIsAlone ==
  loops # <<>> => /\ Len(loops) = 1 /\ LiveRequests = {}
                  /\ currentId # 0 => busy
                  /\ posted <= toolRoundsUsed
OneIsLive ==
  /\ \A i, k \in LiveRequests : i = k
  /\ LiveRequests # {} => busy
RunsWereAsked == \A i \in DOMAIN states : states[i].run <= asked
RequestsComplete == \A i \in DOMAIN states : states[i].complete
RoundsCounted ==
  /\ loops = <<>> /\ currentId # 0 => posted <= toolRoundsUsed + 1
  /\ posted <= MaxToolRounds + 1

SessionSound ==
  /\ LoopIsAlone /\ OneIsLive /\ RunsWereAsked
  /\ RequestsComplete /\ RoundsCounted
  /\ ResultsFollow(history, CallsLeft)

USE DEF LoopIsAlone, OneIsLive, RunsWereAsked, RequestsComplete, RoundsCounted

(* A message numbers its question or its calls.                            *)
LEMMA MessageNumbers ==
  ASSUME NEW m \in Seq(Message), NEW i \in DOMAIN m
  PROVE  m[i].n \in Nat /\ i \in 1..Len(m) /\ Len(m) \in Nat
<1>1. m[i] \in Message
  OBVIOUS
<1>2. m[i].n \in Nat
  BY <1>1, LLMSessionAssumption DEF Message
<1>3. QED
  BY <1>2

(* No result lacks: the messages may be posted.                            *)
LEMMA NothingLacks ==
  ASSUME NEW m \in Seq(Message), ResultsFollow(m, 0)
  PROVE  CallsHaveResultsIn(m)
<1> SUFFICES ASSUME NEW i \in DOMAIN m, m[i].role = "calls", NEW k \in 1..m[i].n
             PROVE  i + k \in DOMAIN m /\ m[i + k].role = "tool"
  BY DEF CallsHaveResultsIn
<1>1. m[i].n \in Nat /\ i \in 1..Len(m) /\ Len(m) \in Nat
  BY MessageNumbers
<1>2. i + m[i].n <= Len(m)
  BY <1>1 DEF ResultsFollow
<1>3. i + k <= Len(m) /\ i + k \in DOMAIN m
  BY <1>1, <1>2
<1>4. QED
  BY <1>3 DEF ResultsFollow

(* A result fills one of the lacking places; other messages come when none *)
(* lacks, and calls bring as many as they are.                             *)
LEMMA ResultsFollowAppended ==
  ASSUME NEW m \in Seq(Message), NEW x \in Message, NEW lacking \in Nat,
         ResultsFollow(m, lacking)
  PROVE  /\ x.role = "tool" /\ lacking > 0
              => ResultsFollow(Append(m, x), lacking - 1)
         /\ x.role # "calls" /\ lacking = 0 => ResultsFollow(Append(m, x), 0)
         /\ x.role = "calls" /\ lacking = 0 => ResultsFollow(Append(m, x), x.n)
<1> DEFINE a == Append(m, x)
<1>1. /\ a \in Seq(Message) /\ Len(a) = Len(m) + 1 /\ DOMAIN a = 1..Len(m) + 1
      /\ \A i \in 1..Len(m) : a[i] = m[i]
      /\ a[Len(m) + 1] = x
  BY AppendProperties
<1> HIDE DEF a
<1>2. \A i \in DOMAIN m : m[i].n \in Nat /\ i \in 1..Len(m) /\ Len(m) \in Nat
  BY MessageNumbers
<1>3. Len(m) \in Nat /\ DOMAIN m = 1..Len(m)
  OBVIOUS
<1>4. x.n \in Nat
  BY LLMSessionAssumption DEF Message
<1>5. ASSUME NEW i \in 1..Len(m), a[i].role = "calls", x.role = "tool" \/ lacking = 0
      PROVE  /\ i + a[i].n <= Len(m) + lacking
             /\ \A k \in 1..a[i].n : i + k <= Len(a) => a[i + k].role = "tool"
  <2>1. a[i] = m[i] /\ m[i].n \in Nat
    BY <1>1, <1>2, <1>3
  <2>2. /\ i + m[i].n <= Len(m) + lacking
        /\ \A k \in 1..m[i].n : i + k <= Len(m) => m[i + k].role = "tool"
    BY <1>3, <1>5, <2>1 DEF ResultsFollow
  <2>3. ASSUME NEW k \in 1..m[i].n, i + k <= Len(a) PROVE a[i + k].role = "tool"
    <3>1. CASE i + k <= Len(m)
      BY <1>1, <1>3, <2>1, <2>2, <3>1
    <3>2. CASE ~(i + k <= Len(m))
      <4>1. i + m[i].n <= Len(m) + lacking
        BY <2>2
      <4>2. k \in Nat /\ k <= m[i].n /\ i \in Nat /\ i + k <= Len(m) + 1
        BY <1>1, <1>3, <2>1, <2>3
      <4>3. i + k = Len(m) + 1 /\ lacking # 0
        BY <1>3, <2>1, <3>2, <4>1, <4>2
      <4>4. QED
        BY <1>1, <1>5, <4>3
    <3>3. QED
      BY <3>1, <3>2
  <2>4. QED
    BY <2>1, <2>2, <2>3
<1>6. ASSUME x.role = "tool", lacking > 0 PROVE ResultsFollow(a, lacking - 1)
  <2>1. \A i \in DOMAIN a : a[i].role = "calls" => i \in 1..Len(m)
    BY <1>1, <1>3, <1>6
  <2>2. \A i \in 1..Len(m) : a[i].role = "calls" =>
          i + a[i].n <= Len(a) + (lacking - 1)
    BY <1>1, <1>2, <1>3, <1>5, <1>6
  <2>3. QED
    BY <1>5, <1>6, <2>1, <2>2 DEF ResultsFollow
<1>7. ASSUME x.role # "calls", lacking = 0 PROVE ResultsFollow(a, 0)
  <2>1. \A i \in DOMAIN a : a[i].role = "calls" => i \in 1..Len(m)
    BY <1>1, <1>3, <1>7
  <2>2. \A i \in 1..Len(m) : a[i].role = "calls" => i + a[i].n <= Len(a) + 0
    BY <1>1, <1>2, <1>3, <1>5, <1>7
  <2>3. QED
    BY <1>5, <1>7, <2>1, <2>2 DEF ResultsFollow
<1>8. ASSUME x.role = "calls", lacking = 0 PROVE ResultsFollow(a, x.n)
  <2>1. \A i \in 1..Len(m) : a[i].role = "calls" => i + a[i].n <= Len(a) + x.n
    BY <1>1, <1>2, <1>3, <1>4, <1>5, <1>8
  <2>2. /\ Len(m) + 1 + a[Len(m) + 1].n <= Len(a) + x.n
        /\ \A k \in 1..a[Len(m) + 1].n : ~(Len(m) + 1 + k <= Len(a))
    BY <1>1, <1>3, <1>4
  <2>3. \A i \in DOMAIN a : i \in 1..Len(m) \/ i = Len(m) + 1
    BY <1>1, <1>3
  <2>4. QED
    BY <1>5, <1>8, <2>1, <2>2, <2>3 DEF ResultsFollow
<1>9. QED
  BY <1>6, <1>7, <1>8 DEF a

(* trimHistory keeps the calls it keeps with their results.                *)
LEMMA ResultsFollowTrimmed ==
  ASSUME NEW m \in Seq(Message), ResultsFollow(m, 0)
  PROVE  ResultsFollow(Trimmed(m), 0)
<1>1. CASE HistoryLimit = 0 \/ Len(m) <= HistoryLimit
  BY <1>1 DEF Trimmed
<1>2. CASE ~(HistoryLimit = 0 \/ Len(m) <= HistoryLimit)
  <2> DEFINE t == SubSeq(m, Len(m) - HistoryLimit + 1, Len(m))
             cut == Len(m) - HistoryLimit
  <2>1. Len(m) \in Nat /\ HistoryLimit \in Nat \ {0} /\ cut \in 1..Len(m)
        /\ Len(m) = cut + HistoryLimit
    BY <1>2, LLMSessionAssumption
  <2>2. /\ t \in Seq(Message) /\ Len(t) = HistoryLimit
        /\ \A i \in 1..HistoryLimit : t[i] = m[cut + i]
    <3>1. \A i \in cut + 1..Len(m) : m[i] \in Message
      BY <2>1
    <3>2. t \in Seq(Message)
      BY <2>1, <3>1, SubSeqProperties
    <3>3. /\ Len(t) = Len(m) - (cut + 1) + 1
          /\ \A i \in 1..Len(m) - (cut + 1) + 1 : t[i] = m[(cut + 1) + i - 1]
      BY <2>1, SubSeqProperties
    <3>4. Len(m) - (cut + 1) + 1 = HistoryLimit
      BY <2>1
    <3>5. \A i \in 1..HistoryLimit : (cut + 1) + i - 1 = cut + i
      BY <2>1
    <3> HIDE DEF t, cut
    <3>6. QED
      BY <3>2, <3>3, <3>4, <3>5
  <2> HIDE DEF t, cut
  <2>3. ASSUME NEW i \in DOMAIN t, t[i].role = "calls"
        PROVE  /\ i + t[i].n <= Len(t) + 0
               /\ \A k \in 1..t[i].n : i + k <= Len(t) => t[i + k].role = "tool"
    <3>1. i \in 1..HistoryLimit /\ t[i] = m[cut + i]
      BY <2>2, <2>3
    <3>2. cut + i \in DOMAIN m /\ m[cut + i].n \in Nat
      <4>1. cut + i \in DOMAIN m
        BY <2>1, <3>1
      <4>2. QED
        BY <4>1, MessageNumbers
    <3>3. /\ (cut + i) + m[cut + i].n <= Len(m) + 0
          /\ \A k \in 1..m[cut + i].n : (cut + i) + k <= Len(m) =>
               m[(cut + i) + k].role = "tool"
      BY <2>3, <3>1, <3>2 DEF ResultsFollow
    <3>4. ASSUME NEW k \in 1..t[i].n, i + k <= Len(t)
          PROVE  t[i + k].role = "tool"
      <4>1. k \in Nat \ {0} /\ k \in 1..m[cut + i].n /\ i \in Nat
        BY <3>1, <3>2, <3>4
      <4>2. i + k <= HistoryLimit
        BY <2>2, <3>4
      <4>3. /\ i + k \in 1..HistoryLimit /\ cut + (i + k) = (cut + i) + k
            /\ (cut + i) + k <= Len(m)
        BY <2>1, <4>1, <4>2
      <4>4. QED
        BY <2>2, <3>1, <3>3, <4>1, <4>3
    <3>5. i + t[i].n <= Len(t) + 0
      BY <2>1, <2>2, <3>1, <3>2, <3>3
    <3>6. QED
      BY <3>4, <3>5
  <2>4. QED
    BY <1>2, <2>3 DEF ResultsFollow, Trimmed, t
<1>3. QED
  BY <1>1, <1>2

(* When a request is answered, the others are those there were.            *)
LEMMA RequestAnswered ==
  ASSUME TypeOK, OneIsLive, RunsWereAsked, RequestsComplete,
         NEW i \in DOMAIN states, states' = Others(i),
         currentId' = currentId, asked' = asked
  PROVE  /\ RunsWereAsked' /\ RequestsComplete'
         /\ \A j, k \in LiveRequests' : j = k
         /\ LiveRequests' # {} => LiveRequests # {}
         /\ Live(states[i]) => LiveRequests' = {}
<1> DEFINE At(j) == IF j < i THEN j ELSE j + 1
<1>1. /\ Len(states) \in Nat /\ i \in 1..Len(states) /\ DOMAIN states = 1..Len(states)
      /\ DOMAIN states' = 1..Len(states) - 1
      /\ \A j \in 1..Len(states) - 1 : states'[j] = states[At(j)]
  <2>1. states \in Seq(Request)
    BY DEF TypeOK
  <2>2. /\ DOMAIN Others(i) = 1..Len(states) - 1
        /\ \A j \in 1..Len(states) - 1 :
             Others(i)[j] = states[IF j < i THEN j ELSE j + 1]
    BY <2>1, OthersAt
  <2>3. /\ Len(states) \in Nat /\ i \in 1..Len(states)
        /\ DOMAIN states = 1..Len(states)
    BY <2>1
  <2>4. QED
    BY <2>2, <2>3
<1>2. /\ \A j \in 1..Len(states) - 1 : At(j) \in DOMAIN states /\ At(j) # i
      /\ \A j, k \in 1..Len(states) - 1 : At(j) = At(k) => j = k
  BY <1>1
<1> HIDE DEF At
<1>3. \A j \in LiveRequests' : j \in 1..Len(states) - 1 /\ At(j) \in LiveRequests
  BY <1>1, <1>2 DEF LiveRequests, Live
<1>4. Live(states[i]) => i \in LiveRequests
  BY DEF LiveRequests
<1>5. \A j \in DOMAIN states' : \E k \in DOMAIN states : states'[j] = states[k]
  BY <1>1, <1>2
<1>6. RunsWereAsked' /\ RequestsComplete'
  BY <1>5
<1>7. \A j, k \in LiveRequests' : j = k
  BY <1>2, <1>3
<1>8. QED
  BY <1>2, <1>3, <1>4, <1>6, <1>7

(* step() under the id of a new run, or of one without a request in flight, *)
(* with results that are all there.                                        *)
LEMMA StepSound ==
  ASSUME NEW messages \in Seq(Message), ResultsFollow(messages, 0),
         NEW id \in 1..MaxAsks, NEW question \in 1..MaxAsks,
         NEW inFlight \in Seq(Request),
         \A i \in DOMAIN inFlight : inFlight[i].run # id /\ inFlight[i].complete,
         Step(messages, id, inFlight, question)
  PROVE  /\ RequestsComplete' /\ \A i, k \in LiveRequests' : i = k
         /\ \A i \in DOMAIN states' :
              \/ states'[i].run = id
              \/ \E k \in DOMAIN inFlight : states'[i] = inFlight[k]
         /\ ResultsFollow(history', 0) /\ currentId' = id
<1> DEFINE r == [run |-> id, about |-> question,
                 complete |-> CallsHaveResultsIn(messages)]
<1>1. CallsHaveResultsIn(messages)
  BY NothingLacks
<1>2. r.complete /\ r.run = id /\ r \in Request
  BY <1>1 DEF Request
<1>3. id # 0 /\ currentId' = id /\ states' = Append(inFlight, r) /\ history' = messages
  BY LLMSessionAssumption DEF Step
<1> HIDE DEF r
<1>4. /\ Len(inFlight) \in Nat /\ DOMAIN inFlight = 1..Len(inFlight)
      /\ DOMAIN states' = 1..Len(inFlight) + 1
      /\ states'[Len(inFlight) + 1] = r
      /\ \A i \in 1..Len(inFlight) : states'[i] = inFlight[i]
  BY <1>2, <1>3, AppendProperties
<1>5. \A i \in LiveRequests' : i = Len(inFlight) + 1
  BY <1>3, <1>4 DEF LiveRequests, Live
<1>6. \A i \in DOMAIN states' : i = Len(inFlight) + 1 \/ i \in DOMAIN inFlight
  BY <1>4
<1>7. RequestsComplete'
  BY <1>2, <1>4, <1>6
<1>8. QED
  BY <1>2, <1>3, <1>4, <1>5, <1>6, <1>7

(* ask() outside of a tool loop: the requests kept are older ones.         *)
LEMMA AskSound ==
  ASSUME TypeOK, SessionSound, loops = <<>>,
         NEW inFlight \in Seq(Request),
         \A i \in DOMAIN inFlight : \E k \in DOMAIN states : inFlight[i] = states[k],
         Ask(history, inFlight)
  PROVE  SessionSound'
<1> DEFINE messages == Append(history, Say("user", asked + 1))
<1>1. asked \in Nat /\ asked + 1 \in 1..MaxAsks /\ asked' = asked + 1
  BY LLMSessionAssumption DEF Ask, TypeOK
<1>2. Say("user", asked + 1) \in Message /\ Say("user", asked + 1).role = "user"
  BY <1>1 DEF Say, Message
<1>3. messages \in Seq(Message) /\ ResultsFollow(messages, 0)
  <2>1. ResultsFollow(history, 0)
    BY DEF SessionSound, CallsLeft
  <2>2. messages \in Seq(Message)
    BY <1>2, AppendProperties DEF TypeOK
  <2>3. QED
    BY <1>2, <2>1, <2>2, ResultsFollowAppended DEF TypeOK
<1>4. \A i \in DOMAIN inFlight :
        /\ inFlight[i].run # asked + 1 /\ inFlight[i].run <= asked
        /\ inFlight[i].complete
  <2>1. ASSUME NEW k \in DOMAIN states
        PROVE  states[k].run <= asked /\ states[k].run \in Nat /\ states[k].complete
    <3>1. states[k] \in Request
      BY DEF TypeOK
    <3>2. QED
      BY <3>1, LLMSessionAssumption DEF SessionSound, Request
  <2>2. QED
    BY <1>1, <2>1
<1>5. Step(messages, asked + 1, inFlight, asked + 1)
  BY DEF Ask
<1> HIDE DEF messages
<1>6. /\ RequestsComplete' /\ \A i, k \in LiveRequests' : i = k
      /\ \A i \in DOMAIN states' :
           \/ states'[i].run = asked + 1
           \/ \E k \in DOMAIN inFlight : states'[i] = inFlight[k]
      /\ ResultsFollow(history', 0)
  BY <1>1, <1>3, <1>4, <1>5, StepSound
<1>7. RunsWereAsked'
  <2>1. ASSUME NEW k \in DOMAIN inFlight PROVE inFlight[k].run \in Nat
    <3>1. inFlight[k] \in Request
      OBVIOUS
    <3>2. QED
      BY <3>1, LLMSessionAssumption DEF Request
  <2>2. QED
    BY <1>1, <1>4, <1>6, <2>1
<1>8. /\ busy' = TRUE /\ loops' = <<>> /\ posted' = 1 /\ toolRoundsUsed' = 0
  BY DEF Ask
<1>9. RoundsCounted'
  BY <1>8, LLMSessionAssumption
<1>10. ResultsFollow(history, CallsLeft)'
  BY <1>6, <1>8 DEF CallsLeft
<1>11. QED
  BY <1>6, <1>7, <1>8, <1>9, <1>10 DEF SessionSound

(* abort() and reset(): nothing counts any more.                           *)
LEMMA AbortSound ==
  ASSUME TypeOK, SessionSound, currentId' = 0, states' \in {states, <<>>},
         UNCHANGED <<asked, posted>>, loops' = loops,
         posted' <= toolRoundsUsed' \/ loops' = <<>>,
         ResultsFollow(history, CallsLeft)'
  PROVE  SessionSound'
<1>1. LiveRequests' = {}
  BY DEF LiveRequests, Live
<1>2. RunsWereAsked' /\ RequestsComplete'
  BY DEF SessionSound
<1>3. RoundsCounted'
  BY DEF SessionSound
<1>4. LoopIsAlone' /\ OneIsLive'
  BY <1>1 DEF SessionSound
<1>5. QED
  BY <1>2, <1>3, <1>4 DEF SessionSound

(* The reply of a request, but for tool calls to run.                      *)
LEMMA ReplySound ==
  ASSUME TypeOK, SessionSound, NEW i \in DOMAIN states,
         StaleReply(i) \/ RunFails(i) \/ TooManyRounds(i) \/ RunEnds(i)
  PROVE  SessionSound'
<1>0. Live(states[i]) \/ busy' = busy
  BY DEF StaleReply, RunFails, TooManyRounds, RunEnds
<1>1. /\ states' = Others(i)
      /\ UNCHANGED <<currentId, asked, loops, toolRoundsUsed, posted>>
  BY DEF StaleReply, RunFails, TooManyRounds, RunEnds
<1>2. /\ RunsWereAsked' /\ RequestsComplete'
      /\ \A j, k \in LiveRequests' : j = k
      /\ LiveRequests' # {} => LiveRequests # {}
      /\ Live(states[i]) => LiveRequests' = {}
  BY <1>1, RequestAnswered DEF SessionSound
<1>3. OneIsLive' /\ RoundsCounted'
  BY <1>0, <1>1, <1>2 DEF SessionSound
<1>4. Live(states[i]) => loops = <<>>
  BY DEF SessionSound, LiveRequests
<1>5. LoopIsAlone'
  BY <1>0, <1>1, <1>2, <1>4 DEF SessionSound
<1>6. ResultsFollow(history, CallsLeft)'
  <2>1. CASE history' = history
    BY <1>1, <2>1 DEF SessionSound, CallsLeft
  <2>2. CASE Live(states[i]) /\ history' = Trimmed(Append(history, Say("assistant", 0)))
    <3>1. ResultsFollow(history, 0) /\ CallsLeft' = 0
      BY <1>1, <1>4, <2>2 DEF SessionSound, CallsLeft
    <3>2. /\ history \in Seq(Message) /\ Say("assistant", 0) \in Message
          /\ Say("assistant", 0).role # "calls"
      BY MessageTypes DEF TypeOK, Say
    <3>3. ResultsFollow(Append(history, Say("assistant", 0)), 0)
      BY <3>1, <3>2, ResultsFollowAppended
    <3>4. Append(history, Say("assistant", 0)) \in Seq(Message)
      BY <3>2, AppendProperties
    <3>5. QED
      BY <2>2, <3>1, <3>3, <3>4, ResultsFollowTrimmed
  <2>3. QED
    BY <2>1, <2>2 DEF StaleReply, RunFails, TooManyRounds, RunEnds
<1>7. QED
  BY <1>2, <1>3, <1>5, <1>6 DEF SessionSound

(* A reply with tool calls starts the only tool loop.                      *)
LEMMA RunToolCallsSound ==
  ASSUME TypeOK, SessionSound, NEW i \in DOMAIN states, RunToolCalls(i)
  PROVE  SessionSound'
<1>1. PICK calls \in 1..MaxCalls :
        /\ loops' = Append(loops, calls)
        /\ history' = history
             \o (IF currentText THEN <<Say("assistant", 0)>> ELSE <<>>)
             \o <<Say("calls", calls)>>
  <2>1. \A n \in 0..MaxCalls : Received(n) > 0 => Received(n) \in 1..MaxCalls
    BY LLMSessionAssumption DEF Received, TypeOK
  <2>2. QED
    BY <2>1 DEF RunToolCalls
<1>2. /\ states' = Others(i) /\ Live(states[i])
      /\ UNCHANGED <<currentId, asked, posted, busy>>
      /\ toolRoundsUsed' = toolRoundsUsed + 1
  BY DEF RunToolCalls
<1>3. /\ RunsWereAsked' /\ RequestsComplete' /\ LiveRequests' = {}
  BY <1>2, RequestAnswered DEF SessionSound
<1>4. loops = <<>> /\ busy
  BY <1>2 DEF SessionSound, LiveRequests
<1>5. loops' = <<calls>>
  BY <1>1, <1>4
<1>6. currentId # 0
  BY <1>2 DEF Live
<1>7. posted \in Nat /\ toolRoundsUsed \in Nat
  BY LLMSessionAssumption DEF TypeOK
<1>8. LoopIsAlone' /\ OneIsLive' /\ RoundsCounted'
  BY <1>2, <1>3, <1>4, <1>5, <1>6, <1>7 DEF SessionSound
<1>9. ResultsFollow(history', calls)
  <2> DEFINE m == history \o (IF currentText THEN <<Say("assistant", 0)>> ELSE <<>>)
  <2>1. history \in Seq(Message) /\ ResultsFollow(history, 0)
    BY <1>4 DEF SessionSound, CallsLeft, TypeOK
  <2>2. /\ Say("assistant", 0) \in Message /\ Say("assistant", 0).role # "calls"
        /\ Say("calls", calls) \in Message /\ Say("calls", calls).role = "calls"
        /\ Say("calls", calls).n = calls
    BY MessageTypes DEF Say
  <2>3. m \in Seq(Message) /\ ResultsFollow(m, 0)
    <3>1. CASE currentText
      <4>1. m = Append(history, Say("assistant", 0))
        BY <2>1, <2>2, <3>1, AppendIsConcat
      <4>2. Append(history, Say("assistant", 0)) \in Seq(Message)
        BY <2>1, <2>2, AppendProperties
      <4>3. ResultsFollow(Append(history, Say("assistant", 0)), 0)
        BY <2>1, <2>2, ResultsFollowAppended
      <4>4. QED
        BY <4>1, <4>2, <4>3
    <3>2. CASE ~currentText
      <4>1. m = history
        BY <2>1, <3>2, ConcatEmptySeq
      <4>2. QED
        BY <2>1, <4>1
    <3>3. QED
      BY <3>1, <3>2 DEF TypeOK
  <2>4. history' = m \o <<Say("calls", calls)>>
    BY <1>1
  <2> HIDE DEF m
  <2>5. history' = Append(m, Say("calls", calls))
    BY <2>2, <2>3, <2>4, AppendIsConcat
  <2>6. QED
    BY <2>2, <2>3, <2>5, ResultsFollowAppended
<1>10. CallsLeft' = calls
  BY <1>5 DEF CallsLeft
<1>11. QED
  BY <1>3, <1>8, <1>9, <1>10 DEF SessionSound

(* A tool returns: its result fills the first lacking place, and the last  *)
(* one posts the request of the next round.                                *)
LEMMA ToolReturnsSound ==
  ASSUME TypeOK, RunIsLatest, SessionSound, ToolReturns
  PROVE  SessionSound'
<1>1. loops # <<>> /\ Len(loops) = 1 /\ loops[1] \in 1..MaxCalls
  <2>1. loops # <<>> /\ loops \in Seq(1..MaxCalls) /\ Len(loops) = 1
    BY DEF ToolReturns, SessionSound, TypeOK
  <2>2. loops[1] \in 1..MaxCalls
    <3>1. 1 \in 1..Len(loops)
      BY <2>1
    <3>2. QED
      BY <2>1, <3>1, ElementOfSeq
  <2>3. QED
    BY <2>1, <2>2
<1>2. SubSeq(loops, 1, Len(loops) - 1) = <<>>
  BY <1>1, SubSeqEmpty
<1>3. /\ history \in Seq(Message) /\ Say("tool", 0) \in Message
      /\ Say("tool", 0).role = "tool" /\ ResultsFollow(history, loops[1])
  BY <1>1, MessageTypes DEF SessionSound, CallsLeft, TypeOK, Say
<1>4. WithResult \in Seq(Message) /\ ResultsFollow(WithResult, loops[1] - 1)
  <2>1. loops[1] \in Nat /\ loops[1] > 0
    BY <1>1
  <2>2. QED
    BY <1>3, <2>1, AppendProperties, ResultsFollowAppended DEF WithResult
<1>5. /\ LiveRequests = {} /\ posted <= toolRoundsUsed
      /\ toolRoundsUsed \in 0..MaxToolRounds /\ posted \in Nat
      /\ UNCHANGED <<asked, busy, toolRoundsUsed>>
      /\ currentId # 0 => busy
  BY <1>1 DEF SessionSound, ToolReturns, TypeOK
<1>6. CASE loops[1] > 1
  <2>1. /\ loops' = Append(<<>>, loops[1] - 1) /\ history' = WithResult
        /\ UNCHANGED <<currentId, states, posted>>
    BY <1>1, <1>2, <1>6 DEF ToolReturns
  <2>2. loops' = <<loops[1] - 1>> /\ loops' # <<>> /\ CallsLeft' = loops[1] - 1
    BY <2>1 DEF CallsLeft
  <2>3. LiveRequests' = {}
    BY <1>5, <2>1 DEF LiveRequests, Live
  <2>4. LoopIsAlone' /\ OneIsLive' /\ RoundsCounted'
    BY <1>5, <2>1, <2>2, <2>3 DEF SessionSound
  <2>5. RunsWereAsked' /\ RequestsComplete'
    BY <1>5, <2>1 DEF SessionSound
  <2>6. QED
    BY <1>4, <2>1, <2>2, <2>4, <2>5 DEF SessionSound
<1>7. CASE ~(loops[1] > 1)
  <2>1. /\ loops' = <<>> /\ Step(WithResult, currentId, states, asked)
        /\ posted' = posted + 1
    BY <1>1, <1>2, <1>7 DEF ToolReturns
  <2>2. ResultsFollow(WithResult, 0) /\ CallsLeft' = 0
    <3>1. loops[1] - 1 = 0
      BY <1>1, <1>7
    <3>2. QED
      BY <1>4, <2>1, <3>1 DEF CallsLeft
  <2>3. RoundsCounted' /\ LoopIsAlone'
    BY <1>5, <2>1, LLMSessionAssumption
  <2>4. CASE currentId = 0
    <3>1. currentId' = 0 /\ states' = states /\ history' = WithResult
      BY <2>1, <2>4 DEF Step
    <3>2. LiveRequests' = {}
      BY <3>1 DEF LiveRequests, Live
    <3>3. QED
      BY <1>5, <2>2, <2>3, <3>1, <3>2 DEF SessionSound
  <2>5. CASE currentId # 0
    <3>1. currentId \in 1..MaxAsks /\ asked \in 1..MaxAsks /\ currentId = asked
      BY <2>5, LLMSessionAssumption DEF RunIsLatest, TypeOK
    <3>2. /\ states \in Seq(Request)
          /\ \A k \in DOMAIN states : states[k].run # currentId /\ states[k].complete
      BY <1>5, <2>5 DEF SessionSound, LiveRequests, Live, TypeOK
    <3>3. /\ RequestsComplete' /\ \A i, k \in LiveRequests' : i = k
          /\ \A i \in DOMAIN states' :
               \/ states'[i].run = currentId
               \/ \E k \in DOMAIN states : states'[i] = states[k]
          /\ ResultsFollow(history', 0)
      BY <1>4, <2>1, <2>2, <3>1, <3>2, StepSound
    <3>4. RunsWereAsked'
      <4>1. asked \in Nat /\ asked' = asked
        BY <1>5, <3>1
      <4>2. QED
        BY <3>1, <3>3, <4>1 DEF SessionSound
    <3>5. OneIsLive'
      BY <1>5, <2>5, <3>3
    <3>6. QED
      BY <2>2, <2>3, <3>3, <3>4, <3>5 DEF SessionSound
  <2>6. QED
    BY <2>4, <2>5
<1>8. QED
  BY <1>6, <1>7

(* Outside of a nested question or reset, the session stays sound.         *)
LEMMA SessionStaysSound ==
  Spec => [](TypeOK /\ (~nested => SessionSound))
<1>1. Init => SessionSound
  <2> SUFFICES ASSUME Init PROVE SessionSound
    OBVIOUS
  <2>1. LiveRequests = {} /\ CallsLeft = 0
    BY DEF Init, LiveRequests, CallsLeft
  <2>2. ResultsFollow(history, CallsLeft)
    BY <2>1 DEF Init, ResultsFollow
  <2>3. QED
    BY <2>1, <2>2, LLMSessionAssumption DEF Init, SessionSound
<1>2. /\ TypeOK /\ RunIsLatest /\ (~nested => SessionSound) /\ [Next]_llmVars
      => (~nested => SessionSound)'
  <2> SUFFICES ASSUME TypeOK, RunIsLatest, ~nested => SessionSound,
                      [Next]_llmVars, ~nested'
               PROVE  SessionSound'
    OBVIOUS
  <2>0. ~nested
    BY DEF Next, RecvChat, Handle, Quit, Close, Delta, StaleReply, RunFails,
       TooManyRounds, RunToolCalls, RunEnds, ToolReturns, Ask
  <2> USE <2>0
  <2>1. CASE RecvChat
    <3>1. Ask(history, Kept) /\ loops = <<>>
      BY <2>1 DEF RecvChat, Ask
    <3>2. \A i \in DOMAIN Kept : \E k \in DOMAIN states : Kept[i] = states[k]
      BY DEF Kept
    <3>3. QED
      BY <3>1, <3>2, RemainingTypes, AskSound
  <2>2. CASE Handle
    <3> DEFINE kept == IF busy THEN <<>> ELSE Remaining
    <3>1. Ask(history, kept) /\ loops = <<>>
      BY <2>2 DEF Handle, Ask
    <3>2. \A i \in DOMAIN kept : \E k \in DOMAIN states : kept[i] = states[k]
      BY DEF Remaining
    <3>3. kept \in Seq(Request)
      BY RemainingTypes
    <3> HIDE DEF kept
    <3>4. QED
      BY <3>1, <3>2, <3>3, AskSound
  <2>3. CASE Quit
    <3>1. /\ currentId' = 0 /\ states' \in {states, <<>>} /\ loops' = loops
          /\ UNCHANGED <<asked, posted, toolRoundsUsed, history>>
      BY <2>3 DEF Quit, AbortedId, Remaining
    <3>2. /\ ResultsFollow(history, CallsLeft)'
          /\ posted' <= toolRoundsUsed' \/ loops' = <<>>
      BY <3>1 DEF SessionSound, CallsLeft
    <3>3. ResultsFollow(history, CallsLeft)'
      BY <3>1 DEF SessionSound, CallsLeft
    <3>4. QED
      BY <3>1, <3>2, <3>3, AbortSound
  <2>4. ASSUME NEW immersive \in BOOLEAN, Close(immersive) PROVE SessionSound'
    <3>1. /\ currentId' = 0 /\ states' \in {states, <<>>}
          /\ loops = <<>> /\ loops' = loops
          /\ UNCHANGED <<asked, posted>> /\ history' = <<>>
      BY <2>4 DEF Close, Remaining
    <3>2. ResultsFollow(history, CallsLeft)'
      BY <3>1 DEF ResultsFollow
    <3>3. QED
      BY <3>1, <3>2, AbortSound
  <2>5. ASSUME NEW i \in DOMAIN states, Delta(i) PROVE SessionSound'
    <3>1. UNCHANGED <<history, currentId, busy, toolRoundsUsed, states, loops,
                      asked, posted>>
      BY <2>5 DEF Delta
    <3>2. LiveRequests' = LiveRequests /\ CallsLeft' = CallsLeft
      BY <3>1 DEF LiveRequests, Live, CallsLeft
    <3>3. QED
      BY <3>1, <3>2 DEF SessionSound
  <2>6. ASSUME NEW i \in DOMAIN states,
               StaleReply(i) \/ RunFails(i) \/ TooManyRounds(i) \/ RunEnds(i)
        PROVE  SessionSound'
    BY <2>6, ReplySound
  <2>7. ASSUME NEW i \in DOMAIN states, RunToolCalls(i) PROVE SessionSound'
    BY <2>7, RunToolCallsSound
  <2>8. CASE ToolReturns
    BY <2>8, ToolReturnsSound
  <2>9. CASE UNCHANGED llmVars
    <3>1. LiveRequests' = LiveRequests /\ CallsLeft' = CallsLeft
      BY <2>9 DEF LiveRequests, Live, CallsLeft
    <3>2. QED
      BY <2>9, <3>1 DEF SessionSound
  <2>10. QED
    BY <2>1, <2>2, <2>3, <2>4, <2>5, <2>6, <2>7, <2>8, <2>9 DEF Next
<1>3. QED
  BY <1>1, <1>2, TypeCorrect, PTL DEF Spec

(* A question invalidates the callbacks of the run before (comment in      *)
(* LLMSession::ask): replies do not mix, and one that counts finds the     *)
(* session busy with it.                                                   *)
THEOREM RepliesComeOneAtATime == Spec => []OneReplyAtATime
<1>1. TypeOK /\ (~nested => SessionSound) => OneReplyAtATime
  <2> SUFFICES ASSUME ~nested, SessionSound
               PROVE  RepliesDoNotMix /\ (LiveRequests # {} => busy)
    BY DEF OneReplyAtATime
  <2>1. CASE LiveRequests = {}
    BY <2>1, FS_EmptySet DEF RepliesDoNotMix
  <2>2. CASE LiveRequests # {}
    <3>1. PICK i : i \in LiveRequests
      BY <2>2
    <3>2. LiveRequests = {i}
      BY <3>1 DEF SessionSound
    <3>3. Cardinality(LiveRequests) = 1
      BY <3>2, FS_Singleton
    <3>4. QED
      BY <3>3 DEF RepliesDoNotMix, SessionSound
  <2>3. QED
    BY <2>1, <2>2
<1>2. QED
  BY <1>1, SessionStaysSound, PTL

(* Every posted request has the results of the tool calls in its messages, *)
(* whatever was aborted, failed or trimmed before.                         *)
THEOREM PostedCallsHaveResults == Spec => []CallsHaveResults
<1>1. (~nested => SessionSound) => CallsHaveResults
  BY DEF SessionSound, CallsHaveResults
<1>2. QED
  BY <1>1, SessionStaysSound, PTL

(* A question costs at most maxToolRounds requests and one.                *)
THEOREM RoundsStayBounded == Spec => []RoundsBounded
<1>1. (~nested => SessionSound) => RoundsBounded
  BY DEF SessionSound, RoundsBounded
<1>2. QED
  BY <1>1, SessionStaysSound, PTL

HIDE DEF llmVars, runVars, ghostVars, LoopIsAlone, OneIsLive, RunsWereAsked,
         RequestsComplete, RoundsCounted

-----------------------------------------------------------------------------
(* From here on about a conversation, Talk.                                *)

USE DEF Talk!conversationVars, Talk!callVars, Talk!answerVars, Talk!loopVars,
        Talk!voiceVars, Talk!webVars, Talk!ghostVars

-----------------------------------------------------------------------------
(* What an action does to the calls in progress.                           *)

(* The call on top goes to another point of its function.                  *)
TopBecomes(point, ext, question) ==
  /\ stack # <<>> /\ Talk!Depth \in Nat \ {0}
  /\ stack' \in Seq(Talk!Frame) /\ Len(stack') = Talk!Depth
  /\ \A i \in 1..Talk!Depth : i # Talk!Depth => stack'[i] = stack[i]
  /\ stack'[Talk!Depth] = [Talk!Top EXCEPT !.at = point, !.ext = ext, !.question = question]

(* A call is made, or the call on top returns.                             *)
Pushed(frame) ==
  /\ Talk!Depth \in Nat
  /\ stack' \in Seq(Talk!Frame) /\ Len(stack') = Talk!Depth + 1
  /\ \A i \in 1..Talk!Depth : stack'[i] = stack[i]
  /\ stack'[Talk!Depth + 1] = frame
Popped ==
  /\ stack # <<>> /\ Talk!Depth \in Nat \ {0}
  /\ stack' \in Seq(Talk!Frame) /\ Len(stack') = Talk!Depth - 1
  /\ \A i \in 1..Talk!Depth - 1 : stack'[i] = stack[i]

LEMMA StackFacts ==
  ASSUME stack \in Seq(Talk!Frame)
  PROVE  /\ Talk!Depth \in Nat
         /\ \A i \in 1..Talk!Depth : stack[i] \in Talk!Frame
         /\ stack # <<>> => Talk!Depth \in Nat \ {0} /\ Talk!Depth \in 1..Talk!Depth /\ Talk!Top \in Talk!Frame
<1>1. Talk!Depth \in Nat /\ \A i \in 1..Talk!Depth : stack[i] \in Talk!Frame
  BY LenProperties, ElementOfSeq DEF Talk!Depth
<1>2. ASSUME stack # <<>>
      PROVE  Talk!Depth \in Nat \ {0} /\ Talk!Depth \in 1..Talk!Depth /\ Talk!Top \in Talk!Frame
  <2>1. Talk!Depth \in Nat \ {0}
    BY <1>2, EmptySeq DEF Talk!Depth
  <2>2. QED
    BY <1>1, <2>1 DEF Talk!Top
<1>3. QED
  BY <1>1, <1>2

LEMMA ReplaceTop ==
  ASSUME stack \in Seq(Talk!Frame), stack # <<>>,
         NEW frame \in Talk!Frame, stack' = [stack EXCEPT ![Talk!Depth] = frame]
  PROVE  /\ Talk!Depth \in Nat \ {0}
         /\ stack' \in Seq(Talk!Frame) /\ Len(stack') = Talk!Depth
         /\ \A i \in 1..Talk!Depth : i # Talk!Depth => stack'[i] = stack[i]
         /\ stack'[Talk!Depth] = frame
<1>1. Talk!Depth \in Nat \ {0} /\ Talk!Depth \in 1..Len(stack)
  BY StackFacts DEF Talk!Depth
<1>2. /\ stack' \in Seq(Talk!Frame) /\ Len(stack') = Len(stack)
      /\ \A j \in 1..Len(stack) : stack'[j] = IF j = Talk!Depth THEN frame ELSE stack[j]
  BY <1>1, ExceptSeq
<1>3. QED
  BY <1>1, <1>2 DEF Talk!Depth

LEMMA EnterTop ==
  ASSUME stack \in Seq(Talk!Frame), stack # <<>>,
         NEW point \in Talk!Points, NEW ext \in BOOLEAN, NEW question \in Talk!Question \cup {0},
         stack' = [stack EXCEPT ![Talk!Depth].at = point, ![Talk!Depth].ext = ext,
                                ![Talk!Depth].question = question]
  PROVE  TopBecomes(point, ext, question)
<1> DEFINE frame == [Talk!Top EXCEPT !.at = point, !.ext = ext, !.question = question]
<1>1. Talk!Depth \in 1..Len(stack) /\ Talk!Top \in Talk!Frame
  BY StackFacts DEF Talk!Depth
<1>2. frame \in Talk!Frame
  BY <1>1 DEF Talk!Frame
<1>3. stack' = [stack EXCEPT ![Talk!Depth] = frame]
  BY <1>1, LenProperties DEF Talk!Top
<1>4. QED
  BY <1>2, <1>3, ReplaceTop DEF TopBecomes

LEMMA GotoTop ==
  ASSUME stack \in Seq(Talk!Frame), stack # <<>>, NEW point \in Talk!Points, Talk!Goto(point)
  PROVE  TopBecomes(point, Talk!Top.ext, Talk!Top.question)
<1> DEFINE frame == [Talk!Top EXCEPT !.at = point, !.ext = Talk!Top.ext, !.question = Talk!Top.question]
<1>1. Talk!Depth \in 1..Len(stack) /\ Talk!Top \in Talk!Frame
  BY StackFacts DEF Talk!Depth
<1>2. frame \in Talk!Frame /\ frame = [Talk!Top EXCEPT !.at = point]
  BY <1>1 DEF Talk!Frame
<1>3. stack' = [stack EXCEPT ![Talk!Depth] = frame]
  BY <1>1, <1>2, LenProperties DEF Talk!Top, Talk!Goto
<1>4. QED
  BY <1>2, <1>3, ReplaceTop DEF TopBecomes

(* What a call was made for stays as it is.                                *)
LEMMA SameCalls ==
  ASSUME NEW point, NEW ext, NEW question,
         stack \in Seq(Talk!Frame), TopBecomes(point, ext, question)
  PROVE  /\ \A i \in 1..Talk!Depth :
              /\ stack'[i].origin = stack[i].origin /\ stack'[i].id = stack[i].id
              /\ stack'[i].savedId = stack[i].savedId
              /\ stack'[i].savedCanAnswer = stack[i].savedCanAnswer
         /\ stack'[Talk!Depth].at = point /\ stack'[Talk!Depth].ext = ext
<1>1. Talk!Top \in Talk!Frame /\ stack'[Talk!Depth] = [Talk!Top EXCEPT !.at = point, !.ext = ext, !.question = question]
  BY StackFacts DEF TopBecomes
<1>2. /\ stack'[Talk!Depth].origin = Talk!Top.origin /\ stack'[Talk!Depth].id = Talk!Top.id
      /\ stack'[Talk!Depth].savedId = Talk!Top.savedId
      /\ stack'[Talk!Depth].savedCanAnswer = Talk!Top.savedCanAnswer
      /\ stack'[Talk!Depth].at = point /\ stack'[Talk!Depth].ext = ext
  BY <1>1 DEF Talk!Frame
<1>3. \A i \in 1..Talk!Depth : i = Talk!Depth \/ stack'[i] = stack[i]
  BY DEF TopBecomes
<1>4. QED
  BY <1>2, <1>3 DEF Talk!Top

NewCall(origin, id) ==
  [origin |-> origin, id |-> id, savedId |-> externalId,
   savedCanAnswer |-> externalCanAnswer, at |-> "plugin", ext |-> FALSE,
   question |-> 0]

LEMMA CallPushes ==
  ASSUME Talk!TypeOK, NEW origin \in Talk!Origin, NEW id \in Talk!Conv \cup {0}, Talk!Call(origin, id)
  PROVE  Pushed(NewCall(origin, id))
<1>1. NewCall(origin, id) \in Talk!Frame
  BY DEF NewCall, Talk!Frame, Talk!Points, Talk!TypeOK
<1>2. stack' = Append(stack, NewCall(origin, id)) /\ stack \in Seq(Talk!Frame)
  BY DEF Talk!Call, NewCall, Talk!TypeOK
<1>3. QED
  BY <1>1, <1>2, AppendProperties, StackFacts DEF Pushed, Talk!Depth

LEMMA ReturnPops ==
  ASSUME stack \in Seq(Talk!Frame), stack # <<>>, Talk!Return
  PROVE  Popped
<1>1. Talk!Depth \in Nat \ {0} /\ \A i \in 1..Talk!Depth : stack[i] \in Talk!Frame
  BY StackFacts
<1>2. \A i \in 1..Talk!Depth - 1 : stack[i] \in Talk!Frame
  BY <1>1
<1>3. /\ SubSeq(stack, 1, Talk!Depth - 1) \in Seq(Talk!Frame)
      /\ Len(SubSeq(stack, 1, Talk!Depth - 1)) = Talk!Depth - 1
      /\ \A i \in 1..Talk!Depth - 1 : SubSeq(stack, 1, Talk!Depth - 1)[i] = stack[i]
  BY <1>1, <1>2, SubSeqProperties
<1>4. QED
  BY <1>1, <1>3 DEF Popped, Talk!Return, Talk!Depth

-----------------------------------------------------------------------------
(* The request in force.                                                   *)

(* InForce looks at the origins and ids of the outermost calls only.       *)
ForceIn(calls, n, c, can) ==
  \/ /\ c = 0 /\ ~can
     /\ \A i \in 1..n : calls[i].origin \notin Talk!External
  \/ \E i \in 1..n :
       /\ calls[i].origin \in Talk!External
       /\ calls[i].id = c /\ can = (c \in WebConv)
       /\ \A j \in i + 1..n : calls[j].origin \notin Talk!External

LEMMA SameForce ==
  ASSUME NEW s, NEW t, NEW n \in Nat, NEW c, NEW can, ForceIn(s, n, c, can),
         \A i \in 1..n : t[i].origin = s[i].origin /\ t[i].id = s[i].id
  PROVE  ForceIn(t, n, c, can)
<1>1. CASE /\ c = 0 /\ ~can
           /\ \A i \in 1..n : s[i].origin \notin Talk!External
  BY <1>1 DEF ForceIn
<1>2. CASE \E i \in 1..n :
             /\ s[i].origin \in Talk!External
             /\ s[i].id = c /\ can = (c \in WebConv)
             /\ \A j \in i + 1..n : s[j].origin \notin Talk!External
  <2>1. PICK i \in 1..n :
             /\ s[i].origin \in Talk!External
             /\ s[i].id = c /\ can = (c \in WebConv)
             /\ \A j \in i + 1..n : s[j].origin \notin Talk!External
    BY <1>2
  <2>2. \A j \in i + 1..n : j \in 1..n
    BY <2>1
  <2>3. QED
    BY <2>1, <2>2 DEF ForceIn
<1>3. QED
  BY <1>1, <1>2 DEF ForceIn

(* A call of another origin changes nothing, one of a request puts its id  *)
(* in force.                                                               *)
LEMMA ForceGrows ==
  ASSUME NEW s, NEW n \in Nat, NEW c, NEW can, ForceIn(s, n, c, can),
         s[n + 1].origin \notin Talk!External
  PROVE  ForceIn(s, n + 1, c, can)
<1>1. CASE /\ c = 0 /\ ~can
           /\ \A i \in 1..n : s[i].origin \notin Talk!External
  <2>1. \A i \in 1..n + 1 : i \in 1..n \/ i = n + 1
    OBVIOUS
  <2>2. QED
    BY <1>1, <2>1 DEF ForceIn
<1>2. CASE \E i \in 1..n :
             /\ s[i].origin \in Talk!External
             /\ s[i].id = c /\ can = (c \in WebConv)
             /\ \A j \in i + 1..n : s[j].origin \notin Talk!External
  <2>1. PICK i \in 1..n :
             /\ s[i].origin \in Talk!External
             /\ s[i].id = c /\ can = (c \in WebConv)
             /\ \A j \in i + 1..n : s[j].origin \notin Talk!External
    BY <1>2
  <2>2. i \in 1..n + 1 /\ \A j \in i + 1..n + 1 : j \in i + 1..n \/ j = n + 1
    BY <2>1
  <2>3. QED
    BY <2>1, <2>2 DEF ForceIn
<1>3. QED
  BY <1>1, <1>2 DEF ForceIn

LEMMA ForceShrinks ==
  ASSUME NEW s, NEW n \in Nat, NEW c, NEW can, ForceIn(s, n + 1, c, can),
         s[n + 1].origin \notin Talk!External
  PROVE  ForceIn(s, n, c, can)
<1>1. CASE /\ c = 0 /\ ~can
           /\ \A i \in 1..n + 1 : s[i].origin \notin Talk!External
  BY <1>1 DEF ForceIn
<1>2. CASE \E i \in 1..n + 1 :
             /\ s[i].origin \in Talk!External
             /\ s[i].id = c /\ can = (c \in WebConv)
             /\ \A j \in i + 1..n + 1 : s[j].origin \notin Talk!External
  <2>1. PICK i \in 1..n + 1 :
             /\ s[i].origin \in Talk!External
             /\ s[i].id = c /\ can = (c \in WebConv)
             /\ \A j \in i + 1..n + 1 : s[j].origin \notin Talk!External
    BY <1>2
  <2>2. i # n + 1
    BY <2>1
  <2>3. i \in 1..n /\ \A j \in i + 1..n : j \in i + 1..n + 1
    BY <2>1, <2>2
  <2>4. QED
    BY <2>1, <2>3 DEF ForceIn
<1>3. QED
  BY <1>1, <1>2 DEF ForceIn

(* What the invariant says, call by call.                                  *)
LEMMA InForceIsForceIn ==
  /\ Talk!ExternalInForce <=>
       /\ ForceIn(stack, Talk!Depth, externalId, externalCanAnswer)
       /\ \A i \in 1..Talk!Depth : stack[i].origin \in Talk!External =>
            ForceIn(stack, i - 1, stack[i].savedId, stack[i].savedCanAnswer)
  /\ Talk!ExternalInForce' <=>
       /\ ForceIn(stack', Len(stack'), externalId', externalCanAnswer')
       /\ \A i \in 1..Len(stack') : stack'[i].origin \in Talk!External =>
            ForceIn(stack', i - 1, stack'[i].savedId, stack'[i].savedCanAnswer)
  BY DEF Talk!ExternalInForce, Talk!InForce, ForceIn, Talk!Depth

(* Steps of the call on top leave the request in force alone.              *)
LEMMA ForceStays ==
  ASSUME Talk!ExternalInForce, NEW point, NEW ext, NEW question,
         stack \in Seq(Talk!Frame), TopBecomes(point, ext, question),
         UNCHANGED <<externalId, externalCanAnswer>>
  PROVE  Talk!ExternalInForce'
<1>1. \A i \in 1..Talk!Depth :
        /\ stack'[i].origin = stack[i].origin /\ stack'[i].id = stack[i].id
        /\ stack'[i].savedId = stack[i].savedId
        /\ stack'[i].savedCanAnswer = stack[i].savedCanAnswer
  BY SameCalls
<1>2. Len(stack') = Talk!Depth /\ Talk!Depth \in Nat
  BY DEF TopBecomes
<1>3. ForceIn(stack', Len(stack'), externalId', externalCanAnswer')
  BY <1>1, <1>2, SameForce, InForceIsForceIn
<1>4. ASSUME NEW i \in 1..Len(stack'), stack'[i].origin \in Talk!External
      PROVE  ForceIn(stack', i - 1, stack'[i].savedId, stack'[i].savedCanAnswer)
  <2>1. i - 1 \in Nat /\ \A j \in 1..i - 1 : j \in 1..Talk!Depth
    BY <1>2, <1>4
  <2>2. ForceIn(stack, i - 1, stack[i].savedId, stack[i].savedCanAnswer)
    BY <1>1, <1>2, <1>4, InForceIsForceIn
  <2>3. ForceIn(stack', i - 1, stack[i].savedId, stack[i].savedCanAnswer)
    BY <1>1, <2>1, <2>2, SameForce
  <2>4. QED
    BY <1>1, <1>2, <2>3
<1>5. QED
  BY <1>3, <1>4, InForceIsForceIn

(* A request that comes puts itself in force and saves what was.           *)
LEMMA ForcePushed ==
  ASSUME Talk!ExternalInForce, NEW origin, NEW id, stack \in Seq(Talk!Frame),
         Pushed(NewCall(origin, id)),
         IF origin \in Talk!External
         THEN externalId' = id /\ externalCanAnswer' = (id \in WebConv)
         ELSE UNCHANGED <<externalId, externalCanAnswer>>
  PROVE  Talk!ExternalInForce'
<1>1. Talk!Depth \in Nat /\ Len(stack') = Talk!Depth + 1
  BY DEF Pushed
<1>2. \A i \in 1..Talk!Depth : stack'[i] = stack[i]
  BY DEF Pushed
<1>3. /\ stack'[Talk!Depth + 1].origin = origin /\ stack'[Talk!Depth + 1].id = id
      /\ stack'[Talk!Depth + 1].savedId = externalId
      /\ stack'[Talk!Depth + 1].savedCanAnswer = externalCanAnswer
  BY DEF Pushed, NewCall
<1>4. ForceIn(stack', Talk!Depth, externalId, externalCanAnswer)
  BY <1>1, <1>2, SameForce, InForceIsForceIn
<1>5. ForceIn(stack', Talk!Depth + 1, externalId', externalCanAnswer')
  <2>1. CASE origin \in Talk!External
    <3>1. Talk!Depth + 1 \in 1..Talk!Depth + 1 /\ \A j \in Talk!Depth + 1 + 1..Talk!Depth + 1 : FALSE
      BY <1>1
    <3>2. QED
      BY <1>3, <2>1, <3>1 DEF ForceIn
  <2>2. CASE origin \notin Talk!External
    BY <1>1, <1>3, <1>4, <2>2, ForceGrows
  <2>3. QED
    BY <2>1, <2>2
<1>6. ASSUME NEW i \in 1..Len(stack'), stack'[i].origin \in Talk!External
      PROVE  ForceIn(stack', i - 1, stack'[i].savedId, stack'[i].savedCanAnswer)
  <2>1. CASE i = Talk!Depth + 1
    <3>1. i - 1 = Talk!Depth
      BY <1>1, <2>1
    <3>2. QED
      BY <1>3, <1>4, <2>1, <3>1
  <2>2. CASE i # Talk!Depth + 1
    <3>1. i \in 1..Talk!Depth /\ i - 1 \in Nat /\ \A j \in 1..i - 1 : j \in 1..Talk!Depth
      BY <1>1, <1>6, <2>2
    <3>2. ForceIn(stack, i - 1, stack[i].savedId, stack[i].savedCanAnswer)
      BY <1>2, <1>6, <3>1, InForceIsForceIn
    <3>3. ForceIn(stack', i - 1, stack[i].savedId, stack[i].savedCanAnswer)
      BY <1>2, <3>1, <3>2, SameForce
    <3>4. QED
      BY <1>2, <3>1, <3>3
  <2>3. QED
    BY <2>1, <2>2
<1>7. QED
  BY <1>1, <1>5, <1>6, InForceIsForceIn

(* A request that returns restores what it saved.                          *)
LEMMA ForcePopped ==
  ASSUME Talk!ExternalInForce, Popped,
         IF Talk!Top.origin \in Talk!External
         THEN Talk!Restore
         ELSE UNCHANGED <<externalId, externalCanAnswer>>
  PROVE  Talk!ExternalInForce'
<1>1. /\ Talk!Depth \in 1..Talk!Depth /\ Talk!Depth - 1 \in Nat /\ (Talk!Depth - 1) + 1 = Talk!Depth
      /\ Len(stack') = Talk!Depth - 1
  BY DEF Popped
<1>2. \A i \in 1..Talk!Depth - 1 : stack'[i] = stack[i]
  BY DEF Popped
<1>3. ForceIn(stack, Talk!Depth - 1, externalId', externalCanAnswer')
  <2>1. CASE Talk!Top.origin \in Talk!External
    BY <1>1, <2>1, InForceIsForceIn DEF Talk!Restore, Talk!Top
  <2>2. CASE Talk!Top.origin \notin Talk!External
    <3>1. ForceIn(stack, (Talk!Depth - 1) + 1, externalId, externalCanAnswer)
      BY <1>1, InForceIsForceIn
    <3>2. stack[(Talk!Depth - 1) + 1].origin \notin Talk!External
      BY <1>1, <2>2 DEF Talk!Top
    <3>3. ForceIn(stack, Talk!Depth - 1, externalId, externalCanAnswer)
      BY <1>1, <3>1, <3>2, ForceShrinks
    <3>4. QED
      BY <2>2, <3>3
  <2>3. QED
    BY <2>1, <2>2
<1>4. ForceIn(stack', Len(stack'), externalId', externalCanAnswer')
  <2>1. \A i \in 1..Talk!Depth - 1 :
          stack'[i].origin = stack[i].origin /\ stack'[i].id = stack[i].id
    BY <1>2
  <2>2. ForceIn(stack', Talk!Depth - 1, externalId', externalCanAnswer')
    <3> DEFINE n == Talk!Depth - 1
    <3>1. n \in Nat /\ ForceIn(stack, n, externalId', externalCanAnswer')
      BY <1>1, <1>3
    <3>2. \A i \in 1..n :
            stack'[i].origin = stack[i].origin /\ stack'[i].id = stack[i].id
      BY <2>1
    <3> HIDE DEF n
    <3>3. ForceIn(stack', n, externalId', externalCanAnswer')
      BY <3>1, <3>2, SameForce
    <3>4. QED
      BY <3>3 DEF n
  <2>3. QED
    BY <1>1, <2>2
<1>5. ASSUME NEW i \in 1..Len(stack'), stack'[i].origin \in Talk!External
      PROVE  ForceIn(stack', i - 1, stack'[i].savedId, stack'[i].savedCanAnswer)
  <2>1. /\ i \in 1..Talk!Depth /\ i \in 1..Talk!Depth - 1 /\ i - 1 \in Nat
        /\ \A j \in 1..i - 1 : j \in 1..Talk!Depth - 1
    BY <1>1, <1>5
  <2>2. ForceIn(stack, i - 1, stack[i].savedId, stack[i].savedCanAnswer)
    BY <1>2, <1>5, <2>1, InForceIsForceIn
  <2>3. ForceIn(stack', i - 1, stack[i].savedId, stack[i].savedCanAnswer)
    BY <1>2, <2>1, <2>2, SameForce
  <2>4. QED
    BY <1>2, <2>1, <2>3
<1>6. QED
  BY <1>4, <1>5, InForceIsForceIn

-----------------------------------------------------------------------------
(* A call whose plugin runs asks nothing, and one made for GET /intent     *)
(* never gets past its plugin.                                             *)
InPlugin == {"plugin", "busy"}
CallsSound ==
  \A i \in 1..Talk!Depth :
    /\ stack[i].at \in InPlugin => ~stack[i].ext
    /\ stack[i].origin = "http" =>
         stack[i].id \in HttpConv /\ stack[i].at \in InPlugin

CallInv == stack \in Seq(Talk!Frame) /\ Talk!ExternalInForce /\ CallsSound

(* The call on top, if it is a request's, is in force.                     *)
LEMMA TopInForce ==
  ASSUME CallInv, stack # <<>>, Talk!Top.origin \in Talk!External
  PROVE  externalId = Talk!Top.id /\ externalCanAnswer = (Talk!Top.id \in WebConv)
<1>1. Talk!Depth \in Nat \ {0} /\ Talk!Depth \in 1..Talk!Depth
  BY StackFacts DEF CallInv
<1>2. Talk!InForce(Talk!Depth, externalId, externalCanAnswer)
  BY DEF CallInv, Talk!ExternalInForce
<1>3. PICK i \in 1..Talk!Depth :
        /\ stack[i].origin \in Talk!External
        /\ stack[i].id = externalId /\ externalCanAnswer = (externalId \in WebConv)
        /\ \A j \in i + 1..Talk!Depth : stack[j].origin \notin Talk!External
  BY <1>1, <1>2 DEF Talk!InForce, Talk!Top
<1>4. i = Talk!Depth
  <2>1. CASE i # Talk!Depth
    <3>1. Talk!Depth \in i + 1..Talk!Depth
      BY <1>1, <2>1
    <3>2. QED
      BY <1>3, <3>1 DEF Talk!Top
  <2>2. QED
    BY <2>1
<1>5. QED
  BY <1>3, <1>4 DEF Talk!Top

(* So a question can be asked only of a WebSocket request or nobody, and   *)
(* never by the plugin of GET /intent.                                     *)
LEMMA HttpCannotAsk ==
  ASSUME CallInv, stack # <<>>, Talk!Top.origin = "http"
  PROVE  externalId # 0 /\ ~Talk!CanAsk /\ Talk!Top.at \in InPlugin /\ ~Talk!Top.ext
<1>1. Talk!Top.id \in HttpConv /\ Talk!Top.at \in InPlugin /\ ~Talk!Top.ext
  BY StackFacts DEF CallInv, CallsSound, Talk!Top
<1>2. externalId = Talk!Top.id /\ externalCanAnswer = (Talk!Top.id \in WebConv)
  BY TopInForce DEF Talk!External
<1>3. QED
  BY <1>1, <1>2, TalkAssumption DEF Talk!ConversationAssumption, Talk!CanAsk

LEMMA AskedIsWeb ==
  ASSUME CallInv, externalId # 0, Talk!CanAsk
  PROVE  externalId \in WebConv
  BY DEF CallInv, Talk!ExternalInForce, Talk!InForce, Talk!CanAsk

(* What the shapes of a step do to the calls.                              *)
LEMMA CallsMove ==
  ASSUME CallInv, NEW point, NEW ext, NEW question, TopBecomes(point, ext, question),
         UNCHANGED <<externalId, externalCanAnswer>>,
         point \in InPlugin => ~ext,
         Talk!Top.origin = "http" => point \in InPlugin
  PROVE  CallInv'
<1>1. Talk!ExternalInForce'
  BY ForceStays DEF CallInv
<1>0. stack' \in Seq(Talk!Frame)
  BY DEF TopBecomes
<1>2. CallsSound'
  <2> SUFFICES ASSUME NEW i \in 1..Len(stack')
               PROVE  /\ stack'[i].at \in InPlugin => ~stack'[i].ext
                      /\ stack'[i].origin = "http" =>
                           stack'[i].id \in HttpConv /\ stack'[i].at \in InPlugin
    BY DEF CallsSound, Talk!Depth
  <2>1. i \in 1..Talk!Depth /\ Talk!Depth \in 1..Talk!Depth
    BY DEF TopBecomes
  <2>2. CASE i = Talk!Depth
    <3>1. /\ stack'[i].at = point /\ stack'[i].ext = ext
          /\ stack'[i].origin = Talk!Top.origin /\ stack'[i].id = Talk!Top.id
      BY <2>1, <2>2, SameCalls DEF CallInv, Talk!Top
    <3>2. Talk!Top.origin = "http" => Talk!Top.id \in HttpConv
      BY <2>1 DEF CallInv, CallsSound, Talk!Top
    <3>3. QED
      BY <3>1, <3>2
  <2>3. CASE i # Talk!Depth
    BY <2>1, <2>3 DEF TopBecomes, CallInv, CallsSound
  <2>4. QED
    BY <2>2, <2>3
<1>3. QED
  BY <1>0, <1>1, <1>2 DEF CallInv

LEMMA CallsPushed ==
  ASSUME CallInv, NEW origin, NEW id, Pushed(NewCall(origin, id)),
         IF origin \in Talk!External
         THEN externalId' = id /\ externalCanAnswer' = (id \in WebConv)
         ELSE UNCHANGED <<externalId, externalCanAnswer>>,
         origin = "http" => id \in HttpConv
  PROVE  CallInv'
<1>1. Talk!ExternalInForce'
  BY ForcePushed DEF CallInv
<1>0. stack' \in Seq(Talk!Frame)
  BY DEF Pushed
<1>2. CallsSound'
  <2> SUFFICES ASSUME NEW i \in 1..Len(stack')
               PROVE  /\ stack'[i].at \in InPlugin => ~stack'[i].ext
                      /\ stack'[i].origin = "http" =>
                           stack'[i].id \in HttpConv /\ stack'[i].at \in InPlugin
    BY DEF CallsSound, Talk!Depth
  <2>1. i \in 1..Talk!Depth \/ i = Talk!Depth + 1
    BY DEF Pushed
  <2>2. CASE i = Talk!Depth + 1
    BY <2>2 DEF Pushed, NewCall, InPlugin
  <2>3. CASE i \in 1..Talk!Depth
    BY <2>3 DEF Pushed, CallInv, CallsSound
  <2>4. QED
    BY <2>1, <2>2, <2>3
<1>3. QED
  BY <1>0, <1>1, <1>2 DEF CallInv

LEMMA CallsPopped ==
  ASSUME CallInv, Popped,
         IF Talk!Top.origin \in Talk!External
         THEN Talk!Restore
         ELSE UNCHANGED <<externalId, externalCanAnswer>>
  PROVE  CallInv'
<1>1. Talk!ExternalInForce'
  BY ForcePopped DEF CallInv
<1>0. stack' \in Seq(Talk!Frame)
  BY DEF Popped
<1>2. CallsSound'
  <2> SUFFICES ASSUME NEW i \in 1..Len(stack')
               PROVE  /\ stack'[i].at \in InPlugin => ~stack'[i].ext
                      /\ stack'[i].origin = "http" =>
                           stack'[i].id \in HttpConv /\ stack'[i].at \in InPlugin
    BY DEF CallsSound, Talk!Depth
  <2>1. i \in 1..Talk!Depth - 1 /\ i \in 1..Talk!Depth
    BY DEF Popped
  <2>2. QED
    BY <2>1 DEF Popped, CallInv, CallsSound
<1>3. QED
  BY <1>0, <1>1, <1>2 DEF CallInv

-----------------------------------------------------------------------------
(* The invariant: the calls, the loops they wait in, and the request whose *)
(* answer is awaited.                                                      *)

(* Nobody waits in an idle loop, and exactly one call in another.          *)
WaitIn(calls, n, loop, point) ==
  \/ loop = "idle" /\ \A i \in 1..n : calls[i].at # point
  \/ /\ loop # "idle"
     /\ \E i \in 1..n : \A j \in 1..n : calls[j].at = point <=> j = i

LoopInv ==
  /\ WaitIn(stack, Talk!Depth, eventLoop, "waiting")
  /\ WaitIn(stack, Talk!Depth, ttsEventLoop, "saying")

IInv == Talk!TypeOK /\ CallInv /\ LoopInv /\ Talk!AskIdAwaited

(* The four ways a step can treat the calls.  It leaves them alone: *)
LoopsKept ==
  /\ eventLoop' = "idle" <=> eventLoop = "idle"
  /\ ttsEventLoop' = "idle" <=> ttsEventLoop = "idle"
Quiet ==
  /\ UNCHANGED <<stack, externalId, externalCanAnswer, askId>>
  /\ LoopsKept

(* the call on top moves to a point, into a loop or out of one: *)
Passes(before, after, loop, point) ==
  \/ Talk!Top.at # loop /\ point # loop /\ (after = "idle" <=> before = "idle")
  \/ Talk!Top.at # loop /\ point = loop /\ before = "idle" /\ after # "idle"
  \/ Talk!Top.at = loop /\ point # loop /\ before # "idle" /\ after = "idle"
Moves(point, ext, question) ==
  /\ TopBecomes(point, ext, question)
  /\ UNCHANGED <<externalId, externalCanAnswer>>
  /\ point \in InPlugin => ~ext
  /\ Talk!Top.origin = "http" => point \in InPlugin
  /\ Passes(eventLoop, eventLoop', "waiting", point)
  /\ Passes(ttsEventLoop, ttsEventLoop', "saying", point)
  /\ askId' # 0 => ext \/ (askId # 0 /\ ~Talk!Top.ext)

(* a call is made: *)
Enters(origin, id) ==
  /\ Pushed(NewCall(origin, id))
  /\ IF origin \in Talk!External
     THEN externalId' = id /\ externalCanAnswer' = (id \in WebConv)
     ELSE UNCHANGED <<externalId, externalCanAnswer>>
  /\ origin = "http" => id \in HttpConv
  /\ LoopsKept /\ UNCHANGED askId

(* or the call on top returns.                                             *)
Leaves ==
  /\ Popped
  /\ Talk!Top.at = "plugin"
  /\ IF Talk!Top.origin \in Talk!External
     THEN Talk!Restore
     ELSE UNCHANGED <<externalId, externalCanAnswer>>
  /\ LoopsKept /\ UNCHANGED askId

Calls == CallInv /\ LoopInv /\ Talk!AskIdAwaited

(* The waiters of a loop are the same calls when none comes or goes.        *)
LEMMA SameWaiters ==
  ASSUME NEW s, NEW n, NEW t, NEW m, NEW before, NEW after, NEW point,
         WaitIn(s, n, before, point), after = "idle" <=> before = "idle",
         \A i \in 1..n : s[i].at = point => i \in 1..m /\ t[i].at = point,
         \A i \in 1..m : t[i].at = point => i \in 1..n /\ s[i].at = point
  PROVE  WaitIn(t, m, after, point)
<1>1. CASE before = "idle"
  BY <1>1 DEF WaitIn
<1>2. CASE before # "idle"
  <2>1. PICK i \in 1..n : \A j \in 1..n : s[j].at = point <=> j = i
    BY <1>2 DEF WaitIn
  <2>2. i \in 1..m /\ \A j \in 1..m : t[j].at = point <=> j = i
    BY <2>1
  <2>3. QED
    BY <1>2, <2>2 DEF WaitIn
<1>3. QED
  BY <1>1, <1>2

LEMMA QuietKeeps ==
  ASSUME Calls, Quiet
  PROVE  Calls'
<1>1. CallInv' /\ Talk!AskIdAwaited'
  BY DEF Calls, Quiet, CallInv, Talk!ExternalInForce, Talk!InForce, CallsSound,
     Talk!AskIdAwaited, Talk!Depth
<1>2. LoopInv'
  BY DEF Calls, Quiet, LoopsKept, LoopInv, WaitIn, Talk!Depth
<1>3. QED
  BY <1>1, <1>2 DEF Calls

LEMMA WaitsPasses ==
  ASSUME NEW before, NEW after, NEW loop, NEW point, NEW ext, NEW question,
         stack \in Seq(Talk!Frame), TopBecomes(point, ext, question),
         WaitIn(stack, Talk!Depth, before, loop), Passes(before, after, loop, point)
  PROVE  WaitIn(stack', Talk!Depth, after, loop)
<1>0. stack'[Talk!Depth].at = point
  BY SameCalls
<1>1. /\ Talk!Depth \in 1..Talk!Depth /\ stack'[Talk!Depth].at = point
      /\ \A i \in 1..Talk!Depth : i # Talk!Depth => stack'[i] = stack[i]
  BY <1>0 DEF TopBecomes
<1>2. CASE Talk!Top.at # loop /\ point # loop /\ (after = "idle" <=> before = "idle")
  <2>1. \A i \in 1..Talk!Depth : stack'[i].at = loop <=> stack[i].at = loop
    BY <1>1, <1>2 DEF Talk!Top
  <2>2. QED
    BY <1>2, <2>1, SameWaiters
<1>3. CASE Talk!Top.at # loop /\ point = loop /\ before = "idle" /\ after # "idle"
  BY <1>1, <1>3 DEF WaitIn
<1>4. CASE Talk!Top.at = loop /\ point # loop /\ before # "idle" /\ after = "idle"
  BY <1>1, <1>4 DEF WaitIn, Talk!Top
<1>5. QED
  BY <1>2, <1>3, <1>4 DEF Passes

LEMMA MovesKeep ==
  ASSUME Calls, NEW point, NEW ext, NEW question, Moves(point, ext, question)
  PROVE  Calls'
<1>1. CallInv /\ TopBecomes(point, ext, question) /\ stack \in Seq(Talk!Frame)
  BY DEF Calls, Moves, CallInv
<1>2. CallInv'
  BY <1>1, CallsMove DEF Moves
<1>3. LoopInv'
  <2>1. /\ WaitIn(stack', Talk!Depth, eventLoop', "waiting")
        /\ WaitIn(stack', Talk!Depth, ttsEventLoop', "saying")
    BY <1>1, WaitsPasses DEF Calls, LoopInv, Moves
  <2>2. Len(stack') = Talk!Depth
    BY <1>1 DEF TopBecomes
  <2>3. QED
    BY <2>1, <2>2 DEF LoopInv, Talk!Depth
<1>4. Talk!AskIdAwaited'
  <2> SUFFICES ASSUME askId' # 0
               PROVE  \E i \in 1..Len(stack') : stack'[i].ext
    BY DEF Talk!AskIdAwaited, Talk!Depth
  <2>0. stack'[Talk!Depth].ext = ext
    BY <1>1, SameCalls
  <2>1. /\ Talk!Depth \in 1..Talk!Depth /\ Len(stack') = Talk!Depth /\ stack'[Talk!Depth].ext = ext
        /\ \A i \in 1..Talk!Depth : i # Talk!Depth => stack'[i] = stack[i]
    BY <1>1, <2>0 DEF TopBecomes
  <2>2. CASE ext
    BY <2>1, <2>2
  <2>3. CASE askId # 0 /\ ~Talk!Top.ext
    <3>1. PICK i \in 1..Talk!Depth : stack[i].ext
      BY <2>3 DEF Calls, Talk!AskIdAwaited
    <3>2. QED
      BY <2>1, <2>3, <3>1 DEF Talk!Top
  <2>4. QED
    BY <2>2, <2>3 DEF Moves
<1>5. QED
  BY <1>2, <1>3, <1>4 DEF Calls

LEMMA EntersKeeps ==
  ASSUME Calls, NEW origin, NEW id, Enters(origin, id)
  PROVE  Calls'
<1>1. CallInv'
  BY CallsPushed DEF Calls, Enters
<1>2. /\ Talk!Depth \in Nat /\ Len(stack') = Talk!Depth + 1
      /\ \A i \in 1..Talk!Depth : stack'[i] = stack[i]
      /\ stack'[Talk!Depth + 1].at = "plugin"
  BY DEF Enters, Pushed, NewCall
<1>3. LoopInv'
  <2>1. \A i \in 1..Len(stack') : i \in 1..Talk!Depth \/ i = Talk!Depth + 1
    BY <1>2
  <2>2. \A i \in 1..Talk!Depth : i \in 1..Len(stack') /\ i # Talk!Depth + 1
    BY <1>2
  <2>3. WaitIn(stack', Talk!Depth + 1, eventLoop', "waiting")
    BY <1>2, <2>1, <2>2, SameWaiters DEF Calls, Enters, LoopsKept, LoopInv
  <2>4. WaitIn(stack', Talk!Depth + 1, ttsEventLoop', "saying")
    BY <1>2, <2>1, <2>2, SameWaiters DEF Calls, Enters, LoopsKept, LoopInv
  <2>5. QED
    BY <1>2, <2>3, <2>4 DEF LoopInv, Talk!Depth
<1>4. Talk!AskIdAwaited'
  <2>1. \A i \in 1..Talk!Depth : i \in 1..Len(stack')
    BY <1>2
  <2>2. QED
    BY <1>2, <2>1 DEF Calls, Enters, Talk!AskIdAwaited, Talk!Depth
<1>5. QED
  BY <1>1, <1>3, <1>4 DEF Calls

LEMMA LeavesKeeps ==
  ASSUME Calls, Leaves
  PROVE  Calls'
<1>1. CallInv'
  BY CallsPopped DEF Calls, Leaves
<1>2. /\ Talk!Depth \in 1..Talk!Depth /\ Len(stack') = Talk!Depth - 1
      /\ \A i \in 1..Talk!Depth - 1 : stack'[i] = stack[i]
      /\ stack[Talk!Depth].at = "plugin" /\ ~stack[Talk!Depth].ext
  BY DEF Leaves, Popped, Calls, CallInv, CallsSound, InPlugin, Talk!Top
<1>3. \A i \in 1..Talk!Depth : i = Talk!Depth \/ i \in 1..Len(stack')
  BY <1>2
<1>4. \A i \in 1..Len(stack') : i \in 1..Talk!Depth /\ i # Talk!Depth
  BY <1>2
<1>5. LoopInv'
  <2>1. WaitIn(stack', Len(stack'), eventLoop', "waiting")
    BY <1>2, <1>3, <1>4, SameWaiters DEF Calls, Leaves, LoopsKept, LoopInv
  <2>2. WaitIn(stack', Len(stack'), ttsEventLoop', "saying")
    BY <1>2, <1>3, <1>4, SameWaiters DEF Calls, Leaves, LoopsKept, LoopInv
  <2>3. QED
    BY <2>1, <2>2 DEF LoopInv, Talk!Depth
<1>6. Talk!AskIdAwaited'
  BY <1>2, <1>3 DEF Calls, Leaves, Talk!AskIdAwaited, Talk!Depth
<1>7. QED
  BY <1>1, <1>5, <1>6 DEF Calls

-----------------------------------------------------------------------------
(* What each action does to the calls.                                     *)

LEMMA TypeAtTop ==
  ASSUME Talk!TypeOK, NEW points, Talk!Running(points)
  PROVE  /\ stack \in Seq(Talk!Frame) /\ stack # <<>>
         /\ Talk!Top \in Talk!Frame /\ Talk!Top.at \in points
         /\ Talk!Top.ext \in BOOLEAN /\ Talk!Top.question \in Talk!Question \cup {0}
  BY StackFacts DEF Talk!TypeOK, Talk!Running, Talk!Frame

LEMMA PluginWaitsMoves ==
  ASSUME Talk!TypeOK, Calls, Talk!PluginWaits
  PROVE  Moves("busy", Talk!Top.ext, Talk!Top.question)
<1>1. /\ stack \in Seq(Talk!Frame) /\ stack # <<>> /\ Talk!Top.at = "plugin"
      /\ Talk!Goto("busy") /\ "busy" \in Talk!Points
  BY TypeAtTop DEF Talk!PluginWaits, Talk!Points, Talk!Blocked
<1>2. TopBecomes("busy", Talk!Top.ext, Talk!Top.question)
  BY <1>1, GotoTop
<1>3. ~Talk!Top.ext
  BY <1>1, StackFacts DEF Calls, CallInv, CallsSound, InPlugin, Talk!Top
<1>4. QED
  BY <1>1, <1>2, <1>3 DEF Moves, Passes, Talk!PluginWaits, InPlugin

LEMMA PluginResumesMoves ==
  ASSUME Talk!TypeOK, Calls, Talk!PluginResumes
  PROVE  Moves("plugin", Talk!Top.ext, Talk!Top.question)
<1>1. /\ stack \in Seq(Talk!Frame) /\ stack # <<>> /\ Talk!Top.at = "busy"
      /\ Talk!Goto("plugin") /\ "plugin" \in Talk!Points
  BY TypeAtTop DEF Talk!PluginResumes, Talk!Points
<1>2. TopBecomes("plugin", Talk!Top.ext, Talk!Top.question)
  BY <1>1, GotoTop
<1>3. ~Talk!Top.ext
  BY <1>1, StackFacts DEF Calls, CallInv, CallsSound, InPlugin, Talk!Top
<1>4. QED
  BY <1>1, <1>2, <1>3 DEF Moves, Passes, Talk!PluginResumes, InPlugin

LEMMA AskExternalMoves ==
  ASSUME Talk!TypeOK, Calls, Talk!AskExternal
  PROVE  Moves("asked", TRUE, round + 1) /\ askId' \in WebConv
<1>1. /\ stack \in Seq(Talk!Frame) /\ stack # <<>> /\ Talk!Top.at = "plugin"
      /\ "asked" \in Talk!Points /\ round + 1 \in Talk!Question \cup {0}
  BY TypeAtTop, TalkAssumption DEF Talk!ConversationAssumption,
     Talk!AskExternal, Talk!Points, Talk!TypeOK, Talk!Question
<1>2. TopBecomes("asked", TRUE, round + 1)
  BY <1>1, EnterTop DEF Talk!AskExternal, Talk!EnterQuestion
<1>3. Talk!Top.origin # "http"
  BY <1>1, HttpCannotAsk DEF Calls, Talk!AskExternal
<1>4. askId' \in WebConv
  BY AskedIsWeb DEF Calls, Talk!AskExternal
<1>5. QED
  BY <1>1, <1>2, <1>3, <1>4 DEF Moves, Passes, Talk!AskExternal,
     Talk!EnterQuestion, InPlugin

LEMMA AskLocalMoves ==
  ASSUME Talk!TypeOK, Calls, Talk!AskLocal
  PROVE  Moves("asked", FALSE, round + 1)
<1>1. /\ stack \in Seq(Talk!Frame) /\ stack # <<>> /\ Talk!Top.at = "plugin"
      /\ "asked" \in Talk!Points /\ round + 1 \in Talk!Question \cup {0}
  BY TypeAtTop, TalkAssumption DEF Talk!ConversationAssumption, Talk!AskLocal,
     Talk!Points, Talk!TypeOK, Talk!Question
<1>2. TopBecomes("asked", FALSE, round + 1)
  BY <1>1, EnterTop DEF Talk!AskLocal, Talk!EnterQuestion
<1>3. Talk!Top.origin # "http"
  BY <1>1, HttpCannotAsk DEF Calls, Talk!AskLocal
<1>4. ~Talk!Top.ext
  BY <1>1, StackFacts DEF Calls, CallInv, CallsSound, InPlugin, Talk!Top
<1>5. QED
  BY <1>1, <1>2, <1>3, <1>4 DEF Moves, Passes, Talk!AskLocal,
     Talk!EnterQuestion, InPlugin

(* Past its plugin, the call on top is not that of GET /intent.            *)
LEMMA AskerIsNotHttp ==
  ASSUME Talk!TypeOK, Calls, stack # <<>>, Talk!Top.at \notin InPlugin
  PROVE  Talk!Top.origin # "http"
  BY HttpCannotAsk DEF Calls

LEMMA SayPromptMoves ==
  ASSUME Talk!TypeOK, Calls, Talk!SayPrompt
  PROVE  \E point \in {"saying", "said"} : Moves(point, Talk!Top.ext, Talk!Top.question)
<1>1. /\ stack \in Seq(Talk!Frame) /\ stack # <<>> /\ Talk!Top.at = "asked"
      /\ {"saying", "said"} \subseteq Talk!Points
  BY TypeAtTop DEF Talk!SayPrompt, Talk!Points, Talk!Blocked
<1>2. Talk!Top.origin # "http"
  BY <1>1, AskerIsNotHttp DEF InPlugin
<1>3. CASE ttsEventLoop = "idle"
  <2>1. TopBecomes("saying", Talk!Top.ext, Talk!Top.question)
    BY <1>1, <1>3, GotoTop DEF Talk!SayPrompt
  <2>2. QED
    BY <1>1, <1>2, <1>3, <2>1 DEF Moves, Passes, Talk!SayPrompt, InPlugin
<1>4. CASE ttsEventLoop # "idle"
  <2>1. TopBecomes("said", Talk!Top.ext, Talk!Top.question)
    BY <1>1, <1>4, GotoTop DEF Talk!SayPrompt
  <2>2. QED
    BY <1>1, <1>2, <1>4, <2>1 DEF Moves, Passes, Talk!SayPrompt, InPlugin
<1>5. QED
  BY <1>3, <1>4

LEMMA PromptOverMoves ==
  ASSUME Talk!TypeOK, Calls, Talk!PromptOver
  PROVE  Moves("said", Talk!Top.ext, Talk!Top.question)
<1>1. /\ stack \in Seq(Talk!Frame) /\ stack # <<>> /\ Talk!Top.at = "saying"
      /\ "said" \in Talk!Points
  BY TypeAtTop DEF Talk!PromptOver, Talk!Points
<1>2. Talk!Top.origin # "http"
  BY <1>1, AskerIsNotHttp DEF InPlugin
<1>3. TopBecomes("said", Talk!Top.ext, Talk!Top.question)
  BY <1>1, GotoTop DEF Talk!PromptOver
<1>4. QED
  BY <1>1, <1>2, <1>3 DEF Moves, Passes, Talk!PromptOver, InPlugin

LEMMA AwaitAnswerMoves ==
  ASSUME Talk!TypeOK, Calls, Talk!AwaitAnswer
  PROVE  \E point \in {"waiting", "heard"} : Moves(point, Talk!Top.ext, Talk!Top.question)
<1>1. /\ stack \in Seq(Talk!Frame) /\ stack # <<>> /\ Talk!Top.at = "said"
      /\ {"waiting", "heard"} \subseteq Talk!Points
  BY TypeAtTop DEF Talk!AwaitAnswer, Talk!Points, Talk!Blocked
<1>2. Talk!Top.origin # "http"
  BY <1>1, AskerIsNotHttp DEF InPlugin
<1>3. CASE eventLoop = "idle"
  <2>1. TopBecomes("waiting", Talk!Top.ext, Talk!Top.question)
    BY <1>1, <1>3, GotoTop DEF Talk!AwaitAnswer
  <2>2. QED
    BY <1>1, <1>2, <1>3, <2>1 DEF Moves, Passes, Talk!AwaitAnswer, InPlugin
<1>4. CASE eventLoop # "idle"
  <2>1. TopBecomes("heard", Talk!Top.ext, Talk!Top.question)
    BY <1>1, <1>4, GotoTop DEF Talk!AwaitAnswer
  <2>2. QED
    BY <1>1, <1>2, <1>4, <2>1 DEF Moves, Passes, Talk!AwaitAnswer, InPlugin
<1>5. QED
  BY <1>3, <1>4

LEMMA WaitOverMoves ==
  ASSUME Talk!TypeOK, Calls, Talk!WaitOver
  PROVE  Moves("heard", Talk!Top.ext, Talk!Top.question)
<1>1. /\ stack \in Seq(Talk!Frame) /\ stack # <<>> /\ Talk!Top.at = "waiting"
      /\ "heard" \in Talk!Points
  BY TypeAtTop DEF Talk!WaitOver, Talk!Points
<1>2. Talk!Top.origin # "http"
  BY <1>1, AskerIsNotHttp DEF InPlugin
<1>3. TopBecomes("heard", Talk!Top.ext, Talk!Top.question)
  BY <1>1, GotoTop DEF Talk!WaitOver
<1>4. QED
  BY <1>1, <1>2, <1>3 DEF Moves, Passes, Talk!WaitOver, InPlugin

LEMMA AnswerMoves ==
  ASSUME Talk!TypeOK, Calls, Talk!AnswerLocal \/ Talk!AnswerExternal
  PROVE  Moves("plugin", FALSE, 0)
<1>1. /\ stack \in Seq(Talk!Frame) /\ stack # <<>> /\ Talk!Top.at \in {"heard", "said"}
      /\ "plugin" \in Talk!Points /\ 0 \in Talk!Question \cup {0}
  BY TypeAtTop DEF Talk!AnswerLocal, Talk!AnswerExternal, Talk!Points
<1>2. TopBecomes("plugin", FALSE, 0)
  BY <1>1, EnterTop DEF Talk!AnswerLocal, Talk!AnswerExternal, Talk!ReturnAnswer
<1>3. askId' # 0 => askId # 0 /\ ~Talk!Top.ext
  BY DEF Talk!AnswerLocal, Talk!AnswerExternal, Talk!CloseAsk
<1>4. UNCHANGED <<externalId, externalCanAnswer, eventLoop, ttsEventLoop>>
  BY DEF Talk!AnswerLocal, Talk!AnswerExternal, Talk!ReturnAnswer
<1>5. QED
  BY <1>1, <1>2, <1>3, <1>4 DEF Moves, Passes, InPlugin

LEMMA PluginReturnsLeaves ==
  ASSUME Talk!TypeOK, Calls, Talk!PluginReturns
  PROVE  Leaves
<1>1. stack \in Seq(Talk!Frame) /\ stack # <<>> /\ Talk!Top.at = "plugin" /\ Talk!Return
  BY TypeAtTop DEF Talk!PluginReturns
<1>2. Popped
  BY <1>1, ReturnPops
<1>3. QED
  BY <1>1, <1>2 DEF Leaves, LoopsKept, Talk!PluginReturns

LEMMA IntentRequestEnters ==
  ASSUME Talk!TypeOK, Calls, NEW id \in Talk!Conv, Talk!IntentRequest(id)
  PROVE  \E origin \in Talk!External : Enters(origin, id)
<1> DEFINE origin == IF id \in WebConv THEN "web" ELSE "http"
<1>1. origin \in Talk!Origin /\ origin \in Talk!External /\ (origin = "http" => id \in HttpConv)
  BY DEF Talk!Origin, Talk!External, Talk!Conv
<1>2. Pushed(NewCall(origin, id))
  BY <1>1, CallPushes DEF Talk!IntentRequest
<1>3. QED
  BY <1>1, <1>2 DEF Enters, Talk!IntentRequest, LoopsKept

LEMMA WakeIntentEnters ==
  ASSUME Talk!TypeOK, Calls, Talk!WakeIntent
  PROVE  Enters("intent", 0)
<1>1. Pushed(NewCall("intent", 0))
  BY CallPushes DEF Talk!WakeIntent, Talk!Origin
<1>2. QED
  BY <1>1 DEF Enters, Talk!WakeIntent, Talk!External, LoopsKept

LEMMA RecognizedCommandEnters ==
  ASSUME Talk!TypeOK, Calls, Talk!RecognizedCommand
  PROVE  Quiet \/ Enters("command", 0)
<1>1. CASE Head(asrJobs).words
  <2>1. Pushed(NewCall("command", 0))
    BY <1>1, CallPushes DEF Talk!RecognizedCommand, Talk!Origin
  <2>2. QED
    BY <1>1, <2>1 DEF Enters, Talk!RecognizedCommand, Talk!External, LoopsKept
<1>2. CASE ~Head(asrJobs).words
  BY <1>2 DEF Talk!RecognizedCommand, Quiet, LoopsKept
<1>3. QED
  BY <1>1, <1>2

(* The events that make no call.                                           *)
LEMMA EventsAreQuiet ==
  ASSUME Talk!TypeOK,
         \/ UNCHANGED Talk!conversationVars
         \/ Talk!AskRefused
         \/ \E id \in Talk!Conv : Talk!Reply(id)
         \/ Talk!PlayEnd \/ Talk!GuardTimeout \/ Talk!AskTimeout
         \/ Talk!Dialog \/ Talk!OnResponse \/ Talk!RecognizedAnswer
         \/ \E ask \in shown : Talk!OnExternalAnswer(ask)
         \/ \E id \in WebConv : Talk!ClientLeaves(id)
  PROVE  Quiet
<1>1. CASE UNCHANGED Talk!conversationVars
  BY <1>1 DEF Quiet, LoopsKept
<1>2. CASE Talk!AskRefused
  BY <1>2 DEF Talk!AskRefused, Quiet, LoopsKept
<1>3. CASE \E id \in Talk!Conv : Talk!Reply(id)
  BY <1>3 DEF Talk!Reply, Quiet, LoopsKept
<1>4. CASE Talk!PlayEnd \/ Talk!GuardTimeout
  BY <1>4 DEF Talk!PlayEnd, Talk!GuardTimeout, Quiet, LoopsKept
<1>5. CASE Talk!AskTimeout
  BY <1>5 DEF Talk!AskTimeout, Talk!Quit, Quiet, LoopsKept
<1>6. CASE Talk!Dialog \/ Talk!OnResponse
  BY <1>6 DEF Talk!Dialog, Talk!OnResponse, Quiet, LoopsKept
<1>7. CASE Talk!RecognizedAnswer
  BY <1>7 DEF Talk!RecognizedAnswer, Talk!DeliverAnswer, Talk!Quit, Quiet,
     LoopsKept
<1>8. CASE \E ask \in shown : Talk!OnExternalAnswer(ask)
  BY <1>8 DEF Talk!OnExternalAnswer, Talk!DeliverAnswer, Talk!Quit, Quiet,
     LoopsKept
<1>9. CASE \E id \in WebConv : Talk!ClientLeaves(id)
  BY <1>9 DEF Talk!ClientLeaves, Quiet, LoopsKept
<1>10. QED
  BY <1>1, <1>2, <1>3, <1>4, <1>5, <1>6, <1>7, <1>8, <1>9

LEMMA CallsKept ==
  ASSUME Talk!TypeOK, Calls, [Talk!Next]_(Talk!conversationVars)
  PROVE  Calls'
<1>1. CASE Talk!PluginReturns
  BY <1>1, PluginReturnsLeaves, LeavesKeeps
<1>2. CASE Talk!PluginWaits
  BY <1>2, PluginWaitsMoves, MovesKeep
<1>3. CASE Talk!PluginResumes
  BY <1>3, PluginResumesMoves, MovesKeep
<1>4. CASE Talk!AskExternal
  BY <1>4, AskExternalMoves, MovesKeep
<1>5. CASE Talk!AskLocal
  BY <1>5, AskLocalMoves, MovesKeep
<1>6. CASE Talk!SayPrompt
  BY <1>6, SayPromptMoves, MovesKeep
<1>7. CASE Talk!PromptOver
  BY <1>7, PromptOverMoves, MovesKeep
<1>8. CASE Talk!AwaitAnswer
  BY <1>8, AwaitAnswerMoves, MovesKeep
<1>9. CASE Talk!WaitOver
  BY <1>9, WaitOverMoves, MovesKeep
<1>10. CASE Talk!AnswerLocal \/ Talk!AnswerExternal
  BY <1>10, AnswerMoves, MovesKeep
<1>11. CASE \E id \in Talk!Conv : Talk!IntentRequest(id)
  BY <1>11, IntentRequestEnters, EntersKeeps
<1>12. CASE Talk!WakeIntent
  BY <1>12, WakeIntentEnters, EntersKeeps
<1>13. CASE Talk!RecognizedCommand
  BY <1>13, RecognizedCommandEnters, EntersKeeps, QuietKeeps
<1>14. CASE \/ UNCHANGED Talk!conversationVars
            \/ Talk!AskRefused
            \/ \E id \in Talk!Conv : Talk!Reply(id)
            \/ Talk!PlayEnd \/ Talk!GuardTimeout \/ Talk!AskTimeout
            \/ Talk!Dialog \/ Talk!OnResponse \/ Talk!RecognizedAnswer
            \/ \E ask \in shown : Talk!OnExternalAnswer(ask)
            \/ \E id \in WebConv : Talk!ClientLeaves(id)
  <2>1. Quiet
    BY <1>14, EventsAreQuiet
  <2>2. QED
    BY <2>1, QuietKeeps
<1>15. QED
  BY <1>1, <1>2, <1>3, <1>4, <1>5, <1>6, <1>7, <1>8, <1>9, <1>10, <1>11,
     <1>12, <1>13, <1>14 DEF Talk!Next, Talk!Step, Talk!Event

-----------------------------------------------------------------------------
(* Types.                                                                  *)

Job == [kind : {"command", "answer"}, to : Talk!Question \cup {0}, words : BOOLEAN]

LEMMA AnswerTypes ==
  /\ Talk!NoAnswer \in Talk!Answer
  /\ \A q \in Talk!Question \cup {0} : /\ [by |-> "voice", to |-> q] \in Talk!Answer
                                  /\ [by |-> "web", to |-> q] \in Talk!Answer
  BY DEF Talk!Answer, Talk!NoAnswer

(* A job of the queue, and the queue without it.                           *)
LEMMA JobTypes ==
  ASSUME Talk!TypeOK, asrJobs # <<>>
  PROVE  /\ Tail(asrJobs) \in Seq(Job)
         /\ Talk!Heard(Head(asrJobs)) \in Talk!Answer
<1>1. asrJobs \in Seq(Job)
  BY DEF Talk!TypeOK, Job
<1>2. Head(asrJobs) \in Job /\ Tail(asrJobs) \in Seq(Job)
  BY <1>1, HeadTailProperties
<1>3. QED
  BY <1>2, AnswerTypes DEF Talk!Heard, Job

LEMMA UtteranceTypes ==
  ASSUME Talk!TypeOK, NEW kind \in {"command", "answer"}, NEW words \in BOOLEAN,
         Talk!Utterance(kind, words)
  PROVE  asrJobs' \in Seq(Job) /\ mic' = "closed"
<1> DEFINE job == [kind |-> kind, to |-> IF kind = "answer" THEN micQuestion ELSE 0,
                   words |-> words]
<1>1. job \in Job
  BY DEF Talk!TypeOK, Job
<1>2. asrJobs \in Seq(Job) /\ asrJobs' = Append(asrJobs, job) /\ mic' = "closed"
  BY DEF Talk!Utterance, Talk!TypeOK, Job
<1> HIDE DEF job
<1>3. Append(asrJobs, job) \in Seq(Job)
  BY <1>1, <1>2, AppendProperties
<1>4. QED
  BY <1>2, <1>3

LEMMA DeliverTypes ==
  ASSUME Talk!TypeOK, NEW answer \in Talk!Answer, Talk!DeliverAnswer(answer)
  PROVE  /\ askAnswered' \in BOOLEAN
         /\ askAnswer' \in Talk!Answer /\ resultCache' \in Talk!Answer
         /\ eventLoop' \in {"idle", "exec", "quit"}
  BY DEF Talk!TypeOK, Talk!DeliverAnswer, Talk!Quit

LEMMA TypeKept ==
  ASSUME Talk!TypeOK, Calls, [Talk!Next]_(Talk!conversationVars)
  PROVE  Talk!TypeOK'
<1>0. stack' \in Seq(Talk!Frame)
  BY CallsKept DEF Calls, CallInv
<1>1. CASE Talk!PluginReturns
  <2>1. Talk!Top \in Talk!Frame
    BY <1>1, TypeAtTop DEF Talk!PluginReturns
  <2>2. Talk!Top.savedId \in Talk!Conv \cup {0} /\ Talk!Top.savedCanAnswer \in BOOLEAN
    BY <2>1 DEF Talk!Frame
  <2>3. externalId' \in Talk!Conv \cup {0} /\ externalCanAnswer' \in BOOLEAN
    BY <1>1, <2>2 DEF Talk!PluginReturns, Talk!Restore, Talk!TypeOK
  <2>4. QED
    BY <1>0, <1>1, <2>3 DEF Talk!PluginReturns, Talk!Finish, Talk!TypeOK
<1>2. CASE Talk!PluginWaits \/ Talk!PluginResumes
  BY <1>0, <1>2 DEF Talk!PluginWaits, Talk!PluginResumes, Talk!TypeOK
<1>3. CASE Talk!AskRefused
  <2>1. round + 1 \in Talk!Question /\ round + 1 \in 0..MaxQuestions
    BY <1>3, TalkAssumption DEF Talk!ConversationAssumption, Talk!AskRefused,
       Talk!TypeOK, Talk!Question
  <2>2. result' \in [question : Talk!Question \cup {0}, answer : Talk!Answer]
    BY <1>3, <2>1, AnswerTypes DEF Talk!AskRefused
  <2>3. QED
    BY <1>0, <1>3, <2>1, <2>2 DEF Talk!AskRefused, Talk!TypeOK
<1>4. CASE Talk!AskExternal
  <2>1. round + 1 \in Talk!Question /\ round + 1 \in 0..MaxQuestions
    BY <1>4, TalkAssumption DEF Talk!ConversationAssumption, Talk!AskExternal,
       Talk!TypeOK, Talk!Question
  <2>2. askId' \in WebConv /\ askId' = externalId /\ askAnswer' \in Talk!Answer
    BY <1>4, AskExternalMoves, AnswerTypes DEF Talk!AskExternal
  <2>3. open' \subseteq WebConv /\ shown' \subseteq [id : WebConv, question : Talk!Question]
    BY <1>4, <2>1, <2>2 DEF Talk!AskExternal, Talk!TypeOK
  <2>4. QED
    BY <1>0, <1>4, <2>1, <2>2, <2>3 DEF Talk!AskExternal, Talk!EnterQuestion,
       Talk!TypeOK
<1>5. CASE Talk!AskLocal
  <2>1. round + 1 \in 0..MaxQuestions
    BY <1>5, TalkAssumption DEF Talk!ConversationAssumption, Talk!AskLocal,
       Talk!TypeOK
  <2>2. QED
    BY <1>0, <1>5, <2>1 DEF Talk!AskLocal, Talk!EnterQuestion, Talk!TypeOK
<1>6. CASE Talk!SayPrompt \/ Talk!PromptOver \/ Talk!WaitOver
  BY <1>0, <1>6 DEF Talk!SayPrompt, Talk!PromptOver, Talk!WaitOver, Talk!TypeOK
<1>7. CASE Talk!AwaitAnswer
  <2>1. Talk!Top.question \in Talk!Question \cup {0} /\ Talk!Top.ext \in BOOLEAN
    BY <1>7, TypeAtTop DEF Talk!AwaitAnswer
  <2>2. QED
    BY <1>0, <1>7, <2>1 DEF Talk!AwaitAnswer, Talk!StartAskTimer, Talk!TypeOK
<1>8. CASE Talk!AnswerLocal \/ Talk!AnswerExternal
  <2>1. Talk!Top.question \in Talk!Question \cup {0}
    BY <1>8, TypeAtTop DEF Talk!AnswerLocal, Talk!AnswerExternal
  <2>2. result' \in [question : Talk!Question \cup {0}, answer : Talk!Answer]
    BY <1>8, <2>1 DEF Talk!AnswerLocal, Talk!AnswerExternal, Talk!ReturnAnswer,
       Talk!TypeOK
  <2>3. askAnswer' \in Talk!Answer /\ resultCache' \in Talk!Answer /\ askId' \in WebConv \cup {0}
    BY <1>8, AnswerTypes DEF Talk!AnswerLocal, Talk!AnswerExternal,
       Talk!ReturnAnswer, Talk!CloseAsk, Talk!TypeOK
  <2>4. askTimer' \in BOOLEAN /\ isResponse' \in BOOLEAN /\ mic' \in {"listening", "window", "closed"}
    BY <1>8 DEF Talk!AnswerLocal, Talk!AnswerExternal, Talk!Finish, Talk!TypeOK
  <2>5. QED
    BY <1>0, <1>8, <2>2, <2>3, <2>4
       DEF Talk!AnswerLocal, Talk!AnswerExternal, Talk!ReturnAnswer, Talk!TypeOK
<1>9. CASE \E id \in Talk!Conv : Talk!IntentRequest(id)
  BY <1>0, <1>9 DEF Talk!IntentRequest, Talk!TypeOK
<1>10. CASE \E id \in Talk!Conv : Talk!Reply(id)
  BY <1>0, <1>10 DEF Talk!Reply, Talk!TypeOK
<1>11. CASE Talk!WakeIntent
  BY <1>0, <1>11 DEF Talk!WakeIntent, Talk!TypeOK
<1>12. CASE Talk!PlayEnd \/ Talk!GuardTimeout \/ Talk!AskTimeout
  BY <1>0, <1>12 DEF Talk!PlayEnd, Talk!GuardTimeout, Talk!AskTimeout,
     Talk!Quit, Talk!TypeOK
<1>13. CASE Talk!Dialog \/ Talk!OnResponse
  <2>1. asrJobs' \in Seq(Job) /\ mic' = "closed"
    BY <1>13, UtteranceTypes DEF Talk!Dialog, Talk!OnResponse
  <2>2. QED
    BY <1>0, <1>13, <2>1 DEF Talk!Dialog, Talk!OnResponse, Talk!TypeOK, Job
<1>14. CASE Talk!RecognizedAnswer
  <2>1. Tail(asrJobs) \in Seq(Job) /\ Talk!Heard(Head(asrJobs)) \in Talk!Answer
    BY <1>14, JobTypes DEF Talk!RecognizedAnswer
  <2>2. /\ askAnswered' \in BOOLEAN
        /\ askAnswer' \in Talk!Answer /\ resultCache' \in Talk!Answer
        /\ eventLoop' \in {"idle", "exec", "quit"}
    BY <1>14, <2>1, DeliverTypes DEF Talk!RecognizedAnswer
  <2>3. QED
    BY <1>0, <1>14, <2>1, <2>2 DEF Talk!RecognizedAnswer, Talk!TypeOK, Job
<1>15. CASE Talk!RecognizedCommand
  <2>1. Tail(asrJobs) \in Seq(Job)
    BY <1>15, JobTypes DEF Talk!RecognizedCommand
  <2>2. QED
    BY <1>0, <1>15, <2>1 DEF Talk!RecognizedCommand, Talk!Finish, Talk!TypeOK,
       Job
<1>16. CASE \E ask \in shown : Talk!OnExternalAnswer(ask)
  <2>1. PICK ask \in shown : Talk!OnExternalAnswer(ask)
    BY <1>16
  <2>2. [by |-> "web", to |-> ask.question] \in Talk!Answer
    BY <2>1, AnswerTypes DEF Talk!TypeOK
  <2>3. /\ askAnswered' \in BOOLEAN
        /\ askAnswer' \in Talk!Answer /\ resultCache' \in Talk!Answer
        /\ eventLoop' \in {"idle", "exec", "quit"}
    BY <2>1, <2>2, DeliverTypes DEF Talk!OnExternalAnswer, Talk!TypeOK
  <2>4. QED
    BY <1>0, <2>1, <2>3 DEF Talk!OnExternalAnswer, Talk!TypeOK
<1>17. CASE \E id \in WebConv : Talk!ClientLeaves(id)
  BY <1>0, <1>17 DEF Talk!ClientLeaves, Talk!TypeOK
<1>18. CASE UNCHANGED Talk!conversationVars
  BY <1>18 DEF Talk!TypeOK
<1>19. QED
  BY <1>1, <1>2, <1>3, <1>4, <1>5, <1>6, <1>7, <1>8, <1>9, <1>10, <1>11,
     <1>12, <1>13, <1>14, <1>15, <1>16, <1>17, <1>18 DEF Talk!Next, Talk!Step, Talk!Event

-----------------------------------------------------------------------------
(* The theorems.                                                           *)

LEMMA InitHolds == Talk!Init => IInv
<1> SUFFICES ASSUME Talk!Init
             PROVE  IInv
  OBVIOUS
<1>1. stack = <<>> /\ stack \in Seq(Talk!Frame) /\ Talk!Depth = 0 /\ 1..Talk!Depth = {}
  BY EmptySeq DEF Talk!Init, Talk!Depth
<1>2. asrJobs \in Seq(Job)
  BY EmptySeq DEF Talk!Init
<1>3. Talk!TypeOK
  <2>1. result \in [question : Talk!Question \cup {0}, answer : Talk!Answer]
    BY AnswerTypes DEF Talk!Init
  <2>2. round \in 0..MaxQuestions
    BY TalkAssumption DEF Talk!ConversationAssumption, Talk!Init
  <2>3. asrJobs \in Seq([kind : {"command", "answer"}, to : Talk!Question \cup {0},
                         words : BOOLEAN])
    BY <1>2 DEF Job
  <2>4. QED
    BY <1>1, <2>1, <2>2, <2>3, AnswerTypes DEF Talk!Init, Talk!TypeOK, Talk!Conv
<1>4. CallInv
  BY <1>1 DEF Talk!Init, CallInv, Talk!ExternalInForce, Talk!InForce, CallsSound
<1>5. LoopInv /\ Talk!AskIdAwaited
  BY <1>1 DEF Talk!Init, LoopInv, WaitIn, Talk!AskIdAwaited
<1>6. QED
  BY <1>3, <1>4, <1>5 DEF IInv

LEMMA StepHolds == IInv /\ [Talk!Next]_(Talk!conversationVars) => IInv'
  BY CallsKept, TypeKept DEF IInv, Calls

(* The same count, by FiniteSets in either module.                         *)
LEMMA SameCardinality == \A S : Talk!Cardinality(S) = Cardinality(S)
  BY DEF Talk!Cardinality, Cardinality

(* A call waits in a loop exactly if the loop executes.                    *)
LEMMA OneWaiter ==
  ASSUME NEW loop, NEW point, Talk!Depth \in Nat, WaitIn(stack, Talk!Depth, loop, point)
  PROVE  Cardinality({i \in 1..Talk!Depth : stack[i].at = point})
           = IF loop = "idle" THEN 0 ELSE 1
<1>1. CASE loop = "idle"
  <2>1. {i \in 1..Talk!Depth : stack[i].at = point} = {}
    BY <1>1 DEF WaitIn
  <2>2. QED
    BY <1>1, <2>1, FS_EmptySet
<1>2. CASE loop # "idle"
  <2>1. PICK i \in 1..Talk!Depth : \A j \in 1..Talk!Depth : stack[j].at = point <=> j = i
    BY <1>2 DEF WaitIn
  <2>2. {j \in 1..Talk!Depth : stack[j].at = point} = {i}
    BY <2>1
  <2>3. QED
    BY <1>2, <2>2, FS_Singleton
<1>3. QED
  BY <1>1, <1>2

LEMMA InvariantGivesOrder == IInv => Talk!CallsInOrder
<1> SUFFICES ASSUME IInv
             PROVE  Talk!CallsInOrder
  OBVIOUS
<1>1. Talk!Depth \in Nat
  BY StackFacts DEF IInv, CallInv
<1>2. Talk!LoopsHaveWaiters
  BY <1>1, OneWaiter, SameCardinality DEF IInv, LoopInv, Talk!LoopsHaveWaiters
<1>3. Talk!HttpNeverWaits
  BY DEF IInv, CallInv, CallsSound, InPlugin, Talk!HttpNeverWaits
<1>4. QED
  BY <1>2, <1>3 DEF IInv, CallInv, Talk!CallsInOrder

(* The state of the dialogue always has the shape the code relies on.      *)
THEOREM TalkTypes == Talk!Spec => []Talk!TypeOK
<1>1. IInv => Talk!TypeOK
  BY DEF IInv
<1>2. QED
  BY <1>1, InitHolds, StepHolds, PTL DEF Talk!Spec

(* However calls nest, the request in force is that of the innermost       *)
(* external call and each call restores the one around it; an answer is    *)
(* awaited only while a call asks for it; each loop that executes has one  *)
(* call waiting in it; and GET /intent never waits (conversation.cpp:367,  *)
(* 407, 418, 498).                                                         *)
THEOREM CallsStayInOrder == Talk!Spec => []Talk!CallsInOrder
  BY InitHolds, StepHolds, InvariantGivesOrder, PTL DEF Talk!Spec

(* Serving GET /intent while a web question waits changes nothing of that  *)
(* question (conversation.cpp:375).                                        *)
THEOREM HttpLeavesAnswers == Talk!Spec => Talk!HttpLeavesAskAlone
<1>1. ASSUME IInv, [Talk!Next]_(Talk!conversationVars)
      PROVE  [stack # <<>> /\ Talk!Top.origin = "http" /\ Talk!Step
                => UNCHANGED <<Talk!answerVars, Talk!loopVars>>]_(Talk!conversationVars)
  <2> SUFFICES ASSUME stack # <<>>, Talk!Top.origin = "http", Talk!Step
               PROVE  UNCHANGED <<Talk!answerVars, Talk!loopVars>>
    OBVIOUS
  <2>1. externalId # 0 /\ ~Talk!CanAsk /\ Talk!Top.at \in InPlugin
    BY <1>1, HttpCannotAsk DEF IInv
  <2>2. Talk!PluginReturns \/ Talk!PluginWaits \/ Talk!PluginResumes \/ Talk!AskRefused
    BY <2>1 DEF Talk!Step, InPlugin, Talk!Running, Talk!AskExternal,
       Talk!AskLocal, Talk!SayPrompt, Talk!PromptOver,
                Talk!AwaitAnswer, Talk!WaitOver, Talk!AnswerLocal,
                Talk!AnswerExternal
  <2>3. QED
    BY <2>2 DEF Talk!PluginReturns, Talk!PluginWaits, Talk!PluginResumes,
       Talk!AskRefused
<1>2. QED
  BY <1>1, InitHolds, StepHolds, PTL DEF Talk!Spec, Talk!HttpLeavesAskAlone

(* Of two answers to one question, by voice and from the web, the first is *)
(* kept until question() returns it (conversation.cpp:160, 427).           *)
THEOREM FirstAnswerKept == Talk!Spec => Talk!FirstAnswerWins
<1>1. ASSUME [Talk!Next]_(Talk!conversationVars)
      PROVE  [askAnswered /\ askAnswered' /\ askAnswer # Talk!NoAnswer
                => askAnswer' \in {askAnswer, Talk!NoAnswer}]_(Talk!conversationVars)
  <2> SUFFICES ASSUME askAnswered, Talk!Next
               PROVE  askAnswer' \in {askAnswer, Talk!NoAnswer}
    BY <1>1
  <2>1. CASE Talk!Step
    BY <2>1 DEF Talk!Step, Talk!PluginReturns, Talk!PluginWaits,
       Talk!PluginResumes, Talk!AskRefused, Talk!AskExternal,
                Talk!AskLocal, Talk!SayPrompt, Talk!PromptOver,
                Talk!AwaitAnswer, Talk!WaitOver, Talk!AnswerLocal,
                Talk!AnswerExternal, Talk!CloseAsk
  <2>2. CASE Talk!Event
    BY <2>2 DEF Talk!Event, Talk!IntentRequest, Talk!Reply, Talk!WakeIntent,
       Talk!PlayEnd, Talk!GuardTimeout,
                Talk!AskTimeout, Talk!Dialog, Talk!OnResponse,
                Talk!RecognizedAnswer, Talk!RecognizedCommand,
                Talk!OnExternalAnswer, Talk!ClientLeaves, Talk!DeliverAnswer
  <2>3. QED
    BY <2>1, <2>2 DEF Talk!Next
<1>2. QED
  BY <1>1, PTL DEF Talk!Spec, Talk!FirstAnswerWins

(* Both together: what question() returns to its plugin is the first       *)
(* answer given while it waited, whatever is served meanwhile.             *)
THEOREM AnswersStayKept == Talk!Spec => Talk!AnswersKept
  BY HttpLeavesAnswers, FirstAnswerKept DEF Talk!AnswersKept

HIDE DEF Talk!conversationVars, Talk!callVars, Talk!answerVars,
         Talk!loopVars, Talk!voiceVars, Talk!webVars, Talk!ghostVars

-----------------------------------------------------------------------------
(* A step of the composition is one of the session or leaves it alone.     *)
LEMMA SessionBehaves == MCSpec => Spec
<1>1. MCInit => Init
  BY DEF MCInit
<1>2. [MCNext]_MCVars => [Next]_llmVars
  BY DEF MCNext, MCVars, OnlySession, OnlyTalk, llmVars, runVars, ghostVars
<1>3. QED
  BY <1>1, <1>2, PTL DEF MCSpec, Spec

(* A step of the composition is one of the conversation or leaves it alone. *)
LEMMA TalkBehaves == MCSpec => Talk!Spec
<1>1. MCInit => Talk!Init
  BY DEF MCInit
<1>2. [MCNext]_MCVars => [Talk!Next]_(Talk!conversationVars)
  BY DEF MCNext, MCVars, OnlySession, OnlyTalk, talkVars, Talk!conversationVars,
         Talk!callVars, Talk!answerVars, Talk!loopVars, Talk!voiceVars,
         Talk!webVars, Talk!ghostVars
<1>3. QED
  BY <1>1, <1>2, PTL DEF MCSpec, Talk!Spec

-----------------------------------------------------------------------------
(* Whatever is asked, aborted or trimmed: a posted request has the results *)
(* of its tool calls, and a question costs a limited number of them.       *)
THEOREM RequestsStayWhole == MCSpec => []RequestsWhole
  BY SessionBehaves, PostedCallsHaveResults, RoundsStayBounded, PTL
     DEF RequestsWhole

(* However the calls of Conversation nest, the request in force, the       *)
(* awaited one and the event loops belong to the right call.               *)
THEOREM TalkStaysInOrder == MCSpec => []CallsInOrder
  BY TalkBehaves, CallsStayInOrder, PTL DEF CallsInOrder

(* A question of a request that cannot be asked back leaves the others     *)
(* alone, and the first answer to a question wins.                         *)
THEOREM TalkKeepsAnswers == MCSpec => AnswersKept
  BY TalkBehaves, AnswersStayKept, PTL DEF AnswersKept
=============================================================================
