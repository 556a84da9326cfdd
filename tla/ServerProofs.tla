---------------------------- MODULE ServerProofs ----------------------------
(***************************************************************************)
(* Proofs about Server, for every set of clients and every bound.          *)
(***************************************************************************)
EXTENDS Server, SequenceTheorems, FiniteSetTheorems, NaturalsInduction, TLAPS

USE DEF serverVars, sessionVars, queueVars, Tracked, Id, NoJob, NoFrame

(* What the next waiting question is, in either branch of                  *)
(* startNextConversation: the queue stays typed and the flag agrees with   *)
(* the posted call.                                                        *)
LEMMA StartNextEffect ==
  ASSUME NEW waiting \in Seq(Id), NEW handling \in BOOLEAN,
         TypeOK, StartNext(waiting, handling),
         handling => job.stage # "none"
  PROVE  /\ pendingConversations' \in Seq(Id)
         /\ handlingConversation' \in BOOLEAN
         /\ job' \in [stage : {"queued", "running"}, id : Id] \cup {NoJob}
         /\ NoneStranded'
<1>1. CASE handling \/ waiting = <<>>
  BY <1>1 DEF StartNext, TypeOK, NoneStranded
<1>2. CASE ~(handling \/ waiting = <<>>)
  <2>1. Head(waiting) \in Id /\ Tail(waiting) \in Seq(Id)
    BY <1>2, HeadTailProperties
  <2>2. QED
    BY <1>2, <2>1 DEF StartNext, NoneStranded
<1>3. QED
  BY <1>1, <1>2

(* Every variable keeps its type.  That the queue flag agrees with the     *)
(* posted call goes along with it, for startNextConversation to keep the   *)
(* type of the call.                                                       *)
THEOREM TypeCorrect == Spec => [](TypeOK /\ NoneStranded)
<1>1. Init => TypeOK /\ NoneStranded
  <2> SUFFICES ASSUME Init PROVE TypeOK /\ NoneStranded
    OBVIOUS
  <2>1. /\ Tracked \subseteq Id /\ socketByConv \in [Tracked -> Socket]
        /\ sockets \subseteq Socket /\ awaitingAnswer \subseteq Id
        /\ pendingConversations \in Seq(Id)
        /\ nextId \in Id
    BY ServerAssumption DEF Init
  <2>2. answered \in [Id -> Nat]
    BY DEF Init
  <2>3. QED
    BY <2>1, <2>2 DEF Init, TypeOK, NoneStranded
<1>2. TypeOK /\ NoneStranded /\ [Next]_serverVars => (TypeOK /\ NoneStranded)'
  <2> SUFFICES ASSUME TypeOK, NoneStranded, [Next]_serverVars
               PROVE  (TypeOK /\ NoneStranded)'
    OBVIOUS
  <2>1. ASSUME NEW s \in Socket, Connect(s)
        PROVE  (TypeOK /\ NoneStranded)'
    BY <2>1 DEF Connect, TypeOK, NoneStranded
  <2>2. ASSUME NEW s \in Socket, OnClosed(s)
        PROVE  (TypeOK /\ NoneStranded)'
    BY <2>2 DEF OnClosed, Without, TypeOK, NoneStranded
  <2>3. ASSUME NEW s \in Socket, OnConversation(s)
        PROVE  (TypeOK /\ NoneStranded)'
    <3>1. Append(pendingConversations, nextId) \in Seq(Id)
      BY AppendProperties DEF TypeOK
    <3>2. /\ pendingConversations' \in Seq(Id)
          /\ handlingConversation' \in BOOLEAN
          /\ job' \in [stage : {"queued", "running"}, id : Id] \cup {NoJob}
          /\ NoneStranded'
      BY <2>3, <3>1, StartNextEffect DEF OnConversation, TypeOK, NoneStranded
    <3>3. nextId' \in Id
      BY <2>3, ServerAssumption DEF OnConversation, NextIdAfter, TypeOK
    <3>4. /\ DOMAIN socketByConv' \subseteq Id
          /\ socketByConv' \in [DOMAIN socketByConv' -> Socket]
      BY <2>3 DEF OnConversation, With, Without, TypeOK
    <3>5. QED
      BY <2>3, <3>2, <3>3, <3>4 DEF OnConversation, TypeOK
  <2>4. ASSUME NEW s \in Socket, NEW id \in Id, OnAnswer(s, id)
        PROVE  (TypeOK /\ NoneStranded)'
    <3>1. answered' \in [Id -> Nat]
      BY <2>4 DEF OnAnswer, TypeOK
    <3>2. frame' \in [op : {"accepted", "ask", "answer", "response"}, id : Id]
      BY <2>4 DEF OnAnswer
    <3>3. QED
      BY <2>4, <3>1, <3>2 DEF OnAnswer, TypeOK, NoneStranded
  <2>5. CASE OnIntent
    <3>1. nextId' \in Id
      BY <2>5, ServerAssumption DEF OnIntent, NextIdAfter, TypeOK
    <3>2. QED
      BY <2>5, <3>1 DEF OnIntent, TypeOK, NoneStranded
  <2>6. CASE RunJob
    <3>1. /\ job' \in [stage : {"queued", "running"}, id : Id]
          /\ job'.stage # "none"
      BY <2>6 DEF RunJob, TypeOK
    <3>2. QED
      BY <2>6, <3>1 DEF RunJob, TypeOK, NoneStranded
  <2>7. CASE FinishJob
    <3>1. /\ pendingConversations' \in Seq(Id)
          /\ handlingConversation' \in BOOLEAN
          /\ job' \in [stage : {"queued", "running"}, id : Id] \cup {NoJob}
          /\ NoneStranded'
      BY <2>7, StartNextEffect DEF FinishJob, TypeOK
    <3>2. QED
      BY <2>7, <3>1 DEF FinishJob, TypeOK
  <2>8. CASE PushQuestion
    BY <2>8 DEF PushQuestion, TypeOK, NoneStranded
  <2>9. ASSUME NEW id \in Id, PushResponse(id)
        PROVE  (TypeOK /\ NoneStranded)'
    BY <2>9 DEF PushResponse, TypeOK, NoneStranded
  <2>10. CASE UNCHANGED serverVars
    BY <2>10 DEF TypeOK, NoneStranded
  <2>11. QED
    BY <2>1, <2>2, <2>3, <2>4, <2>5, <2>6, <2>7, <2>8, <2>9, <2>10 DEF Next
<1>3. QED
  BY <1>1, <1>2, PTL DEF Spec

-----------------------------------------------------------------------------
(* A question and its owner stay together: every tracked conversation      *)
(* belongs to a client online, and only tracked ones take an answer.  A    *)
(* step that drops a conversation from the map, a close or an eviction,    *)
(* must drop its question too.                                             *)
THEOREM OwnersStayOnline == Spec => []OwnersOnline
<1>1. Init => OwnersOnline
  BY DEF Init, OwnersOnline
<1>2. TypeOK /\ OwnersOnline /\ [Next]_serverVars => OwnersOnline'
  <2> SUFFICES ASSUME TypeOK, OwnersOnline, [Next]_serverVars
               PROVE  OwnersOnline'
    OBVIOUS
  <2> USE DEF OwnersOnline
  <2>1. ASSUME NEW s \in Socket, Connect(s)
        PROVE  OwnersOnline'
    BY <2>1 DEF Connect
  <2>2. ASSUME NEW s \in Socket, OnClosed(s)
        PROVE  OwnersOnline'
    BY <2>2 DEF OnClosed, Without
  <2>3. ASSUME NEW s \in Socket, OnConversation(s)
        PROVE  OwnersOnline'
    BY <2>3 DEF OnConversation, With, Without
  <2>4. ASSUME NEW s \in Socket, NEW id \in Id, OnAnswer(s, id)
        PROVE  OwnersOnline'
    BY <2>4 DEF OnAnswer
  <2>5. CASE OnIntent
    BY <2>5 DEF OnIntent
  <2>6. CASE RunJob
    BY <2>6 DEF RunJob
  <2>7. CASE FinishJob
    BY <2>7 DEF FinishJob
  <2>8. CASE PushQuestion
    BY <2>8 DEF PushQuestion
  <2>9. ASSUME NEW id \in Id, PushResponse(id)
        PROVE  OwnersOnline'
    BY <2>9 DEF PushResponse
  <2>10. CASE UNCHANGED serverVars
    BY <2>10
  <2>11. QED
    BY <2>1, <2>2, <2>3, <2>4, <2>5, <2>6, <2>7, <2>8, <2>9, <2>10 DEF Next
<1>3. QED
  BY <1>1, <1>2, TypeCorrect, PTL DEF Spec

(* No question is answered twice: an answer is taken only while an ask of  *)
(* that conversation is open, and taking it closes the ask.                *)
THEOREM AnsweredOnce == Spec => []OneAnswerPerAsk
<1>1. Init => OneAnswerPerAsk
  BY DEF Init, OneAnswerPerAsk
<1>2. TypeOK /\ OneAnswerPerAsk /\ [Next]_serverVars => OneAnswerPerAsk'
  <2> SUFFICES ASSUME TypeOK, OneAnswerPerAsk, [Next]_serverVars
               PROVE  OneAnswerPerAsk'
    OBVIOUS
  <2> USE DEF OneAnswerPerAsk
  <2>1. ASSUME NEW s \in Socket, Connect(s)
        PROVE  OneAnswerPerAsk'
    BY <2>1 DEF Connect
  <2>2. ASSUME NEW s \in Socket, OnClosed(s)
        PROVE  OneAnswerPerAsk'
    BY <2>2 DEF OnClosed
  <2>3. ASSUME NEW s \in Socket, OnConversation(s)
        PROVE  OneAnswerPerAsk'
    BY <2>3 DEF OnConversation
  <2>4. ASSUME NEW s \in Socket, NEW id \in Id, OnAnswer(s, id)
        PROVE  OneAnswerPerAsk'
    BY <2>4 DEF OnAnswer, TypeOK
  <2>5. CASE OnIntent
    BY <2>5 DEF OnIntent
  <2>6. CASE RunJob
    BY <2>6 DEF RunJob
  <2>7. CASE FinishJob
    BY <2>7 DEF FinishJob
  <2>8. CASE PushQuestion
    <3> DEFINE id == job.id
    <3>1. answered' = [answered EXCEPT ![id] = 0]
          /\ awaitingAnswer' = awaitingAnswer \cup {id}
      BY <2>8 DEF PushQuestion
    <3>2. answered \in [Id -> Nat]
      BY DEF TypeOK
    <3> HIDE DEF id
    <3>3. QED
      BY <3>1, <3>2
  <2>9. ASSUME NEW id \in Id, PushResponse(id)
        PROVE  OneAnswerPerAsk'
    BY <2>9 DEF PushResponse
  <2>10. CASE UNCHANGED serverVars
    BY <2>10
  <2>11. QED
    BY <2>1, <2>2, <2>3, <2>4, <2>5, <2>6, <2>7, <2>8, <2>9, <2>10 DEF Next
<1>3. QED
  BY <1>1, <1>2, TypeCorrect, PTL DEF Spec

(* An open question is closed by its own conversation only.                *)
THEOREM AsksClosedByTheirOwn == Spec => AskClosedByItsOwn
<1> DEFINE Closed(c) == \/ frame' \in [op : {"answer", "response"}, id : {c}]
                        \/ socketByConv[c] \notin sockets'
                        \/ c \in Evicted /\ frame'.op = "accepted"
<1>1. TypeOK /\ OwnersOnline /\ [Next]_serverVars
        => \A c \in awaitingAnswer \ awaitingAnswer' : Closed(c)
  <2> SUFFICES ASSUME TypeOK, OwnersOnline, [Next]_serverVars,
                      NEW c \in awaitingAnswer, c \notin awaitingAnswer'
               PROVE  Closed(c)
    OBVIOUS
  <2>1. ASSUME NEW s \in Socket, Connect(s)
        PROVE  Closed(c)
    BY <2>1 DEF Connect
  <2>2. ASSUME NEW s \in Socket, OnClosed(s)
        PROVE  Closed(c)
    BY <2>2 DEF OnClosed
  <2>3. ASSUME NEW s \in Socket, OnConversation(s)
        PROVE  Closed(c)
    BY <2>3 DEF OnConversation
  <2>4. ASSUME NEW s \in Socket, NEW id \in Id, OnAnswer(s, id)
        PROVE  Closed(c)
    BY <2>4 DEF OnAnswer
  <2>5. CASE OnIntent
    BY <2>5 DEF OnIntent
  <2>6. CASE RunJob
    BY <2>6 DEF RunJob
  <2>7. CASE FinishJob
    BY <2>7 DEF FinishJob
  <2>8. CASE PushQuestion
    BY <2>8 DEF PushQuestion
  <2>9. ASSUME NEW id \in Id, PushResponse(id)
        PROVE  Closed(c)
    BY <2>9 DEF PushResponse
  <2>10. CASE UNCHANGED serverVars
    BY <2>10
  <2>11. QED
    BY <2>1, <2>2, <2>3, <2>4, <2>5, <2>6, <2>7, <2>8, <2>9, <2>10 DEF Next
<1>2. QED
  BY <1>1, TypeCorrect, OwnersStayOnline, PTL DEF Spec, AskClosedByItsOwn

-----------------------------------------------------------------------------
(* The first key of a non-empty map over ids exists and is one of its keys.*)
LEMMA FirstKeyInMap ==
  ASSUME NEW map, DOMAIN map \subseteq Nat, DOMAIN map # {}
  PROVE  FirstKey(map) \in DOMAIN map
<1>1. IsWellFoundedOn(OpToRel(<, Nat), Nat)
  BY NatLessThanWellFounded
<1>2. PICK k \in DOMAIN map : \A j \in DOMAIN map : <<j, k>> \notin OpToRel(<, Nat)
  BY <1>1, WFMin
<1>3. \A j \in DOMAIN map : k <= j
  <2> SUFFICES ASSUME NEW j \in DOMAIN map, j < k PROVE FALSE
    OBVIOUS
  <2>1. <<j, k>> \in OpToRel(<, Nat)
    BY DEF OpToRel
  <2>2. QED
    BY <1>2, <2>1
<1>4. QED
  BY <1>3 DEF FirstKey

(* However many questions come, the owners' map never outgrows its limit:  *)
(* a full map gives up one conversation before it takes another.           *)
THEOREM TrackingStaysBounded == Spec => []TrackingBounded
<1> DEFINE Bounded == IsFiniteSet(Tracked) /\ TrackingBounded
<1>1. Init => Bounded
  <2>1. Init => Tracked = {}
    BY DEF Init
  <2>2. QED
    BY <2>1, FS_EmptySet, ServerAssumption DEF TrackingBounded
<1>2. TypeOK /\ Bounded /\ [Next]_serverVars => Bounded'
  <2> SUFFICES ASSUME TypeOK, Bounded, [Next]_serverVars
               PROVE  Bounded'
    OBVIOUS
  <2>1. CASE UNCHANGED socketByConv
    BY <2>1 DEF TrackingBounded
  <2>2. ASSUME NEW s \in Socket, OnClosed(s)
        PROVE  Bounded'
    <3>1. Tracked' \in SUBSET Tracked
      BY <2>2 DEF OnClosed, Without
    <3>2. IsFiniteSet(Tracked') /\ Cardinality(Tracked') <= Cardinality(Tracked)
      BY <3>1, FS_Subset
    <3>3. Cardinality(Tracked') \in Nat /\ Cardinality(Tracked) \in Nat
      BY <3>2, FS_CardinalityType
    <3>4. QED
      BY <3>2, <3>3, ServerAssumption DEF TrackingBounded
  <2>3. ASSUME NEW s \in Socket, OnConversation(s)
        PROVE  Bounded'
    <3> DEFINE kept == Tracked \ Evicted
    <3>1. Tracked' = kept \cup {nextId}
      BY <2>3 DEF OnConversation, With, Without
    <3>2. Cardinality(Tracked) \in Nat
      BY FS_CardinalityType
    <3>3. IsFiniteSet(kept) /\ Cardinality(kept) < MaxTracked
      <4>1. CASE Cardinality(Tracked) >= MaxTracked
        <5>1. Tracked # {}
          BY <4>1, FS_EmptySet, ServerAssumption
        <5> DOMAIN socketByConv \subseteq Nat
          BY ServerAssumption DEF TypeOK
        <5>2. FirstKey(socketByConv) \in Tracked
          BY <5>1, FirstKeyInMap
        <5>3. kept = Tracked \ {FirstKey(socketByConv)}
          BY <4>1 DEF Evicted
        <5> HIDE DEF kept
        <5>4. IsFiniteSet(kept) /\ Cardinality(kept) = Cardinality(Tracked) - 1
          BY <5>2, <5>3, FS_RemoveElement
        <5>5. QED
          BY <3>2, <5>4, ServerAssumption DEF TrackingBounded
      <4>2. CASE ~(Cardinality(Tracked) >= MaxTracked)
        BY <3>2, <4>2, ServerAssumption DEF Evicted
      <4>3. QED
        BY <4>1, <4>2
    <3>4. Cardinality(kept) \in Nat
      BY <3>3, FS_CardinalityType
    <3> HIDE DEF kept
    <3>5. /\ IsFiniteSet(kept \cup {nextId})
          /\ Cardinality(kept \cup {nextId}) <= Cardinality(kept) + 1
      <4> DEFINE x == nextId
      <4> HIDE DEF x
      <4>1. /\ IsFiniteSet(kept \cup {x})
            /\ Cardinality(kept \cup {x})
                 = IF x \in kept THEN Cardinality(kept) ELSE Cardinality(kept) + 1
        BY <3>3, FS_AddElement
      <4>2. /\ IsFiniteSet(kept \cup {x})
            /\ Cardinality(kept \cup {x}) <= Cardinality(kept) + 1
        BY <3>4, <4>1
      <4>3. QED
        BY <4>2 DEF x
    <3>6. IsFiniteSet(Tracked') /\ Cardinality(Tracked') <= MaxTracked
      <4>1. Cardinality(kept \cup {nextId}) \in Nat
        BY <3>5, FS_CardinalityType
      <4>2. QED
        BY <3>1, <3>3, <3>4, <3>5, <4>1, ServerAssumption
    <3>7. QED
      BY <3>6 DEF TrackingBounded
  <2>4. QED
    BY <2>1, <2>2, <2>3
       DEF Next, Connect, OnAnswer, OnIntent, RunJob, FinishJob, PushQuestion,
           PushResponse
<1>3. QED
  BY <1>1, <1>2, TypeCorrect, PTL DEF Spec

-----------------------------------------------------------------------------
LEMMA HeadThenTail ==
  ASSUME NEW S, NEW s \in Seq(S), s # <<>>
  PROVE  s = <<Head(s)>> \o Tail(s)
<1>1. /\ Head(s) \in S /\ Tail(s) \in Seq(S) /\ Len(Tail(s)) = Len(s) - 1
      /\ \A i \in 1..Len(Tail(s)) : Tail(s)[i] = s[i + 1]
  BY HeadTailProperties
<1> DEFINE t == <<Head(s)>> \o Tail(s)
<1>2. <<Head(s)>> \in Seq(S) /\ Len(<<Head(s)>>) = 1 /\ <<Head(s)>>[1] = Head(s)
  BY <1>1
<1>3. /\ t \in Seq(S) /\ Len(t) = 1 + Len(Tail(s))
      /\ \A i \in 1..1 + Len(Tail(s)) :
           t[i] = IF i <= 1 THEN Head(s) ELSE Tail(s)[i - 1]
  <2>1. /\ t \in Seq(S)
        /\ Len(t) = Len(<<Head(s)>>) + Len(Tail(s))
        /\ \A i \in 1..Len(<<Head(s)>>) + Len(Tail(s)) :
             t[i] = IF i <= Len(<<Head(s)>>)
                    THEN <<Head(s)>>[i] ELSE Tail(s)[i - Len(<<Head(s)>>)]
    BY <1>1, <1>2, ConcatProperties
  <2> HIDE DEF t
  <2>2. QED
    BY <1>1, <1>2, <2>1
<1> HIDE DEF t
<1>4. Len(s) \in Nat /\ Len(t) = Len(s)
  BY <1>1, <1>3, LenProperties
<1>5. \A i \in 1..Len(s) : t[i] = s[i]
  BY <1>1, <1>3, <1>4
<1>6. t = s
  BY <1>3, <1>4, <1>5, SeqEqual
<1>7. QED
  BY <1>6 DEF t

LEMMA PrefixAppend ==
  ASSUME NEW S, NEW h \in S, NEW s \in Seq(S), NEW e \in S
  PROVE  <<h>> \o Append(s, e) = Append(<<h>> \o s, e)
<1>1. <<h>> \in Seq(S) /\ <<e>> \in Seq(S)
  OBVIOUS
<1>2. Append(s, e) = s \o <<e>>
  BY AppendIsConcat
<1>3. <<h>> \o s \in Seq(S)
  BY <1>1, ConcatProperties
<1>4. Append(<<h>> \o s, e) = (<<h>> \o s) \o <<e>>
  BY <1>3, AppendIsConcat
<1>5. QED
  BY <1>1, <1>2, <1>4, ConcatAssociative

(* The server's list of accepted questions together with its posted call   *)
(* is a serial queue: questions reach the logic one at a time and in their *)
(* order of arrival, none dropped and none twice.                          *)
THEOREM ImplementsSerialQueue == Spec => ServesInOrder
<1> DEFINE W == IF job.stage = "queued"
                THEN <<job.id>> \o pendingConversations
                ELSE pendingConversations
           R == IF job.stage = "running" THEN job.id ELSE 0
<1>1. Init => Queue!Init
  BY DEF Init, Queue!Init
<1>2. TypeOK /\ NoneStranded /\ [Next]_serverVars => [Queue!Next]_Queue!vars
  <2> SUFFICES ASSUME TypeOK, NoneStranded, [Next]_serverVars
               PROVE  [Queue!Next]_Queue!vars
    OBVIOUS
  <2>0. ASSUME UNCHANGED queueVars
        PROVE  UNCHANGED Queue!vars
    BY <2>0 DEF Queue!vars
  <2>1. ASSUME NEW s \in Socket, OnConversation(s)
        PROVE  Queue!Accept(nextId) /\ nextId \in Id
    <3>1. nextId \in Id /\ pendingConversations \in Seq(Id)
      BY DEF TypeOK
    <3>2. StartNext(Append(pendingConversations, nextId), handlingConversation)
      BY <2>1 DEF OnConversation
    <3>3. CASE handlingConversation
      <4>1. /\ pendingConversations' = Append(pendingConversations, nextId)
            /\ job' = job
        BY <3>2, <3>3 DEF StartNext
      <4>2. CASE job.stage = "queued"
        <5>1. job.id \in Id
          BY <4>2 DEF TypeOK
        <5>2. <<job.id>> \o Append(pendingConversations, nextId)
                = Append(<<job.id>> \o pendingConversations, nextId)
          BY <3>1, <5>1, PrefixAppend
        <5>3. QED
          BY <3>1, <4>1, <4>2, <5>2 DEF Queue!Accept
      <4>3. CASE job.stage # "queued"
        BY <3>1, <4>1, <4>3 DEF Queue!Accept
      <4>4. QED
        BY <4>2, <4>3
    <3>4. CASE ~handlingConversation
      <4>1. pendingConversations = <<>> /\ job.stage = "none"
        BY <3>4 DEF NoneStranded, TypeOK
      <4>2. Append(pendingConversations, nextId) = <<nextId>>
        BY <4>1
      <4>3. Head(<<nextId>>) = nextId /\ Tail(<<nextId>>) = <<>>
        BY <3>1
      <4>4. /\ pendingConversations' = <<>>
            /\ job' = [stage |-> "queued", id |-> nextId]
        BY <3>2, <3>4, <4>2, <4>3 DEF StartNext
      <4>5. <<nextId>> \o <<>> = <<nextId>>
        BY <3>1, ConcatEmptySeq
      <4>6. QED
        BY <3>1, <4>1, <4>2, <4>4, <4>5 DEF Queue!Accept
    <3>5. QED
      BY <3>3, <3>4
  <2>2. CASE RunJob
    <3>1. /\ job.stage = "queued" /\ job'.stage = "running" /\ job'.id = job.id
          /\ pendingConversations' = pendingConversations
          /\ job.id \in Id /\ pendingConversations \in Seq(Id)
      BY <2>2 DEF RunJob, TypeOK
    <3>2. /\ Head(<<job.id>> \o pendingConversations) = job.id
          /\ Tail(<<job.id>> \o pendingConversations) = pendingConversations
          /\ <<job.id>> \o pendingConversations # <<>>
      <4>1. \A h \in Id, p \in Seq(Id) :
               /\ Head(<<h>> \o p) = h
               /\ Tail(<<h>> \o p) = p
               /\ <<h>> \o p # <<>>
        OBVIOUS
      <4>2. QED
        BY <3>1, <4>1
    <3>3. Queue!Begin
      BY <3>1, <3>2 DEF Queue!Begin
    <3>4. QED
      BY <3>3 DEF Queue!Next
  <2>3. CASE FinishJob
    <3>0. StartNext(pendingConversations, FALSE)
      BY <2>3 DEF FinishJob
    <3>1. /\ job.stage = "running" /\ job.id \in Id
          /\ pendingConversations \in Seq(Id)
      BY <2>3 DEF FinishJob, TypeOK
    <3>2. job.id # 0
      BY <3>1, ServerAssumption
    <3>3. CASE pendingConversations = <<>>
      BY <3>0, <3>1, <3>2, <3>3 DEF StartNext, Queue!Finish, Queue!Next
    <3>4. CASE pendingConversations # <<>>
      <4>1. /\ job' = [stage |-> "queued", id |-> Head(pendingConversations)]
            /\ pendingConversations' = Tail(pendingConversations)
        BY <3>0, <3>4 DEF StartNext
      <4>2. pendingConversations
              = <<Head(pendingConversations)>> \o Tail(pendingConversations)
        BY <3>1, <3>4, HeadThenTail
      <4>3. Queue!Finish
        BY <3>1, <3>2, <4>1, <4>2 DEF Queue!Finish
      <4>4. QED
        BY <4>3 DEF Queue!Next
    <3>5. QED
      BY <3>3, <3>4
  <2>4. QED
    BY <2>0, <2>1, <2>2, <2>3
       DEF Next, Connect, OnClosed, OnAnswer, OnIntent, PushQuestion,
           PushResponse, Queue!Next
<1>3. QED
  BY <1>1, <1>2, TypeCorrect, PTL DEF Spec, ServesInOrder, Queue!Spec

(* Questions wait only while one is being handled, which startNext-        *)
(* Conversation keeps whatever question comes or ends.                     *)
THEOREM WaitingAreServed == Spec => []NoneStranded
  BY TypeCorrect, PTL
=============================================================================
