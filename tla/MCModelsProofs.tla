--------------------------- MODULE MCModelsProofs ----------------------------
(***************************************************************************)
(* Proofs about MCModels, for all bounds: both back ends of the language   *)
(* model implement the abstract one, the tool calls of a reply and the     *)
(* results of the tools' servers are whole.                                *)
(***************************************************************************)
EXTENDS MCModels, SequenceTheorems, FiniteSetTheorems, TLAPS

-----------------------------------------------------------------------------
(* Counting lines.                                                         *)

(* The number of elements, by either name.                                 *)
LEMMA SameCardinality ==
  ASSUME NEW S
  PROVE  OpenAI!Cardinality(S) = Cardinality(S)
  BY DEF OpenAI!Cardinality, Cardinality

(* One more line counts for its kind.                                      *)
LEMMA CountAppended ==
  ASSUME NEW S, NEW lines \in Seq(S), NEW line \in S, NEW kind
  PROVE  /\ OpenAI!Count(lines, kind) \in Nat
         /\ OpenAI!Count(Append(lines, line), kind) =
              OpenAI!Count(lines, kind) + IF line = kind THEN 1 ELSE 0
<1> DEFINE n == Len(lines)
           more == Append(lines, line)
           those == {k \in DOMAIN lines : lines[k] = kind}
           now == {k \in DOMAIN more : more[k] = kind}
<1>1. /\ n \in Nat /\ DOMAIN lines = 1..n /\ DOMAIN more = 1..n + 1
      /\ more[n + 1] = line /\ \A k \in 1..n : more[k] = lines[k]
  BY AppendProperties
<1>2. IsFiniteSet(those) /\ n + 1 \notin those
  <2>1. those \subseteq 1..n /\ IsFiniteSet(1..n)
    BY <1>1, FS_Interval
  <2>2. IsFiniteSet(those)
    BY <2>1, FS_Subset
  <2>3. n + 1 \notin 1..n
    BY <1>1
  <2>4. QED
    BY <2>1, <2>2, <2>3
<1>3. now = IF line = kind THEN those \cup {n + 1} ELSE those
  <2>1. 1..n + 1 = 1..n \cup {n + 1}
    BY <1>1
  <2>2. QED
    BY <1>1, <2>1
<1>4. Cardinality(now) = Cardinality(those) + IF line = kind THEN 1 ELSE 0
  <2> HIDE DEF those, now
  <2>1. Cardinality(those) \in Nat
    BY <1>2, FS_CardinalityType
  <2>2. Cardinality(those \cup {n + 1}) = Cardinality(those) + 1
    BY <1>2, FS_AddElement
  <2>3. QED
    BY <1>3, <2>1, <2>2
<1>5. OpenAI!Count(lines, kind) = Cardinality(those) /\ OpenAI!Count(more, kind) = Cardinality(now)
  BY SameCardinality DEF OpenAI!Count
<1>6. QED
  BY <1>2, <1>4, <1>5, FS_CardinalityType

(* Nothing counts as nothing.                                              *)
LEMMA CountNothing ==
  ASSUME NEW kind
  PROVE  OpenAI!Count(<<>>, kind) = 0
<1>1. {k \in DOMAIN <<>> : <<>>[k] = kind} = {}
  OBVIOUS
<1>2. QED
  BY <1>1, FS_EmptySet, SameCardinality DEF OpenAI!Count

(* What is read of the lines are lines, all of them if none is an error.   *)
LEMMA LinesRead ==
  ASSUME NEW S, NEW lines \in Seq(S)
  PROVE  /\ OpenAI!BeforeError(lines) \in Seq(S)
         /\ ~OpenAI!HasError(lines) => OpenAI!BeforeError(lines) = lines
<1> DEFINE n == Cardinality(OpenAI!Handled(lines))
<1>1. Len(lines) \in Nat /\ DOMAIN lines = 1..Len(lines)
  OBVIOUS
<1>2. IsFiniteSet(1..Len(lines)) /\ Cardinality(1..Len(lines)) = Len(lines)
  BY <1>1, FS_Interval
<1>3. OpenAI!Handled(lines) \subseteq 1..Len(lines)
  BY <1>1 DEF OpenAI!Handled
<1>4. n \in Nat /\ n <= Len(lines)
  BY <1>2, <1>3, FS_Subset, FS_CardinalityType
<1>5. \A k \in 1..n : lines[k] \in S
  BY <1>1, <1>4, ElementOfSeq
<1>6. OpenAI!BeforeError(lines) \in Seq(S)
  BY <1>4, <1>5, SubSeqProperties, SameCardinality DEF OpenAI!BeforeError
<1>7. ASSUME ~OpenAI!HasError(lines)
      PROVE  OpenAI!BeforeError(lines) = lines
  <2>1. \A k \in 1..Len(lines) : lines[k] # OpenAI!ErrorLine
    BY <1>1, <1>7 DEF OpenAI!HasError, OpenAI!ToSet
  <2>2. \A k \in 1..Len(lines) : 1..k \subseteq 1..Len(lines)
    BY <1>1
  <2>3. OpenAI!Handled(lines) = 1..Len(lines)
    BY <1>1, <2>1, <2>2 DEF OpenAI!Handled
  <2>4. n = Len(lines)
    BY <1>2, <2>3
  <2>5. QED
    BY <2>4, SubSeqFull, SameCardinality DEF OpenAI!BeforeError
<1>8. QED
  BY <1>6, <1>7

(* Lines are counted in natural numbers.                                   *)
LEMMA CountsAreNumbers ==
  ASSUME NEW S, NEW lines \in Seq(S), NEW kind
  PROVE  OpenAI!Count(lines, kind) \in Nat
<1> DEFINE those == {k \in DOMAIN lines : lines[k] = kind}
<1>1. those \subseteq 1..Len(lines) /\ IsFiniteSet(1..Len(lines))
  BY FS_Interval
<1>2. Cardinality(those) \in Nat
  BY <1>1, FS_Subset, FS_CardinalityType
<1>3. QED
  BY <1>2, SameCardinality DEF OpenAI!Count

-----------------------------------------------------------------------------
(* The back end that asks an HTTP endpoint.                                *)

Replies == {"fresh", "open", "complete", "failed", "closed"}
Amounts == [OpenAI!Indices -> Nat]

OpenAIType ==
  /\ states \subseteq Requests /\ stream \subseteq Requests
  /\ net \in [Requests -> Replies]
  /\ heard \in [Requests -> Nat] /\ ended \in [Requests -> Nat]
  /\ told \in [Requests -> {"nothing", "ok", "error", "aborted"}]
  /\ arrived \in [Requests -> Seq(OpenAI!Lines)]
  /\ sent \in [Requests -> Seq(OpenAI!Lines)]
  /\ partialCalls \in [Requests -> Amounts] /\ calls \in [Requests -> Amounts]

(* A request that was not made is not in the table and has nothing; one    *)
(* that ended well is closed, and no longer in the table.                  *)
TableFits ==
  /\ \A r \in Requests : net[r] = "fresh" =>
       /\ r \notin states /\ r \notin stream /\ ended[r] = 0 /\ told[r] = "nothing"
       /\ arrived[r] = <<>> /\ sent[r] = <<>> /\ partialCalls[r] = OpenAI!NoCalls
  /\ \A r \in Requests : told[r] = "ok" => net[r] = "closed" /\ r \notin states

(* What a stream sent was read or is still to be.                          *)
StreamsFit ==
  \A r \in states : r \in stream =>
    \A i \in OpenAI!Indices :
      partialCalls[r][i] + OpenAI!Count(arrived[r], i) = OpenAI!Count(sent[r], i)

OpenAIInv == OpenAIType /\ TableFits /\ StreamsFit /\ OpenAI!CallsWhole

(* onDone() counts once for each of the requests.                          *)
LEMMA DoneCounts ==
  ASSUME OpenAIType, NEW R, NEW what \in {"ok", "error", "aborted"}, OpenAI!OnDone(R, what)
  PROVE  /\ ended' \in [Requests -> Nat]
         /\ told' \in [Requests -> {"nothing", "ok", "error", "aborted"}]
         /\ \A r \in Requests : told'[r] = IF r \in R THEN what ELSE told[r]
         /\ \A r \in Requests : r \notin R => ended'[r] = ended[r]
  BY DEF OpenAIType, OpenAI!OnDone

(* The fragments a reader puts together.                                   *)
LEMMA ReadFits ==
  ASSUME OpenAIType, NEW r \in Requests, OpenAI!Read(r)
  PROVE  /\ arrived'[r] = <<>> /\ \A s \in Requests : s # r => arrived'[s] = arrived[s]
         /\ arrived' \in [Requests -> Seq(OpenAI!Lines)]
         /\ partialCalls' \in [Requests -> Amounts]
         /\ \A s \in Requests : s # r => partialCalls'[s] = partialCalls[s]
         /\ ~OpenAI!HasError(arrived[r]) =>
              \A i \in OpenAI!Indices :
                partialCalls'[r][i] = partialCalls[r][i] + OpenAI!Count(arrived[r], i)
<1> DEFINE lines == OpenAI!BeforeError(arrived[r])
           merged == OpenAI!Merged(partialCalls[r], lines)
<1>1. /\ arrived[r] \in Seq(OpenAI!Lines) /\ partialCalls[r] \in Amounts
      /\ arrived' = [arrived EXCEPT ![r] = <<>>]
      /\ partialCalls' = [partialCalls EXCEPT ![r] = merged]
  BY DEF OpenAIType, OpenAI!Read
<1>2. /\ lines \in Seq(OpenAI!Lines)
      /\ ~OpenAI!HasError(arrived[r]) => lines = arrived[r]
  BY <1>1, LinesRead
<1>3. \A i \in OpenAI!Indices : OpenAI!Count(lines, i) \in Nat
  BY <1>2, CountsAreNumbers
<1> HIDE DEF lines
<1>4. \A i \in OpenAI!Indices : merged[i] = partialCalls[r][i] + OpenAI!Count(lines, i)
  BY DEF OpenAI!Merged, OpenAI!Fragments
<1>5. merged \in Amounts
  BY <1>1, <1>3 DEF OpenAI!Merged, OpenAI!Fragments, Amounts
<1> HIDE DEF merged
<1>6. /\ arrived' \in [Requests -> Seq(OpenAI!Lines)]
      /\ partialCalls' \in [Requests -> Amounts] /\ partialCalls'[r] = merged
      /\ \A s \in Requests : s # r => partialCalls'[s] = partialCalls[s]
      /\ arrived'[r] = <<>> /\ \A s \in Requests : s # r => arrived'[s] = arrived[s]
  BY <1>1, <1>5 DEF OpenAIType
<1>7. QED
  BY <1>1, <1>2, <1>4, <1>6

(* What onChunk hears of lines is a number.                                *)
LEMMA TextsCount ==
  ASSUME OpenAIType, NEW r \in Requests
  PROVE  OpenAI!Texts(OpenAI!BeforeError(arrived[r])) \in Nat
  BY LinesRead, CountsAreNumbers DEF OpenAIType, OpenAI!Texts

(* The requests' state keeps its type.                                     *)
LEMMA OpenAITypeKept ==
  ASSUME OpenAIType, OpenAI!Next
  PROVE  OpenAIType'
<1> USE DEF OpenAIType
<1>1. ASSUME NEW r \in Requests, NEW streaming \in BOOLEAN, OpenAI!Chat(r, streaming)
      PROVE  OpenAIType'
  BY <1>1 DEF OpenAI!Chat, OpenAI!Post, Replies
<1>2. ASSUME NEW r \in Requests, OpenAI!Refused(r)
      PROVE  OpenAIType'
  BY <1>2, DoneCounts DEF OpenAI!Refused, Replies
<1>3. ASSUME NEW r \in Requests, OpenAI!Complete(r)
      PROVE  OpenAIType'
  BY <1>3 DEF OpenAI!Complete, OpenAI!Post, Replies
<1>4. ASSUME NEW r \in Requests, NEW line \in OpenAI!Lines, OpenAI!Send(r, line)
      PROVE  OpenAIType'
  <2>1. /\ Append(arrived[r], line) \in Seq(OpenAI!Lines)
        /\ Append(sent[r], line) \in Seq(OpenAI!Lines)
    BY AppendProperties
  <2>2. /\ arrived' = [arrived EXCEPT ![r] = Append(arrived[r], line)]
        /\ sent' = [sent EXCEPT ![r] = Append(sent[r], line)]
    BY <1>4 DEF OpenAI!Send
  <2>3. QED
    BY <1>4, <2>1, <2>2 DEF OpenAI!Send
<1>5. ASSUME NEW r \in Requests, NEW how \in {"complete", "failed"}, OpenAI!Close(r, how)
      PROVE  OpenAIType'
  BY <1>5 DEF OpenAI!Close, Replies
<1>6. ASSUME NEW r \in Requests, OpenAI!ReadyRead(r)
      PROVE  OpenAIType'
  <2>1. arrived' \in [Requests -> Seq(OpenAI!Lines)] /\ partialCalls' \in [Requests -> Amounts]
    BY <1>6, ReadFits DEF OpenAI!ReadyRead
  <2>2. heard' \in [Requests -> Nat]
    BY <1>6, TextsCount DEF OpenAI!ReadyRead
  <2>3. ended' \in [Requests -> Nat] /\ told' \in [Requests -> {"nothing", "ok", "error", "aborted"}]
    BY <1>6, DoneCounts DEF OpenAI!ReadyRead
  <2>4. QED
    BY <1>6, <2>1, <2>2, <2>3 DEF OpenAI!ReadyRead
<1>7. ASSUME NEW r \in Requests, OpenAI!FinishedLate(r)
      PROVE  OpenAIType'
  BY <1>7 DEF OpenAI!FinishedLate, Replies
<1>8. ASSUME NEW r \in Requests, OpenAI!StreamFinished(r)
      PROVE  OpenAIType'
  <2>1. arrived' \in [Requests -> Seq(OpenAI!Lines)] /\ partialCalls' \in [Requests -> Amounts]
    BY <1>8, ReadFits DEF OpenAI!StreamFinished
  <2>2. heard' \in [Requests -> Nat]
    BY <1>8, TextsCount DEF OpenAI!StreamFinished
  <2>3. ended' \in [Requests -> Nat] /\ told' \in [Requests -> {"nothing", "ok", "error", "aborted"}]
    BY <1>8, DoneCounts DEF OpenAI!StreamFinished
  <2>4. calls' \in [Requests -> Amounts]
    <3>1. OpenAI!NoCalls \in Amounts /\ partialCalls'[r] \in Amounts
      BY <2>1 DEF OpenAI!NoCalls, Amounts
    <3>2. QED
      BY <1>8, <3>1 DEF OpenAI!StreamFinished
  <2>5. net' \in [Requests -> Replies] /\ states' \subseteq Requests
    BY <1>8 DEF OpenAI!StreamFinished, OpenAI!Finish, Replies
  <2>6. QED
    BY <1>8, <2>1, <2>2, <2>3, <2>4, <2>5 DEF OpenAI!StreamFinished
<1>9. ASSUME NEW r \in Requests, OpenAI!WholeFinished(r)
      PROVE  OpenAIType'
  <2>1. ended' \in [Requests -> Nat] /\ told' \in [Requests -> {"nothing", "ok", "error", "aborted"}]
    BY <1>9, DoneCounts DEF OpenAI!WholeFinished
  <2>2. calls' \in [Requests -> Amounts]
    <3>1. OpenAI!NoCalls \in Amounts
      BY DEF OpenAI!NoCalls, Amounts
    <3>2. OpenAI!Fragments(arrived[r]) \in Amounts
      BY CountsAreNumbers DEF OpenAI!Fragments, Amounts
    <3>3. QED
      BY <1>9, <3>1, <3>2 DEF OpenAI!WholeFinished
  <2>3. /\ net' \in [Requests -> Replies] /\ states' \subseteq Requests
        /\ arrived' \in [Requests -> Seq(OpenAI!Lines)] /\ heard' \in [Requests -> Nat]
    BY <1>9 DEF OpenAI!WholeFinished, OpenAI!Finish, Replies
  <2>4. QED
    BY <1>9, <2>1, <2>2, <2>3 DEF OpenAI!WholeFinished
<1>10. ASSUME NEW R, R \subseteq states, OpenAI!Abort(R)
       PROVE  OpenAIType'
  <2>1. ended' \in [Requests -> Nat] /\ told' \in [Requests -> {"nothing", "ok", "error", "aborted"}]
    BY <1>10, DoneCounts DEF OpenAI!Abort
  <2>2. QED
    BY <1>10, <2>1 DEF OpenAI!Abort, OpenAI!Kept, Replies
<1>11. CASE OpenAI!Return
  BY <1>11 DEF OpenAI!Return
<1>12. QED
  BY <1>1, <1>2, <1>3, <1>4, <1>5, <1>6, <1>7, <1>8, <1>9, <1>10, <1>11
     DEF OpenAI!Next, OpenAI!Timeout, OpenAI!AbortAll

(* The table, the streams and the calls handed over keep fitting together. *)
LEMMA OpenAIFitKept ==
  ASSUME OpenAIInv, OpenAIType', OpenAI!Next
  PROVE  TableFits' /\ StreamsFit' /\ OpenAI!CallsWhole'
<1> DEFINE Goal == TableFits' /\ StreamsFit' /\ OpenAI!CallsWhole'
<1> USE DEF TableFits, StreamsFit, OpenAI!CallsWhole
<1>0. /\ states \subseteq Requests /\ stream \subseteq Requests
      /\ OpenAIType /\ TableFits /\ StreamsFit /\ OpenAI!CallsWhole
  BY DEF OpenAIInv, OpenAIType
<1>13. /\ net \in [Requests -> Replies]
       /\ arrived \in [Requests -> Seq(OpenAI!Lines)]
       /\ sent \in [Requests -> Seq(OpenAI!Lines)]
       /\ \A s \in Requests : partialCalls[s] \in Amounts
       /\ DOMAIN calls = Requests
  BY DEF OpenAIInv, OpenAIType
<1>1. ASSUME NEW r \in Requests, NEW streaming \in BOOLEAN, OpenAI!Chat(r, streaming)
      PROVE  Goal
  <2>1. /\ net[r] = "fresh" /\ net' = [net EXCEPT ![r] = "open"]
        /\ states' = states \cup {r} /\ stream' \in {stream, stream \cup {r}}
        /\ UNCHANGED <<arrived, partialCalls, sent, calls, ended, told>>
    BY <1>1 DEF OpenAI!Chat, OpenAI!Post
  <2>2. \A i \in OpenAI!Indices :
          partialCalls[r][i] + OpenAI!Count(arrived[r], i) = OpenAI!Count(sent[r], i)
    BY <1>0, <2>1, CountNothing DEF OpenAI!NoCalls
  <2>3. TableFits'
    BY <1>0, <1>13, <2>1
  <2>4. StreamsFit'
    BY <1>0, <1>13, <2>1, <2>2
  <2>5. OpenAI!CallsWhole'
    BY <1>0, <1>13, <2>1
  <2>6. QED
    BY <2>3, <2>4, <2>5
<1>2. ASSUME NEW r \in Requests, OpenAI!Refused(r)
      PROVE  Goal
  <2>1. /\ net[r] = "fresh" /\ net' = [net EXCEPT ![r] = "closed"]
        /\ UNCHANGED <<arrived, states, stream, partialCalls, sent, calls>>
        /\ \A s \in Requests : told'[s] = IF s \in {r} THEN "error" ELSE told[s]
        /\ \A s \in Requests : s \notin {r} => ended'[s] = ended[s]
    BY <1>0, <1>2, DoneCounts DEF OpenAI!Refused
  <2>2. TableFits'
    BY ZenonT(40), <1>0, <1>13, <2>1
  <2>3. StreamsFit'
    BY <1>0, <1>13, <2>1
  <2>4. OpenAI!CallsWhole'
    BY ZenonT(40), <1>0, <1>13, <2>1
  <2>5. QED
    BY <2>2, <2>3, <2>4
<1>3. ASSUME NEW r \in Requests, OpenAI!Complete(r)
      PROVE  Goal
  <2>1. /\ net[r] = "fresh" /\ net' = [net EXCEPT ![r] = "open"]
        /\ states' = states \cup {r}
        /\ UNCHANGED <<stream, arrived, partialCalls, sent, calls, ended, told>>
    BY <1>3 DEF OpenAI!Complete, OpenAI!Post
  <2>2. TableFits'
    BY <1>0, <1>13, <2>1
  <2>3. StreamsFit'
    BY <1>0, <1>13, <2>1
  <2>4. OpenAI!CallsWhole'
    BY <1>0, <1>13, <2>1
  <2>5. QED
    BY <2>2, <2>3, <2>4
<1>4. ASSUME NEW r \in Requests, NEW line \in OpenAI!Lines, OpenAI!Send(r, line)
      PROVE  Goal
  <2>1. /\ net[r] = "open"
        /\ UNCHANGED <<net, states, stream, partialCalls, ended, told, calls>>
        /\ arrived'[r] = Append(arrived[r], line) /\ sent'[r] = Append(sent[r], line)
        /\ \A s \in Requests : s # r => arrived'[s] = arrived[s] /\ sent'[s] = sent[s]
    BY <1>4, <1>13 DEF OpenAI!Send
  <2>2. arrived[r] \in Seq(OpenAI!Lines) /\ sent[r] \in Seq(OpenAI!Lines)
    BY <1>13
  <2>3. ASSUME NEW i \in OpenAI!Indices, r \in states, r \in stream
        PROVE  partialCalls[r][i] + OpenAI!Count(arrived'[r], i) = OpenAI!Count(sent'[r], i)
    <3>1. /\ OpenAI!Count(arrived[r], i) \in Nat /\ OpenAI!Count(sent[r], i) \in Nat
          /\ OpenAI!Count(arrived'[r], i) = OpenAI!Count(arrived[r], i) + IF line = i THEN 1 ELSE 0
          /\ OpenAI!Count(sent'[r], i) = OpenAI!Count(sent[r], i) + IF line = i THEN 1 ELSE 0
      BY <2>1, <2>2, CountAppended
    <3>2. /\ partialCalls[r][i] + OpenAI!Count(arrived[r], i) = OpenAI!Count(sent[r], i)
          /\ partialCalls[r][i] \in Nat
      BY <1>0, <1>13, <2>3 DEF Amounts
    <3>3. QED
      BY <3>1, <3>2
  <2>4. TableFits'
    BY <1>0, <2>1
  <2>5. StreamsFit'
    <3>1. ASSUME NEW s \in states', s \in stream', NEW i \in OpenAI!Indices
          PROVE  partialCalls'[s][i] + OpenAI!Count(arrived'[s], i) = OpenAI!Count(sent'[s], i)
      <4>1. CASE s = r
        BY <2>1, <2>3, <3>1, <4>1
      <4>2. CASE s # r
        BY <1>0, <2>1, <3>1, <4>2
      <4>3. QED
        BY <4>1, <4>2
    <3>2. QED
      BY <3>1
  <2>6. OpenAI!CallsWhole'
    <3>1. told[r] # "ok"
      BY <1>0, <2>1
    <3>2. QED
      BY <1>0, <2>1, <3>1
  <2>7. QED
    BY <2>4, <2>5, <2>6
<1>5. ASSUME NEW r \in Requests, NEW how \in {"complete", "failed"}, OpenAI!Close(r, how)
      PROVE  Goal
  BY <1>0, <1>5, <1>13 DEF OpenAI!Close
<1>6. ASSUME NEW r \in Requests, OpenAI!ReadyRead(r)
      PROVE  Goal
  <2>1. /\ net[r] = "open" /\ r \in states /\ r \in stream
        /\ UNCHANGED <<net, stream, sent, calls>>
        /\ arrived'[r] = <<>> /\ \A s \in Requests : s # r => arrived'[s] = arrived[s]
        /\ \A s \in Requests : s # r => partialCalls'[s] = partialCalls[s]
    BY <1>0, <1>6, ReadFits DEF OpenAI!ReadyRead
  <2>2. CASE OpenAI!HasError(arrived[r])
    <3>1. /\ states' = states \ {r}
          /\ \A s \in Requests : told'[s] = IF s \in {r} THEN "error" ELSE told[s]
          /\ \A s \in Requests : s \notin {r} => ended'[s] = ended[s]
      BY <1>0, <1>6, <2>2, DoneCounts DEF OpenAI!ReadyRead
    <3>2. TableFits'
      BY ZenonT(40), <1>0, <1>13, <2>1, <3>1
    <3>3. StreamsFit'
      <4>1. \A s \in states' : s \in states /\ s # r /\ s \in Requests
        BY <1>0, <3>1
      <4>2. \A s \in states' : /\ partialCalls'[s] = partialCalls[s] /\ arrived'[s] = arrived[s]
                               /\ sent'[s] = sent[s]
        BY <2>1, <4>1
      <4>3. QED
        BY <1>0, <2>1, <4>1, <4>2
    <3>4. OpenAI!CallsWhole'
      <4>1. \A s \in stream' : told'[s] = "ok" => s # r /\ told[s] = "ok"
        BY <1>0, <2>1, <3>1
      <4>2. QED
        BY <1>0, <2>1, <4>1
    <3>5. QED
      BY <3>2, <3>3, <3>4
  <2>3. CASE ~OpenAI!HasError(arrived[r])
    <3>1. /\ UNCHANGED <<states, ended, told>>
          /\ \A i \in OpenAI!Indices :
               partialCalls'[r][i] = partialCalls[r][i] + OpenAI!Count(arrived[r], i)
      BY <1>0, <1>6, <2>3, ReadFits DEF OpenAI!ReadyRead
    <3>2. \A i \in OpenAI!Indices :
            partialCalls'[r][i] + OpenAI!Count(arrived'[r], i) = OpenAI!Count(sent'[r], i)
      <4>1. arrived'[r] = <<>> /\ sent'[r] \in Seq(OpenAI!Lines)
        BY <1>13, <2>1
      <4>2. SUFFICES ASSUME NEW i \in OpenAI!Indices
                     PROVE  partialCalls'[r][i] + OpenAI!Count(arrived'[r], i)
                              = OpenAI!Count(sent'[r], i)
        OBVIOUS
      <4>3. partialCalls'[r][i] = OpenAI!Count(sent'[r], i)
        BY <1>0, <2>1, <3>1
      <4>4. OpenAI!Count(sent'[r], i) \in Nat /\ OpenAI!Count(arrived'[r], i) = 0
        BY <4>1, CountNothing, CountsAreNumbers
      <4>5. QED
        BY <4>3, <4>4
    <3>3. TableFits'
      BY <1>0, <1>13, <2>1, <3>1
    <3>4. StreamsFit'
      <4>1. \A s \in states' : s \in states /\ s \in Requests
        BY <1>0, <3>1
      <4>2. \A s \in states' : s # r => /\ partialCalls'[s] = partialCalls[s]
                                        /\ arrived'[s] = arrived[s] /\ sent'[s] = sent[s]
        BY <2>1, <4>1
      <4>3. QED
        BY <1>0, <2>1, <3>2, <4>1, <4>2
    <3>5. OpenAI!CallsWhole'
      BY <1>0, <1>13, <2>1, <3>1
    <3>6. QED
      BY <3>3, <3>4, <3>5
  <2>4. QED
    BY <2>2, <2>3
<1>7. ASSUME NEW r \in Requests, OpenAI!FinishedLate(r)
      PROVE  Goal
  BY <1>0, <1>7, <1>13 DEF OpenAI!FinishedLate
<1>8. ASSUME NEW r \in Requests, OpenAI!StreamFinished(r)
      PROVE  Goal
  <2>1. /\ net[r] \in {"complete", "failed"} /\ r \in states /\ r \in stream
        /\ net' = [net EXCEPT ![r] = "closed"] /\ states' = states \ {r}
        /\ UNCHANGED <<stream, sent>>
        /\ arrived'[r] = <<>> /\ \A s \in Requests : s # r => arrived'[s] = arrived[s]
        /\ \A s \in Requests : s # r => partialCalls'[s] = partialCalls[s] /\ calls'[s] = calls[s]
    BY <1>0, <1>8, <1>13, ReadFits DEF OpenAI!StreamFinished, OpenAI!Finish
  <2>2. /\ \A s \in Requests : s \notin {r} => ended'[s] = ended[s] /\ told'[s] = told[s]
        /\ told'[r] = "ok" => ~OpenAI!HasError(arrived[r])
    BY <1>0, <1>8, DoneCounts DEF OpenAI!StreamFinished
  <2>3. ASSUME told'[r] = "ok", NEW i \in OpenAI!Indices
        PROVE  calls'[r][i] = OpenAI!Count(sent'[r], i)
    <3>1. calls'[r] = partialCalls'[r]
      BY <1>8, <1>13, <2>2, <2>3 DEF OpenAI!StreamFinished
    <3>2. partialCalls'[r][i] = partialCalls[r][i] + OpenAI!Count(arrived[r], i)
      BY <1>0, <1>8, <2>2, <2>3, ReadFits DEF OpenAI!StreamFinished
    <3>3. QED
      BY <1>0, <2>1, <3>1, <3>2
  <2>8. /\ \A s \in states' : s \in states /\ s # r /\ s \in Requests
        /\ r \in Requests
    BY <1>0, <2>1
  <2>9. /\ \A s \in Requests : s # r => /\ net'[s] = net[s] /\ ended'[s] = ended[s]
                                        /\ told'[s] = told[s]
        /\ net'[r] = "closed"
    BY <1>13, <2>1, <2>2
  <2>4. TableFits'
    BY <1>0, <2>1, <2>8, <2>9
  <2>5. StreamsFit'
    <3>1. \A s \in states' : /\ partialCalls'[s] = partialCalls[s] /\ arrived'[s] = arrived[s]
                             /\ sent'[s] = sent[s]
      BY <2>1, <2>8
    <3>2. QED
      BY <1>0, <2>1, <2>8, <3>1
  <2>6. OpenAI!CallsWhole'
    <3>1. ASSUME NEW s \in stream', told'[s] = "ok", NEW i \in OpenAI!Indices
          PROVE  calls'[s][i] = OpenAI!Count(sent'[s], i)
      <4>1. CASE s = r
        BY <2>3, <3>1, <4>1
      <4>2. CASE s # r
        BY <1>0, <2>1, <2>2, <3>1, <4>2
      <4>3. QED
        BY <4>1, <4>2
    <3>2. QED
      BY <3>1
  <2>7. QED
    BY <2>4, <2>5, <2>6
<1>9. ASSUME NEW r \in Requests, OpenAI!WholeFinished(r)
      PROVE  Goal
  <2>1. /\ net[r] \in {"complete", "failed"} /\ r \in states /\ r \notin stream
        /\ net' = [net EXCEPT ![r] = "closed"] /\ states' = states \ {r}
        /\ UNCHANGED <<stream, sent, partialCalls>>
        /\ \A s \in Requests : s # r => arrived'[s] = arrived[s] /\ calls'[s] = calls[s]
    BY <1>9, <1>13 DEF OpenAI!WholeFinished, OpenAI!Finish
  <2>2. \A s \in Requests : s \notin {r} => ended'[s] = ended[s] /\ told'[s] = told[s]
    BY <1>0, <1>9, DoneCounts DEF OpenAI!WholeFinished
  <2>3. TableFits'
    BY ZenonT(40), <1>0, <1>13, <2>1, <2>2
  <2>4. StreamsFit'
    BY <1>0, <1>13, <2>1, <2>2
  <2>5. OpenAI!CallsWhole'
    <3>1. \A s \in stream' : s \in Requests /\ s # r
      BY <1>0, <2>1
    <3>2. \A s \in stream' : told'[s] = told[s] /\ calls'[s] = calls[s] /\ sent'[s] = sent[s]
      BY <2>1, <2>2, <3>1
    <3>3. QED
      BY <1>0, <2>1, <3>2
  <2>6. QED
    BY <2>3, <2>4, <2>5
<1>10. ASSUME NEW R, R \subseteq states, OpenAI!Abort(R)
       PROVE  Goal
  <2>1. /\ states' = states \ R
        /\ UNCHANGED <<arrived, stream, partialCalls, sent, calls>>
        /\ \A s \in Requests : net'[s] = IF s \in R THEN "closed" ELSE net[s]
    BY <1>10 DEF OpenAI!Abort, OpenAI!Kept
  <2>2. /\ \A s \in Requests : told'[s] = IF s \in R THEN "aborted" ELSE told[s]
        /\ \A s \in Requests : s \notin R => ended'[s] = ended[s]
    BY <1>0, <1>10, DoneCounts DEF OpenAI!Abort
  <2>3. TableFits'
    BY ZenonT(40), <1>0, <1>10, <1>13, <2>1, <2>2
  <2>4. StreamsFit'
    BY <1>0, <1>10, <1>13, <2>1, <2>2
  <2>5. OpenAI!CallsWhole'
    BY <1>0, <1>10, <1>13, <2>1, <2>2
  <2>6. QED
    BY <2>3, <2>4, <2>5
<1>11. CASE OpenAI!Return
  BY <1>0, <1>11 DEF OpenAI!Return
<1>12. QED
  BY <1>1, <1>2, <1>3, <1>4, <1>5, <1>6, <1>7, <1>8, <1>9, <1>10, <1>11
     DEF OpenAI!Next, OpenAI!Timeout, OpenAI!AbortAll

(* A step of the back end is one of the abstract back end.                 *)
LEMMA OpenAIImplements ==
  ASSUME OpenAIInv, OpenAIType', OpenAI!Next
  PROVE  OpenAI!Promise!Next \/ UNCHANGED <<states, heard, ended>>
<1> DEFINE Goal == OpenAI!Promise!Next \/ UNCHANGED <<states, heard, ended>>
<1>0. /\ OpenAIType /\ TableFits /\ states \subseteq Requests
      /\ heard \in [Requests -> Nat] /\ heard' \in [Requests -> Nat]
  BY DEF OpenAIInv, OpenAIType
<1>1. ASSUME NEW r \in Requests, NEW streaming \in BOOLEAN, OpenAI!Chat(r, streaming)
      PROVE  Goal
  <2>1. OpenAI!Promise!Chat(r)
    BY <1>0, <1>1 DEF OpenAI!Chat, OpenAI!Post, OpenAI!Promise!Chat, TableFits
  <2>2. QED
    BY <2>1 DEF OpenAI!Promise!Next
<1>2. ASSUME NEW r \in Requests, OpenAI!Refused(r)
      PROVE  Goal
  <2>1. OpenAI!Promise!Refuse(r)
    BY <1>0, <1>2 DEF OpenAI!Refused, OpenAI!OnDone, OpenAI!Promise!Refuse,
                      OpenAI!Promise!Finished, TableFits
  <2>2. QED
    BY <2>1 DEF OpenAI!Promise!Next
<1>3. ASSUME NEW r \in Requests, OpenAI!Complete(r)
      PROVE  Goal
  <2>1. OpenAI!Promise!Chat(r)
    BY <1>0, <1>3 DEF OpenAI!Complete, OpenAI!Post, OpenAI!Promise!Chat, TableFits
  <2>2. QED
    BY <2>1 DEF OpenAI!Promise!Next
<1>4. ASSUME NEW r \in Requests, NEW line \in OpenAI!Lines, OpenAI!Send(r, line)
      PROVE  Goal
  BY <1>4 DEF OpenAI!Send
<1>5. ASSUME NEW r \in Requests, NEW how \in {"complete", "failed"}, OpenAI!Close(r, how)
      PROVE  Goal
  BY <1>5 DEF OpenAI!Close
<1>6. ASSUME NEW r \in Requests, OpenAI!ReadyRead(r)
      PROVE  Goal
  <2>1. r \in states /\ OpenAI!Texts(OpenAI!BeforeError(arrived[r])) \in Nat
    BY <1>0, <1>6, TextsCount DEF OpenAI!ReadyRead
  <2>2. heard' = [heard EXCEPT ![r] = heard'[r]] /\ heard'[r] >= heard[r]
    BY <1>0, <1>6, <2>1 DEF OpenAI!ReadyRead
  <2>3. CASE OpenAI!HasError(arrived[r])
    <3>1. OpenAI!Promise!Done(r)
      BY <1>6, <2>1, <2>2, <2>3 DEF OpenAI!ReadyRead, OpenAI!OnDone, OpenAI!Promise!Done,
                                    OpenAI!Promise!Finished
    <3>2. QED
      BY <3>1 DEF OpenAI!Promise!Next
  <2>4. CASE ~OpenAI!HasError(arrived[r])
    <3>1. OpenAI!Promise!Chunks(r)
      BY <1>6, <2>1, <2>2, <2>4 DEF OpenAI!ReadyRead, OpenAI!Promise!Chunks
    <3>2. QED
      BY <3>1 DEF OpenAI!Promise!Next
  <2>5. QED
    BY <2>3, <2>4
<1>7. ASSUME NEW r \in Requests, OpenAI!FinishedLate(r)
      PROVE  Goal
  BY <1>7 DEF OpenAI!FinishedLate
<1>8. ASSUME NEW r \in Requests, OpenAI!StreamFinished(r)
      PROVE  Goal
  <2>1. /\ r \in states /\ states' = states \ {r}
        /\ OpenAI!Texts(OpenAI!BeforeError(arrived[r])) \in Nat
    BY <1>0, <1>8, TextsCount DEF OpenAI!StreamFinished, OpenAI!Finish
  <2>2. heard' = [heard EXCEPT ![r] = heard'[r]] /\ heard'[r] >= heard[r]
    BY <1>0, <1>8, <2>1 DEF OpenAI!StreamFinished
  <2>3. OpenAI!Promise!Done(r)
    BY <1>8, <2>1, <2>2 DEF OpenAI!StreamFinished, OpenAI!OnDone, OpenAI!Promise!Done,
                            OpenAI!Promise!Finished
  <2>4. QED
    BY <2>3 DEF OpenAI!Promise!Next
<1>9. ASSUME NEW r \in Requests, OpenAI!WholeFinished(r)
      PROVE  Goal
  <2>1. r \in states /\ states' = states \ {r}
    BY <1>9 DEF OpenAI!WholeFinished, OpenAI!Finish
  <2>2. heard' = [heard EXCEPT ![r] = heard'[r]] /\ heard'[r] >= heard[r]
    BY <1>0, <1>9 DEF OpenAI!WholeFinished
  <2>3. OpenAI!Promise!Done(r)
    BY <1>9, <2>1, <2>2 DEF OpenAI!WholeFinished, OpenAI!OnDone, OpenAI!Promise!Done,
                            OpenAI!Promise!Finished
  <2>4. QED
    BY <2>3 DEF OpenAI!Promise!Next
<1>10. ASSUME NEW R \in SUBSET states, OpenAI!Abort(R)
       PROVE  Goal
  <2>1. OpenAI!Promise!Abort(R)
    BY <1>10 DEF OpenAI!Abort, OpenAI!Kept, OpenAI!OnDone, OpenAI!Promise!Abort,
                 OpenAI!Promise!Finished
  <2>2. QED
    BY <2>1 DEF OpenAI!Promise!Next
<1>11. CASE OpenAI!Return
  BY <1>11 DEF OpenAI!Return
<1>12. QED
  BY <1>1, <1>2, <1>3, <1>4, <1>5, <1>6, <1>7, <1>8, <1>9, <1>10, <1>11
     DEF OpenAI!Next, OpenAI!Timeout, OpenAI!AbortAll

-----------------------------------------------------------------------------
(* The back end that runs the model in this process.                       *)

Events == [of : Requests, done : BOOLEAN]

LlamaType ==
  /\ worker \in [Requests -> {"fresh", "waiting", "running", "over"}]
  /\ llamaHeard \in [Requests -> Nat] /\ llamaEnded \in [Requests -> Nat]
  /\ posted \in Seq(Events)

(* A posted call belongs to a worker that began and was not done; onDone   *)
(* was posted by one that is over, behind all its other calls.             *)
CallsFit(w, e, queue) ==
  /\ \A i \in 1..Len(queue) :
       /\ w[queue[i].of] \in {"running", "over"} /\ e[queue[i].of] = 0
       /\ queue[i].done => w[queue[i].of] = "over"
  /\ \A i, j \in 1..Len(queue) : i < j /\ queue[i].done => queue[j].of # queue[i].of

(* Nobody is done whose worker is not over.                                *)
NotDoneBefore == \A r \in Requests : worker[r] # "over" => llamaEnded[r] = 0

LlamaInv == LlamaType /\ CallsFit(worker, llamaEnded, posted) /\ NotDoneBefore

(* What a worker posts when it generates, and when it is over.             *)
Callings(r) == {<<Llama!Chunk(r)>>, <<Llama!Done(r)>>, <<Llama!Chunk(r), Llama!Done(r)>>}

(* A running worker's calls fit behind the others.                         *)
LEMMA PostedFit ==
  ASSUME NEW q \in Seq(Events), NEW w, NEW e, CallsFit(w, e, q),
         NEW r \in Requests, w[r] = "running", e[r] = 0,
         NEW v, v[r] \in {"running", "over"}, \A s \in Requests : s # r => v[s] = w[s],
         NEW events \in Callings(r), v[r] = "running" => events = <<Llama!Chunk(r)>>
  PROVE  q \o events \in Seq(Events) /\ CallsFit(v, e, q \o events)
<1> DEFINE n == Len(q)
           m == Len(events)
<1>1. /\ events \in Seq(Events) /\ m \in {1, 2}
      /\ \A i \in 1..m : /\ events[i].of = r
                         /\ events[i].done => i = m /\ v[r] = "over"
  <2> DEFINE piece == [of |-> r, done |-> FALSE]
             last == [of |-> r, done |-> TRUE]
  <2>1. events \in {<<piece>>, <<last>>, <<piece, last>>}
    BY DEF Callings, Llama!Chunk, Llama!Done
  <2>2. /\ piece \in Events /\ last \in Events
        /\ piece.of = r /\ last.of = r /\ ~piece.done /\ last.done
    BY DEF Events
  <2>3. events # <<piece>> => v[r] = "over"
    BY DEF Llama!Chunk
  <2> HIDE DEF piece, last
  <2>4. CASE events = <<piece>>
    BY <2>2, <2>4
  <2>5. CASE events = <<last>>
    BY <2>2, <2>3, <2>5
  <2>6. CASE events = <<piece, last>>
    <3>1. piece # last
      BY <2>2
    <3>2. v[r] = "over"
      BY <2>3, <2>6
    <3>3. Len(events) = 2 /\ events[1] = piece /\ events[2] = last /\ events \in Seq(Events)
      BY <2>2, <2>6
    <3>4. QED
      BY <2>2, <3>2, <3>3
  <2>7. QED
    BY <2>1, <2>4, <2>5, <2>6
<1>2. /\ q \o events \in Seq(Events) /\ Len(q \o events) = n + m
      /\ \A i \in 1..n : (q \o events)[i] = q[i]
      /\ \A i \in n + 1..n + m : (q \o events)[i] = events[i - n]
      /\ n \in Nat
  BY <1>1, ConcatProperties
<1>3. \A i \in 1..n : /\ q[i].of \in Requests
                      /\ q[i].done => q[i].of # r
                      /\ v[q[i].of] \in {"running", "over"} /\ e[q[i].of] = 0
                      /\ q[i].done => v[q[i].of] = "over"
  <2>1. \A i \in 1..n : q[i] \in Events
    BY ElementOfSeq
  <2>2. \A i \in 1..n : q[i].of \in Requests
    BY <2>1 DEF Events
  <2>3. QED
    BY <2>2 DEF CallsFit
<1>4. ASSUME NEW i \in n + 1..n + m
      PROVE  /\ (q \o events)[i].of = r
             /\ (q \o events)[i].done => i = n + m /\ v[r] = "over"
  <2>1. i - n \in 1..m /\ (q \o events)[i] = events[i - n]
    BY <1>1, <1>2
  <2>2. QED
    BY <1>1, <1>2, <2>1
<1> DEFINE new == q \o events
<1>5. \A i \in 1..n + m : i \in 1..n \/ i \in n + 1..n + m
  BY <1>1, <1>2
<1>6. Len(new) = n + m /\ \A i \in 1..n : new[i] = q[i]
  BY <1>2
<1>7. \A i \in n + 1..n + m : /\ new[i].of = r
                              /\ new[i].done => i = n + m /\ v[r] = "over"
  BY <1>4
<1> HIDE DEF new
<1>8. ASSUME NEW i \in 1..n + m
      PROVE  /\ v[new[i].of] \in {"running", "over"} /\ e[new[i].of] = 0
             /\ new[i].done => v[new[i].of] = "over"
  <2>1. CASE i \in 1..n
    BY <1>3, <1>6, <2>1
  <2>2. CASE i \in n + 1..n + m
    BY <1>7, <2>2
  <2>3. QED
    BY <1>5, <1>8, <2>1, <2>2
<1>9. ASSUME NEW i \in 1..n + m, NEW j \in 1..n + m, i < j, new[i].done
      PROVE  new[j].of # new[i].of
  <2>1. i \in 1..n
    BY <1>1, <1>2, <1>5, <1>7, <1>9
  <2>2. CASE j \in 1..n
    BY <1>6, <1>9, <2>1, <2>2 DEF CallsFit
  <2>3. CASE j \in n + 1..n + m
    BY <1>3, <1>6, <1>7, <1>9, <2>1, <2>3
  <2>4. QED
    BY <1>5, <1>9, <2>2, <2>3
<1>10. CallsFit(v, e, new)
  BY <1>6, <1>8, <1>9 DEF CallsFit
<1>11. QED
  BY <1>2, <1>10 DEF new

Becomes(r, after) == worker' = [worker EXCEPT ![r] = after]
Posts(events) == posted' = posted \o events

(* A worker's step keeps the invariant, and hides from the callers.        *)
LEMMA WorkerStep ==
  ASSUME LlamaInv, NEW r \in Requests, worker[r] = "running",
         NEW after \in {"running", "over"}, Becomes(r, after),
         NEW events \in Callings(r), after = "running" => events = <<Llama!Chunk(r)>>, Posts(events),
         UNCHANGED <<llamaHeard, llamaEnded>>
  PROVE  LlamaInv' /\ Llama!InFlight' = Llama!InFlight
<1>1. /\ LlamaType /\ CallsFit(worker, llamaEnded, posted) /\ NotDoneBefore
      /\ worker' \in [Requests -> {"fresh", "waiting", "running", "over"}]
      /\ worker'[r] = after /\ \A s \in Requests : s # r => worker'[s] = worker[s]
      /\ llamaEnded[r] = 0 /\ posted \in Seq(Events)
      /\ worker'[r] \in {"running", "over"}
      /\ worker'[r] = "running" => events = <<Llama!Chunk(r)>>
  BY DEF LlamaInv, LlamaType, NotDoneBefore, Becomes
<1>2. posted \o events \in Seq(Events) /\ CallsFit(worker', llamaEnded, posted \o events)
  BY <1>1, PostedFit
<1>3. LlamaType' /\ CallsFit(worker', llamaEnded', posted')
  BY <1>1, <1>2 DEF LlamaType, Posts
<1>4. NotDoneBefore'
  BY <1>1 DEF NotDoneBefore
<1>5. Llama!InFlight' = Llama!InFlight
  BY <1>1 DEF Llama!InFlight
<1>6. QED
  BY <1>3, <1>4, <1>5 DEF LlamaInv

(* A step that posts nothing and is no call keeps the invariant too.       *)
LEMMA QuietStep ==
  ASSUME LlamaInv, UNCHANGED <<posted, llamaHeard, llamaEnded>>,
         \/ UNCHANGED worker
         \/ \E r \in Requests : worker[r] = "waiting" /\ worker' = [worker EXCEPT ![r] = "running"]
  PROVE  LlamaInv' /\ Llama!InFlight' = Llama!InFlight
<1>1. LlamaType /\ CallsFit(worker, llamaEnded, posted) /\ NotDoneBefore
  BY DEF LlamaInv
<1>2. CASE UNCHANGED worker
  BY <1>1, <1>2 DEF LlamaInv, LlamaType, NotDoneBefore, CallsFit, Llama!InFlight
<1>3. ASSUME NEW r \in Requests, worker[r] = "waiting", worker' = [worker EXCEPT ![r] = "running"]
      PROVE  LlamaInv' /\ Llama!InFlight' = Llama!InFlight
  <2>1. /\ worker' \in [Requests -> {"fresh", "waiting", "running", "over"}]
        /\ worker'[r] = "running" /\ \A s \in Requests : s # r => worker'[s] = worker[s]
    BY <1>1, <1>3 DEF LlamaType
  <2>2. \A i \in 1..Len(posted) : posted[i].of \in Requests /\ posted[i].of # r
    <3>1. \A i \in 1..Len(posted) : posted[i] \in Events
      BY <1>1, ElementOfSeq DEF LlamaType
    <3>2. QED
      BY <1>1, <1>3, <3>1 DEF CallsFit, Events
  <2>3. CallsFit(worker', llamaEnded', posted')
    BY <1>1, <2>1, <2>2 DEF CallsFit
  <2>4. LlamaType' /\ NotDoneBefore'
    BY <1>1, <1>3, <2>1 DEF LlamaType, NotDoneBefore
  <2>5. Llama!InFlight' = Llama!InFlight
    BY <1>3, <2>1 DEF Llama!InFlight
  <2>6. QED
    BY <2>3, <2>4, <2>5 DEF LlamaInv
<1>4. QED
  BY <1>2, <1>3

(* A step of a thread that generates posts at most, and is no call.        *)
LEMMA InferIsQuiet ==
  ASSUME LlamaInv, NEW r \in Requests \cup {0}, Llama!Infer(r)
  PROVE  LlamaInv' /\ Llama!InFlight' = Llama!InFlight /\ UNCHANGED <<llamaHeard, llamaEnded>>
<1> DEFINE Goal == /\ LlamaInv' /\ Llama!InFlight' = Llama!InFlight
                   /\ UNCHANGED <<llamaHeard, llamaEnded>>
<1>0. DOMAIN worker = Requests /\ worker = [s \in Requests |-> worker[s]]
  BY DEF LlamaInv, LlamaType
<1>1. CASE Llama!Begin(r)
  <2>1. UNCHANGED <<posted, llamaHeard, llamaEnded>>
    BY <1>1 DEF Llama!Begin
  <2>2. CASE r = 0
    BY <1>1, <2>1, <2>2, QuietStep DEF Llama!Begin
  <2>3. CASE r # 0
    <3>1. r \in Requests /\ worker[r] = "waiting" /\ worker' = [worker EXCEPT ![r] = "running"]
      BY <1>1, <2>3 DEF Llama!Begin
    <3>2. QED
      BY <2>1, <3>1, QuietStep
  <2>4. QED
    BY <2>2, <2>3
<1>2. CASE Llama!DecodePrompt(r)
  BY <1>2, QuietStep DEF Llama!DecodePrompt
<1>3. ASSUME NEW events \in Callings(r), Llama!Generating(r), Llama!Callbacks(r, events),
             Llama!Over(r), UNCHANGED <<llamaHeard, llamaEnded>>
      PROVE  Goal
  <2>1. CASE r = 0
    BY <1>3, <2>1, QuietStep DEF Llama!Callbacks, Llama!Over
  <2>2. CASE r # 0
    <3>1. /\ r \in Requests /\ worker[r] = "running" /\ worker' = [worker EXCEPT ![r] = "over"]
          /\ posted' = posted \o events
      BY <1>3, <2>2 DEF Llama!Callbacks, Llama!Over, Llama!Generating, Llama!Post
    <3>2. QED
      BY <1>3, <3>1, WorkerStep DEF Becomes, Posts
  <2>3. QED
    BY <2>1, <2>2
<1>4. CASE Llama!Refuse(r)
  BY <1>3, <1>4 DEF Llama!Refuse, Callings
<1>5. CASE Llama!Token(r)
  <2>1. CASE Llama!Decodes(1)
    <3>1. /\ Llama!Generating(r) /\ Llama!Callbacks(r, <<Llama!Chunk(r)>>) /\ UNCHANGED worker
          /\ UNCHANGED <<llamaHeard, llamaEnded>>
      BY <1>5, <2>1 DEF Llama!Token
    <3>2. CASE r = 0
      BY <3>1, <3>2, QuietStep DEF Llama!Callbacks
    <3>3. CASE r # 0
      <4>1. /\ r \in Requests /\ worker[r] = "running" /\ posted' = posted \o <<Llama!Chunk(r)>>
            /\ worker' = [worker EXCEPT ![r] = "running"]
        BY <1>0, <3>1, <3>3 DEF Llama!Callbacks, Llama!Generating, Llama!Post
      <4>2. <<Llama!Chunk(r)>> \in Callings(r)
        BY DEF Callings
      <4>3. QED
        BY <3>1, <4>1, <4>2, WorkerStep DEF Becomes, Posts
    <3>4. QED
      BY <3>2, <3>3
  <2>2. CASE ~Llama!Decodes(1)
    BY <1>3, <1>5, <2>2 DEF Llama!Token, Callings
  <2>3. QED
    BY <2>1, <2>2
<1>6. CASE Llama!Stops(r)
  BY <1>3, <1>6 DEF Llama!Stops, Callings
<1>7. CASE Llama!Ends(r)
  BY <1>3, <1>7 DEF Llama!Ends, Callings
<1>8. QED
  BY <1>1, <1>2, <1>4, <1>5, <1>6, <1>7 DEF Llama!Infer

(* The first call is taken off the queue: a piece, or the last call.       *)
LEMMA DispatchIsCall ==
  ASSUME LlamaInv, Llama!Dispatch
  PROVE  LlamaInv' /\ Llama!Promise!Next
<1> DEFINE r == posted[1].of
           rest == Tail(posted)
<1>1. /\ posted \in Seq(Events) /\ posted # <<>> /\ posted' = rest
      /\ worker' = worker
      /\ IF posted[1].done
         THEN llamaEnded' = [llamaEnded EXCEPT ![r] = @ + 1] /\ UNCHANGED llamaHeard
         ELSE llamaHeard' = [llamaHeard EXCEPT ![r] = @ + 1] /\ UNCHANGED llamaEnded
  BY DEF LlamaInv, LlamaType, Llama!Dispatch
<1>2. /\ rest \in Seq(Events) /\ Len(posted) \in Nat /\ Len(posted) >= 1
      /\ Len(rest) = Len(posted) - 1
      /\ \A i \in 1..Len(rest) : rest[i] = posted[i + 1] /\ i + 1 \in 1..Len(posted)
  BY <1>1, HeadTailProperties
<1> HIDE DEF rest
<1>3. posted[1] \in Events /\ r \in Requests /\ posted[1].done \in BOOLEAN
  <2>1. posted[1] \in Events
    BY <1>1, <1>2, ElementOfSeq
  <2>2. QED
    BY <2>1 DEF Events
<1> HIDE DEF r
<1>4. /\ LlamaType /\ CallsFit(worker, llamaEnded, posted) /\ NotDoneBefore
      /\ worker[r] \in {"running", "over"} /\ llamaEnded[r] = 0
      /\ posted[1].done => worker[r] = "over"
  BY <1>2 DEF LlamaInv, CallsFit, r
<1>5. \A i \in 1..Len(rest) : /\ worker[rest[i].of] \in {"running", "over"}
                              /\ llamaEnded[rest[i].of] = 0
                              /\ rest[i].done => worker[rest[i].of] = "over"
                              /\ rest[i].of \in Requests
                              /\ posted[1].done => rest[i].of # r
  <2>1. \A i \in 1..Len(posted) : posted[i].of \in Requests
    <3>1. \A i \in 1..Len(posted) : posted[i] \in Events
      BY <1>1, ElementOfSeq
    <3>2. QED
      BY <3>1 DEF Events
  <2>2. \A j \in 2..Len(posted) : posted[1].done => posted[j].of # r
    BY <1>2, <1>4 DEF CallsFit, r
  <2>3. \A i \in 1..Len(rest) : i + 1 \in 2..Len(posted)
    BY <1>2
  <2>4. QED
    BY <1>2, <1>4, <2>1, <2>2, <2>3 DEF CallsFit
<1>6. \A i, j \in 1..Len(rest) : i < j /\ rest[i].done => rest[j].of # rest[i].of
  <2>1. \A i, j \in 1..Len(rest) : i < j => i + 1 < j + 1
    BY <1>2
  <2>2. QED
    BY <1>2, <1>4, <2>1 DEF CallsFit
<1>7. r \in Llama!InFlight
  BY <1>3, <1>4 DEF Llama!InFlight
<1>8. CASE posted[1].done
  <2>1. /\ llamaEnded' = [llamaEnded EXCEPT ![r] = llamaEnded[r] + 1] /\ llamaHeard' = llamaHeard
        /\ llamaEnded'[r] = 1 /\ \A s \in Requests : s # r => llamaEnded'[s] = llamaEnded[s]
        /\ llamaEnded' \in [Requests -> Nat]
    BY <1>1, <1>3, <1>4, <1>8 DEF LlamaType
  <2>2. CallsFit(worker', llamaEnded', posted')
    BY <1>1, <1>5, <1>6, <1>8, <2>1 DEF CallsFit
  <2>3. LlamaType' /\ NotDoneBefore'
    BY <1>1, <1>2, <1>4, <1>8, <2>1 DEF LlamaType, NotDoneBefore
  <2>4. Llama!InFlight' = Llama!InFlight \ {r}
    BY <1>1, <1>3, <2>1 DEF Llama!InFlight
  <2>5. Llama!Promise!Done(r)
    <3>1. llamaHeard' = [llamaHeard EXCEPT ![r] = llamaHeard'[r]] /\ llamaHeard'[r] >= llamaHeard[r]
      BY <1>3, <1>4, <2>1 DEF LlamaType
    <3>2. llamaEnded' = [s \in Requests |-> llamaEnded[s] + IF s \in {r} THEN 1 ELSE 0]
      <4>1. /\ llamaEnded \in [Requests -> Nat] /\ llamaEnded'[r] = llamaEnded[r] + 1
            /\ \A s \in Requests : llamaEnded[s] \in Nat
        BY <1>4, <2>1 DEF LlamaType
      <4>2. \A s \in Requests : llamaEnded'[s] = llamaEnded[s] + IF s \in {r} THEN 1 ELSE 0
        BY <2>1, <4>1
      <4>3. QED
        BY <2>1, <4>2
    <3>3. QED
      BY <1>7, <2>4, <3>1, <3>2 DEF Llama!Promise!Done, Llama!Promise!Finished
  <2>6. QED
    BY <1>3, <2>2, <2>3, <2>5 DEF LlamaInv, Llama!Promise!Next
<1>9. CASE ~posted[1].done
  <2>1. /\ llamaHeard' = [llamaHeard EXCEPT ![r] = llamaHeard[r] + 1] /\ llamaEnded' = llamaEnded
        /\ llamaHeard'[r] = llamaHeard[r] + 1 /\ llamaHeard[r] \in Nat
        /\ llamaHeard' \in [Requests -> Nat]
    BY <1>1, <1>3, <1>4, <1>9 DEF LlamaType
  <2>2. CallsFit(worker', llamaEnded', posted')
    BY <1>1, <1>5, <1>6, <2>1 DEF CallsFit
  <2>3. LlamaType' /\ NotDoneBefore'
    BY <1>1, <1>2, <1>4, <2>1 DEF LlamaType, NotDoneBefore
  <2>4. Llama!InFlight' = Llama!InFlight
    BY <1>1, <2>1 DEF Llama!InFlight
  <2>5. Llama!Promise!Chunks(r)
    <3>1. llamaHeard' = [llamaHeard EXCEPT ![r] = llamaHeard'[r]] /\ llamaHeard'[r] >= llamaHeard[r]
      BY <2>1
    <3>2. QED
      BY <1>7, <2>1, <2>4, <3>1 DEF Llama!Promise!Chunks
  <2>6. QED
    BY <1>3, <2>2, <2>3, <2>5 DEF LlamaInv, Llama!Promise!Next
<1>10. QED
  BY <1>3, <1>8, <1>9

(* A step of the back end keeps its invariant, and is one of the abstract  *)
(* back end or changes nothing there.                                      *)
LEMMA LlamaImplements ==
  ASSUME LlamaInv, Llama!Next
  PROVE  /\ LlamaInv'
         /\ Llama!Promise!Next \/ UNCHANGED <<Llama!InFlight, llamaHeard, llamaEnded>>
<1>1. CASE Llama!Initialize
  BY <1>1, QuietStep DEF Llama!Initialize
<1>2. CASE Llama!Complete
  BY <1>2, QuietStep DEF Llama!Complete
<1>3. CASE Llama!Dispatch
  BY <1>3, DispatchIsCall
<1>4. ASSUME NEW id \in AbortIds, Llama!Abort(id)
      PROVE  LlamaInv' /\ UNCHANGED <<Llama!InFlight, llamaHeard, llamaEnded>>
  BY <1>4, QuietStep DEF Llama!Abort
<1>5. ASSUME NEW r \in Requests, Llama!Chat(r)
      PROVE  LlamaInv' /\ Llama!Promise!Next
  <2>1. /\ LlamaType /\ CallsFit(worker, llamaEnded, posted) /\ NotDoneBefore
        /\ worker[r] = "fresh" /\ worker' = [worker EXCEPT ![r] = "waiting"]
        /\ UNCHANGED <<posted, llamaHeard, llamaEnded>> /\ llamaEnded[r] = 0
    BY <1>5 DEF LlamaInv, Llama!Chat, NotDoneBefore
  <2>2. /\ worker' \in [Requests -> {"fresh", "waiting", "running", "over"}]
        /\ worker'[r] = "waiting" /\ \A s \in Requests : s # r => worker'[s] = worker[s]
    BY <2>1 DEF LlamaType
  <2>3. CallsFit(worker', llamaEnded', posted')
    <3>1. \A i \in 1..Len(posted) : posted[i] \in Events
      BY <2>1, ElementOfSeq DEF LlamaType
    <3>2. \A i \in 1..Len(posted) : posted[i].of \in Requests /\ posted[i].of # r
      BY <2>1, <3>1 DEF CallsFit, Events
    <3>3. QED
      BY <2>1, <2>2, <3>2 DEF CallsFit
  <2>4. LlamaType' /\ NotDoneBefore'
    BY <2>1, <2>2 DEF LlamaType, NotDoneBefore
  <2>5. Llama!InFlight' = Llama!InFlight \cup {r} /\ r \notin Llama!InFlight
    BY <2>1, <2>2 DEF Llama!InFlight
  <2>6. Llama!Promise!Chat(r)
    BY <2>1, <2>5 DEF Llama!Promise!Chat
  <2>7. QED
    BY <2>3, <2>4, <2>6 DEF LlamaInv, Llama!Promise!Next
<1>6. ASSUME NEW r \in Requests \cup {0}, Llama!Infer(r)
      PROVE  LlamaInv' /\ UNCHANGED <<Llama!InFlight, llamaHeard, llamaEnded>>
  BY <1>6, InferIsQuiet
<1>7. QED
  BY <1>1, <1>2, <1>3, <1>4, <1>5, <1>6 DEF Llama!Next

-----------------------------------------------------------------------------
(* The servers of the tools.                                               *)

(* An id is given once: it is the number of its request, in the request,   *)
(* in what the server may answer and in what came of it.                   *)
ClientInv ==
  /\ nextId = mcpSent
  /\ inFlight.id = inFlight.number
  /\ \A answer \in owed \cup stdout \cup pending : answer.id = answer.number
  /\ Client!ResultIsOwn

(* A request gets the next id.                                             *)
LEMMA RequestIsNumbered ==
  ASSUME ClientInv, NEW method, Client!Request(method)
  PROVE  /\ nextId' = mcpSent' /\ inFlight'.id = inFlight'.number
         /\ \A answer \in owed' : answer \in owed \/ answer.id = answer.number
  BY DEF ClientInv, Client!Request, Client!NewId

(* What is taken is the answer to the request that waits.                  *)
LEMMA TakesItsOwn ==
  ASSUME ClientInv, NEW answer \in Client!Own, Client!Take(answer)
  PROVE  /\ Client!ResultIsOwn'
         /\ \A other \in stdout' \cup pending' : other \in stdout \cup pending
<1>1. inFlight.number = answer.number
  BY DEF ClientInv, Client!Own
<1>2. QED
  BY <1>1 DEF ClientInv, Client!Take, Client!ResultIsOwn

(* Every step of the client keeps that.                                    *)
LEMMA ClientKept ==
  ASSUME ClientInv, Client!Next
  PROVE  ClientInv'
<1> DEFINE Kept == /\ Client!ResultIsOwn'
                   /\ \A other \in stdout' \cup pending' : other \in stdout \cup pending
           Numbered == /\ nextId' = mcpSent' /\ inFlight'.id = inFlight'.number
                       /\ \A answer \in owed' : answer \in owed \/ answer.id = answer.number
<1>0. Kept /\ Numbered => ClientInv'
  BY DEF ClientInv
<1>1. \A method : Client!Request(method) => Numbered
  BY RequestIsNumbered
<1>2. Client!Started => Numbered
  BY DEF Client!Started, Client!Idle, ClientInv
<1>3. UNCHANGED <<nextId, owed, mcpSent>> /\ inFlight' \in {inFlight, Client!Idle} => Numbered
  BY DEF Client!Idle, ClientInv
<1>4. UNCHANGED <<stdout, pending, returned>> => Kept
  BY DEF ClientInv, Client!ResultIsOwn
<1>5. Client!DrainBuffer /\ UNCHANGED returned => Kept
  BY DEF ClientInv, Client!ResultIsOwn, Client!DrainBuffer
<1>6. (\E answer \in Client!Own : Client!Take(answer)) => Kept
  BY TakesItsOwn
<1> HIDE DEF Kept, Numbered
<1>7. CASE Client!Start
  BY <1>0, <1>1, <1>4, <1>7 DEF Client!Start
<1>8. ASSUME NEW answer \in owed, Client!Write(answer)
      PROVE  ClientInv'
  BY <1>8 DEF Client!Write, ClientInv, Client!ResultIsOwn
<1>9. CASE Client!ReadyRead
  BY <1>0, <1>3, <1>5, <1>9 DEF Client!ReadyRead
<1>10. ASSUME NEW more \in BOOLEAN, Client!Answered(more)
       PROVE  ClientInv'
  <2>1. Kept
    BY <1>6, <1>10 DEF Client!Answered
  <2>2. Numbered
    BY <1>1, <1>2, <1>3, <1>10 DEF Client!Answered
  <2>3. QED
    BY <1>0, <2>1, <2>2
<1>11. CASE Client!Failed
  <2>1. Kept
    BY <1>5, <1>6, <1>11 DEF Client!Failed, Client!Unanswered, Client!ErrorAnswered
  <2>2. Numbered
    BY <1>2, <1>3, <1>11 DEF Client!Failed
  <2>3. QED
    BY <1>0, <2>1, <2>2
<1>12. CASE Client!CallTool
  BY <1>0, <1>1, <1>3, <1>4, <1>12 DEF Client!CallTool
<1>13. CASE Client!ServerDies
  BY <1>13 DEF Client!ServerDies, ClientInv, Client!ResultIsOwn
<1>14. QED
  BY <1>7, <1>8, <1>9, <1>10, <1>11, <1>12, <1>13 DEF Client!Next, Client!Return

-----------------------------------------------------------------------------
(* The run of all of them.                                                 *)

ModelsInv == OpenAIInv /\ LlamaInv /\ ClientInv

(* It begins with nothing asked.                                           *)
LEMMA ModelsBegin == Init => ModelsInv
<1> SUFFICES ASSUME Init PROVE ModelsInv
  OBVIOUS
<1>1. OpenAI!Init /\ Llama!Init /\ Client!Init
  BY DEF Init
<1>2. OpenAIType
  BY <1>1 DEF OpenAI!Init, OpenAI!Each, OpenAI!NoCalls, OpenAIType, Replies, Amounts
<1>3. TableFits /\ StreamsFit /\ OpenAI!CallsWhole
  BY <1>1 DEF OpenAI!Init, OpenAI!Each, TableFits, StreamsFit, OpenAI!CallsWhole
<1>4. LlamaInv
  BY <1>1 DEF Llama!Init, LlamaInv, LlamaType, CallsFit, NotDoneBefore
<1>5. ClientInv
  BY <1>1 DEF Client!Init, Client!Idle, ClientInv, Client!ResultIsOwn
<1>6. QED
  BY <1>2, <1>3, <1>4, <1>5 DEF ModelsInv, OpenAIInv

(* Where nothing moves, the HTTP back end keeps what it has.               *)
LEMMA OpenAIRests ==
  ASSUME OpenAIInv, UNCHANGED openaiVars
  PROVE  OpenAIInv'
  BY DEF openaiVars, OpenAIInv, OpenAIType, TableFits, StreamsFit, OpenAI!CallsWhole

(* So does the back end in this process.                                   *)
LEMMA LlamaRests ==
  ASSUME LlamaInv, UNCHANGED llamaVars
  PROVE  LlamaInv' /\ UNCHANGED <<Llama!InFlight, llamaHeard, llamaEnded>>
  BY DEF llamaVars, LlamaInv, LlamaType, CallsFit, NotDoneBefore, Llama!InFlight

(* And the client of the tools' servers.                                   *)
LEMMA ClientRests ==
  ASSUME ClientInv, UNCHANGED mcpVars
  PROVE  ClientInv'
  BY DEF mcpVars, ClientInv, Client!ResultIsOwn

(* A step of the run is one of one back end, which is one of its abstract  *)
(* back end, and the invariant stays.                                      *)
LEMMA ModelsKept ==
  ASSUME ModelsInv, [Next]_vars
  PROVE  /\ ModelsInv'
         /\ OpenAI!Promise!Next \/ UNCHANGED <<states, heard, ended>>
         /\ Llama!Promise!Next \/ UNCHANGED <<Llama!InFlight, llamaHeard, llamaEnded>>
<1>0. OpenAIInv /\ LlamaInv /\ ClientInv
  BY DEF ModelsInv
<1>1. CASE OnlyOpenai /\ OpenAI!Next
  <2>1. OpenAIInv' /\ (OpenAI!Promise!Next \/ UNCHANGED <<states, heard, ended>>)
    BY <1>0, <1>1, OpenAITypeKept, OpenAIFitKept, OpenAIImplements DEF OpenAIInv
  <2>2. QED
    BY <1>0, <1>1, <2>1, LlamaRests, ClientRests DEF OnlyOpenai, ModelsInv
<1>2. ASSUME UNCHANGED openaiVars
      PROVE  OpenAIInv' /\ UNCHANGED <<states, heard, ended>>
  BY <1>0, <1>2, OpenAIRests DEF openaiVars
<1>3. CASE OnlyLlama /\ Llama!Next
  BY <1>0, <1>2, <1>3, LlamaImplements, ClientRests DEF OnlyLlama, ModelsInv
<1>4. CASE OnlyMcp /\ Client!Next
  BY <1>0, <1>2, <1>4, LlamaRests, ClientKept DEF OnlyMcp, ModelsInv
<1>5. CASE (OnlyTools /\ Tools!Next) \/ UNCHANGED vars
  BY <1>0, <1>2, <1>5, LlamaRests, ClientRests DEF OnlyTools, ModelsInv, vars
<1>6. QED
  BY <1>1, <1>3, <1>4, <1>5 DEF Next

(* A call gets its own result, and tool calls have all the fragments of    *)
(* their stream, for any number of requests, lines and calls.              *)
THEOREM AnswersStayWhole == Spec => []AnswersWhole
<1>1. ModelsInv => AnswersWhole
  BY DEF ModelsInv, OpenAIInv, ClientInv, AnswersWhole
<1>2. ModelsInv /\ [Next]_vars => ModelsInv'
  BY ModelsKept
<1>3. QED
  BY <1>1, <1>2, ModelsBegin, PTL DEF Spec

(* Both back ends implement the abstract one: each request hears its       *)
(* pieces, is done once, and hears nothing after that.                     *)
THEOREM BackendsImplement == Spec => BackendsKeepPromise
<1>1. Init => OpenAI!Promise!Init /\ Llama!Promise!Init
  BY DEF Init, OpenAI!Init, OpenAI!Each, OpenAI!Promise!Init, Llama!Init, Llama!Promise!Init,
         Llama!InFlight
<1>2. ModelsInv /\ [Next]_vars =>
        /\ ModelsInv'
        /\ [OpenAI!Promise!Next]_<<states, heard, ended>>
        /\ [Llama!Promise!Next]_<<Llama!InFlight, llamaHeard, llamaEnded>>
  BY ModelsKept
<1>3. QED
  BY <1>1, <1>2, ModelsBegin, PTL
     DEF Spec, BackendsKeepPromise, OpenAI!KeepsPromise, OpenAI!Promise!Spec,
         OpenAI!Promise!backendVars, Llama!KeepsPromise, Llama!Promise!Spec,
         Llama!Promise!backendVars
=============================================================================
