--------------------------- MODULE MCPluginsProofs ---------------------------
(***************************************************************************)
(* Proofs about MCPlugins, for all bounds: requests find their plugin and  *)
(* their speaker, one log-in sends one message, and results are those of   *)
(* the request they are used for.                                          *)
(***************************************************************************)
EXTENDS MCPlugins, SequenceTheorems, FiniteSetTheorems, WellFoundedInduction, TLAPS

-----------------------------------------------------------------------------
(* The dispatch: who speaks.                                               *)

(* The number of elements, by either name.                                 *)
LEMMA SameNumber ==
  ASSUME NEW S
  PROVE  Manager!Cardinality(S) = Cardinality(S)
  BY DEF Manager!Cardinality, Cardinality

(* Of numbers up to a bound there is a least one: of the initial segments  *)
(* that they end, one has no other inside.                                 *)
LEMMA LeastNumber ==
  ASSUME NEW n \in Nat, NEW D, D \subseteq 0..n, NEW some \in D
  PROVE  \E m \in D : \A j \in D : m <= j
<1> DEFINE T == {0..d : d \in D}
<1>1. \A d \in D : d \in Nat /\ 0..d \subseteq Nat /\ IsFiniteSet(0..d)
  <2>1. \A d \in D : d \in Nat
    OBVIOUS
  <2>2. QED
    BY <2>1, FS_Interval
<1>2. T \subseteq FiniteSubsetsOf(Nat)
  BY <1>1 DEF FiniteSubsetsOf
<1>3. T # {}
  OBVIOUS
<1>4. PICK x \in T : \A y \in T : ~ (<<y, x>> \in StrictSubsetOrdering(Nat))
  <2> HIDE DEF T
  <2>1. QED
    BY <1>2, <1>3, FS_StrictSubsetOrderingWellFounded, WFMin
<1>5. PICK m \in D : x = 0..m
  OBVIOUS
<1>6. ASSUME NEW j \in D, j < m
      PROVE  FALSE
  <2>1. j \in Nat /\ m \in Nat
    BY <1>1
  <2>2. 0..j \subseteq 0..m /\ m \in 0..m /\ m \notin 0..j
    BY <1>6, <2>1
  <2>3. 0..j # 0..m /\ 0..j \subseteq Nat /\ 0..m \subseteq Nat
    BY <1>1, <2>2
  <2>4. <<0..j, 0..m>> \in StrictSubsetOrdering(Nat)
    BY <2>2, <2>3 DEF StrictSubsetOrdering
  <2>5. QED
    BY <1>4, <1>5, <2>4
<1>7. QED
  BY <1>1, <1>6

(* A source is set; the table stays bounded, and who is given up is old.   *)
LEMMA SourceIsSet ==
  ASSUME NEW n \in Nat, NEW id \in 0..n, NEW name,
         DOMAIN sources \subseteq 0..n, Cardinality(DOMAIN sources) <= MaxSources + 1
  PROVE  LET new == Manager!SetSource(id, name)
         IN  /\ DOMAIN new \subseteq 0..n /\ Cardinality(DOMAIN new) <= MaxSources + 1
             /\ id \in DOMAIN new /\ new[id] = name
             /\ \A i \in DOMAIN new : i # id => i \in DOMAIN sources /\ new[i] = sources[i]
             /\ \A i \in DOMAIN sources : i \notin DOMAIN new => n - i >= MaxSources
<1> DEFINE D == DOMAIN sources
           G == Manager!GivenUp(id)
           new == Manager!SetSource(id, name)
<1>1. IsFiniteSet(D) /\ Cardinality(D) \in Nat
  <2>1. IsFiniteSet(0..n)
    BY FS_Interval
  <2>2. IsFiniteSet(D)
    BY <2>1, FS_Subset
  <2>3. QED
    BY <2>2, FS_CardinalityType
<1>2. /\ DOMAIN new = (D \ G) \cup {id} /\ new[id] = name
      /\ \A i \in DOMAIN new : i # id => i \in D /\ new[i] = sources[i]
  BY DEF Manager!SetSource
<1>3. G = IF Cardinality(D) > MaxSources /\ id \notin D
          THEN {i \in D : \A j \in D : i <= j} ELSE {}
  BY SameNumber DEF Manager!GivenUp
<1>4. DOMAIN new \subseteq 0..n
  BY <1>2
<1> HIDE DEF new, G
<1>5. CASE Cardinality(D) > MaxSources /\ id \notin D
  <2>1. Cardinality(D) = MaxSources + 1
    BY <1>1, <1>5, PluginsAssumption
  <2>2. PICK some : some \in D
    BY <2>1, FS_EmptySet, PluginsAssumption
  <2>3. D \in SUBSET Nat
    OBVIOUS
  <2>4. PICK m \in D : \A j \in D : m <= j
    BY <2>2, LeastNumber
  <2>5. G = {m}
    <3>1. \A i \in D : i \in Nat
      BY <2>3
    <3>2. \A i \in D : (\A j \in D : i <= j) => i = m
      BY <2>4, <3>1
    <3>3. QED
      BY <1>3, <1>5, <2>4, <3>2
  <2>6. Cardinality(DOMAIN new) = MaxSources + 1
    <3>1. IsFiniteSet(D \ {m}) /\ Cardinality(D \ {m}) = MaxSources
      BY <1>1, <2>1, <2>4, FS_RemoveElement, PluginsAssumption
    <3>2. id \notin D \ {m}
      BY <1>5
    <3>3. Cardinality((D \ {m}) \cup {id}) = MaxSources + 1
      BY <3>1, <3>2, FS_AddElement
    <3>4. QED
      BY <1>2, <2>5, <3>3
  <2>7. n - m >= MaxSources
    <3>1. m \in Nat /\ m <= n
      BY <2>4
    <3>2. D \subseteq m..n
      BY <2>4, <3>1
    <3>3. IsFiniteSet(m..n) /\ Cardinality(m..n) = n - m + 1
      BY <3>1, FS_Interval
    <3>4. Cardinality(D) <= n - m + 1
      BY <3>2, <3>3, FS_Subset
    <3>5. QED
      BY <2>1, <3>1, <3>4, PluginsAssumption
  <2>8. \A i \in D : i \notin DOMAIN new => i = m
    BY <1>2, <2>5
  <2>9. Cardinality(DOMAIN new) <= MaxSources + 1
    BY <2>6, PluginsAssumption
  <2>10. QED
    BY <1>2, <1>4, <2>7, <2>8, <2>9 DEF new
<1>6. CASE ~(Cardinality(D) > MaxSources /\ id \notin D)
  <2>1. G = {}
    BY <1>3, <1>6
  <2>2. DOMAIN new = D \cup {id}
    BY <1>2, <2>1
  <2>3. Cardinality(DOMAIN new) <= MaxSources + 1
    <3>1. CASE id \in D
      BY <2>2, <3>1
    <3>2. CASE id \notin D
      BY <1>1, <1>6, <2>2, <3>2, FS_AddElement, PluginsAssumption
    <3>3. QED
      BY <3>1, <3>2
  <2>4. QED
    BY <1>2, <1>4, <2>2, <2>3 DEF new
<1>7. QED
  BY <1>5, <1>6

(* What calls are made of.                                                 *)
Owners == Manager!Plugins \cup {Manager!NoPlugin}
Ats == {"handle", "login", "search", "http", "confirm", "question"}
CallType == [request : Manager!Request, plugin : Manager!Plugins, at : Ats,
             branch : {"all", "immersive", "others"}, immersiveTmp : BOOLEAN]

ManagerType ==
  /\ calls \in Seq(CallType) /\ asked \in Nat
  /\ immersive \in BOOLEAN /\ immersivePlugin \in Owners /\ chatMode \in BOOLEAN
  /\ judging.id \in 0..asked

(* Conversations have ids of their own, and the table attributes each      *)
(* call, unless so many came that its entry was given up.                  *)
SourcesFit ==
  /\ DOMAIN sources \subseteq 0..asked /\ Cardinality(DOMAIN sources) <= MaxSources + 1
  /\ \A i \in 1..Len(calls) :
       LET id == calls[i].request.id
       IN  /\ id <= asked
           /\ id # 0 => /\ id # judging.id
                        /\ \A j \in 1..Len(calls) : j # i => calls[j].request.id # id
                        /\ IF id \in DOMAIN sources THEN sources[id] = calls[i].plugin
                                                    ELSE asked - id >= MaxSources

(* While requests do not overlap: a call over all plugins began with the   *)
(* flag down, and only those that ask for the dialogue put it up; the      *)
(* other calls began with an owner.                                        *)
ImmersionFit ==
  ~overlapped =>
    /\ Len(calls) <= 1
    /\ immersivePlugin \in {Manager!NoPlugin, "NeteaseMusic", "Chat"}
    /\ Manager!Running /\ calls = <<>> => (immersive <=> immersivePlugin # Manager!NoPlugin)
    /\ Manager!Running /\ calls # <<>> =>
         /\ Manager!Top.branch = "all" =>
              /\ immersivePlugin = Manager!NoPlugin
              /\ immersive => Manager!Top.plugin \in {"NeteaseMusic", "Chat"}
              /\ Manager!Top.at \in {"handle", "login"} => ~immersive
              /\ Manager!Top.at = "login" => isSearch
         /\ Manager!Top.branch # "all" => immersivePlugin # Manager!NoPlugin

ManagerInv == ManagerType /\ SourcesFit /\ ImmersionFit

(* The stack of calls.                                                     *)
LEMMA StackFacts ==
  ASSUME calls \in Seq(CallType), calls # <<>>
  PROVE  /\ Len(calls) \in Nat /\ Len(calls) >= 1
         /\ Manager!Top = calls[Len(calls)] /\ Manager!Top \in CallType
         /\ Manager!Below \in Seq(CallType) /\ Len(Manager!Below) = Len(calls) - 1
         /\ \A i \in 1..Len(calls) - 1 : Manager!Below[i] = calls[i]
<1>1. Len(calls) \in Nat /\ Len(calls) >= 1
  BY EmptySeq
<1>2. \A i \in 1..Len(calls) : calls[i] \in CallType
  BY ElementOfSeq
<1>3. \A i \in 1..Len(calls) - 1 : calls[i] \in CallType
  BY <1>1, <1>2
<1>4. Manager!Top = calls[Len(calls)] /\ Manager!Top \in CallType
  BY <1>1, <1>2 DEF Manager!Top
<1>5. /\ Manager!Below \in Seq(CallType) /\ Len(Manager!Below) = Len(calls) - 1
      /\ \A i \in 1..Len(calls) - 1 : Manager!Below[i] = calls[i]
  <2> DEFINE m == Len(calls) - 1
  <2>1. /\ m \in Int /\ m >= 0 /\ 1 \in Int
        /\ \A i \in 1..m : calls[i] \in CallType
    BY <1>1, <1>3
  <2> HIDE DEF m
  <2>2. /\ SubSeq(calls, 1, m) \in Seq(CallType)
        /\ Len(SubSeq(calls, 1, m)) = IF 1 <= m THEN m - 1 + 1 ELSE 0
        /\ \A i \in 1..m - 1 + 1 : SubSeq(calls, 1, m)[i] = calls[1 + i - 1]
    BY <2>1, SubSeqProperties
  <2>3. /\ SubSeq(calls, 1, m) \in Seq(CallType) /\ Len(SubSeq(calls, 1, m)) = m
        /\ \A i \in 1..m : SubSeq(calls, 1, m)[i] = calls[i]
    <3>1. \A i \in 1..m : i \in 1..m - 1 + 1 /\ 1 + i - 1 = i
      BY <2>1
    <3>2. QED
      BY <2>1, <2>2, <3>1
  <2>4. QED
    BY <2>3 DEF Manager!Below, m
<1>6. QED
  BY <1>1, <1>4, <1>5

(* A call takes the place of the uppermost one.                            *)
LEMMA StackReplaced ==
  ASSUME calls \in Seq(CallType), calls # <<>>, NEW c \in CallType
  PROVE  LET new == Append(Manager!Below, c)
         IN  /\ new \in Seq(CallType) /\ Len(new) = Len(calls) /\ new[Len(calls)] = c
             /\ \A i \in 1..Len(calls) - 1 : new[i] = calls[i]
<1>1. /\ Len(calls) \in Nat /\ Len(calls) >= 1 /\ Len(Manager!Below) = Len(calls) - 1
      /\ Manager!Below \in Seq(CallType)
      /\ \A i \in 1..Len(calls) - 1 : Manager!Below[i] = calls[i]
  BY StackFacts
<1>2. QED
  BY <1>1, AppendProperties

(* The plugin after another is one of them, or none.                       *)
LEMMA AfterIs ==
  ASSUME NEW p \in Manager!Plugins
  PROVE  Manager!After(p) \in Owners
<1>1. /\ DOMAIN Manager!Order = 1..6 /\ Len(Manager!Order) = 6
      /\ \E i \in DOMAIN Manager!Order : Manager!Order[i] = p
  BY DEF Manager!Order, Manager!Plugins
<1> DEFINE i == CHOOSE i \in DOMAIN Manager!Order : Manager!Order[i] = p
<1>2. i \in 1..6
  BY <1>1
<1>3. Manager!After(p) = IF i = 6 THEN Manager!NoPlugin ELSE Manager!Order[i + 1]
  BY <1>1 DEF Manager!After
<1> HIDE DEF i
<1>4. i # 6 => i + 1 \in DOMAIN Manager!Order
  BY <1>1, <1>2
<1>5. QED
  BY <1>3, <1>4 DEF Owners, Manager!Plugins

(* Plugins have names.                                                     *)
LEMMA PluginsAreNamed ==
  /\ Manager!NoPlugin \notin Manager!Plugins
  /\ Manager!Order[1] \in Manager!Plugins
  /\ {"NeteaseMusic", "Chat"} \subseteq Manager!Plugins
<1>1. /\ DOMAIN Manager!Order = 1..6
      /\ Manager!Order[1] = "NeteaseMusic" /\ Manager!Order[5] = "Chat"
  BY DEF Manager!Order
<1>2. \A i \in DOMAIN Manager!Order : Manager!Order[i] # Manager!NoPlugin
  <2>1. \A i \in 1..6 : Manager!Order[i] \in {"NeteaseMusic", "Weather", "VoiceControl",
                                              "QuitRobot", "Chat", "Fallback"}
    BY DEF Manager!Order
  <2>2. QED
    BY <1>1, <2>1 DEF Manager!NoPlugin
<1>3. Manager!NoPlugin \notin Manager!Plugins
  BY <1>2 DEF Manager!Plugins
<1>4. 1 \in DOMAIN Manager!Order /\ 5 \in DOMAIN Manager!Order
  BY <1>1
<1>5. Manager!Order[1] \in Manager!Plugins /\ Manager!Order[5] \in Manager!Plugins
  BY <1>4 DEF Manager!Plugins
<1>6. QED
  BY <1>1, <1>3, <1>5

(* The call that asks the next plugin.                                     *)
LEMMA NextCallIs ==
  ASSUME Manager!Top \in CallType, NEW flag \in BOOLEAN
  PROVE  LET c == Manager!NextCall(flag)
         IN  /\ c.request = Manager!Top.request /\ c.at = "handle" /\ c.plugin \in Owners
             /\ c.plugin # Manager!NoPlugin => c \in CallType
             /\ Manager!Top.branch = "immersive" => c.branch = "others" /\ c.plugin # Manager!NoPlugin
             /\ Manager!Top.branch # "immersive" => c.branch = Manager!Top.branch
<1> DEFINE top == Manager!Top
           next == Manager!After(top.plugin)
           c == Manager!NextCall(flag)
<1>1. /\ top.request \in Manager!Request /\ top.plugin \in Manager!Plugins /\ top.at \in Ats
      /\ top.branch \in {"all", "immersive", "others"} /\ top.immersiveTmp \in BOOLEAN
      /\ top = [request |-> top.request, plugin |-> top.plugin, at |-> top.at,
                branch |-> top.branch, immersiveTmp |-> top.immersiveTmp]
  BY DEF CallType
<1>2. next \in Owners
  BY <1>1, AfterIs
<1> HIDE DEF next
<1>3. CASE top.branch = "immersive"
  <2>1. c = [request |-> top.request, plugin |-> Manager!Order[1], at |-> "handle",
             branch |-> "others", immersiveTmp |-> FALSE]
    BY <1>1, <1>3 DEF Manager!NextCall
  <2> HIDE DEF c
  <2>2. /\ c.request = top.request /\ c.at = "handle" /\ c.plugin = Manager!Order[1]
        /\ c.branch = "others"
    BY <2>1
  <2>3. c \in CallType
    BY <1>1, <2>1, PluginsAreNamed DEF CallType, Ats
  <2>4. c.plugin # Manager!NoPlugin /\ c.plugin \in Owners
    BY <2>2, PluginsAreNamed DEF Owners
  <2>5. QED
    BY <1>3, <2>2, <2>3, <2>4 DEF c
<1>4. CASE top.branch # "immersive"
  <2> DEFINE tmp == IF top.branch = "others" THEN flag ELSE top.immersiveTmp
  <2>1. c = [request |-> top.request, plugin |-> next, at |-> "handle",
             branch |-> top.branch, immersiveTmp |-> tmp]
    BY <1>1, <1>4 DEF Manager!NextCall, Manager!With, next
  <2>2. tmp \in BOOLEAN
    BY <1>1
  <2> HIDE DEF c, tmp
  <2>3. /\ c.request = top.request /\ c.at = "handle" /\ c.plugin = next
        /\ c.branch = top.branch
    BY <2>1
  <2>4. next # Manager!NoPlugin => c \in CallType
    BY <1>1, <1>2, <2>1, <2>2 DEF CallType, Owners, Ats
  <2>5. QED
    BY <1>2, <1>4, <2>3, <2>4 DEF c
<1>5. QED
  BY <1>3, <1>4

(* The uppermost call goes on waiting.                                     *)
LEMMA WaitingCallIs ==
  ASSUME Manager!Top \in CallType, NEW flag \in BOOLEAN, NEW place \in Ats
  PROVE  LET c == [Manager!With(flag) EXCEPT !.at = place]
         IN  /\ c \in CallType /\ c.request = Manager!Top.request /\ c.at = place
             /\ c.plugin = Manager!Top.plugin /\ c.branch = Manager!Top.branch
<1> DEFINE top == Manager!Top
           tmp == IF top.branch = "others" THEN flag ELSE top.immersiveTmp
           c == [Manager!With(flag) EXCEPT !.at = place]
<1>1. /\ top.request \in Manager!Request /\ top.plugin \in Manager!Plugins
      /\ top.branch \in {"all", "immersive", "others"} /\ top.immersiveTmp \in BOOLEAN
      /\ top = [request |-> top.request, plugin |-> top.plugin, at |-> top.at,
                branch |-> top.branch, immersiveTmp |-> top.immersiveTmp]
  BY DEF CallType
<1>2. /\ c = [request |-> top.request, plugin |-> top.plugin, at |-> place,
              branch |-> top.branch, immersiveTmp |-> tmp]
      /\ tmp \in BOOLEAN
  <2> DEFINE old == [request |-> top.request, plugin |-> top.plugin, at |-> top.at,
                     branch |-> top.branch, immersiveTmp |-> top.immersiveTmp]
             with == [request |-> top.request, plugin |-> top.plugin, at |-> top.at,
                      branch |-> top.branch, immersiveTmp |-> tmp]
  <2>1. top = old
    BY <1>1
  <2>2. Manager!With(flag) = [old EXCEPT !.immersiveTmp = tmp]
    <3> HIDE DEF old
    <3>1. QED
      BY <2>1 DEF Manager!With
  <2>3. Manager!With(flag) = with
    BY <2>2
  <2>4. c = [with EXCEPT !.at = place]
    BY <2>3
  <2>5. tmp \in BOOLEAN
    BY <1>1
  <2>6. [with EXCEPT !.at = place] = [request |-> top.request, plugin |-> top.plugin, at |-> place,
                                   branch |-> top.branch, immersiveTmp |-> tmp]
    BY DEF Manager!With
  <2>7. QED
    BY <2>4, <2>5, <2>6
<1> HIDE DEF c, tmp
<1>3. c \in CallType
  BY <1>1, <1>2 DEF CallType
<1>4. /\ c.request = top.request /\ c.at = place /\ c.plugin = top.plugin
      /\ c.branch = top.branch
  BY <1>2
<1>5. QED
  BY <1>3, <1>4 DEF c

(* What a step on the uppermost call leaves of the table: the entries of   *)
(* other conversations, unless they are given up.                          *)
Left(id) ==
  /\ DOMAIN sources' \subseteq 0..asked /\ Cardinality(DOMAIN sources') <= MaxSources + 1
  /\ \A i \in DOMAIN sources' : i # id => i \in DOMAIN sources /\ sources'[i] = sources[i]
  /\ \A i \in DOMAIN sources : i \notin DOMAIN sources' => asked - i >= MaxSources

(* The conversation of the uppermost call.                                 *)
LEMMA TopFits ==
  ASSUME ManagerType, SourcesFit, calls # <<>>
  PROVE  /\ Manager!Top.request.id \in 0..asked
         /\ Manager!Top.request.id # 0 =>
              \A i \in 1..Len(calls) - 1 : calls[i].request.id # Manager!Top.request.id
<1>1. /\ Len(calls) \in Nat /\ Len(calls) >= 1 /\ asked \in Nat
      /\ Manager!Top = calls[Len(calls)] /\ Manager!Top \in CallType
  BY StackFacts DEF ManagerType
<1>2. Manager!Top.request.id \in Nat
  BY <1>1 DEF CallType, Manager!Request
<1>3. Len(calls) \in 1..Len(calls) /\ \A i \in 1..Len(calls) - 1 : i \in 1..Len(calls) /\ i # Len(calls)
  BY <1>1
<1>4. QED
  BY <1>1, <1>2, <1>3 DEF SourcesFit

(* Setting its source leaves the others.                                   *)
LEMMA SetSourceLeaves ==
  ASSUME ManagerType, SourcesFit, NEW id \in 0..asked,
         \/ UNCHANGED sources
         \/ \E name : sources' = Manager!SetSource(id, name)
  PROVE  Left(id)
<1>1. asked \in Nat /\ DOMAIN sources \subseteq 0..asked /\ Cardinality(DOMAIN sources) <= MaxSources + 1
  BY DEF ManagerType, SourcesFit
<1>2. CASE UNCHANGED sources
  BY <1>1, <1>2 DEF Left
<1>3. ASSUME NEW name, sources' = Manager!SetSource(id, name)
      PROVE  Left(id)
  <2> DEFINE new == Manager!SetSource(id, name)
  <2>1. /\ DOMAIN new \subseteq 0..asked /\ Cardinality(DOMAIN new) <= MaxSources + 1
        /\ \A i \in DOMAIN new : i # id => i \in DOMAIN sources /\ new[i] = sources[i]
        /\ \A i \in DOMAIN sources : i \notin DOMAIN new => asked - i >= MaxSources
    BY <1>1, SourceIsSet
  <2> HIDE DEF new
  <2>2. sources' = new
    BY <1>3 DEF new
  <2>3. QED
    BY <2>1, <2>2 DEF Left
<1>4. QED
  BY <1>2, <1>3

(* The other calls fit as before.                                          *)
OtherFits(id) ==
  /\ id <= asked
  /\ id # 0 => IF id \in DOMAIN sources' THEN sources'[id] = sources[id] /\ id \in DOMAIN sources
                                         ELSE asked - id >= MaxSources

(* The calls under the top stay as they were when the top changes.         *)
LEMMA OthersFit ==
  ASSUME ManagerType, SourcesFit, calls # <<>>, Left(Manager!Top.request.id),
         NEW i \in 1..Len(calls) - 1
  PROVE  OtherFits(calls[i].request.id)
<1> DEFINE id == calls[i].request.id
<1>1. Len(calls) \in Nat /\ i \in 1..Len(calls)
  BY StackFacts DEF ManagerType
<1>2. /\ id <= asked
      /\ id # 0 => /\ id # Manager!Top.request.id
                   /\ id \notin DOMAIN sources => asked - id >= MaxSources
  BY <1>1, TopFits DEF SourcesFit
<1> HIDE DEF id
<1>3. OtherFits(id)
  BY <1>2 DEF OtherFits, Left
<1>4. QED
  BY <1>3 DEF id

(* The uppermost call ends.                                                *)
LEMMA CallPopped ==
  ASSUME ManagerType, SourcesFit, calls # <<>>, calls' = Manager!Below, asked' = asked,
         judging' \in {judging, Manager!Top.request},
         \/ UNCHANGED sources
         \/ \E name : sources' = Manager!SetSource(Manager!Top.request.id, name)
  PROVE  calls' \in Seq(CallType) /\ judging'.id \in 0..asked /\ SourcesFit'
<1> DEFINE id == Manager!Top.request.id
<1>1. /\ Len(calls) \in Nat /\ Len(calls) >= 1
      /\ calls' \in Seq(CallType) /\ Len(calls') = Len(calls) - 1
      /\ \A i \in 1..Len(calls) - 1 : calls'[i] = calls[i]
  BY StackFacts DEF ManagerType
<1>2. /\ id \in 0..asked
      /\ id # 0 => \A i \in 1..Len(calls) - 1 : calls[i].request.id # id
  BY TopFits
<1>3. Left(id)
  BY <1>2, SetSourceLeaves
<1>4. judging'.id \in {judging.id, id} /\ judging'.id \in 0..asked
  BY <1>2 DEF ManagerType
<1>5. ASSUME NEW i \in 1..Len(calls) - 1
      PROVE  LET this == calls'[i].request.id
             IN  /\ this <= asked
                 /\ this # 0 => /\ this # judging'.id
                                /\ \A j \in 1..Len(calls') : j # i => calls'[j].request.id # this
                                /\ IF this \in DOMAIN sources' THEN sources'[this] = calls'[i].plugin
                                                               ELSE asked - this >= MaxSources
  <2> DEFINE this == calls[i].request.id
  <2>1. OtherFits(this)
    BY <1>3, OthersFit
  <2>2. i \in 1..Len(calls) /\ \A j \in 1..Len(calls') : j \in 1..Len(calls) /\ calls'[j] = calls[j]
    BY <1>1
  <2>3. this # 0 => /\ this # judging.id /\ this # id
                    /\ \A j \in 1..Len(calls) : j # i => calls[j].request.id # this
                    /\ this \in DOMAIN sources => sources[this] = calls[i].plugin
    BY <1>2, <2>2 DEF SourcesFit
  <2>4. calls'[i] = calls[i]
    BY <1>1
  <2> HIDE DEF this, id
  <2>5. this # 0 => this # judging'.id
    BY <1>4, <2>3
  <2>6. this # 0 => \A j \in 1..Len(calls') : j # i => calls'[j].request.id # this
    BY <2>2, <2>3
  <2>7. this # 0 => IF this \in DOMAIN sources' THEN sources'[this] = calls[i].plugin
                                               ELSE asked - this >= MaxSources
    BY <2>1, <2>3 DEF OtherFits
  <2>8. this <= asked
    BY <2>1 DEF OtherFits
  <2>9. QED
    BY <2>4, <2>5, <2>6, <2>7, <2>8 DEF this
<1>6. 1..Len(calls') = 1..Len(calls) - 1
  BY <1>1
<1>7. SourcesFit'
  BY <1>3, <1>5, <1>6 DEF SourcesFit, Left
<1>8. QED
  BY <1>1, <1>4, <1>7

(* The uppermost call goes on, with a plugin it is attributed to.          *)
LEMMA CallMoved ==
  ASSUME ManagerType, SourcesFit, calls # <<>>, NEW c \in CallType, c.request = Manager!Top.request,
         calls' = Append(Manager!Below, c), asked' = asked, judging' = judging,
         \/ UNCHANGED sources /\ c.plugin = Manager!Top.plugin
         \/ sources' = Manager!SetSource(Manager!Top.request.id, c.plugin)
  PROVE  calls' \in Seq(CallType) /\ SourcesFit'
<1> DEFINE id == Manager!Top.request.id
           n == Len(calls)
<1>1. /\ n \in Nat /\ n >= 1 /\ Manager!Top = calls[n]
      /\ calls' \in Seq(CallType) /\ Len(calls') = n /\ calls'[n] = c
      /\ \A i \in 1..n - 1 : calls'[i] = calls[i]
  BY StackFacts, StackReplaced DEF ManagerType
<1>2. /\ id \in 0..asked
      /\ id # 0 => \A i \in 1..n - 1 : calls[i].request.id # id
  BY TopFits
<1>3. Left(id)
  BY <1>2, SetSourceLeaves
<1>4. \A i \in 1..n : calls'[i].request.id = calls[i].request.id
  <2>1. \A i \in 1..n : i \in 1..n - 1 \/ i = n
    BY <1>1
  <2>2. QED
    BY <1>1, <2>1
<1>5. ASSUME NEW i \in 1..n, calls[i].request.id # 0
      PROVE  LET this == calls[i].request.id
             IN  IF this \in DOMAIN sources' THEN sources'[this] = calls'[i].plugin
                                             ELSE asked - this >= MaxSources
  <2>1. CASE i = n
    <3>1. CASE UNCHANGED sources /\ c.plugin = Manager!Top.plugin
      BY <1>1, <1>5, <2>1, <3>1 DEF SourcesFit
    <3>2. CASE sources' = Manager!SetSource(id, c.plugin)
      <4>1. id \in DOMAIN sources' /\ sources'[id] = c.plugin
        BY <3>2 DEF Manager!SetSource
      <4>2. QED
        BY <1>1, <2>1, <4>1
    <3>3. QED
      BY <3>1, <3>2
  <2>2. CASE i \in 1..n - 1
    <3> DEFINE this == calls[i].request.id
    <3>1. OtherFits(this) /\ calls'[i] = calls[i]
      BY <1>1, <1>3, <2>2, OthersFit
    <3>2. this \in DOMAIN sources => sources[this] = calls[i].plugin
      BY <1>5 DEF SourcesFit
    <3> HIDE DEF this
    <3>3. this # 0
      BY <1>5 DEF this
    <3>4. IF this \in DOMAIN sources' THEN sources'[this] = calls'[i].plugin
                                     ELSE asked - this >= MaxSources
      BY <3>1, <3>2, <3>3 DEF OtherFits
    <3>5. QED
      BY <3>4 DEF this
  <2>3. QED
    BY <1>1, <1>5, <2>1, <2>2
<1>6. ASSUME NEW i \in 1..n
      PROVE  LET this == calls'[i].request.id
             IN  /\ this <= asked
                 /\ this # 0 => /\ this # judging.id
                                /\ \A j \in 1..n : j # i => calls'[j].request.id # this
                                /\ IF this \in DOMAIN sources' THEN sources'[this] = calls'[i].plugin
                                                               ELSE asked - this >= MaxSources
  <2>1. LET this == calls[i].request.id
        IN  /\ this <= asked
            /\ this # 0 => /\ this # judging.id
                           /\ \A j \in 1..n : j # i => calls[j].request.id # this
    BY DEF SourcesFit
  <2>2. QED
    BY <1>4, <1>5, <2>1
<1>7. SourcesFit'
  BY <1>1, <1>3, <1>6 DEF SourcesFit, Left
<1>8. QED
  BY <1>1, <1>7

-----------------------------------------------------------------------------
(* The dispatch: who holds the dialogue.                                   *)

(* What is left of the flag, by the branch that asked.                     *)
LEMMA GivenFlag ==
  ASSUME ManagerInv, calls # <<>>, NEW flag \in BOOLEAN, Manager!Give(flag)
  PROVE  /\ immersive' \in BOOLEAN
         /\ Manager!Top.branch = "others" => (immersive' <=> immersive)
         /\ Manager!Top.branch # "others" => (immersive' <=> flag)
  BY DEF Manager!Give, ManagerInv, ManagerType

(* With one call at most, none is left when it ends.                       *)
LEMMA LastCall ==
  ASSUME ManagerInv, calls # <<>>, ~overlapped
  PROVE  Len(calls) = 1 /\ (calls' = Manager!Below => calls' = <<>>)
<1>1. Len(calls) = 1
  <2>1. Len(calls) <= 1
    BY DEF ManagerInv, ImmersionFit
  <2>2. Len(calls) \in Nat /\ Len(calls) >= 1
    BY StackFacts DEF ManagerInv, ManagerType
  <2>3. QED
    BY <2>1, <2>2
<1>2. Manager!Below \in Seq(CallType) /\ Len(Manager!Below) = 0
  BY <1>1, StackFacts DEF ManagerInv, ManagerType
<1>3. Manager!Below = <<>>
  BY <1>2, EmptySeq
<1>4. QED
  BY <1>1, <1>3

(* A call that is handled leaves the flag to its plugin, or down.          *)
LEMMA HandledKeeps ==
  ASSUME ManagerInv, Manager!Running, calls # <<>>, NEW flag \in BOOLEAN, Manager!Handled(flag),
         UNCHANGED <<asked, overlapped, loaded>>, chatMode' \in BOOLEAN,
         judging' \in {judging, Manager!Top.request},
         ~overlapped /\ Manager!Top.branch = "all" /\ flag =>
           Manager!Top.plugin \in {"NeteaseMusic", "Chat"}
  PROVE  ManagerInv'
<1> DEFINE top == Manager!Top
<1>1. /\ ManagerType /\ SourcesFit /\ ImmersionFit
      /\ top.plugin \in Manager!Plugins /\ top.branch \in {"all", "immersive", "others"}
  BY StackFacts DEF ManagerInv, ManagerType, CallType
<1>2. /\ calls' = Manager!Below /\ Manager!Give(flag)
      /\ IF Manager!Hit = Manager!NoPlugin THEN fault' = "null" /\ UNCHANGED <<immersivePlugin, sources>>
         ELSE /\ immersivePlugin' = Manager!Owner(flag)
              /\ sources' = Manager!SetSource(top.request.id, Manager!Hit)
              /\ UNCHANGED fault
  BY DEF Manager!Handled
<1>3. /\ immersive' \in BOOLEAN
      /\ top.branch = "others" => (immersive' <=> immersive)
      /\ top.branch # "others" => (immersive' <=> flag)
  BY <1>2, GivenFlag
<1>4. calls' \in Seq(CallType) /\ judging'.id \in 0..asked /\ SourcesFit'
  <2>1. UNCHANGED sources \/ \E name : sources' = Manager!SetSource(top.request.id, name)
    BY <1>2
  <2>2. QED
    BY <1>1, <1>2, <2>1, CallPopped
<1>5. /\ top.branch = "all" => Manager!Owner(flag) = IF flag THEN top.plugin ELSE immersivePlugin
      /\ top.branch = "immersive" => Manager!Owner(flag) = IF flag THEN immersivePlugin ELSE Manager!NoPlugin
      /\ top.branch = "others" => Manager!Owner(flag) = IF immersive THEN immersivePlugin ELSE Manager!NoPlugin
      /\ top.branch # "immersive" => Manager!Hit # Manager!NoPlugin
      /\ top.branch = "immersive" => Manager!Hit = immersivePlugin
  BY <1>1, PluginsAreNamed DEF Manager!Owner, Manager!Hit
<1> HIDE DEF top
<1>6. immersivePlugin \in Owners /\ immersivePlugin' \in Owners
  <2>1. immersivePlugin \in Owners /\ Manager!NoPlugin \in Owners /\ top.plugin \in Owners
    BY <1>1 DEF ManagerType, Owners
  <2>2. QED
    BY <1>1, <1>2, <1>5, <2>1
<1>7. ManagerType'
  BY <1>1, <1>3, <1>4, <1>6 DEF ManagerType
<1>8. ASSUME ~overlapped
      PROVE  /\ calls' = <<>> /\ immersivePlugin' \in {Manager!NoPlugin, "NeteaseMusic", "Chat"}
             /\ Manager!Running' => (immersive' <=> immersivePlugin' # Manager!NoPlugin)
  <2>1. /\ calls' = <<>>
        /\ immersivePlugin \in {Manager!NoPlugin, "NeteaseMusic", "Chat"}
        /\ top.branch = "all" => immersivePlugin = Manager!NoPlugin
        /\ top.branch # "all" => immersivePlugin # Manager!NoPlugin
    BY <1>1, <1>2, <1>8, LastCall DEF ImmersionFit, top
  <2>2. top.branch = "all" /\ flag => top.plugin \in {"NeteaseMusic", "Chat"}
    BY <1>8 DEF top
  <2>3. Manager!Hit # Manager!NoPlugin /\ immersivePlugin' = Manager!Owner(flag)
    BY <1>1, <1>2, <1>5, <2>1
  <2> DEFINE plugin == immersivePlugin'
             Good == plugin \in {Manager!NoPlugin, "NeteaseMusic", "Chat"} /\ (immersive' <=> plugin # Manager!NoPlugin)
  <2>4. ASSUME top.branch = "all"
        PROVE  Good
    <3>1. (immersive' <=> flag) /\ plugin = (IF flag THEN top.plugin ELSE Manager!NoPlugin)
      BY <1>3, <1>5, <2>1, <2>3, <2>4
    <3>2. QED
      BY <2>2, <2>4, <3>1, PluginsAreNamed
  <2>5. ASSUME top.branch = "immersive"
        PROVE  Good
    <3>1. (immersive' <=> flag) /\ plugin = (IF flag THEN immersivePlugin ELSE Manager!NoPlugin)
      BY <1>3, <1>5, <2>3, <2>5
    <3>2. immersivePlugin # Manager!NoPlugin
      BY <2>1, <2>5
    <3>3. QED
      BY <2>1, <3>1, <3>2
  <2>6. ASSUME top.branch = "others"
        PROVE  Good
    <3>1. (immersive' <=> immersive) /\ plugin = (IF immersive THEN immersivePlugin ELSE Manager!NoPlugin)
      BY <1>3, <1>5, <2>3, <2>6
    <3>2. immersivePlugin # Manager!NoPlugin
      BY <2>1, <2>6
    <3>3. QED
      BY <2>1, <3>1, <3>2
  <2>7. Good
    BY <1>1, <2>4, <2>5, <2>6
  <2>8. QED
    BY <2>1, <2>7
<1>9. ImmersionFit'
  <2>1. Len(<<>>) <= 1
    OBVIOUS
  <2>2. QED
    BY <1>8, <2>1 DEF ImmersionFit
<1>10. QED
  BY <1>4, <1>7, <1>9 DEF ManagerInv

(* A single call in the place of another.                                  *)
LEMMA SingleCall ==
  ASSUME ManagerInv, calls # <<>>, ~overlapped, NEW c \in CallType,
         calls' = Append(Manager!Below, c)
  PROVE  Len(calls') = 1 /\ calls' # <<>> /\ Manager!Top' = c
<1>1. Len(calls) = 1
  BY LastCall
<1>2. Len(calls') = 1 /\ calls'[1] = c
  BY <1>1, StackReplaced DEF ManagerInv, ManagerType
<1>3. QED
  BY <1>2 DEF Manager!Top

(* A call that is refused goes on with the flag down.                      *)
LEMMA RefusedKeeps ==
  ASSUME ManagerInv, Manager!Running, calls # <<>>, NEW flag \in BOOLEAN, Manager!Refused(flag),
         UNCHANGED <<asked, overlapped, loaded, judging>>, chatMode' \in BOOLEAN,
         ~overlapped /\ Manager!Top.branch = "all" => ~flag
  PROVE  ManagerInv'
<1> DEFINE top == Manager!Top
           next == Manager!NextCall(flag)
<1>1. /\ ManagerType /\ SourcesFit /\ ImmersionFit /\ top \in CallType
      /\ top.plugin \in Manager!Plugins /\ top.branch \in {"all", "immersive", "others"}
  BY StackFacts DEF ManagerInv, ManagerType, CallType
<1>2. /\ next.request = top.request /\ next.at = "handle"
      /\ next.plugin # Manager!NoPlugin => next \in CallType
      /\ top.branch = "immersive" => next.branch = "others" /\ next.plugin # Manager!NoPlugin
      /\ top.branch # "immersive" => next.branch = top.branch
  BY <1>1, NextCallIs
<1>3. /\ sources' = Manager!SetSource(top.request.id, next.plugin)
      /\ IF next.plugin # Manager!NoPlugin
         THEN calls' = Append(Manager!Below, next) /\ immersivePlugin' = immersivePlugin
         ELSE /\ calls' = Manager!Below
              /\ immersivePlugin' = IF top.branch = "others" /\ ~immersive
                                    THEN Manager!NoPlugin ELSE immersivePlugin
      /\ fault' = fault
  BY DEF Manager!Refused
<1>4. /\ immersive' \in BOOLEAN
      /\ top.branch = "others" => (immersive' <=> immersive)
      /\ top.branch # "others" => (immersive' <=> flag)
  BY GivenFlag DEF Manager!Refused
<1> HIDE DEF next
<1>5. calls' \in Seq(CallType) /\ judging'.id \in 0..asked /\ SourcesFit'
  <2>1. CASE next.plugin # Manager!NoPlugin
    BY <1>1, <1>2, <1>3, <2>1, CallMoved DEF ManagerType
  <2>2. CASE next.plugin = Manager!NoPlugin
    BY <1>1, <1>3, <2>2, CallPopped
  <2>3. QED
    BY <2>1, <2>2
<1> HIDE DEF top
<1>6. ManagerType'
  BY <1>1, <1>3, <1>4, <1>5 DEF ManagerType, Owners
<1>7. ASSUME ~overlapped
      PROVE  /\ immersivePlugin \in {Manager!NoPlugin, "NeteaseMusic", "Chat"}
             /\ top.branch = "all" => immersivePlugin = Manager!NoPlugin /\ ~flag
             /\ top.branch # "all" => immersivePlugin # Manager!NoPlugin
  BY <1>1, <1>7 DEF ImmersionFit, top
<1>8. CASE next.plugin # Manager!NoPlugin
  <2>1. ASSUME ~overlapped
        PROVE  /\ Len(calls') = 1 /\ calls' # <<>> /\ Manager!Top' = next
    BY <1>2, <1>3, <1>8, <2>1, SingleCall
  <2>2. ASSUME ~overlapped
        PROVE  /\ next.branch = "all" => immersivePlugin' = Manager!NoPlugin /\ ~immersive'
               /\ next.branch # "all" => immersivePlugin' # Manager!NoPlugin
               /\ immersivePlugin' \in {Manager!NoPlugin, "NeteaseMusic", "Chat"}
    BY <1>1, <1>2, <1>3, <1>4, <1>7, <1>8, <2>2
  <2>3. ImmersionFit'
    <3>1. SUFFICES ASSUME ~overlapped'
                   PROVE  /\ Len(calls') <= 1 /\ calls' # <<>>
                          /\ immersivePlugin' \in {Manager!NoPlugin, "NeteaseMusic", "Chat"}
                          /\ Manager!Top'.branch = "all" =>
                               immersivePlugin' = Manager!NoPlugin /\ ~immersive' /\ Manager!Top'.at = "handle"
                          /\ Manager!Top'.branch # "all" => immersivePlugin' # Manager!NoPlugin
      BY DEF ImmersionFit
    <3>2. ~overlapped
      BY <3>1
    <3>3. Manager!Top' = next /\ Len(calls') <= 1 /\ calls' # <<>> /\ next.at = "handle"
      <4>1. Len(calls') = 1 /\ calls' # <<>> /\ Manager!Top' = next
        BY <2>1, <3>2
      <4>2. Len(calls') <= 1
        <5>1. Len(calls') = 1
          BY <4>1
        <5>2. QED
          BY <5>1
      <4>3. QED
        BY <1>2, <4>1, <4>2
    <3>4. /\ next.branch = "all" => immersivePlugin' = Manager!NoPlugin /\ ~immersive'
          /\ next.branch # "all" => immersivePlugin' # Manager!NoPlugin
          /\ immersivePlugin' \in {Manager!NoPlugin, "NeteaseMusic", "Chat"}
      BY <2>2, <3>2
    <3>5. QED
      BY <3>3, <3>4
  <2>4. QED
    BY <1>5, <1>6, <2>3 DEF ManagerInv
<1>9. CASE next.plugin = Manager!NoPlugin
  <2>1. ASSUME ~overlapped
        PROVE  calls' = <<>>
    BY <1>3, <1>9, <2>1, LastCall
  <2>2. ASSUME ~overlapped
        PROVE  /\ immersive' <=> immersivePlugin' # Manager!NoPlugin
               /\ immersivePlugin' \in {Manager!NoPlugin, "NeteaseMusic", "Chat"}
    <3>1. CASE top.branch = "all"
      BY <1>3, <1>4, <1>7, <1>9, <2>2, <3>1
    <3>2. CASE top.branch = "others"
      <4>1. (immersive' <=> immersive) /\ immersivePlugin # Manager!NoPlugin
            /\ immersivePlugin' = (IF ~immersive THEN Manager!NoPlugin ELSE immersivePlugin)
        BY <1>3, <1>4, <1>7, <1>9, <2>2, <3>2
      <4>2. QED
        BY <1>7, <2>2, <4>1
    <3>3. QED
      BY <1>1, <1>2, <1>9, <3>1, <3>2
  <2>3. Len(<<>>) <= 1
    OBVIOUS
  <2>4. ImmersionFit'
    BY <2>1, <2>2, <2>3 DEF ImmersionFit
  <2>5. QED
    BY <1>5, <1>6, <2>4 DEF ManagerInv
<1>10. QED
  BY <1>8, <1>9

(* A call that waits keeps its plugin.                                     *)
LEMMA WaitKeeps ==
  ASSUME ManagerInv, Manager!Running, calls # <<>>, NEW flag \in BOOLEAN, NEW place \in Ats,
         Manager!WaitAt(place, flag),
         UNCHANGED <<asked, overlapped, loaded, judging>>, chatMode' \in BOOLEAN,
         ~overlapped /\ Manager!Top.branch = "all" =>
           /\ flag => Manager!Top.plugin \in {"NeteaseMusic", "Chat"}
           /\ place \in {"handle", "login"} => ~flag
           /\ place = "login" => isSearch'
  PROVE  ManagerInv'
<1> DEFINE top == Manager!Top
           c == [Manager!With(flag) EXCEPT !.at = place]
<1>1. /\ ManagerType /\ SourcesFit /\ ImmersionFit /\ top \in CallType
      /\ top.plugin \in Manager!Plugins /\ top.branch \in {"all", "immersive", "others"}
  BY StackFacts DEF ManagerInv, ManagerType, CallType
<1>2. /\ c \in CallType /\ c.request = top.request /\ c.at = place
      /\ c.plugin = top.plugin /\ c.branch = top.branch
  BY <1>1, WaitingCallIs
<1>3. calls' = Append(Manager!Below, c) /\ UNCHANGED <<immersivePlugin, sources, fault>>
  BY DEF Manager!WaitAt
<1>4. /\ immersive' \in BOOLEAN
      /\ top.branch = "others" => (immersive' <=> immersive)
      /\ top.branch # "others" => (immersive' <=> flag)
  BY GivenFlag DEF Manager!WaitAt
<1> HIDE DEF c
<1>5. calls' \in Seq(CallType) /\ SourcesFit'
  BY <1>1, <1>2, <1>3, CallMoved
<1> HIDE DEF top
<1>6. ManagerType'
  BY <1>1, <1>3, <1>4, <1>5 DEF ManagerType
<1>7. ASSUME ~overlapped
      PROVE  /\ immersivePlugin \in {Manager!NoPlugin, "NeteaseMusic", "Chat"}
             /\ top.branch = "all" => immersivePlugin = Manager!NoPlugin
             /\ top.branch # "all" => immersivePlugin # Manager!NoPlugin
             /\ Len(calls') = 1 /\ calls' # <<>> /\ Manager!Top' = c
  BY <1>1, <1>2, <1>3, <1>7, SingleCall DEF ImmersionFit, top
<1>8. ASSUME ~overlapped, top.branch = "all"
      PROVE  /\ immersive' => c.plugin \in {"NeteaseMusic", "Chat"}
             /\ c.at \in {"handle", "login"} => ~immersive'
             /\ c.at = "login" => isSearch'
  BY <1>2, <1>4, <1>8 DEF top
<1>9. ImmersionFit'
  <2>1. SUFFICES ASSUME ~overlapped'
                 PROVE  /\ Len(calls') <= 1 /\ calls' # <<>>
                        /\ immersivePlugin' \in {Manager!NoPlugin, "NeteaseMusic", "Chat"}
                        /\ Manager!Top'.branch = "all" =>
                             /\ immersivePlugin' = Manager!NoPlugin
                             /\ immersive' => Manager!Top'.plugin \in {"NeteaseMusic", "Chat"}
                             /\ Manager!Top'.at \in {"handle", "login"} => ~immersive'
                             /\ Manager!Top'.at = "login" => isSearch'
                        /\ Manager!Top'.branch # "all" => immersivePlugin' # Manager!NoPlugin
    BY DEF ImmersionFit
  <2>2. ~overlapped
    BY <2>1
  <2>3. Manager!Top' = c /\ Len(calls') <= 1 /\ calls' # <<>> /\ c.branch = top.branch
    <3>1. Len(calls') = 1 /\ calls' # <<>> /\ Manager!Top' = c
      BY <1>7, <2>2
    <3>2. Len(calls') <= 1
      <4>1. Len(calls') = 1
        BY <3>1
      <4>2. QED
        BY <4>1
    <3>3. QED
      BY <1>2, <3>1, <3>2
  <2>4. /\ immersivePlugin' \in {Manager!NoPlugin, "NeteaseMusic", "Chat"}
        /\ top.branch = "all" => immersivePlugin' = Manager!NoPlugin
        /\ top.branch # "all" => immersivePlugin' # Manager!NoPlugin
    BY <1>3, <1>7, <2>2
  <2>5. top.branch = "all" =>
          /\ immersive' => c.plugin \in {"NeteaseMusic", "Chat"}
          /\ c.at \in {"handle", "login"} => ~immersive'
          /\ c.at = "login" => isSearch'
    BY <1>8, <2>2
  <2>6. QED
    BY <2>3, <2>4, <2>5
<1>10. QED
  BY <1>5, <1>6, <1>9 DEF ManagerInv

(* The flag a plugin is given.                                             *)
LEMMA FlagIs ==
  ASSUME ManagerInv, Manager!Running, calls # <<>>
  PROVE  /\ Manager!Flag \in BOOLEAN
         /\ ~overlapped /\ Manager!Top.branch = "all" =>
              /\ Manager!Flag => Manager!Top.plugin \in {"NeteaseMusic", "Chat"}
              /\ Manager!Top.at \in {"handle", "login"} => ~Manager!Flag
              /\ Manager!Top.at = "login" => isSearch
<1>1. Manager!Top \in CallType /\ immersive \in BOOLEAN
  BY StackFacts DEF ManagerInv, ManagerType
<1>2. Manager!Top.immersiveTmp \in BOOLEAN
  BY <1>1 DEF CallType
<1>3. /\ Manager!Flag \in BOOLEAN
      /\ Manager!Top.branch = "all" => (Manager!Flag <=> immersive)
  BY <1>1, <1>2 DEF Manager!Flag
<1>4. ~overlapped /\ Manager!Top.branch = "all" =>
              /\ immersive => Manager!Top.plugin \in {"NeteaseMusic", "Chat"}
              /\ Manager!Top.at \in {"handle", "login"} => ~immersive
              /\ Manager!Top.at = "login" => isSearch
  BY DEF ManagerInv, ImmersionFit
<1>5. QED
  BY <1>3, <1>4

(* NeteaseMusic works on a request, and looks for music.                   *)
LEMMA DoHandleKeeps ==
  ASSUME ManagerInv, Manager!Running, calls # <<>>, Manager!Top.plugin = "NeteaseMusic",
         NEW search, Manager!DoHandle(TRUE, search),
         UNCHANGED <<asked, overlapped, loaded, judging>>, chatMode' \in BOOLEAN,
         ~overlapped /\ Manager!Top.branch = "all" => search
  PROVE  ManagerInv'
<1>1. CASE Manager!Handled(FALSE)
  BY <1>1, HandledKeeps
<1>2. CASE Manager!Handled(TRUE)
  BY <1>2, HandledKeeps
<1>3. CASE Manager!WaitAt("search", TRUE)
  BY <1>3, WaitKeeps DEF Ats
<1>4. CASE ~search /\ Manager!Refused(TRUE)
  BY <1>4, RefusedKeeps
<1>5. QED
  BY <1>1, <1>2, <1>3, <1>4 DEF Manager!DoHandle

(* After undefined behaviour nothing runs.                                 *)
LEMMA NoFault ==
  ~ (fault = "null" /\ Manager!Running) /\ (fault' = "null" => ~Manager!Running')
<1>1. fault # "" => ~Manager!Running
  BY DEF Manager!Running
<1>2. fault' # "" => ~Manager!Running'
  BY DEF Manager!Running
<1>3. QED
  BY <1>1, <1>2

(* A request comes, also while another waits.                              *)
LEMMA HandlePluginKeeps ==
  ASSUME ManagerInv, NEW id \in 0..MaxRequests, NEW wants \in Manager!Wanted,
         Manager!HandlePlugin(id, wants)
  PROVE  ManagerInv'
<1> DEFINE first == Manager!FirstAsked
           c == [request |-> request', plugin |-> first, at |-> "handle",
                 branch |-> IF immersive THEN "immersive" ELSE "all", immersiveTmp |-> FALSE]
           n == Len(calls)
           Fits(C, S, m, last, i) ==
             LET this == C[i].request.id
             IN  /\ this <= last
                 /\ this # 0 => /\ this # judging.id
                                /\ \A j \in 1..m : j # i => C[j].request.id # this
                                /\ IF this \in DOMAIN S THEN S[this] = C[i].plugin
                                                        ELSE last - this >= MaxSources
<1>1. /\ ManagerType /\ SourcesFit /\ ImmersionFit
      /\ calls \in Seq(CallType) /\ asked \in Nat /\ n \in Nat
  BY DEF ManagerInv, ManagerType
<1>2. /\ Manager!Running /\ id \in {0, asked + 1} /\ asked' = asked + 1
      /\ overlapped' = (overlapped \/ calls # <<>>)
      /\ request' = [n |-> asked + 1, id |-> id, wants |-> wants]
      /\ UNCHANGED <<immersive, immersivePlugin, isSearch, chatMode, judging, loaded>>
      /\ IF first = Manager!NoPlugin THEN fault' = "null" /\ UNCHANGED <<calls, sources>>
         ELSE /\ sources' = Manager!SetSource(id, first)
              /\ calls' = Append(calls, c) /\ UNCHANGED fault
  BY DEF Manager!HandlePlugin, Manager!Dispatching, Manager!neteaseVars
<1>3. first \in Owners /\ (~immersive => first # Manager!NoPlugin) /\ (immersive => first = immersivePlugin)
  BY <1>1, PluginsAreNamed DEF Manager!FirstAsked, ManagerType, Owners
<1>4. asked + 1 \in Nat /\ id \in 0..asked + 1 /\ judging.id \in 0..asked /\ judging.id \in 0..asked + 1
  <2>1. judging.id \in 0..asked
    BY <1>1 DEF ManagerType
  <2>2. id = 0 \/ id = asked + 1
    BY <1>2
  <2> DEFINE k == judging.id
  <2>3. asked \in Nat /\ k \in 0..asked
    BY <1>1, <2>1
  <2> HIDE DEF k
  <2>4. asked + 1 \in Nat /\ id \in 0..asked + 1 /\ k \in 0..asked /\ k \in 0..asked + 1
    BY <2>2, <2>3
  <2>5. QED
    BY <2>4 DEF k
<1>5. ASSUME ~overlapped'
      PROVE  ~overlapped /\ calls = <<>> /\ immersivePlugin \in {Manager!NoPlugin, "NeteaseMusic", "Chat"}
             /\ (immersive <=> immersivePlugin # Manager!NoPlugin)
  BY <1>1, <1>2, <1>5 DEF ImmersionFit
<1>6. CASE first = Manager!NoPlugin
  <2>1. ManagerType'
    <3>1. /\ calls' \in Seq(CallType) /\ asked' \in Nat /\ judging'.id \in 0..asked'
      BY <1>1, <1>2, <1>4, <1>6
    <3>2. /\ immersive' \in BOOLEAN /\ immersivePlugin' \in Owners /\ chatMode' \in BOOLEAN
      BY <1>1, <1>2 DEF ManagerType
    <3>3. QED
      BY <3>1, <3>2 DEF ManagerType
  <2>2. SourcesFit'
    <3>1. \A i \in 1..n : calls[i].request.id # 0 => calls[i].request.id \in Nat
      <4>1. \A i \in 1..n : calls[i] \in CallType
        BY <1>1, ElementOfSeq
      <4>2. QED
        BY <4>1 DEF CallType, Manager!Request
    <3>2. DOMAIN sources \subseteq 0..asked + 1
      <4>1. 0..asked \subseteq 0..asked + 1
        BY <1>1
      <4>2. QED
        BY <1>1, <4>1 DEF SourcesFit
    <3>3. \A i \in 1..n : calls[i].request.id <= asked => calls[i].request.id <= asked + 1
      <4>1. \A i \in 1..n : calls[i] \in CallType
        BY <1>1, ElementOfSeq
      <4>2. \A i \in 1..n : calls[i].request.id \in Nat
        BY <4>1 DEF CallType, Manager!Request
      <4>3. QED
        BY <1>1, <4>2
    <3>4. ASSUME NEW i \in 1..n, calls[i].request.id # 0, asked - calls[i].request.id >= MaxSources
          PROVE  asked + 1 - calls[i].request.id >= MaxSources
      <4> DEFINE k == calls[i].request.id
      <4>1. k \in Nat /\ asked \in Nat /\ asked - k >= MaxSources
        BY <1>1, <3>1, <3>4
      <4> HIDE DEF k
      <4>2. asked + 1 - k >= MaxSources
        BY <4>1, PluginsAssumption
      <4>3. QED
        BY <4>2 DEF k
    <3>5. calls' = calls /\ sources' = sources /\ judging' = judging
      BY <1>2, <1>6
    <3> DEFINE next == asked + 1
    <3>6. DOMAIN sources \subseteq 0..next /\ Cardinality(DOMAIN sources) <= MaxSources + 1
      BY <1>1, <3>2 DEF SourcesFit
    <3>9. ASSUME NEW i \in 1..n
          PROVE  Fits(calls, sources, n, next, i)
      <4>1. Fits(calls, sources, n, asked, i)
        BY <1>1 DEF SourcesFit
      <4>2. asked \in Nat /\ calls[i].request.id \in Nat
        BY <1>1, <3>1
      <4>3. Fits(calls, sources, n, asked, i) =>
              /\ calls[i].request.id <= asked
              /\ calls[i].request.id # 0 /\ calls[i].request.id \notin DOMAIN sources =>
                   asked - calls[i].request.id >= MaxSources
        OBVIOUS
      <4>4. /\ calls[i].request.id <= next
            /\ calls[i].request.id # 0 /\ calls[i].request.id \notin DOMAIN sources =>
                 next - calls[i].request.id >= MaxSources
        <5> HIDE DEF Fits
        <5>1. calls[i].request.id <= next
          BY <3>3, <4>1, <4>2, <4>3
        <5>2. QED
          BY <3>4, <4>1, <4>2, <4>3, <5>1
      <4> DEFINE k == calls[i].request.id
      <4>5. /\ k # 0 => k # judging.id /\ \A j \in 1..n : j # i => calls[j].request.id # k
            /\ k # 0 /\ k \in DOMAIN sources => sources[k] = calls[i].plugin
        <5> DEFINE last == asked
        <5>1. Fits(calls, sources, n, last, i)
          BY <4>1
        <5> HIDE DEF last
        <5>2. QED
          BY <5>1
      <4>6. k <= next /\ (k # 0 /\ k \notin DOMAIN sources => next - k >= MaxSources)
        BY <4>4
      <4>7. calls[i].request.id = k
        OBVIOUS
      <4> HIDE DEF next, k
      <4>8. QED
        BY <4>5, <4>6, <4>7
    <3>7. asked' = next
      BY <1>2
    <3> HIDE DEF next
    <3>8. QED
      BY <3>5, <3>6, <3>7, <3>9 DEF SourcesFit
  <2>3. ImmersionFit'
    <3>1. Len(<<>>) <= 1
      OBVIOUS
    <3>2. ~Manager!Running'
      <4>1. fault' = "null"
        BY <1>2, <1>6
      <4>2. QED
        BY <4>1, NoFault
    <3>3. ~overlapped' => calls' = <<>> /\ immersivePlugin' \in {Manager!NoPlugin, "NeteaseMusic", "Chat"}
      BY <1>2, <1>5, <1>6
    <3>4. QED
      BY <3>1, <3>2, <3>3 DEF ImmersionFit
  <2>4. QED
    BY <2>1, <2>2, <2>3 DEF ManagerInv
<1>7. CASE first # Manager!NoPlugin
  <2>1. c \in CallType /\ c.request.id = id /\ c.plugin = first /\ c.at = "handle"
        /\ (immersive => c.branch = "immersive") /\ (~immersive => c.branch = "all")
    <3>1. request' \in Manager!Request /\ request'.id = id
      BY <1>1, <1>2 DEF Manager!Request
    <3>2. first \in Manager!Plugins
      BY <1>3, <1>7 DEF Owners
    <3>3. c \in CallType
      BY <3>1, <3>2 DEF CallType, Ats
    <3>4. QED
      BY <3>1, <3>3
  <2> HIDE DEF c
  <2>2. /\ calls' \in Seq(CallType) /\ Len(calls') = n + 1 /\ calls'[n + 1] = c
        /\ \A i \in 1..n : calls'[i] = calls[i]
    BY <1>1, <1>2, <1>7, <2>1, AppendProperties
  <2>3. ManagerType'
    BY <1>1, <1>2, <1>4, <2>2 DEF ManagerType
  <2>4. /\ DOMAIN sources' \subseteq 0..asked + 1 /\ Cardinality(DOMAIN sources') <= MaxSources + 1
        /\ id \in DOMAIN sources' /\ sources'[id] = first
        /\ \A i \in DOMAIN sources' : i # id => i \in DOMAIN sources /\ sources'[i] = sources[i]
        /\ \A i \in DOMAIN sources : i \notin DOMAIN sources' => asked + 1 - i >= MaxSources
    <3> DEFINE new == Manager!SetSource(id, first)
    <3>1. DOMAIN sources \subseteq 0..asked + 1 /\ Cardinality(DOMAIN sources) <= MaxSources + 1
      <4>1. 0..asked \subseteq 0..asked + 1
        BY <1>1
      <4>2. QED
        BY <1>1, <4>1 DEF SourcesFit
    <3>2. /\ DOMAIN new \subseteq 0..asked + 1 /\ Cardinality(DOMAIN new) <= MaxSources + 1
          /\ id \in DOMAIN new /\ new[id] = first
          /\ \A i \in DOMAIN new : i # id => i \in DOMAIN sources /\ new[i] = sources[i]
          /\ \A i \in DOMAIN sources : i \notin DOMAIN new => asked + 1 - i >= MaxSources
      <4> DEFINE next == asked + 1
      <4>1. next \in Nat /\ id \in 0..next /\ DOMAIN sources \subseteq 0..next
        BY <1>4, <3>1
      <4> HIDE DEF next, new
      <4>2. /\ DOMAIN new \subseteq 0..next /\ Cardinality(DOMAIN new) <= MaxSources + 1
            /\ id \in DOMAIN new /\ new[id] = first
            /\ \A i \in DOMAIN new : i # id => i \in DOMAIN sources /\ new[i] = sources[i]
            /\ \A i \in DOMAIN sources : i \notin DOMAIN new => next - i >= MaxSources
        BY <3>1, <4>1, SourceIsSet DEF new
      <4>3. asked \in Nat /\ \A i \in DOMAIN sources : i \in Int
        BY <1>1, <3>1
      <4>4. \A i \in DOMAIN sources : i \notin DOMAIN new => asked + 1 - i >= MaxSources
        BY <4>2, <4>3 DEF next
      <4>5. DOMAIN new \subseteq 0..asked + 1
        BY <4>2 DEF next
      <4>6. QED
        BY <4>2, <4>4, <4>5
    <3> HIDE DEF new
    <3>3. sources' = new
      BY <1>2, <1>7 DEF new
    <3>4. QED
      BY <3>2, <3>3
  <2>5. \A i \in 1..n : /\ calls[i].request.id \in Nat /\ calls[i].request.id <= asked
                        /\ calls[i].request.id # 0 => calls[i].request.id # id
    <3>1. \A i \in 1..n : calls[i] \in CallType
      BY <1>1, ElementOfSeq
    <3>2. \A i \in 1..n : calls[i].request.id \in Nat /\ calls[i].request.id <= asked
      BY <1>1, <3>1 DEF CallType, Manager!Request, SourcesFit
    <3>3. QED
      BY <1>1, <1>2, <3>2
  <2>6. id # 0 => id # judging.id
    BY <1>1, <1>2, <1>4
  <2>7. ASSUME NEW i \in 1..n + 1
        PROVE  Fits(calls', sources', n + 1, asked + 1, i)
    <3>1. \A j \in 1..n + 1 : j \in 1..n \/ j = n + 1
      BY <1>1
    <3>2. CASE i = n + 1
      <4>1. calls'[i].request.id = id /\ calls'[i].plugin = first
        BY <2>1, <2>2, <3>2
      <4>2. \A j \in 1..n + 1 : j # i /\ id # 0 => calls'[j].request.id # id
        BY <2>2, <2>5, <3>1, <3>2
      <4>3. id <= asked + 1
        BY <1>4
      <4>4. QED
        BY <2>4, <2>6, <4>1, <4>2, <4>3
    <3>3. CASE i \in 1..n
      <4> DEFINE this == calls[i].request.id
      <4>1. calls'[i] = calls[i] /\ this \in Nat /\ this <= asked /\ this # 0 => this # id
        BY <2>2, <2>5, <3>3
      <4>2. this # 0 =>
              /\ this # judging.id
              /\ \A j \in 1..n : j # i => calls[j].request.id # this
              /\ IF this \in DOMAIN sources THEN sources[this] = calls[i].plugin
                                            ELSE asked - this >= MaxSources
        BY <1>1, <3>3 DEF SourcesFit
      <4>3. this # 0 => \A j \in 1..n + 1 : j # i => calls'[j].request.id # this
        BY <2>1, <2>2, <2>5, <3>1, <3>3, <4>2
      <4> HIDE DEF this
      <4>4. this # 0 => IF this \in DOMAIN sources' THEN sources'[this] = calls[i].plugin
                                                    ELSE asked + 1 - this >= MaxSources
        <5>1. this \in Nat /\ (asked - this >= MaxSources => asked + 1 - this >= MaxSources)
          BY SMTT(30), <1>1, <2>5, <3>3, PluginsAssumption DEF this
        <5>2. this \in DOMAIN sources' /\ this # 0 => sources'[this] = calls[i].plugin
          BY <2>4, <2>5, <3>3, <4>2 DEF this
        <5>3. this \notin DOMAIN sources' /\ this # 0 => asked + 1 - this >= MaxSources
          <6>1. this \in DOMAIN sources /\ this \notin DOMAIN sources' => asked + 1 - this >= MaxSources
            BY <2>4
          <6>2. this \notin DOMAIN sources /\ this # 0 => asked + 1 - this >= MaxSources
            BY <4>2, <5>1
          <6>3. QED
            BY <6>1, <6>2
        <5>4. QED
          BY <5>2, <5>3
      <4>5. this <= asked + 1
        BY <1>1, <2>5, <3>3 DEF this
      <4>6. calls'[i] = calls[i]
        BY <2>2, <3>3
      <4>7. calls'[i].request.id = this /\ calls'[i].plugin = calls[i].plugin
        BY <4>6 DEF this
      <4>8. this # 0 => this # judging.id
        BY <4>2
      <4> DEFINE next == asked + 1
                 m == n + 1
      <4>9. /\ this # 0 => \A j \in 1..m : j # i => calls'[j].request.id # this
            /\ this # 0 => IF this \in DOMAIN sources' THEN sources'[this] = calls[i].plugin
                                                       ELSE next - this >= MaxSources
            /\ this <= next
        <5>1. this \in Nat /\ asked \in Nat
          BY <1>1, <2>5, <3>3 DEF this
        <5>2. this <= next /\ (asked + 1 - this >= MaxSources => next - this >= MaxSources)
          BY <4>5, <5>1
        <5>3. this # 0 => \A j \in 1..m : j # i => calls'[j].request.id # this
          BY <4>3
        <5> HIDE DEF next, m
        <5>4. QED
          BY <4>4, <5>2, <5>3
      <4> HIDE DEF next, m
      <4>10. Fits(calls', sources', m, next, i)
        BY <4>7, <4>8, <4>9
      <4>11. next = asked + 1 /\ m = n + 1
        BY DEF next, m
      <4> HIDE DEF Fits
      <4>12. QED
        BY <4>10, <4>11
    <3>4. QED
      BY <2>7, <3>1, <3>2, <3>3
  <2>8. SourcesFit'
    <3> DEFINE next == asked + 1
               m == n + 1
    <3>1. asked' = next /\ judging' = judging /\ Len(calls') = m
      BY <1>2, <2>2
    <3>2. DOMAIN sources' \subseteq 0..next /\ Cardinality(DOMAIN sources') <= MaxSources + 1
      BY <2>4
    <3>4. \A i \in 1..m : Fits(calls', sources', m, next, i)
      <4> HIDE DEF Fits
      <4>1. QED
        BY <2>7
    <3> HIDE DEF next, m
    <3>3. QED
      BY <3>1, <3>2, <3>4 DEF SourcesFit
  <2>9. ImmersionFit'
    <3>1. SUFFICES ASSUME ~overlapped'
                   PROVE  /\ Len(calls') <= 1 /\ calls' # <<>>
                          /\ immersivePlugin' \in {Manager!NoPlugin, "NeteaseMusic", "Chat"}
                          /\ Manager!Top'.branch = "all" =>
                               immersivePlugin' = Manager!NoPlugin /\ ~immersive' /\ Manager!Top'.at = "handle"
                          /\ Manager!Top'.branch # "all" => immersivePlugin' # Manager!NoPlugin
      BY DEF ImmersionFit
    <3>2. n = 0
      BY <1>5, <3>1
    <3>3. Len(calls') = 1 /\ calls'[1] = c
      BY <2>2, <3>2
    <3>4. calls' # <<>> /\ Manager!Top' = c
      BY <3>3 DEF Manager!Top
    <3>5. Len(calls') <= 1
      BY <3>3
    <3>6. /\ immersivePlugin' \in {Manager!NoPlugin, "NeteaseMusic", "Chat"}
          /\ immersive => immersivePlugin' # Manager!NoPlugin
          /\ ~immersive => immersivePlugin' = Manager!NoPlugin /\ ~immersive'
      BY <1>2, <1>5, <3>1
    <3>7. QED
      BY <2>1, <3>4, <3>5, <3>6
  <2>10. QED
    BY <2>3, <2>8, <2>9 DEF ManagerInv
<1>8. QED
  BY <1>6, <1>7

(* The model's verdict on a text, which Chat may get.                      *)
LEMMA VerdictKeeps ==
  ASSUME ManagerInv, NEW question \in BOOLEAN, Manager!Verdict(question)
  PROVE  ManagerInv'
<1>1. /\ ManagerType /\ SourcesFit /\ ImmersionFit /\ judging.id \in 0..asked
  BY DEF ManagerInv, ManagerType
<1>2. /\ judging' = Manager!Nobody
      /\ UNCHANGED sources \/ \E name : sources' = Manager!SetSource(judging.id, name)
      /\ UNCHANGED <<calls, immersive, immersivePlugin, isSearch, chatMode, loaded, fault, asked,
                     overlapped>>
  BY DEF Manager!Verdict, Manager!neteaseVars
<1>3. Left(judging.id)
  BY <1>1, <1>2, SetSourceLeaves
<1>4. judging'.id = 0
  BY <1>2 DEF Manager!Nobody
<1>5. ManagerType'
  <2>1. asked' = asked /\ asked \in Nat
    BY <1>1, <1>2 DEF ManagerType
  <2>2. judging'.id \in 0..asked'
    BY <1>4, <2>1
  <2>3. QED
    BY <1>1, <1>2, <2>2 DEF ManagerType
<1>6. \A i \in 1..Len(calls) :
        LET this == calls[i].request.id
        IN  this # 0 => IF this \in DOMAIN sources' THEN sources'[this] = calls[i].plugin
                                                    ELSE asked - this >= MaxSources
  BY <1>1, <1>3 DEF SourcesFit, Left
<1>7. SourcesFit'
  <2>1. calls' = calls /\ asked' = asked
    BY <1>2
  <2>2. QED
    BY <1>1, <1>3, <1>4, <1>6, <2>1 DEF SourcesFit, Left
<1>8. ImmersionFit'
  BY <1>1, <1>2 DEF ImmersionFit, Manager!Top, Manager!Running
<1>9. QED
  BY <1>5, <1>7, <1>8 DEF ManagerInv

(* A plugin that looks at the request and at the flag it is given.         *)
LEMMA ServesRunning ==
  ASSUME ManagerInv, NEW p, NEW place, Manager!Serving(p) \/ Manager!Waiting(p, place)
  PROVE  /\ Manager!Running /\ calls # <<>> /\ Manager!Top.plugin = p
         /\ Manager!Top.at \in {"handle", place} /\ Manager!Flag \in BOOLEAN /\ chatMode \in BOOLEAN
         /\ ~overlapped /\ Manager!Top.branch = "all" =>
              /\ Manager!Flag => p \in {"NeteaseMusic", "Chat"}
              /\ Manager!Top.at \in {"handle", "login"} => ~Manager!Flag
              /\ Manager!Top.at = "login" => isSearch
<1>1. /\ Manager!Running /\ calls # <<>> /\ Manager!Top.plugin = p
      /\ Manager!Top.at \in {"handle", place}
  BY DEF Manager!Serving, Manager!Waiting
<1>2. chatMode \in BOOLEAN
  BY DEF ManagerInv, ManagerType
<1>3. QED
  BY <1>1, <1>2, FlagIs

(* NeteaseMusic is given a request: it passes it on, starts, or logs in.   *)
LEMMA NeteaseHandleKeeps ==
  ASSUME ManagerInv, Manager!NeteaseHandle
  PROVE  ManagerInv'
<1> DEFINE needs == Manager!NeedHandle
           flag == Manager!Flag
<1>1. /\ Manager!Running /\ calls # <<>> /\ Manager!Top.plugin = "NeteaseMusic"
      /\ Manager!Top.at = "handle" /\ flag \in BOOLEAN /\ chatMode \in BOOLEAN
      /\ ~overlapped /\ Manager!Top.branch = "all" => ~flag
  BY ServesRunning DEF Manager!NeteaseHandle, Manager!Serving
<1>2. /\ UNCHANGED <<asked, overlapped, loaded, judging>> /\ chatMode' \in BOOLEAN
      /\ isSearch' = needs
  BY <1>1 DEF Manager!NeteaseHandle, Manager!pluginFrame
<1>3. IF ~needs /\ ~flag THEN Manager!Refused(flag)
      ELSE \/ Manager!DoHandle(TRUE, needs)
           \/ Manager!Refused(flag)
           \/ Manager!WaitAt("login", flag)
  BY DEF Manager!NeteaseHandle
<1> HIDE DEF needs, flag
<1>4. CASE Manager!Refused(flag)
  BY <1>1, <1>2, <1>4, RefusedKeeps
<1>5. CASE ~(~needs /\ ~flag) /\ Manager!DoHandle(TRUE, needs)
  BY <1>1, <1>2, <1>5, DoHandleKeeps
<1>6. CASE ~(~needs /\ ~flag) /\ Manager!WaitAt("login", flag)
  <2>1. "login" \in Ats
    BY DEF Ats
  <2>2. ~overlapped /\ Manager!Top.branch = "all" => needs /\ ~flag
    BY <1>1, <1>6
  <2>3. ~overlapped /\ Manager!Top.branch = "all" => isSearch'
    BY <1>2, <2>2
  <2>4. QED
    BY <1>1, <1>2, <1>6, <2>1, <2>2, <2>3, WaitKeeps
<1>7. QED
  BY <1>3, <1>4, <1>5, <1>6

(* The log-in of NeteaseMusic is over.                                     *)
LEMMA NeteaseLoginKeeps ==
  ASSUME ManagerInv, NEW ok \in BOOLEAN, Manager!NeteaseLogin(ok)
  PROVE  ManagerInv'
<1>1. /\ Manager!Running /\ calls # <<>> /\ Manager!Top.plugin = "NeteaseMusic"
      /\ Manager!Top.at = "login" /\ Manager!Flag \in BOOLEAN /\ chatMode \in BOOLEAN
      /\ ~overlapped /\ Manager!Top.branch = "all" => ~Manager!Flag /\ isSearch
  BY ServesRunning DEF Manager!NeteaseLogin, Manager!Waiting
<1>2. UNCHANGED <<asked, overlapped, loaded, judging>> /\ chatMode' \in BOOLEAN
  BY <1>1 DEF Manager!NeteaseLogin, Manager!pluginFrame
<1>3. Manager!DoHandle(TRUE, isSearch) \/ Manager!Refused(Manager!Flag)
  BY DEF Manager!NeteaseLogin
<1>4. QED
  BY <1>1, <1>2, <1>3, DoHandleKeeps, RefusedKeeps

(* Chat is given a request, and answers it at once only in chat mode.      *)
LEMMA ChatHandleKeeps ==
  ASSUME ManagerInv, Manager!ChatHandle
  PROVE  ManagerInv'
<1> DEFINE flag == Manager!Flag
           chats == Manager!ChatFlag
<1>1. /\ Manager!Running /\ calls # <<>> /\ Manager!Top.plugin = "Chat"
      /\ Manager!Top.at = "handle" /\ flag \in BOOLEAN /\ chatMode \in BOOLEAN
      /\ ~overlapped /\ Manager!Top.branch = "all" => ~flag
  BY ServesRunning DEF Manager!ChatHandle, Manager!Serving
<1>2. UNCHANGED <<asked, overlapped, loaded, judging>> /\ chatMode' \in BOOLEAN
  BY <1>1 DEF Manager!ChatHandle, Manager!pluginFrame
<1>3. chats \in BOOLEAN /\ (chats => flag)
  BY DEF Manager!ChatFlag
<1>4. \/ Manager!Handled(FALSE) \/ Manager!Handled(TRUE)
      \/ Manager!WaitAt("question", TRUE) \/ Manager!Refused(chats)
  BY DEF Manager!ChatHandle
<1> HIDE DEF flag, chats
<1>5. CASE Manager!Handled(FALSE) \/ Manager!Handled(TRUE)
  BY <1>1, <1>2, <1>5, HandledKeeps
<1>6. CASE Manager!WaitAt("question", TRUE)
  <2>1. "question" \in Ats
    BY DEF Ats
  <2>2. QED
    BY <1>1, <1>2, <1>6, <2>1, WaitKeeps
<1>7. CASE Manager!Refused(chats)
  BY <1>1, <1>2, <1>3, <1>7, RefusedKeeps
<1>8. QED
  BY <1>4, <1>5, <1>6, <1>7

(* The plugins that never ask for the dialogue.                            *)
LEMMA PlainHandleKeeps ==
  ASSUME ManagerInv,
         \/ Manager!WeatherHandle \/ Manager!VoiceControlHandle \/ Manager!QuitRobotHandle
  PROVE  ManagerInv'
<1> DEFINE flag == Manager!Flag
<1>1. PICK p : p \in {"Weather", "VoiceControl", "QuitRobot"} /\ Manager!Serving(p)
  BY DEF Manager!WeatherHandle, Manager!VoiceControlHandle, Manager!QuitRobotHandle
<1>2. /\ Manager!Running /\ calls # <<>>
      /\ Manager!Top.at = "handle" /\ flag \in BOOLEAN /\ chatMode \in BOOLEAN
      /\ ~overlapped /\ Manager!Top.branch = "all" => ~flag
  BY <1>1, ServesRunning DEF Manager!Serving
<1>3. UNCHANGED <<asked, overlapped, loaded, judging>> /\ chatMode' \in BOOLEAN
  BY <1>2 DEF Manager!WeatherHandle, Manager!VoiceControlHandle, Manager!QuitRobotHandle,
              Manager!pluginFrame
<1>4. \/ Manager!WaitAt("http", flag) \/ Manager!WaitAt("confirm", flag)
      \/ Manager!Handled(flag) \/ Manager!Refused(flag)
  BY DEF Manager!WeatherHandle, Manager!VoiceControlHandle, Manager!QuitRobotHandle
<1>5. "http" \in Ats /\ "confirm" \in Ats
  BY DEF Ats
<1> HIDE DEF flag
<1>6. CASE Manager!WaitAt("http", flag)
  BY <1>2, <1>3, <1>5, <1>6, WaitKeeps
<1>7. CASE Manager!WaitAt("confirm", flag)
  BY <1>2, <1>3, <1>5, <1>7, WaitKeeps
<1>8. CASE Manager!Handled(flag)
  BY <1>2, <1>3, <1>8, HandledKeeps
<1>9. CASE Manager!Refused(flag)
  BY <1>2, <1>3, <1>9, RefusedKeeps
<1>10. QED
  BY <1>4, <1>6, <1>7, <1>8, <1>9

(* What a plugin waited for has come, or the model is asked.               *)
LEMMA AnswersKeep ==
  ASSUME ManagerInv,
         \/ Manager!NeteaseSearched \/ Manager!WeatherAnswers \/ Manager!QuitDeclined
         \/ Manager!ChatAnswered \/ Manager!FallbackHandle
  PROVE  ManagerInv'
<1>1. PICK p, place : Manager!Serving(p) \/ Manager!Waiting(p, place)
  BY DEF Manager!NeteaseSearched, Manager!WeatherAnswers, Manager!QuitDeclined,
         Manager!ChatAnswered, Manager!FallbackHandle
<1>2. /\ Manager!Running /\ calls # <<>> /\ Manager!Flag \in BOOLEAN /\ chatMode \in BOOLEAN
      /\ ~overlapped /\ Manager!Top.branch = "all" /\ Manager!Flag =>
           Manager!Top.plugin \in {"NeteaseMusic", "Chat"}
  BY <1>1, ServesRunning
<1>3. UNCHANGED <<asked, overlapped, loaded>> /\ Manager!Handled(Manager!Flag)
  BY DEF Manager!NeteaseSearched, Manager!WeatherAnswers, Manager!QuitDeclined,
         Manager!ChatAnswered, Manager!FallbackHandle, Manager!pluginFrame
<1>4. judging' \in {judging, Manager!Top.request} /\ chatMode' \in BOOLEAN
  BY <1>2 DEF Manager!NeteaseSearched, Manager!WeatherAnswers, Manager!QuitDeclined,
         Manager!ChatAnswered, Manager!FallbackHandle
<1>5. QED
  BY <1>2, <1>3, <1>4, HandledKeeps

(* The plugins are unloaded, between requests or inside one.               *)
LEMMA UnloadKeeps ==
  ASSUME ManagerInv, Manager!ShutdownPlugins \/ Manager!QuitConfirmed
  PROVE  ManagerInv'
<1>1. /\ UNCHANGED <<calls, sources, judging, chatMode, asked, overlapped>>
      /\ immersive' = FALSE /\ immersivePlugin' = Manager!NoPlugin /\ loaded' = FALSE
  BY DEF Manager!ShutdownPlugins, Manager!QuitConfirmed
<1>2. ManagerType'
  BY <1>1 DEF ManagerInv, ManagerType, Owners
<1>3. SourcesFit'
  BY <1>1 DEF ManagerInv, SourcesFit
<1>4. ~Manager!Running'
  BY <1>1 DEF Manager!Running
<1>5. ImmersionFit'
  BY <1>1, <1>4 DEF ManagerInv, ImmersionFit
<1>6. QED
  BY <1>2, <1>3, <1>5 DEF ManagerInv

(* Each step of the dispatch keeps the invariant.                          *)
LEMMA ManagerKept ==
  ASSUME ManagerInv, Manager!Next
  PROVE  ManagerInv'
<1>1. CASE \E id \in 0..MaxRequests, wants \in Manager!Wanted : Manager!HandlePlugin(id, wants)
  BY <1>1, HandlePluginKeeps
<1>2. CASE Manager!ShutdownPlugins \/ Manager!QuitConfirmed
  BY <1>2, UnloadKeeps
<1>3. CASE Manager!NeteaseHandle
  BY <1>3, NeteaseHandleKeeps
<1>4. CASE \E ok \in BOOLEAN : Manager!NeteaseLogin(ok)
  BY <1>4, NeteaseLoginKeeps
<1>5. CASE Manager!WeatherHandle \/ Manager!VoiceControlHandle \/ Manager!QuitRobotHandle
  BY <1>5, PlainHandleKeeps
<1>6. CASE \/ Manager!NeteaseSearched \/ Manager!WeatherAnswers \/ Manager!QuitDeclined
           \/ Manager!ChatAnswered \/ Manager!FallbackHandle
  BY <1>6, AnswersKeep
<1>7. CASE Manager!ChatHandle
  BY <1>7, ChatHandleKeeps
<1>8. CASE \E question \in BOOLEAN : Manager!Verdict(question)
  BY <1>8, VerdictKeeps
<1>9. QED
  BY <1>1, <1>2, <1>3, <1>4, <1>5, <1>6, <1>7, <1>8 DEF Manager!Next

(* It holds at first, and while the others take their steps.               *)
LEMMA ManagerAtFirst == Manager!Init => ManagerInv
<1> SUFFICES ASSUME Manager!Init PROVE ManagerInv
  OBVIOUS
<1>1. /\ calls = <<>> /\ immersive = FALSE /\ immersivePlugin = Manager!NoPlugin
      /\ sources = [i \in {} |-> Manager!NoPlugin] /\ chatMode = FALSE
      /\ judging = Manager!Nobody /\ asked = 0 /\ overlapped = FALSE
  BY DEF Manager!Init
<1>2. Manager!Nobody.id = 0
  BY DEF Manager!Nobody
<1>3. DOMAIN sources = {} /\ Cardinality(DOMAIN sources) = 0
  BY <1>1, FS_EmptySet
<1>4. Len(<<>>) = 0 /\ 0 <= 1 /\ 0 \in 0..0 /\ 0 <= MaxSources + 1
  BY PluginsAssumption
<1>5. ManagerType
  <2>1. calls \in Seq(CallType)
    BY <1>1
  <2>2. QED
    BY <1>1, <1>2, <1>4, <2>1 DEF ManagerType, Owners
<1>6. SourcesFit
  BY <1>1, <1>3, <1>4 DEF SourcesFit
<1>7. ImmersionFit
  BY <1>1, <1>4 DEF ImmersionFit
<1>8. QED
  BY <1>5, <1>6, <1>7 DEF ManagerInv

(* Steps of the other components leave the dispatch alone.                 *)
LEMMA ManagerStutters ==
  ASSUME ManagerInv, UNCHANGED managerVars
  PROVE  ManagerInv'
<1>1. UNCHANGED <<calls, sources, immersive, immersivePlugin, chatMode, judging, asked, overlapped,
                  isSearch, loaded, fault>>
  BY DEF managerVars
<1>2. ManagerType' /\ SourcesFit'
  BY <1>1 DEF ManagerInv, ManagerType, SourcesFit
<1>3. (Manager!Running <=> Manager!Running') /\ Manager!Top' = Manager!Top
  BY <1>1 DEF Manager!Running, Manager!Top
<1>4. ImmersionFit'
  BY <1>1, <1>3 DEF ManagerInv, ImmersionFit
<1>5. QED
  BY <1>2, <1>4 DEF ManagerInv

(* What the run checks follows.                                            *)
LEMMA ManagerIsSound == ManagerInv => DispatchSound
<1> SUFFICES ASSUME ManagerInv PROVE DispatchSound
  OBVIOUS
<1>1. SourcesFit /\ ImmersionFit
  BY DEF ManagerInv
<1>2. Manager!ImmersionOwned
  BY <1>1 DEF Manager!ImmersionOwned, ImmersionFit
<1>3. Manager!SpeakerIsSource
  <2>1. DOMAIN calls = 1..Len(calls)
    BY DEF ManagerInv, ManagerType
  <2>2. QED
    BY <1>1, <2>1 DEF Manager!SpeakerIsSource, SourcesFit
<1>4. Manager!SourcesBounded
  BY <1>1, SameNumber DEF Manager!SourcesBounded, SourcesFit
<1>5. QED
  BY <1>2, <1>3, <1>4 DEF DispatchSound

(* Requests find their plugin and their speaker, however many there are    *)
(* and however deep they nest: pluginmanager.cpp:140-141, 207.             *)
THEOREM DispatchStaysSound == Spec => []DispatchSound
<1>1. Init => ManagerInv
  BY ManagerAtFirst DEF Init
<1>2. ManagerInv /\ [Next]_vars => ManagerInv'
  <2> SUFFICES ASSUME ManagerInv, [Next]_vars PROVE ManagerInv'
    OBVIOUS
  <2>1. CASE Manager!Next
    BY <2>1, ManagerKept
  <2>2. CASE UNCHANGED managerVars
    BY <2>2, ManagerStutters
  <2>3. QED
    BY <2>1, <2>2 DEF Next, vars, OnlyManager, OnlyLogin, OnlyMusic, OnlyOfficial, OnlyHass,
                      OnlyCode
<1>3. QED
  BY <1>1, <1>2, ManagerIsSound, PTL DEF Spec

-----------------------------------------------------------------------------
(* The log-in.                                                             *)

(* Until the first message is asked for none was sent, and the map holds   *)
(* no session when the password goes into it.                              *)
LoginInv ==
  /\ sms \in {0, 1} /\ (prompted => sms = 1) /\ ~leaked
  /\ at \in {"status", "password", "send1", "send2"} => sms = 0
  /\ at = "password" => ~params

(* At first nothing was asked for and nothing sent.                        *)
LEMMA LoginAtFirst == Login!Init => LoginInv
  BY DEF Login!Init, LoginInv

(* A message is asked for: one is sent at most, and if the service says so *)
(* it was.                                                                 *)
LEMMA CaptchaSentKeeps ==
  ASSUME LoginInv, NEW answer, NEW sent \in BOOLEAN, Login!CaptchaSent(answer, sent),
         Login!IsSuccess(answer) => sent,
         sent /\ ~Login!IsSuccess(answer) => ~Login!SendsTwice(answer)
  PROVE  LoginInv'
<1>1. sms = 0 /\ ~leaked /\ (prompted => FALSE)
  BY DEF LoginInv, Login!CaptchaSent
<1>2. /\ sms' = IF sent THEN sms + 1 ELSE sms
      /\ leaked' = leaked /\ params' = params
      /\ \/ Login!IsSuccess(answer) /\ at' = "question"
         \/ ~Login!IsSuccess(answer) /\ Login!SendsTwice(answer) /\ at' = "send2"
              /\ UNCHANGED prompted
         \/ ~Login!IsSuccess(answer) /\ at' = "guest" /\ UNCHANGED prompted
  BY DEF Login!CaptchaSent, Login!Goto
<1>3. CASE sent
  <2>1. sms' = 1 /\ at' \in {"question", "guest"}
    BY <1>1, <1>2, <1>3
  <2>2. QED
    BY <1>1, <1>2, <2>1 DEF LoginInv
<1>4. CASE ~sent
  <2>1. sms' = 0 /\ at' \in {"send2", "guest"} /\ UNCHANGED prompted
    BY <1>1, <1>2, <1>4
  <2>2. QED
    BY <1>1, <1>2, <2>1 DEF LoginInv
<1>5. QED
  BY <1>3, <1>4

(* What the service answers, as far as a message goes.                     *)
LEMMA MessagesFit ==
  /\ ~Login!FromCache
  /\ \A answer \in Login!Yes : Login!IsSuccess(answer)
  /\ \A answer \in Login!No : ~Login!IsSuccess(answer)
  /\ ~Login!IsSuccess(Login!Timeout) /\ ~Login!SendsTwice(Login!Timeout)
<1>1. ~Login!FromCache
  BY DEF Login!FromCache, Login!ForceFetch
<1>2. Login!Timeout.code = 0
  BY DEF Login!Timeout, Login!NoCode
<1>3. ~Login!IsSuccess(Login!Timeout) /\ ~Login!SendsTwice(Login!Timeout)
  BY <1>2 DEF Login!IsSuccess, Login!SendsTwice, Login!NoCode
<1>4. QED
  BY <1>1, <1>3 DEF Login!Yes, Login!No, Login!IsSuccess

(* Every answer of the service, and every answer of the user.              *)
LEMMA RepliesKeep ==
  ASSUME LoginInv, Login!Replies
  PROVE  LoginInv'
<1>1. CASE \E answer \in Login!Yes \cup Login!No \cup {Login!Timeout}, anonymous \in BOOLEAN :
             Login!StatusAnswered(answer, anonymous)
  <2>1. /\ at = "status" /\ UNCHANGED <<sms, prompted, leaked>>
        /\ \/ at' = "guest" \/ at' = "style"
           \/ at' = "password" /\ ~params'
    BY <1>1 DEF Login!StatusAnswered, Login!Goto, Login!Cleared, Login!smsVars
  <2>2. QED
    BY <2>1 DEF LoginInv
<1>2. CASE \E answer \in Login!Yes \cup Login!No \cup {Login!Timeout} :
             Login!PasswordAnswered(answer)
  <2>1. /\ at = "password" /\ UNCHANGED <<sms, prompted>> /\ (leaked' <=> (leaked \/ params))
        /\ at' \in {"style", "send1", "guest"}
    BY <1>2 DEF Login!PasswordAnswered, Login!Goto
  <2>2. QED
    BY <2>1 DEF LoginInv
<1>3. CASE \/ \E answer \in Login!Yes : Login!CaptchaSent(answer, ~Login!FromCache)
           \/ \E answer \in Login!No : Login!CaptchaSent(answer, FALSE)
           \/ \E sent \in BOOLEAN : Login!CaptchaSent(Login!Timeout, sent)
  <2>1. ASSUME NEW answer \in Login!Yes, Login!CaptchaSent(answer, ~Login!FromCache)
        PROVE  LoginInv'
    <3>1. (~Login!FromCache) \in BOOLEAN
      OBVIOUS
    <3>2. Login!IsSuccess(answer) /\ ~Login!FromCache
      BY MessagesFit
    <3>3. QED
      BY <2>1, <3>1, <3>2, CaptchaSentKeeps
  <2>2. ASSUME NEW answer \in Login!No, Login!CaptchaSent(answer, FALSE)
        PROVE  LoginInv'
    BY <2>2, MessagesFit, CaptchaSentKeeps
  <2>3. ASSUME NEW sent \in BOOLEAN, Login!CaptchaSent(Login!Timeout, sent)
        PROVE  LoginInv'
    BY <2>3, MessagesFit, CaptchaSentKeeps
  <2>4. QED
    BY <1>3, <2>1, <2>2, <2>3
<1>4. CASE \E heard \in Login!Heard, right \in BOOLEAN : Login!CodeHeard(heard, right)
  <2>1. /\ at = "question" /\ UNCHANGED <<sms, prompted, leaked>>
        /\ at' \in {"question", "verify", "guest"}
    BY <1>4 DEF Login!CodeHeard, Login!Goto, Login!smsVars
  <2>2. QED
    BY <2>1 DEF LoginInv
<1>5. CASE Login!DeadlinePassed
  <2>1. at' = "guest" /\ UNCHANGED <<sms, prompted, leaked>>
    BY <1>5 DEF Login!DeadlinePassed, Login!Goto, Login!smsVars
  <2>2. QED
    BY <2>1 DEF LoginInv
<1>6. CASE \E answer : Login!Verified(answer) \/ Login!CaptchaAnswered(answer)
  <2>1. /\ UNCHANGED <<sms, prompted, leaked>>
        /\ at' \in {"question", "guest", "captcha", "style"}
    BY <1>6 DEF Login!Verified, Login!CaptchaAnswered, Login!Goto, Login!smsVars
  <2>2. QED
    BY <2>1 DEF LoginInv
<1>7. CASE \E answer : Login!GuestAnswered(answer)
  <2>1. at' \in {"style", "idle"} /\ UNCHANGED <<sms, prompted, leaked>>
    BY <1>7 DEF Login!GuestAnswered, Login!Goto, Login!smsVars
  <2>2. QED
    BY <2>1 DEF LoginInv
<1>8. CASE Login!StyleAnswered
  <2>1. at' = "idle" /\ UNCHANGED <<sms, prompted, leaked>>
    BY <1>8 DEF Login!StyleAnswered, Login!Goto, Login!smsVars
  <2>2. QED
    BY <2>1 DEF LoginInv
<1>9. QED
  BY <1>1, <1>2, <1>3, <1>4, <1>5, <1>6, <1>7, <1>8 DEF Login!Replies

(* Each step of the log-in keeps the invariant.                            *)
LEMMA LoginKept ==
  ASSUME LoginInv, Login!Next
  PROVE  LoginInv'
<1>1. CASE \/ \E there \in BOOLEAN : Login!StartNode(there)
           \/ Login!WaitForNode \/ Login!ProbeNode \/ Login!FailedToStart \/ Login!GiveUpNode
           \/ Login!FindLoggedIn
           \/ \E http \in BOOLEAN : Login!ProbeAnswered(http)
           \/ Login!CacheExpires
  <2>1. UNCHANGED <<sms, prompted, leaked, at, params>>
    BY <1>1 DEF Login!StartNode, Login!WaitForNode, Login!ProbeNode, Login!FailedToStart,
                Login!GiveUpNode, Login!FindLoggedIn, Login!ProbeAnswered, Login!CacheExpires,
                Login!loginVars, Login!smsVars
  <2>2. QED
    BY <2>1 DEF LoginInv
<1>2. CASE \E can \in BOOLEAN : Login!Login(can)
  <2>1. /\ UNCHANGED leaked
        /\ \/ UNCHANGED <<sms, prompted, at, params>>
           \/ sms' = 0 /\ prompted' = FALSE /\ at' = "status"
    BY <1>2 DEF Login!Login, Login!loginVars, Login!smsVars
  <2>2. QED
    BY <2>1 DEF LoginInv
<1>3. CASE Login!Replies
  BY <1>3, RepliesKeep
<1>4. QED
  BY <1>1, <1>2, <1>3 DEF Login!Next

-----------------------------------------------------------------------------
(* The session with the official platform.                                 *)

(* The first use of a run is over before a QR code is polled; a user's     *)
(* session is whole, in the client as in the file, and no answer of a      *)
(* first use is awaited that would replace it.                             *)
OfficialInv ==
  /\ awaits \in {"refresh", "anonymous"} \/ ~officialTried =>
       polls.inFlight = 0 /\ ~polls.shown
  /\ awaits # "nothing" => officialTried
  /\ userOnce => /\ session.token /\ session.user /\ saved = session
                 /\ awaits \notin {"refresh", "anonymous"}

(* At first nobody is logged in and no code is shown.                      *)
LEMMA OfficialAtFirst == Official!Init => OfficialInv
  BY DEF Official!Init, OfficialInv, Official!NoCodeShown

(* Each step of the official log-in keeps the invariant.                   *)
LEMMA OfficialKept ==
  ASSUME OfficialInv, Official!Next
  PROVE  OfficialInv'
<1>1. CASE Official!Restart
  <2>1. /\ session' = saved /\ officialTried' = FALSE /\ awaits' = "nothing"
        /\ polls' = Official!NoCodeShown /\ saved' = saved /\ userOnce' = userOnce
    BY <1>1 DEF Official!Restart
  <2>2. polls'.inFlight = 0 /\ ~polls'.shown
    BY <2>1 DEF Official!NoCodeShown
  <2>3. QED
    BY <2>1, <2>2 DEF OfficialInv
<1>2. CASE Official!FirstUse
  <2>1. /\ ~officialTried /\ officialTried' = TRUE /\ UNCHANGED <<session, saved, polls, userOnce>>
        /\ session.token => awaits' \in {"qrCode", "nothing"}
    BY <1>2 DEF Official!FirstUse, Official!Leave
  <2>2. QED
    BY <2>1 DEF OfficialInv
<1>3. CASE \E ok \in BOOLEAN : Official!RefreshAnswered(ok) \/ Official!AnonymousAnswered(ok)
  <2>1. /\ awaits \in {"refresh", "anonymous"} /\ UNCHANGED <<officialTried, polls, userOnce>>
    BY <1>3 DEF Official!RefreshAnswered, Official!AnonymousAnswered
  <2>2. ~userOnce /\ officialTried /\ polls.inFlight = 0 /\ ~polls.shown
    BY <2>1 DEF OfficialInv
  <2>3. QED
    BY <2>1, <2>2 DEF OfficialInv
<1>4. CASE \E ok \in BOOLEAN : Official!CodeAnswered(ok)
  <2>1. /\ awaits = "qrCode" /\ awaits' = "nothing"
        /\ UNCHANGED <<session, saved, officialTried, userOnce>>
    BY <1>4 DEF Official!CodeAnswered
  <2>2. QED
    BY <2>1 DEF OfficialInv
<1>5. CASE \/ Official!PollQrLogin \/ Official!QrPending \/ Official!QrExpired
  <2>1. /\ polls.shown \/ polls.inFlight > 0
        /\ UNCHANGED <<session, saved, officialTried, awaits, userOnce>>
    BY <1>5 DEF Official!PollQrLogin, Official!QrPending, Official!QrExpired
  <2>2. awaits \notin {"refresh", "anonymous"} /\ officialTried
    BY <2>1 DEF OfficialInv
  <2>3. QED
    BY <2>1, <2>2 DEF OfficialInv
<1>6. CASE Official!QrConfirmed
  <2>1. /\ polls.inFlight > 0 /\ UNCHANGED <<officialTried, awaits>>
        /\ session' = [token |-> TRUE, refresh |-> TRUE, user |-> TRUE] /\ saved' = session'
    BY <1>6 DEF Official!QrConfirmed, Official!Hold, Official!Saved
  <2>2. awaits \notin {"refresh", "anonymous"} /\ officialTried
    BY <2>1 DEF OfficialInv
  <2>3. session'.token /\ session'.user
    BY <2>1
  <2>4. QED
    BY <2>1, <2>2, <2>3 DEF OfficialInv
<1>7. QED
  BY <1>1, <1>2, <1>3, <1>4, <1>5, <1>6 DEF Official!Next

(* One log-in sends one message and says so only if it was sent, no        *)
(* password goes out with an old session, and a user's session survives    *)
(* restarts and late answers, for all bounds: neteasemusic.cpp:574-582,    *)
(* 641-643, 807-808.                                                       *)
THEOREM LoginStaysSound == Spec => []LoginSound
<1> DEFINE Inv == LoginInv /\ OfficialInv
<1>1. Init => Inv
  BY LoginAtFirst, OfficialAtFirst DEF Init
<1>2. Inv /\ [Next]_vars => Inv'
  <2> SUFFICES ASSUME Inv, [Next]_vars PROVE Inv'
    OBVIOUS
  <2>1. UNCHANGED loginVars => LoginInv'
    BY DEF loginVars, LoginInv
  <2>2. UNCHANGED officialVars => OfficialInv'
    BY DEF officialVars, OfficialInv
  <2>3. CASE Login!Next /\ UNCHANGED officialVars
    BY <2>2, <2>3, LoginKept
  <2>4. CASE Official!Next /\ UNCHANGED loginVars
    BY <2>1, <2>4, OfficialKept
  <2>5. CASE UNCHANGED <<loginVars, officialVars>>
    BY <2>1, <2>2, <2>5
  <2>6. QED
    BY <2>3, <2>4, <2>5 DEF Next, vars, OnlyManager, OnlyLogin, OnlyMusic, OnlyOfficial,
                            OnlyHass, OnlyCode
<1>3. Inv => LoginSound
  <2> SUFFICES ASSUME Inv PROVE LoginSound
    OBVIOUS
  <2>1. Login!PromptedMeansSent /\ Login!OneMessage /\ Login!NoOldSession
    BY DEF LoginInv, Login!PromptedMeansSent, Login!OneMessage, Login!NoOldSession
  <2>2. Official!UserStays
    BY DEF OfficialInv, Official!UserStays
  <2>3. QED
    BY <2>1, <2>2 DEF LoginSound
<1> HIDE DEF Inv
<1>4. QED
  BY <1>1, <1>2, <1>3, PTL DEF Spec

-----------------------------------------------------------------------------
(* The Home Assistant plugin.                                              *)

Reported(n) == \E s \in hassSaid : s.command = n
EntryType == [command : Nat, late : BOOLEAN]

(* Commands are sent under ids of their own.                               *)
SentFit ==
  /\ commands \in Nat /\ commands <= MaxCommands /\ socketId \in Nat
  /\ idOf \in [1..MaxCommands -> Nat]
  /\ \A n \in 1..commands : idOf[n] < socketId
  /\ \A m, n \in 1..commands : idOf[m] = idOf[n] => m = n

(* The outcome of a command is awaited in one place, until it is said.     *)
ById ==
  \A i \in DOMAIN responses :
    /\ responses[i] \in EntryType /\ responses[i].command \in 1..commands
    /\ idOf[responses[i].command] = i /\ ~Reported(responses[i].command)
ByEvent ==
  \A e \in responsesList :
    /\ e \in EntryType /\ e.command \in 1..commands
    /\ ~Reported(e.command) /\ idOf[e.command] \notin DOMAIN responses
    /\ \A f \in responsesList : f.command = e.command => f = e
ByAssistant ==
  \A m \in wire : m.type = "intent-end" =>
    \E n \in 1..commands :
      /\ idOf[n] = m.id /\ ~Reported(n) /\ m.id \notin DOMAIN responses
      /\ \A e \in responsesList : e.command # n
SaidFit == \A s \in hassSaid : s.times = 1 /\ s.command \in 1..commands

WireFit == wire \subseteq [type : {"result", "intent-end"}, id : Nat]

HassInv == SentFit /\ ById /\ ByEvent /\ ByAssistant /\ SaidFit /\ WireFit

(* At first there is no link and no command.                               *)
LEMMA HassAtFirst == HomeAssistant!Init => HassInv
<1> SUFFICES ASSUME HomeAssistant!Init PROVE HassInv
  OBVIOUS
<1>1. /\ socketId = 1 /\ responses = [i \in {} |-> HomeAssistant!Entry(0)] /\ responsesList = {}
      /\ wire = {} /\ commands = 0 /\ idOf = [n \in 1..MaxCommands |-> 0] /\ hassSaid = {}
  BY DEF HomeAssistant!Init, HomeAssistant!Nothing
<1>2. SentFit
  BY <1>1, PluginsAssumption DEF SentFit
<1>3. ById /\ ByEvent /\ ByAssistant /\ SaidFit /\ WireFit
  BY <1>1 DEF ById, ByEvent, ByAssistant, SaidFit, WireFit
<1>4. QED
  BY <1>2, <1>3 DEF HassInv

(* What is said of entries no outcome was said of: of each not late, once. *)
LEMMA AnnouncedOnce ==
  ASSUME NEW entries, \A e \in entries : ~Reported(e.command)
  PROVE  \A s \in HomeAssistant!Announced(entries) :
           s.times = 1 /\ \E e \in entries : s.command = e.command
<1>1. \A e \in entries : {s \in hassSaid : s.command = e.command} = {}
  BY DEF Reported
<1>2. HomeAssistant!Cardinality({}) = 0
  BY FS_EmptySet DEF HomeAssistant!Cardinality, Cardinality
<1>3. \A e \in entries :
        HomeAssistant!Cardinality({s \in hassSaid : s.command = e.command}) + 1 = 1
  BY <1>1, <1>2
<1>4. TAKE s \in HomeAssistant!Announced(entries)
<1>5. PICK e \in entries :
        s = [command |-> e.command, to |-> currentId, last |-> commands,
             times |-> HomeAssistant!Cardinality({x \in hassSaid : x.command = e.command}) + 1]
  BY DEF HomeAssistant!Announced
<1>6. s.command = e.command
  BY <1>5
<1>7. s.times = HomeAssistant!Cardinality({x \in hassSaid : x.command = e.command}) + 1
  BY <1>5
<1>8. QED
  BY <1>3, <1>6, <1>7

(* Entries are done with: what is awaited now is not of their commands.    *)
LEMMA OutcomeSaid ==
  ASSUME HassInv, NEW entries,
         \A e \in entries : e.command \in 1..commands /\ ~Reported(e.command),
         hassSaid' = hassSaid \cup HomeAssistant!Announced(entries),
         UNCHANGED <<socketId, commands, idOf>>
  PROVE  /\ SentFit' /\ SaidFit'
         /\ \A n : Reported(n)' => Reported(n) \/ \E e \in entries : e.command = n
<1>1. SentFit /\ SaidFit
  BY DEF HassInv
<1>2. SentFit'
  BY <1>1 DEF SentFit
<1>3. \A s \in HomeAssistant!Announced(entries) :
           s.times = 1 /\ \E e \in entries : s.command = e.command
  BY AnnouncedOnce
<1>4. SaidFit'
  BY <1>1, <1>3 DEF SaidFit
<1>5. \A n : Reported(n)' => Reported(n) \/ \E e \in entries : e.command = n
  BY <1>3 DEF Reported
<1>6. QED
  BY <1>2, <1>4, <1>5

(* A command is sent under the next id, and awaited under it.              *)
LEMMA ExecuteKeeps ==
  ASSUME HassInv, NEW service \in HomeAssistant!Service, NEW id \in {0, 1},
         HomeAssistant!ExecuteService(service, id)
  PROVE  HassInv'
<1> DEFINE n == commands + 1
           c == HomeAssistant!Entry(n)
<1>1. SentFit /\ ById /\ ByEvent /\ ByAssistant /\ SaidFit /\ commands \in Nat /\ socketId \in Nat
  BY DEF HassInv, SentFit
<1>2. /\ n <= MaxCommands /\ commands' = n /\ socketId' = socketId + 1
      /\ idOf' = [idOf EXCEPT ![n] = socketId] /\ hassSaid' = hassSaid
      /\ responses' = IF service # "byId" THEN responses
                      ELSE [i \in DOMAIN responses \cup {socketId} |->
                              IF i = socketId THEN c ELSE responses[i]]
      /\ responsesList' = IF service = "byEvent" THEN responsesList \cup {c} ELSE responsesList
      /\ \A m \in wire' : m.type = "intent-end" =>
           m \in wire \/ (service = "assistant" /\ m.id = socketId)
  <2>1. /\ n <= MaxCommands /\ commands' = n /\ socketId' = socketId + 1
        /\ idOf' = [idOf EXCEPT ![n] = socketId] /\ hassSaid' = hassSaid
        /\ responses' = IF service # "byId" THEN responses
                        ELSE [i \in DOMAIN responses \cup {socketId} |->
                                IF i = socketId THEN c ELSE responses[i]]
        /\ responsesList' = IF service = "byEvent" THEN responsesList \cup {c} ELSE responsesList
        /\ wire' = IF link # "authorized" THEN wire
                   ELSE wire \cup {[type |-> "result", id |-> socketId]} \cup
                        (IF service = "assistant" THEN {[type |-> "intent-end", id |-> socketId]}
                                                  ELSE {})
    BY DEF HomeAssistant!ExecuteService, HomeAssistant!AwaitedId
  <2>2. ASSUME NEW m \in wire', m.type = "intent-end"
        PROVE  m \in wire \/ (service = "assistant" /\ m.id = socketId)
    <3>1. \/ m \in wire \/ m = [type |-> "result", id |-> socketId]
          \/ service = "assistant" /\ m = [type |-> "intent-end", id |-> socketId]
      BY <2>1
    <3>2. m # [type |-> "result", id |-> socketId]
      BY <2>2
    <3>3. QED
      BY <3>1, <3>2
  <2>3. QED
    BY <2>1, <2>2
<1>3. c \in EntryType /\ c.command = n
  BY <1>1 DEF HomeAssistant!Entry, EntryType
<1> HIDE DEF c
<1>4. /\ n \in 1..MaxCommands /\ n \in Nat /\ n \notin 1..commands /\ n \in 1..n
      /\ \A k \in 1..commands : k \in 1..n /\ k # n /\ k \in 1..MaxCommands
      /\ \A k \in 1..n : k = n \/ k \in 1..commands
  BY <1>1, <1>2, PluginsAssumption DEF SentFit
<1>5. idOf'[n] = socketId /\ \A k \in 1..commands : idOf'[k] = idOf[k] /\ idOf[k] # socketId
  BY <1>1, <1>2, <1>4 DEF SentFit
<1>6. ~Reported(n) /\ \A k : Reported(k)' <=> Reported(k)
  BY <1>1, <1>2, <1>4 DEF SaidFit, Reported
<1>7. socketId \notin DOMAIN responses /\ \A e \in responsesList : e.command # n
  <2>1. \A i \in DOMAIN responses : i # socketId
    BY <1>1, <1>5 DEF ById
  <2>2. QED
    BY <1>1, <1>4, <2>1 DEF ByEvent
<1>8. /\ service = "byId" => /\ DOMAIN responses' = DOMAIN responses \cup {socketId}
                            /\ responses'[socketId] = c
      /\ service # "byId" => DOMAIN responses' = DOMAIN responses
      /\ \A i \in DOMAIN responses : responses'[i] = responses[i]
  BY <1>2, <1>7
<1>9. SentFit'
  <2>1. idOf' \in [1..MaxCommands -> Nat]
    BY <1>1, <1>2 DEF SentFit
  <2>2. \A k \in 1..n : idOf'[k] < socketId + 1
    <3>1. \A k \in 1..commands : idOf[k] \in Nat /\ idOf[k] < socketId
      BY <1>1, <1>4 DEF SentFit
    <3>2. QED
      BY <1>1, <1>4, <1>5, <3>1
  <2>3. \A k, l \in 1..n : idOf'[k] = idOf'[l] => k = l
    BY <1>1, <1>4, <1>5 DEF SentFit
  <2>4. QED
    BY <1>1, <1>2, <1>4, <2>1, <2>2, <2>3 DEF SentFit
<1> HIDE DEF n
<1>10. ById'
  <2>1. ASSUME NEW i \in DOMAIN responses'
        PROVE  /\ responses'[i] \in EntryType /\ responses'[i].command \in 1..n
               /\ idOf'[responses'[i].command] = i /\ ~Reported(responses'[i].command)
    <3>1. CASE i \in DOMAIN responses
      <4>1. /\ responses[i] \in EntryType /\ responses[i].command \in 1..commands
            /\ idOf[responses[i].command] = i /\ ~Reported(responses[i].command)
        BY <1>1, <3>1 DEF ById
      <4>2. responses'[i] = responses[i]
        BY <1>8, <3>1
      <4>3. QED
        BY <1>4, <1>5, <4>1, <4>2
    <3>2. CASE i \notin DOMAIN responses
      <4>1. i = socketId /\ responses'[i] = c
        BY <1>8, <3>2
      <4>2. QED
        BY <1>3, <1>4, <1>5, <1>6, <4>1
    <3>3. QED
      BY <3>1, <3>2
  <2>2. commands' = n
    BY <1>2
  <2>3. QED
    BY <1>6, <2>1, <2>2 DEF ById
<1>11. ByEvent'
  <2>1. ASSUME NEW e \in responsesList'
        PROVE  /\ e \in EntryType /\ e.command \in 1..n
               /\ ~Reported(e.command) /\ idOf'[e.command] \notin DOMAIN responses'
               /\ \A f \in responsesList' : f.command = e.command => f = e
    <3>1. CASE e \in responsesList
      <4>1. /\ e \in EntryType /\ e.command \in 1..commands
            /\ ~Reported(e.command) /\ idOf[e.command] \notin DOMAIN responses
            /\ \A f \in responsesList : f.command = e.command => f = e
        BY <1>1, <3>1 DEF ByEvent
      <4>2. idOf'[e.command] = idOf[e.command] /\ idOf[e.command] # socketId
        BY <1>5, <4>1
      <4>3. \A f \in responsesList' : f \in responsesList \/ f.command = n
        BY <1>2, <1>3
      <4>4. e.command # n /\ e.command \in 1..n
        BY <1>4, <4>1
      <4>5. idOf[e.command] \notin DOMAIN responses'
        BY <1>8, <4>1, <4>2
      <4>6. QED
        BY <4>1, <4>2, <4>3, <4>4, <4>5
    <3>2. CASE e \notin responsesList
      <4>1. e = c /\ service = "byEvent"
        BY <1>2, <3>2
      <4>2. \A f \in responsesList' : f.command = n => f = c
        BY <1>2, <1>7
      <4>3. idOf'[n] \notin DOMAIN responses'
        BY <1>5, <1>7, <1>8, <4>1
      <4>4. QED
        BY <1>3, <1>4, <1>6, <4>1, <4>2, <4>3
    <3>3. QED
      BY <3>1, <3>2
  <2>2. commands' = n
    BY <1>2
  <2>3. QED
    BY <1>6, <2>1, <2>2 DEF ByEvent
<1>12. ByAssistant'
  <2>1. ASSUME NEW m \in wire', m.type = "intent-end"
        PROVE  \E k \in 1..n :
                 /\ idOf'[k] = m.id /\ ~Reported(k) /\ m.id \notin DOMAIN responses'
                 /\ \A e \in responsesList' : e.command # k
    <3>1. CASE m \in wire
      <4>1. PICK k \in 1..commands :
              /\ idOf[k] = m.id /\ ~Reported(k) /\ m.id \notin DOMAIN responses
              /\ \A e \in responsesList : e.command # k
        BY <1>1, <2>1, <3>1 DEF ByAssistant
      <4>2. m.id # socketId /\ m.id \notin DOMAIN responses'
        BY <1>5, <1>8, <4>1
      <4>3. \A e \in responsesList' : e.command # k
        BY <1>2, <1>3, <1>4, <4>1
      <4>4. idOf'[k] = m.id /\ k \in 1..n
        BY <1>4, <1>5, <4>1
      <4>5. QED
        BY <4>1, <4>2, <4>3, <4>4
    <3>2. CASE m \notin wire
      <4>1. service = "assistant" /\ m.id = socketId
        BY <1>2, <2>1, <3>2
      <4>2. m.id \notin DOMAIN responses' /\ \A e \in responsesList' : e.command # n
        BY <1>2, <1>7, <1>8, <4>1
      <4>3. QED
        BY <1>4, <1>5, <1>6, <4>1, <4>2
    <3>3. QED
      BY <3>1, <3>2
  <2>2. commands' = n
    BY <1>2
  <2>3. QED
    BY <1>6, <2>1, <2>2 DEF ByAssistant
<1>13. SaidFit'
  BY <1>1, <1>2, <1>4 DEF SaidFit
<1>14. WireFit'
  <2> DEFINE new == {[type |-> "result", id |-> socketId], [type |-> "intent-end", id |-> socketId]}
  <2>1. wire' \subseteq wire \cup new
    BY DEF HomeAssistant!ExecuteService
  <2>2. new \subseteq [type : {"result", "intent-end"}, id : Nat]
    BY <1>1
  <2> HIDE DEF new
  <2>3. wire \subseteq [type : {"result", "intent-end"}, id : Nat]
    BY DEF HassInv, WireFit
  <2>4. QED
    BY <2>1, <2>2, <2>3 DEF WireFit
<1>15. QED
  BY <1>9, <1>10, <1>11, <1>12, <1>13, <1>14 DEF HassInv

(* An entry grows old, and stays where it is awaited.                      *)
LEMMA GrowOldKeeps ==
  ASSUME HassInv, HomeAssistant!GrowOld
  PROVE  HassInv'
<1>1. SentFit /\ ById /\ ByEvent /\ ByAssistant /\ SaidFit /\ WireFit
  BY DEF HassInv
<1>2. UNCHANGED <<socketId, wire, commands, idOf, hassSaid>>
  BY DEF HomeAssistant!GrowOld
<1>3. SentFit' /\ SaidFit' /\ WireFit' /\ \A n : Reported(n)' <=> Reported(n)
  BY <1>1, <1>2 DEF SentFit, SaidFit, WireFit, Reported
<1>4. CASE \E i \in DOMAIN responses :
             /\ responses' = [responses EXCEPT ![i].late = TRUE]
             /\ UNCHANGED responsesList
  <2>1. PICK i \in DOMAIN responses :
             responses' = [responses EXCEPT ![i].late = TRUE] /\ UNCHANGED responsesList
    BY <1>4
  <2>2. DOMAIN responses' = DOMAIN responses
        /\ \A j \in DOMAIN responses :
             responses'[j] = IF j = i THEN [responses[i] EXCEPT !.late = TRUE] ELSE responses[j]
    BY <2>1
  <2>3. [responses[i] EXCEPT !.late = TRUE] \in EntryType
        /\ [responses[i] EXCEPT !.late = TRUE].command = responses[i].command
    <3>1. responses[i] \in EntryType
      BY <1>1 DEF ById
    <3>2. QED
      BY <3>1 DEF EntryType
  <2>4. \A j \in DOMAIN responses :
          responses'[j] \in EntryType /\ responses'[j].command = responses[j].command
    BY <1>1, <2>2, <2>3 DEF ById
  <2>5. ById'
    BY <1>1, <1>2, <1>3, <2>2, <2>4 DEF ById
  <2>6. ByEvent' /\ ByAssistant'
    BY <1>1, <1>2, <1>3, <2>1, <2>2 DEF ByEvent, ByAssistant
  <2>7. QED
    BY <1>3, <2>5, <2>6 DEF HassInv
<1>5. CASE \E e \in responsesList :
             /\ responsesList' = (responsesList \ {e}) \cup {[e EXCEPT !.late = TRUE]}
             /\ UNCHANGED responses
  <2>1. PICK e \in responsesList :
             /\ responsesList' = (responsesList \ {e}) \cup {[e EXCEPT !.late = TRUE]}
             /\ UNCHANGED responses
    BY <1>5
  <2> DEFINE old == [e EXCEPT !.late = TRUE]
  <2>2. old \in EntryType /\ old.command = e.command
    <3>1. e \in EntryType
      BY <1>1 DEF ByEvent
    <3>2. QED
      BY <3>1 DEF EntryType
  <2>3. responsesList' = (responsesList \ {e}) \cup {old}
    BY <2>1
  <2> HIDE DEF old
  <2>4. \A f \in responsesList' :
          /\ f \in EntryType /\ f.command \in 1..commands
          /\ ~Reported(f.command) /\ idOf[f.command] \notin DOMAIN responses
          /\ \A g \in responsesList' : g.command = f.command => g = f
    BY <1>1, <2>2, <2>3 DEF ByEvent
  <2>5. ByEvent'
    BY <1>2, <1>3, <2>1, <2>4 DEF ByEvent
  <2>6. ById'
    BY <1>1, <1>2, <1>3, <2>1 DEF ById
  <2>7. ByAssistant'
    <3>1. \A n : (\A f \in responsesList : f.command # n) =>
                   (\A f \in responsesList' : f.command # n)
      BY <2>2, <2>3
    <3>2. QED
      BY <1>1, <1>2, <1>3, <2>1, <3>1 DEF ByAssistant
  <2>8. QED
    BY <1>3, <2>5, <2>6, <2>7 DEF HassInv
<1>6. QED
  BY <1>4, <1>5 DEF HomeAssistant!GrowOld

(* A message with the id of a command.                                     *)
LEMMA ResultKeeps ==
  ASSUME HassInv, NEW id, HomeAssistant!ResultReceived(id)
  PROVE  HassInv'
<1> DEFINE entries == {responses[i] : i \in DOMAIN responses \cap {id}}
<1>1. SentFit /\ ById /\ ByEvent /\ ByAssistant /\ SaidFit /\ WireFit
  BY DEF HassInv
<1>2. /\ wire' \subseteq wire /\ hassSaid' = hassSaid \cup HomeAssistant!Announced(entries)
      /\ responses' = [i \in DOMAIN responses \ {id} |-> responses[i]]
      /\ UNCHANGED <<socketId, responsesList, commands, idOf>>
  BY DEF HomeAssistant!ResultReceived, HomeAssistant!Remaining
<1>3. DOMAIN responses' = DOMAIN responses \ {id}
      /\ \A i \in DOMAIN responses' : responses'[i] = responses[i]
  BY <1>2
<1>4. \A e \in entries : /\ e.command \in 1..commands /\ ~Reported(e.command)
                         /\ idOf[e.command] = id /\ id \in DOMAIN responses
  BY <1>1 DEF ById
<1> HIDE DEF entries
<1>5. /\ SentFit' /\ SaidFit'
      /\ \A n : Reported(n)' => Reported(n) \/ \E e \in entries : e.command = n
  BY <1>2, <1>4, OutcomeSaid
<1>6. \A n : Reported(n)' => Reported(n) \/ (idOf[n] = id /\ id \in DOMAIN responses)
  BY <1>4, <1>5
<1>7. ById'
  BY <1>1, <1>2, <1>3, <1>6 DEF ById
<1>8. ByEvent'
  BY <1>1, <1>2, <1>3, <1>6 DEF ByEvent
<1>9. ByAssistant'
  <2>1. \A m \in wire : m.type = "intent-end" =>
          \E n \in 1..commands :
            /\ idOf[n] = m.id /\ ~Reported(n)' /\ m.id \notin DOMAIN responses'
            /\ \A e \in responsesList : e.command # n
    BY <1>1, <1>3, <1>6 DEF ByAssistant
  <2>2. QED
    BY <1>2, <2>1 DEF ByAssistant
<1>10. WireFit'
  BY <1>1, <1>2 DEF WireFit
<1>11. QED
  BY <1>5, <1>7, <1>8, <1>9, <1>10 DEF HassInv

(* The assistant's answer to a command.                                    *)
LEMMA IntentKeeps ==
  ASSUME HassInv, NEW id, HomeAssistant!IntentEnd(id)
  PROVE  HassInv'
<1> DEFINE n == CHOOSE n \in 1..commands : idOf[n] = id
           entries == {HomeAssistant!Entry(n)}
           this == [type |-> "intent-end", id |-> id]
<1>1. SentFit /\ ById /\ ByEvent /\ ByAssistant /\ SaidFit /\ WireFit
  BY DEF HassInv
<1>2. /\ this \in wire /\ wire' = wire \ {this}
      /\ hassSaid' = hassSaid \cup HomeAssistant!Announced(entries)
      /\ UNCHANGED <<socketId, responses, responsesList, commands, idOf>>
  BY DEF HomeAssistant!IntentEnd
<1>3. PICK k \in 1..commands :
        /\ idOf[k] = id /\ ~Reported(k) /\ id \notin DOMAIN responses
        /\ \A e \in responsesList : e.command # k
  <2>1. this.type = "intent-end" /\ this.id = id
    OBVIOUS
  <2> HIDE DEF this
  <2>2. QED
    BY <1>1, <1>2, <2>1 DEF ByAssistant
<1>4. n \in 1..commands /\ idOf[n] = id
  BY <1>3
<1> HIDE DEF n
<1>5. n = k
  BY <1>1, <1>3, <1>4 DEF SentFit
<1>6. \A e \in entries : e.command = n
  BY DEF HomeAssistant!Entry
<1> HIDE DEF entries
<1>7. /\ SentFit' /\ SaidFit'
      /\ \A j : Reported(j)' => Reported(j) \/ \E e \in entries : e.command = j
  BY <1>2, <1>3, <1>5, <1>6, OutcomeSaid
<1>8. \A j : Reported(j)' => Reported(j) \/ j = n
  BY <1>6, <1>7
<1>9. ById'
  <2>1. \A i \in DOMAIN responses : responses[i].command # n
    BY <1>1, <1>3, <1>5 DEF ById
  <2>2. QED
    BY <1>1, <1>2, <1>8, <2>1 DEF ById
<1>10. ByEvent'
  BY <1>1, <1>2, <1>3, <1>5, <1>8 DEF ByEvent
<1>11. ByAssistant'
  <2>1. ASSUME NEW m \in wire', m.type = "intent-end"
        PROVE  \E j \in 1..commands :
                 /\ idOf[j] = m.id /\ ~Reported(j)' /\ m.id \notin DOMAIN responses
                 /\ \A e \in responsesList : e.command # j
    <3>1. m \in wire /\ m # this
      BY <1>2
    <3>2. PICK j \in 1..commands :
            /\ idOf[j] = m.id /\ ~Reported(j) /\ m.id \notin DOMAIN responses
            /\ \A e \in responsesList : e.command # j
      BY <1>1, <2>1, <3>1 DEF ByAssistant
    <3>3. m.id # id
      <4>1. m \in [type : {"result", "intent-end"}, id : Nat]
        BY <1>1, <3>1 DEF WireFit
      <4>2. m.id = id => m = this
        BY <2>1, <4>1
      <4>3. QED
        BY <3>1, <4>2
    <3>4. j # n
      BY <1>4, <3>2, <3>3
    <3>5. QED
      BY <1>8, <3>2, <3>4
  <2>2. QED
    BY <1>2, <2>1 DEF ByAssistant
<1>12. WireFit'
  BY <1>1, <1>2 DEF WireFit
<1>13. QED
  BY <1>7, <1>9, <1>10, <1>11, <1>12 DEF HassInv

(* An event: all that wait for one are done with.                          *)
LEMMA EventKeeps ==
  ASSUME HassInv, HomeAssistant!EventReceived
  PROVE  HassInv'
<1>1. SentFit /\ ById /\ ByEvent /\ ByAssistant /\ SaidFit /\ WireFit
  BY DEF HassInv
<1>2. /\ hassSaid' = hassSaid \cup HomeAssistant!Announced(responsesList)
      /\ responsesList' = {} /\ UNCHANGED <<socketId, responses, wire, commands, idOf>>
  BY DEF HomeAssistant!EventReceived
<1>3. /\ SentFit' /\ SaidFit'
      /\ \A n : Reported(n)' => Reported(n) \/ \E e \in responsesList : e.command = n
  <2>1. \A e \in responsesList : e.command \in 1..commands /\ ~Reported(e.command)
    BY <1>1 DEF ByEvent
  <2>2. QED
    BY <1>2, <2>1, OutcomeSaid
<1>4. ById'
  <2>1. \A i \in DOMAIN responses : \A e \in responsesList : e.command # responses[i].command
    BY <1>1 DEF ById, ByEvent
  <2>2. QED
    BY <1>1, <1>2, <1>3, <2>1 DEF ById
<1>5. ByEvent' /\ WireFit'
  BY <1>1, <1>2 DEF ByEvent, WireFit
<1>6. ByAssistant'
  BY <1>1, <1>2, <1>3 DEF ByAssistant
<1>7. QED
  BY <1>3, <1>4, <1>5, <1>6 DEF HassInv

(* The connection: ids are given, or answers lost.                         *)
LEMMA LinkKeeps ==
  ASSUME HassInv,
         HomeAssistant!AuthRequired \/ HomeAssistant!AuthOk \/ HomeAssistant!Lost
  PROVE  HassInv'
<1>1. SentFit /\ ById /\ ByEvent /\ ByAssistant /\ SaidFit /\ WireFit
  BY DEF HassInv
<1>2. /\ socketId' \in {socketId, socketId + 2} /\ wire' \subseteq wire
      /\ UNCHANGED <<responses, responsesList, commands, idOf, hassSaid>>
  BY DEF HomeAssistant!AuthRequired, HomeAssistant!AuthOk, HomeAssistant!Lost
<1>3. SentFit'
  <2>1. \A n \in 1..commands : n \in 1..MaxCommands
    BY <1>1, PluginsAssumption DEF SentFit
  <2>2. \A n \in 1..commands : idOf[n] < socketId'
    <3>1. \A n \in 1..commands : idOf[n] \in Nat /\ idOf[n] < socketId
      BY <1>1, <2>1 DEF SentFit
    <3>2. QED
      BY <1>1, <1>2, <3>1 DEF SentFit
  <2>3. socketId' \in Nat
    BY <1>1, <1>2 DEF SentFit
  <2>4. QED
    BY <1>1, <1>2, <2>2, <2>3 DEF SentFit
<1>4. \A n : Reported(n)' <=> Reported(n)
  BY <1>2 DEF Reported
<1>5. ById' /\ ByEvent' /\ ByAssistant'
  BY <1>1, <1>2, <1>4 DEF ById, ByEvent, ByAssistant
<1>6. SaidFit' /\ WireFit'
  BY <1>1, <1>2 DEF SaidFit, WireFit
<1>7. QED
  BY <1>3, <1>5, <1>6 DEF HassInv

(* Each step of the plugin keeps the invariant, and so does the rest.      *)
LEMMA HassKept ==
  ASSUME HassInv, HomeAssistant!Next
  PROVE  HassInv'
<1>1. CASE HomeAssistant!AuthRequired \/ HomeAssistant!AuthOk \/ HomeAssistant!Lost
  BY <1>1, LinkKeeps
<1>2. CASE \E service \in HomeAssistant!Service, id \in {0, 1} :
             HomeAssistant!ExecuteService(service, id)
  BY <1>2, ExecuteKeeps
<1>3. CASE HomeAssistant!GrowOld
  BY <1>3, GrowOldKeeps
<1>4. CASE \E id : HomeAssistant!ResultReceived(id) \/ HomeAssistant!IntentEnd(id)
  BY <1>4, ResultKeeps, IntentKeeps
<1>5. CASE HomeAssistant!EventReceived
  BY <1>5, EventKeeps
<1>6. QED
  BY <1>1, <1>2, <1>3, <1>4, <1>5 DEF HomeAssistant!Next

(* Other steps of the run leave it alone.                                  *)
LEMMA HassStutters ==
  ASSUME HassInv, UNCHANGED hassVars
  PROVE  HassInv'
<1>1. UNCHANGED <<socketId, responses, responsesList, wire, commands, idOf, hassSaid>>
  BY DEF hassVars
<1>2. SentFit' /\ WireFit' /\ SaidFit' /\ \A n : Reported(n)' <=> Reported(n)
  BY <1>1 DEF HassInv, SentFit, WireFit, SaidFit, Reported
<1>3. ById' /\ ByEvent' /\ ByAssistant'
  BY <1>1, <1>2 DEF HassInv, ById, ByEvent, ByAssistant
<1>4. QED
  BY <1>2, <1>3 DEF HassInv

(* What the run checks of it follows.                                      *)
LEMMA HassIsSound == HassInv => HomeAssistant!HassSound
  BY DEF HassInv, SaidFit, ById, HomeAssistant!HassSound, HomeAssistant!SaidOnce,
         HomeAssistant!AwaitedAsSent

-----------------------------------------------------------------------------
(* The songs of the music plugin.                                          *)

Distinct(S) == \A i, j \in 1..Len(S) : S[i] = S[j] => i = j
Apart(P, R) == \A i \in 1..Len(P), j \in 1..Len(R) : P[i] # R[j]
UpTo(S, n) == \A i \in 1..Len(S) : S[i] <= n
NoneOf(n, S) == \A i \in 1..Len(S) : S[i] # n

(* Songs given to the player and songs that wait: of those found, each     *)
(* once.                                                                   *)
SongsFit(P, R, n) ==
  /\ P \in Seq(Nat) /\ R \in Seq(Nat) /\ n \in Nat
  /\ UpTo(P, n) /\ UpTo(R, n)
  /\ Distinct(P) /\ Distinct(R) /\ Apart(P, R)
  /\ Len(P) + Len(R) <= n

(* A new song is given to the player.                                      *)
LEMMA SongAdded ==
  ASSUME NEW P, NEW R, NEW n, SongsFit(P, R, n), NEW m \in Nat, m <= n,
         NoneOf(m, P), NoneOf(m, R), Len(P) + Len(R) < n
  PROVE  LET Q == Append(P, m)
         IN  /\ SongsFit(Q, R, n) /\ Len(Q) = Len(P) + 1 /\ Q[Len(P) + 1] = m
             /\ \A i \in 1..Len(P) : Q[i] = P[i]
<1> DEFINE Q == Append(P, m)
           l == Len(P)
<1>1. /\ P \in Seq(Nat) /\ R \in Seq(Nat) /\ n \in Nat /\ l \in Nat /\ Len(R) \in Nat
      /\ UpTo(P, n) /\ UpTo(R, n) /\ Distinct(P) /\ Distinct(R) /\ Apart(P, R)
  BY DEF SongsFit
<1>2. /\ Q \in Seq(Nat) /\ Len(Q) = l + 1 /\ Q[l + 1] = m /\ \A i \in 1..l : Q[i] = P[i]
  BY <1>1, AppendProperties
<1>3. \A i \in 1..l + 1 : i \in 1..l \/ i = l + 1
  BY <1>1
<1> HIDE DEF Q, l
<1>4. UpTo(Q, n)
  BY <1>1, <1>2, <1>3 DEF UpTo, l
<1>5. Distinct(Q)
  BY <1>1, <1>2, <1>3 DEF Distinct, NoneOf, l
<1>6. Apart(Q, R)
  BY <1>1, <1>2, <1>3 DEF Apart, NoneOf, l
<1>7. Len(Q) + Len(R) <= n
  BY <1>1, <1>2 DEF l
<1>8. SongsFit(Q, R, n)
  BY <1>1, <1>2, <1>4, <1>5, <1>6, <1>7 DEF SongsFit
<1>9. QED
  BY <1>2, <1>8 DEF Q, l

(* The songs after some of a search are kept for later.                    *)
LEMMA SongsKept ==
  ASSUME NEW P, NEW R, NEW n, SongsFit(P, R, n), NEW S \in Seq(Nat), NEW k \in Nat, k >= 1,
         k <= Len(S) + 1, Distinct(S), UpTo(S, n),
         \A i \in k..Len(S) : NoneOf(S[i], P) /\ NoneOf(S[i], R),
         Len(P) + Len(R) + (Len(S) - k + 1) <= n
  PROVE  SongsFit(P, R \o SubSeq(S, k, Len(S)), n)
<1> DEFINE rest == SubSeq(S, k, Len(S))
           Q == R \o rest
           l == Len(R)
<1>1. /\ P \in Seq(Nat) /\ R \in Seq(Nat) /\ n \in Nat /\ l \in Nat /\ Len(P) \in Nat
      /\ UpTo(P, n) /\ UpTo(R, n) /\ Distinct(P) /\ Distinct(R) /\ Apart(P, R) /\ Len(S) \in Nat
  BY DEF SongsFit
<1>2. /\ rest \in Seq(Nat) /\ Len(rest) = Len(S) - k + 1
      /\ \A i \in 1..Len(rest) : i + k - 1 \in k..Len(S) /\ rest[i] = S[i + k - 1]
  <2> DEFINE m == Len(S)
  <2>1. \A i \in k..m : S[i] \in Nat
    BY <1>1
  <2>2. m \in Int /\ k \in Int
    BY <1>1
  <2> HIDE DEF m
  <2>3. /\ SubSeq(S, k, m) \in Seq(Nat)
        /\ Len(SubSeq(S, k, m)) = IF k <= m THEN m - k + 1 ELSE 0
        /\ \A i \in 1..m - k + 1 : SubSeq(S, k, m)[i] = S[k + i - 1]
    BY <2>1, <2>2, SubSeqProperties
  <2>4. Len(SubSeq(S, k, m)) = m - k + 1
    BY <2>2, <2>3 DEF m
  <2>5. \A i \in 1..m - k + 1 : k + i - 1 = i + k - 1 /\ i + k - 1 \in k..m
    BY <2>2
  <2>6. QED
    BY <2>3, <2>4, <2>5 DEF m
<1> HIDE DEF rest
<1>3. /\ Q \in Seq(Nat) /\ Len(Q) = l + Len(rest)
      /\ \A i \in 1..l + Len(rest) : Q[i] = IF i <= l THEN R[i] ELSE rest[i - l]
  BY <1>1, <1>2, ConcatProperties
<1> HIDE DEF Q
<1>4. \A i \in 1..Len(Q) : \/ i \in 1..l /\ Q[i] = R[i]
                           \/ i - l \in 1..Len(rest) /\ Q[i] = rest[i - l]
  <2>1. l \in Nat /\ Len(rest) \in Nat
    BY <1>1, <1>2, LenProperties
  <2> DEFINE r == Len(rest)
  <2> HIDE DEF l, r
  <2>2. \A i \in 1..l + r : i \in 1..l \/ (~(i <= l) /\ i - l \in 1..r)
    BY <2>1 DEF r
  <2>3. \A i \in 1..l : i <= l
    BY <2>1
  <2>4. \A i \in 1..l + r : Q[i] = IF i <= l THEN R[i] ELSE rest[i - l]
    BY <1>3 DEF r
  <2>5. \A i \in 1..l + r : \/ i \in 1..l /\ Q[i] = R[i]
                            \/ i - l \in 1..r /\ Q[i] = rest[i - l]
    BY <2>2, <2>3, <2>4
  <2>6. QED
    BY <1>3, <2>5 DEF r
<1> HIDE DEF l
<1>5. \A i \in 1..Len(rest) : /\ rest[i] <= n /\ NoneOf(rest[i], P) /\ NoneOf(rest[i], R)
  <2>1. \A i \in k..Len(S) : i \in 1..Len(S)
    BY <1>1
  <2>2. QED
    BY <1>2, <2>1 DEF UpTo
<1>6. Distinct(rest)
  <2>1. SUFFICES ASSUME NEW i \in 1..Len(rest), NEW j \in 1..Len(rest), rest[i] = rest[j]
                 PROVE  i = j
    BY DEF Distinct
  <2>2. /\ i + k - 1 \in 1..Len(S) /\ j + k - 1 \in 1..Len(S)
        /\ S[i + k - 1] = S[j + k - 1]
    <3>1. k..Len(S) \subseteq 1..Len(S)
      BY <1>1
    <3>2. i + k - 1 \in k..Len(S) /\ j + k - 1 \in k..Len(S)
      BY <1>2
    <3>3. rest[i] = S[i + k - 1] /\ rest[j] = S[j + k - 1]
      BY <1>2
    <3>4. QED
      BY <2>1, <3>1, <3>2, <3>3
  <2>3. i + k - 1 = j + k - 1
    BY <2>2 DEF Distinct
  <2>4. QED
    BY <2>3
<1>7. UpTo(Q, n)
  BY <1>1, <1>4, <1>5 DEF UpTo, l
<1>8. Distinct(Q)
  <2>1. SUFFICES ASSUME NEW i \in 1..Len(Q), NEW j \in 1..Len(Q), Q[i] = Q[j]
                 PROVE  i = j
    BY DEF Distinct
  <2>2. CASE i \in 1..l /\ Q[i] = R[i]
    <3>1. j \in 1..l /\ Q[j] = R[j]
      BY <1>4, <1>5, <2>1, <2>2 DEF NoneOf, l
    <3>2. QED
      BY <1>1, <2>1, <2>2, <3>1 DEF Distinct, l
  <2>3. CASE i - l \in 1..Len(rest) /\ Q[i] = rest[i - l]
    <3>1. j - l \in 1..Len(rest) /\ Q[j] = rest[j - l]
      BY <1>4, <1>5, <2>1, <2>3 DEF NoneOf, l
    <3>2. i - l = j - l
      BY <1>6, <2>1, <2>3, <3>1 DEF Distinct
    <3>3. QED
      BY <1>1, <3>2
  <2>4. QED
    BY <1>4, <2>2, <2>3
<1>9. Apart(P, Q)
  BY <1>1, <1>4, <1>5 DEF Apart, NoneOf, l
<1>10. Len(P) + Len(Q) <= n
  BY <1>1, <1>2, <1>3 DEF l
<1>11. QED
  BY <1>1, <1>3, <1>7, <1>8, <1>9, <1>10 DEF SongsFit, Q, rest

(* The first song that waits is given to the player, or left out.          *)
LEMMA SongRefilled ==
  ASSUME NEW P, NEW R, NEW n, SongsFit(P, R, n), R # <<>>
  PROVE  /\ SongsFit(P, Tail(R), n) /\ Len(Tail(R)) = Len(R) - 1
         /\ SongsFit(Append(P, Head(R)), Tail(R), n)
         /\ Len(Append(P, Head(R))) = Len(P) + 1
         /\ \A i \in 1..Len(P) : Append(P, Head(R))[i] = P[i]
<1> DEFINE T == Tail(R)
           m == Head(R)
<1>1. /\ P \in Seq(Nat) /\ R \in Seq(Nat) /\ n \in Nat /\ Len(R) \in Nat /\ Len(P) \in Nat
      /\ UpTo(P, n) /\ UpTo(R, n) /\ Distinct(P) /\ Distinct(R) /\ Apart(P, R)
      /\ Len(P) + Len(R) <= n
  BY DEF SongsFit
<1>2. Len(R) >= 1
  BY <1>1, EmptySeq
<1>3. /\ m \in Nat /\ m = R[1] /\ T \in Seq(Nat) /\ Len(T) = Len(R) - 1
      /\ \A i \in 1..Len(T) : T[i] = R[i + 1]
  BY <1>1, HeadTailProperties
<1> HIDE DEF T, m
<1>4. \A i \in 1..Len(T) : i + 1 \in 1..Len(R) /\ T[i] = R[i + 1]
  BY <1>1, <1>3
<1>5. 1 \in 1..Len(R)
  BY <1>1, <1>2
<1>6. /\ UpTo(T, n) /\ Apart(P, T) /\ m <= n /\ NoneOf(m, P)
  BY <1>1, <1>3, <1>4, <1>5 DEF UpTo, Apart, NoneOf
<1>7. Distinct(T)
  <2>1. SUFFICES ASSUME NEW i \in 1..Len(T), NEW j \in 1..Len(T), T[i] = T[j]
                 PROVE  i = j
    BY DEF Distinct
  <2>2. i + 1 = j + 1
    BY <1>1, <1>4, <2>1 DEF Distinct
  <2>3. QED
    BY <2>2
<1>8. NoneOf(m, T)
  <2>1. SUFFICES ASSUME NEW i \in 1..Len(T), T[i] = m
                 PROVE  FALSE
    BY DEF NoneOf
  <2>2. i + 1 = 1
    BY <1>1, <1>3, <1>4, <1>5, <2>1 DEF Distinct
  <2>3. QED
    BY <2>2
<1>9. Len(P) + Len(T) < n
  BY <1>1, <1>2, <1>3
<1>10. SongsFit(P, T, n)
  BY <1>1, <1>3, <1>6, <1>7, <1>9 DEF SongsFit
<1>11. LET Q == Append(P, m)
       IN  /\ SongsFit(Q, T, n) /\ Len(Q) = Len(P) + 1
           /\ \A i \in 1..Len(P) : Q[i] = P[i]
  BY <1>3, <1>6, <1>8, <1>9, <1>10, SongAdded
<1>12. QED
  BY <1>3, <1>10, <1>11 DEF T, m

(* With songs that wait dropped, or more found, it still fits.             *)
LEMMA SongsStillFit ==
  ASSUME NEW P, NEW R, NEW n, SongsFit(P, R, n), NEW more \in Nat
  PROVE  SongsFit(P, <<>>, n) /\ SongsFit(P, R, n + more)
<1>1. /\ P \in Seq(Nat) /\ R \in Seq(Nat) /\ n \in Nat /\ Len(R) \in Nat /\ Len(P) \in Nat
      /\ UpTo(P, n) /\ UpTo(R, n) /\ Distinct(P) /\ Distinct(R) /\ Apart(P, R)
      /\ Len(P) + Len(R) <= n
  BY DEF SongsFit
<1>2. /\ <<>> \in Seq(Nat) /\ Len(<<>>) = 0
  BY EmptySeq
<1>3. UpTo(<<>>, n) /\ Distinct(<<>>) /\ Apart(P, <<>>)
  BY <1>2 DEF UpTo, Distinct, Apart
<1>4. Len(P) + Len(<<>>) <= n
  BY <1>1, <1>2
<1>5. SongsFit(P, <<>>, n)
  BY <1>1, <1>2, <1>3, <1>4 DEF SongsFit
<1>6. UpTo(P, n + more) /\ UpTo(R, n + more)
  <2>1. \A i \in 1..Len(P) : P[i] \in Nat
    BY <1>1, ElementOfSeq
  <2>2. \A i \in 1..Len(R) : R[i] \in Nat
    BY <1>1, ElementOfSeq
  <2>3. QED
    BY <1>1, <2>1, <2>2 DEF UpTo
<1>7. n + more \in Nat /\ Len(P) + Len(R) <= n + more
  BY <1>1
<1>8. SongsFit(P, R, n + more)
  BY <1>1, <1>6, <1>7 DEF SongsFit
<1>9. QED
  BY <1>5, <1>8

(* What the run checks of it follows.                                      *)
LEMMA SongsAreDistinct ==
  ASSUME NEW P, NEW R, NEW n, SongsFit(P, R, n)
  PROVE  Music!IsInjective(P \o R)
<1> DEFINE Q == P \o R
           l == Len(P)
<1>1. /\ P \in Seq(Nat) /\ R \in Seq(Nat) /\ Len(R) \in Nat /\ l \in Nat
      /\ Distinct(P) /\ Distinct(R) /\ Apart(P, R)
  BY DEF SongsFit
<1>2. /\ Q \in Seq(Nat) /\ Len(Q) = l + Len(R) /\ DOMAIN Q = 1..Len(Q)
      /\ \A i \in 1..l + Len(R) : Q[i] = IF i <= l THEN P[i] ELSE R[i - l]
  BY <1>1, ConcatProperties
<1> HIDE DEF Q
<1>3. \A i \in 1..Len(Q) : \/ i \in 1..l /\ Q[i] = P[i]
                           \/ i - l \in 1..Len(R) /\ Q[i] = R[i - l]
  BY <1>1, <1>2
<1> HIDE DEF l
<1>4. SUFFICES ASSUME NEW i \in 1..Len(Q), NEW j \in 1..Len(Q), Q[i] = Q[j]
               PROVE  i = j
  BY <1>2 DEF Music!IsInjective, Q
<1>5. CASE i \in 1..l /\ Q[i] = P[i]
  <2>1. j \in 1..l /\ Q[j] = P[j]
    BY <1>1, <1>3, <1>4, <1>5 DEF Apart, l
  <2>2. QED
    BY <1>1, <1>4, <1>5, <2>1 DEF Distinct, l
<1>6. CASE i - l \in 1..Len(R) /\ Q[i] = R[i - l]
  <2>1. j - l \in 1..Len(R) /\ Q[j] = R[j - l]
    BY <1>1, <1>3, <1>4, <1>6 DEF Apart, l
  <2>2. i - l = j - l
    BY <1>1, <1>4, <1>6, <2>1 DEF Distinct
  <2>3. QED
    BY <1>1, <2>2
<1>7. QED
  BY <1>3, <1>5, <1>6

ParseType == [at : {"parse"}, songs : Seq(Nat), i : Nat, currentNumber : Nat,
              wasPlaying : BOOLEAN, parseSuccess : BOOLEAN]
RefillType == [at : {"refill"}, spoilt : BOOLEAN, left : Nat]
OfSearch(x) == {x.songs[k] : k \in 1..Len(x.songs)}

(* A search whose songs get their addresses: the ones to come are new, and *)
(* the first that was added is where the player is told to jump to.        *)
ParseFit(x) ==
  /\ x \in ParseType /\ x.i >= 1 /\ x.i <= Len(x.songs)
  /\ Distinct(x.songs) /\ UpTo(x.songs, found)
  /\ \A k \in x.i..Len(x.songs) : NoneOf(x.songs[k], playlist) /\ NoneOf(x.songs[k], readyMusic)
  /\ Len(playlist) + Len(readyMusic) + (Len(x.songs) - x.i + 1) <= found
  /\ x.currentNumber <= Len(playlist)
  /\ x.parseSuccess => /\ x.currentNumber + 1 <= Len(playlist)
                       /\ playlist[x.currentNumber + 1] \in OfSearch(x)
  /\ ~x.parseSuccess => x.currentNumber = Len(playlist)

(* A refill: there are songs left for it.                                  *)
RefillFit(x) == x \in RefillType /\ readyMusic # <<>> /\ x.left <= Len(readyMusic)

JumpsFit == \A j \in jumped : j.to \in 1..Len(playlist) /\ playlist[j.to] \in j.own

(* As long as calls do not overlap, there is one at most.                  *)
MusicInv ==
  ~nestedCall =>
    /\ SongsFit(playlist, readyMusic, found) /\ isPlaying \in BOOLEAN /\ JumpsFit
    /\ \/ steps = <<>>
       \/ \E x : steps = <<x>> /\ (x = [at |-> "search"] \/ ParseFit(x) \/ RefillFit(x))

(* At first there are no songs.                                            *)
LEMMA MusicAtFirst == Music!Init => MusicInv
<1> SUFFICES ASSUME Music!Init PROVE MusicInv
  OBVIOUS
<1>1. /\ steps = <<>> /\ readyMusic = <<>> /\ playlist = <<>> /\ isPlaying = FALSE
      /\ jumped = {} /\ found = 0
  BY DEF Music!Init
<1>2. <<>> \in Seq(Nat) /\ Len(<<>>) = 0
  BY EmptySeq
<1>3. SongsFit(<<>>, <<>>, 0)
  BY <1>2 DEF SongsFit, UpTo, Distinct, Apart
<1>4. QED
  BY <1>1, <1>3 DEF MusicInv, JumpsFit

(* The only call that waits, and those that wait outside of it.            *)
LEMMA OnlyStep ==
  ASSUME NEW x, steps = <<x>>
  PROVE  Music!Step = x /\ Music!Outer = <<>>
<1>1. Len(<<x>>) = 1 /\ <<x>>[1] = x
  OBVIOUS
<1>2. SubSeq(<<x>>, 1, 0) = <<>>
  BY SubSeqEmpty
<1>3. QED
  BY <1>1, <1>2 DEF Music!Step, Music!Outer, Music!Last, Music!Front

(* With no calls outside nothing is spoilt.                                *)
LEMMA NothingSpoilt ==
  /\ Music!Spoil(<<>>) = <<>>
  /\ \A x : Append(<<>>, x) = <<x>>
  BY DEF Music!Spoil

(* What waits, while calls do not overlap.                                 *)
LEMMA WaitsFor ==
  ASSUME MusicInv, ~nestedCall, NEW place, Music!Waits(place)
  PROVE  \E x : /\ steps = <<x>> /\ x.at = place
                /\ x = [at |-> "search"] \/ ParseFit(x) \/ RefillFit(x)
<1>1. steps # <<>> /\ Music!Step.at = place
  BY DEF Music!Waits
<1>2. PICK x : steps = <<x>> /\ (x = [at |-> "search"] \/ ParseFit(x) \/ RefillFit(x))
  BY <1>1 DEF MusicInv
<1>3. x.at = place
  BY <1>1, <1>2, OnlyStep
<1>4. QED
  BY <1>2, <1>3

(* A search begins, also one that drops the songs that wait.               *)
LEMMA SearchKeeps ==
  ASSUME MusicInv, NEW default \in BOOLEAN, Music!Search(default)
  PROVE  MusicInv'
<1> SUFFICES ASSUME ~nestedCall'
             PROVE  /\ SongsFit(playlist', readyMusic', found') /\ isPlaying' \in BOOLEAN
                    /\ JumpsFit'
                    /\ \E x : steps' = <<x>> /\ x = [at |-> "search"]
  BY DEF MusicInv
<1>1. /\ ~nestedCall /\ steps = <<>> /\ UNCHANGED <<playlist, isPlaying, jumped, found>>
      /\ readyMusic' \in {<<>>, readyMusic}
      /\ steps' = Append(IF default THEN Music!Spoil(steps) ELSE steps, [at |-> "search"])
  BY DEF Music!Search
<1>2. SongsFit(playlist, readyMusic, found) /\ isPlaying \in BOOLEAN /\ JumpsFit
  BY <1>1 DEF MusicInv
<1>3. SongsFit(playlist', readyMusic', found')
  BY <1>1, <1>2, SongsStillFit
<1>4. steps' = <<[at |-> "search"]>>
  BY <1>1, NothingSpoilt
<1>5. JumpsFit'
  BY <1>1, <1>2 DEF JumpsFit
<1>6. QED
  BY <1>1, <1>2, <1>3, <1>4, <1>5

(* A search has found songs, which are new.                                *)
LEMMA SearchAnsweredKeeps ==
  ASSUME MusicInv, NEW number \in 0..MaxFound, Music!SearchAnswered(number)
  PROVE  MusicInv'
<1> SUFFICES ASSUME ~nestedCall'
             PROVE  /\ SongsFit(playlist', readyMusic', found') /\ isPlaying' \in BOOLEAN
                    /\ JumpsFit'
                    /\ \/ steps' = <<>>
                       \/ \E x : steps' = <<x>> /\ ParseFit(x)'
  BY DEF MusicInv
<1> DEFINE songs == [i \in 1..number |-> found + i]
           c == [at |-> "parse", songs |-> songs, i |-> 1, currentNumber |-> Len(playlist),
                 wasPlaying |-> isPlaying, parseSuccess |-> FALSE]
<1>1. /\ ~nestedCall /\ Music!Waits("search") /\ found' = found + number
      /\ IF number = 0 THEN steps' = Music!Outer ELSE Music!Go(c)
      /\ UNCHANGED <<readyMusic, playlist, isPlaying, jumped>>
  BY DEF Music!SearchAnswered
<1>2. SongsFit(playlist, readyMusic, found) /\ isPlaying \in BOOLEAN /\ JumpsFit
  BY <1>1 DEF MusicInv
<1>3. number \in Nat /\ found \in Nat
  BY <1>2, PluginsAssumption DEF SongsFit
<1>4. PICK x : steps = <<x>>
  BY <1>1, WaitsFor
<1>5. SongsFit(playlist', readyMusic', found')
  BY <1>1, <1>2, <1>3, SongsStillFit
<1>6. JumpsFit'
  BY <1>1, <1>2 DEF JumpsFit
<1>7. CASE number = 0
  BY <1>1, <1>2, <1>4, <1>5, <1>6, <1>7, OnlyStep
<1>8. CASE number # 0
  <2>1. steps' = <<c>>
    BY <1>1, <1>4, <1>8, OnlyStep, NothingSpoilt DEF Music!Go
  <2>2. /\ songs \in Seq(Nat) /\ Len(songs) = number
        /\ \A i \in 1..number : songs[i] = found + i /\ songs[i] \in Nat
    <3>1. \A i \in 1..number : found + i \in Nat
      BY <1>3
    <3>2. songs \in [1..number -> Nat]
      BY <3>1
    <3>3. DOMAIN songs = 1..number /\ songs \in Seq(Nat)
      BY <1>3, <3>2
    <3>4. Len(songs) = number
      BY <1>3, <3>3, LenProperties
    <3>5. QED
      BY <3>1, <3>3, <3>4
  <2>3. Len(playlist) \in Nat /\ Len(readyMusic) \in Nat /\ Len(playlist) + Len(readyMusic) <= found
    BY <1>2 DEF SongsFit
  <2> HIDE DEF songs
  <2>4. c \in ParseType
    BY <1>2, <2>2, <2>3 DEF ParseType
  <2>5. /\ c.songs = songs /\ c.i = 1 /\ c.currentNumber = Len(playlist)
        /\ c.parseSuccess = FALSE
    OBVIOUS
  <2> HIDE DEF c
  <2>6. Distinct(songs) /\ UpTo(songs, found + number)
    <3>1. \A i, j \in 1..number : found + i = found + j => i = j
      BY <1>3
    <3>2. \A i \in 1..number : found + i <= found + number
      BY <1>3
    <3>3. QED
      BY <2>2, <3>1, <3>2 DEF Distinct, UpTo
  <2>7. \A k \in 1..number : NoneOf(songs[k], playlist) /\ NoneOf(songs[k], readyMusic)
    <3>1. \A i \in 1..Len(playlist) : playlist[i] \in Nat /\ playlist[i] <= found
      BY <1>2, ElementOfSeq DEF SongsFit, UpTo
    <3>2. \A i \in 1..Len(readyMusic) : readyMusic[i] \in Nat /\ readyMusic[i] <= found
      BY <1>2, ElementOfSeq DEF SongsFit, UpTo
    <3>3. ASSUME NEW k \in 1..number
          PROVE  NoneOf(songs[k], playlist) /\ NoneOf(songs[k], readyMusic)
      <4>1. songs[k] = found + k
        BY <2>2
      <4>2. \A m \in Nat : m <= found => m # found + k
        BY <1>3
      <4>3. QED
        BY <3>1, <3>2, <4>1, <4>2 DEF NoneOf
    <3>4. QED
      BY <3>3
  <2>8. Len(playlist) + Len(readyMusic) + (number - 1 + 1) <= found + number
    BY <1>3, <2>3
  <2>9. PICK y : y = c
    OBVIOUS
  <2>10. ParseFit(y)'
    <3>1. /\ y.songs = songs /\ y.i = 1 /\ y.currentNumber = Len(playlist)
          /\ y.parseSuccess = FALSE /\ y \in ParseType
      BY <2>4, <2>5, <2>9
    <3>2. playlist' = playlist /\ readyMusic' = readyMusic /\ found' = found + number
      BY <1>1
    <3>3. 1 <= Len(songs)
      BY <1>3, <1>8, <2>2
    <3>4. SUFFICES /\ y \in ParseType /\ y.i >= 1 /\ y.i <= Len(y.songs)
                   /\ Distinct(y.songs) /\ UpTo(y.songs, found')
                   /\ \A k \in y.i..Len(y.songs) :
                        NoneOf(y.songs[k], playlist') /\ NoneOf(y.songs[k], readyMusic')
                   /\ Len(playlist') + Len(readyMusic') + (Len(y.songs) - y.i + 1) <= found'
                   /\ y.currentNumber <= Len(playlist')
                   /\ ~y.parseSuccess /\ y.currentNumber = Len(playlist')
      BY DEF ParseFit
    <3>5. \A k \in y.i..Len(y.songs) :
            NoneOf(y.songs[k], playlist') /\ NoneOf(y.songs[k], readyMusic')
      BY <2>2, <2>7, <3>1, <3>2
    <3>6. Len(playlist') + Len(readyMusic') + (Len(y.songs) - y.i + 1) <= found'
      BY <2>2, <2>8, <3>1, <3>2
    <3>7. Len(playlist) <= Len(playlist)
      BY <2>3
    <3>8. QED
      BY <2>6, <3>1, <3>2, <3>3, <3>5, <3>6, <3>7
  <2>11. QED
    BY <1>1, <1>2, <1>5, <1>6, <2>1, <2>9, <2>10
<1>9. QED
  BY <1>7, <1>8

(* The player has played what it has: the songs that wait, or a search.    *)
LEMMA PlayEndKeeps ==
  ASSUME MusicInv, Music!PlayEnd
  PROVE  MusicInv'
<1> SUFFICES ASSUME ~nestedCall'
             PROVE  /\ SongsFit(playlist', readyMusic', found') /\ isPlaying' \in BOOLEAN
                    /\ JumpsFit'
                    /\ \E x : steps' = <<x>> /\ (x = [at |-> "search"] \/ RefillFit(x)')
  BY DEF MusicInv
<1> DEFINE c == [at |-> "refill", spoilt |-> FALSE,
                 left |-> IF Len(readyMusic) >= Batch THEN Batch ELSE Len(readyMusic)]
<1>1. /\ ~nestedCall /\ steps = <<>> /\ isPlaying' = FALSE
      /\ IF readyMusic = <<>> THEN Music!Call([at |-> "search"]) ELSE Music!Call(c)
      /\ UNCHANGED <<readyMusic, playlist, jumped, found>>
  BY DEF Music!PlayEnd
<1>2. SongsFit(playlist, readyMusic, found) /\ JumpsFit
  BY <1>1 DEF MusicInv
<1>3. JumpsFit'
  BY <1>1, <1>2 DEF JumpsFit
<1>4. CASE readyMusic = <<>>
  <2>1. steps' = <<[at |-> "search"]>>
    BY <1>1, <1>4, NothingSpoilt DEF Music!Call
  <2>2. QED
    BY <1>1, <1>2, <1>3, <2>1
<1>5. CASE readyMusic # <<>>
  <2>1. steps' = <<c>>
    BY <1>1, <1>5, NothingSpoilt DEF Music!Call
  <2>2. Len(readyMusic) \in Nat
    BY <1>2 DEF SongsFit
  <2>3. c \in RefillType /\ c.left <= Len(readyMusic)
    BY <2>2, PluginsAssumption DEF RefillType
  <2> HIDE DEF c
  <2>4. PICK y : y = c
    OBVIOUS
  <2>5. RefillFit(y)'
    BY <1>1, <1>5, <2>3, <2>4 DEF RefillFit
  <2>6. QED
    BY <1>1, <1>2, <1>3, <2>1, <2>4, <2>5
<1>6. QED
  BY <1>4, <1>5

(* A song that waited is given to the player, or has no address.           *)
LEMMA RefilledKeeps ==
  ASSUME MusicInv, NEW url \in BOOLEAN, Music!RefilledSong(url)
  PROVE  MusicInv'
<1> SUFFICES ASSUME ~nestedCall'
             PROVE  /\ SongsFit(playlist', readyMusic', found') /\ isPlaying' \in BOOLEAN
                    /\ JumpsFit'
                    /\ \/ steps' = <<>>
                       \/ \E x : /\ steps' = <<x>>
                                 /\ x = [at |-> "search"] \/ ParseFit(x)' \/ RefillFit(x)'
  BY DEF MusicInv
<1>1. /\ ~nestedCall /\ Music!Waits("refill") /\ UNCHANGED <<jumped, found>>
  BY DEF Music!RefilledSong
<1>2. SongsFit(playlist, readyMusic, found) /\ isPlaying \in BOOLEAN /\ JumpsFit
  BY <1>1 DEF MusicInv
<1>3. PICK x : steps = <<x>> /\ RefillFit(x)
  BY <1>1, WaitsFor DEF ParseFit, ParseType
<1>4. Music!Step = x /\ Music!Outer = <<>>
  BY <1>3, OnlyStep
<1>5. CASE x.spoilt
  <2>1. UNCHANGED <<steps, readyMusic, playlist, isPlaying>>
    BY <1>4, <1>5 DEF Music!RefilledSong
  <2>2. JumpsFit' /\ RefillFit(x)'
    BY <1>1, <1>2, <1>3, <2>1 DEF JumpsFit, RefillFit
  <2>3. QED
    BY <1>1, <1>2, <1>3, <2>1, <2>2
<1>6. CASE ~x.spoilt
  <2> DEFINE c == [x EXCEPT !.left = x.left - 1]
  <2>1. /\ playlist' = IF url THEN Append(playlist, Head(readyMusic)) ELSE playlist
        /\ isPlaying' = (isPlaying \/ url)
        /\ readyMusic' = Tail(readyMusic)
        /\ steps' = IF x.left > 1 THEN Append(Music!Spoil(<<>>), c) ELSE Music!Spoil(<<>>)
    BY <1>4, <1>6 DEF Music!RefilledSong, Music!Erased
  <2>2. readyMusic # <<>> /\ x \in RefillType /\ x.left <= Len(readyMusic)
    BY <1>3 DEF RefillFit
  <2>3. SongsFit(playlist', readyMusic', found') /\ Len(readyMusic') = Len(readyMusic) - 1
        /\ Len(playlist') >= Len(playlist) /\ \A i \in 1..Len(playlist) : playlist'[i] = playlist[i]
    <3>1. /\ SongsFit(playlist, Tail(readyMusic), found)
          /\ Len(Tail(readyMusic)) = Len(readyMusic) - 1
          /\ SongsFit(Append(playlist, Head(readyMusic)), Tail(readyMusic), found)
          /\ Len(Append(playlist, Head(readyMusic))) = Len(playlist) + 1
          /\ \A i \in 1..Len(playlist) : Append(playlist, Head(readyMusic))[i] = playlist[i]
      BY <1>2, <2>2, SongRefilled
    <3>2. Len(playlist) \in Nat
      BY <1>2 DEF SongsFit
    <3>3. CASE url
      <4>1. playlist' = Append(playlist, Head(readyMusic))
        BY <2>1, <3>3
      <4>2. QED
        BY <1>1, <2>1, <3>1, <3>2, <4>1
    <3>4. CASE ~url
      <4>1. playlist' = playlist
        BY <2>1, <3>4
      <4>2. QED
        BY <1>1, <2>1, <3>1, <3>2, <4>1
    <3>5. QED
      BY <3>3, <3>4
  <2>4. JumpsFit'
    <3>1. \A k \in 1..Len(playlist) : k \in 1..Len(playlist') /\ playlist'[k] = playlist[k]
      BY <1>2, <2>3 DEF SongsFit
    <3>2. QED
      BY <1>1, <1>2, <3>1 DEF JumpsFit
  <2>5. isPlaying' \in BOOLEAN
    BY <2>1
  <2>6. CASE x.left > 1
    <3>1. steps' = <<c>>
      BY <2>1, <2>6, NothingSpoilt
    <3>2. c \in RefillType /\ c.left = x.left - 1
      BY <2>2, <2>6 DEF RefillType
    <3> HIDE DEF c
    <3>3. c.left <= Len(readyMusic') /\ readyMusic' # <<>>
      <4>1. x.left \in Nat /\ Len(readyMusic) \in Nat /\ Len(readyMusic') \in Nat
        BY <1>2, <2>2, <2>3 DEF RefillType, SongsFit
      <4>2. c.left <= Len(readyMusic') /\ Len(readyMusic') # 0
        BY <2>2, <2>3, <2>6, <3>2, <4>1
      <4>3. QED
        BY <4>2, EmptySeq
    <3>4. RefillFit(c)'
      BY <3>2, <3>3 DEF RefillFit
    <3>5. QED
      BY <2>3, <2>4, <2>5, <3>1, <3>4
  <2>7. CASE ~(x.left > 1)
    BY <2>1, <2>3, <2>4, <2>5, <2>7, NothingSpoilt
  <2>8. QED
    BY <2>6, <2>7
<1>7. QED
  BY <1>5, <1>6

(* The next song of a search has its address or has none; after the first  *)
(* few the rest is kept, and the player may jump to what was added.        *)
LEMMA ParsedKeeps ==
  ASSUME MusicInv, NEW url \in BOOLEAN, Music!ParsedSong(url)
  PROVE  MusicInv'
<1> SUFFICES ASSUME ~nestedCall'
             PROVE  /\ SongsFit(playlist', readyMusic', found') /\ isPlaying' \in BOOLEAN
                    /\ JumpsFit'
                    /\ \/ steps' = <<>>
                       \/ \E x : steps' = <<x>> /\ ParseFit(x)'
  BY DEF MusicInv
<1>1. /\ ~nestedCall /\ Music!Waits("parse") /\ UNCHANGED found
      /\ (isPlaying' <=> (isPlaying \/ url)) /\ isPlaying' \in BOOLEAN
  BY DEF Music!ParsedSong
<1>2. SongsFit(playlist, readyMusic, found) /\ isPlaying \in BOOLEAN /\ JumpsFit
  BY <1>1 DEF MusicInv
<1>3. PICK x : steps = <<x>> /\ ParseFit(x)
  BY <1>1, WaitsFor DEF RefillFit, RefillType
<1>4. Music!Step = x /\ Music!Outer = <<>>
  BY <1>3, OnlyStep
<1> DEFINE q == [x EXCEPT !.i = x.i + 1, !.parseSuccess = x.parseSuccess \/ url]
           rest == SubSeq(q.songs, q.i, Len(q.songs))
           over == q.i > Batch \/ q.i > Len(q.songs)
<1>5. /\ playlist' = IF url THEN Append(playlist, q.songs[x.i]) ELSE playlist
      /\ over => /\ steps' = IF rest = <<>> THEN <<>> ELSE Music!Spoil(<<>>)
                 /\ readyMusic' = readyMusic \o rest
                 /\ \/ jumped' = jumped
                    \/ /\ q.parseSuccess
                       /\ jumped' = jumped \cup {[to |-> q.currentNumber + 1, own |-> Music!Songs(q)]}
      /\ ~over => /\ steps' = Append(<<>>, q) /\ UNCHANGED <<readyMusic, jumped>>
  <2>1. q = [Music!Step EXCEPT !.i = Music!Step.i + 1,
                               !.parseSuccess = Music!Step.parseSuccess \/ url]
    BY <1>4
  <2> HIDE DEF q
  <2>2. playlist' = IF url THEN Append(playlist, q.songs[x.i]) ELSE playlist
    BY <1>4, <2>1 DEF Music!ParsedSong
  <2>3. ASSUME over
        PROVE  /\ steps' = IF rest = <<>> THEN <<>> ELSE Music!Spoil(<<>>)
               /\ readyMusic' = readyMusic \o rest
               /\ jumped' = IF q.parseSuccess /\ q.wasPlaying
                            THEN jumped \cup {[to |-> Music!JumpTo(q), own |-> Music!Songs(q)]}
                            ELSE jumped
    BY <1>4, <2>1, <2>3 DEF Music!ParsedSong
  <2>4. ASSUME ~over
        PROVE  steps' = Append(<<>>, q) /\ UNCHANGED <<readyMusic, jumped>>
    BY <1>4, <2>1, <2>4 DEF Music!ParsedSong, Music!Go
  <2>5. QED
    BY <2>2, <2>3, <2>4 DEF Music!JumpTo
<1>6. /\ x \in ParseType /\ x.i >= 1 /\ x.i <= Len(x.songs)
      /\ Distinct(x.songs) /\ UpTo(x.songs, found)
      /\ \A k \in x.i..Len(x.songs) : NoneOf(x.songs[k], playlist) /\ NoneOf(x.songs[k], readyMusic)
      /\ Len(playlist) + Len(readyMusic) + (Len(x.songs) - x.i + 1) <= found
      /\ x.currentNumber <= Len(playlist)
      /\ x.parseSuccess => /\ x.currentNumber + 1 <= Len(playlist)
                           /\ playlist[x.currentNumber + 1] \in OfSearch(x)
      /\ ~x.parseSuccess => x.currentNumber = Len(playlist)
  BY <1>3 DEF ParseFit
<1>7. /\ x.songs \in Seq(Nat) /\ Len(x.songs) \in Nat /\ x.i \in Nat /\ x.currentNumber \in Nat
      /\ x.parseSuccess \in BOOLEAN /\ x.wasPlaying \in BOOLEAN
      /\ Len(playlist) \in Nat /\ Len(readyMusic) \in Nat /\ found \in Nat
  <2>1. x.songs \in Seq(Nat) /\ x.i \in Nat /\ x.currentNumber \in Nat
        /\ x.parseSuccess \in BOOLEAN /\ x.wasPlaying \in BOOLEAN
    <3>1. x \in ParseType
      BY <1>6
    <3>2. QED
      BY <3>1 DEF ParseType
  <2>2. playlist \in Seq(Nat) /\ readyMusic \in Seq(Nat) /\ found \in Nat
    BY <1>2 DEF SongsFit
  <2>3. QED
    BY <2>1, <2>2, LenProperties
<1>8. /\ q \in ParseType /\ q.songs = x.songs /\ q.i = x.i + 1
      /\ q.currentNumber = x.currentNumber /\ (q.parseSuccess <=> x.parseSuccess \/ url)
  <2>1. q.parseSuccess = (x.parseSuccess \/ url) /\ q.songs = x.songs /\ q.i = x.i + 1
        /\ q.currentNumber = x.currentNumber
    BY <1>6 DEF ParseType
  <2>2. (x.parseSuccess \/ url) \in BOOLEAN /\ x.i + 1 \in Nat
    BY <1>7
  <2>3. q \in ParseType
    BY <1>6, <2>2 DEF ParseType
  <2>4. QED
    BY <2>1, <2>3
<1> HIDE DEF q
<1> DEFINE song == x.songs[x.i]
<1>9. /\ song \in Nat /\ song <= found /\ NoneOf(song, playlist) /\ NoneOf(song, readyMusic)
      /\ \A k \in x.i + 1..Len(x.songs) : x.songs[k] # song
  <2>1. x.i \in 1..Len(x.songs) /\ x.i \in x.i..Len(x.songs)
    BY <1>6, <1>7
  <2>2. song \in Nat /\ song <= found
    BY <1>6, <1>7, <2>1, ElementOfSeq DEF UpTo
  <2>3. \A k \in x.i + 1..Len(x.songs) : k \in 1..Len(x.songs) /\ k # x.i
    BY <1>6, <1>7
  <2>4. QED
    BY <1>6, <2>1, <2>2, <2>3 DEF Distinct
<1> HIDE DEF song
<1>10. Len(playlist) + Len(readyMusic) < found
  <2> DEFINE a == Len(playlist)
             b == Len(readyMusic)
             c == Len(x.songs)
  <2>1. a \in Nat /\ b \in Nat /\ c \in Nat /\ x.i <= c /\ a + b + (c - x.i + 1) <= found
    BY <1>6, <1>7
  <2> HIDE DEF a, b, c
  <2>2. a + b < found
    BY <1>7, <2>1
  <2>3. QED
    BY <2>2 DEF a, b
<1>11. /\ SongsFit(playlist', readyMusic, found)
       /\ Len(playlist') = Len(playlist) + (IF url THEN 1 ELSE 0)
       /\ \A i \in 1..Len(playlist) : playlist'[i] = playlist[i]
       /\ url => playlist'[Len(playlist) + 1] = song
       /\ \A m : NoneOf(m, playlist) /\ (url => m # song) => NoneOf(m, playlist')
  <2>1. CASE url
    <3>1. playlist' = Append(playlist, song)
      BY <1>5, <1>8, <2>1 DEF song
    <3>2. /\ SongsFit(playlist', readyMusic, found) /\ Len(playlist') = Len(playlist) + 1
          /\ playlist'[Len(playlist) + 1] = song
          /\ \A i \in 1..Len(playlist) : playlist'[i] = playlist[i]
      BY <1>2, <1>9, <1>10, <3>1, SongAdded
    <3>3. \A i \in 1..Len(playlist) + 1 : i \in 1..Len(playlist) \/ i = Len(playlist) + 1
      BY <1>7
    <3>4. ASSUME NEW m, NoneOf(m, playlist), m # song
          PROVE  NoneOf(m, playlist')
      BY <3>2, <3>3, <3>4 DEF NoneOf
    <3>5. QED
      BY <2>1, <3>2, <3>4
  <2>2. CASE ~url
    <3>1. playlist' = playlist
      BY <1>5, <2>2
    <3>2. Len(playlist') = Len(playlist) + 0
      BY <1>7, <3>1
    <3>3. QED
      BY <1>2, <2>2, <3>1, <3>2
  <2>3. QED
    BY <2>1, <2>2
<1>12. \A k \in x.i + 1..Len(x.songs) : /\ NoneOf(x.songs[k], playlist')
                                        /\ NoneOf(x.songs[k], readyMusic)
  <2>1. \A k \in x.i + 1..Len(x.songs) : k \in x.i..Len(x.songs)
    BY <1>7
  <2>2. QED
    BY <1>6, <1>9, <1>11, <2>1
<1>13. Len(playlist') + Len(readyMusic) + (Len(x.songs) - (x.i + 1) + 1) <= found
  <2> DEFINE a == Len(playlist)
             b == Len(readyMusic)
             c == Len(x.songs)
             d == Len(playlist')
  <2>1. /\ a \in Nat /\ b \in Nat /\ c \in Nat /\ d = a + (IF url THEN 1 ELSE 0)
        /\ a + b + (c - x.i + 1) <= found
    BY <1>6, <1>7, <1>11
  <2> HIDE DEF a, b, c, d
  <2>2. d + b + (c - (x.i + 1) + 1) <= found
    BY <1>7, <2>1
  <2>3. QED
    BY <2>2 DEF b, c, d
<1>14. /\ q.parseSuccess => /\ x.currentNumber + 1 <= Len(playlist')
                            /\ playlist'[x.currentNumber + 1] \in OfSearch(x)
       /\ ~q.parseSuccess => x.currentNumber = Len(playlist')
       /\ x.currentNumber <= Len(playlist')
  <2>1. CASE x.parseSuccess
    <3> DEFINE n == x.currentNumber
               a == Len(playlist)
    <3>0. n \in Nat /\ a \in Nat /\ n + 1 <= a
      <4>1. x.currentNumber + 1 <= Len(playlist)
        BY <1>6, <2>1
      <4>2. QED
        BY <1>7, <4>1
    <3>1. x.currentNumber + 1 \in 1..Len(playlist)
      <4> HIDE DEF n, a
      <4>1. n + 1 \in 1..a
        BY <3>0
      <4>2. QED
        BY <4>1 DEF n, a
    <3> HIDE DEF n, a
    <3>2. playlist'[x.currentNumber + 1] \in OfSearch(x)
      BY <1>6, <1>11, <2>1, <3>1
    <3>3. x.currentNumber + 1 <= Len(playlist')
      BY <1>7, <1>11, <3>1
    <3>4. QED
      BY <1>7, <1>8, <1>11, <2>1, <3>2, <3>3
  <2>2. CASE ~x.parseSuccess /\ url
    <3>1. x.currentNumber = Len(playlist) /\ Len(playlist') = Len(playlist) + 1
      BY <1>6, <1>11, <2>2
    <3>2. playlist'[x.currentNumber + 1] = song
      BY <1>11, <2>2, <3>1
    <3>3. song \in OfSearch(x)
      <4> DEFINE c == Len(x.songs)
                 h == x.i
      <4>1. h \in Nat /\ c \in Nat /\ h >= 1 /\ h <= c
        <5>1. x.i >= 1 /\ x.i <= Len(x.songs)
          BY <1>6
        <5>2. QED
          BY <1>7, <5>1
      <4> HIDE DEF c, h
      <4>2. h \in 1..c
        BY <4>1
      <4>3. QED
        BY <4>2 DEF OfSearch, song, c, h
    <3>4. QED
      BY <1>7, <1>8, <2>2, <3>1, <3>2, <3>3
  <2>3. CASE ~x.parseSuccess /\ ~url
    <3>1. x.currentNumber = Len(playlist) /\ Len(playlist') = Len(playlist)
      BY <1>6, <1>7, <1>11, <2>3
    <3>2. QED
      BY <1>7, <1>8, <2>3, <3>1
  <2>4. QED
    BY <1>7, <2>1, <2>2, <2>3
<1>15. Music!Songs(q) = OfSearch(x)
  <2>1. DOMAIN x.songs = 1..Len(x.songs)
    BY <1>7
  <2>2. QED
    BY <1>8, <2>1 DEF Music!Songs, OfSearch
<1>16. ASSUME NEW j \in jumped
       PROVE  j.to \in 1..Len(playlist') /\ playlist'[j.to] \in j.own
  <2>1. j.to \in 1..Len(playlist) /\ playlist[j.to] \in j.own
    BY <1>2 DEF JumpsFit
  <2>2. 1..Len(playlist) \subseteq 1..Len(playlist')
    BY <1>7, <1>11
  <2>3. QED
    BY <1>11, <2>1, <2>2
<1>17. CASE over
  <2>1. steps' = <<>>
    BY <1>5, <1>17, NothingSpoilt
  <2>2. SongsFit(playlist', readyMusic', found')
    <3> DEFINE k == x.i + 1
    <3>1. readyMusic' = readyMusic \o SubSeq(x.songs, k, Len(x.songs))
      BY <1>5, <1>8, <1>17
    <3>2. k \in Nat /\ k >= 1 /\ k <= Len(x.songs) + 1
      <4> DEFINE c == Len(x.songs)
                 h == x.i
      <4>1. h \in Nat /\ c \in Nat /\ h >= 1 /\ h <= c
        <5>1. x.i >= 1 /\ x.i <= Len(x.songs)
          BY <1>6
        <5>2. QED
          BY <1>7, <5>1
      <4> HIDE DEF c, h
      <4>2. h + 1 \in Nat /\ h + 1 >= 1 /\ h + 1 <= c + 1
        BY <4>1
      <4>3. QED
        BY <4>2 DEF c, h
    <3> HIDE DEF k
    <3>3. SongsFit(playlist', readyMusic \o SubSeq(x.songs, k, Len(x.songs)), found)
      <4> DEFINE P == playlist'
      <4>1. /\ SongsFit(P, readyMusic, found)
            /\ \A i \in k..Len(x.songs) : NoneOf(x.songs[i], P) /\ NoneOf(x.songs[i], readyMusic)
            /\ Len(P) + Len(readyMusic) + (Len(x.songs) - k + 1) <= found
        BY <1>11, <1>12, <1>13 DEF k
      <4> HIDE DEF P
      <4>2. SongsFit(P, readyMusic \o SubSeq(x.songs, k, Len(x.songs)), found)
        BY <1>6, <1>7, <3>2, <4>1, SongsKept
      <4>3. QED
        BY <4>2 DEF P
    <3>4. QED
      BY <1>1, <3>1, <3>3
  <2>3. JumpsFit'
    <3>1. CASE jumped' = jumped
      BY <1>16, <3>1 DEF JumpsFit
    <3>2. CASE /\ q.parseSuccess
               /\ jumped' = jumped \cup {[to |-> q.currentNumber + 1, own |-> Music!Songs(q)]}
      <4> DEFINE new == [to |-> q.currentNumber + 1, own |-> Music!Songs(q)]
      <4>1. new.to = x.currentNumber + 1 /\ new.own = OfSearch(x)
        BY <1>8, <1>15
      <4>2. x.currentNumber + 1 \in 1..Len(playlist')
        BY <1>7, <1>11, <1>14, <3>2
      <4>3. new.to \in 1..Len(playlist') /\ playlist'[new.to] \in new.own
        BY <1>14, <3>2, <4>1, <4>2
      <4>4. \A j \in jumped' : j \in jumped \/ j = new
        BY <3>2
      <4> HIDE DEF new
      <4>5. QED
        BY <1>16, <4>3, <4>4 DEF JumpsFit
    <3>3. QED
      BY <1>5, <1>17, <3>1, <3>2
  <2>4. QED
    BY <1>1, <2>1, <2>2, <2>3
<1>18. CASE ~over
  <2>1. steps' = <<q>> /\ UNCHANGED <<readyMusic, jumped, found>>
    BY <1>1, <1>5, <1>18, NothingSpoilt
  <2>2. q.i >= 1 /\ q.i <= Len(q.songs)
    BY <1>7, <1>8, <1>18, PluginsAssumption
  <2>3. OfSearch(q) = OfSearch(x)
    BY <1>8 DEF OfSearch
  <2>4. ParseFit(q)'
    <3>1. /\ Distinct(q.songs) /\ UpTo(q.songs, found)
          /\ \A k \in q.i..Len(q.songs) :
               NoneOf(q.songs[k], playlist') /\ NoneOf(q.songs[k], readyMusic)
          /\ Len(playlist') + Len(readyMusic) + (Len(q.songs) - q.i + 1) <= found
          /\ q.currentNumber <= Len(playlist')
      BY <1>6, <1>8, <1>12, <1>13, <1>14
    <3>2. /\ q.parseSuccess => /\ q.currentNumber + 1 <= Len(playlist')
                               /\ playlist'[q.currentNumber + 1] \in OfSearch(q)
          /\ ~q.parseSuccess => q.currentNumber = Len(playlist')
      BY <1>8, <1>14, <2>3
    <3>3. q \in ParseType /\ readyMusic' = readyMusic /\ found' = found
      BY <1>8, <2>1
    <3>4. QED
      BY <2>2, <3>1, <3>2, <3>3 DEF ParseFit
  <2>5. SongsFit(playlist', readyMusic', found')
    BY <1>11, <2>1
  <2>6. JumpsFit'
    BY <1>16, <2>1 DEF JumpsFit
  <2>7. QED
    BY <1>1, <2>1, <2>4, <2>5, <2>6
<1>19. QED
  BY <1>17, <1>18

(* Each step of the music plugin keeps the invariant, and so does the rest *)
(* of the run.                                                             *)
LEMMA MusicKept ==
  ASSUME MusicInv, Music!Next
  PROVE  MusicInv'
<1>1. CASE \E default \in BOOLEAN : Music!Search(default)
  BY <1>1, SearchKeeps
<1>2. CASE \E number \in 0..MaxFound : Music!SearchAnswered(number)
  BY <1>2, SearchAnsweredKeeps
<1>3. CASE \E url \in BOOLEAN : Music!ParsedSong(url) \/ Music!RefilledSong(url)
  BY <1>3, ParsedKeeps, RefilledKeeps
<1>4. CASE Music!PlayEnd
  BY <1>4, PlayEndKeeps
<1>5. CASE Music!AddressLost
  <2>1. UNCHANGED <<steps, readyMusic, playlist, isPlaying, jumped, found, nestedCall>>
    BY <1>5 DEF Music!AddressLost
  <2>2. QED
    BY <2>1 DEF MusicInv, JumpsFit, ParseFit, RefillFit
<1>6. QED
  BY <1>1, <1>2, <1>3, <1>4, <1>5 DEF Music!Next

(* Other steps of the run leave it alone.                                  *)
LEMMA MusicStutters ==
  ASSUME MusicInv, UNCHANGED musicVars
  PROVE  MusicInv'
  BY DEF musicVars, MusicInv, JumpsFit, ParseFit, RefillFit

(* What the run checks of it follows.                                      *)
LEMMA MusicIsSound == MusicInv => Music!SongsOnce /\ Music!JumpsToItsOwn
<1> SUFFICES ASSUME MusicInv PROVE Music!SongsOnce /\ Music!JumpsToItsOwn
  OBVIOUS
<1>1. ASSUME ~nestedCall
      PROVE  /\ SongsFit(playlist, readyMusic, found) /\ JumpsFit
             /\ playlist \in Seq(Nat) /\ Len(playlist) + Len(readyMusic) <= found
  BY <1>1 DEF MusicInv, SongsFit
<1>2. Music!SongsOnce
  BY <1>1, SongsAreDistinct DEF Music!SongsOnce
<1>3. Music!JumpsToItsOwn
  <2>1. ~nestedCall => DOMAIN playlist = 1..Len(playlist)
    BY <1>1
  <2>2. QED
    BY <1>1, <2>1 DEF Music!JumpsToItsOwn, JumpsFit
<1>4. QED
  BY <1>2, <1>3

-----------------------------------------------------------------------------
(* A result is that of the request it is used for, however many there are: *)
(* neteasemusic.cpp:1327, 1348, hass.cpp:205-237.                          *)
THEOREM ResultsStayOwn == Spec => []ResultsAreOwn
<1> DEFINE Inv == MusicInv /\ HassInv
<1>1. Init => Inv
  BY MusicAtFirst, HassAtFirst DEF Init
<1>2. Inv /\ [Next]_vars => Inv'
  <2> SUFFICES ASSUME Inv, [Next]_vars PROVE Inv'
    OBVIOUS
  <2>1. CASE Music!Next /\ UNCHANGED hassVars
    BY <2>1, MusicKept, HassStutters
  <2>2. CASE HomeAssistant!Next /\ UNCHANGED musicVars
    BY <2>2, HassKept, MusicStutters
  <2>3. CASE UNCHANGED <<musicVars, hassVars>>
    BY <2>3, MusicStutters, HassStutters
  <2>4. QED
    BY <2>1, <2>2, <2>3 DEF Next, vars, OnlyManager, OnlyLogin, OnlyMusic, OnlyOfficial,
                            OnlyHass, OnlyCode
<1>3. Inv => ResultsAreOwn
  BY MusicIsSound, HassIsSound DEF ResultsAreOwn
<1> HIDE DEF Inv
<1>4. QED
  BY <1>1, <1>2, <1>3, PTL DEF Spec
=============================================================================
