------------------------------- MODULE QRCode --------------------------------
(***************************************************************************)
(* The QR encoder of the NetEase login (Plugins/neteasemusic/qrcode.cpp):  *)
(* codewords with their Reed-Solomon check, the function patterns, the     *)
(* snake of data modules, the eight masks and their penalties, the format  *)
(* bits, and the picture that is saved.                                    *)
(*                                                                         *)
(* A byte is the set of its bits that are 1, so that exclusive or is a     *)
(* symmetric difference; a symbol is the set of its dark modules <<x, y>>. *)
(* The definitions named ..._Slip are defects the runs must notice; no     *)
(* action uses them.                                                       *)
(***************************************************************************)
EXTENDS Integers, FiniteSets, Sequences, SequencesExt, TLC

CONSTANTS
  Sizes,           (* the payload sizes that are tried                       *)
  Patterns,        (* ... and the seeds of their bytes                       *)
  Scale, QuietZone (* savePng                                                *)

VARIABLES
  exp, log,        (* the tables of GF(256)                                  *)
  payload,         (* the bytes to encode                                    *)
  stage, index,    (* which loop of encode runs, and its turn                *)
  gen,             (* the generator polynomial so far                        *)
  words,           (* the remainder so far, then all codewords               *)
  bestScore, best  (* of the masks tried so far                              *)

qrVars == <<exp, log, payload, stage, index, gen, words, bestScore, best>>

Abs(a) == IF a < 0 THEN -a ELSE a
Larger(a, b) == IF a > b THEN a ELSE b
Xor(a, b) == (a \ b) \cup (b \ a)
BitsOf(v) == {b \in 0..7 : (v \div 2^b) % 2 = 1}
Shift(a, k) == {b + k : b \in a}

-----------------------------------------------------------------------------
(* GF(256) modulo 0x11d, by the tables of the constructor.                 *)
Reduced(x) == IF 8 \in x THEN Xor(x, {0, 2, 3, 4, 8}) ELSE x
Pow(i) == exp[(i % 255) + 1]
Mul(a, b) == IF a = {} \/ b = {} THEN {} ELSE Pow(log[a] + log[b])

Plus(s, t) == [i \in DOMAIN s |-> Xor(s[i], t[i])]
Times(s, factor) == [i \in DOMAIN s |-> Mul(s[i], factor)]

(* rsCoefficients, one turn: the product so far times (x - a^i); and       *)
(* rsRemainder, one turn: the division by that product less its leading 1. *)
RsCoefficient(poly, i) == Plus(Append(poly, {}), << {} >> \o Times(poly, Pow(i)))
RsRemainder(result, byte, poly) ==
  Plus(Append(Tail(result), {}), Times(Tail(poly), Xor(byte, result[1])))

(* Versions 1 to 5 at level L: one block each.                             *)
Specs == << [data |-> 19, ecc |-> 7], [data |-> 34, ecc |-> 10], [data |-> 55, ecc |-> 15],
            [data |-> 80, ecc |-> 20], [data |-> 108, ecc |-> 26] >>
Fits(size) == {v \in DOMAIN Specs : 12 + 8 * size <= 8 * Specs[v].data}
ChooseVersion(size) ==
  IF Fits(size) = {} THEN 0 ELSE CHOOSE v \in Fits(size) : \A w \in Fits(size) : v <= w

(* BitBuffer and buildCodewords up to the check: the mode's four bits put  *)
(* every byte after them across two words; then zeroes and padding.        *)
High(byte) == {b - 4 : b \in byte \cap 4..7}
Low(byte)  == {b + 4 : b \in byte \cap 0..3}
DataWords(bytes, version) ==
  LET text == << {2}, BitsOf(Len(bytes)) >> \o bytes \o << {} >>
  IN  [i \in 1..Specs[version].data |->
         IF i < Len(text) THEN Low(text[i]) \cup High(text[i + 1])
         ELSE IF (i - Len(text)) % 2 = 0 THEN BitsOf(236) ELSE BitsOf(17)]

-----------------------------------------------------------------------------
(* The symbol of n by n modules.                                           *)
Square(n) == (0..(n - 1)) \X (0..(n - 1))
Away(p, c) == Larger(Abs(p[1] - c[1]), Abs(p[2] - c[2]))
Around(c, d, n) == {p \in Square(n) : Away(p, c) <= d}

FinderCentres(n) == {<<3, 3>>, <<n - 4, 3>>, <<3, n - 4>>}
AlignmentCenters(version) == IF version = 1 THEN {} ELSE {6, 4 * version + 10}
AlignmentPatterns(version, n) ==
  (AlignmentCenters(version) \X AlignmentCenters(version))
    \ {<<6, 6>>, <<6, n - 7>>, <<n - 7, 6>>}
Timing(n) == UNION {{<<i, 6>>, <<6, i>>} : i \in 8..(n - 9)}
FormatArea_Slip(n) == UNION {{<<8, i>>, <<i, 8>>} : i \in 0..8 \ {6}}
FormatArea(n) ==
  UNION {{<<8, i>>, <<i, 8>>} : i \in 0..8 \ {6}}
    \cup UNION {{<<8, n - 1 - i>>, <<n - 1 - i, 8>>} : i \in 0..7}

(* drawFunctionPatterns: what no data and no mask may touch, and what of   *)
(* it is dark.                                                             *)
Function(version, n) ==
  UNION {Around(c, 4, n) : c \in FinderCentres(n)} \cup Timing(n) \cup FormatArea(n)
    \cup UNION {Around(c, 2, n) : c \in AlignmentPatterns(version, n)}
FunctionDark(version, n) ==
  UNION {{p \in Around(c, 4, n) : Away(p, c) \notin {2, 4}} : c \in FinderCentres(n)}
    \cup {p \in Timing(n) : (p[1] + p[2]) % 2 = 0}
    \cup UNION {{p \in Around(c, 2, n) : Away(p, c) # 1} : c \in AlignmentPatterns(version, n)}
    \cup {<<8, n - 8>>}

(* placeData: two columns at a time from the right, up and down in turn,   *)
(* past the timing column.                                                 *)
Column(k, n) == IF n - 1 - 2 * k > 6 THEN n - 1 - 2 * k ELSE n - 2 - 2 * k
Snake(n) ==
  [j \in 1..((n - 1) * n) |->
     LET k == (j - 1) \div (2 * n)
         i == ((j - 1) % (2 * n)) \div 2
     IN  <<Column(k, n) - ((j - 1) % 2), IF k % 2 = 0 THEN n - 1 - i ELSE i>>]
PlaceData(codewords, function, n) ==
  LET cells == SelectSeq(Snake(n), LAMBDA p : p \notin function)
      dark  == {i \in DOMAIN cells :
                  /\ i <= 8 * Len(codewords)
                  /\ 7 - ((i - 1) % 8) \in codewords[(i - 1) \div 8 + 1]}
  IN  {cells[i] : i \in dark}

MaskCondition(m, i, j) ==
  CASE m = 0 -> (i + j) % 2 = 0
    [] m = 1 -> i % 2 = 0
    [] m = 2 -> j % 3 = 0
    [] m = 3 -> (i + j) % 3 = 0
    [] m = 4 -> ((i \div 2) + (j \div 3)) % 2 = 0
    [] m = 5 -> ((i * j) % 2) + ((i * j) % 3) = 0
    [] m = 6 -> (((i * j) % 2) + ((i * j) % 3)) % 2 = 0
    [] m = 7 -> (((i + j) % 2) + ((i * j) % 3)) % 2 = 0
ApplyMask(dark, m, function, n) ==
  Xor(dark, {p \in Square(n) \ function : MaskCondition(m, p[2], p[1])})

(* drawFormat: level L and the mask, ten check bits, twice.                *)
FormatBits(m) ==
  LET data == {3} \cup BitsOf(m)
      rem  == FoldLeft(LAMBDA r, i : Xor(Shift(r, 1), IF 9 \in r THEN {0, 1, 2, 4, 5, 8, 10} ELSE {}),
                       data, [i \in 1..10 |-> i])
  IN  Xor(Shift(data, 10) \cup rem, {1, 4, 10, 12, 14})
FormatColumn(i, n) == <<8, IF i < 6 THEN i ELSE IF i < 8 THEN i + 1 ELSE n - 15 + i>>
FormatRow(i, n) == <<IF i < 8 THEN n - i - 1 ELSE IF i < 9 THEN 7 ELSE 14 - i, 8>>
DrawFormat(dark, m, n) ==
  LET cells == UNION {{FormatColumn(i, n), FormatRow(i, n)} : i \in 0..14}
      on    == UNION {{FormatColumn(i, n), FormatRow(i, n)} : i \in FormatBits(m)}
  IN  (dark \ cells) \cup on \cup {<<8, n - 8>>}

Render(version, m, codewords) ==
  LET n == 4 * version + 17
      function == Function(version, n)
      placed == FunctionDark(version, n) \cup PlaceData(codewords, function, n)
  IN  DrawFormat(ApplyMask(placed, m, function, n), m, n)

(* penalty: long runs, blocks, look-alikes of a finder, and imbalance.  A  *)
(* run of r modules counts its r - 4 windows of five, and two more.        *)
LikeFinder == <<TRUE, FALSE, TRUE, TRUE, TRUE, FALSE, TRUE, FALSE, FALSE, FALSE, FALSE>>
Penalty(symbol, n) ==
  LET Dark(way, l, k) == (IF way = "row" THEN <<k, l>> ELSE <<l, k>>) \in symbol
      Same(way, l, k, d) == Dark(way, l, k + d) = Dark(way, l, k)
      starts == {"row", "column"} \X (0..(n - 1)) \X (0..(n - 5))
      windows == {s \in starts : \A d \in 1..4 : Same(s[1], s[2], s[3], d)}
      runs == {s \in windows : s[3] > 0 => ~Same(s[1], s[2], s[3], -1)}
      finders == {s \in starts : s[3] <= n - 11 /\
                    \/ \A d \in 1..11 : Dark(s[1], s[2], s[3] + d - 1) = LikeFinder[d]
                    \/ \A d \in 1..11 : Dark(s[1], s[2], s[3] + d - 1) = LikeFinder[12 - d]}
      blocks == {p \in Square(n - 1) :
                   \A dx, dy \in 0..1 : (<<p[1] + dx, p[2] + dy>> \in symbol) = (p \in symbol)}
      twentieths == -((-20 * Cardinality(symbol)) \div (n * n))
  IN  Cardinality(windows) + 2 * Cardinality(runs) + 40 * Cardinality(finders)
        + 3 * Cardinality(blocks) + 10 * Abs(twentieths - 10)

-----------------------------------------------------------------------------
(* encode: too long a payload gives no symbol at all.  The check words are *)
(* worked out turn by turn, then every mask is rendered, and the first of  *)
(* the lowest penalty wins.                                                *)
Bytes(size, seed) == [i \in 1..size |-> BitsOf((seed + 37 * i * i) % 256)]

Version == ChooseVersion(Len(payload))
Size == 4 * Version + 17
Level == Specs[Version]

Starts(bytes) ==
  /\ payload' = bytes
  /\ stage' = "coefficients" /\ index' = 0
  /\ gen' = << {0} >> /\ words' = << >> /\ bestScore' = -1 /\ best' = {}

Init ==
  /\ exp = << {0} >> /\ log = {0} :> 0
  /\ payload = << >>
  /\ stage = "table" /\ index = 0
  /\ gen = << {0} >> /\ words = << >> /\ bestScore = -1 /\ best = {}

(* The constructor of Gf256, run by the first login.                       *)
Table ==
  /\ stage = "table"
  /\ IF Len(exp) < 255
     THEN LET x == Reduced(Shift(exp[Len(exp)], 1))
          IN  /\ exp' = Append(exp, x)
              /\ log' = log @@ (x :> Len(exp))
              /\ UNCHANGED <<payload, stage, index, gen, words, bestScore, best>>
     ELSE /\ \E size \in Sizes, seed \in Patterns : Starts(Bytes(size, seed))
          /\ UNCHANGED <<exp, log>>

Coefficients ==
  /\ stage = "coefficients" /\ Version # 0
  /\ IF index < Level.ecc
     THEN /\ gen' = RsCoefficient(gen, index)
          /\ index' = index + 1
          /\ UNCHANGED <<stage, words>>
     ELSE /\ stage' = "remainder" /\ index' = 0
          /\ words' = [i \in 1..Level.ecc |-> {}]
          /\ UNCHANGED gen
  /\ UNCHANGED <<exp, log, payload, bestScore, best>>

Remainder ==
  /\ stage = "remainder"
  /\ LET data == DataWords(payload, Version)
     IN  IF index < Level.data
         THEN /\ words' = RsRemainder(words, data[index + 1], gen)
              /\ index' = index + 1
              /\ UNCHANGED stage
         ELSE /\ words' = data \o words
              /\ stage' = "masks" /\ index' = 0
  /\ UNCHANGED <<exp, log, payload, gen, bestScore, best>>

Encode ==
  /\ stage = "masks" /\ index < 8
  /\ LET symbol == Render(Version, index, words)
         score  == Penalty(symbol, Size)
     IN  IF bestScore < 0 \/ score < bestScore
         THEN bestScore' = score /\ best' = symbol
         ELSE UNCHANGED <<bestScore, best>>
  /\ index' = index + 1
  /\ UNCHANGED <<exp, log, payload, stage, gen, words>>

(* The next login has another URL.                                         *)
Again ==
  /\ (stage = "coefficients" /\ Version = 0) \/ (stage = "masks" /\ index = 8)
  /\ \E size \in Sizes, seed \in Patterns : Starts(Bytes(size, seed))
  /\ UNCHANGED <<exp, log>>

Next == Table \/ Coefficients \/ Remainder \/ Encode \/ Again
Spec == Init /\ [][Next]_qrVars

(* savePng: the dark pixels.                                               *)
SavePng(dark) ==
  UNION {{<<(p[1] + QuietZone) * Scale + dx, (p[2] + QuietZone) * Scale + dy>> :
            dx \in 0..(Scale - 1), dy \in 0..(Scale - 1)} : p \in dark}

-----------------------------------------------------------------------------
(* A reader of QR codes, from the standard's description of a symbol: it   *)
(* knows where the patterns are, reads the format twice, takes the mask    *)
(* off, follows the two-column strips and evaluates the code polynomial.   *)
Reserved(p, n) ==
  \/ p[1] < 9 /\ p[2] < 9
  \/ p[1] >= n - 8 /\ p[2] < 9
  \/ p[1] < 9 /\ p[2] >= n - 8
  \/ 6 \in {p[1], p[2]}
  \/ n > 21 /\ {p[1], p[2]} \subseteq (n - 9)..(n - 5)
TopLeft(i) == IF i < 8 THEN <<8, IF i < 6 THEN i ELSE i + 1>>
              ELSE <<IF i = 8 THEN 7 ELSE 14 - i, 8>>
Split(i, n) == IF i < 8 THEN <<n - 1 - i, 8>> ELSE <<8, n - 15 + i>>
Step(p, n) ==
  LET from == IF p[1] > 6 THEN n - 1 - p[1] ELSE n - 2 - p[1]
      strip == from \div 2
  IN  1 + 2 * n * strip + 2 * (IF strip % 2 = 0 THEN n - 1 - p[2] ELSE p[2]) + (from % 2)

FormatInformation == <<30660, 29427, 32170, 30877, 26159, 25368, 27713, 26998>>
ReadMasks(dark) ==
  LET format == {i \in 0..14 : TopLeft(i) \in dark}
  IN  {m \in 0..7 : format = {i \in 0..14 : (FormatInformation[m + 1] \div 2^i) % 2 = 1}}
ReadWords(dark, n, m) ==
  LET data == {p \in Square(n) : ~Reserved(p, n)}
      all  == {Step(p, n) : p \in data}
      on   == {Step(p, n) : p \in {q \in data : (q \in dark) # MaskCondition(m, q[2], q[1])}}
      order == SelectSeq([j \in 1..(n * n) |-> j], LAMBDA j : j \in all)
  IN  [i \in 1..(Len(order) \div 8) |-> {b \in 0..7 : order[8 * i - b] \in on}]
Evaluate(read, power) ==
  {b \in 0..7 : Cardinality({i \in DOMAIN read :
     b \in Mul(read[i], Pow(power * (Len(read) - i)))}) % 2 = 1}
ByteOf(read, i) == Low(read[i]) \cup High(read[i + 1])

Message(read) ==
  /\ Len(read) = Level.data + Level.ecc
  /\ \A power \in 0..(Level.ecc - 1) : Evaluate(read, power) = {}
  /\ ByteOf(read, 1) = BitsOf(Len(payload))
  /\ \A i \in DOMAIN payload : ByteOf(read, i + 1) = payload[i]

(* The code on the screen can be scanned: both copies of the format agree, *)
(* the words read back are a code word of the level, and they hold the     *)
(* URL; a URL that does not fit gives no code.  Test/tst_sherpa.h compares *)
(* a few symbols bit by bit.                                               *)
Reads ==
  LET n == Size
      picture == SavePng(best)
      dark == {p \in Square(n) :
                 <<(p[1] + QuietZone) * Scale, (p[2] + QuietZone) * Scale>> \in picture}
  IN  /\ \A i \in 0..14 : (TopLeft(i) \in dark) = (Split(i, n) \in dark)
      /\ \E m \in ReadMasks(dark) : Message(ReadWords(dark, n, m))
Scannable ==
  /\ stage = "masks" /\ index = 8 => Reads
  /\ Len(payload) > 106 <=> Version = 0
=============================================================================
