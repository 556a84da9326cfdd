-------------------------------- MODULE Yaml --------------------------------
(***************************************************************************)
(* The YAML a configuration is written to and read from (Utils/Yaml.cpp),  *)
(* and the comments a template's file has for its keys.                    *)
(*                                                                         *)
(* A value is a scalar, an array or an object, whose entries are in the    *)
(* order of their keys.  A line is what it is indented by, two columns a   *)
(* time ("sp", or "dash" for a sequence's mark), its key and its value; a  *)
(* comment is a line of its own.  Strings are known by what writing and    *)
(* reading tells apart.                                                    *)
(***************************************************************************)
EXTENDS Integers, Sequences, SequencesExt, FiniteSetsExt

CONSTANTS
  Values,          (* objects that are written                                 *)
  Commented,       (* sets of paths the template explains                      *)
  ShortArray,      (* 8: arrays of scalars up to it are written on one line    *)
  MaxTree          (* bound on how deep a value is nested                      *)

VARIABLES value, explained, file, readBack, comments

yamlVars == <<value, explained, file, readBack, comments>>

(* Strings: a word, a word like on, digits, one that begins with a mark,   *)
(* one with a comma in it, of two lines, and the same with its last line   *)
(* ended.                                                                  *)
Str(class) == [t |-> "string", v |-> class]
Bool == [t |-> "bool", v |-> "on"]
Num  == [t |-> "number", v |-> "digits"]
Null == [t |-> "null", v |-> "null"]
Arr(items) == [t |-> "array", items |-> items]
Obj(entries) == [t |-> "object", entries |-> entries]
Entry(k, v) == [key |-> k, value |-> v]

IsScalar(v) == v.t \notin {"array", "object"}
Size(v) == IF v.t = "array" THEN Len(v.items) ELSE Len(v.entries)

Line(pre, key, val) == [pre |-> pre, key |-> key, val |-> val, comment |-> FALSE]
Opens == [t |-> "opens"]

-----------------------------------------------------------------------------
(* needsQuote() and scalarText(): what a plain word would not be read as.  *)
NeedsQuote(s) == s \in {"on", "null", "digits", "mark"}
ScalarText(v) ==
  CASE v.t = "string" /\ v.v \in {"lines", "linesEnded"} -> [t |-> "block", v |-> v.v]
    [] v.t = "string" /\ v.v \notin {"lines", "linesEnded"} ->
         [t |-> "scalar", quoted |-> NeedsQuote(v.v), v |-> v.v]
    [] OTHER -> [t |-> "scalar", quoted |-> FALSE, v |-> v.v]

(* In a row a string of lines is left out: its text is empty.              *)
InRow(v) ==
  IF ScalarText(v).t = "block" THEN [t |-> "scalar", quoted |-> FALSE, v |-> "null"] ELSE ScalarText(v)

(* What follows a key on its line; the rest is on the lines after it.      *)
IsScalarLike(v) == \A i \in DOMAIN v.items : IsScalar(v.items[i])
ValueText(v) ==
  CASE IsScalar(v) -> ScalarText(v)
    [] ~IsScalar(v) /\ Size(v) = 0 -> [t |-> "empty", of |-> v.t]
    [] ~IsScalar(v) /\ Size(v) > 0 /\ v.t = "array" /\ IsScalarLike(v) /\ Size(v) <= ShortArray ->
         [t |-> "row", items |-> [i \in DOMAIN v.items |-> InRow(v.items[i])]]
    [] OTHER -> Opens

Comment(path) ==
  IF path \in explained' THEN <<[pre |-> <<>>, key |-> path, val |-> Opens, comment |-> TRUE]>> ELSE <<>>

(* The values there are: scalars, and what is nested of them up to MaxTree *)
(* deep.                                                                   *)
Nested(S) ==
  S \cup [t : {"array"}, items : Seq(S)]
    \cup [t : {"object"}, entries : Seq([key : STRING, value : S])]
Trees ==
  LET tree[depth \in 0..MaxTree] ==
        IF depth = 0 THEN [t : {"string", "bool", "number", "null"}, v : STRING]
        ELSE Nested(tree[depth - 1])
  IN  tree[MaxTree]
Marks == Seq({"sp", "dash"})

(* Emitter: entries, and items behind a dash.  What an object's first      *)
(* entry has under it is indented by the dash again.  What is under a key  *)
(* or an item is emitted by `emit'.                                        *)
Under_Slip(pre, first) == pre
Under(pre, first) == IF first THEN Append(pre, "dash") ELSE Append(pre, "sp")
EmitKeyValue(pre, e, path, emit) ==
  LET here == Append(path, e.key)
  IN  Comment(here) \o <<Line(pre, e.key, ValueText(e.value))>>
        \o (IF ValueText(e.value) = Opens THEN emit[pre, Append(pre, "sp"), e.value, here] ELSE <<>>)
EmitSeqItem(pre, item, path, emit) ==
  CASE item.t = "object" /\ Size(item) > 0 ->
         FlattenSeq([i \in DOMAIN item.entries |->
           LET e == item.entries[i]
               here == Append(path, e.key)
               key == Under(pre, i = 1)
           IN  (IF i = 1 THEN <<>> ELSE Comment(here)) \o <<Line(key, e.key, ValueText(e.value))>>
                 \o (IF ValueText(e.value) = Opens
                     THEN emit[Append(key, "sp"), Append(key, "sp"), e.value, here] ELSE <<>>)])
    [] item.t = "array" /\ Size(item) > 0 ->
         <<Line(Append(pre, "dash"), "", Opens)>> \o emit[Append(pre, "sp"), pre, item, path]
    [] OTHER -> <<Line(Append(pre, "dash"), "", ValueText(item))>>
EmitChildren[pre \in Marks, inner \in Marks, v \in Trees, path \in Seq(STRING)] ==
  IF v.t = "object"
  THEN FlattenSeq([i \in DOMAIN v.entries |-> EmitKeyValue(inner, v.entries[i], path, EmitChildren)])
  ELSE FlattenSeq([i \in DOMAIN v.items |->
         EmitSeqItem(pre, v.items[i], Append(path, ToString(i)), EmitChildren)])

Dump(v) == EmitChildren[<<>>, <<>>, v, <<>>]

-----------------------------------------------------------------------------
(* YAML, as yaml-cpp reads it: a block of lines is a sequence when it      *)
(* begins with a dash, and a mapping when it begins with a key.            *)
Column(line) ==
  LET dashes == {c \in DOMAIN line.pre : line.pre[c] = "dash"}
  IN  IF dashes = {} THEN Len(line.pre) + 1 ELSE Min(dashes)
Dashed(line) == Column(line) <= Len(line.pre)
Blocks(lines, starts) ==
  LET at == SelectSeq([i \in DOMAIN lines |-> i], LAMBDA i : i \in starts)
  IN  [k \in DOMAIN at |-> SubSeq(lines, at[k], IF k = Len(at) THEN Len(lines) ELSE at[k + 1] - 1)]

(* nodeToJson() of a scalar: only a plain one may be more than a string; a *)
(* block ends its last line.                                               *)
ScalarToJson(text) ==
  CASE text.t = "block" -> Str("linesEnded")
    [] text.t # "block" /\ text.quoted -> Str(text.v)
    [] text.t # "block" /\ ~text.quoted /\ text.v = "on" -> Bool
    [] text.t # "block" /\ ~text.quoted /\ text.v = "digits" -> Num
    [] text.t # "block" /\ ~text.quoted /\ text.v = "null" -> Null
    [] OTHER -> Str(text.v)

(* A plain comma in a row divides.                                         *)
RowItem(text) ==
  IF ~text.quoted /\ text.v = "comma" THEN <<Str("word"), Str("word")>> ELSE <<ScalarToJson(text)>>

ValueOf(line, rest, toJson) ==
  CASE line.val.t = "opens" -> IF rest = <<>> THEN Null ELSE toJson[rest]
    [] line.val.t = "empty" -> IF line.val.of = "array" THEN Arr(<<>>) ELSE Obj(<<>>)
    [] line.val.t = "row"   -> Arr(FlattenSeq([i \in DOMAIN line.val.items |-> RowItem(line.val.items[i])]))
    [] OTHER -> ScalarToJson(line.val)
NodeToJson(lines, toJson) ==
  LET c == Column(lines[1])
      undashed(line) == [line EXCEPT !.pre[c] = "sp"]
  IN  CASE Dashed(lines[1]) ->
             LET items == Blocks(lines, {i \in DOMAIN lines : Dashed(lines[i]) /\ Column(lines[i]) = c})
             IN  Arr([k \in DOMAIN items |-> toJson[<<undashed(items[k][1])>> \o Tail(items[k])]])
        [] ~Dashed(lines[1]) /\ lines[1].key = "" -> ValueOf(lines[1], Tail(lines), toJson)
        [] OTHER ->
             LET entries == Blocks(lines, {i \in DOMAIN lines : ~Dashed(lines[i]) /\ Column(lines[i]) = c})
             IN  Obj([k \in DOMAIN entries |->
                        Entry(entries[k][1].key, ValueOf(entries[k][1], Tail(entries[k]), toJson))])

Parse(lines) ==
  LET text == SelectSeq(lines, LAMBDA l : ~l.comment)
      line == [pre : Marks, key : STRING, val : {text[i].val : i \in DOMAIN text}, comment : {FALSE}]
      toJson[part \in Seq(line)] == NodeToJson(part, toJson)
  IN  IF text = <<>> THEN Obj(<<>>) ELSE toJson[text]

-----------------------------------------------------------------------------
(* collectComments(): the comments before a key belong to its path, kept   *)
(* as a stack of the keys it is under; items have no place in it.          *)
Scan(state, line) ==
  LET column == IF Dashed(line) THEN Column(line) + 1 ELSE Column(line)
      under  == SelectSeq(state.stack, LAMBDA s : s.column < column)
      path   == Append([i \in DOMAIN under |-> under[i].key], line.key)
  IN  CASE line.comment -> [state EXCEPT !.pending = Append(@, line.key)]
        [] ~line.comment /\ line.key = "" -> [state EXCEPT !.pending = <<>>]
        [] OTHER ->
             [found   |-> IF state.pending = <<>> \/ \E f \in state.found : f.path = path THEN state.found
                          ELSE state.found \cup {[path |-> path, text |-> state.pending]},
              pending |-> <<>>,
              stack   |-> IF line.val = Opens
                          THEN Append(under, [column |-> column, key |-> line.key]) ELSE under]
CollectComments(lines) ==
  FoldLeft(Scan, [found |-> {}, pending |-> <<>>, stack |-> <<>>], lines).found

-----------------------------------------------------------------------------
Init == value = Obj(<<>>) /\ explained = {} /\ file = <<>> /\ readBack = Obj(<<>>) /\ comments = {}

DumpFile(v, paths) ==
  /\ value' = v /\ explained' = paths
  /\ file' = Dump(v)
  /\ UNCHANGED <<readBack, comments>>
ParseFile ==
  /\ file # <<>> /\ readBack # value
  /\ readBack' = Parse(file) /\ comments' = CollectComments(file)
  /\ UNCHANGED <<value, explained, file>>

Next ==
  \/ /\ file = <<>> /\ \E v \in Values, paths \in Commented : DumpFile(v, paths)
  \/ ParseFile

Spec == Init /\ [][Next]_yamlVars

-----------------------------------------------------------------------------
(* What writing does not keep: strings of lines not ended, or in a row; a  *)
(* comma in a row; and what is under the first entry of an item.           *)
Loses[v \in Trees] ==
  CASE IsScalar(v) -> v = Str("lines")
    [] v.t = "array" ->
         \/ \E i \in DOMAIN v.items : Loses[v.items[i]]
         \/ \E i \in DOMAIN v.items :
              \/ v.items[i] \in {Str("comma"), Str("linesEnded")}
              \/ v.items[i].t = "object" /\ Size(v.items[i]) > 0
                   /\ ValueText(v.items[i].entries[1].value) = Opens
    [] OTHER -> \E i \in DOMAIN v.entries : Loses[v.entries[i].value]

(* What is written is read back, scalars with their types (Yaml.h:23-26).  *)
WrittenIsRead == comments # {} \/ readBack # Obj(<<>>) => (Loses[value] \/ readBack = value)

(* The comments of a file are those of the template at the same keys, for  *)
(* what is under no sequence (Yaml.h:16-21).                               *)
Plain(path) == \A i \in DOMAIN path : path[i] \notin {"1", "2", "3"}
CommentsReturn ==
  comments # {} =>
    /\ \A c \in comments : c.text = <<c.path>> \/ \E i \in DOMAIN c.text : ~Plain(c.text[i])
    /\ \A i \in DOMAIN file :
         file[i].comment /\ Plain(file[i].key) => \E c \in comments : c.path = file[i].key

YamlSound == WrittenIsRead /\ CommentsReturn

(* Nothing that may be configured is lost (Yaml.h:11-12).                  *)
RoundTrip == readBack # Obj(<<>>) => readBack = value
=============================================================================
