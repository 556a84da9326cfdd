------------------------------- MODULE LLMTools -------------------------------
(***************************************************************************)
(* What a language model may use (Utils/LLM): LLMManager with its backends *)
(* and its registry of tools, which come from the program itself, from     *)
(* skills (files that tell the model how to do something) and from MCP     *)
(* servers.  The servers are started last, each with requests that run the *)
(* event loop, so all the rest may be used before the start is over.       *)
(*                                                                         *)
(* A name made of parts is the sequence of its parts: "mcp_a_b" is         *)
(* <<"mcp", "a", "b">>.                                                    *)
(***************************************************************************)
EXTENDS Integers, Sequences, FiniteSets, SequencesExt

CONSTANTS
  Backends,      (* names of the backends configured, in their order           *)
  Skills,        (* directories of skills, sequences of files; a file is       *)
                 (* [base, readable, closed, lines, body], a line of its head  *)
                 (* [key, value, style]                                        *)
  Normal,        (* of a value, the characters a name may have                 *)
  Servers,       (* configurations, sequences of [name, enabled, tools]        *)
  MaxCalls       (* bound on the calls of tools                                *)

VARIABLES
  initialized,
  backends, defaultName,
  dir, servers,  (* what is configured                                         *)
  skills,        (* SkillRegistry: name -> the skill                           *)
  tools,         (* LLMToolRegistry: name -> source, what it calls, its text   *)
  starting,      (* the server being started, 0 when none is                   *)
  starts,        (* history: how many times each server was started            *)
  used,          (* the last use of a tool: its name, its result               *)
  calls, session (* the backend of the last session, "none" without            *)

toolsVars == <<initialized, backends, defaultName, dir, servers, skills, tools, starting,
               starts, used, calls, session>>

Empty == [n \in {} |-> <<>>]
NoUse == [name |-> <<>>, content |-> "", isError |-> FALSE]

Init ==
  /\ initialized = FALSE /\ backends = {} /\ defaultName = ""
  /\ dir \in Skills /\ servers \in Servers
  /\ skills = Empty /\ tools = Empty /\ starting = 0
  /\ starts = [i \in DOMAIN servers |-> 0]
  /\ used = NoUse /\ calls = 0 /\ session = "none"

-----------------------------------------------------------------------------
(* frontmatterField(): the value of the first line with the key.  The      *)
(* quotes of a value with a comment behind it stay.                        *)
FrontmatterField(file, field) ==
  LET at == {i \in DOMAIN file.lines : file.lines[i].key = field}
      line == file.lines[CHOOSE i \in at : \A j \in at : i <= j]
  IN  CASE ~file.closed \/ at = {} -> [value |-> "", quotes |-> FALSE]
        [] OTHER -> [value |-> line.value, quotes |-> line.style = "both"]

(* parseSkillFile(): without a name the file's, without a description none *)
Described(file) == FrontmatterField(file, "description").value # ""
NameOf(file) ==
  LET name == FrontmatterField(file, "name")
  IN  IF name.value = "" THEN <<Normal[file.base]>>
      ELSE IF name.quotes THEN <<"", Normal[name.value], "">> ELSE <<Normal[name.value]>>
ParseSkillFile(file) == [name |-> NameOf(file), text |-> FrontmatterField(file, "description"),
                         body |-> file.body]

(* loadFromDir(): of two skills of one name the later one.                 *)
Parsed(files) ==
  LET good == SelectSeq(files, LAMBDA f : f.readable /\ Described(f))
  IN  [i \in DOMAIN good |-> ParseSkillFile(good[i])]
LoadFromDir(files) ==
  LET parsed == Parsed(files)
  IN  [n \in {parsed[i].name : i \in DOMAIN parsed} |->
         parsed[CHOOSE i \in DOMAIN parsed :
                  parsed[i].name = n /\ \A j \in DOMAIN parsed : parsed[j].name = n => j <= i]]

(* registerTool(): the first of a name keeps it.                           *)
RegisterTool_Slip(registry, name, tool) ==
  [n \in DOMAIN registry \cup {name} |-> IF n = name THEN tool ELSE registry[n]]
RegisterTool(registry, name, tool) ==
  IF name \in DOMAIN registry THEN registry
  ELSE [n \in DOMAIN registry \cup {name} |-> IF n = name THEN tool ELSE registry[n]]
UnregisterSource(registry, source) ==
  [n \in {m \in DOMAIN registry : registry[m].source # source} |-> registry[n]]

Tool(source, does) == [source |-> source, does |-> does]
RegisterBuiltinTools(registry) ==
  RegisterTool(RegisterTool(registry, <<"current", "time">>, Tool(<<"local">>, <<"time">>)),
               <<"list", "skills">>, Tool(<<"local">>, <<"catalog">>))
RegisterSkillTools(registry, known) ==
  IF DOMAIN known = {} THEN registry
  ELSE RegisterTool(RegisterTool(registry, <<"skill", "list">>, Tool(<<"skill">>, <<"catalog">>)),
                    <<"skill", "read">>, Tool(<<"skill">>, <<"read">>))

-----------------------------------------------------------------------------
(* initialize(): the backends that load, the default, the tools at hand;   *)
(* then the servers.                                                       *)
EnabledAfter(i) == {j \in (i + 1)..Len(servers) : servers[j].enabled}
StartNext(i) ==
  IF EnabledAfter(i) = {} THEN starting' = 0 /\ UNCHANGED starts
  ELSE LET j == CHOOSE j \in EnabledAfter(i) : \A k \in EnabledAfter(i) : j <= k
       IN  starting' = j /\ starts' = [starts EXCEPT ![j] = @ + 1]
First(loaded) == SelectSeq(Backends, LAMBDA b : b \in loaded)[1]
Known_Slip == initialized /\ starting = 0
Known == initialized
Initialize(loaded, named) ==
  /\ ~Known
  /\ initialized' = TRUE
  /\ backends' = loaded
  /\ defaultName' = IF named = "" /\ loaded # {} THEN First(loaded) ELSE named
  /\ skills' = LoadFromDir(dir)
  /\ tools' = RegisterSkillTools(RegisterBuiltinTools(tools), skills')
  /\ StartNext(0)
  /\ UNCHANGED <<dir, servers, used, calls, session>>

(* MCPClient::start() has returned.                                        *)
LocalName(server, tool) == <<"mcp">> \o server.name \o tool
ServerStarted ==
  /\ starting # 0
  /\ LET server == servers[starting]
         source == <<"mcp">> \o server.name
         after[k \in 0..Len(server.tools)] ==
           IF k = 0 THEN UnregisterSource(tools, source)
           ELSE RegisterTool(after[k - 1], LocalName(server, server.tools[k]),
                             Tool(source, server.tools[k]))
     IN  tools' = after[Len(server.tools)]
  /\ StartNext(starting)
  /\ UNCHANGED <<initialized, backends, defaultName, dir, servers, skills, used, calls, session>>
ServerFailed ==
  /\ starting # 0 /\ StartNext(starting)
  /\ UNCHANGED <<initialized, backends, defaultName, dir, servers, skills, tools, used, calls, session>>

-----------------------------------------------------------------------------
(* createSession(), the default for an empty name.                         *)
CreateSession(name) ==
  LET key == IF name = "" THEN defaultName ELSE name
  IN  /\ initialized
      /\ session' = IF key \in backends THEN key ELSE "none"
      /\ UNCHANGED <<initialized, backends, defaultName, dir, servers, skills, tools, starting,
                     starts, used, calls>>

(* What the handlers give.  A server answers with any content (what        *)
(* contentToText() makes of it may be nothing), an error or not, and may   *)
(* fail to answer, of which there is a text.                               *)
Result(content, isError) == [content |-> content, isError |-> isError]
ContentToText(parts) == IF \A i \in DOMAIN parts : parts[i] = "" THEN "" ELSE "text"
Parts == {<<>>, <<"">>, <<"", "text">>, <<"text">>}
Handled(tool, argument) ==
  CASE tool.source = <<"local">> /\ tool.does = <<"time">> ->
         {Result("time", FALSE), Result("error", TRUE)}
    [] tool.does = <<"catalog">> -> {Result(IF DOMAIN skills = {} THEN "none" ELSE "catalog", FALSE)}
    [] tool.source = <<"skill">> /\ tool.does = <<"read">> ->
         {IF argument \in DOMAIN skills THEN Result(skills[argument].body, FALSE) ELSE Result("error", TRUE)}
    [] OTHER -> {Result(ContentToText(parts), isError) : parts \in Parts, isError \in BOOLEAN}
                  \cup {Result("error", TRUE)}

(* LLMToolRegistry::call(), of a name the model has from anywhere.         *)
Call(name, argument) ==
  /\ initialized /\ calls < MaxCalls /\ calls' = calls + 1
  /\ \E result \in IF name \in DOMAIN tools THEN Handled(tools[name], argument)
                   ELSE {Result("error", TRUE)} :
       used' = [name |-> name] @@ result
  /\ UNCHANGED <<initialized, backends, defaultName, dir, servers, skills, tools, starting,
                 starts, session>>

Names == DOMAIN tools \cup {<<"unknown">>}
Next ==
  \/ \E loaded \in SUBSET ToSet(Backends), named \in {"", "other"} \cup ToSet(Backends) :
       Initialize(loaded, named)
  \/ ServerStarted \/ ServerFailed
  \/ \E name \in {"", "other"} \cup ToSet(Backends) : CreateSession(name)
  \/ \E name \in Names, argument \in DOMAIN skills \cup {<<"unknown">>} : Call(name, argument)

Spec == Init /\ [][Next]_toolsVars

-----------------------------------------------------------------------------
(* Whatever is asked for while it starts, the manager starts every server  *)
(* once (LLMManager.cpp:25-28 before :106).                                *)
StartedOnce == \A i \in DOMAIN starts : starts[i] <= 1

(* "Names are unique; of two of one name the later is refused, lest the    *)
(* model gets an implementation it does not expect"                        *)
(* (LLMToolRegistry.h:18-19): a tool there is stays what it is.            *)
NeverReplaced == \A name \in DOMAIN tools : name \in DOMAIN tools' /\ tools'[name] = tools[name]

(* Every skill the model is told of can be read, and what is read is a     *)
(* skill of that name (SkillRegistry.cpp:207-217 and :185-203).            *)
CatalogReadable ==
  DOMAIN skills # {} =>
    /\ tools[<<"skill", "read">>].source = <<"skill">>
    /\ \A name \in DOMAIN skills : \E i \in DOMAIN dir :
         dir[i].readable /\ dir[i].body = skills[name].body /\ NameOf(dir[i]) = name

ToolsSound == [][StartedOnce' /\ NeverReplaced /\ CatalogReadable']_toolsVars

(* "mcp_<server>_ in front of a tool keeps the names of servers apart"     *)
(* (MCPClient.h:65-66): a tool of a started server is its own.             *)
PrefixSeparates ==
  [][ServerStarted =>
       \A k \in DOMAIN servers[starting].tools :
         LET name == LocalName(servers[starting], servers[starting].tools[k])
         IN  tools'[name].source = <<"mcp">> \o servers[starting].name]_toolsVars

(* "An error has a text for the model" (LLMTypes.h:116).                   *)
ErrorsExplained == used.isError => used.content # ""
=============================================================================
