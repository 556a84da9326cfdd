# QSmartAssistant in TLA+

TLA+ models of the voice assistant in `src/`, the TLC configurations that check
them, and TLAPS proofs about them.  Paths below are relative to the repository's
root, line numbers are those of the files beside this directory.

## 1. The system

QSmartAssistant records a microphone, waits for a wake word, recognises what is
said after it, finds the plugin that answers, and speaks the answer.  The same
plugins answer questions that arrive over HTTP and WebSocket.  `Robot`
(`src/robot.cpp:15-53`) builds the parts and connects them with Qt signals:

```
 Recorder --audio--> Wakeup --detected/onResponse--> Conversation --> PluginManager --> plugins
    ^                  ^                               |   ^  ^              (chat: LLMSession)
    +--pause/resume----+<-- requestResponse / finish --+   |  |
                       |                                   |  +-- recognized (ASR threads)
 Player/AudioPlaylist <+-- chimes, speech <--- say() ------+
                                                           |
 Server (WebSocket, HTTP) -- question / answer ------------+
```

**One main thread, many nested event loops.**  Almost everything runs on the main
thread.  Yet a plugin is an ordinary function that may wait: `question()` waits
for the prompt to be spoken and then for the answer, a chime waits for its end,
an HTTP client for its reply, a tool call for its process.  Each of these waits
is a `QEventLoop::exec()`, which dispatches *every* event of the program.  So a
second utterance, a web request, a timer or a lost client is handled *on top of*
a call that waits, and the outer call only goes on when everything above it has
returned.  This is where the program is hard to get right and hard to test, and
what the models are about.  Real threads do the heavy work (speech recognisers,
synthesis, llama) and report through queued signals, i.e. as one more event.

### Inventory

| Component | State | Operations | What is hard | What makes it correct |
|---|---|---|---|---|
| **Server** `Server/server.cpp` | clients, `socketByConv`, `awaitingAnswer`, `nextId`, `pendingConversations`, `handlingConversation` | connect, close, `conversation`, `answer`, `GET /intent`, `pushQuestion`, `pushResponse` | questions arrive while one is handled in a nested loop; ids wrap round; the owners' map is full; clients leave in between | one question at a time, in order, none lost; an open question is answered once, by its owner; nothing refers to a client that left |
| **Conversation** `Conversation/conversation.cpp` | request in force, awaited request, answer, two `QEventLoop`s, timers, `isResponse`, sentence counters and caches | `dialog`, `onResponse`, `recognized`, `intentRequest`, `question`, `askExternal`, `onExternalAnswer`, `say`, `finish`, `stop` | all of these nest; a spoken and a web answer race; timers race answers | the right call gets the right answer once; every wait ends; the microphone comes back |
| **Wakeup** `Wakeup/wakeup.cpp`, `Wakeup/Vad` | `detectState`, `isResponse`, two timers, voice found, the model | audio, wake word, utterance end, answer window, `resume` | handlers wait in chimes and go on with a changed state; timers that outlive what they time | a paused recorder is resumed; an answer window listens and ends once |
| **Player, AudioPlaylist** `Recorder/` | queue per priority, user's pause, resume positions, the chime's event loop | play, pause, chime, speech, stop | every source pauses and resumes the same device | a user's pause survives; higher priority is heard; a blocking sound returns |
| **Recorder, ChunkReader** `Recorder/recorder.*` | device, callbacks, cache, chunk size | start, stop, pause, resume, chunk | callbacks that pause, stop or restart the reader inside its loop | chunks in order, from the device that reads, never while paused |
| **AudioBuffer** `Recorder/audiobuffer.*` | ring, decoder | write, read, resize | wrap-around, a ring exactly full or empty | a queue of bytes |
| **Audio path** `wakeup.cpp`, `conversation.cpp`, `sherpaasr.cpp` | three buffers and the loops over them | chunk to wake word, detector, recogniser | handlers inside the loops let more audio arrive | an utterance is what was recorded, once |
| **Voice detectors** `Wakeup/Vad` | counters, context, one timer | chunk, timeout, stop, resume | five engines that each replace part of the base class; timers stopped late | ends for the reason it names, and does end |
| **Wake-word engines** `Wakeup/Wakeup`, `Wakeup/Livekit` | streaks, cool-down, rings | chunk | rings over chunk borders, counters after a wake-up | wakes on as many hits as asked; same as the whole window |
| **Speech** `conversation.cpp`, `TTS/` | sentences being made and played, `endIndex` | `say`, synthesised, `playEnd`, `stopSay` | what is counted advances elsewhere | a blocking `say` ends with its last sentence |
| **Recognition** `ASR/funasr.cpp` | features, tokens, hot words | stack, decode, join | indices of several sequences in step | stamps and words are those of their tokens |
| **NLU** `Conversation/NLU/` | engine, tagger, Rasa process | parse, map slots, start, stop | four engines with tables of their own; what a model returns | slots the intent may have, that are in the sentence |
| **PluginManager** `Plugins/pluginmanager.cpp` | plugins in the order of their file, `immersive`, `immersivePlugin`, `sources` | `loadPlugin`, `handlePlugin`, `handleMessage`, `quitImmerSive` (which nothing calls), `shutdownPlugins` | nested requests replace the current text and the immersive plugin | the immersive plugin is the one that asked for it |
| **NetEase plugin** `Plugins/neteasemusic/` | cookie, tokens, code sent, songs waiting | log in (4 ways), search, batch, QR | every request waits in an event loop; answers get lost | one message per log-in; a log-in ends; a song once |
| **Home Assistant** `Plugins/hass/` | socket, commands in flight | command, answer, event | ids of nested commands | a command reports its own outcome |
| **Chat, LLMSession** `Plugins/chat/`, `Utils/LLM/LLMSession.cpp` | history, `currentId`, `busy`, tool rounds, tool loops, text to be spoken | `ask`, `step`, tool calls, `abort`, `reset` | a new question or an interruption during a tool call; replies that come late | what is spoken replies to the question asked last; a history the service accepts |
| **Back ends** `OpenAICompatibleBackend.cpp`, `LlamaCppBackend.cpp` | requests, streams, worker threads, mutex, abort id | `chat`, `complete`, `abort` | nested `complete`, timers, threads that outlive the call that made them | pieces, then one end, then nothing |
| **MCPClient** `Utils/LLM/MCPClient.cpp` | process, pending requests | start, list, call, answer, exit | late and missing answers | a result goes to its call |
| **Tools and skills** `LLMToolRegistry.cpp`, `SkillRegistry.cpp` | tools, catalog | register, load, call | servers start with requests that run events | a tool keeps its implementation |
| **Yaml, Config** `Utils/` | tree, comments, file | dump, parse, save, start | indentation, comments, cut-off writes | what is written is read |
| **Wave files, FileCache** `Utils/` | files, their order | write, open, read | eviction, chunk arithmetic | a sound comes back |
| **TimeNormalizer** `Utils/` | none | pure | today or tomorrow, month ends, Chinese numbers | the time that was said |

`PROJECT.json` lists them all with their files and what is modelled of each, and
every hazard with its line and the property that watches it.

## 2. The modules

| Module | Models | State ↔ code |
|---|---|---|
| `SerialQueue` | what the server promises: one question at a time, oldest first | abstract |
| `Server` | `Server/server.cpp` | variables have the source's names; `job` is the call posted by `QMetaObject::invokeMethod`/the handler it runs; `frame` and `answered` are history |
| `ServerProofs` | theorems about `Server` | |
| `Conversation` | `Conversation/conversation.cpp` and the signals it is wired to | `stack` is the C++ call stack of plugin calls; the rest has the source's names; `mic` is all it needs to know of Wakeup; `micQuestion`, `round`, `result` are history |
| `Wakeup` | `Wakeup/wakeup.cpp`, `Wakeup/Vad/VadModel.h` and its subclasses' `stop`, `Recorder::pause/resume`, the blocking chime | source's names; `calls` is the same C++ stack, seen from here; `vad` is the detector the program is built with |
| `LLMSession` | `Utils/LLM/LLMSession.cpp`, `OpenAICompatibleBackend.cpp`, the part of `Plugins/chat/chat.cpp` that asks, interrupts and speaks | source's names; a run is known by its question's number, `currentId` 0 is the empty id; `states` are the backend's requests in flight, `loops` the `for` loops of `runToolCalls` on the C++ stack, `output` Chat's buffer; `asked`, `stopped`, `posted`, `nested` are history |
| `AudioPlaylist` | `Recorder/audioplaylist.cpp`, `player.cpp`, the listener of `playEnd` in `neteasemusic.cpp`; the player (`QMediaPlayer`) is external | one record `p` with the source's names; its fields `source`, `state`, `status` and `wanted` (a `play()` that has not taken effect) are the player's; `frames` are calls that wait in a chime or in `playEnd`; `songs`, `sentences`, `started`, `cut`, `overtaken` are history |
| `Speech` | `say`, the synthesis and the end of sentences in `conversation.cpp` | `says` is history; `playing` the list of notifications |
| `VoiceDetector` | `Wakeup/Vad/*.cpp`, `VadModel.h` | source's names; time is counted in chunks, `left` is what the timer has left; `engine` one of five; `handling` says that `detected()` is not back, `inside` that what is listened for began before it was |
| `AudioPath` | the handler of `dataArrive` in `wakeup.cpp`, `receiveData` and `dialog` in `conversation.cpp`, `sherpaasr.cpp` | `stack` holds the chunk loops in progress; a sample is its number |
| `WakeTrigger`, `LivekitWakeWord` | `livekitwakeup.cpp`, `openwakeonnx.cpp`; `livekitwakeword.cpp` | source's names; a score is a hit or not, a frame its number and level |
| `Recorder`, `AudioBuffer`, `Player` | `Recorder/recorder.*`, `audiobuffer.*`, the volume in `player.*` | source's names; bytes are numbered |
| `Funasr` | `ASR/funasr.cpp` without features and networks | one step per function; tokens are records of kind and letters |
| `NLU`, `OnnxNLU`, `RasaNLU` | `Conversation/NLU/` | one action per engine's `parseIntent`; tagger; the Rasa process |
| `TimeNormalizer` | `Utils/TimeNormalizer.cpp` | operators with the source's names over phrases taken apart |
| `Yaml`, `Config`, `WavFiles` | `Utils/Yaml.cpp`, `config.cpp`, `wavfilereader.cpp`, `FileCache.h` | files are sequences of lines or cells |
| `AudioChain` | the modules from the microphone to the loudspeaker, with sound files and settings | one component active |
| `MCPipeline` | `AudioChain`, and the modules that make text of sound; bounds | one component active |
| `PluginManager` | `Plugins/pluginmanager.cpp` | `calls` is the C++ stack of `handlePlugin` |
| `NeteaseLogin`, `NeteaseMusic`, `NeteaseOfficial`, `QRCode` | `Plugins/neteasemusic/` | source's names; calls that wait are frames; a byte is the set of its bits |
| `Hass` | `Plugins/hass/hass.cpp` | source's names |
| `MCPlugins` | bounds of the plugins | one component active |
| `LLMBackend` | what `LLMBackend.h` promises | abstract |
| `OpenAIBackend`, `LlamaBackend` | the two back ends | source's names; `worker` is a thread's place; both implement `LLMBackend` |
| `MCPClient`, `LLMTools` | `MCPClient.cpp`, `LLMToolRegistry.cpp`, `SkillRegistry.cpp`, `LLMManager.cpp` | names are sequences of their parts |
| `MCModels` | bounds of these | one component active |
| `MCDialogue`, `MCListening` | bounds of `LLMSession` with `Conversation`, of `AudioPlaylist` with `Wakeup` | one component active |
| `MCDialogueProofs`, `MCListeningProofs`, `AudioChainProofs`, `MCPipelineProofs`, `MCModelsProofs`, `MCPluginsProofs` | theorems about what these runs hold, and about the modules they hold it of | |

### How nesting is modelled

`Conversation!stack` and `Wakeup!calls` are sequences of frames, the innermost
call last.  A step of a call requires that it be the top frame.  An event
requires `Dispatching`: the program is idle, or the top frame waits in an event
loop.  An event whose handler may itself wait pushes a frame.  A wait is over
when its loop was told to quit *and* its frame is on top again.  `Quit` is a
no-op on a loop that does not execute, as `QEventLoop::quit()` is, and a loop
object executed a second time returns at once, as `exec()` does (Qt warns and
returns -1): `SayPrompt`, `AwaitAnswer` and `Wakeup!Chime` have that branch.

Handlers that never wait are one action.  A function that waits is cut exactly at
its waits: `question()` (`conversation.cpp:323-428`) is `AskExternal`/`AskLocal` up
to the prompt, `SayPrompt`, `PromptOver`, `AwaitAnswer`, `WaitOver`, and
`AnswerLocal`/`AnswerExternal`.  Between `AskExternal` and `SayPrompt` nothing else
runs, as no event is dispatched in a frame at `"asked"`.

### Components side by side

Five MC modules and `AudioChain` hold several components.  `active`, chosen at the start, says which of
them takes the steps of a behaviour; the variables of the others keep their initial
values.  So a run checks each component in full and its states are the *sum* of the
components' states, not the product.  The components of one module do not interact in
it: where two parts of the program do interact on a state of their own, one module
models both ends (the back end's reports in `LLMSession`, the wake-up chain's loops in
`AudioPath`, the recorder in `Wakeup`).  A property of such a run joins those of its
components about one subject.  Variables of two components that have one name in the
source are renamed by `INSTANCE ... WITH`; the others keep theirs.

### Abstractions

* Texts are what the properties tell apart: a question is a number, an answer
  says which question it was given to, by voice or web; an utterance has words or
  none.  Which plugin a text reaches, and whether a chunk is voice, are free
  choices.
* In `Conversation`, `mic` is `listening`, `window` or `closed`; `Wakeup` is the
  detailed account of it.  In `Wakeup`, plugins and questions are frames that
  return when `Conversation` would return them.
* In `LLMSession` a message is its role and, for tool calls, their number; a text is
  empty or not; in Chat's buffer it is the question it replies to.  Trimming takes
  all messages for equally long.  The backend's callbacks run to their end: only a
  tool call waits.  A reply that the stream cuts off is an end like any other, as
  it is in the code.
* In `AudioPlaylist` songs are numbered in the order they are added, sentences have
  the id under which they are taken back; where in a medium one is, and seeking,
  are left out.  The external player goes through its media states one event at a
  time, may fail in each, may lose a pause while media load, and is `Playing` while
  they load or only afterwards, depending on its backend (`playsAtOnce`, free).  What
  waits in the chime is a frame; `Wakeup` models the same loop from its caller's
  side.
* In `VoiceDetector` the handlers of `detected()` are over at once, but for those of a
  dialogue, which play a chime (`Waits`): the timer is stopped when they return
  (`HandlersReturn`), and other periods may begin and end before that.  In `Wakeup`, whose
  subject is who waits in which call, that stop comes with `detected()`.
* A network's verdict (voice or not, score, level, tag, reply) is a free choice over
  the values the code tells apart; a service answers, fails, answers late or never.
* Undefined behaviour (a dangling reference, a plugin's code after unloading) ends the
  behaviour in a state with a `fault`.
* In `OnnxNLU`, `NLU` and `Funasr` a text is a sequence of classes of characters or of
  tokens, known by their place; in `Yaml` a string is one of the classes writing and
  reading tell apart; in `WavFiles` a header is one cell.
* `TimeNormalizer` starts where the regular expressions have taken a phrase apart.  Its
  calendar has months of 3, 2 and 4 days, and a leap day in every fourth year: each
  border between months and years is a few days away.
* `Server` runs a handler between `RunJob` and `FinishJob`; everything else may
  happen in between, since the handler may wait.

### Defects beside the definitions

Definitions called `..._Slip`, `..._First`, `..._Lost` and `..._EarlySlip` are defective
variants of the one they stand next to: a dropped guard, a missing reset, a
swapped order.  No action uses them.  Each property of each passing run is
violated when the definition is replaced by its defective variant (`mutants` in
`PROJECT.json`): the property is sensitive to the code it is about.

## 3. What the runs check

Every run finishes within five minutes with two workers.

### `server` (`MCServer.cfg`)

Two clients, three conversation ids, two tracked conversations, two waiting
questions.  Three ids are enough for the counter to wrap and for an id to be used
again while its first use is tracked; two tracked of three for eviction before
and after the wrap; two waiting and one handled for reordering.  About 386 000
states.  No symmetry is used, as liveness is checked.

* `OwnersOnline`: a tracked conversation belongs to a client online, an open
  question to a tracked conversation (`onClosed`, eviction).
* `OneAnswerPerAsk`: a pushed question is answered at most once.
* `AskClosedByItsOwn`: an open question is closed by its own answer, its own
  reply, its client leaving or eviction, and by no other message.
* `NoneStranded`: while a question waits there is a call in front of it that
  will start it, although `startNextConversation` is called from three places.
* `TrackingBounded`: the owners' map stays within `kMaxTrackedConversations`.
* `ServesInOrder`: `Server` implements `SerialQueue`; the posted call counts as
  still waiting.
* `AcceptedIsServed`: every accepted question reaches the logic.

*Fairness*: `WF(RunJob)`, the Qt event queue delivers a posted call, and
`WF(FinishJob)`, the handler returns.  The second is what `Conversation` shows for
the waits it makes (`WebQuestionsReturn`), and is assumed of the plugins' own
waits.  Most of these have timeouts; the loops of the weather plugin have none (6) and
end with the reply or the error of Qt's network stack, and divergence 1 is a case in
which the assumption fails.

### `dialogue` (`MCDialogue.cfg`), `conversation_web`, `conversation_mic`

`dialogue` holds a conversation and, beside it, a language model's session (below).
The conversation: a web and an HTTP request, spoken commands and wake-word
commands, by an impatient speaker who does not wait for one to end before giving the
other, three calls deep, two questions, two utterances in the recogniser.
Three deep gives a request inside the wait of a call that is itself inside a
wait; two questions give an answer to the wrong one.

* `CallsInOrder`: `externalId` and `externalCanAnswer` always belong to the innermost
  external call, and each call has saved what was in force around it
  (`ExternalInForce`); `askId` is set only while a question of a request is asked
  (`AskIdAwaited`); each of the two loops executes for exactly one call
  (`LoopsHaveWaiters`); a request that has no way to answer does not wait for one
  (`HttpNeverWaits`).
* `AnswersKept`: such a request leaves the waiting question's state alone, and of two
  answers that arrive almost together the first one is what `question()` returns.

`conversation_web` has no working audio (`Speaker = {}`, and neither `PlayEnd`,
`OnResponse` nor the recogniser is fair): `WebQuestionsReturn` shows that the guard
timer of the prompt and `externalAskTimer` alone bring every question of a
request back, as the comment at `conversation.cpp:405` promises.  Two WebSocket
conversations one after the other, one HTTP request on top, three questions.

`conversation_mic` asks one question at the microphone, in a spoken or a wake-word
command, by a patient speaker (see 40), with HTTP requests served during its waits: `LocalQuestionsReturn` and `ListensAgain` (no path leaves the
recorder suspended for ever, comment at `conversation.cpp:335`).

*Fairness*: a call on top goes on (`LoopFairness`); plugins return and their own
waits end (`PluginFairness`, `DepthFairness`: for each depth, since calls can come
and go above for ever); timers run out (`TimerFairness`); prompts end, windows end
at the latest after `responseSlient`, and the recogniser reports (`VoiceFairness`,
only where the audio is assumed to work).  Strong fairness is used where a plugin
that computes may disable an event which the next event loop dispatches: Qt keeps
the event in its queue, so it is not lost.

### `dialogue`: the language model's session

Three questions, one round of at most two tool calls, a history of three
messages, so that the limits on rounds and on the history are reached; about
730 000 states.  Two questions suffice for one inside another's tool call; the
third comes after both.  A question, an interruption or a reset is possible at
any time, as the tools of `LLMManager` (MCP processes, skills) wait in event loops.

* `RepliesToLatest`: text that comes to be spoken replies to the question asked
  last, however late replies and tools come (the check of `runId` in `step`).
* `StoppedStaysSilent`: nothing of an interrupted reply is spoken later.
* `BusyIsServed`: whenever the session is busy a reply that counts is on its way or
  a tool is running (the comment at `LLMSession.cpp:150`).
* `OneReplyAtATime`, `RequestsWhole`: one request counts at a time; every posted
  request has a result for every call, and a question costs at most
  `MaxToolRounds + 1` requests.  They are stated for behaviours in which no
  tool call waited while a question was asked or the history was reset (`nested`):
  otherwise they fail, see `llm_nested`.  The interruption itself (`Quit`) is not
  excluded.

These are safety properties; that a service answers is not assumed.  A behaviour
ends when all questions are asked, so deadlock is not checked.

### `listening` (`MCListening.cfg`)

The wake-up chain: the four settings of `enable_prevad` and `enable_notify`, each with a
detector whose `stop()` stops its timer and with one whose `stop()` does not (`Vads`),
are initial states; four calls deep, two utterances; 1.2 million states.  Four deep holds
a chime above a question above a plugin above another call.  Two detectors are enough,
as `Wakeup` tells no others apart.

* `PausedIsOwed`: whenever the recorder is suspended something under way will
  resume it: an utterance to be recognised, a chime, a question or a command.
* `AnswerWindow`: an answer window belongs to a `question()` in progress; with
  silero and sherpa its timer does not outlive it (the comment in `Wakeup::resume`; the
  other three leave it running, see 21); while it is open audio goes to the
  detector (stated without `enable_prevad`, see 5).

The play list: two songs with a history of one, two sentences, one call that waits in
`playEnd` beside a chime; about 1.6 million states.  Two songs suffice for a current and
a next one, for trimming, and for a jump back; two sentences for one that waits behind
another.

* `UserPauseHolds`: what the user paused stays silent through chimes, speech, late
  reports and lost requests of the player.
* `ChimeReturns`: while the caller of a chime waits, the player is playing
  something whose end lets it go, unless a stop or a pause came in between (`cut`).
* `OrderKept`: the current track is in the list, and every song up to it was started or
  jumped over on demand, also when a call that waited in `playEnd` goes on with the
  list it chose before.

`UserPauseHolds` excludes behaviours in which the list was *not* the current one any
more (`overtaken`), see divergence 17.

These are safety properties, so no fairness.  Deadlock is checked in `server`, which
can always go on, and in no other run: their bounds on calls, questions, audio or
requests end a behaviour.

### `pipeline` (`MCPipeline.cfg`)

Sixteen components, about 327 000 states.

* `ListeningSound`.  `VoiceDetector`, with every pattern of voiced and silent chunks and
  of stops and starts, for five engines: speech that is handed on was long enough and
  followed by enough silence, what is dropped was too short (`doc/config.md:109-111`).
  Timeouts of 3 and 4 chunks, two voiced chunks required, so that each may come before
  the others.  `WakeTrigger`: a wake-up exactly after `triggerLevel` hits in a row
  outside the refractory time, eight scores with levels 1 to 3.
* `AudioWhole`.  `AudioBuffer`: the ring is a queue, sizes below, at and above its
  default.  `Recorder`: one callback on the device that reads, two devices, callbacks
  two deep.  `AudioPath`: what the recogniser reports of a listening period is that
  period, in order, without gaps; packets, processing, wake-word and detector chunks
  have four different lengths (2, 3, 2, 1) so that something is always left over.
* `InOrder`: a chunk continues the one before it, and comes from the device in use, while
  not paused; a blocking `say()` into silence ends with its last sentence.
* `FilesKept`: sounds come back whole with their rate through header, eviction and
  reader.
* `SettingsKept`: after restarts, edits and cut-off writes the program has the settings
  last written; a volume that cannot be read is never taken for another.
* `ConversionsSound`: what is turned into another form stands for what it came from.  The
  rings of `LivekitWakeWord` hold what a computation over the whole window would; six
  steps move every ring past its end.  `Funasr`: windows of stacked frames are those of
  the padded audio, words join the tokens they should, stamps and hot-word embeddings fit
  (three stackings, texts of three tokens of all kinds, five patterns of weights).
  `OnnxNLU`: tagged runs give their last span.  `TimeNormalizer`: each phrase of the
  grammar gives the time it names, on 28 moments around month and year ends.  `Yaml`: a
  tree of three levels comes back but for the losses `Yaml!Loses` names (5), and a
  template's comments come back at their keys.
* `MeaningSound`: whichever engine parses, a plugin is handed slots of its intent, a volume
  as a direction or a number and a time in seconds; one Rasa service runs, and a training
  row covers its sentence.
* `VoiceReturns`: a listening period ends, and so does a blocking `say()` into silence.
  Excepted are periods that begin before an earlier `detected()` is back (`inside`; their
  timer may be stopped, see 6), duilite, which forgets a short speech (21), and an engine
  whose model is gone.

*Fairness*: audio goes on to come while Wakeup listens, and a timer that runs out is
handled (`Chunk(FALSE)`: a chunk without voice; a speaker may go on for `MaxVoiced`
chunks only); the synthesiser and the loudspeaker go on.

### `models` (`MCModels.cfg`)

Two requests with replies of two lines, two nested `complete()`, five calls of a tool
server; about 240 000 states.  A reply of two lines has two fragments of one tool call,
one of each of two, or an error between.

* `BackendsKeepPromise`: `OpenAIBackend` and `LlamaBackend` implement `LLMBackend`: text,
  then one end, then nothing, in spite of late data, nested calls, aborts and threads.
* `AnswersWhole`: a tool call gets its own result although answers come after their
  timeout and in any order; tool calls have all fragments of their stream.
* `ToolsSound`: every server is started once, no tool changes its implementation, every
  skill in the catalog can be read.
* `RequestsEnd`: `complete()` returns, and every request of the local model is answered.

*Fairness*: timers run out and a call whose loop was told to quit returns; a posted
report is delivered; each worker thread goes on (the mutex is handed on).  Nothing is
assumed of the HTTP service.

### `plugins` (`MCPlugins.cfg`)

Four requests three deep, three attempts at the service, five songs in batches of two;
about 650 000 states.

* `DispatchSound`: without overlap the immersive flag and its owner agree between
  requests; what a plugin says belongs to its conversation, also after nested requests;
  the table of speakers is bounded.
* `LoginSound`: one message per log-in, announced only if sent; no password goes out with
  an old session; a user stays logged in through restarts and late answers.
* `ResultsAreOwn`: no song is played twice, a search jumps to a song of its own, a command
  of Home Assistant reports its own outcome.
* `LoginsEnd`: a log-in ends, at worst as a guest; a QR code is scanned, expires or is
  given up.  So that it can be, the code shown is readable: the symbol is decoded by a
  reader that undoes mask and snake, checks the syndromes of its code and compares the
  text, for sizes at the limits of the versions (`Scannable`, an invariant).

*Fairness*: a request to the music service is answered or times out, and the poll timer
of the QR code ticks.

### Violations

Four runs show where the code does not do what its comments say.

* `conversation_twice`: `LocalQuestionsReturn` fails with two questions.
  `question()` on its local path never clears `askAnswered`; `deliverAnswer` ignores
  answers while it is set; the second question at the microphone never returns,
  while the comment at `conversation.cpp:340` says several rounds work.
* `wakeup_unload`: `DetectorHears` fails.  `Wakeup::resume` stops the detector when
  it closes a window early; the silero detector's `stop()` deletes its model, and
  nothing loads it again: one question answered on the web and the assistant is
  deaf, against the comment at `conversation.cpp:411`.  The other engines free their model
  in `stop()` as well.
* `llm_nested`: `RepliesDoNotMix` fails.  A question is asked in the event loop of a
  tool call; `ask` aborts the old run and posts its request; when the tool returns
  the outer `runToolCalls` posts its results under the id of the *new* question, and
  two replies are appended to the same text, against the comment at
  `LLMSession.cpp:74`.
* `playback_mute`: `SpeechIsHeard` fails.  A pause that comes while a sentence is
  spoken holds the speech, not the music behind it; sentences added later
  are not played, until the user resumes or something else starts the player, against the
  comment at `audioplaylist.cpp:226`.

## 4. What is proved

Theorems hold for every value of the constants that the assumption of their component
admits.  Seven modules hold them, each checked from nothing by `tlapm`.  The modules
named after a run (`MC...Proofs`, and `AudioChainProofs` for the first part of
`pipeline`) state what the run checks, with its bounds as constants: they show that a step of the composition is a step of one component and
leaves the others alone, and join what is proved of each component.

### `ServerProofs`

Proofs for every set of clients and all bounds, under
`ServerAssumption` (`MaxConversationId` and `MaxTracked` positive naturals,
`MaxPending` a natural), which the code's constants satisfy.

| Theorem | Statement | Argument |
|---|---|---|
| `TypeCorrect` | `Spec => [](TypeOK /\ NoneStranded)` | `NoneStranded` is part of the induction: `startNextConversation` keeps the type of the posted call only because the flag agrees with it |
| `WaitingAreServed` | `Spec => []NoneStranded` | its part of the former, stated alone as the run checks it |
| `OwnersStayOnline` | `Spec => []OwnersOnline` | its two halves together are inductive over `TypeOK`: what `OnClosed` and eviction remove from the map they remove from the open questions |
| `AnsweredOnce` | `Spec => []OneAnswerPerAsk` | strengthened with: an open question has no answer yet |
| `AsksClosedByTheirOwn` | `Spec => AskClosedByItsOwn` | per action, from `OwnersOnline` |
| `TrackingStaysBounded` | `Spec => []TrackingBounded` | strengthened with finiteness of the map; lemma `FirstKeyInMap` (a non-empty set of naturals has a least element, by well-foundedness) shows that eviction does remove one |
| `ImplementsSerialQueue` | `Spec => ServesInOrder` | step simulation under the refinement mapping in `Server`, with two lemmas about sequences |

### `MCDialogueProofs`: the session

Under `LLMSessionAssumption`: `MaxToolRounds`, `MaxCalls` positive naturals,
`HistoryLimit`, `MaxAsks` naturals.  `setMaxToolRounds(0)` would disable tools; the
plugin's default is 5.

| Theorem | Statement | Argument |
|---|---|---|
| `TypeCorrect` | `Spec => [](TypeOK /\ RunIsLatest)` | `RunIsLatest` (the id in force is that of the last question) is needed for the type: a tool loop that ends posts under the current id, and only because that id is a question's is the request well-formed |
| `LatestIsSpoken` | `Spec => RepliesToLatest` | from `RunIsLatest` and `PostedByItsRun`: a request that counts was posted by the run of the last question, and was posted after that question was asked, also when an outer tool loop posted it |
| `InterruptedStaysSilent` | `Spec => []StoppedStaysSilent` | strengthened with `RunIsWanted`: the id in force is that of a question after the last interruption, as `abort` clears it |
| `BusyIsAlwaysServed` | `Spec => []BusyIsServed` | strengthened with `BusyHasId`: a busy session has an id, so `step` never calls the backend in vain; lemmas about removing a request from those in flight |

| `RepliesComeOneAtATime` | `Spec => []OneReplyAtATime` | `SessionSound`, see below |
| `PostedCallsHaveResults` | `Spec => []CallsHaveResults` | the same |
| `RoundsStayBounded` | `Spec => []RoundsBounded` | the same |

`LatestIsSpoken` and `InterruptedStaysSilent` hold for nested tool loops too, where
the last three properties fail; these are proved, as they are checked, for behaviours in
which no question was asked and no history reset inside a tool call.  `SessionSound`
is what is inductive there: there is one tool loop at most, and while it runs no
request counts (`LoopIsAlone`); one request counts at most and finds the session busy
(`OneIsLive`); behind each message with tool calls stand their results, but for as
many at the end as the loop still has to run (`ResultsFollow`); requests are counted
against rounds (`RoundsCounted`).  Trimming, aborting and failing keep
`ResultsFollow` by lemmas on sequences of messages.

### `MCDialogueProofs`: the conversation

Theorems over `Talk!Spec`, `Conversation` as the run has it, under `ConversationAssumption`: WebSocket and HTTP requests have different positive
ids, and the bounds are naturals.  So the calls may nest as deep as one likes, with
any number of requests and questions.

| Theorem | Statement | Argument |
|---|---|---|
| `TalkTypes` | `Talk!Spec => []Talk!TypeOK` | `askId` is the id of a WebSocket request only because the request in force is what `ExternalInForce` says |
| `CallsStayInOrder` | `Talk!Spec => []Talk!CallsInOrder` | see below |
| `HttpLeavesAnswers` | `Talk!Spec => Talk!HttpLeavesAskAlone` | a call of `GET /intent` on top is the request in force (`TopInForce`), so `canAsk` is false and it never leaves its plugin |
| `FirstAnswerKept` | `Talk!Spec => Talk!FirstAnswerWins` | per action |
| `AnswersStayKept` | `Talk!Spec => Talk!AnswersKept` | the two before |

The inductive invariant `IInv` joins to the type and `CallsInOrder`: a call whose
plugin runs asks nothing, and one of `GET /intent` has its id and is in its plugin
(`CallsSound`); a loop that is idle has no waiter and another exactly one
(`LoopInv`).  An action treats the calls in one of four ways: it leaves them alone,
moves the call on top, makes one or returns (`Quiet`, `Moves`, `Enters`, `Leaves`).
There is one lemma for each way, that it keeps the invariant, and one for each
action, which way it goes.  `ForceIn` is `InForce` with the calls as a parameter: the
lemmas `ForceGrows` and `ForceShrinks` compare it before and after a call or a return.

### `MCDialogueProofs`: the run

`RequestsStayWhole` (`RequestsWhole`), `TalkStaysInOrder` (`CallsInOrder`) and
`TalkKeepsAnswers` (`AnswersKept`): what is proved of the session and of the
conversation holds of the two in the run `dialogue`.

### `MCListeningProofs`: the play list

Under `AudioPlaylistAssumption`: the bounds are naturals.

| Theorem | Statement | Argument |
|---|---|---|
| `PlaylistTypes` | `Spec => []TypeOK` | the current track is in its list only because of `IndexInList`, and what is left of the sentences taken back is a sequence (lemmas on `InOrder`) |
| `SongsKeepOrder` | `Spec => [](IndexInList /\ NonePassedOver)` | below |
| `PauseIsKept` | `Spec => []UserPauseHolds` | below |
| `ChimesReturn` | `Spec => []ChimeReturns` | below |

The inductive invariant `PlayInv` joins to the type what a player state satisfies at
every moment (`Sound`: indices, positions, media and priority agree) and what is true
between handlers (`Fine`): while speech is in front no song is the medium, a song the
user paused does not play, and a chime somebody waits for plays or is about to.
Handlers are compositions of functions on the record `p`, so there is one lemma for
each function (what it keeps and what it moves: `Moved`), and one for each action.

### `MCListeningProofs`: the run

Under `WakeAssumption` (bounds are naturals) and that of the play list.

| Theorem | Statement | Argument |
|---|---|---|
| `PausedStaysOwed` | `MCSpec => []PausedIsOwed` | each call that ends with `Recorder::resume()` is counted by its frame; ending one either resumes or leaves another below |
| `WindowStaysSound` | `MCSpec => []AnswerWindow` | for any set of detectors, strengthened with the type and `CheckTimerFits` (the first detector's timer only runs where that detector is used); that the timer does not outlive its window is stated, and true, of the detectors whose `stop()` stops it (`StopsTimer`) |
| `OrderStaysKept`, `PauseStaysKept`, `ChimesStayReturned` | `MCSpec => []OrderKept`, ... | from the play list's |

### `AudioChainProofs`

Theorems over `AudioSpec`, the part of `pipeline` that `AudioChain` holds.  Under
`SizesAssumption` (no buffer and no chunk is empty, sizes are naturals: those of the
program are compiled in or set by the library's frame length) and `FilesAssumption`
(`FileCache` keeps 30 files, `FileCache.h:37`; two is what the proof needs, as one
millisecond has two names).

| Theorem | Statement | Argument |
|---|---|---|
| `AudioStaysWhole` | `AudioSpec => []AudioWhole` | `MicInv`, `RingInv` and `PathInv`, below |
| `OrderIsKept` | `AudioSpec => InOrder` | chunks per action from `MicInv`; sentences from `VoiceInv` |
| `SettingsStayKept` | `AudioSpec => SettingsKept` | `SavedIsThere`: the file the program reads next holds what was saved, unless it was cut off or edited |
| `FilesStayKept` | `AudioSpec => []FilesKept` | `CacheInv`: names ascend, no three are the same, and all but the oldest are on disk; `StoredInv`: a file is header and sound as written; `ReaderInv`: what was read lies between the sound's beginning and the reader's place |

`MicInv`: sizes are sizes, and only the device that reads has a callback
(`OneConnection`), which makes the chunk handed out one of that device.  `VoiceInv`: while
a blocking `say()` has the loudspeaker to itself, the sentences that play are numbered
without a gap, those in the synthesiser follow them, and `endIndex` is the number the last
will have.  `RingInv` gives the ring its length: the cells from `begin` on, modulo that
length, are the bytes written and not yet read, both when `begin = end` means full and when
it means empty.  `PathInv` has the two buffers of the wake-up chain end to end (`Buffers`)
and each report after the one before it (`Reports`); and, while no chunk loop has been
inside another, what the recogniser has heard ends where the outermost loop is (`InTurn`).

A header is read chunk by chunk, for any length, by a recursive function of the model.
Its value is found by induction over naturals in the form the provers can use, that a set
of naturals with 0 and with each successor is all of them (`Inductive`, from `Least`),
applied to the set of those lengths for which the claim holds (`WalkExists`).

### `MCPipelineProofs`

Theorems over the whole of `pipeline`.  Under `ListeningAssumption` (at least one voiced
chunk is asked for; trigger levels below 1 are raised to it, `livekitwakeup.cpp:16-17`)
and `LanguageAssumption` (bounds).

| Theorem | Statement | Argument |
|---|---|---|
| `ListeningStaysSound` | `Spec => []ListeningSound` | `DetectorInv`: the detector's counter is that of the voiced chunks but for those silero discards after a start; `TriggerInv`: the streak is the number of hits at the end of the scores that count, and no more samples, rows or features wait than a window takes |
| `MeaningStaysSound` | `Spec => []MeaningSound` | `HandedInv`: each slot handed to a plugin is one its intent declares, with a value the plugin can use; `RasaInv`: one service at most is alive; `SampleInv`: the rows of a training sentence put together are the sentence |

A sentence is put together row by row, for any length, by a recursive function, whose
value is found by `Inductive` as above (`FoldExists`, `FlattenIs`).

### `MCModelsProofs`

| Theorem | Statement | Argument |
|---|---|---|
| `AnswersStayWhole` | `Spec => []AnswersWhole` | of the streams `StreamsFit`: the fragments put together and those that arrived and were not read are those the service sent, index by index; of the tool server `ClientInv`: an id is the number of its request wherever it is, so a late answer never has the id of another request |
| `BackendsImplement` | `Spec => BackendsKeepPromise` | step simulation of `LLMBackend` by both back ends; of the local one `CallsFit`: a posted `onDone` is its worker's last call, and the worker is over |

### `MCPluginsProofs`

Under `PluginsAssumption`: the bounds and the batch size are naturals.  No assumption
limits how deep requests nest.

| Theorem | Statement | Argument |
|---|---|---|
| `DispatchStaysSound` | `Spec => []DispatchSound` | `ManagerInv`, below |
| `LoginStaysSound` | `Spec => []LoginSound` | `LoginInv`: before the places that send a message none was sent; `OfficialInv`: while a user is logged in what is saved is the session |
| `ResultsStayOwn` | `Spec => []ResultsAreOwn` | `HassInv` and `MusicInv`, below |

`ManagerInv` says of the calls in progress that their conversations have ids of their
own and that the table of speakers names the plugin of each, unless so many came that
its entry was given up (`SourcesFit`: `setSource` only gives up the oldest, which the
lemma `LeastNumber` finds by well-foundedness); and, while requests do not overlap, that
a call over all plugins began with the immersive flag down and the other calls with an
owner (`ImmersionFit`).  `HassInv` places a command of Home Assistant: it is among those
sent, or among those that wait for their event, or reported, in one of these only, and
an event on the wire belongs to one of the second kind.  `MusicInv` holds while calls do
not nest (`nestedCall`), as the property does: songs given to the player, songs that
wait and songs a search still tries are different ones of those found, and no more.

### Only model-checked

* Everything temporal beyond `[]` (liveness under fairness, `ENABLED`): the installed
  provers do not reach it.  `AcceptedIsServed`, `WebQuestionsReturn`,
  `LocalQuestionsReturn`, `ListensAgain`, `VoiceReturns`, `RequestsEnd`, `LoginsEnd`.
* `ConversionsSound` of `pipeline`: what `LivekitWakeWord`, `Funasr`, `OnnxNLU`,
  `TimeNormalizer` and `Yaml` compute is recursion over data, each with a form of its own;
  `QRCode` the same.
* `ToolsSound`: names are built by folding over the configured servers.

## 5. Known divergences

Places where the code's behaviour is surprising, found while modelling, that no
run reports as a violation.  Where a property is named, its module states it and TLC
refutes it with the bounds of the module's run; the others are what a property had to
be stated around.

1. **A microphone dialogue under a waiting web question** (`conversation.cpp:410`).
   A spoken question asked in the event loop of a web question shares `eventLoop`;
   when it is over it stops `externalAskTimer`, which only the web question had.
   With the bounds of `conversation_web`, `Speaker = {"command"}` and `MaxJobs = 1`,
   `WebQuestionsReturn` fails: nothing ends the outer wait.
2. **A late spoken answer is a command** (`conversation.cpp:147`).  What a text is, is
   decided when the recogniser reports; after a web answer has ended the question
   the spoken one is run as a command.
3. **Eviction after the wrap** (`server.cpp:282`).  The smallest id is taken for the
   oldest conversation; just after ids start again at 1 it is the newest.
4. **`prevadTimer` in an answer window** (`wakeup.cpp:134`).  Its handler sets `PREVAD`
   whatever the state; the window loses its audio until it ends by its timer.
   `WindowListens` is therefore stated for `enable_prevad = false`.
5. **The interval of an answer window** (`VadModel.h:33`).  `startDetect` leaves an
   active timer alone, so a window opened while a dialogue's timer runs closes
   after the dialogue's shorter interval.
6. **A timer stopped too late** (`VadModel.h:24`).  The timer's handler stops it after
   `detected()` returns (so does `detect()`, `VadModel.h:62`); when a nested handler has
   meanwhile started the next dialogue, that dialogue has no timer, and without voice does
   not end.  `VoiceDetector!ListeningEnds` fails without `~inside`.

7. **A question inside a tool call corrupts the history** (`LLMSession.cpp:209`).  Beside
   the two replies of `llm_nested`, the tool's result lands behind the new question,
   no longer behind its call; services refuse such a history.  `CallsHaveResults`
   fails without `~nested`.  The same follows from a reset inside a tool call.
8. **Trimming cuts through a round** (`LLMSession.cpp:64`).  `LLMSession.h:59` says whole
   rounds of dialogue are given up; messages are given up one by one, and the
   history may begin with a tool's result whose call is gone.
9. **No history is all history** (`Fallback.cpp:25`).  `setHistoryLimit(0)` is meant to
   keep none; `trimHistory` takes 0 for no limit.
10. **Half an answer is an answer** (`OpenAICompatibleBackend.cpp:88`).  A stream that
    ends with a network error is finished without an error.
11. **Leaving chat mode** (`chat.cpp:125`).  The closing words reset the session but
    leave `chatMode` set; outside immersive mode they do not abort the request, whose
    callbacks are dropped only since `reset` clears the id.
12. **The tail of a replaced reply** (`chat.cpp:150`).  A question handed over by another
    plugin does not clear `output`; the unspoken tail of the reply before is spoken in
    front of the next one.  `RepliesToLatest` is therefore about new text.

13. **Speech in a chime** (`audioplaylist.cpp:22`).  A sentence added during a chime
    replaces it in the player, and the sentence's end is taken for the chime's: its
    `playEnd` is swallowed, which a blocking `say()` waits for.
14. **A chime cut short** (`audioplaylist.cpp:268`, `:406`).  `Player::stop` resets `isSound`
    and a user's pause holds the chime; neither lets its caller go, and only a
    later end or error of a chime does.
15. **A song that is still loading is lost** (`audioplaylist.cpp:371`).  With a backend that
    plays only once media are loaded, speech added meanwhile does not mark the song
    as held, and the song after it comes next.  `NonePassedOver` is therefore about
    songs started, not about songs heard.
16. **Resume as next** (`audioplaylist.cpp:387`).  A pause during speech holds the speech's
    list; when the speech is taken back the song starts and is silenced, but is not
    marked as held, and `resumeByUser` goes on to the next song, the branch its comment
    means to avoid.
17. **A list overtaken** (`audioplaylist.cpp:105`).  `playNext(true)` takes its list before it
    emits `playEnd`; when a listener waits and speech comes meanwhile, it goes on with
    the other list and may start a song under the user's pause.
18. **Not started after a stop** (`audioplaylist.cpp:204`).  After `Player::stop` or an
    error the status is neither `NoMedia` nor `EndOfMedia`, and an added song waits for
    the next `playNext`.

19. **A stale answer** (`conversation.cpp:437`).  `AnswerFitsQuestion`: `onExternalAnswer`
    compares conversation ids only.  A plugin asks twice in one request, the first
    question times out or is answered by voice, and a web answer to the first question
    is returned for the second, against the comment at `conversation.cpp:439`.
20. **Listening before the end** (`conversation.cpp:239`).  `Speech!HeardBeforeListening`: while
    other sentences are in the synthesiser, `endIndex` is counted from an `index` that has
    not seen them, and a blocking `say()` ends before its last sentence has been heard.
    A sentence that fails to synthesise or is removed leaves it waiting.
21. **Voice detectors.**  `StopIsQuiet`: fvad, cobra and duilite replace `stop()` and leave the
    timer running, against `wakeup.cpp:313`; `Wakeup!ResponseTimerInWindow` is stated for the
    two that do not (`StopsTimer`).  `WindowLasts`: see 5.  `ResetBeforeAudioStart`:
    silero is not reset before a window (`silerovad.cpp:136`).  Duilite with too few voiced
    chunks stops the timer and reports nothing.
22. **Chunk loops in chunk loops** (`wakeup.cpp:208`).  The inner loop goes over the buffer from
    its start; chunks are handled twice.  Chunks after a dropped utterance reach the next
    one, as `SherpaASR::clear` keeps the stream.
23. **Missing recogniser model.**  `SherpaASR` without its model never reports, and the
    microphone stays off after the first utterance.
24. **OpenwakeOnnx** (`openwakeonnx.cpp:131`).  With a trigger level above 1, its default, it
    wakes nobody; its threshold is truncated to an integer.  Nothing uses it.
25. **Mel levels at the border** (`livekitwakeword.cpp:143`).  `MelIsExact`: the dynamic range is cut
    per batch of frames, so a frame whose batch has partly left the window may keep a
    level the whole window would not give it, against line 79.
26. **Chunks** (`recorder.h:115`).  `ChunksWhole`: a callback that changes the chunk size makes the
    loop hand out a chunk of the old size, or a partial one.
27. **Sounds.**  Two sounds written in one millisecond share a file; play-list entries older than
    30 sounds point to removed files; odd chunks are not padded; `ReadData` reads past
    the data chunk (`OnlySound`); a start sound that cannot be opened is still read.
28. **FunASR.**  `HotwordsOnlyHelp`: a model with hot-word input fails without hot words
    (`funasr.cpp:799`).  `NothingLost`: a word at the end that waits for its continuation is
    dropped, and with weights that sum to 0 the time stamps are read out of range.
29. **NLU.**  `TooSoftMeansLouder`: "too soft" is read as softer by the language-model engine
    (`llmnlu.cpp:346`).  `EnginesAgree`: the engines' tables differ for the same entities.
30. **Rasa.**  `PosixGetsActivate`: a virtual environment with `bin/rasa` is given that, not the
    activate script.  `RowNamesIntent`: a row of `qa.csv` may carry the intent of another
    sentence.  `CanBeStopped`: a second start overwrites the pid of the service that runs.
31. **Times.**  `UnknownIsEmpty`: month 13 is taken for a month (`TimeNormalizer.h:26`).
    `EveningsAreLate`: this evening at twelve was this morning.
32. **YAML.**  `RoundTrip`: some scalars, empty containers in sequences and texts with a final
    newline come back as others (`Yaml!Loses`).
33. **Configuration.**  `SaveKeepsOthers`: a save writes all sections as read at the start, and undoes
    edits made meanwhile.  A write that is cut off loses the settings.
34. **PluginManager.**  `ImmersivePluginThere`: the flag is set before the owner
    (`pluginmanager.cpp:140`).  `NothingDangles`: a handler still waiting returns into unloaded
    code.
35. **NetEase.**  `AnswersMayBeLost`: a song without an address is read as if it had one
    (`neteasemusic.cpp:1356`).  `QrOffered`: an anonymous token from the last run hides the QR code.
    The access token is never cleared, so the renewal at `neteasemusic.cpp:1621` only happens
    after somebody has edited the file (`NeteaseOfficial!Edited`).
36. **Home Assistant.**  `SaidToLast`: with two commands under way the outcome is said to the
    conversation of the second.  A missing slot drops the text before its placeholder.  A
    command to the assistant that has a response too is reported by both (`hass.cpp:243`,
    `260`); `Hass` gives a command one way to report.
37. **Back ends.**  `DoneTellsFailure` (`LLMBackend.h:36`): see 10.  `AbortStops`: an abort of everything
    aborts nothing in the local model (`LLMBackend.h:40`).  `FitsIsServed`: a context is not
    emptied after an aborted run, and the next prompt may not fit.  A worker's abort test
    keeps a reference to a local of `chat()` (`LlamaCppBackend.cpp:421`).
38. **MCP.**  `ServerOutlivesStart`: the client kills a server that fails to initialise
    (`MCPClient.cpp:157`, against `:29`).  Pages of tools are asked for without limit, and `stop()`
    leaves the tools registered, against `MCPClient.h:56`.  On Windows `bind()` is given a
    process id for a handle (`MCPClient.cpp:195`), and binds nothing: `windows = FALSE`
    covers it.
39. **Tools.**  `PrefixSeparates`: `mcp_a_b_c` is tool `b_c` of `a` and tool `c` of `a_b`
    (`MCPClient.h:65`).  `ErrorsExplained`: an error may have no text (`LLMTypes.h:116`).
40. **An empty command under a question** (`conversation.cpp:157`).  While a wake-word command
    asks, the microphone stays on for its prompt.  An utterance that begins there and turns
    out to be empty when the answer window is open calls `finish()`, which closes the window;
    nothing ends the question.  With `Speaker = {"command", "intent", "impatient"}`
    `LocalQuestionsReturn` fails with the bounds of `conversation_mic`.

## 6. What is not modelled, and why

* Neural networks, signal processing (feature extraction, echo cancellation), speech
  synthesis, sampling of the local model: computation on numbers without control of its
  own; their verdicts are free choices.
* Wake-word engines and recognisers that only call a vendor's library.
* Audio pre-processing: its chunk size is a constant of `AudioPath`, its algorithms are
  libraries.
* JSON, static files, ping/pong, logging, MQTT, serialisation: no state that decides
  anything.
* Weather, volume control, system information, quitting: one intent and at most one web
  request each; in `Conversation` they are a call that may ask, wait and return.  Weather
  takes the time once for the whole program (`weather.cpp:34`), and its loops have no
  timeout.
* `BaiduNLU`: not compiled in by default; the small copies of other engines likewise.
* The regular expressions of `TimeNormalizer`, the lists of devices of Home Assistant, the
  signing of NetEase requests: data without control.
* Resume positions of media and the caches of spoken texts.
* Single details inside modelled components.  A file that cannot be opened for writing
  (`FileCache.h:29-32`) and the format check of a header (`wavfilereader.cpp:48`); a tool
  server's requests of its own, which the client takes for responses
  (`MCPClient.cpp:489-496`); the play list's trimming as the NetEase plugin sees it
  (`audioplaylist.cpp:132-141`; `AudioPlaylist` has it); entries of `responsesList` that a
  result fits (`hass.cpp:126-133`); a token file cut off while it is written.
  `AudioPath` clears the cache of an utterance in the step that reports it, the code a
  few lines later (`conversation.cpp:164`), with nothing in between that looks.
* `PluginManager::quitImmerSive`, which no plugin calls.
* Vendored headers (`src/lib`).

## 7. Plan

Done: the modules of section 2 and the theorems of section 4.  Left, in this order:

1. `ToolsSound`, and the parts of `ConversionsSound` whose recursion is over one index
   (`LivekitWakeWord`, `OnnxNLU`), by the induction of `MCPipelineProofs`.
2. Nested chunk loops (22): what is kept of an utterance when loops do nest.
3. `Microphone`: the abstract promise of `Wakeup` to `Conversation` (`listening`, `window`,
   `closed`), and `Wakeup` shown to implement it.
4. Resume positions in `AudioPlaylist`, `stopWakeup`.
