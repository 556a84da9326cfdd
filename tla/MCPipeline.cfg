CONSTANTS
  MinChunk = 2
  DetectSlient = 2
  UndetectSlient = 3
  ResponseSlient = 4
  AbandonNum = 1
  MaxVoiced = 3
  Packet = 2
  ProcessChunk = 3
  WakeChunk = 2
  VadChunk = 1
  MaxCaptured = 10
  MaxDepth = 2
  TriggerLevels = {1, 2, 3}
  Refractory = 2
  ChunkSamples = 2
  ChunkMels = 3
  EmbWindow = 4
  EmbStep = 2
  WwFeatures = 2
  MaxScores = 8
  Hop = 2
  Kernel = 5
  FramesPerStep = 3
  WindowSamples = 24
  MinEmbeddings = 3
  TopDb = 1
  Levels = {0, 2}
  MaxSteps = 6
  ChunkSizes = {0, 2}
  MaxRecorded = 5
  MaxDevice = 2
  MaxNesting = 2
  Default = 3
  Sizes = {1, 2, 4}
  MaxBuffered = 7
  Steps <- VolumeSteps
  Limit = 2
  Rates = {8, 16}
  Sounds <- TwoSounds
  Others <- OtherFiles
  MaxWrites = 4
  BufLength = 2
  Kinds = {"", "chat"}
  MaxSays = 2
  MaxSentences = 2
  MaxFailures = 1
  Stackings <- Stackings3
  MaxFrames = 6
  MaxTokens = 3
  MaxHotword = 2
  Hotwords <- Words
  Weights <- Alphas
  EpsInv = 10000
  MaxSlots = 2
  Thresholds = {6}
  MaxSentence = 3
  MaxLen = 4
  Heads = {1, 3}
  Tails = {1, 2}
  Codes <- SlotCodes
  MonthDays <- Months
  Nows <- Times
  Numbers <- ManyNumbers
  Phrases <- TimePhrases
  Venvs <- VenvTrees
  Models = {"a", "b"}
  MaxServers = 4
  MaxText = 4
  MaxEntities = 2
  Values <- YamlValues
  Commented <- YamlComments
  ShortArray = 2
  MaxTree = 5
  Sections = {"wakeup", "hass"}
  MaxValue = 2
SPECIFICATION FairSpec
INVARIANTS ListeningSound AudioWhole FilesKept ConversionsSound MeaningSound
PROPERTIES InOrder SettingsKept VoiceReturns
CHECK_DEADLOCK FALSE
