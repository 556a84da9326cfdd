CONSTANTS
  Requests = {1, 2}
  MaxIndex = 1
  MaxLines = 2
  Dirs = 2
  NCtx = 10
  Limit = 2
  Margin = 1
  Prompts = {3, 8}
  AbortIds = {0, 1}
  MaxSyncs = 1
  MaxServerCalls = 5
  MaxPages = 1
  MaxToolCalls = 2
SPECIFICATION FairSpec
INVARIANTS AnswersWhole
PROPERTIES BackendsKeepPromise ToolsSound RequestsEnd
CHECK_DEADLOCK FALSE
