CONSTANTS
  MaxToolRounds = 1
  MaxCalls = 1
  MaxAsks = 2
  HistoryLimit = 0
SPECIFICATION Spec
INVARIANT RepliesDoNotMix
CHECK_DEADLOCK FALSE
