CONSTANTS
  MaxPlayedHistory = 1
  MaxSongs = 2
  MaxSpeech = 2
  MaxNested = 1
  Vads = {"silero", "fvad"}
  WebAsks = TRUE
  MaxDepth = 4
  MaxJobs = 2
SPECIFICATION MCSpec
INVARIANTS UserPauseHolds ChimeReturns OrderKept PausedIsOwed AnswerWindow
CHECK_DEADLOCK FALSE
