CONSTANTS
  MaxRequests = 4
  MaxNesting = 3
  MaxSources = 2
  MaxWaiting = 2
  MaxProbes = 2
  MaxAttempts = 3
  MaxSilent = 1
  Batch = 2
  MaxFound = 3
  MaxSongs = 5
  MaxMusicCalls = 2
  MaxPolls = 3
  MaxCommands = 3
  Sizes = {0, 17, 18, 33, 106, 107}
  Patterns = {3, 100}
  Scale = 2
  QuietZone = 4
SPECIFICATION FairSpec
INVARIANTS DispatchSound LoginSound ResultsAreOwn
PROPERTIES LoginsEnd
CHECK_DEADLOCK FALSE
