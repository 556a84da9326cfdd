CONSTANTS
  MaxToolRounds = 1
  MaxCalls = 2
  MaxAsks = 3
  HistoryLimit = 3
  WebConv = {1}
  HttpConv = {2}
  Speaker = {"command", "intent", "impatient"}
  MaxDepth = 3
  MaxQuestions = 2
  MaxJobs = 2
SPECIFICATION MCSpec
INVARIANTS TypeOK OneReplyAtATime BusyIsServed StoppedStaysSilent RequestsWhole CallsInOrder
PROPERTIES RepliesToLatest AnswersKept
CHECK_DEADLOCK FALSE
