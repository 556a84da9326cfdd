CONSTANTS
  WebConv = {}
  HttpConv = {1, 2}
  Speaker = {"command", "intent"}
  MaxDepth = 3
  MaxQuestions = 1
  MaxJobs = 1
SPECIFICATION FairSpec
PROPERTIES LocalQuestionsReturn ListensAgain
CHECK_DEADLOCK FALSE
