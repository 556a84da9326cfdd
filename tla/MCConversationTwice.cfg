CONSTANTS
  WebConv = {}
  HttpConv = {}
  Speaker = {"command"}
  MaxDepth = 2
  MaxQuestions = 2
  MaxJobs = 2
SPECIFICATION FairSpec
PROPERTIES LocalQuestionsReturn
CHECK_DEADLOCK FALSE
