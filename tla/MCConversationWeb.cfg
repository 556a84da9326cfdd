CONSTANTS
  WebConv = {1, 2}
  HttpConv = {3}
  Speaker = {}
  MaxDepth = 3
  MaxQuestions = 3
  MaxJobs = 0
SPECIFICATION TimerSpec
PROPERTIES WebQuestionsReturn
CHECK_DEADLOCK FALSE
