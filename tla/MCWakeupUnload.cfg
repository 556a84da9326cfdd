CONSTANTS
  Vads = {"silero"}
  WebAsks = TRUE
  MaxDepth = 3
  MaxJobs = 1
SPECIFICATION Spec
INVARIANTS DetectorHears
CHECK_DEADLOCK FALSE
