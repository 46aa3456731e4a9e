CONSTANTS
  Jobs = {j1}
  Workers = {w1}
  NoJob = NoJob
  Stop = Stop
  PageSize = 2
  MaxFailures = 0
SPECIFICATION JbFairSpec
PROPERTIES FailureIsAnnounced
CHECK_DEADLOCK FALSE
