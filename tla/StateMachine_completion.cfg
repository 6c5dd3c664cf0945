SPECIFICATION FairMachine
CONSTANTS
  MaxToken = 2
  MaxRevision = 4
  MaxClock = 0
  MaxFailures = 2
PROPERTIES
  InterruptedCompletionResumes
CHECK_DEADLOCK FALSE
