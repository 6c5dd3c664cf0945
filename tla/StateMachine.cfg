SPECIFICATION FairMachine
CONSTANTS
  MaxToken = 2
  MaxRevision = 4
  MaxClock = 1
  MaxFailures = 2
INVARIANTS
  ReplayNeverFails
  ReadyIsSettled
  EvidenceMatches
PROPERTIES
  InterruptedTransitionsResume
  ImplementsExecutionLife
CHECK_DEADLOCK FALSE
