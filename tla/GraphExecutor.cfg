SPECIFICATION FairSpec
CONSTANTS
  Nodes <- GraphNodes
  Entry = "analyze"
  Outcome <- TerminalStates
  OnSuccess <- SuccessEdges
  OnFailure <- FailureEdges
  MaxIterations <- RetryPolicies
  Agents = {"generate"}
  Humans = {"approval"}
  Outputs <- NodeOutputs
  Limit <- BudgetLimits
  Candidates = 2
  MaxToolSteps = 3
  Durations <- CallDurations
  MaxFaults = 2
INVARIANTS
  ReadersAccept
  AccountInv
  MovesAreEarned
PROPERTIES
  NothingAfterExcess
  ComesToAnEnd
  ImplementsTraversal
CHECK_DEADLOCK FALSE
