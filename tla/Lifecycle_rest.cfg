SPECIFICATION FairSpec
CONSTANTS
  Callers = {c1}
  Nodes <- GraphNodes
  Limit <- BudgetLimits
  Policy <- VerificationPolicy
  Blocking = {"lint", "unit"}
  MaxRetrievals = 1
  RetryMax = 1
  RetryDuration = 1
  MaxIterations = 2
  Durations = {1, 10}
  MaxUpsets = 1
PROPERTIES
  ComesToRest
CHECK_DEADLOCK FALSE
