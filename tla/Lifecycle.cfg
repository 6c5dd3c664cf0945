SPECIFICATION Spec
CONSTANTS
  Callers = {c1, c2}
  Nodes <- GraphNodes
  Limit <- BudgetLimits
  Policy <- VerificationPolicy
  Blocking = {"lint", "unit"}
  MaxRetrievals = 0
  RetryMax = 2
  RetryDuration = 1
  MaxIterations = 3
  Durations = {1, 10}
  MaxUpsets = 1
INVARIANTS
  LifecycleInv
  EffectsOnce
  BoundsSurvive
  VerdictIsEarned
SYMMETRY CallersAreAlike
CHECK_DEADLOCK FALSE
