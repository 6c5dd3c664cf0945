SPECIFICATION FairControl
CONSTANTS
  c1 = c1
  c2 = c2
  Canceller = {c1, c2}
  Runner = Runner
  None = None
  Torn = Torn
  MaxCommands = 2
  MaxMishaps = 1
INVARIANTS
  QuiescentMeansQuiet
  ControlInv
PROPERTIES
  RequestConcludes
CHECK_DEADLOCK FALSE
