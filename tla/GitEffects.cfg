SPECIFICATION FairSpec
CONSTANTS
  MaxMoves = 2
  MaxFaults = 1
  MaxNodes = 2
  MaxCommands = 2
INVARIANTS
  GitInv
  CompensationIsProven
PROPERTIES
  HookRunsApproved
  NoWorkIsLost
  RollbackSettles
CHECK_DEADLOCK FALSE
