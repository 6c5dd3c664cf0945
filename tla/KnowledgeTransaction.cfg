SPECIFICATION FairSpec
CONSTANTS
  x1 = x1
  x2 = x2
  x3 = x3
  a = a
  b = b
  Tx = {x1, x2, x3}
  Ki = {a, b}
  KiOf <- MCKiOf
  None = None
  Absent = Absent
  Corrupt = Corrupt
  RetentionLimit = 1
  MaxCalls = 4
  MaxFaults = 1
  MaxDamage = 1
INVARIANTS
  HistoryInv
PROPERTIES
  InterruptedResolves
  ImplementsKnowledgeBase
CHECK_DEADLOCK FALSE
