SPECIFICATION Spec
CONSTANTS
  Event = {1, 2}
  p1 = p1
  Payload = {p1}
  Absent = Absent
  Torn = Torn
  MaxOps = 5
  MaxFaults = 2
INVARIANTS
  StoreInv
PROPERTIES
  KeepsPromises
CHECK_DEADLOCK FALSE
