SPECIFICATION FairSpec
CONSTANTS
  t1 = t1
  t2 = t2
  t3 = t3
  m1 = m1
  m2 = m2
  Catalog = Catalog
  Nobody = Nobody
  Thread = {t1, t2, t3}
  Manager = {m1, m2}
  ManagerOf <- MCManagerOf
  Execution = {1}
  Deadlines = TRUE
  MaxOps = 3
  MaxFaults = 1
INVARIANTS
  NoLeakedRegistration
  NoCircularWait
  ListingIsExact
  OwnershipInv
PROPERTIES
  OperationsTerminate
  ImplementsFencedLock
CHECK_DEADLOCK FALSE
