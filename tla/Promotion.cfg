SPECIFICATION FairSpec
CONSTANTS
  MaxContent = 2
  MaxMoves = 2
  MaxRequests = 2
  MaxFaults = 1
INVARIANTS
  LandsOnce
  ApprovalRecoversUnlessBlocked
  FilesInv
PROPERTIES
  WrittenAheadReachesReaders
  LandsAuthorized
CHECK_DEADLOCK FALSE
