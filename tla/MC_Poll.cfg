SPECIFICATION FairSpec
CONSTANTS
  Stops = {s1, s2}
  NoStop = NoStop
  NoStreak = NoStreak
  Interval = 6
  Retry = 1
  OfflineAfter = 12
  FetchTimeout = 3
  MaxRequests = 3
INVARIANTS
  TypeOK
  BoardIsCurrent
  AddressShown
  OfflineOnlyAfterStreak
  
PROPERTIES
  SavedStopShown
