SPECIFICATION FairSpec
CONSTANTS
  Creds = {good, bad}
  GoodCreds = {good}
  Selections = {s1, s2}
  Layouts = {l1, l2}
  Modes = {"Default", "Focus", "Custom"}
  Legacy = FALSE
  Faults = {"init", "read", "serialize", "erase", "write"}
  None = None
INVARIANTS
  TypeOK
  MirrorsFollowFlash
  StationKeepsCreds
  OnlyWorkingCreds
  
PROPERTIES
  RequestTried
  JoinEnds
