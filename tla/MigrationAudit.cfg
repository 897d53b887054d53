\* Fifteen pairs of sites; two runs, two failed or short answers, one edit by a user.
SPECIFICATION Spec
CONSTANTS
  Sites <- MCSites
  NoFile = NoFile
  NoValue <- None
  NoBody <- Empty
  NewIssue <- New
  OtherBody <- Written
  SysFloor = 2
  SysShare = 30
  SysEmpty = 85
  PageSize = 2
  InlineCap = 2
  MaxRuns = 2
  MaxFaults = 2
  MaxEdits = 1
CHECK_DEADLOCK FALSE
INVARIANTS TypeOK NoFalseClean NoFalseAlarm FidelityAgrees
