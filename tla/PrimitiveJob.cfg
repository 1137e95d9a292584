SPECIFICATION FairSpec
CONSTANTS
  NExecutables = 3
  Limit = 2
  Device = "aws"
  Stubborn = {1}
  Thread = {1, 2}
  May <- MayDo
INVARIANTS
  ResultIsWhole
PROPERTIES
  OverIsForGood
  ResultStays
  CancelEndsOtherTasks
