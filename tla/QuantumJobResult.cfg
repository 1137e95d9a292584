SPECIFICATION FairSpec
CONSTANTS
  NTasks = 2
  Kind = "aws"
  Thread = {1, 2}
  First = {"QUEUED"}
  May <- MayGetResult
  GiveUps = TRUE
INVARIANTS
  ResultItemsFitStatus
  ResultIsComplete
PROPERTIES
  ResultNotBehindAnswer
  CancelEndsJob
  CancelReleasesResult
