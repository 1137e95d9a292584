SPECIFICATION Spec
CONSTANTS
  NTasks = 1
  Kind = "programset"
  Thread = {1, 2}
  First = {"CREATED", "INITIALIZED", "QUEUED"}
  May <- MayDoAll
  GiveUps = TRUE
INVARIANTS
  ProgramSetResultIsWhole
