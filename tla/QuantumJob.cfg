SPECIFICATION Spec
CONSTANTS
  NTasks = 2
  Kind = "aws"
  Thread = {1, 2}
  First = {"QUEUED"}
  May <- MayPollAndCancel
  GiveUps = FALSE
INVARIANTS
  TypeOK
  FinalAnswersAgree
PROPERTIES
  ImplementsLifecycle
  AnswersNeverRegress
