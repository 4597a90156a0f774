\* A budget of four attempts with a deadline, two requests per connection,
\* three hosts and two server names.
SPECIFICATION Spec
CONSTANTS
  Requests = {4}
  HasDuration = TRUE
  Rpc = 2
  Targets = 3
  Names = 2
  Global = 1
  Status = {200, 404}
  Horizon = 4
INVARIANTS
  TypeOK
  AttemptsRecorded
  ResponsesCounted
  BudgetRespected
  ClosesOnLast
  NoIdleChurn
  TargetsRotate
  NamesRotate
  OneLateRequest
PROPERTIES
  ImplementsWorker
