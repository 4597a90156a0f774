\* Reconnects every request, two server names.
SPECIFICATION Spec
CONSTANTS
  Requests = {4}
  HasDuration = TRUE
  Rpc = 1
  Targets = 2
  Names = 2
  Global = 1
  Status = {200, 404}
  Horizon = 4
  MultiThread = FALSE
  HasBody = FALSE
  Unstable = 3
INVARIANTS
  NamesRotate
