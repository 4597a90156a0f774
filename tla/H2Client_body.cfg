\* -m with a request body: the connection may die between two calls of
\* the task.
SPECIFICATION Spec
CONSTANTS
  Requests = {3}
  HasDuration = TRUE
  Rpc = 2
  Targets = 1
  Names = 1
  Global = 1
  Status = {200, 404}
  Horizon = 4
  MultiThread = TRUE
  HasBody = TRUE
  Unstable = 3
INVARIANTS
  H2Promises
PROPERTIES
  Ends
