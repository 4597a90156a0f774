\* --rpc 1, the mode documented to measure connections per second.
SPECIFICATION Spec
CONSTANTS
  Requests = {3}
  HasDuration = FALSE
  Rpc = 1
  Targets = 1
  Names = 1
  Global = 0
  Status = {200}
  Horizon = 3
INVARIANTS
  ConnectionsCounted
