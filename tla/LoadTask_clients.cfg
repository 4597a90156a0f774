\* Every client but hyper and h2: a budget of three attempts with a
\* deadline, two requests per connection, two hosts and two server names.
SPECIFICATION LoadSpec
CONSTANTS
  Requests = {3}
  HasDuration = TRUE
  Rpc = 2
  Targets = 2
  Names = 2
  Global = 1
  Status = {200, 404}
  Horizon = 3
  MaxExtras = 1
  MaxHops = 2
INVARIANTS
  LedgerBalances
  RepliesMatch
  BudgetRespected
  PerConnection
  NoIdleChurn
  NamesRotate
PROPERTIES
  LoadImplementsWorker
