\* Both transports, two of three tools called, three calls on connections
\* of two, up to two events of the server that nobody asked for.
SPECIFICATION McpSpec
CONSTANTS
  Requests = {3}
  HasDuration = TRUE
  Rpc = 2
  Targets = 2
  Names = 1
  Global = 1
  Status = {200, 202, 404}
  Horizon = 3
  Transports = {"streamable", "sse"}
  Sessions = {0, 1}
  ToolList <- Offered
  Wanted = {1, 3}
  MaxNoise = 2
INVARIANTS
  SessionCarried
  ToolsInTurn
PROPERTIES
  KeepsWorker
  McpEnds
