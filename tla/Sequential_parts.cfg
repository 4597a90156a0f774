\* Each part on inputs of its own: any three options, a list of five ports on
\* three queues, a list of seven on two, which the candidates come round.
SPECIFICATION SeqSpec
CONSTANTS
  Asked <- ThreeOptions
  Total = 3
  Entries = 7
  Stride = 2
  MaxCandidates = 8
  Reconnects = 7
  Patterns <- ThreeParts
  Plans <- AllPlans
  Streams <- AsciiStreams
  RssInputs <- FourTuples
  Ports = {1, 2, 3, 4, 5}
  Queues = {0, 1, 2}
INVARIANTS
  AutoPicksCapable
  EngineCanRun
  OffersDiffer
  RangesExpand
  TablesAgree
  SpreadEvenly
  ListIsBalanced
  RequestsAddressed
  CookiesInScope
  EventsWhole
