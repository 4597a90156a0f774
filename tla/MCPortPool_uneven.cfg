\* Queues of three and two ports.
SPECIFICATION Spec
CONSTANTS
  Total = 2
  Entries = 5
  Stride = 2
  MaxCandidates = 3
  Queue <- UnevenQueues
  MaxGen = 3
INVARIANTS
  Sticky
CHECK_DEADLOCK FALSE
