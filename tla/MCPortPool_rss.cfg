\* Three tasks on two queues of five ports each.
SPECIFICATION Spec
CONSTANTS
  Total = 3
  Entries = 10
  Stride = 2
  MaxCandidates = 3
  Queue <- EvenQueues
  MaxGen = 3
INVARIANTS
  OwnPort
  Sticky
CHECK_DEADLOCK FALSE
