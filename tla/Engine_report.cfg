\* Two instances share three connections; a task records at most one
\* outcome before it ends or panics, against the meter's six swaps.
SPECIFICATION Spec
CONSTANTS
  Instances = 2
  Connections = 3
  Kinds = {"fail"}
  Attempts = 1
INVARIANTS
  ReportComplete
  IndicesExact
  MeterConserves
  DisplayAgrees
PROPERTIES
  Finishes
