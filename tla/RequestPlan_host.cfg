\* The clients that send through a library of their own.
SPECIFICATION PlanSpec
CONSTANTS
  Plans <- LibraryPlans
INVARIANTS
  HostOverrides
