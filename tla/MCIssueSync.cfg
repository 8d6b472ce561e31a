\* Two daemons, no faults.
CONSTANTS
  Node = {1, 2}
  Label = {l1}
  MaxOps <- Both
  MaxFaults = 0
SPECIFICATION Spec
INVARIANTS IssueSound PublishedIsKept
PROPERTY ClosedStays
CHECK_DEADLOCK FALSE
