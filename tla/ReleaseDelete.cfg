\* Two daemons, no faults.
CONSTANTS
  Node = {1, 2}
  MaxOps = 3
  MaxFaults = 0
SPECIFICATION Spec
INVARIANT DeletionReplicates
CHECK_DEADLOCK FALSE
