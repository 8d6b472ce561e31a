\* A merge after a push; no faults.
CONSTANTS
  Origin = origin
  Fork = {}
  Branch = {main, topic}
  Guarded = {main}
  MaxCommits = 4
  MaxRequests = 3
  MaxFaults = 0
SPECIFICATION Spec
PROPERTY MergeKeepsTarget
CHECK_DEADLOCK FALSE
