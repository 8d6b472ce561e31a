\* Two daemons and a protected branch.
CONSTANTS
  Node = {1, 2}
  Agent = {a1}
  Verdict = {"approve"}
  Protected = TRUE
  Limit = 9
  MaxOps <- Approving
  MaxFaults = 0
SPECIFICATION Spec
INVARIANTS PRLogs 
CHECK_DEADLOCK FALSE
