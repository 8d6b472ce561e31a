\* One daemon, failed saves and crashes.
CONSTANTS
  Node = {1}
  Agent = {a1}
  Verdict = {"comment"}
  Protected = FALSE
  Limit = 2
  MaxOps <- Alone
  MaxFaults = 1
SPECIFICATION Spec
INVARIANT LandsOnce
PROPERTY CompactionKeepsPR
CHECK_DEADLOCK FALSE
