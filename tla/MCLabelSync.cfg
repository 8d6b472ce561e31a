\* Two daemons that both know the label by its name; no faults.
CONSTANTS
  Node = {1, 2}
  Color = {c1}
  NoColor = NoColor
  MaxOps <- Both
  MaxFaults = 0
SPECIFICATION Spec
INVARIANT LabelLogs
PROPERTY RemovedStays
CHECK_DEADLOCK FALSE
