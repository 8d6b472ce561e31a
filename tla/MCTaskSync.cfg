\* Two daemons, no faults; fair hooks, merges and deliveries in any order.
CONSTANTS
  Node = {1, 2}
  Agent = {a1, a2}
  Result = {r1}
  NoAgent = NoAgent
  NoResult = NoResult
  MaxOps <- Long
  MaxFaults = 0
SPECIFICATION LiveSpec
INVARIANTS TypeOK HappensBefore CausallyClosed NoDuplicates ViewSupported
PROPERTY EventuallyAgree
CHECK_DEADLOCK FALSE
