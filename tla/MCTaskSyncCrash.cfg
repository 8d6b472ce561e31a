\* A failed save or publish, a repeated delivery or a crash, one, anywhere.
CONSTANTS
  Node = {1, 2}
  Agent = {a1}
  Result = {r1}
  NoAgent = NoAgent
  NoResult = NoResult
  MaxOps <- Small
  MaxFaults = 1
SPECIFICATION Spec
INVARIANTS CausalHistory 
 
CHECK_DEADLOCK FALSE
