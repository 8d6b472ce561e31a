\* One fork, two branches, two requests; small bounds for the other parts.
CONSTANTS
  Origin = origin
  Fork = {fork}
  Branch = {main, topic}
  Guarded = {main}
  MaxCommits = 3
  MaxRequests = 2
  MaxFaults = 1
  N = 4
  Ref = {"main"}
  Client = {1, 2}
  MaxPushes = 2
  MaxFetches = 1
  TransferFaults = 1
  Block = {"a", "b", "c"}
  Legacy = {"a", "b"}
  MaxWrites = 3
  BlockFaults = 2
  OID = {"a", "b"}
  MaxUploads = 4
  LargeFaults = 2
  Revision = {"c1", "c2"}
  Query = {1, 2}
  MaxMoves = 2
  SearchFaults = 1
SPECIFICATION PartsSpec
INVARIANTS PushesSound   ContentKept AnswersCurrent
PROPERTY ProtectedForward
CHECK_DEADLOCK FALSE
