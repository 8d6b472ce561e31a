\* Small bounds for each part; the fairness is that of the parts.
CONSTANTS
  MaxPosts = 3
  MaxVotes = 1
  MaxReads = 1
  PostFaults = 2
  Column = {"todo", "done"}
  Elsewhere = "none"
  MaxCards = 3
  BoardFaults = 2
  Slug = {"a", "b"}
  MaxPages = 3
  MaxEdits = 2
  PageFaults = 2
  Peer = {"a", "b"}
  Agent = {"x"}
  Rating = {0, 100}
  MaxAttested = 2
  MaxSeen = 1
  AgentFaults = 1
  MaxHooks = 2
  MaxEvents = 1
  HookFaults = 1
  Client = {1, 2}
  Caller = {1}
  Cap = 1
  HubCap = 1
  MaxMessages = 1
  MaxPings = 1
  Job = {1, 2}
  Steps <- StepsOf
  Object = {1, 2}
  Empty = {2}
  MaxRecent = 1
  MaxPushes = 2
  ObjectFaults = 1
SPECIFICATION PartsSpec
INVARIANTS  HooksKept BroadcastsSafe StatusTrue ObjectsTrue
PROPERTIES HubServes LoopsReturn
CHECK_DEADLOCK FALSE
