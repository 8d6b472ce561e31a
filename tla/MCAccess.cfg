SPECIFICATION PartsSpec
CONSTANTS
  All = "*"
  Skew = 1
  MaxDepth = 3
  Presented <- Tokens
  Server = "server"
  Repo = "repo"
  Audience = {"server"}
  NonceTTL = 2
  Lifetime = 2
  MaxAge = 3
  Addr = {"x"}
  Rate = 1
  Burst = 1
  IdleLimit = 1
  MaxTime = 3
  Revocable = {12}
  MaxRequests = 3
  MaxMinted = 1
  MaxFaults = 1
  Name = {"n1", "n2"}
  Email = {"e1", "e2"}
  MaxAccounts = 2
  MaxSessions = 2
  MaxUses = 1
  MaxFailures = 1
  User = {1, 2}
  RepoName = {"p"}
  MaxAsked = 3
  MaxInFlight = 2
  DiskFaults = 1
  Command <- Commands
  MaxIds = 4
  IdFaults = 2
  Conn = {"a", "b"}
  MaxHostKeys = 3
  SSHFaults = 2
INVARIANTS RequestsBounded NonceOnce RevokedRefused Attenuated
INVARIANTS OneUser RemovedCannotWrite ReposKept KeysStay StopWaits
CHECK_DEADLOCK FALSE
