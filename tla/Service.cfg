SPECIFICATION Spec
CONSTANTS
  Instances = {"old", "new", "edited", "owner"}
  Migrations <- MCMigrations
  Binds <- MCBinds
  Migrates = {"old", "new"}
  Role <- MCRole
  Owners = {"o1", "o2"}
  MaxStarts = 4
  Kids = {"k1", "k2"}
  Tokens <- MCTokens
  Lifetime = 3
  Interval = 2
  Timeout = 1
  Skew = 1
  MaxClock = 5
  Handlers = {"h1", "h2"}
  MaxCalls = 3
  MaxRepeated = 2
  PerMinute = 2
  Minute = 2
  PerHour = 3
  Hour = 4
  MaxConcurrent = 2
  Margin = 2
  RequestTimeout = 1
  TokenLife = 4
  MaxTick = 7
INVARIANTS
  StartIsSafe
  VerifyIsRight
  CallsCounted
  InstallationLimits
CHECK_DEADLOCK FALSE
