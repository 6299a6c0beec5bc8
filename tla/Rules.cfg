SPECIFICATION Spec
CONSTANTS
  Kinds <- MCKinds
  ConfigFiles <- MCConfigFiles
  Histories <- MCHistories
  Requests <- MCRequests
  Sheet <- MCSheet
  Residency <- MCResidency
  Exports <- MCExports
  Posted <- MCPosted
  WarnOnlyPeriod = 1
  WarnOnlyPullRequests = 1
  MinBaselineRuns = 2
  MaxRows = 2
  MaxMeasured = 2
  MaxVerdictDay = 1
  Ranges = {{0, 1}, {1}}
  MonthEnd = 2
  RerunDays = 1
  MaxSpan = 2
  Lag = 1
  Fallback = 3
  Scopes = {"p"}
  MaxReconcileDay = 3
  MaxTokens = 20
  Commits = {"c1", "c2"}
  Branches = {"b1", "b2"}
  Forks = {"f1", "f2"}
  FollowUps = {"j1", "j2"}
  MaxMoves = 3
INVARIANTS
  ConclusionIsProven
  RowsAreTrue
  RequestCountedOnce
  ForkSettlesNothing
PROPERTIES
  FailureStands
  StoredMovesForward
CHECK_DEADLOCK FALSE
