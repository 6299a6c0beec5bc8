SPECIFICATION RunSpec
CONSTANTS
  c1 = c1
  c2 = c2
  Agent = Agent
  Run = Run
  Child = {c1, c2}
  MaxReapRounds = 3
  None = None
  RunBudget = 3
  Cost = 2
  MaxParallel = 1
  Batch = 1
  Stable = 2
  Settle = 4
  MaxRequests = 4
  Setups <- Workflows
INVARIANTS
  NothingOutlives
  StopReported
  ClosedIsGone
  CountIsSettled
  OvershootIsBounded
PROPERTIES
  RunEnds
