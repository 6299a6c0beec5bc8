SPECIFICATION Spec
CONSTANTS
  r1 = r1
  r2 = r2
  hook = hook
  dev = dev
  Nobody = Nobody
  Run = {r1, r2}
  Other = {hook, dev}
  Starter <- Starters
  Place <- Places
  Setups <- AllSetups
INVARIANTS
  CountedOnce
  RunIsAccounted
  OwnTreeOnly
CHECK_DEADLOCK FALSE
