SPECIFICATION Spec
CONSTANTS
  pull = pull
  check = check
  forged = forged
  issue = issue
  bare = bare
  undated = undated
  created = created
  nameless = nameless
  h1 = h1
  h2 = h2
  None = None
  Delivery = {pull, check, forged, issue, bare, undated, created, nameless}
  Handler = {h1, h2}
  Payload <- Payloads
  Size = 1
  Window = 1
  Retention = 3
  MaxTime = 5
  MaxClaims = 4
INVARIANTS
  ReplaysRefused
  NoSilentLoss
  RefusedMayReturn
CHECK_DEADLOCK FALSE
