SPECIFICATION Spec
CONSTANTS
  t1 = t1
  t2 = t2
  repo = repo
  pr = pr
  run1 = run1
  run2 = run2
  try = try
  tip = tip
  merge = merge
  k1 = k1
  k2 = k2
  shared = shared
  i1 = i1
  i2 = i2
  q1 = q1
  q2 = q2
  None = None
  Malformed = Malformed
  Tenant = {t1}
  RowId = {i1, i2}
  GatewayKey = {k1, k2}
  IngestKey = {}
  Request = {q1, q2}
  Name <- MCName
  PerSecond = 2
  Clock = {5}
  KeyTenant <- KeyTenants
  Identity <- RaceIdentities
  Batch <- RaceBatches
  Pull <- Pulls
  Figure <- Figures
SYMMETRY Slots
INVARIANTS
  ReadsStand
  OneRunPerKey
  EvidenceIsSound
PROPERTIES
  StoredStands
