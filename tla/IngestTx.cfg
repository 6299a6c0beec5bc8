SPECIFICATION Spec
CONSTANTS
  s1 = s1
  s2 = s2
  s3 = s3
  a = a
  b = b
  None = None
  Sender = {s1, s2, s3}
  RowId = {a, b}
  Field <- Counters
  BatchOf <- Batches
  DropsOf <- Dropped
  MaxSends = 2
INVARIANTS
  DropsNeverDeadlock
PROPERTIES
  IngestIsAtomic
  Answered
CHECK_DEADLOCK FALSE
