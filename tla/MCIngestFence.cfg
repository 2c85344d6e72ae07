SPECIFICATION Spec
CONSTANTS
  c1 = c1  c2 = c2  s1 = s1  s2 = s2  b1 = b1  b2 = b2  b3 = b3
  None = None
  Controller = {c1, c2}
  Stream = {s1}
  HostOf <- MCHostTwo
  Identity = {1}
  Batch = {b1}
  IdentityOf <- MCIdentitySame
  SizeOf <- MCSize
  Poison = {}
  Nonce = {0, 1}
  Skew <- MCSkewOne
  MaxSkew = 1
  Lease = 1
  Retention = 2
  GCInterval = 0
  MaxRecords = 1
  MaxBytes = 3
  PruneLimit = 1
  MaxClock = 0
  MaxFaults = 0
INVARIANTS
  TypeOK
  AckedOwned
  AppliedWasProcessed
PROPERTIES
  ReceiptLifecycle
  FencedCheckpoint
