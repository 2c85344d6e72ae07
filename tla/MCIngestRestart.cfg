SPECIFICATION Spec
CONSTANTS
  c1 = c1  c2 = c2  s1 = s1  s2 = s2  b1 = b1  b2 = b2  b3 = b3
  None = None
  Controller = {c1}
  Stream = {s1}
  HostOf <- MCHostOne
  Identity = {1, 2}
  Batch = {b1, b2, b3}
  IdentityOf <- MCIdentityShared
  SizeOf <- MCSize
  Poison = {b2}
  Nonce = {0, 1, 2}
  Skew <- MCNoSkew
  MaxSkew = 0
  Lease = 1
  Retention = 1
  GCInterval = 1
  MaxRecords = 2
  MaxBytes = 3
  PruneLimit = 2
  MaxClock = 1
  MaxFaults = 1
INVARIANTS
  HotComplete
  CapacityExact
  AckedOwned
PROPERTIES
  HotMonotonic
