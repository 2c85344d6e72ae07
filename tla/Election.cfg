SPECIFICATION LiveSpec
CONSTANTS
  Node = {n1, n2}
  Lease = {1, 2, 3}
  TTL = 2
  CampaignTimeout = 1
  MaxDelay = 1
  StartTime = 2
  MaxFaults = 1
INVARIANTS
  TypeOK
  KeyFences
  OverstayBounded
PROPERTIES
  LeaderServes
