SPECIFICATION LiveSpec
CONSTANTS
  Lists <- MCLists
  Fingerprint <- MCFingerprint
  MetricRefresh = 3
  ListRefresh = 3
  Sampling = 2
  MaxSpool = 2
  Retained = 1
  MaxFaults = 1
  MaxChanges = 2
INVARIANTS TypeOK CaughtUp CarriedExactly
PROPERTIES Converges ListShown
