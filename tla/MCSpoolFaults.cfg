SPECIFICATION Spec
CONSTANTS
  Payload = {1, 2, 3}
  LenOf <- MCLen
  Invalid = {1}
  Endpoint = {1}
  MaxBytes = 7
  MaxPayload = 2
  MaxCrashes = 2
  MaxErrors = 1
  MaxDamage = 1
INVARIANTS
  TypeOK
  NothingLost
  Bounded
PROPERTIES
  ImplementsQueue
CHECK_DEADLOCK FALSE
