SPECIFICATION LiveSpec
CONSTANTS
  Payload = {1, 2, 3}
  LenOf <- MCLenOne
  Invalid = {}
  Endpoint = {1}
  MaxBytes = 6
  MaxPayload = 1
  MaxCrashes = 0
  MaxErrors = 0
  MaxDamage = 1
PROPERTIES
  Drained
CHECK_DEADLOCK FALSE
