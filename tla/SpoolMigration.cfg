SPECIFICATION LiveSpec
CONSTANTS
  Legacy = 4
  PayloadLen = 2
  MaxBytes = 18
  MaxStored = 1
  MaxCrashes = 2
  MaxErrors = 2
INVARIANTS
  TypeOK
  NothingDropped
  NoneSkipped
PROPERTIES
  Opens
