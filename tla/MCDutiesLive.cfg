SPECIFICATION LiveDuties
CONSTANTS
  Order <- MCOrder
  Coordinator = "incidents"
  MaxTerms = 2
INVARIANTS
  TypeOK
  Accepted
  Served
PROPERTIES
  Quiesces
  StopReturns
