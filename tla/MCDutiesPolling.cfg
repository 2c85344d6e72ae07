SPECIFICATION SpecDuties
CONSTANTS
  Order <- MCOrder
  Coordinator = "incidents"
  MaxTerms = 2
INVARIANTS
  PollingTerminated
