SPECIFICATION Spec
CONSTANTS
  Node = {n1, n2}
  Workload <- MCWorkload
  Realtime = {"web", "rank"}
  Rank <- MCRank
  Parts <- MCParts
  Req <- MCReq
  SLO <- MCSLO
  Due <- MCDue
  NotBefore = {}
  Views <- MCViews
  CalmView <- MCCalmView
  MaxQueueSize = 2
  SLOBreachConsecutive = 2
  MaxPerReconcile = 1
  MaxPerWorkload = 1
  MinGain = 12
  MaxSubmits = 3
INVARIANTS
  TypeOK
  NoOvercommit
  MovesBounded
PROPERTIES
  ReservedExact
SYMMETRY MCSymmetry
