SPECIFICATION LiveSpec
CONSTANTS
  Node = {n1, n2}
  Workload <- MCWorkload
  Realtime = {"web", "rank"}
  Rank <- MCRank
  Parts <- MCParts
  Req <- MCReq
  SLO <- MCSLO
  Due <- MCNoDue
  NotBefore = {"train"}
  Views <- MCLiveViews
  CalmView <- MCCalmView
  MaxQueueSize = 2
  SLOBreachConsecutive = 2
  MaxPerReconcile = 1
  MaxPerWorkload = 1
  MinGain = 12
  MaxSubmits = 2
PROPERTIES
  Examined
  Placed
