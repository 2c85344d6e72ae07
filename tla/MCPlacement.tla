----------------------------- MODULE MCPlacement -----------------------------
(***************************************************************************)
(* Instances of Placement: a realtime workload with a latency objective, a *)
(* realtime workload of two partitions and a batch workload, on two nodes. *)
(***************************************************************************)
EXTENDS Placement, TLC

MCWorkload == {"web", "rank", "train"}
MCRank == [w \in MCWorkload |-> CASE w = "rank" -> 0 [] w = "web" -> 1 [] w = "train" -> 2]
MCParts == [w \in MCWorkload |-> IF w = "rank" THEN 2 ELSE 1]
MCReq == [w \in MCWorkload |-> IF w = "rank" THEN 1 ELSE 2]
MCSLO == [w \in MCWorkload |-> IF w = "web" THEN 2 ELSE 0]
MCDue == [w \in MCWorkload |-> IF w = "train" THEN "far" ELSE "none"]
MCNoDue == [w \in MCWorkload |-> "none"]

Fresh(free, lat) == [healthy |-> TRUE, free |-> free, lat |-> lat]
Stale == [healthy |-> FALSE, free |-> 0, lat |-> 1]
MCViews == {Stale, Fresh(1, 4), Fresh(3, 1)}
MCLiveViews == {Stale, Fresh(3, 1)}
MCCalmView == Fresh(3, 1)
MCSymmetry == Permutations(Node)
=============================================================================
