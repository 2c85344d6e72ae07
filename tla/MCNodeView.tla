------------------------------ MODULE MCNodeView ------------------------------
EXTENDS NodeView

\* Two lists of the same processes whose figures fall into the same buckets,
\* and none at all.
MCLists == {"none", "idle", "idle too", "busy"}
MCFingerprint == [l \in MCLists |-> IF l = "idle too" THEN "idle" ELSE l]
===============================================================================
