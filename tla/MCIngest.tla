------------------------------ MODULE MCIngest ------------------------------
(* Instances of Ingest for TLC. *)
EXTENDS Ingest, TLC

CONSTANTS c1, c2, s1, s2, b1, b2, b3

\* One stream per controller.
MCHostTwo == [s \in Stream |-> IF s = s1 THEN c1 ELSE c2]
\* Two streams of one controller.
MCHostOne == [s \in Stream |-> c1]
\* b1 and b2 carry the same identity with different contents.
MCIdentitySame == [b \in Batch |-> 1]
\* And b3 is another batch beside them.
MCIdentityShared == [b \in Batch |-> IF b = b3 THEN 2 ELSE 1]
MCSize == [b \in Batch |-> IF b = b1 THEN 1 ELSE 2]
MCNoSkew == [c \in Controller |-> 0]
MCSkewOne == [c \in Controller |-> IF c = c2 THEN 1 ELSE 0]
=============================================================================
