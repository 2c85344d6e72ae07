------------------------------ MODULE MCSpool -------------------------------
(* Instances of Spool for TLC. *)
EXTENDS Spool

\* The last payload is longer than the others.
MCLen == [p \in Payload |-> IF \A q \in Payload : q <= p THEN 2 ELSE 1]
MCLenOne == [p \in Payload |-> 1]
=============================================================================
