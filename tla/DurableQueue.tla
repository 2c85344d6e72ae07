---------------------------- MODULE DurableQueue ----------------------------
(***************************************************************************)
(* What the spool promises: a bounded queue that survives crashes.  Items  *)
(* come out in the order in which they went in; an item is passed only     *)
(* once it is settled; a restart may offer settled items again, never skip *)
(* one; for lack of room the oldest unread items go, and no more of them   *)
(* than the new item needs.                                                *)
(***************************************************************************)
EXTENDS Integers, Sequences, Functions

CONSTANTS
  Item,
  Weight(_),    \* room that an item takes
  Room          \* room of the queue

VARIABLES
  items,        \* what the queue holds, oldest first
  head,         \* how many of them are passed
  done          \* items that are settled

vars == <<items, head, done>>

Total(s) ==
  LET sum[k \in 0 .. Len(s)] == IF k = 0 THEN 0 ELSE sum[k - 1] + Weight(s[k])
  IN sum[Len(s)]
Drop(s, k) == SubSeq(s, k + 1, Len(s))

\* A new item is stored.
Put(p) ==
  /\ p \notin Range(items)
  /\ items' = Append(items, p)
  /\ Total(items') <= Room
  /\ UNCHANGED <<head, done>>

\* The number of an item that is gone is used again.
Reuse(p) ==
  /\ p \notin Range(items)
  /\ done' = done \ {p}
  /\ UNCHANGED <<items, head>>

\* A controller settles the item on offer.
Settle ==
  /\ head < Len(items)
  /\ done' = done \cup {items[head + 1]}
  /\ UNCHANGED <<items, head>>

Pass ==
  /\ head < Len(items) /\ items[head + 1] \in done
  /\ head' = head + 1
  /\ UNCHANGED <<items, done>>

\* Room is made for p: passed items go, and unread ones only if they must.
MakeRoom(p) ==
  /\ \E k \in head .. Len(items) :
       /\ k > head => Total(Drop(items, k - 1)) + Weight(p) > Room
       /\ items' = Drop(items, k)
  /\ head' = 0
  /\ UNCHANGED done

\* A restart: a Put that was under way has taken place or not, and the queue is
\* offered from an earlier place, or after items whose Pass was under way.
Restart ==
  /\ \/ UNCHANGED items
     \/ \E p \in Item \ Range(items) : items' = Append(items, p)
  /\ Total(items') <= Room
  /\ head' \in 0 .. Len(items)
  /\ \A k \in head + 1 .. head' : items[k] \in done
  /\ UNCHANGED done

Init == items = <<>> /\ head = 0 /\ done = {}

Next ==
  \/ \E p \in Item : Put(p) \/ Reuse(p) \/ MakeRoom(p)
  \/ Settle \/ Pass \/ Restart

Spec == Init /\ [][Next]_vars
=============================================================================
