----------------------------- MODULE BoundedFifo -----------------------------
(***************************************************************************)
(* What a bounded queue between one producer and one consumer promises:    *)
(* the consumer gets the items the producer was told were accepted, each   *)
(* once and in order, and at most Capacity are waiting.  A push may be     *)
(* refused and a pop may come back empty handed: the queue says nothing    *)
(* about how recent the other side's progress is that it has seen.         *)
(***************************************************************************)
EXTENDS Naturals, Sequences

CONSTANTS Item, NoItem, Capacity

VARIABLES
  queue,   \* the items accepted and not yet taken
  item,    \* the item of the push in progress, or NoItem
  out      \* what the last pop returned

vars == <<queue, item, out>>

Init == queue = <<>> /\ item = NoItem /\ out = <<>>

Offer(v) == item = NoItem /\ item' = v /\ UNCHANGED <<queue, out>>

Accept ==
  /\ item # NoItem /\ Len(queue) < Capacity
  /\ queue' = Append(queue, item)
  /\ item' = NoItem
  /\ UNCHANGED out

Refuse == item # NoItem /\ item' = NoItem /\ UNCHANGED <<queue, out>>

Take(n) ==
  /\ n <= Len(queue)
  /\ out' = SubSeq(queue, 1, n)
  /\ queue' = SubSeq(queue, n + 1, Len(queue))
  /\ UNCHANGED item

Next == (\E v \in Item : Offer(v)) \/ Accept \/ Refuse \/ (\E n \in 0 .. Capacity : Take(n))

Spec == Init /\ [][Next]_vars
=============================================================================
