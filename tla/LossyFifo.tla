----------------------------- MODULE LossyFifo -----------------------------
(***************************************************************************)
(* What a lossy queue promises, whatever it is made of.  Items are numbered *)
(* in the order in which they are offered; some are lost; those that come   *)
(* out do so in the order of the offers, each at most once.                 *)
(***************************************************************************)
EXTENDS Naturals, Sequences

VARIABLES
  offered,      \* number of items offered so far
  delivered     \* the items that came out, in order

Init == offered = 0 /\ delivered = <<>>

\* The last item that came out; 0 if there is none.
Latest(items) == IF items = <<>> THEN 0 ELSE items[Len(items)]

Offer ==
  /\ offered' = offered + 1
  /\ UNCHANGED delivered

Deliver(i) ==
  /\ Latest(delivered) < i /\ i <= offered
  /\ delivered' = Append(delivered, i)
  /\ UNCHANGED offered

Next == Offer \/ \E i \in 1..offered : Deliver(i)

Spec == Init /\ [][Next]_<<offered, delivered>>
=============================================================================
