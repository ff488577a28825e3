----------------------------- MODULE BoundedFifo -----------------------------
(***************************************************************************)
(* What a ring buffer promises: bytes come out in the order they went in,  *)
(* and never more of them are kept than fit.                               *)
(***************************************************************************)
EXTENDS Naturals, Sequences

CONSTANTS Byte, Size
VARIABLE q

Init == q = <<>>

Put(data) ==
  /\ Len(q) + Len(data) <= Size
  /\ q' = q \o data

Drop(n) == q' = SubSeq(q, n + 1, Len(q))

Next ==
  \/ \E n \in 1 .. Size : \E data \in [1 .. n -> Byte] : Put(data)
  \/ \E n \in 1 .. Len(q) : Drop(n)

Spec == Init /\ [][Next]_q
=============================================================================
