---------------------------- MODULE MixedStreams ----------------------------
(***************************************************************************)
(* What a mixer promises: a queue of samples into which every stream mixes *)
(* its own from a place of its own on.                                     *)
(***************************************************************************)
EXTENDS Integers, Sequences

CONSTANTS
  Streams,
  Size,         \* samples that fit
  Data,         \* what a stream may write at once
  Mix(_, _),    \* two samples mixed
  NotIn         \* the place of a stream that takes no part

VARIABLES
  q,            \* the mixed samples
  at            \* of each stream: how many samples it is ahead

Init == q = <<>> /\ at = [s \in Streams |-> NotIn]

Joins(s) == at[s] = NotIn /\ at' = [at EXCEPT ![s] = 0] /\ UNCHANGED q

Leaves(s) == at[s] # NotIn /\ at' = [at EXCEPT ![s] = NotIn] /\ UNCHANGED q

(* The places of a stream when n samples have been taken.                  *)
After(n) == [s \in Streams |-> IF at[s] = NotIn THEN NotIn
                               ELSE IF at[s] > n THEN at[s] - n ELSE 0]

Takes(n) ==
  /\ n \in 1 .. Len(q)
  /\ q' = SubSeq(q, n + 1, Len(q))
  /\ at' = After(n)

(* A stream writes; the oldest samples make room.                          *)
Writes(s, data) ==
  LET over == at[s] + Len(data) - Size
      n    == IF over > 0 THEN over ELSE 0
      kept == SubSeq(q, n + 1, Len(q))
      from == After(n)[s]
      end  == from + Len(data)
  IN  /\ at[s] # NotIn
      /\ q' = [i \in 1 .. (IF end > Len(kept) THEN end ELSE Len(kept)) |->
                 IF from < i /\ i <= end
                   THEN IF i <= Len(kept) THEN Mix(kept[i], data[i - from]) ELSE data[i - from]
                   ELSE kept[i]]
      /\ at' = [After(n) EXCEPT ![s] = end]

Next ==
  \/ \E s \in Streams : Joins(s) \/ Leaves(s) \/ (\E data \in Data[s] : Writes(s, data))
  \/ \E n \in 1 .. Size : Takes(n)

Spec == Init /\ [][Next]_<<q, at>>
=============================================================================
