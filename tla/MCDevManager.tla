---------------------------- MODULE MCDevManager ----------------------------
(* Small instances of DevManager.                                          *)
EXTENDS DevManager, TLC

CONSTANTS d1, d2   \* devices

S(init, rest) == [init_state |-> init, rest |-> rest]

BothStart == [d \in {d1, d2} |-> S(STARTED, 0)]
NoConfigs == {}
(* Settings of d2 change; d2 is dropped; d2 is disabled, d1 stops.         *)
Reloads ==
  {[BothStart EXCEPT ![d2] = S(STARTED, 1)], [BothStart EXCEPT ![d2] = Missing],
   [BothStart EXCEPT ![d2] = S(REMOVED, 0), ![d1] = S(STOPPED, 0)]}

AllNow == {<<e, NOW>> : e \in DevStates}
AllRequests == AllNow \union ({STOPPED, REMOVED} \X {GRACEFULLY})
Nothing == {}
(* Both devices begin alike and are asked alike.                           *)
Alike == Permutations(Devices)
OnlyNow == {NOW}
=============================================================================
