----------------------------- MODULE DeviceLife -----------------------------
(***************************************************************************)
(* What the device manager promises of every device: it is created         *)
(* stopped, runs under one monitor thread at a time, and is freed only     *)
(* when it does not run.                                                   *)
(***************************************************************************)
CONSTANT Devices
VARIABLE life   \* of each device: "absent", "stopped" or "running"

Init == life \in [Devices -> {"absent", "stopped"}]

Create(d) == life[d] = "absent"  /\ life' = [life EXCEPT ![d] = "stopped"]
Start(d)  == life[d] = "stopped" /\ life' = [life EXCEPT ![d] = "running"]
End(d)    == life[d] = "running" /\ life' = [life EXCEPT ![d] = "stopped"]

(* Several devices may be freed at a time.                                 *)
Free(freed) ==
  /\ \A d \in freed : life[d] = "stopped"
  /\ life' = [d \in Devices |-> IF d \in freed THEN "absent" ELSE life[d]]

Next ==
  \/ \E d \in Devices : Create(d) \/ Start(d) \/ End(d)
  \/ \E freed \in SUBSET Devices : Free(freed)

Spec == Init /\ [][Next]_life
=============================================================================
