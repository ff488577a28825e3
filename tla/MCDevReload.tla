---------------------------- MODULE MCDevReload -----------------------------
(***************************************************************************)
(* DevManager when nothing but a session goes wrong: reloads in every      *)
(* interleaving with the manager and, after the last one, requests of the  *)
(* command line to the device whose section they changed.  Nothing is      *)
(* asked of the fairness of either: an operator may always stop.           *)
(***************************************************************************)
EXTENDS MCDevManager

ReloadNext ==
  \/ Manager \/ Reloading
  \/ \E d \in Devices : Ends(d) \/ MonitorTold(d)
  \/ JobTerminates(d2) \/ MonitorLost(d2)
  \/ reload.left = 0 /\ reload.pc = "idle" /\ Request(d2)

ReloadSpec == Init /\ [][ReloadNext]_vars /\ Fairness
=============================================================================
