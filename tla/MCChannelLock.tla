--------------------------- MODULE MCChannelLock ----------------------------
(***************************************************************************)
(* ChannelLock on four instances: the callbacks that look their call up,   *)
(* with one device (part "one") and with two and a task less for each      *)
(* (part "two"); and all callbacks, two on a channel with one device (part *)
(* "all") or one with two devices and one piece of storage for their calls *)
(* (part "both").  A behaviour is about one of them.                       *)
(***************************************************************************)
EXTENDS ChannelLock

CONSTANTS d1, c1   \* a device, and storage of a call

VARIABLE part

Two == INSTANCE ChannelLock WITH MaxTasks <- 1

All == INSTANCE ChannelLock WITH Direct <- TRUE, MaxTurns <- 2

Both == INSTANCE ChannelLock WITH Direct <- TRUE, Calls <- {c1}

LockInit ==
  /\ Init
  /\ \/ part \in {"one", "all"} /\ devs = {d1}
     \/ part \in {"two", "both"} /\ devs = Devs

LockNext ==
  /\ \/ part = "one" /\ Next
     \/ part = "two" /\ Two!Next
     \/ part = "all" /\ All!Next
     \/ part = "both" /\ Both!Next
  /\ UNCHANGED part

LockSpec == LockInit /\ [][LockNext]_<<vars, part>> /\ Fairness

(* With one device a media callback returns, though it only tries its      *)
(* locks and starts again when one is taken; and unloading, which waits    *)
(* for the serializers that wait for channels, ends.  (Of two devices, two *)
(* callbacks may each find busy the one that the other looks at, again and *)
(* again: there the code counts on the sleep between two rounds.)          *)
NobodyWaitsForEver == part = "one" => CallbacksReturn /\ UnloadEnds
=============================================================================
