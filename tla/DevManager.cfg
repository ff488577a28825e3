\* Requests of every kind to two devices, calls and messages, loss, unloading.
CONSTANTS
  d1 = d1
  d2 = d2
  Devices = {d1, d2}
  Configs <- NoConfigs
  FirstConfig <- BothStart
  Requests <- AllRequests
  ReloadTimes <- Nothing
  Activities = {"chans", "incoming"}
  Unloads = TRUE
  OpenMayFail = TRUE
  MayBeLost = TRUE
  MaxSignals = 2
  MaxReloads = 2
SPECIFICATION Spec
INVARIANTS StartedIsWatched TerminateIsTransient
PROPERTY ImplementsLife
CHECK_DEADLOCK FALSE
SYMMETRY Alike
