\* Reloads that change, drop, disable and stop devices, against the manager.
CONSTANTS
  d1 = d1
  d2 = d2
  Devices = {d1, d2}
  Configs <- Reloads
  FirstConfig <- BothStart
  Requests <- AllNow
  ReloadTimes <- OnlyNow
  Activities = {}
  Unloads = FALSE
  OpenMayFail = FALSE
  MayBeLost = TRUE
  MaxSignals = 1
  MaxReloads = 2
SPECIFICATION ReloadSpec
PROPERTY RequestsServed
CHECK_DEADLOCK FALSE
