\* Callbacks of two channels, two devices, and the end of the module.
CONSTANTS
  d1 = d1
  c1 = c1
  Chans = {ch1, ch2}
  Devs = {d1, d2}
  Calls = {c1, c2}
  Manager = mgr
  None = None
  Direct = FALSE
  MaxTurns = 1
  MaxTasks = 2
SPECIFICATION LockSpec
INVARIANTS NoOrphanedLock LockedUsesLive
PROPERTY NobodyWaitsForEver
CHECK_DEADLOCK FALSE
