\* Callbacks that follow the pointer of the channel.
CONSTANTS
  Chans = {ch1}
  Devs = {d1}
  Calls = {c1}
  Manager = mgr
  None = None
  Direct = TRUE
  MaxTurns = 1
  MaxTasks = 2
SPECIFICATION Spec
INVARIANT UsesLiveCall
CHECK_DEADLOCK FALSE
