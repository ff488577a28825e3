\* Two calls on ALSA, two on a tty, and one at a time (see MCCalls).
CONSTANTS
  Reported <- NoAlerting
  MaxCalls = 2
  MaxTasks = 1
  MaxIdx = 2
  CountValues = 8
  Indices = {1, 2}
  Multi = {"none"}
  Options = {"holdother"}
  Locals = {FALSE}
  Uac = TRUE
  Multiparty = FALSE
  Enabled = {TRUE}
  Failures = {"capture"}
  LateReleases = FALSE
  Rerings = FALSE
SPECIFICATION CallsSpec
INVARIANTS AudioFollowsCalls CallListIsTrue SilentCallsEnd NoCallLeftBehind UniqueIdx
