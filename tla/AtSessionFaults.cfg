SPECIFICATION Spec
CONSTANTS
  UintValues = 4
  CallerKinds <- MessageOrGains
  OfflineKinds <- None
  UrcTasks <- Nothing
  MakerKinds <- Others
  ModelKinds <- None
  InitKinds <- Booted
  PingKinds <- Ping
  Farewells <- Hangup
  StartOnline = TRUE
  WriteFaults = TRUE
  Timeouts = TRUE
  Restarts = TRUE
  ModemResults <- Finals
  Chatter <- Unknown
  HighWater = 1
  MaxQueue = 1
  MaxHandled = 2
  MaxJobs = 3
  MaxLines = 1
INVARIANTS TypeOK HeadOnlyStarted TasksCounted
