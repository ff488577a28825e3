SPECIFICATION FairSpec
CONSTANTS
  UintValues = 1
  CallerKinds <- GainQuery
  OfflineKinds <- None
  UrcTasks <- Nothing
  MakerKinds <- None
  ModelKinds <- None
  InitKinds <- Booted
  PingKinds <- Ping
  Farewells <- Nothing
  StartOnline = TRUE
  WriteFaults = FALSE
  Timeouts = TRUE
  Restarts = TRUE
  ModemResults <- Finals
  Chatter <- None
  HighWater = 2
  MaxQueue = 1
  MaxHandled = 2
  MaxJobs = 2
  MaxLines = 1
PROPERTIES HeadProgress IdleQueueResumes
