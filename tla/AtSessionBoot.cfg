SPECIFICATION HelpfulSpec
CONSTANTS
  UintValues = 256
  CallerKinds <- None
  OfflineKinds <- None
  UrcTasks <- Nothing
  MakerKinds <- Quectel
  ModelKinds <- None
  InitKinds <- Booting
  PingKinds <- Ping
  Farewells <- Hangups
  StartOnline = FALSE
  WriteFaults = FALSE
  Timeouts = FALSE
  Restarts = FALSE
  ModemResults <- Successes
  Chatter <- Unknown
  HighWater = 4
  MaxQueue = 1
  MaxHandled = 3
  MaxJobs = 3
  MaxLines = 1
PROPERTIES Boots
