SPECIFICATION LinkSpec
CONSTANTS
  UintValues = 256
  CallerKinds <- Traffic
  OfflineKinds <- None
  UrcTasks <- Acks
  MakerKinds <- None
  ModelKinds <- None
  InitKinds <- Booting
  PingKinds <- Ping
  Farewells <- Hangups
  StartOnline = TRUE
  WriteFaults = FALSE
  Timeouts = FALSE
  Restarts = FALSE
  ModemResults <- Finals
  Chatter <- AnyChatter
  HighWater = 4
  MaxQueue = 2
  MaxHandled = 3
  MaxJobs = 3
  MaxLines = 2
INVARIANTS CommandsCounted HalfDuplex NothingSkipped PromptDiscipline
