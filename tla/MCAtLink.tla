------------------------------ MODULE MCAtLink ------------------------------
(***************************************************************************)
(* AtSession without timeouts and faults, on three instances: "traffic",   *)
(* an initialised device with much on its way at once; "catalogue", from   *)
(* the start of initialisation on with a task of every shape the builders  *)
(* make, one line at a time; "singles", an initialised device with the     *)
(* other builders, one task at a time.  A behaviour is about one of them.  *)
(***************************************************************************)
EXTENDS MCAtSession

VARIABLE part

All == INSTANCE AtSession WITH
         CallerKinds <- Catalogue, OfflineKinds <- Service, UrcTasks <- Unsolicited,
         MakerKinds <- Others, ModelKinds <- Models, InitKinds <- ShortInit,
         PingKinds <- at_enqueue_ping, Farewells <- Goodbyes, StartOnline <- FALSE,
         Chatter <- JustUrc, MaxHandled <- 2, MaxJobs <- 2, MaxLines <- 1

Each == INSTANCE AtSession WITH
          CallerKinds <- Singles, UrcTasks <- Nothing, InitKinds <- Booted,
          Farewells <- Nothing, Chatter <- JustUrc, MaxQueue <- 1, MaxHandled <- 2, MaxJobs <- 2,
          MaxLines <- 1

(* The builders' tasks are proper, in each instance.                       *)
ASSUME WellBuiltAssumption == WellBuilt /\ All!WellBuilt /\ Each!WellBuilt

LinkInit ==
  \/ part = "traffic" /\ Init
  \/ part = "catalogue" /\ All!Init
  \/ part = "singles" /\ Each!Init

LinkNext ==
  /\ \/ part = "traffic" /\ Next
     \/ part = "catalogue" /\ All!Next
     \/ part = "singles" /\ Each!Next
  /\ UNCHANGED part

LinkSpec == LinkInit /\ [][LinkNext]_<<vars, part>>
=============================================================================
