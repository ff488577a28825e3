------------------------------ MODULE MCCalls ------------------------------
(***************************************************************************)
(* Calls on three instances: two calls on ALSA whose capture may fail to   *)
(* start or to recover (part "uac"), two calls on a tty with the mixer,    *)
(* which the modem may make multiparty (part "tty"), and one call at a     *)
(* time and everything that may happen to it, deeper in commands (part     *)
(* "one").  A behaviour is about one of them.                              *)
(***************************************************************************)
EXTENDS Calls

VARIABLE part

AllReported == call_state_t \ {INIT}
NoAlerting  == AllReported \ {ALERTING}

Tty == INSTANCE Calls WITH Uac <- FALSE, Multiparty <- TRUE, Failures <- {}

One == INSTANCE Calls WITH
         Reported <- AllReported, MaxCalls <- 1, MaxTasks <- 2, Multi <- {"no", "yes"},
         Options <- {"", "conference"}, Locals <- {FALSE, TRUE}, Enabled <- {FALSE, TRUE},
         Failures <- {"channel", "capture"}

CallsInit ==
  \/ part = "uac" /\ Init
  \/ part = "tty" /\ Tty!Init
  \/ part = "one" /\ One!Init

CallsNext ==
  /\ \/ part = "uac" /\ Next
     \/ part = "tty" /\ Tty!Next
     \/ part = "one" /\ One!Next
  /\ UNCHANGED part

CallsSpec == CallsInit /\ [][CallsNext]_<<vars, part>>
=============================================================================
