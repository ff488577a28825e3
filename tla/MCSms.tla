------------------------------- MODULE MCSms --------------------------------
(***************************************************************************)
(* Messages on small instances: sending (part "out", SmsOut), asking to    *)
(* send, with refusals in between (part "refs"), receiving from the        *)
(* modem's store with everything that may fail (part "stored"), from two   *)
(* senders (part "peers") and by hand-over with lost links (part "direct"; *)
(* all SmsIn), and the transactions of several devices (part "tx", SmsTx). *)
(* A behaviour is about one of them; the state of the others stays as it   *)
(* is.                                                                     *)
(***************************************************************************)
EXTENDS SmsOut, SmsIn, SmsTx

VARIABLE part

Two == INSTANCE SmsIn WITH
         Capacity <- 4, Peers <- {"a", "b"}, MaxFromPeer <- 1, Slots <- {1, 2, 3},
         RowsAge <- FALSE, LinkFails <- FALSE, PartsGarble <- FALSE, Refusals <- FALSE

Given == INSTANCE SmsIn WITH
           Capacity <- 4, Slots <- {}, Direct <- TRUE, Acks <- TRUE,
           RowsAge <- FALSE, PartsGarble <- FALSE, Refusals <- FALSE

(* The instances meet what the theorems about SmsIn assume.                *)
ASSUME InstancesAssumption ==
  /\ RefsAreFresh
  /\ Two!RefsAreFresh /\ Two!RowsEnough /\ Two!Reliable
  /\ Given!RefsAreFresh /\ Given!RowsEnough /\ Given!Reliable

(* One destination is new, the other's references are about to wrap.       *)
NewOrUsed == {NoRow, RefMod - 1}
OneNew    == ref["a"].row = NoRow /\ ref["b"].row = RefMod - 1

SmsInit ==
  /\ Init /\ OneNew /\ TxInit
  /\ \/ part \in {"out", "refs", "tx", "stored"} /\ InInit
     \/ part = "peers" /\ Two!InInit
     \/ part = "direct" /\ Given!InInit

SmsNext ==
  \/ part = "out" /\ Next /\ (ref' # ref => mail' # mail) /\ UNCHANGED <<part, inVars, txVars>>
  \/ part = "refs" /\ Next /\ ref' # ref /\ UNCHANGED <<part, inVars, txVars>>
  \/ part = "stored" /\ InNext /\ UNCHANGED <<part, vars, txVars>>
  \/ part = "peers" /\ Two!InNext /\ UNCHANGED <<part, vars, txVars>>
  \/ part = "direct" /\ Given!InNext /\ UNCHANGED <<part, vars, txVars>>
  \/ part = "tx" /\ TxNext /\ UNCHANGED <<part, vars, inVars>>

SmsSpec ==
  SmsInit /\ [][SmsNext]_<<part, vars, inVars, txVars>> /\ Fairness /\ TxFairness
=============================================================================
