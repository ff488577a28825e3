-------------------------------- MODULE SmsTx --------------------------------
(***************************************************************************)
(* The threads of several devices on the one connection of smsdb.c.        *)
(*                                                                         *)
(* Every statement holds the mutex of the connection (SCOPED_DB, or SQLite *)
(* itself).  smsdb_put and smsdb_outgoing_add hold it from before BEGIN to *)
(* after COMMIT; the other operations begin their transaction without it   *)
(* and take it for one statement at a time.  A connection has at most one  *)
(* transaction: BEGIN inside another one fails, and the operation with it. *)
(***************************************************************************)
EXTENDS Integers

CONSTANTS
  Threads,      \* serializer threads, one per device
  MaxOps,       \* bound: operations of a thread
  Statements    \* bound: statements of a transaction

VARIABLES
  tx,       \* the transaction of the connection: NoTx, or the thread that began it
  left,     \* of each thread: the statements left of its transaction, or Idle
  ops,      \* operations each thread has begun
  refused,  \* operations that returned -1 because BEGIN failed
  failed    \* history: whether a COMMIT failed

txVars == <<tx, left, ops, refused, failed>>

NoTx == "none"
Idle == -1

Begins(t) ==
  /\ left[t] = Idle /\ ops[t] < MaxOps
  /\ ops' = [ops EXCEPT ![t] = @ + 1]

CommitNever(t, began, ok) == tx      \* seeded fault: the transaction is left open
CommitAnyway(t, began, ok) == NoTx   \* seeded fault: commits what it did not begin

(* commit_transaction, at the end of the scope: nothing when BEGIN failed; *)
(* the result of COMMIT is ignored.                                        *)
commit_transaction(t, began, ok) ==
  IF ~began THEN tx ELSE IF ok THEN NoTx ELSE t

(* begin_transaction of an operation that does not hold the mutex:         *)
(* smsdb_get_refid, smsdb_outgoing_clear, smsdb_outgoing_part_put,         *)
(* smsdb_outgoing_part_status, smsdb_outgoing_purge_one.                   *)
SplitBegin(t) ==
  /\ Begins(t)
  /\ IF tx = NoTx
       THEN /\ tx' = t
            /\ left' = [left EXCEPT ![t] = Statements]
            /\ UNCHANGED refused
       ELSE /\ tx' = commit_transaction(t, FALSE, TRUE)
            /\ refused' = refused \union {<<t, "split">>}
            /\ UNCHANGED left
  /\ UNCHANGED failed

(* A statement; the operation may return after any of them.                *)
SplitStatement(t) ==
  /\ left[t] > 0
  /\ \E n \in {0, left[t] - 1} : left' = [left EXCEPT ![t] = n]
  /\ UNCHANGED <<tx, ops, refused, failed>>

SplitCommit(t, ok) ==
  /\ left[t] = 0
  /\ tx' = commit_transaction(t, TRUE, ok)
  /\ left' = [left EXCEPT ![t] = Idle]
  /\ failed' = (failed \/ ~ok)
  /\ UNCHANGED <<ops, refused>>

(* smsdb_put and smsdb_outgoing_add, which hold the mutex throughout.  The *)
(* statements smsdb_put runs before BEGIN (expired rows, capacity) are in  *)
(* no transaction of its own, and join one that is open.                   *)
Whole(t, ok) ==
  /\ Begins(t)
  /\ tx' = commit_transaction(t, tx = NoTx, ok)
  /\ refused' = IF tx = NoTx THEN refused ELSE refused \union {<<t, "whole">>}
  /\ failed' = (failed \/ (tx = NoTx /\ ~ok))
  /\ UNCHANGED left

TxInit ==
  /\ tx = NoTx
  /\ left = [t \in Threads |-> Idle]
  /\ ops = [t \in Threads |-> 0]
  /\ refused = {}
  /\ failed = FALSE

TxNext ==
  \E t \in Threads :
    SplitBegin(t) \/ SplitStatement(t) \/ \E ok \in BOOLEAN : SplitCommit(t, ok) \/ Whole(t, ok)

TxSpec == TxInit /\ [][TxNext]_txVars

(* A thread that has begun a transaction goes on.                          *)
TxFairness ==
  \A t \in Threads :
    WF_txVars(SplitStatement(t)) /\ WF_txVars(\E ok \in BOOLEAN : SplitCommit(t, ok))

TxFairSpec == TxSpec /\ TxFairness

-----------------------------------------------------------------------------
(* A thread's statements run in the transaction it began itself, although  *)
(* others fail to begin theirs in between: what it writes is not committed *)
(* half way by someone else (begin_transaction, commit_transaction).       *)
OwnTransaction == \A t \in Threads : left[t] # Idle => tx = t

(* A transaction does not stay open, unless a COMMIT failed, which nobody  *)
(* repeats (commit_transaction, at the end of the scope of every           *)
(* operation).                                                             *)
TransactionsEnd == (tx # NoTx) ~> (tx = NoTx \/ failed)

(* No operation fails for another device's: "the transaction calls will be *)
(* called with the database lock held" (smsdb.c:146).                      *)
NoneRefused == refused = {}
=============================================================================
