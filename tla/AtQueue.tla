------------------------------ MODULE AtQueue ------------------------------
(***************************************************************************)
(* The AT command queue of one device (at_queue.c).                        *)
(*                                                                         *)
(* A device serves its modem one task at a time.  A task is a list of AT   *)
(* commands; an ordinary task writes command cindex, waits for its final   *)
(* result and moves on, an "at once" task joins all its commands in one    *)
(* line "AT<c0>;<c1>..." that gets one result.  Every function of          *)
(* at_queue.c runs with pvt->lock held, so each is one operator here: it   *)
(* takes the state of the queue and returns the next one.                  *)
(*                                                                         *)
(* A queue state is a record                                               *)
(*   queue    the list pvt->at_queue, head first                           *)
(*   at_tasks PVT_STATE(pvt, at_tasks)                                     *)
(*   at_cmds  PVT_STATE(pvt, at_cmds)                                      *)
(*   tx       the lines written to the tty that the modem has not answered *)
(***************************************************************************)
EXTENDS Integers, Sequences, FiniteSets

CONSTANT
  UintValues    (* how many values a uint32_t counter has: 2^32 in the code *)

ASSUME UintAssumption == UintValues \in Nat \ {0}

(***************************************************************************)
(* Commands and tasks.  Of a command the queue looks at the expected       *)
(* result (res) and the flag ATQ_CMD_FLAG_IGNORE; the response handlers    *)
(* look at its code (cmd).  The text is abstracted away, except for the    *)
(* test length = 0, "already written": the field sent of a task holds the  *)
(* indices of the commands whose text has been released.                   *)
(***************************************************************************)
(* The command codes.                                                      *)
at_cmd_t ==
  {"USER", "AT", "FINAL", "A", "CCWA_STATUS", "CCWA_SET", "CFUN", "CGMI", "CGMM", "CGMR",
   "CGSN", "CHUP", "QHUP", "CIMI", "CPCMREG", "CLIR", "CLVL", "CMGD", "CMGF", "CMGR",
   "CMGL", "CMGS", "SMSTEXT", "CNMI", "CNUM", "COPS", "QSPN", "CSPN", "COPS_INIT", "CPIN",
   "CPMS", "CREG", "CREG_INIT", "CEREG", "CEREG_INIT", "CSCS", "CSQ", "AUTOCSQ_INIT",
   "EXUNSOL_INIT", "CLTS_INIT", "CSSN", "CUSD", "CVOICE", "D", "CPCMREG1", "CPCMREG0",
   "DTMF", "E", "Z", "CMEE", "CSCA", "CHLD_1x", "CHLD_2x", "CHLD_2", "CHLD_3", "CLCC",
   "QINDCFG_CSQ", "QINDCFG_ACT", "QINDCFG_RING", "QINDCFG_CC", "QINDCFG_CC_OFF", "DSCI",
   "DSCI_OFF", "CMUT_0", "CMUT_1", "QPCMV_0", "QPCMV_TTY", "QPCMV_UAC", "QTONEDET_0",
   "QTONEDET_1", "DDET_0", "DDET_1", "QLTS", "QLTS_1", "CCLK", "QMIC", "QRXGAIN",
   "CMICGAIN", "COUTGAIN", "CTXVOL", "CRXVOL", "CNMA", "CSMS", "QAUDLOOP", "QAUDMOD",
   "CNSMOD_0", "CNSMOD_1", "CPCMFRM_8K", "CPCMFRM_16K", "VTD", "CCID", "CICCID", "QCCID",
   "ESC"}

(* The results a command may expect.                                       *)
Expected == {"OK", "PROMPT"}

Command(cmd, res, ignore) == [cmd |-> cmd, res |-> res, ignore |-> ignore]

(* What a caller hands to at_queue_insert* (run) or at_queue_add (~run).   *)
Kind(prio, at_once, run, cmds) ==
  [prio |-> prio, at_once |-> at_once, run |-> run, cmds |-> cmds]

NewTask(kind) ==
  [at_once |-> kind.at_once, cindex |-> 0, cmds |-> kind.cmds, sent |-> {}]

(* at_queue_task_cmd: the command a task is at (1-based here).             *)
CurrentIndex(task) == IF task.at_once THEN 1 ELSE task.cindex + 1

at_queue_task_cmd(task) == task.cmds[CurrentIndex(task)]

(* at_queue_head_cmd: defined for a queue that is not empty.               *)
at_queue_head_cmd(s) == at_queue_task_cmd(Head(s.queue))

(* length == 0 of the head command: it is on the wire, its result is due.  *)
HeadSent(s) ==
  /\ s.queue # <<>>
  /\ CurrentIndex(Head(s.queue)) \in Head(s.queue).sent

(* What the model keeps of a line on the wire: the code of its command.    *)
Line(task) == at_queue_task_cmd(task).cmd

HeadLine(s) == Line(Head(s.queue))

-----------------------------------------------------------------------------
(* The counters are unsigned and wrap.                                     *)
UintAdd(a, b) == (a + b) % UintValues

(* Seeded fault: a signed counter.                                         *)
SignedSub(a, b) == a - b

UintSub(a, b) == (a - b) % UintValues

(* Seeded fault: a priority task goes to the very front of the list.       *)
InsertAtFront(queue, task) == <<task>> \o queue

InsertAfterHead(queue, task) ==
  [i \in 1 .. Len(queue) + 1 |-> IF i = 1 THEN queue[1] ELSE IF i = 2 THEN task ELSE queue[i - 1]]

(* Replace the head task.                                                  *)
WithHead(s, task) == [s EXCEPT !.queue = [@ EXCEPT ![1] = task]]

at_queue_add(s, kind) ==
  IF kind.cmds = <<>>
  THEN s
  ELSE [s EXCEPT
          !.queue = IF kind.prio /\ @ # <<>>
                    THEN InsertAfterHead(@, NewTask(kind))
                    ELSE Append(@, NewTask(kind)),
          !.at_tasks = UintAdd(@, 1),
          !.at_cmds = UintAdd(@, Len(kind.cmds))]

(* Seeded fault: all commands of the task are discounted, the resolved     *)
(* ones too.                                                              *)
RemoveWhole(s) ==
  IF s.queue = <<>>
  THEN s
  ELSE [s EXCEPT
          !.queue = Tail(@),
          !.at_tasks = UintSub(@, 1),
          !.at_cmds = UintSub(@, Len(Head(s.queue).cmds))]

at_queue_remove(s) ==
  IF s.queue = <<>>
  THEN s
  ELSE [s EXCEPT
          !.queue = Tail(@),
          !.at_tasks = UintSub(@, 1),
          !.at_cmds = UintSub(@, Len(Head(s.queue).cmds) - Head(s.queue).cindex)]

(* Advance the head task: cindex and at_cmds together.                     *)
Advance(s, n) ==
  [WithHead(s, [Head(s.queue) EXCEPT !.cindex = IF Head(s.queue).at_once THEN n ELSE @ + n])
     EXCEPT !.at_cmds = UintSub(@, n)]

(* Seeded fault: a timed out at-once task stays, as after an error.        *)
RemoveCmdAtOnceLate(s, res) ==
  LET task == Head(s.queue)
      next == Advance(s, Len(task.cmds))
  IN  IF task.cmds[1].res = res \/ task.cmds[1].ignore THEN at_queue_remove(next) ELSE next

(* An at-once task leaves when its result is the expected one, when it     *)
(* ignores mismatches, or on a timeout; otherwise it stays, fully sent.    *)
RemoveCmdAtOnce(s, res) ==
  LET task == Head(s.queue)
      next == Advance(s, Len(task.cmds))
  IN  IF task.cmds[1].res = res \/ task.cmds[1].ignore \/ res = "TIMEOUT"
      THEN at_queue_remove(next)
      ELSE next

(* An ordinary task moves to its next command, and leaves after the last   *)
(* one, on a mismatch it does not ignore, or on a timeout.                 *)
RemoveCmdInOrder(s, res) ==
  LET task == Head(s.queue)
      cmd  == task.cmds[task.cindex + 1]
      next == Advance(s, 1)
  IN  IF \/ task.cindex + 1 >= Len(task.cmds)
         \/ cmd.res # res /\ ~cmd.ignore
         \/ res = "TIMEOUT"
      THEN at_queue_remove(next)
      ELSE next

at_queue_remove_cmd(s, res) ==
  IF s.queue = <<>>
  THEN s
  ELSE IF Head(s.queue).at_once THEN RemoveCmdAtOnce(s, res) ELSE RemoveCmdInOrder(s, res)

(* After a failed write of an at-once task: with IGNORE it stays, unsent.  *)
at_queue_remove_task_at_once(s) ==
  LET next == Advance(s, Len(Head(s.queue).cmds))
  IN  IF Head(s.queue).cmds[1].ignore THEN next ELSE at_queue_remove(next)

(* Seeded fault: the queue is run without asking whether the head command  *)
(* is already on the wire.                                                 *)
RunWritesAgain(s) == s.queue # <<>>

(* Does at_queue_run have something to write?                              *)
RunWrites(s) ==
  /\ s.queue # <<>>
  /\ LET task == Head(s.queue)
     IN  IF task.at_once
         THEN task.sent # DOMAIN task.cmds
         ELSE task.cindex + 1 \notin task.sent

(* The write succeeds (ok) or pvt_direct_write reports a short write.  In  *)
(* at_queue_run a failed write of an ordinary command is handled as the    *)
(* result "MISMATCH" (cmd->res + 1), which no command expects.             *)
at_queue_run(s, ok) ==
  IF ~RunWrites(s)
  THEN s
  ELSE LET task == Head(s.queue)
           done == IF task.at_once THEN DOMAIN task.cmds ELSE task.sent \cup {task.cindex + 1}
       IN  IF ok
           THEN [WithHead(s, [task EXCEPT !.sent = done]) EXCEPT !.tx = Append(@, Line(task))]
           ELSE IF task.at_once
                THEN at_queue_remove_task_at_once(s)
                ELSE at_queue_remove_cmd(s, "MISMATCH")

(* at_queue_insert, at_queue_insert_uid, at_queue_insert_const[_at_once]   *)
(* add and run; a few callers only add (~kind.run).                        *)
at_queue_insert(s, kind, ok) ==
  IF kind.run THEN at_queue_run(at_queue_add(s, kind), ok) ELSE at_queue_add(s, kind)

(* Every at-once task still unsent goes out in one line, whatever its      *)
(* place in the queue; nothing is marked as written.                       *)
at_queue_run_immediately(s, ok) ==
  LET unsent == {i \in DOMAIN s.queue : s.queue[i].at_once /\ s.queue[i].sent = {}}
  IN  IF unsent = {} \/ ~ok
      THEN s
      ELSE LET first == CHOOSE i \in unsent : \A j \in unsent : i <= j
           IN  [s EXCEPT !.tx = Append(@, Line(s.queue[first]))]

(* The commands of the queue still to be resolved, and their number.       *)
OpenCommands(queue) ==
  UNION {{i} \X (queue[i].cindex + 1 .. Len(queue[i].cmds)) : i \in DOMAIN queue}

Remaining(queue) == Cardinality(OpenCommands(queue))

(* Seeded fault: the list is emptied and the count of tasks kept.          *)
FlushUncounted(s) ==
  [s EXCEPT !.queue = <<>>, !.at_cmds = UintSub(@, Remaining(s.queue))]

(* Remove heads until the list is empty.  at_cmds loses what is left of    *)
(* every task.                                                             *)
at_queue_flush(s) ==
  [s EXCEPT !.queue = <<>>,
            !.at_tasks = UintSub(@, Len(s.queue)),
            !.at_cmds = UintSub(@, Remaining(s.queue))]

-----------------------------------------------------------------------------
(* The types of the queue.                                                 *)
CommandSet == [cmd : at_cmd_t, res : Expected, ignore : BOOLEAN]

KindSet == [prio : BOOLEAN, at_once : BOOLEAN, run : BOOLEAN, cmds : Seq(CommandSet)]

TaskSet == [at_once : BOOLEAN, cindex : Nat, cmds : Seq(CommandSet), sent : SUBSET Nat]

QueueSet ==
  [queue : Seq(TaskSet), at_tasks : 0 .. UintValues - 1, at_cmds : 0 .. UintValues - 1,
   tx : Seq(at_cmd_t)]

-----------------------------------------------------------------------------
(* The shape of the queue.                                                 *)

(* A task whose command array at_queue_task_cmd may index.                 *)
InBounds(task) ==
  /\ task.cmds # <<>>
  /\ task.cindex <= Len(task.cmds)
  /\ ~task.at_once => task.cindex < Len(task.cmds)

Untouched(task) == task.cindex = 0 /\ task.sent = {}

SentSoFar(task) ==
  IF task.at_once THEN task.sent \in {{}, DOMAIN task.cmds} ELSE task.sent \subseteq 1 .. task.cindex + 1

(* A task nobody has started: it sits behind the head.                     *)
Waits(task) == InBounds(task) /\ Untouched(task)

(* Every task can be indexed, and only the head has been started.          *)
WellFormed(s) ==
  /\ \A i \in 2 .. Len(s.queue) : Waits(s.queue[i])
  /\ s.queue # <<>> => InBounds(Head(s.queue)) /\ SentSoFar(Head(s.queue))

(* The counter of tasks agrees with the list.                              *)
TasksMatch(s) == s.at_tasks = Len(s.queue) % UintValues
=============================================================================
