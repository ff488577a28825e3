----------------------------- MODULE AtSession ------------------------------
(***************************************************************************)
(* One device talking to its modem: the command queue (at_queue.c), the    *)
(* monitor thread (monitor_thread.c), the serializer that runs the jobs    *)
(* the monitor pushes, the response handlers (at_response.c), connecting   *)
(* and disconnecting (chan_quectel.c), and the modem at the other end of   *)
(* the tty.                                                                *)
(*                                                                         *)
(* Callers, jobs and the monitor interleave; each critical section under   *)
(* pvt->lock is one action.  The monitor and the timeout, ping and restart *)
(* jobs only try the lock, so each of their steps may also be a skip.      *)
(***************************************************************************)
EXTENDS AtCommands

CONSTANTS
  CallerKinds,   (* tasks callers enqueue: they need an initialised device  *)
  OfflineKinds,  (* tasks that only need a connected one (helpers.c)        *)
  UrcTasks,      (* what handlers of unsolicited lines enqueue              *)
  MakerKinds,    (* initialisation tasks for the maker AT+CGMI reports      *)
  ModelKinds,    (* and for the model AT+CGMM reports                       *)
  InitKinds,     (* the common initialisation task                          *)
  PingKinds,     (* at_enqueue_ping                                         *)
  Farewells,     (* what pvt_disconnect adds before the queue is flushed    *)
  StartOnline,   (* begin with an initialised device and an empty queue     *)
  WriteFaults,   (* may a write to the tty fall short?                      *)
  Timeouts,      (* may a command outlive its timeout?                      *)
  Restarts,      (* may the device be lost, stopped and started again?      *)
  ModemResults,  (* the final results the modem gives                       *)
  Chatter,       (* the kinds of lines it sends unasked: URC, UNKNOWN       *)
  HighWater,     (* TASKPROCESSOR_HIGH_WATER                                *)
  MaxQueue,      (* bound on the queue for callers; pings may add one more  *)
  MaxHandled,    (* the bound for handlers of lines that answer nothing     *)
  MaxJobs,       (* bound on the jobs of the serializer                     *)
  MaxLines       (* bound on the lines either side has not read: while more *)
                 (* are unread no session starts, nobody adds a task and no *)
                 (* timeout is acted on                                     *)

(* A handler enqueues at most four tasks; unused places hold NoTask.       *)
Tasks4(a, b, c, d) == [t1 |-> a, t2 |-> b, t3 |-> c, t4 |-> d]

Tasks1(a) == Tasks4(a, NoTask, NoTask, NoTask)

Tasks0 == Tasks1(NoTask)

Size(tasks) == Cardinality({t \in {"t1", "t2", "t3", "t4"} : tasks[t].cmds # <<>>})

Tasks4Set == [t1 : KindSet, t2 : KindSet, t3 : KindSet, t4 : KindSet]

Finals == {"OK", "ERROR", "PROMPT"}

(* What a handler or a caller enqueues is a task of the driver.            *)
ASSUME KindsAssumption ==
  /\ CallerKinds \cup OfflineKinds \cup InitKinds \cup PingKinds \subseteq KindSet
  /\ MakerKinds \cup ModelKinds \subseteq KindSet
  /\ UrcTasks \cup Farewells \subseteq Tasks4Set

ASSUME ModemAssumption == ModemResults \subseteq Finals /\ Chatter \subseteq {"URC", "UNKNOWN"}

ASSUME StartAssumption == StartOnline \in BOOLEAN

VARIABLES
  atq,           (* the queue, see AtQueue                                  *)
  rx,            (* lines the modem has sent and the monitor has not read   *)
  prompt,        (* the modem waits for message text, not for a command     *)
  tps,           (* jobs of the serializer, first in first out              *)
  mon,           (* where the monitor thread is                             *)
  initialized,   (* pvt->initialized                                        *)
  terminate,     (* pvt->terminate_monitor                                  *)
  expired,       (* the timeout of the head command has run out             *)
  watched,       (* the monitor sleeps on the timeout of that same command  *)
  critical       (* a handler reported a critical error in this session     *)

vars == <<atq, rx, prompt, tps, mon, initialized, terminate, expired, watched, critical>>

MonStates == {"off", "starting", "loop", "wait_cmd", "wait_late", "wait_idle", "wait_busy"}

Waiting == {"wait_cmd", "wait_late", "wait_idle", "wait_busy"}

(* A line from the modem: what at_str2res makes of it and, for a final     *)
(* result, the command it answers.                                         *)
Received(res, cmd) == [res |-> res, cmd |-> cmd]

Job(job, line) == [job |-> job, line |-> line]

NoLine == Received("URC", "none")

EmptyQueue == [queue |-> <<>>, at_tasks |-> 0, at_cmds |-> 0, tx |-> <<>>]

Init ==
  /\ atq = EmptyQueue
  /\ rx = <<>>
  /\ prompt = FALSE
  /\ tps = <<>>
  /\ mon = IF StartOnline THEN "loop" ELSE "starting"
  /\ initialized = StartOnline
  /\ terminate = FALSE
  /\ expired = FALSE
  /\ watched = FALSE
  /\ critical = FALSE

-----------------------------------------------------------------------------
(* Writes.  The descriptor is closed while the device is disconnected.     *)
WriteResults ==
  IF mon = "off" THEN {FALSE} ELSE IF WriteFaults THEN BOOLEAN ELSE {TRUE}

Wrote(s) == Len(s.tx) > Len(atq.tx)

(* Commit a queue state.  A write starts a new timeout for the head, and a *)
(* head that has not been written has none.                                *)
SameDeadline(s) == HeadSent(s) /\ ~Wrote(s)

SetQueue(s) ==
  /\ atq' = s
  /\ expired' = (expired /\ SameDeadline(s))
  /\ watched' = (watched /\ SameDeadline(s))

Insert4(s, tasks, ok) ==
  LET s1 == at_queue_insert(s, tasks.t1, ok)
      s2 == at_queue_insert(s1, tasks.t2, ok)
      s3 == at_queue_insert(s2, tasks.t3, ok)
  IN  at_queue_insert(s3, tasks.t4, ok)

(* The bounds on what callers and pings add.                               *)
Room(bound) == Len(atq.queue) < bound /\ Len(atq.tx) <= MaxLines

(* What enqueueing a task can lead to.                                     *)
Inserted(kind) == {at_queue_insert(atq, kind, ok) : ok \in WriteResults}

(* A caller on any thread: lock the device, check it, enqueue, unlock.     *)
Enqueue(kind) ==
  /\ mon # "off"
  /\ Room(MaxQueue)
  /\ \E s \in Inserted(kind) : SetQueue(s)
  /\ UNCHANGED <<rx, prompt, tps, mon, initialized, terminate, critical>>

(* Nearly all callers need an initialised device; a reset and a command    *)
(* from the console only a connected one.                                  *)
CallerOnline == initialized /\ \E kind \in CallerKinds : Enqueue(kind)

CallerConnected == \E kind \in OfflineKinds : Enqueue(kind)

-----------------------------------------------------------------------------
(* Response handlers: what at_response_ok and at_response_error enqueue    *)
(* for the command at the head, before its result is taken from the queue. *)
OkTasks(cmd) ==
  CASE cmd = "FINAL"     -> {Tasks4(at_enqueue_list_messages, at_enqueue_csq, NoTask, NoTask),
                             Tasks1(at_enqueue_csq)}
    [] cmd = "CVOICE"    -> {Tasks1(at_enqueue_enable_uac), Tasks1(at_enqueue_enable_tty), Tasks0}
    [] cmd = "CPCMREG"   -> {Tasks4(at_enqueue_cpcmfrm(FALSE), at_enqueue_cpcmreg(FALSE),
                                    at_enqueue_cgains(gains, gains), at_enqueue_query_cgains) :
                               gains \in BOOLEAN}
    [] cmd \in {"QPCMV_TTY", "QPCMV_UAC"} ->
                            {Tasks4(at_enqueue_qgains(gains, gains), at_enqueue_query_qgains,
                                    NoTask, NoTask) : gains \in BOOLEAN}
    [] cmd = "CMGR"      -> {Tasks1(at_enqueue_delete_sms(FALSE)), Tasks0}
    [] cmd = "D"         -> {Tasks1(at_enqueue_hangup(FALSE, TRUE)), Tasks0}
    [] OTHER             -> {Tasks0}

ErrorTasks(cmd) ==
  CASE cmd = "CPCMREG1" -> {Tasks1(at_enqueue_cpcmreg(TRUE)), Tasks0}
    [] cmd = "CMGR"     -> {Tasks1(at_enqueue_delete_sms(FALSE)), Tasks0}
    [] OTHER            -> {Tasks0}

(* The errors at_response_error calls critical, "disconnected from device" *)
DisconnectedErrors == {"AT", "Z", "E", "CLCC"}

(* The commands whose error makes at_response_error return -1.             *)
FailingErrors ==
  DisconnectedErrors \cup
  {"FINAL", "CGMI", "CGMM", "CGMR", "CMEE", "CGSN", "CIMI", "CPIN", "COPS_INIT",
   "CREG_INIT", "CSSN", "CSCS"}

HeadCmd == IF atq.queue = <<>> THEN "none" ELSE at_queue_head_cmd(atq).cmd

HeadExpects(res) == atq.queue # <<>> /\ at_queue_head_cmd(atq).res = res

(* Seeded fault: a case takes its result off the queue and then falls      *)
(* through to the code that does so for all of them.                       *)
OkTwice(tasks, ok) ==
  IF HeadExpects("OK")
  THEN at_queue_remove_cmd(at_queue_remove_cmd(Insert4(atq, tasks, ok), "OK"), "OK")
  ELSE atq

(* Neither handler asks whether the head command has been written.         *)
at_response_ok(tasks, ok) ==
  IF HeadExpects("OK") THEN at_queue_remove_cmd(Insert4(atq, tasks, ok), "OK") ELSE atq

at_response_error(res, tasks, ok) ==
  IF atq.queue = <<>> THEN atq ELSE at_queue_remove_cmd(Insert4(atq, tasks, ok), res)

(* Seeded fault: a prompt after AT+CNMA is not escaped.                    *)
PromptNotEscaped(ok) ==
  CASE HeadCmd = "CNMA" /\ HeadExpects("OK") -> at_queue_remove_cmd(atq, "OK")
    [] HeadExpects("PROMPT")                 -> at_queue_remove_cmd(atq, "PROMPT")
    [] OTHER                                 -> atq

(* A prompt answers AT+CMGS.  AT+CNMA expects no prompt, but some modules  *)
(* send one: it is escaped.                                                *)
at_response_sms_prompt(ok) ==
  CASE HeadCmd = "CNMA" /\ HeadExpects("OK") ->
         at_queue_remove_cmd(at_queue_insert(atq, at_enqueue_escape, ok), "OK")
    [] HeadExpects("PROMPT") -> at_queue_remove_cmd(atq, "PROMPT")
    [] OTHER                 -> atq

(* Seeded fault: the line is looked at one command too late.               *)
MakerMissed == IF HeadCmd = "CGMM" THEN {Tasks1(k) : k \in ModelKinds} \cup {Tasks0} ELSE {Tasks0}

(* An unrecognised line is taken for the maker or the model if the head    *)
(* command asks for it.                                                    *)
UnknownTasks ==
  CASE HeadCmd = "CGMI" -> {Tasks1(k) : k \in MakerKinds}
    [] HeadCmd = "CGMM" -> {Tasks1(k) : k \in ModelKinds} \cup {Tasks0}
    [] OTHER            -> {Tasks0}

(* At the bound a handler enqueues nothing.                                *)
Bounded(set) == {tasks \in set : tasks = Tasks0 \/ Len(atq.queue) + Size(tasks) <= MaxHandled}

Capped(set) == IF Bounded(set) = {} THEN {Tasks0} ELSE Bounded(set)

HandlerTasks(res) ==
  CASE res = "OK"      -> IF HeadExpects("OK") THEN OkTasks(HeadCmd) ELSE {Tasks0}
    [] res \in {"ERROR", "TIMEOUT"} -> ErrorTasks(HeadCmd)
    [] res = "UNKNOWN" -> Capped(UnknownTasks)
    [] res = "URC"     -> Capped(UrcTasks)
    [] OTHER           -> {Tasks0}

at_response(res, tasks, ok) ==
  CASE res = "OK"                  -> at_response_ok(tasks, ok)
    [] res \in {"ERROR", "TIMEOUT"} -> at_response_error(res, tasks, ok)
    [] res = "PROMPT"              -> at_response_sms_prompt(ok)
    [] OTHER                       -> Insert4(atq, tasks, ok)

(* What handling a line, or a timeout, can lead to.                        *)
Handled(res) ==
  {at_response(res, tasks, ok) : tasks \in HandlerTasks(res), ok \in WriteResults}

(* pvt->initialized after the handler.                                     *)
InitializedAfter(res) ==
  CASE res = "OK" /\ HeadExpects("OK") /\ HeadCmd \in {"FINAL", "CPCMREG1"} -> TRUE
    [] res \in {"ERROR", "TIMEOUT"} /\ HeadCmd = "FINAL"                     -> FALSE
    [] OTHER                                                                -> initialized

-----------------------------------------------------------------------------
(* Jobs of the serializer.                                                 *)
NextJob(job) == tps # <<>> /\ Head(tps).job = job

(* A job that finds terminate_monitor set, or (trylock) the lock taken.    *)
TaskSkipped ==
  /\ tps # <<>>
  /\ terminate \/ Head(tps).job # "response"
  /\ tps' = Tail(tps)
  /\ UNCHANGED <<atq, rx, prompt, mon, initialized, terminate, expired, watched, critical>>

(* response_taskproc: handle the line, then run the queue.  A handler that *)
(* reports failure is only logged; a failed write stops the monitor.       *)
TaskResponse ==
  /\ NextJob("response")
  /\ ~terminate
  /\ LET res == Head(tps).line.res
     IN  /\ \E handled \in Handled(res), ok \in WriteResults :
              /\ \E s \in {at_queue_run(handled, ok)} : SetQueue(s)
              /\ terminate' = (RunWrites(handled) /\ ~ok)
         /\ initialized' = InitializedAfter(res)
         /\ critical' = (critical \/ (res = "ERROR" /\ HeadCmd \in DisconnectedErrors))
  /\ tps' = Tail(tps)
  /\ UNCHANGED <<rx, prompt, mon>>

(* cmd_timeout.  The task is freed by the time its IGNORE flag is read, so *)
(* the monitor may or may not be stopped.  The queue is not run.           *)
TaskTimeout ==
  /\ NextJob("timeout")
  /\ ~terminate
  /\ IF HeadSent(atq)
     THEN /\ \E s \in Handled("TIMEOUT") : SetQueue(s)
          /\ initialized' = InitializedAfter("TIMEOUT")
          /\ terminate' \in (IF HeadCmd \in FailingErrors THEN {TRUE} ELSE BOOLEAN)
     ELSE UNCHANGED <<atq, initialized, terminate, expired, watched>>
  /\ tps' = Tail(tps)
  /\ UNCHANGED <<rx, prompt, mon, critical>>

(* at_enqueue_ping                                                         *)
TaskPing ==
  /\ NextJob("ping")
  /\ ~terminate
  /\ Room(MaxQueue + 1)
  /\ \E kind \in PingKinds : \E s \in Inserted(kind) : SetQueue(s)
  /\ tps' = Tail(tps)
  /\ UNCHANGED <<rx, prompt, mon, initialized, terminate, critical>>

(* restart_monitor                                                         *)
TaskRestart ==
  /\ NextJob("restart")
  /\ ~terminate
  /\ terminate' = TRUE
  /\ tps' = Tail(tps)
  /\ UNCHANGED <<atq, rx, prompt, mon, initialized, expired, watched, critical>>

-----------------------------------------------------------------------------
(* The monitor thread.                                                     *)
PushAll(jobs) ==
  /\ Len(tps) + Len(jobs) <= MaxJobs
  /\ tps' = tps \o jobs

(* check_taskprocessor: an overloaded serializer gets a restart job first. *)
Guarded(job) ==
  IF Len(tps) >= HighWater THEN <<Job("restart", NoLine), Job(job, NoLine)>>
  ELSE <<Job(job, NoLine)>>

(* At the bound the serializer works before the monitor's next iteration.  *)
RoomForJobs == Len(tps) + Len(Guarded("ping")) <= MaxJobs

(* pvt_disconnect: hang up the calls, write what must go out at once, drop *)
(* the queue and close the ports, with what was not read.  Jobs already    *)
(* pushed stay.                                                            *)
LastWords(s, ok) == IF initialized THEN at_queue_run_immediately(s, ok) ELSE s

Dropped ==
  {at_queue_flush(LastWords(Insert4(atq, tasks, TRUE), ok)) : tasks \in Farewells, ok \in WriteResults}

pvt_disconnect ==
  /\ \E s \in Dropped : SetQueue(s)
  /\ rx' = <<>>
  /\ mon' = "off"
  /\ initialized' = FALSE
  /\ UNCHANGED <<prompt, tps, critical>>

(* The top of the loop with the lock: stop, sleep until the head command   *)
(* times out, handle one that already has, or sleep until the next ping.   *)
MonLoop ==
  /\ mon = "loop"
  /\ ~terminate
  /\ RoomForJobs
  /\ CASE ~HeadSent(atq)             -> mon' = "wait_idle" /\ UNCHANGED <<tps, watched>>
       [] HeadSent(atq) /\ ~expired  -> mon' = "wait_cmd" /\ watched' = TRUE /\ UNCHANGED tps
       [] HeadSent(atq) /\ expired   ->
            mon' = "wait_late" /\ PushAll(Guarded("timeout")) /\ UNCHANGED watched
  /\ UNCHANGED <<atq, rx, prompt, initialized, terminate, expired, critical>>

(* ... and without the lock.                                               *)
MonBusy ==
  /\ mon = "loop"
  /\ RoomForJobs
  /\ mon' = "wait_busy"
  /\ UNCHANGED <<atq, rx, prompt, tps, initialized, terminate, expired, watched, critical>>

MonTerminate ==
  /\ mon = "loop"
  /\ terminate
  /\ pvt_disconnect
  /\ UNCHANGED terminate

(* check_dev_status or at_read fails.                                      *)
MonLost ==
  /\ Restarts
  /\ mon \in {"loop"} \cup Waiting
  /\ pvt_disconnect
  /\ terminate' = FALSE

(* Lines have arrived: push a job for each one that is complete.           *)
ResponseJobs(lines) == [i \in DOMAIN lines |-> Job("response", lines[i])]

MonRead ==
  /\ mon \in Waiting
  /\ \E n \in 1 .. Len(rx) :
       /\ PushAll(ResponseJobs(SubSeq(rx, 1, n)))
       /\ rx' = SubSeq(rx, n + 1, Len(rx))
  /\ mon' = "loop"
  /\ UNCHANGED <<atq, prompt, initialized, terminate, expired, watched, critical>>

(* The sleep ends with nothing to read.  The timeout it slept on may by    *)
(* now be that of an earlier command.                                      *)
MonTimeout ==
  /\ mon = "wait_cmd"
  /\ Timeouts
  /\ rx = <<>>
  /\ watched => expired
  /\ Len(atq.tx) <= MaxLines
  /\ PushAll(<<Job("timeout", NoLine)>>)
  /\ mon' = "loop"
  /\ UNCHANGED <<atq, rx, prompt, initialized, terminate, expired, watched, critical>>

MonLate ==
  /\ mon = "wait_late"
  /\ rx = <<>>
  /\ mon' = "loop"
  /\ UNCHANGED <<atq, rx, prompt, tps, initialized, terminate, expired, watched, critical>>

(* Seeded fault: only a device with nothing to do is pinged.               *)
MonIdleQuiet ==
  /\ mon \in {"wait_idle", "wait_busy"}
  /\ rx = <<>>
  /\ PushAll(IF atq.queue = <<>> THEN Guarded("ping") ELSE <<>>)
  /\ mon' = "loop"
  /\ UNCHANGED <<atq, rx, prompt, initialized, terminate, expired, watched, critical>>

MonIdle ==
  /\ mon \in {"wait_idle", "wait_busy"}
  /\ rx = <<>>
  /\ PushAll(IF mon = "wait_idle" THEN Guarded("ping") ELSE <<Job("ping", NoLine)>>)
  /\ mon' = "loop"
  /\ UNCHANGED <<atq, rx, prompt, initialized, terminate, expired, watched, critical>>

(* The start of the thread.  The serializer's name is still taken while    *)
(* jobs of an earlier session remain: then the session ends at once.       *)
(* Otherwise drop what the modem said before and enqueue initialisation.   *)
MonStart ==
  /\ mon = "starting"
  /\ \/ /\ tps # <<>>
        /\ pvt_disconnect
        /\ terminate' = FALSE
     \/ /\ tps = <<>>
        /\ rx' = <<>>
        /\ \E kind \in InitKinds, ok \in WriteResults :
             LET s == at_queue_add(atq, kind)
             IN  IF RunWrites(s) /\ ~ok
                 THEN /\ SetQueue(at_queue_flush(at_queue_run(s, ok)))
                      /\ mon' = "off"
                      /\ terminate' = FALSE
                      /\ initialized' = FALSE
                 ELSE /\ SetQueue(at_queue_run(s, ok))
                      /\ mon' = "loop"
                      /\ UNCHANGED <<terminate, initialized>>
        /\ critical' = FALSE
        /\ UNCHANGED <<prompt, tps>>

-----------------------------------------------------------------------------
(* The device manager: pvt_start, and the two halves of pvt_monitor_stop,  *)
(* which lets go of the lock while it joins the thread.  pvt_start joins a *)
(* thread that has ended, so a stop may be asked of one that is off.       *)
pvt_start ==
  /\ Restarts
  /\ mon = "off"
  /\ Len(atq.tx) <= MaxLines
  /\ mon' = "starting"
  /\ terminate' = FALSE
  /\ UNCHANGED <<atq, rx, prompt, tps, initialized, expired, watched, critical>>

StopRequest ==
  /\ Restarts
  /\ terminate' = TRUE
  /\ UNCHANGED <<atq, rx, prompt, tps, mon, initialized, expired, watched, critical>>

StopJoined ==
  /\ Restarts
  /\ mon = "off"
  /\ terminate
  /\ terminate' = FALSE
  /\ UNCHANGED <<atq, rx, prompt, tps, mon, initialized, expired, watched, critical>>

-----------------------------------------------------------------------------
(* The modem and the clock.  Message text is whatever comes after a        *)
(* prompt, be it meant as text or not.  What it says to a closed port is   *)
(* lost.                                                                   *)
Answers(cmd) ==
  IF prompt THEN {"OK", "ERROR"}
  ELSE CASE cmd = "CMGS" -> {"PROMPT", "ERROR"}
         [] cmd = "CNMA" -> {"OK", "ERROR", "PROMPT"}
         [] OTHER        -> {"OK", "ERROR"}

(* The maker and the model come on a line of their own before the OK.      *)
Preamble(cmd, res) ==
  IF cmd \in {"CGMI", "CGMM"} /\ res = "OK" /\ ~prompt THEN <<Received("UNKNOWN", "none")>> ELSE <<>>

ModemAnswer ==
  /\ atq.tx # <<>>
  /\ Len(rx) < MaxLines
  /\ \E res \in Answers(Head(atq.tx)) \cap ModemResults :
       /\ rx' = IF mon = "off" THEN <<>>
                ELSE Append(rx \o Preamble(Head(atq.tx), res), Received(res, Head(atq.tx)))
       /\ prompt' = (res = "PROMPT")
  /\ atq' = [atq EXCEPT !.tx = Tail(@)]
  /\ UNCHANGED <<tps, mon, initialized, terminate, expired, watched, critical>>

(* The modem drops a line: busy, resetting, or hung.                       *)
ModemIgnores ==
  /\ Timeouts
  /\ atq.tx # <<>>
  /\ atq' = [atq EXCEPT !.tx = Tail(@)]
  /\ prompt' \in {prompt, FALSE}
  /\ UNCHANGED <<rx, tps, mon, initialized, terminate, expired, watched, critical>>

(* A line nobody asked for.                                                *)
ModemTalks ==
  /\ mon # "off"
  /\ Len(rx) < MaxLines
  /\ \E res \in Chatter : rx' = Append(rx, Received(res, "none"))
  /\ UNCHANGED <<atq, prompt, tps, mon, initialized, terminate, expired, watched, critical>>

TimePasses ==
  /\ Timeouts
  /\ HeadSent(atq)
  /\ ~expired
  /\ Len(atq.tx) <= MaxLines
  /\ expired' = TRUE
  /\ UNCHANGED <<atq, rx, prompt, tps, mon, initialized, terminate, watched, critical>>

Serializer == TaskSkipped \/ TaskResponse \/ TaskTimeout \/ TaskPing \/ TaskRestart

Monitor ==
  \/ MonLoop \/ MonBusy \/ MonTerminate \/ MonLost \/ MonRead
  \/ MonTimeout \/ MonLate \/ MonIdle \/ MonStart

DeviceManager == pvt_start \/ StopRequest \/ StopJoined

Environment == ModemAnswer \/ ModemIgnores \/ ModemTalks \/ TimePasses

Next ==
  \/ CallerOnline
  \/ CallerConnected
  \/ Serializer
  \/ Monitor
  \/ DeviceManager
  \/ Environment

Spec == Init /\ [][Next]_vars

(***************************************************************************)
(* Fairness.  Threads run, sleeps end and time passes.  A job or a loop    *)
(* that only tries the lock finds it free infinitely often, so it is not   *)
(* skipped for ever (strong fairness).  The modem takes lines off the tty  *)
(* but need not answer any.  Nothing is assumed of callers or of stop      *)
(* requests.                                                               *)
(***************************************************************************)
Fairness ==
  /\ WF_vars(Serializer)
  /\ SF_vars(TaskTimeout) /\ SF_vars(TaskPing)
  /\ SF_vars(MonLoop \/ MonTerminate)
  /\ WF_vars(MonRead \/ MonTimeout \/ MonLate \/ MonIdle)
  /\ WF_vars(MonStart)
  /\ WF_vars(pvt_start)
  /\ WF_vars(TimePasses)
  /\ WF_vars(ModemAnswer \/ ModemIgnores)

FairSpec == Spec /\ Fairness

(* A modem that answers every command in the end, whatever else it says.   *)
HelpfulSpec == FairSpec /\ SF_vars(ModemAnswer)

-----------------------------------------------------------------------------
(* Types.                                                                  *)
LineSet == [res : Finals \cup {"URC", "UNKNOWN"}, cmd : at_cmd_t \cup {"none"}]

JobSet == [job : {"response", "timeout", "ping", "restart"}, line : LineSet]

(* Every variable has the type the code gives it; the counters stay within *)
(* a uint32_t.                                                             *)
TypeOK ==
  /\ atq \in QueueSet
  /\ rx \in Seq(LineSet)
  /\ prompt \in BOOLEAN
  /\ tps \in Seq(JobSet)
  /\ mon \in MonStates
  /\ initialized \in BOOLEAN
  /\ terminate \in BOOLEAN
  /\ expired \in BOOLEAN
  /\ watched \in BOOLEAN
  /\ critical \in BOOLEAN

-----------------------------------------------------------------------------
(* Safety.                                                                 *)

(* No sequence of inserts, results, failed writes, timeouts and flushes    *)
(* makes the queue read past the commands of a task, and only the task at  *)
(* the head is ever started: a task inserted "after head" never overtakes  *)
(* a command that is on the wire.                                          *)
HeadOnlyStarted == WellFormed(atq)

(* PVT_STATE at_tasks is the length of the queue, through every path that  *)
(* adds, removes or flushes.                                               *)
TasksCounted == TasksMatch(atq)

(* PVT_STATE at_cmds is the number of commands still to be resolved.       *)
CommandsCounted == atq.at_cmds = Remaining(atq.queue) % UintValues

FinalLines == {i \in DOMAIN rx : rx[i].res \in Finals}

FinalJobs == {i \in DOMAIN tps : tps[i].job = "response" /\ tps[i].line.res \in Finals}

(* While no command times out, the link is half duplex: at most one        *)
(* command is between its write and the handling of its result, it is the  *)
(* head command, and a result on its way, in the tty or waiting in the     *)
(* serializer, is that command's.  The handlers credit a result to the     *)
(* head without looking, and this is why that is right.                    *)
HalfDuplex ==
  mon # "off" =>
    /\ Len(atq.tx) + Cardinality(FinalLines) + Cardinality(FinalJobs) <= 1
    /\ \A i \in DOMAIN atq.tx : HeadSent(atq) /\ atq.tx[i] = HeadLine(atq)
    /\ \A i \in FinalLines : HeadSent(atq) /\ rx[i].cmd = HeadLine(atq)
    /\ \A i \in FinalJobs : HeadSent(atq) /\ tps[i].line.cmd = HeadLine(atq)

(* While no command times out and no write fails, a task passes a command  *)
(* only after writing it: none is skipped by a result that was not its own.*)
NothingSkipped ==
  mon # "off" /\ atq.queue # <<>> /\ ~Head(atq.queue).at_once =>
    1 .. Head(atq.queue).cindex \subseteq Head(atq.queue).sent

MessageText == {"SMSTEXT", "ESC"}

(* How the builders put a message together: AT+CMGS is followed by its     *)
(* text and nothing else is, AT+CMGS alone expects the prompt and gives up *)
(* without it, an acknowledgement is the last command of its task, and     *)
(* none of these is sent at once.  Only a handler escapes.                 *)
ProperCommand(task, i) ==
  LET command == task.cmds[i]
  IN  /\ command.cmd # "ESC"
      /\ command.cmd \in {"CMGS", "SMSTEXT", "CNMA"} => ~task.at_once
      /\ command.res = "PROMPT" <=> command.cmd = "CMGS"
      /\ command.cmd = "CMGS" => /\ ~command.ignore
                                 /\ i + 1 \in DOMAIN task.cmds
                                 /\ task.cmds[i + 1].cmd = "SMSTEXT"
      /\ command.cmd = "SMSTEXT" => i - 1 \in DOMAIN task.cmds /\ task.cmds[i - 1].cmd = "CMGS"
      /\ command.cmd = "CNMA" => i = Len(task.cmds)

Proper(task) == \A i \in DOMAIN task.cmds : ProperCommand(task, i)

(* Everything that is enqueued from outside the handlers of results.       *)
WellBuilt ==
  /\ \A kind \in CallerKinds \cup OfflineKinds \cup InitKinds \cup PingKinds : Proper(kind)
  /\ \A kind \in MakerKinds \cup ModelKinds : Proper(kind)
  /\ \A tasks \in UrcTasks :
       Proper(tasks.t1) /\ Proper(tasks.t2) /\ Proper(tasks.t3) /\ Proper(tasks.t4)

(* While no command times out and no write fails, the modem reads message  *)
(* text (or the escape) exactly when it has prompted for it: no command    *)
(* goes out as the text of a message and no text as a command, whatever    *)
(* callers and unsolicited lines enqueue in between.                       *)
PromptDiscipline ==
  mon # "off" /\ atq.tx # <<>> => (prompt <=> Head(atq.tx) \in MessageText)

-----------------------------------------------------------------------------
(* Liveness under FairSpec, Boots under HelpfulSpec.                      *)

HeadMoves ==
  /\ atq.queue # <<>>
  /\ \/ Len(atq'.queue) < Len(atq.queue)
     \/ Head(atq'.queue) # Head(atq.queue)

(* A command that has been written does not block the queue for ever, even *)
(* if the modem never answers: it is answered, timed out or flushed.       *)
HeadProgress == <>[]HeadSent(atq) => []<><<HeadMoves>>_vars

(* A queue with work in it is not left idle.  cmd_timeout does not run the *)
(* queue, so after a timeout the next command waits, unwritten, for a      *)
(* ping, a caller or a line from the modem to run it; one always comes.    *)
IdleQueueResumes ==
  (atq.queue # <<>> /\ ~HeadSent(atq)) ~> (HeadSent(atq) \/ atq.queue = <<>>)

(* A device whose modem answers every command with success becomes ready:  *)
(* the common task finds the maker, the maker's task ends with the final   *)
(* AT, and its OK sets pvt->initialized.                                   *)
Boots == <>initialized

-----------------------------------------------------------------------------
(* What comments in the code say and the code does not do.                 *)

TimeoutFires ==
  NextJob("timeout") /\ ~terminate /\ HeadSent(atq) /\ tps' = Tail(tps) /\ atq' # atq

(* at_queue.h: a command's timeout is "started at time when command        *)
(* actually written on device", so only a command whose own timeout has    *)
(* run out is removed by the timeout job.                                  *)
TimeoutIsDue == [][TimeoutFires => expired]_vars

(* at_response.c: a critical error "mean[s] disconnected from device", so  *)
(* nothing more is written in that session.                                *)
CriticalErrorDisconnects == [][critical /\ critical' => Len(atq'.tx) <= Len(atq.tx)]_vars
=============================================================================
