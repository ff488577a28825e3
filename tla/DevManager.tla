----------------------------- MODULE DevManager -----------------------------
(***************************************************************************)
(* The device manager of chan_quectel.c: the thread that starts, stops,    *)
(* restarts and removes devices, the eventfd its commands arrive on, the   *)
(* requests of the command line, the reload of the configuration and the   *)
(* unloading of the module.                                                *)
(*                                                                         *)
(* A session with a modem (module AtSession) is reduced here to a monitor  *)
(* thread that runs, has ended and waits to be joined, or is not there.    *)
(* Each critical section under a device's lock is one action.  The lock of *)
(* the device list is held for reading through the manager's first loop    *)
(* and by a reload; it is held for writing for one action at a time, except *)
(* that unloading keeps it while it joins a monitor thread.                *)
(***************************************************************************)
EXTENDS Naturals, Sequences, FiniteSets

CONSTANTS
  Devices,        \* identifiers a configuration may name
  Configs,        \* configurations a reload may find: [Devices -> Section]
  FirstConfig,    \* the one the module is loaded with
  Requests,       \* <<event, when>> of the command line's restate commands
  ReloadTimes,    \* when of the command line's reload commands
  Activities,     \* what may keep a device busy, among "chans", "incoming"
  Unloads,        \* whether the module may be unloaded
  OpenMayFail,    \* whether opening the ports of a device may fail
  MayBeLost,      \* whether a monitor thread may end by itself
  MaxSignals,     \* bound: commands on the eventfd the manager has not read
  MaxReloads      \* bound: reloads

STOPPED   == "stopped"
RESTARTED == "restarted"
REMOVED   == "removed"
STARTED   == "started"
NOW        == "now"
GRACEFULLY == "gracefully"
CONVENIENT == "convenient"

InitStates == {STOPPED, STARTED, REMOVED}
DevStates  == InitStates \union {RESTARTED}
Times      == {NOW, GRACEFULLY, CONVENIENT}

(* What dc_config_fill makes of a device's section.  A section that is     *)
(* missing or in error counts as Missing; "rest" stands for all settings *)
(* but the initial state.                                                  *)
Missing  == [init_state |-> "none", rest |-> 0]
Settings == [init_state : InitStates, rest : 0 .. 1]
Section  == {Missing} \union Settings

ASSUME ConfigAssumption ==
  /\ IsFiniteSet(Devices)
  /\ Configs \subseteq [Devices -> Section]
  /\ FirstConfig \in [Devices -> Section]
  /\ Requests \subseteq DevStates \X Times
  /\ ReloadTimes \subseteq Times
  /\ Activities \subseteq {"chans", "incoming"}
  /\ Unloads \in BOOLEAN /\ OpenMayFail \in BOOLEAN /\ MayBeLost \in BOOLEAN
  /\ MaxSignals \in Nat /\ MaxReloads \in Nat

VARIABLES
  list,      \* state->devices
  pvt,       \* the devices, by identifier (of use while listed)
  event,     \* the value of the eventfd
  mgr,       \* the manager: where it is, devices left to visit, why it joins
  reload,    \* a reload: where it is, its configuration, what is left
  unload,    \* the unloading of the module
  orphans    \* devices freed while their monitor thread was running

vars == <<list, pvt, event, mgr, reload, unload, orphans>>

Listed == {list[i] : i \in DOMAIN list}

(* The lists of the devices in S, each device once,                        *)
Listings(S) == {s \in [1 .. Cardinality(S) -> S] : {s[i] : i \in DOMAIN s} = S}

(* and the one that removing from a list leaves.                           *)
InOrderOf(s, t) ==
  \A i, j \in DOMAIN s : i < j =>
    \E k, l \in DOMAIN t : k < l /\ t[k] = s[i] /\ t[l] = s[j]

Pvt == [desired  : DevStates,            \* desired_state
        current  : {STOPPED, STARTED},   \* current_state, and connected
        when     : Times,                \* restart_time
        must_remove : BOOLEAN,
        monitor  : {"none", "running", "ended"},   \* monitor_thread
        terminate : BOOLEAN,             \* terminate_monitor
        jobs     : BOOLEAN,              \* a session has pushed jobs
        late     : BOOLEAN,              \* history: set by a job, after the join
        busy     : SUBSET Activities,    \* chans, incoming_sms_index >= 0; outgoing_sms is never set
        settings : Settings]

pvt_create(s) ==
  [desired |-> s.init_state, current |-> STOPPED, when |-> NOW,
   must_remove |-> FALSE, monitor |-> "none", terminate |-> FALSE,
   jobs |-> FALSE, late |-> FALSE, busy |-> {}, settings |-> s]

DisconnectedStillStarted(p) == [p EXCEPT !.busy = {}, !.monitor = "ended"]   \* seeded fault

(* pvt_disconnect, as the last thing a monitor thread does.                *)
Disconnected(p) ==
  [p EXCEPT !.current = STOPPED, !.busy = {}, !.monitor = "ended"]

pvt_time4restate(p) ==
  /\ p.desired # p.current
  /\ \/ p.when = NOW
     \/ p.busy = {"incoming"}   \* no channels, index >= 0

(* pvt_try_restate for the device d whose new value is p.                  *)
TryRestate(d, p) ==
  IF pvt_time4restate(p)
    THEN /\ pvt' = [pvt EXCEPT ![d] = [p EXCEPT !.when = NOW]]
         /\ event' = event + 1
    ELSE /\ pvt' = [pvt EXCEPT ![d] = p]
         /\ UNCHANGED event

-----------------------------------------------------------------------------
(* Requests, and what keeps a device busy.                                 *)

(* schedule_restart_event, from "quectel start|stop|restart|remove".  The  *)
(* lock is free while the manager waits for a monitor thread to end.       *)
Request(d) ==
  /\ unload = "no"
  /\ d \in Listed
  /\ event < MaxSignals
  /\ \E r \in Requests :
       TryRestate(d, [pvt[d] EXCEPT !.desired = r[1], !.when = r[2]])
  /\ UNCHANGED <<list, mgr, reload, unload, orphans>>

(* A call or message begins.                                               *)
Begins(d) ==
  /\ d \in Listed
  /\ pvt[d].current = STARTED
  /\ \E a \in Activities \ pvt[d].busy :
       pvt' = [pvt EXCEPT ![d].busy = @ \union {a}]
  /\ UNCHANGED <<list, event, mgr, reload, unload, orphans>>

(* The last call ends (cpvt_free) or the last part of a message is sent    *)
(* (AT+CMGS): both try to restate.                                         *)
Ends(d) ==
  /\ d \in Listed
  /\ event < MaxSignals
  /\ pvt[d].current = STARTED
  /\ \E b \in {pvt[d].busy, pvt[d].busy \ {"chans"}} :
       TryRestate(d, [pvt[d] EXCEPT !.busy = b])
  /\ UNCHANGED <<list, mgr, reload, unload, orphans>>

(* at_sms_retrieved: does not try to restate.                              *)
Retrieved(d) ==
  /\ d \in Listed
  /\ "incoming" \in pvt[d].busy
  /\ pvt' = [pvt EXCEPT ![d].busy = @ \ {"incoming"}]
  /\ UNCHANGED <<list, event, mgr, reload, unload, orphans>>

(* A job of the device's serializer finds that the session must be begun   *)
(* anew: a command timed out or could not be written (cmd_timeout,         *)
(* response_taskproc), or the jobs pile up (restart_monitor).  Nobody waits *)
(* for the thread then.  Jobs outlive their session: one may run when the  *)
(* thread has been joined, or when the next one runs.                      *)
JobTerminates(d) ==
  /\ d \in Listed
  /\ pvt[d].jobs /\ ~pvt[d].terminate   \* when it is set, jobs are skipped
  /\ pvt' = [pvt EXCEPT ![d].terminate = TRUE, ![d].late = (pvt[d].monitor = "none")]
  /\ UNCHANGED <<list, event, mgr, reload, unload, orphans>>

(* The monitor thread ends because it is told to (e_restart, which leaves  *)
(* terminate_monitor set).                                                 *)
MonitorTold(d) ==
  /\ d \in Listed
  /\ pvt[d].monitor = "running" /\ pvt[d].terminate
  /\ pvt' = [pvt EXCEPT ![d] = Disconnected(@)]
  /\ UNCHANGED <<list, event, mgr, reload, unload, orphans>>

(* It ends by itself: the link is lost, or the session cannot be set up    *)
(* (e_cleanup, which clears terminate_monitor).                            *)
MonitorLost(d) ==
  /\ MayBeLost
  /\ d \in Listed
  /\ pvt[d].monitor = "running"
  /\ pvt' = [pvt EXCEPT ![d] = [Disconnected(@) EXCEPT !.terminate = FALSE, !.late = FALSE]]
  /\ UNCHANGED <<list, event, mgr, reload, unload, orphans>>

-----------------------------------------------------------------------------
(* The manager thread, dev_manager_threadproc_state.                       *)

Visiting == mgr.pc \in {"visit", "join"}   \* holds the list for reading

GoTo(pc, todo, why) == mgr' = [pc |-> pc, todo |-> todo, why |-> why]
Advance == GoTo("visit", Tail(mgr.todo), "")

(* The interval passes without a command.                                  *)
ManagerTimeout ==
  /\ mgr.pc = "wait" /\ event = 0
  /\ GoTo("visit", list, "")
  /\ UNCHANGED <<list, pvt, event, reload, unload, orphans>>

(* What the manager does with a value it reads: 1 is a scan, 2 is a stop,  *)
(* and any other is logged and slept on.                                   *)
ManagerCommand ==
  /\ mgr.pc = "wait" /\ event > 0
  /\ event' = 0
  /\ CASE event = 1 -> GoTo("visit", list, "")
       [] event = 2 -> GoTo("gone", <<>>, "")
       [] OTHER     -> UNCHANGED mgr
  /\ UNCHANGED <<list, pvt, reload, unload, orphans>>

(* The end of pvt_start: the ports open and a monitor thread is created, or *)
(* the device stays as it is.                                              *)
Opened(p) ==
  {[p EXCEPT !.monitor = "running", !.current = STARTED, !.jobs = TRUE]}
    \union (IF OpenMayFail THEN {p} ELSE {})

(* Seeded fault: a restart does not start.                                 *)
AfterStopHasty(why, p) ==
  CASE why = "start"  -> Opened(p)
    [] why = "remove" -> {[p EXCEPT !.must_remove = TRUE]}
    [] OTHER          -> {p}

(* The part of a visit after pvt_monitor_stop has returned; p has no       *)
(* monitor thread.                                                         *)
AfterStop(why, p) ==
  CASE why = "start"   -> Opened(p)
    [] why = "restart" -> Opened([p EXCEPT !.desired = STARTED])
    [] why = "remove"  -> {[p EXCEPT !.must_remove = TRUE]}
    [] why = "stop"    -> {p}

Purpose(s) ==
  CASE s = RESTARTED -> "restart" [] s = STARTED -> "start"
    [] s = REMOVED -> "remove"    [] s = STOPPED -> "stop"

(* The devices the first loop passes by.                                   *)
Skipped(p) ==
  \/ p.must_remove
  \/ p.when # NOW
  \/ p.desired = p.current

(* Seeded fault: a device is removed without stopping it.                  *)
ManagerVisitHasty ==
  /\ mgr.pc = "visit" /\ mgr.todo # <<>>
  /\ LET d == Head(mgr.todo)
         p == pvt[d]
     IN  IF Skipped(p)
           THEN Advance /\ UNCHANGED pvt
           ELSE IF p.monitor = "none" \/ p.desired = REMOVED
             THEN /\ \E q \in AfterStop(Purpose(p.desired), p) :
                       pvt' = [pvt EXCEPT ![d] = q]
                  /\ Advance
             ELSE /\ pvt' = [pvt EXCEPT ![d].terminate = TRUE]
                  /\ GoTo("join", mgr.todo, Purpose(p.desired))
  /\ UNCHANGED <<list, event, reload, unload, orphans>>

(* One device of the first loop.  A monitor thread that is there has to be *)
(* joined, which lets go of the device.                                    *)
ManagerVisit ==
  /\ mgr.pc = "visit" /\ mgr.todo # <<>>
  /\ LET d == Head(mgr.todo)
         p == pvt[d]
     IN  IF Skipped(p)
           THEN Advance /\ UNCHANGED pvt
           ELSE IF p.monitor = "none"
             THEN /\ \E q \in AfterStop(Purpose(p.desired), p) :
                       pvt' = [pvt EXCEPT ![d] = q]
                  /\ Advance
             ELSE /\ pvt' = [pvt EXCEPT ![d].terminate = TRUE]
                  /\ GoTo("join", mgr.todo, Purpose(p.desired))
  /\ UNCHANGED <<list, event, reload, unload, orphans>>

JoinedStillTerminating(p) == [p EXCEPT !.late = FALSE, !.monitor = "none"]   \* seeded fault

(* The rest of pvt_monitor_stop.                                           *)
Joined(p) == [p EXCEPT !.terminate = FALSE, !.late = FALSE, !.monitor = "none"]

ManagerJoined ==
  /\ mgr.pc = "join"
  /\ LET d == Head(mgr.todo)
     IN  /\ pvt[d].monitor = "ended"
         /\ \E q \in AfterStop(mgr.why, Joined(pvt[d])) : pvt' = [pvt EXCEPT ![d] = q]
  /\ Advance
  /\ UNCHANGED <<list, event, reload, unload, orphans>>

(* The second loop: the list is locked for writing, if it can be, and the  *)
(* devices in "locked" are passed by because their lock is held.           *)
ManagerSweep(locked) ==
  /\ mgr.pc = "visit" /\ mgr.todo = <<>>
  /\ reload.pc \notin {"mark", "remove"}   \* these hold it for reading
  /\ LET freed == {d \in Listed \ locked : pvt[d].must_remove}
     IN  /\ list' \in {s \in Listings(Listed \ freed) : InOrderOf(s, list)}
         /\ orphans' = orphans \union {d \in freed : pvt[d].monitor = "running"}
  /\ GoTo("wait", <<>>, "")
  /\ UNCHANGED <<pvt, event, reload, unload>>

ManagerListBusy ==
  /\ mgr.pc = "visit" /\ mgr.todo = <<>>
  /\ GoTo("wait", <<>>, "")
  /\ UNCHANGED <<list, pvt, event, reload, unload, orphans>>

-----------------------------------------------------------------------------
(* A reload of the configuration, pvt_reload.                              *)

Idle(left) ==
  [pc |-> "idle", conf |-> FirstConfig, when |-> NOW, todo |-> {}, now |-> FALSE,
   left |-> left]

(* The configuration is read and mark_must_remove begins.                  *)
ReloadStart ==
  /\ reload.pc = "idle" /\ unload = "no"
  /\ reload.left > 0
  /\ \E c \in Configs, w \in ReloadTimes :
       reload' = [pc |-> "mark", conf |-> c, when |-> w, todo |-> Listed, now |-> FALSE,
                  left |-> reload.left - 1]
  /\ UNCHANGED <<list, pvt, event, mgr, unload, orphans>>

ReloadMark(d) ==
  /\ reload.pc = "mark" /\ d \in reload.todo
  /\ pvt' = [pvt EXCEPT ![d].must_remove = TRUE]
  /\ reload' = [reload EXCEPT !.todo = @ \ {d}]
  /\ UNCHANGED <<list, event, mgr, unload, orphans>>

(* The next loop of reload_config: over the sections of the configuration, *)
(* then over the devices (mark_remove).                                    *)
ReloadPhase ==
  /\ reload.todo = {}
  /\ \/ /\ reload.pc = "mark"
        /\ reload' = [reload EXCEPT !.pc = "configure",
                        !.todo = {d \in Devices : reload.conf[d] # Missing}]
     \/ /\ reload.pc = "configure"
        /\ reload' = [reload EXCEPT !.pc = "remove", !.todo = Listed]
  /\ UNCHANGED <<list, pvt, event, mgr, unload, orphans>>

(* pvt_reconfigure: a change of the desired state, or of other settings.   *)
Reconfigured(p, s, when) ==
  LET desired == IF p.desired # s.init_state THEN s.init_state ELSE RESTARTED
      q == [p EXCEPT !.desired = desired]
  IN  IF s.init_state = REMOVED
        THEN [p EXCEPT !.must_remove = TRUE]
        ELSE IF p.desired = s.init_state /\ p.settings = s
          THEN [p EXCEPT !.must_remove = FALSE]
          ELSE [q EXCEPT !.must_remove = FALSE, !.settings = s,
                         !.when = IF pvt_time4restate(q) THEN NOW ELSE when]

Reconfigures(p, s) ==   \* what pvt_reconfigure returns
  /\ s.init_state # REMOVED
  /\ p.desired # s.init_state \/ p.settings # s
  /\ pvt_time4restate([p EXCEPT !.desired =
       IF p.desired # s.init_state THEN s.init_state ELSE RESTARTED])

(* A section of a device that is there.                                    *)
ReloadKnown(d) ==
  /\ reload.pc = "configure" /\ d \in reload.todo
  /\ d \in Listed
  /\ LET s == reload.conf[d]
     IN  /\ pvt' = [pvt EXCEPT ![d] = Reconfigured(@, s, reload.when)]
         /\ reload' = [reload EXCEPT !.todo = @ \ {d},
                                     !.now = @ \/ Reconfigures(pvt[d], s)]
  /\ UNCHANGED <<list, event, mgr, unload, orphans>>

(* A section of a new device.  Adding it takes the list for writing.       *)
ReloadNew(d) ==
  /\ reload.pc = "configure" /\ d \in reload.todo
  /\ d \notin Listed
  /\ IF reload.conf[d].init_state = REMOVED
       THEN /\ reload' = [reload EXCEPT !.todo = @ \ {d}]
            /\ UNCHANGED <<list, pvt>>
       ELSE /\ ~Visiting
            /\ pvt' = [pvt EXCEPT ![d] = pvt_create(reload.conf[d])]
            /\ list' = Append(list, d)
            /\ reload' = [reload EXCEPT !.todo = @ \ {d}, !.now = TRUE]
  /\ UNCHANGED <<event, mgr, unload, orphans>>

(* mark_remove.                                                            *)
ReloadRemove(d) ==
  /\ reload.pc = "remove" /\ d \in reload.todo
  /\ LET q == [pvt[d] EXCEPT !.desired = REMOVED]
         t == pvt_time4restate(q)
     IN  IF pvt[d].must_remove
           THEN /\ pvt' = [pvt EXCEPT ![d] =
                             [q EXCEPT !.when = IF t THEN NOW ELSE reload.when]]
                /\ reload' = [reload EXCEPT !.todo = @ \ {d}, !.now = @ \/ t]
           ELSE /\ reload' = [reload EXCEPT !.todo = @ \ {d}]
                /\ UNCHANGED pvt
  /\ UNCHANGED <<list, event, mgr, unload, orphans>>

(* The end of pvt_reload.                                                  *)
ReloadDone ==
  /\ reload.pc = "remove" /\ reload.todo = {}
  /\ event < MaxSignals
  /\ event' = IF reload.now THEN event + 1 ELSE event
  /\ reload' = Idle(reload.left)
  /\ UNCHANGED <<list, pvt, mgr, unload, orphans>>

-----------------------------------------------------------------------------
(* Unloading, public_state_fini.  The commands are unregistered first;     *)
(* calls and messages go on.                                               *)

(* The first half of dev_manager_stop.                                     *)
UnloadStart ==
  /\ Unloads
  /\ unload = "no" /\ reload.pc = "idle"
  /\ event' = event + 2
  /\ unload' = "manager"
  /\ UNCHANGED <<list, pvt, mgr, reload, orphans>>

(* The manager is joined, devices_destroy begins.                          *)
UnloadManager ==
  /\ unload = "manager" /\ mgr.pc = "gone"
  /\ unload' = "devices"
  /\ UNCHANGED <<list, pvt, event, mgr, reload, orphans>>

(* pvt_destroy of the first device, with the join that pvt_monitor_stop    *)
(* may need in between.                                                    *)
UnloadDevice ==
  /\ unload = "devices"
  /\ IF list = <<>>
       THEN unload' = "done" /\ UNCHANGED <<list, pvt>>
       ELSE LET d == Head(list)
            IN  IF pvt[d].monitor = "running"
                  THEN /\ ~pvt[d].terminate
                       /\ pvt' = [pvt EXCEPT ![d].terminate = TRUE]
                       /\ UNCHANGED <<list, unload>>
                  ELSE /\ list' = Tail(list)
                       /\ pvt' = [pvt EXCEPT ![d] = Joined(@)]
                       /\ UNCHANGED unload
  /\ UNCHANGED <<event, mgr, reload, orphans>>

-----------------------------------------------------------------------------
FirstDevices == {d \in Devices : FirstConfig[d] # Missing /\ FirstConfig[d].init_state # REMOVED}

NoSettings == [init_state |-> STOPPED, rest |-> 0]

(* After public_state_init: the devices of the configuration are listed    *)
(* and the manager thread runs.                                            *)
Init ==
  /\ list \in Listings(FirstDevices)
  /\ pvt = [d \in Devices |->
              pvt_create(IF d \in FirstDevices THEN FirstConfig[d] ELSE NoSettings)]
  /\ event = 0
  /\ mgr = [pc |-> "wait", todo |-> <<>>, why |-> ""]
  /\ reload = Idle(MaxReloads)
  /\ unload = "no"
  /\ orphans = {}

Manager ==
  \/ ManagerTimeout \/ ManagerCommand \/ ManagerVisit \/ ManagerJoined
  \/ (\E locked \in SUBSET Listed : ManagerSweep(locked))
  \/ ManagerListBusy

Reloading ==
  \/ ReloadStart \/ ReloadPhase \/ ReloadDone
  \/ \E d \in Devices : ReloadMark(d) \/ ReloadKnown(d) \/ ReloadNew(d) \/ ReloadRemove(d)

Unloading == UnloadStart \/ UnloadManager \/ UnloadDevice

Next ==
  \/ Manager \/ Reloading \/ Unloading
  \/ \E d \in Devices :
       \/ Request(d) \/ Begins(d) \/ Ends(d) \/ Retrieved(d)
       \/ JobTerminates(d) \/ MonitorTold(d) \/ MonitorLost(d)

Spec == Init /\ [][Next]_vars

(* The manager goes on, sleeps end, and told to, a monitor thread ends.    *)
(* The second loop only tries its locks; they are held briefly, so that it *)
(* finds them free infinitely often.                                       *)
Fairness ==
  /\ WF_vars(ManagerTimeout) /\ WF_vars(ManagerCommand)
  /\ WF_vars(ManagerVisit) /\ WF_vars(ManagerJoined)
  /\ SF_vars(ManagerSweep({})) /\ WF_vars(ManagerListBusy)
  /\ \A d \in Devices :
       /\ WF_vars(MonitorTold(d))
       /\ WF_vars(ReloadMark(d)) /\ WF_vars(ReloadKnown(d))
       /\ SF_vars(ReloadNew(d)) /\ WF_vars(ReloadRemove(d))
  /\ WF_vars(ReloadPhase) /\ SF_vars(ReloadDone)
  /\ WF_vars(UnloadManager) /\ WF_vars(UnloadDevice)

FairSpec == Spec /\ Fairness

-----------------------------------------------------------------------------
(* Properties.                                                             *)

ManagerType ==
  [pc : {"wait", "visit", "join", "gone"}, todo : Seq(Devices),
   why : {"", "start", "restart", "remove", "stop"}]

ReloadType ==
  [pc : {"idle", "mark", "configure", "remove"}, conf : [Devices -> Section],
   when : Times, todo : SUBSET Devices, now : BOOLEAN, left : 0 .. MaxReloads]

TypeOK ==
  /\ list \in Seq(Devices)
  /\ pvt \in [Devices -> Pvt]
  /\ event \in 0 .. MaxSignals + 2
  /\ mgr \in ManagerType
  /\ reload \in ReloadType
  /\ unload \in {"no", "manager", "devices", "done"}
  /\ orphans \subseteq Devices

(* A device counts as started exactly while a monitor thread looks after   *)
(* it, whatever requests, losses, failed openings and reloads come in      *)
(* between (current_state, connected and monitor_thread are set in         *)
(* different places: pvt_start, pvt_disconnect, pvt_monitor_stop).         *)
StartedIsWatched ==
  \A d \in Listed : pvt[d].current = STARTED <=> pvt[d].monitor = "running"

(* terminate_monitor ends the session it is meant for and no other.  It is *)
(* set by the manager, the unloading and the jobs of a session, and cleared *)
(* by a thread that ends by itself and by whoever joins it: it outlives the *)
(* thread only when a job sets it after the join, and it never gets lost   *)
(* while the manager waits for the thread, which would then not end.       *)
TerminateIsTransient ==
  \A d \in Listed :
    /\ pvt[d].terminate => pvt[d].monitor # "none" \/ pvt[d].late
    /\ mgr.pc = "join" /\ Head(mgr.todo) = d /\ pvt[d].monitor = "running" => pvt[d].terminate

(* No device is freed while its monitor thread runs: "terminate monitor    *)
(* thread i.e. restart, stop, remove" (chan_quectel.h:172).                *)
RemovedOnlyWhenStopped == orphans = {}

(* Where a device is in its life, as the list and its monitor thread show. *)
LifeOf(d) ==
  CASE d \notin Listed -> "absent"
    [] d \in Listed /\ pvt[d].monitor = "running" -> "running"
    [] OTHER -> "stopped"

Life == INSTANCE DeviceLife WITH life <- [d \in Devices |-> LifeOf(d)]

(* Without reloads the manager keeps the promise of DeviceLife: a device   *)
(* is freed only after its monitor thread has been joined, and started     *)
(* only when none is left.                                                 *)
ImplementsLife == Life!Spec

(* The manager thread ends only when the module is unloaded: "Got exit     *)
(* event" (chan_quectel.c:326).                                            *)
ManagerStopsWhenTold == mgr.pc = "gone" => unload # "no"

(* A request stays until it is served or replaced by another: the manager  *)
(* itself only turns RESTARTED into STARTED.                               *)
ManagerKeepsRequests ==
  [][\A d \in Devices :
       mgr' # mgr /\ pvt'[d].desired # pvt[d].desired => pvt[d].desired = RESTARTED]_vars

(* What is asked for at once happens in the end, unless something else is  *)
(* asked for, although reloads change the request meanwhile, sessions are  *)
(* lost and the devices are visited one after the other.  Checked while no *)
(* two commands meet on the eventfd, where they would add up.              *)
RequestsServed ==
  \A d \in Devices, s \in DevStates :
    LET Pending == d \in Listed /\ pvt[d].desired = s /\ pvt[d].when = NOW
    IN  Pending ~> (~Pending \/ pvt[d].current = s \/ unload # "no")

(* A device that is to stop when it is no longer busy does so.             *)
GracefulHappens ==
  \A d \in Devices :
    LET Pending == d \in Listed /\ pvt[d].desired = STOPPED /\ unload = "no"
    IN  (Pending /\ pvt[d].busy = {}) ~> (~Pending \/ pvt[d].current = STOPPED \/ pvt[d].busy # {})

(* Unloading comes to an end.                                              *)
UnloadEnds == (unload = "manager") ~> (unload = "done")
=============================================================================
