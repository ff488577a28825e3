-------------------------- MODULE DevManagerProofs --------------------------
(***************************************************************************)
(* The device manager, for any finite set of devices, any configurations   *)
(* and any number of reloads: a device counts as started exactly while a   *)
(* monitor thread looks after it, terminate_monitor ends its own session,  *)
(* and without reloads the manager implements DeviceLife.                  *)
(***************************************************************************)
EXTENDS DevManager, FiniteSetTheorems, SequenceTheorems, TLAPS

-----------------------------------------------------------------------------
(* The inductive invariant.                                                *)

(* What the phases of the manager, the unloading and a reload exclude.     *)
JoinPhase   == mgr.pc = "join" => mgr.todo # <<>> /\ mgr.why # ""
UnloadPhase ==
  /\ unload # "no" => reload.pc = "idle"
  /\ unload \in {"devices", "done"} => mgr.pc = "gone"
SignalBound == unload = "no" => event <= MaxSignals
ConfigPhase == reload.pc = "configure" => \A d \in reload.todo : reload.conf[d] # Missing

Phases == JoinPhase /\ UnloadPhase /\ SignalBound /\ ConfigPhase

(* StartedIsWatched of one device, and that its flag has a thread to end or *)
(* was set late.                                                           *)
IsFit(p) ==
  /\ p.current = STARTED <=> p.monitor = "running"
  /\ p.terminate => p.monitor # "none" \/ p.late

(* A device keeps its state when it leaves the list.                       *)
AllFit == \A d \in Devices : IsFit(pvt[d])

(* The thread and the mark for removal are the same,                       *)
SameThread(p, q) == p.monitor = q.monitor /\ p.must_remove = q.must_remove

(* and so is the flag.                                                     *)
SameFlag(p, q) == SameThread(p, q) /\ p.terminate = q.terminate

(* The thread the manager waits for has been told to end.                  *)
IsTold(p) == p.monitor = "running" => p.terminate
JoinTold  == mgr.pc = "join" => IsTold(pvt[Head(mgr.todo)])

IInv == TypeOK /\ Phases /\ AllFit /\ JoinTold


-----------------------------------------------------------------------------
(* The operators on a device.                                              *)

(* A section of the configuration that is not missing has settings.        *)
LEMMA SectionSettings ==
  ASSUME NEW s \in Section, s # Missing
  PROVE  s \in Settings
BY DEF Section

(* A new device is a device, without a thread.                             *)
LEMMA CreateTyped ==
  ASSUME NEW s \in Settings
  PROVE  /\ pvt_create(s) \in Pvt
         /\ IsFit(pvt_create(s)) /\ pvt_create(s).terminate = FALSE
         /\ pvt_create(s).monitor = "none" /\ pvt_create(s).must_remove = FALSE
BY DEF pvt_create, Pvt, Settings, DevStates, InitStates, Times, NOW, STOPPED, STARTED, IsFit

(* What pvt_monitor_stop leaves is a device without a thread.              *)
LEMMA JoinedTyped ==
  ASSUME NEW p \in Pvt, IsFit(p), p.monitor # "running"
  PROVE  /\ Joined(p) \in Pvt
         /\ IsFit(Joined(p)) /\ Joined(p).terminate = FALSE
         /\ Joined(p).monitor = "none" /\ Joined(p).must_remove = p.must_remove
BY DEF Joined, Pvt, IsFit, STOPPED, STARTED

(* What a visit makes of a device without a thread.                        *)
LEMMA AfterStopTyped ==
  ASSUME NEW p \in Pvt, IsFit(p), p.monitor = "none",
         NEW why \in {"start", "restart", "remove", "stop"}, NEW q \in AfterStop(why, p)
  PROVE  /\ q \in Pvt /\ IsFit(q)
         /\ q.monitor \in {"none", "running"}
         /\ q.must_remove /\ ~p.must_remove => q.monitor = "none"
<1>1. ASSUME NEW r \in Pvt, r.monitor = "none", IsFit(r), NEW o \in Opened(r)
      PROVE  /\ o \in Pvt /\ IsFit(o) /\ o.monitor \in {"none", "running"}
             /\ o.must_remove = r.must_remove
  <2> DEFINE u == [r EXCEPT !.monitor = "running", !.current = STARTED, !.jobs = TRUE]
  <2>1. u \in Pvt /\ IsFit(u) /\ u.monitor = "running" /\ u.must_remove = r.must_remove
    BY DEF Pvt, IsFit, STARTED
  <2>2. o = u \/ o = r
    BY DEF Opened
  <2> HIDE DEF u
  <2> QED BY <1>1, <2>1, <2>2
<1>2. LET r == [p EXCEPT !.desired = STARTED]
      IN  r \in Pvt /\ r.monitor = "none" /\ IsFit(r) /\ r.terminate = p.terminate
          /\ r.must_remove = p.must_remove
  BY DEF Pvt, IsFit, DevStates, InitStates, STARTED
<1>3. LET r == [p EXCEPT !.must_remove = TRUE]
      IN  r \in Pvt /\ r.monitor = "none" /\ IsFit(r) /\ r.terminate = p.terminate
  BY DEF Pvt, IsFit
<1>4. CASE why = "start"
  BY <1>1, <1>4 DEF AfterStop
<1>5. CASE why = "restart"
  BY <1>1, <1>2, <1>5 DEF AfterStop
<1>6. CASE why = "remove"
  BY <1>3, <1>6 DEF AfterStop
<1>7. CASE why = "stop"
  BY <1>7 DEF AfterStop
<1> QED BY <1>4, <1>5, <1>6, <1>7

(* A state to reach is a purpose to stop for.                              *)
LEMMA PurposeTyped ==
  ASSUME NEW s \in DevStates
  PROVE  Purpose(s) \in {"start", "restart", "remove", "stop"}
BY DEF Purpose, DevStates, InitStates, STOPPED, STARTED, RESTARTED, REMOVED

(* What a reload makes of a device.                                        *)
LEMMA ReconfiguredTyped ==
  ASSUME NEW p \in Pvt, IsFit(p), NEW s \in Settings, NEW when \in Times
  PROVE  /\ Reconfigured(p, s, when) \in Pvt
         /\ IsFit(Reconfigured(p, s, when))
         /\ IsTold(p) => IsTold(Reconfigured(p, s, when))
<1> DEFINE desired == IF p.desired # s.init_state THEN s.init_state ELSE RESTARTED
           q == [p EXCEPT !.desired = desired]
           w == IF pvt_time4restate(q) THEN NOW ELSE when
           r == [q EXCEPT !.must_remove = FALSE, !.settings = s, !.when = w]
<1>1. desired \in DevStates /\ w \in Times
  BY DEF Settings, DevStates, Times
<1>2. Reconfigured(p, s, when) \in
        {[p EXCEPT !.must_remove = TRUE], [p EXCEPT !.must_remove = FALSE], r}
  BY DEF Reconfigured
<1> HIDE DEF desired, w
<1>3. r \in Pvt /\ IsFit(r) /\ (IsTold(p) => IsTold(r))
  BY <1>1 DEF Pvt, IsFit, IsTold
<1>4. \A b \in BOOLEAN : LET o == [p EXCEPT !.must_remove = b]
                         IN  o \in Pvt /\ IsFit(o) /\ (IsTold(p) => IsTold(o))
  BY DEF Pvt, IsFit, IsTold
<1> HIDE DEF r
<1> QED BY <1>2, <1>3, <1>4

(* A listing of some devices is a list of them.                            *)
LEMMA ListingsTyped ==
  ASSUME NEW S \in SUBSET Devices, NEW s \in Listings(S)
  PROVE  s \in Seq(Devices) /\ {s[i] : i \in DOMAIN s} = S
<1> DEFINE n == Cardinality(S)
           Covers(t) == {t[i] : i \in DOMAIN t} = S
<1>1. s \in {t \in [1 .. n -> S] : Covers(t)}
  BY DEF Listings
<1>2. n \in Nat
  BY FS_Subset, FS_CardinalityType, ConfigAssumption
<1> HIDE DEF n, Covers
<1>3. s \in [1 .. n -> S] /\ Covers(s)
  BY <1>1
<1>4. s \in Seq(Devices)
  BY <1>2, <1>3
<1> QED BY <1>3, <1>4 DEF Covers

(* The device at the head of the round.                                    *)
LEMMA HeadOfRound ==
  ASSUME IInv, mgr.todo # <<>>
  PROVE  /\ Head(mgr.todo) \in Devices /\ Tail(mgr.todo) \in Seq(Devices)
         /\ pvt[Head(mgr.todo)] \in Pvt /\ IsFit(pvt[Head(mgr.todo)])
<1>1. mgr.todo \in Seq(Devices)
  BY DEF IInv, TypeOK, ManagerType
<1>2. Head(mgr.todo) \in Devices /\ Tail(mgr.todo) \in Seq(Devices)
  BY <1>1, HeadTailProperties
<1> QED BY <1>2 DEF IInv, TypeOK, AllFit

(* The thread waited for stays told when the manager stays where it is and *)
(* no step takes a flag from a thread that runs.                           *)
LEMMA ToldKept ==
  ASSUME IInv, mgr' = mgr, \A e \in Devices : IsTold(pvt[e]) => IsTold(pvt'[e])
  PROVE  JoinTold'
<1>1. mgr.pc = "join" => Head(mgr.todo) \in Devices
  BY HeadOfRound DEF IInv, Phases, JoinPhase
<1> QED BY <1>1 DEF IInv, JoinTold

(* A change to one device leaves the others as they were.                  *)
LEMMA OneDevice ==
  ASSUME pvt \in [Devices -> Pvt], AllFit,
         NEW d \in Devices, NEW q \in Pvt, IsFit(q), pvt' = [pvt EXCEPT ![d] = q]
  PROVE  /\ pvt' \in [Devices -> Pvt] /\ AllFit'
         /\ pvt'[d] = q /\ \A e \in Devices \ {d} : pvt'[e] = pvt[e]
BY DEF AllFit

(* pvt_try_restate only chooses a time, and signals at most once.          *)
LEMMA RestateTyped ==
  ASSUME TypeOK, AllFit, NEW d \in Devices, NEW p \in Pvt, IsFit(p), TryRestate(d, p)
  PROVE  /\ pvt' \in [Devices -> Pvt] /\ AllFit'
         /\ pvt'[d].terminate = p.terminate /\ pvt'[d].monitor = p.monitor
         /\ pvt'[d].must_remove = p.must_remove
         /\ \A e \in Devices \ {d} : pvt'[e] = pvt[e]
         /\ event' \in {event, event + 1}
<1>1. PICK w \in Times \union {p.when} : pvt' = [pvt EXCEPT ![d] = [p EXCEPT !.when = w]]
  <2>1. [p EXCEPT !.when = p.when] = p
    BY DEF Pvt
  <2> QED BY <2>1 DEF TryRestate, Times
<1> DEFINE q == [p EXCEPT !.when = w]
<1>2. /\ q \in Pvt /\ IsFit(q) /\ q.terminate = p.terminate /\ q.monitor = p.monitor
      /\ q.must_remove = p.must_remove
  BY DEF Pvt, IsFit
<1>3. pvt' = [pvt EXCEPT ![d] = q]
  BY <1>1
<1> HIDE DEF q
<1>4. event' \in {event, event + 1}
  BY DEF TryRestate
<1> QED BY <1>2, <1>3, <1>4, OneDevice DEF TypeOK

-----------------------------------------------------------------------------
(* The invariant holds at first and is kept by every step.                 *)

(* At first no device is started.                                          *)
LEMMA InitInv == Init => IInv
<1> SUFFICES ASSUME Init PROVE IInv
  OBVIOUS
<1>1. FirstDevices \subseteq Devices /\ list \in Listings(FirstDevices)
  BY DEF Init, FirstDevices
<1>3. list \in Seq(Devices)
  BY <1>1, ListingsTyped
<1>4. \A d \in Devices : (IF d \in FirstDevices THEN FirstConfig[d] ELSE NoSettings) \in Settings
  BY ConfigAssumption, SectionSettings DEF FirstDevices, NoSettings, Settings, InitStates, STOPPED
<1>5. pvt \in [Devices -> Pvt] /\ AllFit
  BY <1>4, CreateTyped DEF Init, AllFit
<1>6. reload \in ReloadType /\ reload.pc = "idle"
  <2>1. reload = [pc |-> "idle", conf |-> FirstConfig, when |-> NOW, todo |-> {},
                  now |-> FALSE, left |-> MaxReloads]
    BY DEF Init, Idle
  <2>2. /\ FirstConfig \in [Devices -> Section] /\ NOW \in Times
        /\ MaxReloads \in 0 .. MaxReloads /\ {} \in SUBSET Devices
    BY ConfigAssumption DEF Times
  <2> HIDE DEF Section, Times
  <2> QED BY <2>1, <2>2 DEF ReloadType
<1>7. mgr \in ManagerType /\ mgr.pc = "wait"
  <2>1. mgr = [pc |-> "wait", todo |-> <<>>, why |-> ""]
    BY DEF Init
  <2>2. <<>> \in Seq(Devices)
    OBVIOUS
  <2> QED BY <2>1, <2>2 DEF ManagerType
<1>8. event = 0 /\ unload = "no" /\ orphans = {}
  BY DEF Init
<1>9. TypeOK
  BY <1>3, <1>5, <1>6, <1>7, <1>8, ConfigAssumption DEF TypeOK
<1>10. Phases
  BY <1>6, <1>7, <1>8, ConfigAssumption
    DEF Phases, JoinPhase, UnloadPhase, SignalBound, ConfigPhase
<1> QED BY <1>5, <1>7, <1>9, <1>10 DEF IInv, JoinTold

(* Requests, calls and messages leave the threads alone.                   *)
LEMMA ActivityEffect ==
  ASSUME IInv, NEW d \in Devices, Request(d) \/ Begins(d) \/ Ends(d) \/ Retrieved(d)
  PROVE  /\ UNCHANGED <<list, mgr, reload, unload, orphans>>
         /\ pvt' \in [Devices -> Pvt] /\ AllFit'
         /\ \A e \in Devices : SameFlag(pvt'[e], pvt[e])
         /\ event' = event \/ (event < MaxSignals /\ event' = event + 1)
<1>1. /\ pvt[d] \in Pvt /\ IsFit(pvt[d]) /\ pvt \in [Devices -> Pvt]
      /\ event \in Nat /\ event \in 0 .. MaxSignals + 2
  BY DEF IInv, TypeOK, AllFit
<1>2. UNCHANGED <<list, mgr, reload, unload, orphans>>
  BY DEF Request, Begins, Ends, Retrieved
<1>3. /\ pvt' \in [Devices -> Pvt] /\ AllFit'
      /\ \A e \in Devices : SameFlag(pvt'[e], pvt[e])
      /\ event' = event \/ (event < MaxSignals /\ event' = event + 1)
  <2>1. CASE Request(d)
    <3>1. PICK r \in Requests : TryRestate(d, [pvt[d] EXCEPT !.desired = r[1], !.when = r[2]])
      BY <2>1 DEF Request
    <3> DEFINE p == [pvt[d] EXCEPT !.desired = r[1], !.when = r[2]]
    <3>2. r[1] \in DevStates /\ r[2] \in Times
      BY ConfigAssumption
    <3>3. p \in Pvt /\ IsFit(p) /\ SameFlag(p, pvt[d])
      BY <1>1, <3>2 DEF Pvt, IsFit, SameFlag, SameThread
    <3> HIDE DEF p
    <3>4. TryRestate(d, p)
      BY <3>1 DEF p
    <3> QED BY <2>1, <3>3, <3>4, RestateTyped DEF Request, IInv, SameFlag, SameThread
  <2>2. CASE Begins(d)
    <3>1. PICK a \in Activities : pvt' = [pvt EXCEPT ![d].busy = @ \union {a}]
      BY <2>2 DEF Begins
    <3> DEFINE q == [pvt[d] EXCEPT !.busy = @ \union {a}]
    <3>2. q \in Pvt /\ IsFit(q) /\ SameFlag(q, pvt[d])
      BY <1>1 DEF Pvt, IsFit, SameFlag, SameThread
    <3>3. pvt' = [pvt EXCEPT ![d] = q]
      BY <3>1
    <3> HIDE DEF q
    <3> QED BY <2>2, <3>2, <3>3, OneDevice DEF Begins, IInv, TypeOK, SameFlag, SameThread
  <2>3. CASE Ends(d)
    <3>1. PICK b \in {pvt[d].busy, pvt[d].busy \ {"chans"}} :
            TryRestate(d, [pvt[d] EXCEPT !.busy = b])
      BY <2>3 DEF Ends
    <3> DEFINE p == [pvt[d] EXCEPT !.busy = b]
    <3>2. p \in Pvt /\ IsFit(p) /\ SameFlag(p, pvt[d])
      BY <1>1 DEF Pvt, IsFit, SameFlag, SameThread
    <3> HIDE DEF p
    <3>3. TryRestate(d, p)
      BY <3>1 DEF p
    <3> QED BY <2>3, <3>2, <3>3, RestateTyped DEF Ends, IInv, SameFlag, SameThread
  <2>4. CASE Retrieved(d)
    <3> DEFINE q == [pvt[d] EXCEPT !.busy = @ \ {"incoming"}]
    <3>1. q \in Pvt /\ IsFit(q) /\ SameFlag(q, pvt[d])
      BY <1>1 DEF Pvt, IsFit, SameFlag, SameThread
    <3>2. pvt' = [pvt EXCEPT ![d] = q]
      BY <2>4 DEF Retrieved
    <3> HIDE DEF q
    <3> QED BY <2>4, <3>1, <3>2, OneDevice DEF Retrieved, IInv, TypeOK, SameFlag, SameThread
  <2> QED BY <2>1, <2>2, <2>3, <2>4
<1> QED BY <1>2, <1>3

(* and so keep the invariant.                                              *)
LEMMA ActivityInv ==
  ASSUME IInv, NEW d \in Devices, Request(d) \/ Begins(d) \/ Ends(d) \/ Retrieved(d)
  PROVE  IInv'
<1>1. event \in Nat /\ event \in 0 .. MaxSignals + 2
  BY DEF IInv, TypeOK
<1>2. /\ UNCHANGED <<list, mgr, reload, unload, orphans>>
      /\ event' = event \/ (event < MaxSignals /\ event' = event + 1)
  BY ActivityEffect
<1>3. /\ pvt' \in [Devices -> Pvt] /\ AllFit'
      /\ \A e \in Devices : IsTold(pvt[e]) => IsTold(pvt'[e])
  BY ActivityEffect DEF SameFlag, SameThread, IsTold
<1>4. TypeOK'
  BY <1>1, <1>2, <1>3, ConfigAssumption DEF IInv, TypeOK
<1>5. Phases'
  <2>1. SignalBound'
    BY <1>1, <1>2, <1>3, ConfigAssumption DEF IInv, Phases, SignalBound
  <2> QED BY <1>2, <2>1 DEF IInv, Phases, JoinPhase, UnloadPhase, ConfigPhase
<1>6. JoinTold'
  BY <1>2, <1>3, ToldKept
<1> QED BY <1>3, <1>4, <1>5, <1>6 DEF IInv

(* A monitor thread ends, or a job asks it to.                             *)
LEMMA MonitorEffect ==
  ASSUME IInv, NEW d \in Devices, JobTerminates(d) \/ MonitorTold(d) \/ MonitorLost(d)
  PROVE  \E q \in Pvt :
           /\ pvt' = [pvt EXCEPT ![d] = q] /\ IsFit(q) /\ IsTold(q)
           /\ q.must_remove = pvt[d].must_remove
           /\ \/ q.monitor = pvt[d].monitor
              \/ q.monitor = "ended" /\ pvt[d].monitor = "running"
<1>1. pvt[d] \in Pvt /\ IsFit(pvt[d]) /\ pvt \in [Devices -> Pvt]
  BY DEF IInv, TypeOK, AllFit
<1>2. CASE JobTerminates(d)
  <2> DEFINE late == pvt[d].monitor = "none"
             q == [pvt[d] EXCEPT !.terminate = TRUE, !.late = late]
  <2>1. late \in BOOLEAN /\ (late \/ pvt[d].monitor # "none")
    OBVIOUS
  <2>2. pvt' = [pvt EXCEPT ![d] = q]
    BY <1>1, <1>2 DEF JobTerminates
  <2> HIDE DEF late
  <2>3. /\ q \in Pvt /\ IsFit(q) /\ IsTold(q)
        /\ q.must_remove = pvt[d].must_remove /\ q.monitor = pvt[d].monitor
    BY <1>1, <2>1 DEF Pvt, IsFit, IsTold
  <2> QED BY <2>2, <2>3
<1>3. /\ Disconnected(pvt[d]) \in Pvt /\ IsFit(Disconnected(pvt[d])) /\ IsTold(Disconnected(pvt[d]))
      /\ Disconnected(pvt[d]).monitor = "ended"
      /\ Disconnected(pvt[d]).must_remove = pvt[d].must_remove
  BY <1>1 DEF Pvt, Disconnected, IsFit, IsTold, STARTED, STOPPED
<1>4. CASE MonitorTold(d)
  BY <1>3, <1>4 DEF MonitorTold
<1>5. CASE MonitorLost(d)
  <2>1. PICK p \in Pvt : p = Disconnected(pvt[d])
    BY <1>3
  <2> DEFINE q == [p EXCEPT !.terminate = FALSE, !.late = FALSE]
  <2>2. /\ q \in Pvt /\ IsFit(q) /\ IsTold(q)
        /\ q.must_remove = pvt[d].must_remove /\ q.monitor = "ended"
    BY <1>3, <2>1 DEF Pvt, IsFit, IsTold
  <2>3. pvt' = [pvt EXCEPT ![d] = q] /\ pvt[d].monitor = "running"
    BY <1>5, <2>1 DEF MonitorLost
  <2> QED BY <2>2, <2>3
<1> QED BY <1>2, <1>4, <1>5

(* Neither breaks the invariant.                                           *)
LEMMA MonitorInv ==
  ASSUME IInv, NEW d \in Devices, JobTerminates(d) \/ MonitorTold(d) \/ MonitorLost(d)
  PROVE  IInv'
<1>2. UNCHANGED <<list, event, mgr, reload, unload, orphans>>
  BY DEF JobTerminates, MonitorTold, MonitorLost
<1>3. PICK q \in Pvt : IsFit(q) /\ IsTold(q) /\ pvt' = [pvt EXCEPT ![d] = q]
  BY MonitorEffect
<1>4. /\ pvt' \in [Devices -> Pvt] /\ AllFit'
      /\ pvt'[d] = q /\ \A e \in Devices \ {d} : pvt'[e] = pvt[e]
  BY <1>3, OneDevice DEF IInv, TypeOK
<1>5. JoinTold'
  BY <1>2, <1>3, <1>4, ToldKept
<1>6. TypeOK' /\ Phases'
  BY <1>2, <1>4 DEF IInv, TypeOK, Phases, JoinPhase, UnloadPhase, SignalBound, ConfigPhase
<1> QED BY <1>4, <1>5, <1>6 DEF IInv

-----------------------------------------------------------------------------
(* The manager.                                                            *)

(* Where the manager goes.                                                 *)
LEMMA GoToTyped ==
  ASSUME NEW pc \in {"wait", "visit", "join", "gone"}, NEW todo \in Seq(Devices),
         NEW why \in {"", "start", "restart", "remove", "stop"}, GoTo(pc, todo, why)
  PROVE  mgr' \in ManagerType /\ mgr'.pc = pc /\ mgr'.todo = todo /\ mgr'.why = why
<1>1. mgr' = [pc |-> pc, todo |-> todo, why |-> why]
  BY DEF GoTo
<1> QED BY <1>1 DEF ManagerType

(* Steps between two rounds: no device changes.                            *)
LEMMA RoundInv ==
  ASSUME IInv, ManagerTimeout \/ ManagerCommand \/ ManagerListBusy
  PROVE  IInv'
<1>1. /\ mgr.pc \in {"wait", "visit"}
      /\ UNCHANGED <<list, pvt, reload, unload, orphans>> /\ event' \in {event, 0}
  BY DEF ManagerTimeout, ManagerCommand, ManagerListBusy
<1>2. list \in Seq(Devices) /\ <<>> \in Seq(Devices) /\ mgr \in ManagerType
  BY DEF IInv, TypeOK
<1>3. mgr' \in ManagerType /\ mgr'.pc # "join"
  <2>1. CASE ManagerTimeout
    <3>1. GoTo("visit", list, "")
      BY <2>1 DEF ManagerTimeout
    <3> QED BY <1>2, <3>1, GoToTyped
  <2>2. CASE ManagerCommand
    <3>1. GoTo("visit", list, "") \/ GoTo("gone", <<>>, "") \/ mgr' = mgr
      BY <2>2 DEF ManagerCommand
    <3>2. mgr.pc = "wait"
      BY <2>2 DEF ManagerCommand
    <3>3. CASE GoTo("visit", list, "")
      BY <1>2, <3>3, GoToTyped
    <3>4. CASE GoTo("gone", <<>>, "")
      BY <1>2, <3>4, GoToTyped
    <3> QED BY <1>2, <3>1, <3>2, <3>3, <3>4
  <2>3. CASE ManagerListBusy
    <3>1. GoTo("wait", <<>>, "")
      BY <2>3 DEF ManagerListBusy
    <3> QED BY <1>2, <3>1, GoToTyped
  <2> QED BY <2>1, <2>2, <2>3
<1>4. event' \in 0 .. MaxSignals + 2 /\ SignalBound'
  BY <1>1, ConfigAssumption DEF IInv, TypeOK, Phases, SignalBound
<1>5. TypeOK'
  BY <1>1, <1>3, <1>4 DEF IInv, TypeOK
<1>6. Phases'
  BY <1>1, <1>3, <1>4
    DEF IInv, Phases, JoinPhase, UnloadPhase, ConfigPhase
<1>7. AllFit' /\ JoinTold'
  BY <1>1, <1>3 DEF IInv, AllFit, JoinTold
<1> QED BY <1>5, <1>6, <1>7 DEF IInv

(* A device is passed by, is changed at once, or is told to stop.          *)
LEMMA VisitInv ==
  ASSUME IInv, ManagerVisit
  PROVE  IInv'
<1> DEFINE d == Head(mgr.todo)
           p == pvt[d]
<1>1. /\ mgr.pc = "visit" /\ mgr.todo # <<>>
      /\ UNCHANGED <<list, event, reload, unload, orphans>>
  BY DEF ManagerVisit
<1>2. /\ d \in Devices /\ Tail(mgr.todo) \in Seq(Devices) /\ p \in Pvt /\ IsFit(p)
      /\ mgr.todo \in Seq(Devices)
  BY <1>1, HeadOfRound DEF IInv, TypeOK, ManagerType
<1>3. unload \notin {"devices", "done"}
  BY <1>1 DEF IInv, Phases, UnloadPhase
<1>5. \/ Advance /\ UNCHANGED pvt
      \/ /\ p.monitor = "none" /\ Advance
         /\ \E q \in AfterStop(Purpose(p.desired), p) : pvt' = [pvt EXCEPT ![d] = q]
      \/ /\ pvt' = [pvt EXCEPT ![d].terminate = TRUE] /\ p.monitor # "none"
         /\ GoTo("join", mgr.todo, Purpose(p.desired))
  BY DEF ManagerVisit
<1>6. Purpose(p.desired) \in {"start", "restart", "remove", "stop"}
  <2>1. p.desired \in DevStates
    BY <1>2 DEF Pvt
  <2> QED BY <2>1, PurposeTyped
<1> HIDE DEF p
<1>7. /\ pvt' \in [Devices -> Pvt] /\ AllFit'
      /\ mgr' \in ManagerType /\ JoinPhase' /\ JoinTold' /\ mgr'.pc # "gone"
  <2>1. CASE Advance /\ UNCHANGED pvt
    <3>1. mgr' \in ManagerType /\ mgr'.pc = "visit"
      BY <1>2, <2>1, GoToTyped DEF Advance
    <3> QED BY <2>1, <3>1 DEF IInv, TypeOK, AllFit, JoinPhase, JoinTold
  <2>2. CASE /\ p.monitor = "none" /\ Advance
             /\ \E q \in AfterStop(Purpose(p.desired), p) : pvt' = [pvt EXCEPT ![d] = q]
    <3>1. mgr' \in ManagerType /\ mgr'.pc = "visit"
      BY <1>2, <2>2, GoToTyped DEF Advance
    <3>2. PICK q \in AfterStop(Purpose(p.desired), p) : pvt' = [pvt EXCEPT ![d] = q]
      BY <2>2
    <3>3. q \in Pvt /\ IsFit(q)
      BY <1>2, <1>6, <2>2, AfterStopTyped
    <3> HIDE DEF d
    <3>5. /\ pvt' \in [Devices -> Pvt] /\ AllFit'
          /\ pvt'[d] = q /\ \A e \in Devices \ {d} : pvt'[e] = pvt[e]
      BY <1>2, <3>2, <3>3, OneDevice DEF IInv, TypeOK
    <3> QED BY <3>1, <3>5 DEF JoinPhase, JoinTold
  <2>3. CASE /\ pvt' = [pvt EXCEPT ![d].terminate = TRUE] /\ p.monitor # "none"
             /\ GoTo("join", mgr.todo, Purpose(p.desired))
    <3>1. /\ mgr' \in ManagerType /\ mgr'.pc = "join" /\ mgr'.todo = mgr.todo
          /\ mgr'.why \in {"start", "restart", "remove", "stop"}
      BY <1>2, <1>6, <2>3, GoToTyped
    <3> DEFINE q == [p EXCEPT !.terminate = TRUE]
    <3>2. q \in Pvt /\ IsFit(q) /\ IsTold(q)
      BY <1>2, <2>3 DEF Pvt, IsFit, IsTold
    <3>3. pvt' = [pvt EXCEPT ![d] = q]
      BY <2>3 DEF p
    <3> HIDE DEF q, d
    <3>4. /\ pvt' \in [Devices -> Pvt] /\ AllFit'
          /\ pvt'[d] = q /\ \A e \in Devices \ {d} : pvt'[e] = pvt[e]
      BY <1>2, <3>2, <3>3, OneDevice DEF IInv, TypeOK
    <3>5. JoinPhase'
      BY <1>1, <3>1 DEF JoinPhase
    <3>6. JoinTold'
      BY <3>1, <3>2, <3>4 DEF d, JoinTold
    <3> QED BY <3>1, <3>4, <3>5, <3>6
  <2> QED BY <1>5, <2>1, <2>2, <2>3
<1>8. TypeOK'
  BY <1>1, <1>7 DEF IInv, TypeOK
<1>9. Phases'
  BY <1>1, <1>3, <1>7 DEF IInv, Phases, UnloadPhase, SignalBound, ConfigPhase
<1> QED BY <1>7, <1>8, <1>9 DEF IInv

(* The thread waited for has ended.                                        *)
LEMMA JoinedInv ==
  ASSUME IInv, ManagerJoined
  PROVE  IInv'
<1> DEFINE d == Head(mgr.todo)
           p == Joined(pvt[d])
<1>1. /\ mgr.pc = "join" /\ mgr.todo # <<>> /\ mgr.why # "" /\ pvt[d].monitor = "ended"
      /\ UNCHANGED <<list, event, reload, unload, orphans>>
      /\ Advance /\ \E q \in AfterStop(mgr.why, p) : pvt' = [pvt EXCEPT ![d] = q]
  BY DEF ManagerJoined, IInv, Phases, JoinPhase
<1>2. d \in Devices /\ Tail(mgr.todo) \in Seq(Devices) /\ pvt[d] \in Pvt /\ IsFit(pvt[d])
  BY <1>1, HeadOfRound
<1>3. mgr.why \in {"start", "restart", "remove", "stop"}
  BY <1>1 DEF IInv, TypeOK, ManagerType
<1>4. unload \notin {"devices", "done"}
  BY <1>1 DEF IInv, Phases, UnloadPhase
<1>6. p \in Pvt /\ IsFit(p) /\ p.monitor = "none"
  BY <1>1, <1>2, JoinedTyped
<1> HIDE DEF p
<1>7. PICK q \in AfterStop(mgr.why, p) : pvt' = [pvt EXCEPT ![d] = q]
  BY <1>1
<1>8. q \in Pvt /\ IsFit(q)
  BY <1>3, <1>6, AfterStopTyped
<1>9. mgr' \in ManagerType /\ mgr'.pc = "visit"
  BY <1>1, <1>2, GoToTyped DEF Advance
<1> HIDE DEF d
<1>10. /\ pvt' \in [Devices -> Pvt] /\ AllFit'
       /\ pvt'[d] = q /\ \A e \in Devices \ {d} : pvt'[e] = pvt[e]
  BY <1>2, <1>7, <1>8, OneDevice DEF IInv, TypeOK
<1>12. TypeOK'
  BY <1>1, <1>9, <1>10 DEF IInv, TypeOK
<1>13. Phases'
  BY <1>1, <1>4, <1>9 DEF IInv, Phases, JoinPhase, UnloadPhase, SignalBound, ConfigPhase
<1> QED BY <1>9, <1>10, <1>12, <1>13 DEF IInv, JoinTold

(* The devices to remove are freed.                                        *)
LEMMA SweepInv ==
  ASSUME IInv, NEW locked, ManagerSweep(locked)
  PROVE  IInv'
<1> DEFINE freed == {d \in Listed \ locked : pvt[d].must_remove}
<1>1. /\ mgr.pc = "visit" /\ GoTo("wait", <<>>, "")
      /\ UNCHANGED <<pvt, event, reload, unload>>
      /\ list' \in {s \in Listings(Listed \ freed) : InOrderOf(s, list)}
      /\ orphans' = orphans \union {d \in freed : pvt[d].monitor = "running"}
  BY DEF ManagerSweep
<1>2. Listed \subseteq Devices
  BY DEF IInv, TypeOK, Listed
<1>3. list' \in Listings(Listed \ freed)
  BY <1>1
<1>4. freed \subseteq Devices
  BY <1>2
<1> HIDE DEF freed
<1>5. list' \in Seq(Devices)
  BY <1>2, <1>3, ListingsTyped
<1>6. orphans' \subseteq Devices
  BY <1>1, <1>4 DEF IInv, TypeOK
<1>7. mgr' \in ManagerType /\ mgr'.pc = "wait"
  <2>1. GoTo("wait", <<>>, "")
    BY <1>1, Zenon
  <2>2. <<>> \in Seq(Devices)
    OBVIOUS
  <2> QED BY <2>1, <2>2, GoToTyped
<1>8. TypeOK'
  BY <1>1, <1>5, <1>6, <1>7 DEF IInv, TypeOK
<1>9. Phases'
  BY <1>1, <1>7 DEF IInv, Phases, JoinPhase, UnloadPhase, SignalBound, ConfigPhase
<1>10. AllFit' /\ JoinTold'
  BY <1>1, <1>7 DEF IInv, AllFit, JoinTold
<1> QED BY <1>8, <1>9, <1>10 DEF IInv

-----------------------------------------------------------------------------
(* A reload of the configuration.                                          *)

(* A reload begins, or goes on to its next loop.                           *)
LEMMA ReloadLoopInv ==
  ASSUME IInv, ReloadStart \/ ReloadPhase
  PROVE  IInv'
<1>1. UNCHANGED <<list, pvt, event, mgr, unload, orphans>>
  BY DEF ReloadStart, ReloadPhase
<1>2. reload \in ReloadType /\ Listed \subseteq Devices
  BY DEF IInv, TypeOK, Listed
<1>3. reload' \in ReloadType /\ ConfigPhase' /\ (unload = "no" \/ reload'.pc = "idle")
  <2>1. CASE ReloadStart
    <3>1. PICK c \in Configs, w \in ReloadTimes :
            reload' = [pc |-> "mark", conf |-> c, when |-> w, todo |-> Listed, now |-> FALSE,
                       left |-> reload.left - 1]
      BY <2>1 DEF ReloadStart
    <3>2. c \in [Devices -> Section] /\ w \in Times
      BY ConfigAssumption
    <3>3. reload.left - 1 \in 0 .. MaxReloads
      BY <1>2, <2>1, ConfigAssumption DEF ReloadStart, ReloadType
    <3> QED BY <1>2, <2>1, <3>1, <3>2, <3>3 DEF ReloadStart, ReloadType, ConfigPhase
  <2>2. CASE ReloadPhase
    <3>1. unload = "no"
      BY <2>2 DEF ReloadPhase, IInv, Phases, UnloadPhase
    <3>2. CASE reload' = [reload EXCEPT !.pc = "configure",
                            !.todo = {d \in Devices : reload.conf[d] # Missing}]
      <4> DEFINE T == {d \in Devices : reload.conf[d] # Missing}
      <4>1. T \in SUBSET Devices /\ \A d \in T : reload.conf[d] # Missing
        OBVIOUS
      <4> HIDE DEF T
      <4>2. reload' = [reload EXCEPT !.pc = "configure", !.todo = T]
        BY <3>2 DEF T
      <4>3. reload' \in ReloadType /\ reload'.todo = T /\ reload'.conf = reload.conf
        BY <1>2, <4>1, <4>2 DEF ReloadType
      <4> QED BY <3>1, <4>1, <4>3 DEF ConfigPhase
    <3>3. CASE reload' = [reload EXCEPT !.pc = "remove", !.todo = Listed]
      <4>1. reload' \in ReloadType /\ reload'.pc = "remove"
        BY <1>2, <3>3 DEF ReloadType
      <4> QED BY <3>1, <4>1 DEF ConfigPhase
    <3> QED BY <2>2, <3>2, <3>3 DEF ReloadPhase
  <2> QED BY <2>1, <2>2
<1>4. TypeOK'
  BY <1>1, <1>3 DEF IInv, TypeOK
<1>5. Phases'
  BY <1>1, <1>3 DEF IInv, Phases, JoinPhase, UnloadPhase, SignalBound
<1>6. AllFit' /\ JoinTold'
  BY <1>1 DEF IInv, AllFit, JoinTold
<1> QED BY <1>4, <1>5, <1>6 DEF IInv

(* One device less is left in a loop of a reload.                          *)
LEMMA ReloadStepTyped ==
  ASSUME IInv, NEW d \in Devices, NEW b \in BOOLEAN,
         reload' = [reload EXCEPT !.todo = @ \ {d}, !.now = b]
  PROVE  /\ reload' \in ReloadType /\ reload'.pc = reload.pc
         /\ ConfigPhase'
<1>1. reload \in ReloadType /\ ConfigPhase
  BY DEF IInv, TypeOK, Phases
<1>2. /\ reload' \in ReloadType /\ reload'.pc = reload.pc
      /\ reload'.todo = reload.todo \ {d} /\ reload'.conf = reload.conf
  BY <1>1 DEF ReloadType
<1> QED BY <1>1, <1>2 DEF ConfigPhase

(* A reload that changes one device, or none, keeps the invariant when the *)
(* thread of the device is left alone.                                     *)
LEMMA ReloadDeviceInv ==
  ASSUME IInv, NEW d \in Devices, NEW b \in BOOLEAN, reload.pc # "idle",
         reload' = [reload EXCEPT !.todo = @ \ {d}, !.now = b],
         NEW q \in Pvt, IsFit(q), IsTold(pvt[d]) => IsTold(q),
         pvt' = [pvt EXCEPT ![d] = q],
         UNCHANGED <<list, event, mgr, unload, orphans>>
  PROVE  IInv'
<1>1. reload' \in ReloadType /\ reload'.pc = reload.pc /\ ConfigPhase'
  BY ReloadStepTyped
<1>2. /\ pvt' \in [Devices -> Pvt] /\ AllFit'
      /\ pvt'[d] = q /\ \A e \in Devices \ {d} : pvt'[e] = pvt[e]
  BY OneDevice DEF IInv, TypeOK
<1>3. unload = "no"
  BY DEF IInv, Phases, UnloadPhase
<1>4. TypeOK'
  BY <1>1, <1>2 DEF IInv, TypeOK
<1>5. Phases'
  BY <1>1, <1>3 DEF IInv, Phases, JoinPhase, UnloadPhase, SignalBound
<1>6. \A e \in Devices : IsTold(pvt[e]) => IsTold(pvt'[e])
  BY <1>2
<1>7. JoinTold'
  BY <1>6, ToldKept
<1> QED BY <1>2, <1>4, <1>5, <1>7 DEF IInv

(* A device is marked for removal, compared with its section, or told to go. *)
LEMMA ReloadKnownInv ==
  ASSUME IInv, NEW d \in Devices, ReloadMark(d) \/ ReloadKnown(d) \/ ReloadRemove(d)
  PROVE  IInv'
<1>1. /\ pvt[d] \in Pvt /\ IsFit(pvt[d]) /\ pvt \in [Devices -> Pvt]
      /\ reload \in ReloadType
  BY DEF IInv, TypeOK, AllFit
<1>2. reload.when \in Times /\ reload.now \in BOOLEAN /\ reload.conf \in [Devices -> Section]
  BY <1>1 DEF ReloadType
<1>3. [reload EXCEPT !.todo = @ \ {d}] = [reload EXCEPT !.todo = @ \ {d}, !.now = reload.now]
  BY <1>1 DEF ReloadType
<1>4. pvt = [pvt EXCEPT ![d] = pvt[d]]
  BY <1>1
<1>5. CASE ReloadMark(d)
  <2> DEFINE q == [pvt[d] EXCEPT !.must_remove = TRUE]
  <2>1. q \in Pvt /\ IsFit(q) /\ (IsTold(pvt[d]) => IsTold(q))
    BY <1>1 DEF Pvt, IsFit, IsTold
  <2>2. pvt' = [pvt EXCEPT ![d] = q]
    BY <1>5 DEF ReloadMark
  <2> HIDE DEF q
  <2>3. /\ reload' = [reload EXCEPT !.todo = @ \ {d}, !.now = reload.now]
        /\ reload.pc # "idle" /\ UNCHANGED <<list, event, mgr, unload, orphans>>
    BY <1>3, <1>5 DEF ReloadMark
  <2> QED BY <1>2, <2>1, <2>2, <2>3, ReloadDeviceInv
<1>6. CASE ReloadKnown(d)
  <2> DEFINE s == reload.conf[d]
             q == Reconfigured(pvt[d], s, reload.when)
             b == reload.now \/ Reconfigures(pvt[d], s)
  <2>1. s \in Settings
    <3>1. s \in Section /\ s # Missing
      BY <1>2, <1>6 DEF ReloadKnown, IInv, Phases, ConfigPhase
    <3> QED BY <3>1, SectionSettings
  <2>2. q \in Pvt /\ IsFit(q) /\ (IsTold(pvt[d]) => IsTold(q))
    BY <1>1, <1>2, <2>1, ReconfiguredTyped
  <2>3. /\ pvt' = [pvt EXCEPT ![d] = q]
        /\ reload' = [reload EXCEPT !.todo = @ \ {d}, !.now = b]
        /\ reload.pc # "idle" /\ UNCHANGED <<list, event, mgr, unload, orphans>>
    BY <1>6 DEF ReloadKnown
  <2>4. b \in BOOLEAN
    OBVIOUS
  <2> HIDE DEF q, b
  <2> QED BY <2>2, <2>3, <2>4, ReloadDeviceInv
<1>7. CASE ReloadRemove(d)
  <2> DEFINE r == [pvt[d] EXCEPT !.desired = REMOVED]
             t == pvt_time4restate(r)
             w == IF t THEN NOW ELSE reload.when
             q == [r EXCEPT !.when = w]
             b == reload.now \/ t
  <2>1. w \in Times /\ b \in BOOLEAN
    BY <1>2 DEF Times
  <2>2. /\ reload.pc # "idle" /\ UNCHANGED <<list, event, mgr, unload, orphans>>
        /\ \/ /\ pvt' = [pvt EXCEPT ![d] = q]
              /\ reload' = [reload EXCEPT !.todo = @ \ {d}, !.now = b]
           \/ reload' = [reload EXCEPT !.todo = @ \ {d}] /\ UNCHANGED pvt
    BY <1>7 DEF ReloadRemove
  <2> HIDE DEF w, b
  <2>3. q \in Pvt /\ IsFit(q) /\ (IsTold(pvt[d]) => IsTold(q))
    BY <1>1, <2>1 DEF Pvt, IsFit, IsTold, DevStates, InitStates, REMOVED
  <2> HIDE DEF q
  <2>4. CASE /\ pvt' = [pvt EXCEPT ![d] = q]
             /\ reload' = [reload EXCEPT !.todo = @ \ {d}, !.now = b]
    BY <2>1, <2>2, <2>3, <2>4, ReloadDeviceInv
  <2>5. CASE reload' = [reload EXCEPT !.todo = @ \ {d}] /\ UNCHANGED pvt
    BY <1>1, <1>2, <1>3, <1>4, <2>2, <2>5, ReloadDeviceInv
  <2> QED BY <2>2, <2>4, <2>5
<1> QED BY <1>5, <1>6, <1>7

(* A section of the configuration names a new device.                      *)
LEMMA ReloadNewInv ==
  ASSUME IInv, NEW d \in Devices, ReloadNew(d)
  PROVE  IInv'
<1>1. /\ pvt[d] \in Pvt /\ IsFit(pvt[d]) /\ pvt \in [Devices -> Pvt]
      /\ reload \in ReloadType /\ list \in Seq(Devices)
  BY DEF IInv, TypeOK, AllFit
<1>2. /\ reload.pc = "configure" /\ d \in reload.todo
      /\ UNCHANGED <<event, mgr, unload, orphans>>
  BY DEF ReloadNew
<1>3. CASE reload' = [reload EXCEPT !.todo = @ \ {d}] /\ UNCHANGED <<list, pvt>>
  <2>1. [reload EXCEPT !.todo = @ \ {d}] = [reload EXCEPT !.todo = @ \ {d}, !.now = reload.now]
        /\ reload.now \in BOOLEAN
    BY <1>1 DEF ReloadType
  <2>2. pvt = [pvt EXCEPT ![d] = pvt[d]]
    BY <1>1
  <2> QED BY <1>1, <1>2, <1>3, <2>1, <2>2, ReloadDeviceInv
<1>4. CASE /\ ~Visiting
           /\ pvt' = [pvt EXCEPT ![d] = pvt_create(reload.conf[d])]
           /\ list' = Append(list, d)
           /\ reload' = [reload EXCEPT !.todo = @ \ {d}, !.now = TRUE]
  <2> DEFINE q == pvt_create(reload.conf[d])
  <2>1. reload.conf[d] \in Settings
    <3>1. reload.conf[d] \in Section /\ reload.conf[d] # Missing
      BY <1>1, <1>2 DEF IInv, Phases, ConfigPhase, ReloadType
    <3> QED BY <3>1, SectionSettings
  <2>2. q \in Pvt /\ IsFit(q)
    BY <2>1, CreateTyped
  <2>3. pvt' = [pvt EXCEPT ![d] = q]
    BY <1>4
  <2> HIDE DEF q
  <2>4. /\ pvt' \in [Devices -> Pvt] /\ AllFit'
        /\ pvt'[d] = q /\ \A e \in Devices \ {d} : pvt'[e] = pvt[e]
    BY <2>2, <2>3, OneDevice DEF IInv, TypeOK
  <2>5. reload' \in ReloadType /\ reload'.pc = reload.pc /\ ConfigPhase'
    BY <1>4, ReloadStepTyped
  <2>6. unload = "no"
    BY <1>2 DEF IInv, Phases, UnloadPhase
  <2>7. list' \in Seq(Devices)
    BY <1>1, <1>4
  <2>8. TypeOK'
    BY <1>2, <2>4, <2>5, <2>7 DEF IInv, TypeOK
  <2>9. Phases'
    BY <1>2, <2>5, <2>6 DEF IInv, Phases, JoinPhase, UnloadPhase, SignalBound
  <2>11. JoinTold'
    BY <1>2, <1>4 DEF Visiting, JoinTold
  <2> QED BY <2>4, <2>8, <2>9, <2>11 DEF IInv
<1> QED BY <1>3, <1>4 DEF ReloadNew

(* A reload ends.                                                          *)
LEMMA ReloadDoneInv ==
  ASSUME IInv, ReloadDone
  PROVE  IInv'
<1>1. /\ reload.pc = "remove" /\ event < MaxSignals /\ event' \in {event, event + 1}
      /\ UNCHANGED <<list, pvt, mgr, unload, orphans>>
  BY DEF ReloadDone
<1>2. reload' \in ReloadType /\ reload'.pc = "idle"
  <2>1. reload' = [pc |-> "idle", conf |-> FirstConfig, when |-> NOW, todo |-> {},
                   now |-> FALSE, left |-> reload.left]
    BY DEF ReloadDone, Idle
  <2>2. FirstConfig \in [Devices -> Section] /\ NOW \in Times /\ {} \in SUBSET Devices
    BY ConfigAssumption DEF Times
  <2>3. reload.left \in 0 .. MaxReloads
    BY DEF IInv, TypeOK, ReloadType
  <2> QED BY <2>1, <2>2, <2>3 DEF ReloadType
<1>3. event' \in 0 .. MaxSignals + 2 /\ SignalBound'
  <2>1. event \in 0 .. MaxSignals + 2
    BY DEF IInv, TypeOK
  <2> QED BY <1>1, <2>1, ConfigAssumption DEF SignalBound
<1>4. TypeOK'
  BY <1>1, <1>2, <1>3 DEF IInv, TypeOK
<1>5. Phases'
  BY <1>1, <1>2, <1>3 DEF IInv, Phases, JoinPhase, UnloadPhase, ConfigPhase
<1>6. AllFit' /\ JoinTold'
  BY <1>1 DEF IInv, AllFit, JoinTold
<1> QED BY <1>4, <1>5, <1>6 DEF IInv

-----------------------------------------------------------------------------
(* Unloading.                                                              *)

(* The manager is told to end, and has ended.                              *)
LEMMA UnloadBeginsInv ==
  ASSUME IInv, UnloadStart \/ UnloadManager
  PROVE  IInv'
<1>1. /\ UNCHANGED <<list, pvt, mgr, reload, orphans>>
      /\ unload \notin {"devices", "done"} /\ unload' \in {"manager", "devices"}
      /\ unload' = "devices" => mgr.pc = "gone"
      /\ reload.pc = "idle"
  BY DEF UnloadStart, UnloadManager, IInv, Phases, UnloadPhase
<1>2. event' \in 0 .. MaxSignals + 2
  <2>1. event \in 0 .. MaxSignals + 2 /\ SignalBound
    BY DEF IInv, TypeOK, Phases
  <2> QED BY <2>1, ConfigAssumption DEF UnloadStart, UnloadManager, SignalBound
<1>3. TypeOK'
  BY <1>1, <1>2 DEF IInv, TypeOK
<1>4. Phases'
  BY <1>1 DEF IInv, Phases, JoinPhase, UnloadPhase, SignalBound, ConfigPhase
<1>5. AllFit' /\ JoinTold'
  BY <1>1 DEF IInv, AllFit, JoinTold
<1> QED BY <1>3, <1>4, <1>5 DEF IInv

(* A device is told to stop, or freed.                                     *)
LEMMA UnloadDeviceInv ==
  ASSUME IInv, UnloadDevice
  PROVE  IInv'
<1>1. unload = "devices" /\ mgr.pc = "gone" /\ UNCHANGED <<event, mgr, reload, orphans>>
  BY DEF UnloadDevice, IInv, Phases, UnloadPhase
<1>2. JoinTold'
  BY <1>1 DEF JoinTold
<1>3. CASE list = <<>>
  <2>1. unload' = "done" /\ UNCHANGED <<list, pvt>>
    BY <1>3 DEF UnloadDevice
  <2>2. TypeOK'
    BY <1>1, <2>1 DEF IInv, TypeOK
  <2>3. Phases'
    BY <1>1, <2>1 DEF IInv, Phases, JoinPhase, UnloadPhase, SignalBound, ConfigPhase
  <2> QED BY <1>2, <2>1, <2>2, <2>3 DEF IInv, AllFit
<1>4. CASE list # <<>>
  <2> DEFINE d == Head(list)
  <2>1. d \in Devices /\ Tail(list) \in Seq(Devices)
    BY <1>4, HeadTailProperties DEF IInv, TypeOK
  <2>2. pvt[d] \in Pvt /\ IsFit(pvt[d])
    BY <2>1 DEF IInv, TypeOK, AllFit
  <2>3. /\ unload' = unload
        /\ \/ /\ pvt[d].monitor = "running"
              /\ pvt' = [pvt EXCEPT ![d].terminate = TRUE] /\ list' = list
           \/ /\ pvt[d].monitor # "running"
              /\ pvt' = [pvt EXCEPT ![d] = Joined(@)] /\ list' = Tail(list)
    BY <1>4 DEF UnloadDevice
  <2>4. PICK q \in Pvt : /\ IsFit(q) /\ pvt' = [pvt EXCEPT ![d] = q]
                         /\ list' \in Seq(Devices)
    <3>1. CASE /\ pvt[d].monitor = "running"
               /\ pvt' = [pvt EXCEPT ![d].terminate = TRUE] /\ list' = list
      <4>1. [pvt[d] EXCEPT !.terminate = TRUE] \in Pvt /\ IsFit([pvt[d] EXCEPT !.terminate = TRUE])
        BY <2>2, <3>1 DEF Pvt, IsFit
      <4>2. pvt' = [pvt EXCEPT ![d] = [pvt[d] EXCEPT !.terminate = TRUE]]
        BY <3>1
      <4> QED BY <3>1, <4>1, <4>2 DEF IInv, TypeOK
    <3>2. CASE /\ pvt[d].monitor # "running"
               /\ pvt' = [pvt EXCEPT ![d] = Joined(@)] /\ list' = Tail(list)
      <4>1. Joined(pvt[d]) \in Pvt /\ IsFit(Joined(pvt[d]))
        BY <2>2, <3>2, JoinedTyped
      <4>2. pvt' = [pvt EXCEPT ![d] = Joined(pvt[d])]
        BY <3>2
      <4> QED BY <2>1, <3>2, <4>1, <4>2
    <3> QED BY <2>3, <3>1, <3>2
  <2> HIDE DEF d
  <2>7. /\ pvt' \in [Devices -> Pvt] /\ AllFit'
        /\ pvt'[d] = q /\ \A e \in Devices \ {d} : pvt'[e] = pvt[e]
    BY <2>1, <2>4, OneDevice DEF IInv, TypeOK
  <2>8. TypeOK'
    BY <1>1, <2>3, <2>4, <2>7 DEF IInv, TypeOK
  <2>9. Phases'
    BY <1>1, <2>3 DEF IInv, Phases, JoinPhase, UnloadPhase, SignalBound, ConfigPhase
  <2> QED BY <1>2, <2>7, <2>8, <2>9 DEF IInv
<1> QED BY <1>3, <1>4

(* Every step keeps the invariant.                                         *)
LEMMA NextInv ==
  ASSUME IInv, [Next]_vars
  PROVE  IInv'
<1>1. CASE Manager
  BY <1>1, RoundInv, VisitInv, JoinedInv, SweepInv DEF Manager
<1>2. CASE Reloading
  BY <1>2, ReloadLoopInv, ReloadDoneInv, ReloadKnownInv, ReloadNewInv DEF Reloading
<1>3. CASE Unloading
  BY <1>3, UnloadBeginsInv, UnloadDeviceInv DEF Unloading
<1>4. ASSUME NEW d \in Devices,
             \/ Request(d) \/ Begins(d) \/ Ends(d) \/ Retrieved(d)
             \/ JobTerminates(d) \/ MonitorTold(d) \/ MonitorLost(d)
      PROVE  IInv'
  BY <1>4, ActivityInv, MonitorInv
<1>5. CASE UNCHANGED vars
  BY <1>5 DEF vars, IInv, TypeOK, Phases, JoinPhase, UnloadPhase, SignalBound, ConfigPhase,
              AllFit, JoinTold
<1> QED BY <1>1, <1>2, <1>3, <1>4, <1>5 DEF Next

(* The inductive invariant holds of every behaviour.                       *)
THEOREM Inductive == Spec => []IInv
<1>1. Init => IInv
  BY InitInv
<1>2. IInv /\ [Next]_vars => IInv'
  BY NextInv
<1> QED BY <1>1, <1>2, PTL DEF Spec

(* StartedIsWatched: whatever requests, losses, failed openings, reloads   *)
(* and unloading come in between, a listed device counts as started exactly *)
(* while a monitor thread looks after it.                                  *)
THEOREM StartedMeansWatched == Spec => []StartedIsWatched
<1>1. IInv => StartedIsWatched
  BY DEF IInv, TypeOK, AllFit, IsFit, StartedIsWatched, Listed
<1> QED BY <1>1, Inductive, PTL

(* TerminateIsTransient: whoever sets terminate_monitor, the manager, the  *)
(* unloading or a job, a thread that ends by itself and the join clear it, *)
(* so that without a thread it is set only when a job ran after the join;  *)
(* and a thread the manager waits for has been told to end.                *)
THEOREM NoTerminateLeft == Spec => []TerminateIsTransient
<1>1. IInv => TerminateIsTransient
  BY DEF IInv, TypeOK, AllFit, IsFit, JoinTold, IsTold, TerminateIsTransient, Listed
<1> QED BY <1>1, Inductive, PTL

-----------------------------------------------------------------------------
(* Without reloads the manager implements DeviceLife.  A reload marks a    *)
(* device for removal while its thread runs (chan_quectel.c:1218), and the *)
(* manager may free it then; without one, what is marked has no thread.    *)

MarkedIsStopped ==
  /\ reload.pc = "idle"
  /\ \A d \in Devices : pvt[d].must_remove => pvt[d].monitor = "none"
  /\ mgr.pc = "join" => ~pvt[Head(mgr.todo)].must_remove

RInv == IInv /\ MarkedIsStopped

(* The initial states map to initial states.                               *)
LEMMA InitLife == Init => RInv /\ Life!Init
<1> SUFFICES ASSUME Init PROVE RInv /\ Life!Init
  OBVIOUS
<1>1. IInv
  BY InitInv
<1>2. \A d \in Devices : (IF d \in FirstDevices THEN FirstConfig[d] ELSE NoSettings) \in Settings
  BY ConfigAssumption, SectionSettings DEF FirstDevices, NoSettings, Settings, InitStates, STOPPED
<1>3. \A d \in Devices : pvt[d].monitor = "none" /\ pvt[d].must_remove = FALSE
  BY <1>2, CreateTyped DEF Init
<1>4. reload.pc = "idle" /\ mgr.pc = "wait"
  BY DEF Init, Idle
<1>5. \A d \in Devices : LifeOf(d) \in {"absent", "stopped"}
  BY <1>3 DEF LifeOf
<1>6. Life!Init
  BY <1>5 DEF Life!Init
<1> QED BY <1>1, <1>3, <1>4, <1>6 DEF RInv, MarkedIsStopped

(* What a step without reloads does to the list and to the threads.        *)
LifeStep ==
  \/ \A d \in Devices : LifeOf(d)' = LifeOf(d)
  \/ \E d \in Devices :
       /\ <<LifeOf(d), LifeOf(d)'>> \in {<<"stopped", "running">>, <<"running", "stopped">>}
       /\ \A e \in Devices \ {d} : LifeOf(e)' = LifeOf(e)
  \/ \E freed \in SUBSET Devices : \A d \in Devices :
       IF d \in freed THEN LifeOf(d) = "stopped" /\ LifeOf(d)' = "absent"
                      ELSE LifeOf(d)' = LifeOf(d)

(* These are steps of DeviceLife, or stutter.                              *)
LEMMA LifeStepAllowed ==
  ASSUME LifeStep
  PROVE  [Life!Next]_([d \in Devices |-> LifeOf(d)])
<1> DEFINE life == [d \in Devices |-> LifeOf(d)]
<1>1. CASE \A d \in Devices : LifeOf(d)' = LifeOf(d)
  <2>1. life' = life
    BY <1>1
  <2> QED BY <2>1
<1>2. ASSUME NEW d \in Devices,
             <<LifeOf(d), LifeOf(d)'>> \in {<<"stopped", "running">>, <<"running", "stopped">>},
             \A e \in Devices \ {d} : LifeOf(e)' = LifeOf(e)
      PROVE  Life!Next
  <2>1. life' = [life EXCEPT ![d] = LifeOf(d)']
    BY <1>2
  <2>2. \/ LifeOf(d) = "stopped" /\ LifeOf(d)' = "running"
        \/ LifeOf(d) = "running" /\ LifeOf(d)' = "stopped"
    BY <1>2
  <2> QED BY <2>1, <2>2 DEF Life!Next, Life!Start, Life!End
<1>3. ASSUME NEW freed \in SUBSET Devices,
             \A d \in Devices :
               IF d \in freed THEN LifeOf(d) = "stopped" /\ LifeOf(d)' = "absent"
                              ELSE LifeOf(d)' = LifeOf(d)
      PROVE  Life!Next
  <2>1. life' = [d \in Devices |-> IF d \in freed THEN "absent" ELSE life[d]]
    BY <1>3
  <2>2. \A d \in freed : life[d] = "stopped"
    BY <1>3
  <2> QED BY <2>1, <2>2 DEF Life!Next, Life!Free
<1> QED BY <1>1, <1>2, <1>3 DEF LifeStep

(* A step that leaves the list alone and gives one device the value q.     *)
LEMMA OneLife ==
  ASSUME RInv, UNCHANGED <<list, reload>>, NEW d \in Devices, NEW q \in Pvt, IsFit(q),
         pvt' = [pvt EXCEPT ![d] = q],
         q.must_remove => q.monitor = "none",
         mgr'.pc = "join" => ~pvt'[Head(mgr'.todo)].must_remove
  PROVE  MarkedIsStopped' /\ LifeStep
<1>1. pvt'[d] = q /\ \A e \in Devices \ {d} : pvt'[e] = pvt[e]
  BY OneDevice DEF RInv, IInv, TypeOK
<1>2. MarkedIsStopped'
  BY <1>1 DEF RInv, MarkedIsStopped
<1>3. Listed' = Listed
  BY DEF Listed
<1>4. \A e \in Devices \ {d} : LifeOf(e)' = LifeOf(e)
  BY <1>1, <1>3 DEF LifeOf
<1>5. \/ LifeOf(d)' = LifeOf(d)
      \/ LifeOf(d) = "stopped" /\ LifeOf(d)' = "running"
      \/ LifeOf(d) = "running" /\ LifeOf(d)' = "stopped"
  BY <1>3 DEF LifeOf
<1> QED BY <1>2, <1>4, <1>5 DEF LifeStep

(* Steps that leave the list and every thread alone.                       *)
LEMMA NoLife ==
  ASSUME RInv, UNCHANGED list, reload'.pc = "idle",
         \A d \in Devices : SameThread(pvt'[d], pvt[d]),
         mgr'.pc = "join" => ~pvt'[Head(mgr'.todo)].must_remove
  PROVE  MarkedIsStopped' /\ LifeStep
<1>1. MarkedIsStopped'
  BY DEF RInv, MarkedIsStopped, SameThread
<1>2. Listed' = Listed
  BY DEF Listed
<1>3. \A d \in Devices : LifeOf(d)' = LifeOf(d)
  BY <1>2 DEF LifeOf, SameThread
<1> QED BY <1>1, <1>3 DEF LifeStep

(* The manager starts a device that is not marked, or marks one without a  *)
(* thread.                                                                 *)
LEMMA VisitLife ==
  ASSUME RInv, ManagerVisit \/ ManagerJoined
  PROVE  MarkedIsStopped' /\ LifeStep
<1> DEFINE d == Head(mgr.todo)
<1>1. mgr.todo # <<>> /\ UNCHANGED <<list, reload>>
  BY DEF ManagerVisit, ManagerJoined, RInv, IInv, Phases, JoinPhase
<1>2. /\ d \in Devices /\ Tail(mgr.todo) \in Seq(Devices)
      /\ pvt[d] \in Pvt /\ IsFit(pvt[d]) /\ mgr.todo \in Seq(Devices)
      /\ pvt[d].must_remove => pvt[d].monitor = "none"
  BY <1>1, HeadOfRound DEF RInv, MarkedIsStopped, IInv, TypeOK, ManagerType
<1>3. Advance => mgr'.pc = "visit"
  BY <1>2, GoToTyped DEF Advance
<1>4. CASE Advance /\ UNCHANGED pvt
  <2>1. \A e \in Devices : SameThread(pvt'[e], pvt[e])
    BY <1>4 DEF SameThread
  <2>2. reload'.pc = "idle"
    BY <1>1 DEF RInv, MarkedIsStopped
  <2> QED BY <1>1, <1>3, <1>4, <2>1, <2>2, NoLife
<1>5. ASSUME NEW p \in Pvt, IsFit(p), p.monitor = "none", ~p.must_remove,
             NEW why \in {"start", "restart", "remove", "stop"},
             NEW q \in AfterStop(why, p), pvt' = [pvt EXCEPT ![d] = q], Advance
      PROVE  MarkedIsStopped' /\ LifeStep
  <2>1. q \in Pvt /\ IsFit(q) /\ (q.must_remove => q.monitor = "none")
    BY <1>5, AfterStopTyped
  <2> HIDE DEF d
  <2> QED BY <1>1, <1>2, <1>3, <1>5, <2>1, OneLife
<1>6. CASE ManagerVisit
  <2>1. \/ Advance /\ UNCHANGED pvt
        \/ /\ ~Skipped(pvt[d]) /\ pvt[d].monitor = "none" /\ Advance
           /\ \E q \in AfterStop(Purpose(pvt[d].desired), pvt[d]) : pvt' = [pvt EXCEPT ![d] = q]
        \/ /\ ~Skipped(pvt[d])
           /\ pvt' = [pvt EXCEPT ![d].terminate = TRUE] /\ pvt[d].monitor # "none"
           /\ GoTo("join", mgr.todo, Purpose(pvt[d].desired))
    BY <1>6 DEF ManagerVisit
  <2>2. ~Skipped(pvt[d]) => ~pvt[d].must_remove
    BY DEF Skipped
  <2>3. Purpose(pvt[d].desired) \in {"start", "restart", "remove", "stop"}
    <3>1. pvt[d].desired \in DevStates
      BY <1>2 DEF Pvt
    <3> QED BY <3>1, PurposeTyped
  <2>4. CASE /\ ~Skipped(pvt[d]) /\ pvt[d].monitor = "none" /\ Advance
             /\ \E q \in AfterStop(Purpose(pvt[d].desired), pvt[d]) : pvt' = [pvt EXCEPT ![d] = q]
    BY <1>2, <1>5, <2>2, <2>3, <2>4
  <2>5. CASE /\ ~Skipped(pvt[d])
             /\ pvt' = [pvt EXCEPT ![d].terminate = TRUE] /\ pvt[d].monitor # "none"
             /\ GoTo("join", mgr.todo, Purpose(pvt[d].desired))
    <3> DEFINE q == [pvt[d] EXCEPT !.terminate = TRUE]
    <3>1. /\ q \in Pvt /\ IsFit(q) /\ (q.must_remove => q.monitor = "none")
          /\ ~q.must_remove
      BY <1>2, <2>2, <2>5 DEF Pvt, IsFit
    <3>2. pvt' = [pvt EXCEPT ![d] = q]
      BY <2>5
    <3> HIDE DEF q
    <3>3. mgr'.todo = mgr.todo
      BY <1>2, <2>3, <2>5, GoToTyped
    <3>4. ~pvt'[Head(mgr'.todo)].must_remove
      <4>1. pvt'[d] = q
        BY <1>2, <3>2 DEF RInv, IInv, TypeOK
      <4> QED BY <3>1, <3>3, <4>1
    <3> HIDE DEF d
    <3> QED BY <1>1, <1>2, <3>1, <3>2, <3>4, OneLife
  <2> QED BY <1>4, <2>1, <2>4, <2>5
<1>7. CASE ManagerJoined
  <2>1. /\ mgr.pc = "join" /\ pvt[d].monitor = "ended" /\ Advance /\ mgr.why # ""
        /\ \E q \in AfterStop(mgr.why, Joined(pvt[d])) : pvt' = [pvt EXCEPT ![d] = q]
    BY <1>7 DEF ManagerJoined, RInv, IInv, Phases, JoinPhase
  <2>2. ~pvt[d].must_remove
    BY <2>1 DEF RInv, MarkedIsStopped
  <2>3. mgr.why \in {"start", "restart", "remove", "stop"}
    BY <2>1 DEF RInv, IInv, TypeOK, ManagerType
  <2>4. /\ Joined(pvt[d]) \in Pvt /\ IsFit(Joined(pvt[d]))
        /\ Joined(pvt[d]).monitor = "none" /\ ~Joined(pvt[d]).must_remove
    BY <1>2, <2>1, <2>2, JoinedTyped
  <2> QED BY <1>5, <2>1, <2>3, <2>4
<1> QED BY <1>6, <1>7

(* The devices the second loop frees have no thread.                       *)
LEMMA SweepLife ==
  ASSUME RInv, NEW locked, ManagerSweep(locked)
  PROVE  MarkedIsStopped' /\ LifeStep
<1> DEFINE freed == {d \in Listed \ locked : pvt[d].must_remove}
<1>1. /\ GoTo("wait", <<>>, "") /\ UNCHANGED <<pvt, reload>>
      /\ list' \in Listings(Listed \ freed)
  BY DEF ManagerSweep
<1>2. Listed \subseteq Devices
  BY DEF RInv, IInv, TypeOK, Listed
<1>3. freed \subseteq Devices /\ \A d \in freed : d \in Listed /\ pvt[d].monitor = "none"
  BY <1>2 DEF RInv, MarkedIsStopped
<1> HIDE DEF freed
<1>4. Listed' = Listed \ freed
  <2>1. {list'[i] : i \in DOMAIN list'} = Listed \ freed
    BY <1>1, <1>2, ListingsTyped
  <2> QED BY <2>1 DEF Listed
<1>5. mgr'.pc = "wait"
  BY <1>1 DEF GoTo
<1>6. MarkedIsStopped'
  BY <1>1, <1>5 DEF RInv, MarkedIsStopped
<1>7. \A d \in Devices : IF d \in freed THEN LifeOf(d) = "stopped" /\ LifeOf(d)' = "absent"
                                       ELSE LifeOf(d)' = LifeOf(d)
  BY <1>1, <1>3, <1>4 DEF LifeOf
<1> QED BY <1>3, <1>6, <1>7 DEF LifeStep

(* Unloading frees a device whose thread has ended.                        *)
LEMMA UnloadLife ==
  ASSUME RInv, UnloadDevice
  PROVE  MarkedIsStopped' /\ LifeStep
<1>1. mgr.pc = "gone" /\ UNCHANGED <<mgr, reload>>
  BY DEF UnloadDevice, RInv, IInv, Phases, UnloadPhase
<1>2. CASE UNCHANGED <<list, pvt>>
  <2>1. \A e \in Devices : SameThread(pvt'[e], pvt[e])
    BY <1>2 DEF SameThread
  <2>2. reload'.pc = "idle"
    BY <1>1 DEF RInv, MarkedIsStopped
  <2> QED BY <1>1, <1>2, <2>1, <2>2, NoLife
<1>3. CASE list # <<>>
  <2>1. PICK d \in Devices : d = Head(list)
    BY <1>3, HeadTailProperties DEF RInv, IInv, TypeOK
  <2>2. d \in Devices /\ list \in Seq(Devices)
    BY DEF RInv, IInv, TypeOK
  <2>3. /\ pvt[d] \in Pvt /\ IsFit(pvt[d]) /\ (pvt[d].must_remove => pvt[d].monitor = "none")
    BY <2>2 DEF RInv, MarkedIsStopped, IInv, TypeOK, AllFit
  <2>4. \/ /\ pvt[d].monitor = "running"
           /\ pvt' = [pvt EXCEPT ![d].terminate = TRUE] /\ list' = list
        \/ /\ pvt[d].monitor # "running"
           /\ pvt' = [pvt EXCEPT ![d] = Joined(@)] /\ list' = Tail(list)
    BY <1>3, <2>1 DEF UnloadDevice
  <2>5. CASE /\ pvt[d].monitor = "running"
             /\ pvt' = [pvt EXCEPT ![d].terminate = TRUE] /\ list' = list
    <3> DEFINE q == [pvt[d] EXCEPT !.terminate = TRUE]
    <3>1. q \in Pvt /\ IsFit(q) /\ (q.must_remove => q.monitor = "none")
      BY <2>3, <2>5 DEF Pvt, IsFit
    <3>2. pvt' = [pvt EXCEPT ![d] = q]
      BY <2>5
    <3> HIDE DEF q
    <3> QED BY <1>1, <2>2, <2>5, <3>1, <3>2, OneLife
  <2>6. CASE /\ pvt[d].monitor # "running"
             /\ pvt' = [pvt EXCEPT ![d] = Joined(@)] /\ list' = Tail(list)
    <3> DEFINE q == Joined(pvt[d])
    <3>1. q \in Pvt /\ IsFit(q) /\ q.monitor = "none"
      BY <2>3, <2>6, JoinedTyped
    <3>2. pvt' = [pvt EXCEPT ![d] = q]
      BY <2>6
    <3>3. d \in Listed /\ Listed' \subseteq Listed /\ Listed \subseteq Listed' \union {d}
      <4>1. /\ 1 \in DOMAIN list /\ list[1] = d /\ DOMAIN list = 1 .. Len(list)
            /\ DOMAIN Tail(list) = 1 .. Len(list) - 1 /\ Len(list) \in Nat
            /\ \A i \in 1 .. Len(list) - 1 : Tail(list)[i] = list[i + 1]
        BY <1>3, <2>1, <2>2, HeadTailProperties
      <4>2. \A i \in DOMAIN list : i = 1 \/ (i - 1 \in 1 .. Len(list) - 1 /\ list[i] = Tail(list)[i - 1])
        BY <4>1
      <4>3. \A i \in DOMAIN Tail(list) : Tail(list)[i] \in Listed
        BY <4>1 DEF Listed
      <4>4. \A i \in DOMAIN list : list[i] = d \/ list[i] \in {Tail(list)[j] : j \in DOMAIN Tail(list)}
        BY <4>1, <4>2
      <4>5. Listed' = {Tail(list)[j] : j \in DOMAIN Tail(list)}
        BY <2>6 DEF Listed
      <4> QED BY <4>1, <4>3, <4>4, <4>5 DEF Listed
    <3> HIDE DEF q
    <3>4. pvt'[d] = q /\ \A e \in Devices \ {d} : pvt'[e] = pvt[e]
      BY <2>2, <3>1, <3>2, OneDevice DEF RInv, IInv, TypeOK
    <3>5. MarkedIsStopped'
      BY <1>1, <3>1, <3>4 DEF RInv, MarkedIsStopped
    <3>6. \A e \in Devices \ {d} : LifeOf(e)' = LifeOf(e)
      BY <3>3, <3>4 DEF LifeOf
    <3>7. LifeOf(d) = "stopped" /\ LifeOf(d)' \in {"stopped", "absent"}
      BY <2>6, <3>1, <3>3, <3>4 DEF LifeOf
    <3>8. {d} \in SUBSET Devices
      BY <2>2
    <3>9. CASE LifeOf(d)' = "absent"
      BY <3>5, <3>6, <3>7, <3>8, <3>9 DEF LifeStep
    <3>10. CASE LifeOf(d)' = "stopped"
      BY <3>5, <3>6, <3>7, <3>10 DEF LifeStep
    <3> QED BY <3>7, <3>9, <3>10
  <2> QED BY <2>4, <2>5, <2>6
<1> QED BY <1>2, <1>3 DEF UnloadDevice

(* Every step, reloads aside, is a step of DeviceLife or stutters.         *)
LEMMA StepLife ==
  ASSUME RInv, [Next]_vars, Configs = {}
  PROVE  RInv' /\ LifeStep
<1>1. IInv'
  BY NextInv DEF RInv
<1> SUFFICES MarkedIsStopped' /\ LifeStep
  BY <1>1 DEF RInv
<1>2. reload.pc = "idle" /\ (mgr.pc = "join" => ~pvt[Head(mgr.todo)].must_remove)
  BY DEF RInv, MarkedIsStopped
<1>3. (\A d \in Devices : pvt'[d] = pvt[d]) => \A d \in Devices : SameThread(pvt'[d], pvt[d])
  BY DEF SameThread
<1>4. CASE UNCHANGED <<list, pvt, reload>> /\ (mgr' = mgr \/ mgr'.pc # "join")
  BY <1>2, <1>3, <1>4, NoLife
<1>5. CASE ManagerTimeout \/ ManagerCommand \/ ManagerListBusy
  <2>1. /\ UNCHANGED <<list, pvt, reload>>
        /\ \/ GoTo("visit", list, "") \/ GoTo("gone", <<>>, "") \/ GoTo("wait", <<>>, "")
           \/ mgr' = mgr
    BY <1>5 DEF ManagerTimeout, ManagerCommand, ManagerListBusy
  <2>2. list \in Seq(Devices) /\ <<>> \in Seq(Devices)
    BY DEF RInv, IInv, TypeOK
  <2>3. mgr' = mgr \/ mgr'.pc # "join"
    BY <2>1, <2>2, GoToTyped
  <2> QED BY <1>4, <2>1, <2>3
<1>6. CASE Manager
  BY <1>5, <1>6, VisitLife, SweepLife DEF Manager
<1>7. ~Reloading
  BY <1>2 DEF Reloading, ReloadStart, ReloadPhase, ReloadDone, ReloadMark, ReloadKnown,
              ReloadNew, ReloadRemove
<1>8. CASE Unloading
  <2>1. CASE UnloadStart \/ UnloadManager
    BY <1>4, <2>1 DEF UnloadStart, UnloadManager
  <2> QED BY <1>8, <2>1, UnloadLife DEF Unloading
<1>9. ASSUME NEW d \in Devices, Request(d) \/ Begins(d) \/ Ends(d) \/ Retrieved(d)
      PROVE  MarkedIsStopped' /\ LifeStep
  <2>1. UNCHANGED <<list, mgr, reload>> /\ \A e \in Devices : SameThread(pvt'[e], pvt[e])
    BY <1>9, ActivityEffect DEF RInv, SameFlag
  <2>2. mgr.pc = "join" => Head(mgr.todo) \in Devices
    BY HeadOfRound DEF RInv, IInv, Phases, JoinPhase
  <2>3. mgr'.pc = "join" => ~pvt'[Head(mgr'.todo)].must_remove
    BY <1>2, <2>1, <2>2 DEF SameThread
  <2> QED BY <1>2, <2>1, <2>3, NoLife
<1>10. ASSUME NEW d \in Devices, JobTerminates(d) \/ MonitorTold(d) \/ MonitorLost(d)
       PROVE  MarkedIsStopped' /\ LifeStep
  <2>1. PICK q \in Pvt :
          /\ pvt' = [pvt EXCEPT ![d] = q] /\ IsFit(q)
          /\ q.must_remove = pvt[d].must_remove
          /\ q.monitor = pvt[d].monitor \/ pvt[d].monitor = "running"
    BY <1>10, MonitorEffect DEF RInv
  <2>2. UNCHANGED <<list, mgr, reload>>
    BY <1>10 DEF JobTerminates, MonitorTold, MonitorLost
  <2>3. q.must_remove => q.monitor = "none"
    BY <2>1 DEF RInv, MarkedIsStopped
  <2>4. pvt'[d] = q /\ \A e \in Devices \ {d} : pvt'[e] = pvt[e]
    BY <2>1, OneDevice DEF RInv, IInv, TypeOK
  <2>5. mgr.pc = "join" => Head(mgr.todo) \in Devices
    BY HeadOfRound DEF RInv, IInv, Phases, JoinPhase
  <2>6. mgr'.pc = "join" => ~pvt'[Head(mgr'.todo)].must_remove
    BY <1>2, <2>1, <2>2, <2>4, <2>5
  <2> QED BY <2>1, <2>2, <2>3, <2>6, OneLife
<1>11. CASE UNCHANGED vars
  BY <1>4, <1>11 DEF vars
<1> QED BY <1>6, <1>7, <1>8, <1>9, <1>10, <1>11 DEF Next

(* ImplementsLife: when the configuration is never reloaded, whatever is   *)
(* requested, lost or unloaded, every device is created stopped, runs      *)
(* under one monitor thread at a time, and is freed only when none is      *)
(* left.                                                                   *)
THEOREM ManagerImplementsLife ==
  ASSUME Configs = {}
  PROVE  Spec => ImplementsLife
<1>1. Init => RInv /\ Life!Init
  BY InitLife
<1>2. RInv /\ [Next]_vars => RInv'
  BY StepLife
<1>3. RInv /\ [Next]_vars => [Life!Next]_([d \in Devices |-> LifeOf(d)])
  BY StepLife, LifeStepAllowed
<1> QED BY <1>1, <1>2, <1>3, PTL DEF Spec, ImplementsLife, Life!Spec
=============================================================================
