----------------------------- MODULE ChannelLock -----------------------------
(***************************************************************************)
(* The locks between Asterisk's channels and the devices.  A thread of     *)
(* Asterisk holds the lock of a channel and calls back into the driver;    *)
(* the serializer of a device holds the lock of the device, frees calls    *)
(* and queues frames on channels; the module's end holds the lock of the   *)
(* device list and waits for the devices to finish.                        *)
(*                                                                         *)
(* Media callbacks (channel_read, channel_write, channel_func_read,        *)
(* channel_func_write) find their call with channel_lock_pvt.  The others  *)
(* (channel_call, channel_answer, channel_indicate, channel_hangup) follow *)
(* the pointer in the channel and then wait for the device; Direct says    *)
(* whether they are made.                                                  *)
(*                                                                         *)
(* External, from Asterisk: a callback is made with the channel locked;    *)
(* CHANNEL_DEADLOCK_AVOIDANCE lets go of that lock for a moment; queueing  *)
(* a frame takes it.                                                       *)
(***************************************************************************)
EXTENDS Naturals, FiniteSets

CONSTANTS
  Chans,      \* channels, and the threads of Asterisk that serve them
  Devs,       \* devices, and their serializers
  Calls,      \* storage of calls (struct cpvt), used again after it is freed
  Manager,    \* the thread that ends the module
  None,
  Direct,     \* whether callbacks that follow the channel's pointer are made
  MaxTurns,   \* bound: callbacks on a channel
  MaxTasks    \* bound: tasks of a serializer

ASSUME LockAssumption ==
  /\ MaxTurns \in Nat /\ MaxTasks \in Nat
  /\ Direct \in BOOLEAN
  /\ None \notin Chans \union Devs \union Calls \union {Manager}
  /\ Manager \notin Chans \union Devs
  /\ Chans \intersect Devs = {}
  /\ None \notin [dev : Devs, chan : Chans \union {None}]

VARIABLES
  writer, readers,   \* the lock of gpublic->devices
  devs,              \* the devices in that list
  dlock,             \* owner of pvt->lock
  clock,             \* owner of the lock of a channel
  call,              \* storage: [dev, chan], or None when it is free
  tech,              \* ast_channel_tech_pvt
  cb,                \* the callback on a channel: [pc, todo, busy, pvt, cpvt]
  ser,               \* the serializer: [pc, chan]
  ending,            \* devices whose monitor is told to end
  turns, tasks

vars == <<writer, readers, devs, dlock, clock, call, tech, cb, ser, ending, turns, tasks>>

Idle == [pc |-> "idle", todo |-> {}, busy |-> FALSE, pvt |-> None, cpvt |-> None]

(* The configuration names any of the devices.                             *)
Init ==
  /\ writer = None /\ readers = {} /\ devs \in SUBSET Devs
  /\ dlock = [d \in Devs |-> None] /\ clock = [ch \in Chans |-> None]
  /\ call = [c \in Calls |-> None] /\ tech = [ch \in Chans |-> None]
  /\ cb = [ch \in Chans |-> Idle]
  /\ ser = [d \in Devs |-> [pc |-> "idle", chan |-> None]]
  /\ ending = {}
  /\ turns = [ch \in Chans |-> 0] /\ tasks = [d \in Devs |-> 0]

locks == <<writer, readers, dlock, clock>>
state == <<devs, call, tech, ser, ending, tasks>>   \* what callbacks leave alone

-----------------------------------------------------------------------------
(* channel_lock_pvt.                                                       *)

At(ch, pc) == cb[ch].pc = pc

Enter(ch) ==
  /\ At(ch, "idle") /\ turns[ch] < MaxTurns
  /\ clock[ch] = None
  /\ clock' = [clock EXCEPT ![ch] = ch]
  /\ turns' = [turns EXCEPT ![ch] = @ + 1]

EnterMedia(ch) ==
  /\ Enter(ch)
  /\ cb' = [cb EXCEPT ![ch] = [Idle EXCEPT !.pc = "list"]]
  /\ UNCHANGED <<writer, readers, dlock, state>>

(* AST_RWLIST_TRYRDLOCK.                                                   *)
TryList(ch) ==
  /\ At(ch, "list")
  /\ IF writer = None
       THEN /\ readers' = readers \union {ch}
            /\ cb' = [cb EXCEPT ![ch] = [Idle EXCEPT !.pc = "look", !.todo = devs]]
       ELSE /\ cb' = [cb EXCEPT ![ch].pc = "yield"]
            /\ UNCHANGED readers
  /\ UNCHANGED <<writer, dlock, clock, turns, state>>

(* ast_mutex_trylock of the next device.                                   *)
TryDevice(ch, d) ==
  /\ At(ch, "look") /\ d \in cb[ch].todo
  /\ IF dlock[d] = None
       THEN /\ dlock' = [dlock EXCEPT ![d] = ch]
            /\ cb' = [cb EXCEPT ![ch].pc = "match", ![ch].pvt = d, ![ch].todo = @ \ {d}]
       ELSE /\ cb' = [cb EXCEPT ![ch].busy = TRUE, ![ch].todo = @ \ {d}]
            /\ UNCHANGED dlock
  /\ UNCHANGED <<writer, readers, clock, turns, state>>

Matches(ch, c) == call[c] = [dev |-> cb[ch].pvt, chan |-> ch] /\ tech[ch] = c

(* Seeded fault: takes any call of the device for its own.                 *)
MatchLoose(ch) ==
  /\ At(ch, "match")
  /\ LET d == cb[ch].pvt
         found == {c \in Calls : call[c] # None /\ call[c].dev = d}
     IN  IF found # {}
           THEN /\ \E c \in found : cb' = [cb EXCEPT ![ch].pc = "body", ![ch].cpvt = c]
                /\ readers' = readers \ {ch}
                /\ UNCHANGED dlock
           ELSE /\ cb' = [cb EXCEPT ![ch].pc = "look"]
                /\ dlock' = [dlock EXCEPT ![d] = None]
                /\ UNCHANGED readers
  /\ UNCHANGED <<writer, clock, turns, state>>

(* The calls of the device; with the right one, the list is let go of.     *)
Match(ch) ==
  /\ At(ch, "match")
  /\ LET d == cb[ch].pvt
         found == {c \in Calls : Matches(ch, c)}
     IN  IF found # {}
           THEN /\ \E c \in found : cb' = [cb EXCEPT ![ch].pc = "body", ![ch].cpvt = c]
                /\ readers' = readers \ {ch}
                /\ UNCHANGED dlock
           ELSE /\ cb' = [cb EXCEPT ![ch].pc = "look"]
                /\ dlock' = [dlock EXCEPT ![d] = None]
                /\ UNCHANGED readers
  /\ UNCHANGED <<writer, clock, turns, state>>

(* No call: another round if a device was busy, or none at all.            *)
ListDone(ch) ==
  /\ At(ch, "look") /\ cb[ch].todo = {}
  /\ readers' = readers \ {ch}
  /\ cb' = [cb EXCEPT ![ch] = [Idle EXCEPT !.pc = IF cb[ch].busy THEN "yield" ELSE "return"]]
  /\ UNCHANGED <<writer, dlock, clock, turns, state>>

(* Seeded fault: waits with the channel locked.                            *)
YieldLocked(ch) ==
  /\ At(ch, "yield")
  /\ cb' = [cb EXCEPT ![ch].pc = "list"]
  /\ UNCHANGED <<locks, turns, state>>

(* CHANNEL_DEADLOCK_AVOIDANCE: lets go of the channel, and takes it again. *)
Yield(ch) ==
  /\ At(ch, "yield")
  /\ clock' = [clock EXCEPT ![ch] = None]
  /\ cb' = [cb EXCEPT ![ch].pc = "relock"]
  /\ UNCHANGED <<writer, readers, dlock, turns, state>>

Relock(ch) ==
  /\ At(ch, "relock") /\ clock[ch] = None
  /\ clock' = [clock EXCEPT ![ch] = ch]
  /\ cb' = [cb EXCEPT ![ch].pc = "list"]
  /\ UNCHANGED <<writer, readers, dlock, turns, state>>

(* Seeded fault: the device stays locked.                                  *)
BodyKeepsLock(ch) ==
  /\ At(ch, "body")
  /\ cb' = [cb EXCEPT ![ch] = [Idle EXCEPT !.pc = "return"]]
  /\ UNCHANGED <<locks, turns, state>>

(* The body of a media callback, and pvt_unlock.                           *)
Body(ch) ==
  /\ At(ch, "body")
  /\ dlock' = [dlock EXCEPT ![cb[ch].pvt] = None]
  /\ cb' = [cb EXCEPT ![ch] = [Idle EXCEPT !.pc = "return"]]
  /\ UNCHANGED <<writer, readers, clock, turns, state>>

Return(ch) ==
  /\ At(ch, "return")
  /\ clock' = [clock EXCEPT ![ch] = None]
  /\ cb' = [cb EXCEPT ![ch] = Idle]
  /\ UNCHANGED <<writer, readers, dlock, turns, state>>

-----------------------------------------------------------------------------
(* channel_call, channel_answer, channel_indicate and channel_hangup.      *)

EnterDirect(ch) ==
  /\ Direct
  /\ Enter(ch)
  /\ cb' = [cb EXCEPT ![ch] = IF tech[ch] = None THEN [Idle EXCEPT !.pc = "return"]
                              ELSE [Idle EXCEPT !.pc = "follow", !.cpvt = tech[ch]]]
  /\ UNCHANGED <<writer, readers, dlock, state>>

(* cpvt->channel and cpvt->pvt are read, without the device's lock.        *)
Follow(ch) ==
  /\ At(ch, "follow")
  /\ LET c == call[cb[ch].cpvt]
     IN  cb' = [cb EXCEPT ![ch] = IF c # None /\ c.chan = ch
                                    THEN [@ EXCEPT !.pc = "wait", !.pvt = c.dev]
                                    ELSE [Idle EXCEPT !.pc = "return"]]
  /\ UNCHANGED <<locks, turns, state>>

(* SCOPED_MUTEX(pvt_lock, &pvt->lock).                                     *)
WaitDevice(ch) ==
  /\ At(ch, "wait") /\ dlock[cb[ch].pvt] = None
  /\ dlock' = [dlock EXCEPT ![cb[ch].pvt] = ch]
  /\ cb' = [cb EXCEPT ![ch].pc = "use"]
  /\ UNCHANGED <<writer, readers, clock, turns, state>>

(* channel_hangup forgets the call, the others only use it.                *)
Use(ch, hangup) ==
  /\ At(ch, "use")
  /\ IF hangup
       THEN /\ call' = [call EXCEPT ![cb[ch].cpvt] = IF @ = None THEN None ELSE [@ EXCEPT !.chan = None]]
            /\ tech' = [tech EXCEPT ![ch] = None]
       ELSE UNCHANGED <<call, tech>>
  /\ dlock' = [dlock EXCEPT ![cb[ch].pvt] = None]
  /\ cb' = [cb EXCEPT ![ch] = [Idle EXCEPT !.pc = "return"]]
  /\ UNCHANGED <<writer, readers, clock, turns, devs, ser, ending, tasks>>

-----------------------------------------------------------------------------
(* The serializer of a device.                                             *)

Task(d) ==
  /\ ser[d].pc = "idle" /\ d \in devs
  /\ d \in ending \/ tasks[d] < MaxTasks
  /\ dlock[d] = None
  /\ dlock' = [dlock EXCEPT ![d] = d]
  /\ ser' = [ser EXCEPT ![d].pc = "task"]
  /\ tasks' = [tasks EXCEPT ![d] = IF d \in ending THEN @ ELSE @ + 1]
  /\ UNCHANGED <<writer, readers, clock, devs, call, tech, cb, ending, turns>>

OnDevice(d) == {c \in Calls : call[c] # None /\ call[c].dev = d}

(* A call comes: cpvt_alloc and channel_new, on a channel of its own.      *)
NewCall(d, c, ch) ==
  /\ ser[d].pc = "task" /\ d \notin ending
  /\ call[c] = None /\ tech[ch] = None /\ At(ch, "idle") /\ clock[ch] = None
  /\ \A x \in Calls : call[x] # None => call[x].chan # ch
  /\ call' = [call EXCEPT ![c] = [dev |-> d, chan |-> ch]]
  /\ tech' = [tech EXCEPT ![ch] = c]
  /\ ser' = [ser EXCEPT ![d].pc = "done"]
  /\ UNCHANGED <<locks, devs, cb, ending, turns, tasks>>

(* A call ends: cpvt_change_state to CALL_STATE_RELEASED takes the pointer *)
(* out of the channel, frees the call and queues a hangup.                 *)
Release(d, c) ==
  /\ ser[d].pc = "task" /\ c \in OnDevice(d)
  /\ tech' = IF call[c].chan = None THEN tech ELSE [tech EXCEPT ![call[c].chan] = None]
  /\ call' = [call EXCEPT ![c] = None]
  /\ ser' = [ser EXCEPT ![d] = IF call[c].chan = None THEN [@ EXCEPT !.pc = IF d \in ending THEN "task" ELSE "done"]
                               ELSE [pc |-> "queue", chan |-> call[c].chan]]
  /\ UNCHANGED <<locks, devs, cb, ending, turns, tasks>>

(* A call changes state: cpvt_control queues a frame.                      *)
Notify(d, c) ==
  /\ ser[d].pc = "task" /\ d \notin ending
  /\ c \in OnDevice(d) /\ call[c].chan # None
  /\ ser' = [ser EXCEPT ![d] = [pc |-> "queue", chan |-> call[c].chan]]
  /\ UNCHANGED <<locks, devs, call, tech, cb, ending, turns, tasks>>

(* ast_queue_hangup, ast_queue_control: the lock of the channel, briefly.  *)
Queue(d) ==
  /\ ser[d].pc = "queue"
  /\ clock[ser[d].chan] = None
  /\ ser' = [ser EXCEPT ![d] = [pc |-> IF d \in ending THEN "task" ELSE "done", chan |-> None]]
  /\ UNCHANGED <<locks, devs, call, tech, cb, ending, turns, tasks>>

(* Nothing (more) to do.  pvt_disconnect has released all calls.           *)
TaskDone(d) ==
  /\ ser[d].pc = "done" \/ (ser[d].pc = "task" /\ (d \in ending => OnDevice(d) = {}))
  /\ dlock' = [dlock EXCEPT ![d] = None]
  /\ ser' = [ser EXCEPT ![d].pc = IF d \in ending /\ OnDevice(d) = {} THEN "end" ELSE "idle"]
  /\ UNCHANGED <<writer, readers, clock, devs, call, tech, cb, ending, turns, tasks>>

-----------------------------------------------------------------------------
(* devices_destroy, with the list locked: every device's monitor is told   *)
(* to end and joined, and the device is freed.                             *)

LockList ==
  /\ devs # {}
  /\ writer = None /\ readers = {}
  /\ writer' = Manager
  /\ UNCHANGED <<readers, dlock, clock, devs, call, tech, cb, ser, ending, turns, tasks>>

StopDevice(d) ==
  /\ writer = Manager /\ d \in devs \ ending
  /\ dlock[d] = None
  /\ ending' = ending \union {d}
  /\ UNCHANGED <<locks, devs, call, tech, cb, ser, turns, tasks>>

FreeDevice(d) ==
  /\ writer = Manager /\ d \in devs /\ ser[d].pc = "end"
  /\ dlock[d] = None
  /\ devs' = devs \ {d}
  /\ UNCHANGED <<locks, call, tech, cb, ser, ending, turns, tasks>>

UnlockList ==
  /\ writer = Manager /\ devs = {}
  /\ writer' = None
  /\ UNCHANGED <<readers, dlock, clock, devs, call, tech, cb, ser, ending, turns, tasks>>

-----------------------------------------------------------------------------
Callback(ch) ==
  \/ TryList(ch) \/ (\E d \in Devs : TryDevice(ch, d)) \/ Match(ch) \/ ListDone(ch)
  \/ Yield(ch) \/ Relock(ch) \/ Body(ch) \/ Return(ch)
  \/ Follow(ch) \/ WaitDevice(ch) \/ (\E h \in BOOLEAN : Use(ch, h))

Serializer(d) ==
  \/ Task(d) \/ (\E c \in Calls, ch \in Chans : NewCall(d, c, ch))
  \/ (\E c \in Calls : Release(d, c) \/ Notify(d, c)) \/ Queue(d) \/ TaskDone(d)

Ends == (\E d \in Devs : StopDevice(d) \/ FreeDevice(d)) \/ UnlockList

Next ==
  \/ \E ch \in Chans : EnterMedia(ch) \/ EnterDirect(ch) \/ Callback(ch)
  \/ \E d \in Devs : Serializer(d)
  \/ LockList \/ Ends

Spec == Init /\ [][Next]_vars

(* Every thread goes on when it can.  Serializers and the manager sleep on *)
(* mutexes that callbacks give up again and again: a sleeper gets one in   *)
(* the end, which is strong fairness.  Callbacks only try.                 *)
Fairness ==
  /\ \A ch \in Chans : WF_vars(Callback(ch))
  /\ \A d \in Devs : SF_vars(Serializer(d))
  /\ SF_vars(Ends)

FairSpec == Spec /\ Fairness

-----------------------------------------------------------------------------
Threads == Chans \union Devs \union {Manager}

TypeOK ==
  /\ writer \in {None, Manager} /\ readers \subseteq Chans /\ devs \subseteq Devs
  /\ dlock \in [Devs -> Threads \union {None}] /\ clock \in [Chans -> Chans \union {None}]
  /\ call \in [Calls -> [dev : Devs, chan : Chans \union {None}] \union {None}]
  /\ tech \in [Chans -> Calls \union {None}]
  /\ ending \subseteq Devs
  /\ writer = None \/ readers = {}

(* A callback uses a call that is alive and its own, on a device that is   *)
(* alive, for as long as it uses it.  channel_hangup is meant to be called *)
(* "for cleanup after remote side alreay terminate call, CEND received and *)
(* cpvt destroyed" (channel.c:312), and a device pointer is not kept over  *)
(* a wait: "modem release can free both" (channel.c:41).                   *)
UsesLiveCall ==
  \A ch \in Chans :
    cb[ch].pc \in {"body", "follow", "use"} =>
      LET c == call[cb[ch].cpvt]
      IN  /\ c # None
          /\ c.chan = ch /\ c.dev \in devs
          /\ cb[ch].pc # "follow" => c.dev = cb[ch].pvt

(* A callback that has the lock of a device uses a call of that device     *)
(* that is alive and its own: a media callback because it has looked it up *)
(* under that lock (channel_lock_pvt), one that followed the pointer       *)
(* because the serializer that frees its call does not give the lock back  *)
(* before it has had the channel's (channel_enqueue_hangup).               *)
LockedUsesLive ==
  \A ch \in Chans :
    cb[ch].pc \in {"body", "use"} =>
      LET c == call[cb[ch].cpvt]
      IN  c # None /\ c.chan = ch /\ c.dev \in devs /\ c.dev = cb[ch].pvt

(* Nobody holds a lock that nobody will give back: an idle thread has none.*)
(* test/channel_lock_harness.h: "Device mutex orphaned after callback      *)
(* owner exited".                                                          *)
NoOrphanedLock ==
  /\ \A ch \in Chans : cb[ch].pc = "idle" =>
       clock[ch] # ch /\ ch \notin readers /\ \A d \in Devs : dlock[d] # ch
  /\ \A d \in Devs : ser[d].pc \in {"idle", "end"} => dlock[d] # d

(* A callback returns, whatever the devices and the end of the module do.  *)
CallbacksReturn == \A ch \in Chans : ~At(ch, "idle") ~> At(ch, "idle")

(* The end of the module does not wait for ever with the list locked.      *)
UnloadEnds == (writer = Manager) ~> (writer = None)
=============================================================================
