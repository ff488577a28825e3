------------------------------- MODULE Calls -------------------------------
(***************************************************************************)
(* The calls of one connected device: cpvt.c, the call side of channel.c   *)
(* and of at_response.c.                                                   *)
(*                                                                         *)
(* A call is known to the modem by an index, to the driver by a struct     *)
(* cpvt and to Asterisk by a channel; the three come and go separately.    *)
(* The driver learns of the modem's view from reports (^DSCI, +QIND,       *)
(* +CLCC) and from the results of its own commands, Asterisk's view from   *)
(* the callbacks of the channel.  All of it happens under pvt->lock: one   *)
(* action here is one critical section.                                    *)
(*                                                                         *)
(* The command queue is reduced to the order of the tasks that concern     *)
(* calls (module AtQueue has the rest).  A modem reports calls of its own  *)
(* at any time, within what Plausible says: a call that comes in or waits  *)
(* is incoming and finds room in the list, one that is dialled or alerts   *)
(* is outgoing, and only a call that was answered is put on hold.          *)
(***************************************************************************)
EXTENDS Naturals, Sequences, FiniteSets

CONSTANTS
  MaxCalls,      \* bound: calls at a time
  MaxTasks,      \* bound: tasks in the queue
  MaxIdx,        \* MAX_CALL_IDX, 31 in the code
  CountValues,   \* values of a uint8_t counter, 256 in the code
  Indices,       \* call indices the modem uses
  Reported,      \* call states the modem reports
  Multi,         \* values of <mpty> in a report, among "none", "no", "yes"
  Options,       \* dial options, among "", "holdother", "conference"
  Locals,        \* whether a requested channel may be a local (text) one
  Uac,           \* audio over ALSA instead of a tty
  Multiparty,    \* the setting multiparty
  Enabled,       \* values of pvt_enabled when a call comes in
  Failures,      \* what may fail, among "channel", "pbx", "capture"
  LateReleases,  \* a call may be reported as released before its ATD is answered
  Rerings        \* a call that waits may be reported as incoming

ACTIVE   == "active"
ONHOLD   == "held"
DIALING  == "dialing"
ALERTING == "alerting"
INCOMING == "incoming"
WAITING  == "waiting"
RELEASED == "released"
INIT     == "init"

call_state_t == {ACTIVE, ONHOLD, DIALING, ALERTING, INCOMING, WAITING, RELEASED, INIT}

CallIds == 1 .. MaxCalls
Sys     == 0             \* pvt->sys_chan, as the owner of a task

ASSUME CallsAssumption ==
  /\ MaxCalls \in Nat \ {0} /\ MaxTasks \in Nat /\ MaxIdx \in Nat
  /\ CountValues \in Nat /\ CountValues > MaxCalls
  /\ Indices \subseteq Nat
  /\ Reported \subseteq call_state_t \ {INIT}
  /\ Multi \subseteq {"none", "no", "yes"}
  /\ Options \subseteq {"", "holdother", "conference"}
  /\ Locals \subseteq BOOLEAN /\ Enabled \subseteq BOOLEAN
  /\ Uac \in BOOLEAN /\ Multiparty \in BOOLEAN
  /\ LateReleases \in BOOLEAN /\ Rerings \in BOOLEAN
  /\ Failures \subseteq {"channel", "pbx", "capture"}

VARIABLES
  dev,     \* the device: a record of Device
  config   \* how it is configured: [uac, multiparty], for as long as it runs

vars == <<dev, config>>

(* A struct cpvt, and of its channel what is attached to it.               *)
Call ==
  [idx    : Nat,                        \* call_idx
   dir    : {"in", "out"},
   state  : call_state_t,
   chan   : BOOLEAN,                    \* a channel is attached
   fd     : {"none", "audio", "pipe"},  \* what fd 0 of the channel polls
   hup    : BOOLEAN,                    \* a hangup is queued on the channel
   need   : BOOLEAN,                    \* CALL_FLAG_NEED_HANGUP
   act    : BOOLEAN,                    \* CALL_FLAG_ACTIVATED
   master : BOOLEAN,                    \* CALL_FLAG_MASTER
   local  : BOOLEAN,                    \* CALL_FLAG_LOCAL_CHANNEL
   opts   : {"", "holdother", "conference"},
   placed : BOOLEAN,                    \* history: dialled here, or taken as incoming
   asked  : BOOLEAN]                    \* history: the modem was told to end it

NoCall ==
  [idx |-> 0, dir |-> "out", state |-> RELEASED, chan |-> FALSE, fd |-> "none",
   hup |-> FALSE, need |-> FALSE, act |-> FALSE, master |-> FALSE, local |-> FALSE,
   opts |-> "", placed |-> FALSE, asked |-> FALSE]

Tasks == [cmds : {<<"D">>, <<"CHLD_2", "D">>, <<"A">>, <<"CHLD_2x">>, <<"CHLD_3">>,
                  <<"HUP">>, <<"CHLD_1x">>},
          of : CallIds \union {Sys}]

Device ==
  [chans   : Seq(CallIds),              \* pvt->chans
   call    : [CallIds -> Call],
   chansno : 0 .. CountValues - 1,
   count   : [call_state_t -> 0 .. CountValues - 1],   \* chan_count
   ring : BOOLEAN, dialing : BOOLEAN, cwaiting : BOOLEAN,
   buf     : BOOLEAN,                   \* silence_buf, write_buf, a_timer
   capture : BOOLEAN,                   \* the ALSA capture runs
   mix     : SUBSET CallIds,            \* streams attached to write_mixb
   queue   : Seq(Tasks),
   sys     : call_state_t \union {"freed"}]   \* sys_chan.state

Listed(s) == {s.chans[i] : i \in DOMAIN s.chans}
Unused(s) == CallIds \ Listed(s)
LeastOf(S) == CHOOSE x \in S : \A y \in S : x <= y

Mixing == Multiparty /\ ~Uac

(* The counters are unsigned and wrap.                                     *)
Inc(n) == (n + 1) % CountValues
Dec(n) == (n + CountValues - 1) % CountValues

-----------------------------------------------------------------------------
(* Looking up calls (chan_quectel.c).                                      *)

FirstIdx(s) == 1   \* seeded fault: the indices in use are not looked at

pvt_get_pseudo_call_idx(s) ==
  LET free == {i \in 1 .. MaxIdx : \A c \in Listed(s) : s.call[c].idx # i}
  IN  IF free = {} THEN 0 ELSE LeastOf(free)

(* pvt_channel_find_by_call_idx, as a set of none or one.                  *)
FindByIdx(s, idx) ==
  LET at == {i \in DOMAIN s.chans : s.call[s.chans[i]].idx = idx}
  IN  IF at = {} THEN {} ELSE {s.chans[LeastOf(at)]}

(* pvt_channel_find_last_initialized: CPVT_IS_SOUND_SOURCE includes INIT.  *)
FindLastInitialized(s) ==
  LET at == {i \in DOMAIN s.chans : s.call[s.chans[i]].state # WAITING}
  IN  IF at = {} THEN {} ELSE {s.chans[CHOOSE i \in at : \A j \in at : j <= i]}

(* is_dial_possible2, with the call to leave aside.                        *)
is_dial_possible2(s, opts, ignore) ==
  LET in(st) == {c \in Listed(s) : s.call[c].state = st}
  IN  /\ ~s.ring /\ ~s.cwaiting /\ ~s.dialing
      /\ in(INIT) \subseteq ignore
      /\ \A st \in {DIALING, ALERTING, INCOMING, WAITING} : in(st) = {}
      /\ opts = "" => in(ACTIVE) = {} /\ in(ONHOLD) = {}
      /\ in(ACTIVE) = {} \/ in(ONHOLD) = {}

-----------------------------------------------------------------------------
(* Commands.                                                               *)

(* at_queue_insert behind the head, for the call or sys_chan that owns it. *)
Insert(s, of, cmds) ==
  LET t == [cmds |-> cmds, of |-> of]
  IN  [s EXCEPT !.queue = IF @ = <<>> THEN <<t>> ELSE <<Head(@), t>> \o Tail(@)]

(* at_enqueue_hangup.  AT+CHLD=1x is written as the constant "AT+CHLD=1%d" *)
(* and names no call.                                                      *)
at_enqueue_hangup(s, of, idx) ==
  LET several == /\ \/ of = Sys
                    \/ s.call[of].dir = "in"
                    \/ s.call[of].state \notin {INIT, DIALING}
                 /\ s.chansno > 1
  IN  IF several
        THEN Insert(s, of, <<"CHLD_1x">>)
        ELSE [Insert(s, of, <<"HUP">>) EXCEPT
                !.call = [c \in CallIds |->
                  IF c \in Listed(s) /\ s.call[c].idx = idx
                    THEN [s.call[c] EXCEPT !.asked = TRUE] ELSE s.call[c]]]

(* Seeded fault: NEED_HANGUP only when ATD has been answered.              *)
DialWithoutNeed(s, c) == [Insert(s, c, <<"D">>) EXCEPT !.call[c].placed = TRUE]

at_enqueue_dial(s, c) ==
  [Insert(s, c, IF s.count[ACTIVE] > 0 /\ s.call[c].opts # ""
                  THEN <<"CHLD_2", "D">> ELSE <<"D">>)
     EXCEPT !.call[c].need = TRUE, !.call[c].placed = TRUE]

-----------------------------------------------------------------------------
(* The life of a struct cpvt (cpvt.c).                                     *)

(* cpvt_alloc in channel_new, with the channel it is attached to.          *)
cpvt_alloc(s, c, idx, dir, local) ==
  [s EXCEPT
     !.chans = Append(@, c),
     !.call[c] = [NoCall EXCEPT !.idx = idx, !.dir = dir, !.state = INIT, !.chan = TRUE,
                                !.fd = IF Uac THEN "none" ELSE "audio", !.local = local],
     !.buf = TRUE,
     !.mix = IF s.chansno = 0 /\ Mixing THEN {} ELSE @,
     !.chansno = Inc(@),
     !.count[INIT] = Inc(@)]

(* AST_LIST_REMOVE: the list without the entry of c.                       *)
Unlinked(chans, c) ==
  LET at == {i \in DOMAIN chans : chans[i] = c}
      i  == LeastOf(at)
  IN  IF at = {} THEN chans
      ELSE [j \in 1 .. Len(chans) - 1 |-> chans[IF j < i THEN j ELSE j + 1]]

(* Seeded fault: the counter of the state stays.                           *)
DecreaseTotalOnly(s, c) == [s EXCEPT !.chans = Unlinked(@, c), !.chansno = Dec(@)]

decrease_chan_counters(s, c) ==
  [s EXCEPT !.chans = Unlinked(@, c), !.chansno = Dec(@), !.count[s.call[c].state] = Dec(@)]

(* The tasks of a call that goes pass to sys_chan.                         *)
relink_to_sys_chan(s, c) ==
  [s EXCEPT !.queue =
     [i \in DOMAIN @ |-> IF @[i].of = c THEN [@[i] EXCEPT !.of = Sys] ELSE @[i]]]

(* cpvt_free: after the last call the buffers go, too.                     *)
cpvt_free(s, c) ==
  LET t == relink_to_sys_chan(decrease_chan_counters(s, c), c)
  IN  [t EXCEPT !.call[c] = NoCall, !.buf = @ /\ t.chansno # 0]

(* Seeded fault: any call stops the audio.                                 *)
AnyCallStops(s, c) == Uac

(* A late hold or release of the previous master must not stop the audio.  *)
StopsAudio(s, c) == Uac /\ s.call[c].master
mixb_detach(s, c) == IF Mixing THEN s.mix \ {c} ELSE s.mix

cpvt_call_disactivate(s, c) ==
  IF ~s.call[c].act THEN s
  ELSE [s EXCEPT
          !.capture = @ /\ ~StopsAudio(s, c),
          !.mix = mixb_detach(s, c),
          !.call[c].fd = IF Uac THEN "none" ELSE @,
          !.call[c].act = FALSE, !.call[c].master = FALSE]

(* The first loop of cpvt_call_activate, over the calls but c.             *)
OthersYield(s, c) ==
  [d \in CallIds |->
     LET x == s.call[d]
     IN  IF d = c \/ d \notin Listed(s) THEN x
         ELSE [x EXCEPT !.master = FALSE,
                        !.fd = IF ~x.chan THEN @
                               ELSE IF Uac THEN "none"
                               ELSE IF x.act THEN "pipe" ELSE @]]

(* Seeded fault: the call goes on without audio.                           *)
FailedSilently(s, c) ==
  [s EXCEPT !.capture = FALSE, !.call[c].fd = "none",
            !.call[c].act = FALSE, !.call[c].master = FALSE]

(* The capture does not start: the call cannot go on.                      *)
ActivationFailed(s, c) ==
  [s EXCEPT !.capture = FALSE, !.call[c].fd = "none", !.call[c].hup = TRUE,
            !.call[c].act = FALSE, !.call[c].master = FALSE]

(* cpvt_call_activate: the states it may lead to.  pcm_start_capture of a  *)
(* running capture does nothing and cannot fail.                           *)
cpvt_call_activate(s, c) ==
  LET replacing == \E d \in Listed(s) \ {c} : s.call[d].master
      running   == s.capture /\ ~replacing
      yielded   == [s EXCEPT !.call = OthersYield(s, c),
                             !.mix = IF Mixing /\ ~s.call[c].act THEN @ \union {c} ELSE @]
      started   == [yielded EXCEPT !.capture = Uac, !.call[c].fd = "audio",
                                   !.call[c].act = TRUE, !.call[c].master = TRUE]
  IN  IF s.call[c].master \/ s.call[c].local THEN {s}
      ELSE {started} \union (IF Uac /\ ~running /\ "capture" \in Failures
                               THEN {ActivationFailed(yielded, c)} ELSE {})

(* pvt_update_state_flags.                                                 *)
UpdateFlags(s, old, new) ==
  LET ends == new \in {ACTIVE, RELEASED}
  IN  [s EXCEPT !.count = [s.count EXCEPT ![old] = Dec(@), ![new] = Inc(@)],
                !.dialing  = @ /\ ~(ends /\ old \in {INIT, DIALING, ALERTING}),
                !.ring     = @ /\ ~(ends /\ old = INCOMING),
                !.cwaiting = @ /\ ~(ends /\ old = WAITING)]

(* change_state_no_channel.                                                *)
ChangeDetached(s, c, new) ==
  CASE new = RELEASED -> cpvt_free(s, c)
    [] new = ACTIVE   -> s
    [] OTHER          -> at_enqueue_hangup(s, Sys, s.call[c].idx)

(* change_state, for a call with a channel.                                *)
ChangeAttached(s, c, new) ==
  CASE new = ONHOLD   -> {cpvt_call_disactivate(s, c)}
    [] new = RELEASED -> {cpvt_free(cpvt_call_disactivate(s, c), c)}
    [] new = WAITING  -> {s}
    [] OTHER          -> cpvt_call_activate(s, c)

(* cpvt_change_state.                                                      *)
cpvt_change_state(s, c, new) ==
  LET t == [UpdateFlags(s, s.call[c].state, new) EXCEPT !.call[c].state = new]
  IN  IF new = s.call[c].state THEN {s}
      ELSE IF s.call[c].chan THEN ChangeAttached(t, c, new)
      ELSE {ChangeDetached(t, c, new)}

(* The same for sys_chan, when a task of a freed call was passed to it:    *)
(* sys_chan is no call of the list, but the counters change.               *)
ChangeSys(s, new) ==
  LET t == [UpdateFlags(s, s.sys, new) EXCEPT !.sys = new]
  IN  IF new = s.sys THEN s
      ELSE IF new = RELEASED THEN [t EXCEPT !.sys = "freed"]
      ELSE at_enqueue_hangup(t, Sys, 0)

-----------------------------------------------------------------------------
(* Callbacks of the channel (channel.c).                                   *)

Step(S) == \E s \in S : Len(s.queue) <= MaxTasks /\ dev' = s

(* channel_request.                                                        *)
Request ==
  \E opts \in Options, local \in Locals :
    /\ Unused(dev) # {}
    /\ is_dial_possible2(dev, opts, {})
    /\ Step({cpvt_alloc(dev, LeastOf(Unused(dev)), pvt_get_pseudo_call_idx(dev), "out", local)})

(* channel_call.  It refuses when another call has begun since the channel *)
(* was requested.                                                          *)
Dial(c) ==
  \E opts \in Options :
    /\ c \in Listed(dev) /\ dev.call[c].chan
    /\ dev.call[c].dir = "out" /\ dev.call[c].state = INIT /\ ~dev.call[c].placed
    /\ is_dial_possible2(dev, opts, {c})
    /\ Step({at_enqueue_dial([dev EXCEPT !.call[c].opts = opts], c)})

(* channel_hangup of a channel with a call.                                *)
Hangup(c) ==
  /\ c \in Listed(dev) /\ dev.call[c].chan
  /\ LET s == IF dev.call[c].need
                THEN [at_enqueue_hangup(dev, c, dev.call[c].idx) EXCEPT !.call[c].need = FALSE]
                ELSE dev
     IN  Step({[cpvt_call_disactivate(s, c) EXCEPT !.call[c].chan = FALSE,
                                                   !.call[c].fd = "none", !.call[c].hup = FALSE]})

(* channel_answer.                                                         *)
Answer(c) ==
  /\ c \in Listed(dev) /\ dev.call[c].chan /\ dev.call[c].dir = "in"
  /\ \/ dev.call[c].state = INCOMING /\ Step({Insert(dev, c, <<"A">>)})
     \/ dev.call[c].state = WAITING  /\ Step({Insert(dev, c, <<"CHLD_2x">>)})

(* channel_func_write: CHANNEL(callstate)=active.                          *)
Activate(c) ==
  /\ c \in Listed(dev) /\ dev.call[c].chan /\ dev.call[c].state = ONHOLD
  /\ Step({Insert(dev, c, <<"CHLD_2x">>)})

(* channel_read: the capture is found stopped and cannot be restarted      *)
(* (channel_start_capture).                                                *)
CaptureLost(c) ==
  /\ Uac /\ "capture" \in Failures
  /\ c \in Listed(dev) /\ dev.call[c].chan /\ dev.call[c].master
  /\ Step({[cpvt_call_disactivate(dev, c) EXCEPT !.call[c].hup = TRUE]})

-----------------------------------------------------------------------------
(* Reports of the modem (at_response.c).                                   *)

(* start_pbx for a call that the modem reports in state st.                *)
start_pbx(s, idx, st) ==
  LET c == LeastOf(Unused(s))
      new == {[t EXCEPT !.call[c].need = TRUE, !.call[c].placed = TRUE] :
                t \in cpvt_change_state(cpvt_alloc(s, c, idx, "in", FALSE), c, st)}
  IN  new
      \union (IF "channel" \in Failures THEN {at_enqueue_hangup(s, Sys, idx)} ELSE {})
      \union (IF "pbx" \in Failures THEN {cpvt_free(t, c) : t \in new} ELSE {})

Flags(s, ring, dialing, cwaiting) ==
  [s EXCEPT !.ring = ring, !.dialing = dialing, !.cwaiting = cwaiting]

(* The second half of handle_clcc: what follows a change of state.  found  *)
(* is the call, if there is one.                                           *)
Follows(s, found, idx, dir, st, enabled) ==
  CASE st = DIALING -> {Flags(s, FALSE, TRUE, FALSE)}
    [] st = ALERTING ->
         {LET t == Flags(s, FALSE, TRUE, FALSE)
          IN  IF \E c \in found : s.call[c].opts = "conference"
                THEN Insert(t, CHOOSE c \in found : TRUE, <<"CHLD_3">>) ELSE t}
    [] st = INCOMING ->
         LET t == Flags(s, TRUE, FALSE, FALSE)
         IN  IF enabled THEN start_pbx(t, idx, st) ELSE {t}
    [] st = WAITING ->
         LET t == Flags(s, FALSE, FALSE, TRUE)
         IN  IF enabled /\ dir = "in" THEN start_pbx(t, idx, st) ELSE {t}
    [] st = RELEASED -> {Flags(s, FALSE, FALSE, FALSE)}
    [] OTHER -> {s}

(* The first half, for a call that is found by its index: multiparty calls *)
(* are rejected unless they are configured.                                *)
ClccKnown(s, c, idx, dir, st, mpty, enabled) ==
  IF dir # s.call[c].dir THEN {s}
  ELSE IF mpty = "yes" /\ ~Multiparty THEN {at_enqueue_hangup(s, Sys, idx)}
  ELSE IF st = s.call[c].state THEN {s}
  ELSE UNION {Follows(t, {c} \intersect Listed(t), idx, dir, st, enabled) :
                t \in cpvt_change_state(s, c, st)}

(* ... and for one that is not: a call that is dialled gets its index.     *)
ClccUnknown(s, idx, dir, st, mpty, enabled) ==
  IF st \notin {DIALING, ALERTING} THEN Follows(s, {}, idx, dir, st, enabled)
  ELSE LET found == IF mpty = "yes" /\ ~Multiparty THEN {} ELSE FindLastInitialized(s)
       IN  IF found = {} THEN {at_enqueue_hangup(s, Sys, idx)}
           ELSE LET c == CHOOSE c \in found : TRUE
                    t == [s EXCEPT !.call[c].idx = idx]
                IN  IF st = s.call[c].state THEN {t}
                    ELSE UNION {Follows(u, {c}, idx, dir, st, enabled) :
                                  u \in cpvt_change_state(t, c, st)}

handle_clcc(s, idx, dir, st, mpty, enabled) ==
  LET found == FindByIdx(s, idx)
  IN  IF found = {} THEN ClccUnknown(s, idx, dir, st, mpty, enabled)
      ELSE ClccKnown(s, CHOOSE c \in found : TRUE, idx, dir, st, mpty, enabled)

DialPending(s, c) ==
  \E i \in DOMAIN s.queue : s.queue[i].of = c /\ s.queue[i].cmds[Len(s.queue[i].cmds)] = "D"

(* The reports a modem makes.  LateReleases and Rerings widen them to the  *)
(* orders in which the code goes wrong (README, Disagreements); the other  *)
(* conjuncts hold of every modem here: directions fit the states, a call   *)
(* is held after it was answered, and a new one finds room (MaxCalls).     *)
Plausible(s, idx, dir, st) ==
  /\ st \in {INCOMING, WAITING} =>
       /\ dir = "in"
       /\ Unused(s) # {}
       /\ Rerings \/ \A c \in FindByIdx(s, idx) : s.call[c].dir = "in" => s.call[c].state = st
  /\ st \in {DIALING, ALERTING} => dir = "out"
  /\ st = ONHOLD => \A c \in FindByIdx(s, idx) : s.call[c].state \in {ACTIVE, ONHOLD}
  /\ st = RELEASED => LateReleases \/ \A c \in FindByIdx(s, idx) : ~DialPending(s, c)

Report ==
  \E idx \in Indices, dir \in {"in", "out"}, st \in Reported, mpty \in Multi, enabled \in Enabled :
    /\ Plausible(dev, idx, dir, st)
    /\ Step(handle_clcc(dev, idx, dir, st, mpty, enabled))

(* +CCWA: a call waits.  Its report is requested and follows.              *)
CallWaiting ==
  /\ WAITING \in Reported
  /\ Step({[dev EXCEPT !.cwaiting = TRUE]})

-----------------------------------------------------------------------------
(* Results of the commands at the head of the queue.                       *)

Cmd   == Head(Head(dev.queue).cmds)
Owner == Head(dev.queue).of

(* The command is removed, and with it a task of one command.              *)
NextCommand(s) ==
  LET task == Head(s.queue)
  IN  [s EXCEPT !.queue =
         IF Len(task.cmds) = 1 THEN Tail(@)
         ELSE <<[task EXCEPT !.cmds = Tail(task.cmds)]>> \o Tail(@)]
NextTask(s) == [s EXCEPT !.queue = Tail(@)]

SetNeed(s, c, need) == IF c = Sys THEN s ELSE [s EXCEPT !.call[c].need = need]

(* at_response_ok.  The handler runs before the command is removed.        *)
ResultOk ==
  /\ dev.queue # <<>> /\ dev.sys # "freed"
  /\ LET c == Owner
         changed == CASE Cmd = "D" ->
                           LET s == [dev EXCEPT !.dialing = TRUE]
                           IN  {SetNeed(t, c, TRUE) :
                                  t \in IF c = Sys THEN {ChangeSys(s, DIALING)}
                                        ELSE cpvt_change_state(s, c, DIALING)}
                      [] Cmd \in {"A", "CHLD_2x"} -> {SetNeed(dev, c, TRUE)}
                      [] Cmd \in {"HUP", "CHLD_1x"} -> {SetNeed(dev, c, FALSE)}
                      [] OTHER -> {dev}
     IN  Step({NextCommand(s) : s \in changed})

QueueHangup(s, c) == IF c = Sys \/ ~s.call[c].chan THEN s ELSE [s EXCEPT !.call[c].hup = TRUE]

(* at_response_error: the whole task goes.                                 *)
ResultError ==
  /\ dev.queue # <<>> /\ dev.sys # "freed"
  /\ LET c == Owner
         changed == CASE Cmd \in {"A", "CHLD_2x", "CHLD_3"} -> {QueueHangup(dev, c)}
                      [] Cmd = "D" \/ (Cmd = "CHLD_2" /\ c # Sys /\ dev.call[c].opts # ""
                                         /\ dev.call[c].state = INIT) ->
                           IF c = Sys THEN {ChangeSys(dev, RELEASED)}
                           ELSE cpvt_change_state(dev, c, RELEASED)
                      [] OTHER -> {dev}
     IN  Step({NextTask(s) : s \in changed})

(* cmd_timeout removes the task, the calls are not told.                   *)
ResultTimeout ==
  /\ dev.queue # <<>>
  /\ Step({NextTask(dev)})

(* The OK of AT+CFUN, after a reset of the modem.                          *)
Reset ==
  /\ dev.ring \/ dev.dialing \/ dev.cwaiting
  /\ Step({Flags(dev, FALSE, FALSE, FALSE)})

(* pvt_disconnect: cpvt_change_state(RELEASED) for every call of the list, *)
(* then the queue, the audio and the flags.                                *)
Disconnect ==
  /\ dev.chans # <<>> \/ dev.queue # <<>>
  /\ LET in(st) == Cardinality({c \in Listed(dev) : dev.call[c].state = st})
         activated == {c \in Listed(dev) : dev.call[c].act}
     IN  Step({[Flags(dev, FALSE, FALSE, FALSE) EXCEPT
                  !.chans = <<>>,
                  !.call = [c \in CallIds |-> NoCall],
                  !.chansno = (@ + CountValues - Len(dev.chans)) % CountValues,
                  !.count = [st \in call_state_t |-> (@[st] + CountValues - in(st)) % CountValues],
                  !.mix = IF Mixing THEN @ \ activated ELSE @,
                  !.queue = <<>>, !.buf = FALSE, !.capture = FALSE]})

-----------------------------------------------------------------------------
Init ==
  /\ dev = [chans |-> <<>>, call |-> [c \in CallIds |-> NoCall], chansno |-> 0,
            count |-> [st \in call_state_t |-> 0],
            ring |-> FALSE, dialing |-> FALSE, cwaiting |-> FALSE, buf |-> FALSE,
            capture |-> FALSE, mix |-> {}, queue |-> <<>>, sys |-> RELEASED]
  /\ config = [uac |-> Uac, multiparty |-> Multiparty]

Channel ==
  \/ Request
  \/ \E c \in CallIds : Dial(c) \/ Hangup(c) \/ Answer(c) \/ Activate(c) \/ CaptureLost(c)

Modem == Report \/ CallWaiting \/ ResultOk \/ ResultError \/ ResultTimeout \/ Reset

Next == (Channel \/ Modem \/ Disconnect) /\ UNCHANGED config

Spec == Init /\ [][Next]_vars

-----------------------------------------------------------------------------
(* Properties.                                                             *)

TypeOK == dev \in Device

Masters == {c \in Listed(dev) : dev.call[c].master}

(* The counters, which the queue of dial commands and the status of the    *)
(* device go by, agree with the list, whatever the order in which reports, *)
(* results and hangups arrive.                                             *)
CountersAgree ==
  /\ dev.chansno = Len(dev.chans)
  /\ \A st \in call_state_t :
       dev.count[st] = Cardinality({c \in Listed(dev) : dev.call[c].state = st})

(* One call at most is the sound source of the device, and an activated    *)
(* one; call waiting and three-way calls move it between calls.            *)
OneMaster ==
  \A c, d \in Listed(dev) :
    dev.call[c].master => dev.call[c].act /\ (dev.call[d].master => c = d)

(* With ALSA, capture runs exactly while there is a master, and no other   *)
(* channel polls its descriptor: a late hold or release of the old master  *)
(* does not stop the new one's audio.                                      *)
MasterHasAudio ==
  config.uac =>
    /\ dev.capture <=> Masters # {}
    /\ \A c \in Listed(dev) : dev.call[c].fd = "audio" => dev.call[c].master

(* With a mixer, the streams in it are those of the activated calls: one   *)
(* too many would be memory of a call that was freed.                      *)
MixedIsActivated ==
  config.multiparty /\ ~config.uac => dev.mix = {c \in Listed(dev) : dev.call[c].act}

(* Call waiting, hold, release and failing capture move the sound source   *)
(* of the device from call to call: there is one at most, it is activated, *)
(* ALSA captures exactly for it, and the mixer of a tty has exactly the    *)
(* streams of activated calls (cpvt_call_activate, _disactivate).          *)
AudioFollowsCalls == OneMaster /\ MasterHasAudio /\ MixedIsActivated

(* The buffers of the device are there exactly while it has calls.         *)
BuffersWhileCalls == dev.buf <=> dev.chans # <<>>

(* The channel of a ringing or talking call that has no sound is being     *)
(* hung up, whatever failed (cpvt_call_activate, cpvt.c).                  *)
SilentCallsEnd ==
  config.uac => \A c \in Listed(dev) :
    /\ dev.call[c].chan /\ ~dev.call[c].local /\ ~dev.call[c].act
    /\ dev.call[c].state \in {DIALING, ALERTING, INCOMING, ACTIVE}
    => dev.call[c].hup

(* A call the modem has, or is going to dial, and that no channel is       *)
(* attached to, has been asked to end: nobody else would end it.           *)
OrphanIsHungUp ==
  \A c \in Listed(dev) :
    dev.call[c].placed /\ ~dev.call[c].chan => dev.call[c].asked

(* A call in the modem without a channel has been asked to end: no one     *)
(* else would (channel_hangup, at_response_ok of ATD).  This is said of a  *)
(* device with one call at a time: of two the index is lost on the way to  *)
(* the modem, see README.                                                  *)
NoCallLeftBehind == (\A c, d \in DOMAIN dev.call : c = d) => OrphanIsHungUp

(* While the device counts as dialling there is a call: otherwise no other *)
(* call could be made.                                                     *)
DialingHasCall == dev.dialing => dev.chans # <<>>

(* The counters, the dialling flag and the shared buffers agree with the   *)
(* list of calls after any order of reports, results and hangups (in       *)
(* cpvt_alloc, cpvt_free, cpvt_change_state), except that no release is    *)
(* reported before the answer of its ATD (LateReleases).                   *)
CallListIsTrue == CountersAgree /\ DialingHasCall /\ BuffersWhileCalls

(* An index stands for one call ("device call ID", cpvt.h:62).             *)
UniqueIdx ==
  \A c, d \in Listed(dev) : dev.call[c].idx = dev.call[d].idx => c = d

(* A call that was never placed ends with its channel: released is the     *)
(* state "on CEND or channel_hangup() called" (cpvt.h:28), and no CEND     *)
(* will come.                                                              *)
UnplacedEnds ==
  \A c \in Listed(dev) : ~dev.call[c].placed => dev.call[c].chan
=============================================================================
